-------------------------- MODULE StatusStreamProofs --------------------------
(***************************************************************************)
(* What a client sees is a path through the life cycle, for any number of  *)
(* orders, clients, servers and attempts: the invariants of the engine and *)
(* of the service, which their own modules prove, composed by the history  *)
(* of the channels.                                                        *)
(***************************************************************************)
EXTENDS StatusStreamInvariant, OrderEngineProofs, SequenceTheorems

(* The service with its theorems. *)
WS == INSTANCE WebSocketServiceProofs

-----------------------------------------------------------------------------
(* The two components. *)

(* The assumptions of the stream include those of the service. *)
LEMMA ServiceAssumed == WS!ServiceAssumption
<1>1. IsFiniteSet(Orders) = WS!IsFiniteSet(Orders)
  BY DEF IsFiniteSet, WS!IsFiniteSet
<1>2. Service!OutageKinds = WS!OutageKinds
  BY DEF Service!OutageKinds, WS!OutageKinds
<1> QED BY <1>1, <1>2, StreamAssumption DEF WS!ServiceAssumption

(* The service of the stream is the one of the theorems. *)
LEMMA SameService ==
  /\ Service!Init => WS!Init
  /\ \A s \in Sockets :
       /\ \A o \in Orders : Service!Connect(s, o) <=> WS!Connect(s, o)
       /\ Service!StartClosing(s) <=> WS!StartClosing(s)
       /\ Service!CloseEvent(s) <=> WS!CloseEvent(s)
       /\ Service!ErrorEvent(s) <=> WS!ErrorEvent(s)
  /\ Service!ExecuteCommand <=> WS!ExecuteCommand
  /\ \A o \in Orders : Service!PublishStatusUpdate(o) <=> WS!PublishStatusUpdate(o)
  /\ Service!HandleReply <=> WS!HandleReply
<1> USE DEF Service!socketVars, WS!socketVars, Service!serviceVars, WS!serviceVars,
            Service!redisVars, WS!redisVars
<1>1. Service!Init => WS!Init
  BY DEF Service!Init, WS!Init
<1>2. \A s \in Sockets, o \in Orders : Service!Connect(s, o) <=> WS!Connect(s, o)
  BY DEF Service!Connect, WS!Connect, Service!Subscribe, WS!Subscribe
<1>3. \A s \in Sockets : /\ Service!StartClosing(s) <=> WS!StartClosing(s)
                         /\ Service!CloseEvent(s) <=> WS!CloseEvent(s)
                         /\ Service!ErrorEvent(s) <=> WS!ErrorEvent(s)
  BY DEF Service!StartClosing, WS!StartClosing, Service!CloseEvent, WS!CloseEvent,
         Service!ErrorEvent, WS!ErrorEvent, Service!UnregisterConnection,
         WS!UnregisterConnection, Service!Unsubscribe, WS!Unsubscribe,
         Service!Closing, WS!Closing
<1>4. Service!ExecuteCommand <=> WS!ExecuteCommand
  BY DEF Service!ExecuteCommand, WS!ExecuteCommand
<1>5. \A o \in Orders : Service!PublishStatusUpdate(o) <=> WS!PublishStatusUpdate(o)
  <2>1. Service!PublishedUpdates = WS!PublishedUpdates
    BY DEF Service!PublishedUpdates, WS!PublishedUpdates
  <2>2. \A S : Service!Cardinality(S) = WS!Cardinality(S)
    BY DEF Service!Cardinality, WS!Cardinality
  <2> QED BY <2>1, <2>2 DEF Service!PublishStatusUpdate, WS!PublishStatusUpdate
<1>6. Service!HandleReply <=> WS!HandleReply
  BY DEF Service!HandleReply, WS!HandleReply, Service!SubscribeReply, WS!SubscribeReply,
         Service!UnsubscribeReply, WS!UnsubscribeReply, Service!ForwardMessage,
         WS!ForwardMessage
<1> QED BY <1>1, <1>2, <1>3, <1>4, <1>5, <1>6

(* Each step of the stream is a step of the engine and one of the service.   *)
LEMMA ComponentSteps ==
  ASSUME TypeOK, [StreamNext]_streamVars
  PROVE  [Next]_vars /\ [WS!Next]_WS!vars
<1>1. ASSUME UNCHANGED serviceState
      PROVE  UNCHANGED WS!vars
  BY <1>1 DEF serviceState, WS!vars
<1>2. ASSUME NEW o \in Orders, Publishing(o)
      PROVE  WS!Next
  BY <1>2, SameService DEF Publishing, WS!Next
<1>3. ASSUME NEW o \in Orders, RequestStep(o)
      PROVE  Next /\ [WS!Next]_WS!vars
  BY <1>1, <1>2, <1>3 DEF RequestStep, ControllerStep, Next, Silently
<1>4. ASSUME NEW o \in Orders, QueueStep(o)
      PROVE  Next /\ [WS!Next]_WS!vars
  BY <1>1, <1>4 DEF QueueStep, Next, Silently
<1>5. ASSUME NEW s \in Slots, RunStep(s)
      PROVE  Next /\ [WS!Next]_WS!vars
  <2>1. WorkerStep(s)
    BY <1>5 DEF RunStep, Working, Reporting, WorkerStep
  <2>2. run[s] # None => run[s].order \in Orders
    BY DEF TypeOK, Runs
  <2> QED BY <1>1, <1>2, <1>5, <2>1, <2>2 DEF RunStep, Silently, Next
<1>6. ASSUME (ClientStep \/ ServiceStep) /\ UNCHANGED <<vars, history>>
      PROVE  UNCHANGED vars /\ WS!Next
  BY <1>6, SameService DEF ClientStep, ServiceStep, WS!Next
<1>7. StreamAtRest => UNCHANGED vars /\ UNCHANGED WS!vars
  BY DEF StreamAtRest, AtRest, Service!Idle, Service!vars, WS!vars
<1>8. UNCHANGED streamVars => UNCHANGED vars /\ UNCHANGED WS!vars
  BY <1>1 DEF streamVars
<1> QED BY <1>3, <1>4, <1>5, <1>6, <1>7, <1>8 DEF StreamNext

(* The invariants of the engine and of the service hold of the stream.       *)
LEMMA ComponentInvariance == StreamSpec => [](IInv /\ WS!ServiceInv)
<1>1. StreamInit => IInv /\ WS!ServiceInv
  BY InitInv, SameService, ServiceAssumed, WS!ServiceInit DEF StreamInit
<1>2. IInv /\ WS!ServiceInv /\ [StreamNext]_streamVars => (IInv /\ WS!ServiceInv)'
  <2> SUFFICES ASSUME IInv, WS!ServiceInv, [StreamNext]_streamVars
               PROVE  IInv' /\ WS!ServiceInv'
    OBVIOUS
  <2>1. [Next]_vars /\ [WS!Next]_WS!vars
    BY ComponentSteps DEF IInv
  <2>2. IInv'
    BY <2>1, NextInv
  <2>3. WS!ServiceInv'
    BY <2>1, ServiceAssumed, WS!ServiceNext
  <2> QED BY <2>2, <2>3
<1> QED BY <1>1, <1>2, PTL DEF StreamSpec

(* The stream is the engine and the service side by side: neither does        *)
(* anything it does not do alone, so that whatever was proved of each holds  *)
(* of the two together.                                                      *)
THEOREM StreamComposes == StreamSpec => Spec /\ WS!Spec
<1>1. StreamInit => Init /\ WS!Init
  BY SameService DEF StreamInit
<1>2. IInv /\ [StreamNext]_streamVars => [Next]_vars /\ [WS!Next]_WS!vars
  BY ComponentSteps DEF IInv
<1> QED BY <1>1, <1>2, ComponentInvariance, PTL DEF StreamSpec, Spec, WS!Spec

-----------------------------------------------------------------------------
(* The history of a channel. *)

(* A publication adds the new last event to the history of its order.        *)
LEMMA HistoryGrows ==
  ASSUME TypeOK, WS!TypeOK, HistoryIsComplete, NEW o \in Orders, NEW e \in Statuses,
         Publishing(o), lastEvent' = [lastEvent EXCEPT ![o] = e]
  PROVE  /\ HistoryIsComplete'
         /\ \A q \in Orders : q # o => history'[q] = history[q] /\ lastEvent'[q] = lastEvent[q]
         /\ published[o] \in Nat
         /\ DOMAIN history[o] = 1..published[o] /\ Len(history[o]) = published[o]
         /\ DOMAIN history'[o] = 1..(published[o] + 1)
         /\ Len(history'[o]) = published[o] + 1
         /\ \A i \in DOMAIN history[o] : history'[o][i] = history[o][i]
         /\ history'[o][published[o] + 1] = e
         /\ lastEvent'[o] = e
<1>1. /\ history \in [Orders -> Seq(Statuses)] /\ published \in [Orders -> Nat]
      /\ lastEvent \in [Orders -> Statuses \cup {None}]
  BY ServiceAssumed DEF WS!ServiceAssumption, WS!TypeOK, TypeOK, HistoryIsComplete
<1>2. /\ history' = [history EXCEPT ![o] = Append(@, e)]
      /\ published' = [published EXCEPT ![o] = @ + 1]
      /\ lastEvent'[o] = e
  BY <1>1 DEF Publishing, Service!PublishStatusUpdate
<1> DEFINE h == history[o]
           g == Append(h, e)
<1>3. /\ h \in Seq(Statuses) /\ Len(h) = published[o] /\ Len(h) \in Nat
      /\ DOMAIN h = 1..Len(h)
  BY <1>1, LenProperties DEF HistoryIsComplete
<1>4. /\ g \in Seq(Statuses) /\ Len(g) = Len(h) + 1 /\ DOMAIN g = 1..(Len(h) + 1)
      /\ \A i \in 1..Len(h) : g[i] = h[i]
      /\ g[Len(h) + 1] = e /\ g # <<>>
  <2>1. /\ g \in Seq(Statuses) /\ Len(g) = Len(h) + 1
        /\ \A i \in 1..Len(h) : g[i] = h[i]
        /\ g[Len(h) + 1] = e /\ g # <<>>
    BY <1>3, AppendProperties
  <2> QED BY <2>1, LenProperties
<1>5. /\ history'[o] = g /\ published'[o] = published[o] + 1
      /\ history' \in [Orders -> Seq(Statuses)]
      /\ \A q \in Orders : q # o => /\ history'[q] = history[q]
                                    /\ lastEvent'[q] = lastEvent[q]
                                    /\ published'[q] = published[q]
  BY <1>1, <1>2, <1>4
<1> HIDE DEF g
<1>6. HistoryIsComplete'
  BY <1>2, <1>3, <1>4, <1>5 DEF HistoryIsComplete
<1> QED BY <1>2, <1>3, <1>4, <1>5, <1>6

(* What a step of the engine that publishes nothing leaves alone.            *)
LEMMA SilentSteps ==
  ASSUME TypeOK,
         \/ \E o \in Orders : (CreateRow(o) \/ AddOrder(o) \/ CountQueue(o)) \/ QueueStep(o)
         \/ \E s \in Slots : Working(s)
  PROVE  lastEvent' = lastEvent
         /\ \A o \in Orders : request'[o].step = "r201" <=> request[o].step = "r201"
<1>1. ASSUME NEW o \in Orders, CreateRow(o) \/ AddOrder(o) \/ CountQueue(o)
      PROVE  /\ lastEvent' = lastEvent
             /\ \A q \in Orders : request'[q].step = "r201" <=> request[q].step = "r201"
  BY <1>1 DEF CreateRow, AddOrder, CountQueue, Proceed, Reply, TypeOK, Requests
<1>2. ASSUME NEW o \in Orders, NEW k \in OrderKinds, NEW srv \in Servers, Submit(o, k, srv)
      PROVE  /\ lastEvent' = lastEvent
             /\ \A q \in Orders : request'[q].step = "r201" <=> request[q].step = "r201"
  BY <1>2 DEF Submit, Reply, TypeOK, Requests
<1>3. ASSUME NEW o \in Orders, QueueStep(o),
             ~\E k \in OrderKinds, srv \in Servers : Submit(o, k, srv)
      PROVE  UNCHANGED <<lastEvent, request>>
  BY <1>3 DEF QueueStep, TakeJob, PromoteDelayed, LoseLock, MoveStalledJob
<1>4. ASSUME NEW s \in Slots, Working(s)
      PROVE  UNCHANGED <<lastEvent, request>>
  BY <1>4 DEF Working, MarkPending, GetBestQuote, ExecuteSwap, RecordConfirmed,
     RecordFailed, RecordExhausted, CompleteJob, FailJob
<1> QED BY <1>1, <1>2, <1>3, <1>4

(* The announcement and the reports publish what they say.                   *)
LEMMA AnnouncementSays ==
  ASSUME TypeOK, NEW o \in Orders, AnnouncePending(o)
  PROVE  /\ lastEvent' = [lastEvent EXCEPT ![o] = "pending"]
         /\ request[o].step = "announcing" /\ request'[o].step = "r201"
         /\ \A q \in Orders : q # o => request'[q] = request[q]
         /\ UNCHANGED <<job, run>>
  BY StreamAssumption DEF AnnouncePending, Reply, TypeOK, Requests

LEMMA ReportsSay ==
  ASSUME TypeOK, NEW s \in Slots, Reporting(s)
  PROVE  /\ Busy(s) /\ run[s].order \in Orders
         /\ UNCHANGED <<request, job>>
         /\ \A u \in Slots : u # s => run'[u] = run[u]
         /\ run'[s].order = run[s].order
         /\ \E e \in Statuses \ {"pending"} :
              /\ lastEvent' = [lastEvent EXCEPT ![run[s].order] = e]
              /\ e \in LastSaid[run'[s].step]
              /\ \A x \in LastSaid[run[s].step] \ {None} : e \in Follows[x]
<1>1. ASSUME NEW step, NEW e, NEW next, Report(s, step, e, next)
      PROVE  /\ Busy(s) /\ run[s].order \in Orders
             /\ UNCHANGED <<request, job>>
             /\ \A u \in Slots : u # s => run'[u] = run[u]
             /\ run'[s].order = run[s].order
             /\ lastEvent' = [lastEvent EXCEPT ![run[s].order] = e]
             /\ run[s].step = step /\ run'[s].step = next
  <2>1. /\ Busy(s) /\ run[s].step = step /\ UNCHANGED <<request, job>>
        /\ EmitStatusUpdate(run[s].order, e)
        /\ run' = [run EXCEPT ![s].step = next]
    BY <1>1 DEF Report, At, Goto, Busy
  <2>2. /\ run[s] \in Runs /\ run[s].order \in Orders
        /\ run'[s] = [run[s] EXCEPT !.step = next]
        /\ \A u \in Slots : u # s => run'[u] = run[u]
    BY <2>1 DEF TypeOK, Busy, Runs
  <2>3. run'[s].order = run[s].order /\ run'[s].step = next
    BY <2>2 DEF Runs
  <2>4. lastEvent' = [lastEvent EXCEPT ![run[s].order] = e]
    BY <2>1, StreamAssumption DEF EmitStatusUpdate, PublishOutcomes
  <2> QED BY <2>1, <2>2, <2>3, <2>4
<1> USE EngineAssumption DEF Statuses, LastSaid, Follows
<1>2. CASE ReportRouting(s)
  BY <1>1, <1>2 DEF ReportRouting
<1>3. CASE ReportRouted(s)
  BY <1>1, <1>3 DEF ReportRouted
<1>4. CASE ReportBuilding(s)
  BY <1>1, <1>4 DEF ReportBuilding
<1>5. CASE ReportSubmitted(s)
  BY <1>1, <1>5 DEF ReportSubmitted
<1>6. CASE ReportConfirmed(s)
  BY <1>1, <1>6 DEF ReportConfirmed
<1>7. CASE ReportFailed(s)
  BY <1>1, <1>7 DEF ReportFailed
<1>8. CASE ReportExhausted(s)
  BY <1>1, <1>8 DEF ReportExhausted
<1> QED BY <1>2, <1>3, <1>4, <1>5, <1>6, <1>7, <1>8 DEF Reporting

-----------------------------------------------------------------------------
(* What the runs said last. *)

(* A run that goes on without a publication said what its next step needs.   *)
LEMMA WorkingGoesOn ==
  ASSUME NEW s \in Slots,
         \/ MarkPending(s) \/ GetBestQuote(s) \/ ExecuteSwap(s)
         \/ RecordConfirmed(s) \/ RecordFailed(s) \/ RecordExhausted(s)
  PROVE  /\ Busy(s) /\ UNCHANGED <<job, lastEvent>>
         /\ \E next : /\ run' = [run EXCEPT ![s].step = next]
                      /\ LastSaid[run[s].step] \subseteq LastSaid[next]
<1>1. ASSUME NEW step, NEW next, UNCHANGED <<job, lastEvent>>, At(s, step), Goto(s, next),
             LastSaid[step] \subseteq LastSaid[next]
      PROVE  /\ Busy(s) /\ UNCHANGED <<job, lastEvent>>
             /\ \E n : /\ run' = [run EXCEPT ![s].step = n]
                       /\ LastSaid[run[s].step] \subseteq LastSaid[n]
  BY <1>1 DEF At, Goto, Busy
<1>2. CASE MarkPending(s)
  <2>1. Dispatch(run[s]) \in {"routing", "failing", "exhausted", "throwing"}
    BY DEF Dispatch, AfterThrow
  <2>2. LastSaid["starting"] \subseteq LastSaid[Dispatch(run[s])]
    BY <2>1 DEF LastSaid
  <2> QED BY <1>1, <1>2, <2>2 DEF MarkPending
<1>3. CASE GetBestQuote(s)
  <2>1. /\ LastSaid["quoting"] \subseteq LastSaid["routed"]
        /\ LastSaid["quoting"] \subseteq LastSaid["failing"]
    BY DEF LastSaid
  <2> QED BY <1>1, <1>3, <2>1 DEF GetBestQuote
<1>4. CASE ExecuteSwap(s)
  <2>1. /\ LastSaid["swapping"] \subseteq LastSaid["confirming"]
        /\ LastSaid["swapping"] \subseteq LastSaid["failing"]
    BY DEF LastSaid
  <2> QED BY <1>1, <1>4, <2>1 DEF ExecuteSwap
<1>5. CASE RecordConfirmed(s)
  <2>1. LastSaid["persisting"] \subseteq LastSaid["returning"]
    BY DEF LastSaid
  <2> QED BY <1>1, <1>5, <2>1 DEF RecordConfirmed
<1>6. CASE RecordFailed(s)
  <2>1. AfterThrow(run[s]) \in {"exhausted", "throwing"}
    BY DEF AfterThrow
  <2>2. LastSaid["recording"] \subseteq LastSaid[AfterThrow(run[s])]
    BY <2>1 DEF LastSaid
  <2> QED BY <1>1, <1>6, <2>2 DEF RecordFailed
<1>7. CASE RecordExhausted(s)
  <2>1. LastSaid["burying"] \subseteq LastSaid["throwing"]
    BY DEF LastSaid
  <2> QED BY <1>1, <1>7, <2>1 DEF RecordExhausted
<1> QED BY <1>2, <1>3, <1>4, <1>5, <1>6, <1>7

LEMMA SaidGoingOn ==
  ASSUME TypeOK, RunsSayWhatTheyDo, WaitingHasFailed, NEW s \in Slots, Busy(s),
         UNCHANGED <<job, lastEvent>>, NEW next, run' = [run EXCEPT ![s].step = next],
         LastSaid[run[s].step] \subseteq LastSaid[next]
  PROVE  RunsSayWhatTheyDo' /\ WaitingHasFailed'
<1>1. /\ run[s] \in Runs /\ run'[s] = [run[s] EXCEPT !.step = next]
      /\ \A u \in Slots : u # s => run'[u] = run[u]
  BY DEF TypeOK, Busy
<1>2. run'[s].order = run[s].order /\ run'[s].step = next
  BY <1>1 DEF Runs
<1> QED BY <1>1, <1>2 DEF RunsSayWhatTheyDo, WaitingHasFailed, Busy

(* A run that ends leaves its job finished, or delayed after a failure.      *)
LEMMA SaidEnding ==
  ASSUME TypeOK, RunsSayWhatTheyDo, WaitingHasFailed, NEW s \in Slots,
         CompleteJob(s) \/ FailJob(s)
  PROVE  /\ RunsSayWhatTheyDo' /\ WaitingHasFailed'
         /\ \A o \in Orders : job'[o].stalled = job[o].stalled
<1> DEFINE o == run[s].order
<1>1. /\ Busy(s) /\ o \in Orders /\ lastEvent' = lastEvent
      /\ run' = [run EXCEPT ![s] = None]
      /\ \A q \in Orders : q # o => job'[q] = job[q]
  BY DEF CompleteJob, FailJob, TypeOK, Busy, Runs
<1>2. /\ job'[o].stalled = job[o].stalled
      /\ \/ job'[o].state = job[o].state
         \/ job'[o].state \in {"completed", "failed"}
         \/ job'[o].state = "delayed" /\ run[s].step = "throwing"
  <2>1. CASE CompleteJob(s)
    BY <1>1, <2>1 DEF CompleteJob, TypeOK, Jobs
  <2>2. CASE FailJob(s)
    BY <1>1, <2>2 DEF FailJob, TypeOK, Jobs
  <2> QED BY <2>1, <2>2
<1>3. run[s].step = "throwing" /\ job[o].stalled = 0
        => lastEvent[o] \in {None, "pending", "failed"}
  BY <1>1 DEF RunsSayWhatTheyDo, LastSaid
<1>4. \A u \in Slots : run'[u] # None => run'[u] = run[u] /\ run[u].order \in Orders
  BY <1>1 DEF TypeOK, Runs
<1> HIDE DEF o
<1>5. \A q \in Orders : job'[q].stalled = job[q].stalled
  BY <1>1, <1>2
<1>6. RunsSayWhatTheyDo'
  BY <1>1, <1>4, <1>5 DEF RunsSayWhatTheyDo, Busy
<1>7. WaitingHasFailed'
  BY <1>1, <1>2, <1>3 DEF WaitingHasFailed
<1> QED BY <1>5, <1>6, <1>7

(* A job enters the queue before anything was said of it, starts again after *)
(* a failure, and is not spoken of once it stalled.                          *)
LEMMA SaidQueueing ==
  ASSUME TypeOK, RequestsStoreInOrder, RunsSayWhatTheyDo, WaitingHasFailed, NEW o \in Orders,
         CreateRow(o) \/ AddOrder(o) \/ CountQueue(o) \/ QueueStep(o)
  PROVE  /\ RunsSayWhatTheyDo' /\ WaitingHasFailed'
         /\ \A q \in Orders : job'[q].stalled = 0 => job[q].stalled = 0
<1>0. \A s \in Slots : Busy(s) => run[s].order \in Orders
  BY DEF TypeOK, Busy, Runs
<1>1. ASSUME UNCHANGED <<job, run, lastEvent>>
      PROVE  /\ RunsSayWhatTheyDo' /\ WaitingHasFailed'
             /\ \A q \in Orders : job'[q].stalled = 0 => job[q].stalled = 0
  BY <1>1 DEF RunsSayWhatTheyDo, WaitingHasFailed, Busy
<1>2. ASSUME UNCHANGED <<run, lastEvent>>,
             \A q \in Orders : q # o => job'[q] = job[q],
             \/ job'[o].stalled # 0
             \/ /\ job'[o].stalled = job[o].stalled
                /\ \/ job'[o].state = "active"
                   \/ job[o].state \in {"none", "delayed"}
      PROVE  /\ RunsSayWhatTheyDo' /\ WaitingHasFailed'
             /\ \A q \in Orders : job'[q].stalled = 0 => job[q].stalled = 0
  BY <1>0, <1>2 DEF RunsSayWhatTheyDo, WaitingHasFailed, Busy
<1>3. CASE CreateRow(o) \/ CountQueue(o)
  BY <1>1, <1>3 DEF CreateRow, CountQueue
<1>4. CASE AddOrder(o)
  <2>1. job[o].state = "none"
    BY <1>4 DEF AddOrder, RequestsStoreInOrder
  <2>2. /\ UNCHANGED <<run, lastEvent>>
        /\ \A q \in Orders : q # o => job'[q] = job[q]
        /\ job'[o].stalled = job[o].stalled
    BY <1>4 DEF AddOrder, TypeOK, Jobs
  <2> QED BY <1>2, <2>1, <2>2
<1>5. CASE PromoteDelayed(o)
  BY <1>2, <1>5 DEF PromoteDelayed, TypeOK, Jobs
<1>6. CASE LoseLock(o)
  BY <1>2, <1>6 DEF LoseLock, TypeOK, Jobs
<1>7. CASE MoveStalledJob(o)
  <2>1. job[o].stalled \in Nat /\ job[o] \in Jobs
    BY EngineAssumption DEF TypeOK, Jobs, StalledCounts
  <2>2. /\ UNCHANGED <<run, lastEvent>>
        /\ \A q \in Orders : q # o => job'[q] = job[q]
        /\ job'[o].stalled = job[o].stalled + 1
    BY <1>7, <2>1 DEF MoveStalledJob, TypeOK, Jobs
  <2> QED BY <1>2, <2>1, <2>2
<1>8. ASSUME NEW s \in Slots, TakeJob(s, o)
      PROVE  /\ RunsSayWhatTheyDo' /\ WaitingHasFailed'
             /\ \A q \in Orders : job'[q].stalled = 0 => job[q].stalled = 0
  <2>1. /\ job[o].state = "waiting" /\ job'[o].state = "active"
        /\ job'[o].stalled = job[o].stalled
        /\ \A q \in Orders : q # o => job'[q] = job[q]
        /\ run'[s].order = o /\ run'[s].step = "starting"
        /\ \A u \in Slots : u # s => run'[u] = run[u]
        /\ lastEvent' = lastEvent
    BY <1>8 DEF TakeJob, TypeOK, Jobs
  <2>2. RunsSayWhatTheyDo'
    <3>1. ASSUME NEW u \in Slots, u # s, run'[u] # None, job'[run[u].order].stalled = 0
          PROVE  lastEvent[run[u].order] \in LastSaid[run[u].step] \cup {"pending"}
      BY <1>0, <2>1, <3>1 DEF RunsSayWhatTheyDo, Busy
    <3>2. job'[o].stalled = 0 => lastEvent[o] \in LastSaid["starting"] \cup {"pending"}
      BY <2>1 DEF WaitingHasFailed, LastSaid
    <3> QED BY <2>1, <3>1, <3>2 DEF RunsSayWhatTheyDo, Busy
  <2> QED BY <2>1, <2>2 DEF WaitingHasFailed
<1>9. ASSUME NEW k \in OrderKinds, NEW srv \in Servers, Submit(o, k, srv)
      PROVE  UNCHANGED <<job, run, lastEvent>>
  BY <1>9 DEF Submit
<1> QED BY <1>1, <1>3, <1>4, <1>5, <1>6, <1>7, <1>8, <1>9 DEF QueueStep

-----------------------------------------------------------------------------
(* The history keeps its invariant. *)

(* A step that publishes nothing. *)
LEMMA HistoryStays ==
  ASSUME HistoryIsComplete, PendingIsAnnouncedOnce, HistoryFollowsLifecycle,
         UNCHANGED <<history, published, lastEvent>>,
         \A o \in Orders : request'[o].step = "r201" <=> request[o].step = "r201",
         \A o \in Orders : job'[o].stalled = 0 => job[o].stalled = 0
  PROVE  HistoryIsComplete' /\ PendingIsAnnouncedOnce' /\ HistoryFollowsLifecycle'
  BY DEF HistoryIsComplete, PendingIsAnnouncedOnce, HistoryFollowsLifecycle

(* A publication extends a path by what follows its end. *)
LEMMA PathGrows ==
  ASSUME HistoryFollowsLifecycle, UNCHANGED job, NEW o \in Orders,
         \A q \in Orders : q # o => history'[q] = history[q],
         published[o] \in Nat,
         DOMAIN history[o] = 1..published[o], Len(history[o]) = published[o],
         Len(history'[o]) = published[o] + 1,
         \A i \in DOMAIN history[o] : history'[o][i] = history[o][i],
         LET last == history[o][published[o]]
             new == history'[o][published[o] + 1]
         IN job[o].stalled = 0 /\ published[o] # 0 /\ "pending" \notin {last, new}
              => new \in Follows[last]
  PROVE  HistoryFollowsLifecycle'
<1> DEFINE Follow(h, i) == "pending" \notin {h[i], h[i + 1]} => h[i + 1] \in Follows[h[i]]
<1> SUFFICES ASSUME NEW q \in Orders, job[q].stalled = 0,
                    NEW i \in 1..(Len(history'[q]) - 1)
             PROVE  Follow(history'[q], i)
  BY DEF HistoryFollowsLifecycle
<1>1. CASE q # o
  BY <1>1 DEF HistoryFollowsLifecycle
<1>2. CASE q = o /\ i < published[o]
  <2>1. i \in 1..(Len(history[o]) - 1) /\ i \in DOMAIN history[o] /\ i + 1 \in DOMAIN history[o]
    BY <1>2
  <2>2. Follow(history[o], i)
    BY <1>2, <2>1 DEF HistoryFollowsLifecycle
  <2>3. history'[o][i] = history[o][i] /\ history'[o][i + 1] = history[o][i + 1]
    BY <2>1
  <2> QED BY <1>2, <2>2, <2>3
<1>3. CASE q = o /\ i = published[o]
  <2>1. published[o] # 0
    BY <1>3
  <2>2. ASSUME "pending" \notin {history'[o][i], history'[o][i + 1]}
        PROVE  history'[o][i + 1] \in Follows[history'[o][i]]
    <3>1. history'[o][i] = history[o][i]
      BY <1>3, <2>1
    <3> QED BY <1>3, <2>1, <2>2, <3>1
  <2> QED BY <1>3, <2>2
<1>4. q = o => i < published[o] \/ i = published[o]
  OBVIOUS
<1> QED BY <1>1, <1>2, <1>3, <1>4

(* The request announces pending for the first time, and then replies.       *)
LEMMA HistoryAnnounce ==
  ASSUME TypeOK, WS!TypeOK, HistoryInv, NEW o \in Orders, AnnouncePending(o), Publishing(o)
  PROVE  HistoryInv'
<1> USE DEF HistoryInv
<1>1. /\ lastEvent' = [lastEvent EXCEPT ![o] = "pending"]
      /\ request[o].step # "r201" /\ request'[o].step = "r201"
      /\ \A q \in Orders : q # o => request'[q] = request[q]
      /\ UNCHANGED <<job, run>>
  BY AnnouncementSays
<1>2. /\ HistoryIsComplete'
      /\ \A q \in Orders : q # o => history'[q] = history[q] /\ lastEvent'[q] = lastEvent[q]
      /\ published[o] \in Nat
      /\ DOMAIN history[o] = 1..published[o]
      /\ DOMAIN history'[o] = 1..(published[o] + 1)
      /\ Len(history'[o]) = published[o] + 1 /\ Len(history[o]) = published[o]
      /\ \A i \in DOMAIN history[o] : history'[o][i] = history[o][i]
      /\ history'[o][published[o] + 1] = "pending"
      /\ lastEvent'[o] = "pending"
  BY <1>1, HistoryGrows DEF Statuses
<1>3. PendingIsAnnouncedOnce'
  <2>1. \A i \in DOMAIN history[o] : history[o][i] # "pending"
    BY <1>1 DEF PendingIsAnnouncedOnce
  <2>2. \A i \in DOMAIN history'[o] : history'[o][i] = "pending" <=> i = published[o] + 1
    BY <1>2, <2>1
  <2> QED BY <1>1, <1>2, <2>2 DEF PendingIsAnnouncedOnce
<1>4. RunsSayWhatTheyDo'
  BY <1>1, <1>2 DEF RunsSayWhatTheyDo, Busy, TypeOK, Runs
<1>5. WaitingHasFailed'
  BY <1>1, <1>2 DEF WaitingHasFailed
<1>6. HistoryFollowsLifecycle'
  BY <1>1, <1>2, PathGrows
<1> QED BY <1>2, <1>3, <1>4, <1>5, <1>6

(* The only run of the current delivery says what follows what was said.     *)
LEMMA HistoryReport ==
  ASSUME TypeOK, WS!TypeOK, ExecutionInv, HistoryInv, NEW s \in Slots, Reporting(s),
         Publishing(run[s].order)
  PROVE  HistoryInv'
<1> USE DEF HistoryInv
<1>0. PICK o \in Orders : o = run[s].order
  BY ReportsSay
<1>1. /\ Busy(s) /\ UNCHANGED <<request, job>>
      /\ \A u \in Slots : u # s => run'[u] = run[u]
      /\ run'[s].order = o
  BY <1>0, ReportsSay
<1>2. PICK e \in Statuses \ {"pending"} :
        /\ lastEvent' = [lastEvent EXCEPT ![o] = e]
        /\ e \in LastSaid[run'[s].step]
        /\ \A x \in LastSaid[run[s].step] \ {None} : e \in Follows[x]
  BY <1>0, ReportsSay
<1>3. /\ HistoryIsComplete'
      /\ \A q \in Orders : q # o => history'[q] = history[q] /\ lastEvent'[q] = lastEvent[q]
      /\ published[o] \in Nat
      /\ DOMAIN history[o] = 1..published[o]
      /\ DOMAIN history'[o] = 1..(published[o] + 1)
      /\ Len(history'[o]) = published[o] + 1 /\ Len(history[o]) = published[o]
      /\ \A i \in DOMAIN history[o] : history'[o][i] = history[o][i]
      /\ history'[o][published[o] + 1] = e
      /\ lastEvent'[o] = e
  BY <1>0, <1>2, HistoryGrows
<1>4. PendingIsAnnouncedOnce'
  <2>1. \A i \in DOMAIN history'[o] :
          history'[o][i] = "pending" <=> i \in DOMAIN history[o] /\ history[o][i] = "pending"
    BY <1>2, <1>3
  <2> DEFINE announced(h) == {i \in DOMAIN h : h[i] = "pending"}
  <2>2. \A q \in Orders : announced(history'[q]) = announced(history[q])
    <3>1. DOMAIN history[o] \subseteq DOMAIN history'[o]
      BY <1>3
    <3>2. announced(history'[o]) = announced(history[o])
      BY <1>3, <2>1, <3>1
    <3> QED BY <1>3, <3>2
  <2>3. \A q \in Orders : /\ request[q].step = "r201" <=> announced(history[q]) # {}
                          /\ \A i, j \in announced(history[q]) : i = j
    BY DEF PendingIsAnnouncedOnce
  <2>4. \A q \in Orders : /\ request'[q].step = "r201" <=> announced(history'[q]) # {}
                          /\ \A i, j \in announced(history'[q]) : i = j
    <3> HIDE DEF announced
    <3> QED BY <1>1, <2>2, <2>3
  <2> QED BY <2>4 DEF PendingIsAnnouncedOnce
<1>5. /\ job[o].stalled \in Nat /\ run[s].stalled \in Nat
      /\ \A u \in Slots : Busy(u) => run[u].stalled \in Nat /\ run[u].order \in Orders
  BY <1>1, EngineAssumption DEF TypeOK, Jobs, Runs, StalledCounts, Busy
<1>6. ASSUME job[o].stalled = 0
      PROVE  /\ job[o].state = "active"
             /\ \A u \in Slots : Busy(u) /\ run[u].order = o => u = s
  <2>1. \A u \in Slots : Busy(u) /\ run[u].order = o =>
          run[u].stalled = 0 /\ job[o].state = "active"
    BY <1>5, <1>6 DEF ExecutionInv, RunsBelongToDeliveries
  <2> QED BY <1>0, <1>1, <2>1 DEF ExecutionInv, OneRunPerDelivery
<1>7. RunsSayWhatTheyDo'
  <2> SUFFICES ASSUME NEW u \in Slots, Busy(u)', job[run'[u].order].stalled = 0
               PROVE  lastEvent'[run'[u].order] \in LastSaid[run'[u].step] \cup {"pending"}
    BY <1>1 DEF RunsSayWhatTheyDo
  <2>1. CASE u = s
    BY <1>1, <1>2, <1>3, <2>1
  <2>2. CASE u # s
    <3>1. run'[u] = run[u] /\ Busy(u) /\ run[u].order # o
      BY <1>0, <1>1, <1>6, <2>2 DEF Busy
    <3> QED BY <1>3, <1>5, <3>1 DEF RunsSayWhatTheyDo
  <2> QED BY <2>1, <2>2
<1>8. WaitingHasFailed'
  BY <1>1, <1>3, <1>6 DEF WaitingHasFailed
<1>9. HistoryFollowsLifecycle'
  <2> SUFFICES ASSUME job[o].stalled = 0, published[o] # 0,
                      history[o][published[o]] # "pending"
               PROVE  e \in Follows[history[o][published[o]]]
    BY <1>1, <1>3, PathGrows
  <2>1. published[o] \in DOMAIN history[o] /\ history[o] # <<>>
    BY <1>3
  <2>2. lastEvent[o] = history[o][published[o]]
    BY <1>3, <2>1 DEF HistoryIsComplete
  <2>3. lastEvent[o] \in LastSaid[run[s].step] \cup {"pending"}
    BY <1>0, <1>1 DEF RunsSayWhatTheyDo
  <2>4. history[o][published[o]] # None
    <3>1. history[o] \in Seq(Statuses)
      BY DEF HistoryIsComplete
    <3> QED BY <1>3, <2>1, <3>1, ElementOfSeq, EngineAssumption
  <2> QED BY <1>2, <2>2, <2>3, <2>4
<1> QED BY <1>3, <1>4, <1>7, <1>8, <1>9

(* Every step of the stream. *)
LEMMA HistoryNext ==
  ASSUME IInv, WS!TypeOK, HistoryInv, [StreamNext]_streamVars
  PROVE  HistoryInv'
<1>0. /\ TypeOK /\ ExecutionInv /\ RequestsStoreInOrder
      /\ HistoryIsComplete /\ PendingIsAnnouncedOnce /\ HistoryFollowsLifecycle
      /\ RunsSayWhatTheyDo /\ WaitingHasFailed
  BY DEF IInv, StorageInv, HistoryInv
<1>1. ASSUME NEW o \in Orders, CreateRow(o) \/ AddOrder(o) \/ CountQueue(o) \/ QueueStep(o),
             Silently
      PROVE  HistoryInv'
  <2>1. /\ lastEvent' = lastEvent
        /\ \A q \in Orders : request'[q].step = "r201" <=> request[q].step = "r201"
    BY <1>0, <1>1, SilentSteps
  <2>2. /\ RunsSayWhatTheyDo' /\ WaitingHasFailed'
        /\ \A q \in Orders : job'[q].stalled = 0 => job[q].stalled = 0
    BY <1>0, <1>1, SaidQueueing
  <2>3. UNCHANGED <<history, published>>
    BY <1>1 DEF Silently, serviceState
  <2> QED BY <1>0, <2>1, <2>2, <2>3, HistoryStays DEF HistoryInv
<1>2. ASSUME NEW s \in Slots, Working(s), Silently
      PROVE  HistoryInv'
  <2>1. /\ lastEvent' = lastEvent
        /\ \A q \in Orders : request'[q].step = "r201" <=> request[q].step = "r201"
    BY <1>0, <1>2, SilentSteps
  <2>2. /\ RunsSayWhatTheyDo' /\ WaitingHasFailed'
        /\ \A q \in Orders : job'[q].stalled = job[q].stalled
    <3>1. CASE CompleteJob(s) \/ FailJob(s)
      BY <1>0, <3>1, SaidEnding
    <3>2. CASE ~(CompleteJob(s) \/ FailJob(s))
      <4>1. /\ Busy(s) /\ UNCHANGED <<job, lastEvent>>
            /\ \E next : /\ run' = [run EXCEPT ![s].step = next]
                         /\ LastSaid[run[s].step] \subseteq LastSaid[next]
        BY <1>2, <3>2, WorkingGoesOn DEF Working
      <4> QED BY <1>0, <4>1, SaidGoingOn
    <3> QED BY <3>1, <3>2
  <2>3. UNCHANGED <<history, published>>
    BY <1>2 DEF Silently, serviceState
  <2> QED BY <1>0, <2>1, <2>2, <2>3, HistoryStays DEF HistoryInv
<1>3. ASSUME UNCHANGED <<vars, published, history>>
      PROVE  HistoryInv'
  <2>1. UNCHANGED <<request, job, run, lastEvent>>
    BY <1>3 DEF vars
  <2>2. RunsSayWhatTheyDo' /\ WaitingHasFailed'
    BY <1>0, <2>1 DEF RunsSayWhatTheyDo, WaitingHasFailed, Busy
  <2> QED BY <1>0, <1>3, <2>1, <2>2, HistoryStays DEF HistoryInv
<1>4. ASSUME (ClientStep \/ ServiceStep) /\ UNCHANGED <<vars, history>>
      PROVE  published' = published
  BY <1>4 DEF ClientStep, ServiceStep, Service!Connect, Service!StartClosing,
     Service!ErrorEvent, Service!CloseEvent, Service!ExecuteCommand, Service!HandleReply,
     Service!SubscribeReply, Service!UnsubscribeReply, Service!ForwardMessage,
     Service!redisVars
<1>5. StreamAtRest \/ UNCHANGED streamVars => UNCHANGED <<vars, published, history>>
  BY DEF StreamAtRest, AtRest, streamVars, Service!Idle, Service!vars, serviceState
<1>6. ASSUME NEW o \in Orders, RequestStep(o)
      PROVE  HistoryInv'
  BY <1>0, <1>1, <1>6, HistoryAnnounce DEF RequestStep
<1>7. ASSUME NEW s \in Slots, RunStep(s)
      PROVE  HistoryInv'
  BY <1>0, <1>2, <1>7, HistoryReport DEF RunStep
<1>8. ASSUME NEW o \in Orders, QueueStep(o)
      PROVE  HistoryInv'
  <2>1. Silently
    BY <1>8 DEF QueueStep
  <2> QED BY <1>1, <1>8, <2>1
<1> QED BY <1>3, <1>4, <1>5, <1>6, <1>7, <1>8 DEF StreamNext

-----------------------------------------------------------------------------
(* What reaches the clients. *)

(* What follows the announcement goes on doing so when the history grows.    *)
LEMMA AfterPendingStays ==
  ASSUME NEW h, NEW g, DOMAIN h \subseteq DOMAIN g, \A i \in DOMAIN h : g[i] = h[i],
         NEW u, AfterPending(h, u)
  PROVE  AfterPending(g, u)
  BY DEF AfterPending

(* An order that has a subscription was announced. *)
LEMMA SubscribedIsAnnounced ==
  ASSUME WS!ServiceInv, HistoryInv, ClientInv, NEW o \in Orders, o \in subscribed
  PROVE  \A u \in Nat : u > published[o] => AfterPending(history[o], u)
<1>1. PICK s \in Sockets : target[s] = o
  BY DEF WS!ServiceInv, WS!SoleInv, WS!NothingOfUnwatched
<1>2. request[o].step = "r201"
  BY <1>1, StreamAssumption DEF ClientInv, WatchedIsAccepted
<1>3. PICK p \in DOMAIN history[o] : history[o][p] = "pending"
  BY <1>2 DEF HistoryInv, PendingIsAnnouncedOnce
<1>4. published[o] \in Nat /\ DOMAIN history[o] = 1..published[o]
  <2>1. history[o] \in Seq(Statuses) /\ Len(history[o]) = published[o]
    BY DEF HistoryInv, HistoryIsComplete
  <2> QED BY <2>1, LenProperties
<1>5. \A u \in Nat : u > published[o] => p < u
  BY <1>4
<1> QED BY <1>3, <1>5 DEF AfterPending

(* What is on its way, and what was received, has an order.                  *)
LEMMA ClientTypes ==
  ASSUME WS!ServiceInv
  PROVE  /\ \A i \in DOMAIN replies : replies[i].op = "message" => replies[i].order \in Orders
         /\ \A s \in Sockets : \A i \in DOMAIN received[s] : target[s] \in Orders
<1>1. \A i \in DOMAIN replies : replies[i] \in WS!Commands \cup WS!Messages
  <2>1. replies \in Seq(WS!Commands \cup WS!Messages)
    BY DEF WS!ServiceInv, WS!TypeOK
  <2> QED BY <2>1, LenProperties, ElementOfSeq
<1>2. \A s \in Sockets : DOMAIN received[s] = {} \/ target[s] \in Orders
  <2> SUFFICES ASSUME NEW s \in Sockets, target[s] \notin Orders
               PROVE  DOMAIN received[s] = {}
    OBVIOUS
  <2>1. received[s] = <<>>
    BY DEF WS!ServiceInv, WS!DeliveryInv, WS!SocketsKnowTheirOrder
  <2> QED BY <2>1
<1> QED BY <1>1, <1>2 DEF WS!Commands, WS!Messages

(* A publication sends on what comes after pending, if it sends it at all.   *)
LEMMA ClientPublish ==
  ASSUME TypeOK, WS!ServiceInv, HistoryInv, ClientInv, NEW o \in Orders, NEW e \in Statuses,
         Publishing(o), lastEvent' = [lastEvent EXCEPT ![o] = e],
         \A q \in Orders : request[q].step = "r201" => request'[q].step = "r201"
  PROVE  ClientInv'
<1>1. WS!TypeOK /\ HistoryIsComplete
  BY DEF WS!ServiceInv, HistoryInv
<1>2. /\ \A q \in Orders : q # o => history'[q] = history[q]
      /\ published[o] \in Nat
      /\ DOMAIN history[o] = 1..published[o]
      /\ DOMAIN history'[o] = 1..(published[o] + 1)
      /\ \A i \in DOMAIN history[o] : history'[o][i] = history[o][i]
  BY <1>1, HistoryGrows
<1>3. \A q \in Orders : \A u : AfterPending(history[q], u) => AfterPending(history'[q], u)
  <2>1. DOMAIN history[o] \subseteq DOMAIN history'[o]
    BY <1>2
  <2>2. \A u : AfterPending(history[o], u) => AfterPending(history'[o], u)
    BY <1>2, <2>1, AfterPendingStays
  <2> QED BY <1>2, <2>2
<1> DEFINE m == [op |-> "message", order |-> o, update |-> published[o] + 1]
<1>4. /\ UNCHANGED <<target, received>>
      /\ WS!PublishStatusUpdate(o)
      /\ replies' = IF o \in subscribed THEN Append(replies, m) ELSE replies
  BY SameService DEF Publishing, Service!PublishStatusUpdate, Service!socketVars,
     Service!serviceVars
<1>5. WatchedIsAccepted'
  BY <1>1, <1>4 DEF ClientInv, WatchedIsAccepted, WS!TypeOK
<1>6. \A s \in Sockets : \A i \in DOMAIN received[s] :
        AfterPending(history'[target[s]], received[s][i])
  BY <1>3, ClientTypes DEF ClientInv, PendingIsPast
<1>7. \A i \in DOMAIN replies : replies[i].op = "message"
        => AfterPending(history'[replies[i].order], replies[i].update)
  BY <1>3, ClientTypes DEF ClientInv, PendingIsPast
<1>8. \A i \in DOMAIN replies' : replies'[i].op = "message"
        => AfterPending(history'[replies'[i].order], replies'[i].update)
  <2>1. CASE o \in subscribed
    <3>1. m \in WS!Commands \cup WS!Messages
      BY <1>1, <1>4, ServiceAssumed, WS!UpdatesAreBounded
         DEF WS!PublishStatusUpdate, WS!Messages
    <3>2. m.order = o /\ m.update = published[o] + 1
      OBVIOUS
    <3> HIDE DEF m
    <3>3. /\ DOMAIN replies = 1..Len(replies)
          /\ DOMAIN replies' = 1..(Len(replies) + 1)
          /\ Len(replies) \in Nat
          /\ \A i \in DOMAIN replies : replies'[i] = replies[i]
          /\ replies'[Len(replies) + 1] = m
      BY <1>1, <1>4, <2>1, <3>1, ServiceAssumed, WS!AnswerType
    <3>4. AfterPending(history[o], published[o] + 1)
      <4>1. published[o] + 1 \in Nat /\ published[o] + 1 > published[o]
        BY <1>2
      <4> QED BY <2>1, <4>1, SubscribedIsAnnounced
    <3>5. AfterPending(history'[m.order], m.update)
      BY <1>3, <3>2, <3>4
    <3> QED BY <1>7, <3>3, <3>5
  <2>2. CASE o \notin subscribed
    BY <1>4, <1>7, <2>2
  <2> QED BY <2>1, <2>2
<1> QED BY <1>4, <1>5, <1>6, <1>8 DEF ClientInv, PendingIsPast

(* A step that only takes from what is on its way. *)
LEMMA ClientStays ==
  ASSUME ClientInv, UNCHANGED <<target, received, history>>,
         WS!ServiceInv,
         \A q \in Orders : request[q].step = "r201" => request'[q].step = "r201",
         \A i \in DOMAIN replies' : replies'[i].op = "message" =>
           \E j \in DOMAIN replies : replies[j] = replies'[i]
  PROVE  ClientInv'
<1>1. WatchedIsAccepted'
  BY DEF ClientInv, WatchedIsAccepted, WS!ServiceInv, WS!TypeOK
<1>2. PendingIsPast'
  BY DEF ClientInv, PendingIsPast
<1> QED BY <1>1, <1>2 DEF ClientInv

(* A client connects once its request was answered. *)
LEMMA ClientConnect ==
  ASSUME ClientInv, WS!ServiceInv, NEW s \in Sockets, NEW o \in Orders,
         request[o].step = "r201", Service!Connect(s, o), UNCHANGED <<request, history>>
  PROVE  ClientInv'
<1>1. /\ target' = [target EXCEPT ![s] = o] /\ UNCHANGED <<received, replies>>
      /\ readyState[s] = "none"
  BY DEF Service!Connect, Service!redisVars
<1>2. target \in [Sockets -> Orders \cup {None}]
  BY DEF WS!ServiceInv, WS!TypeOK
<1>3. WatchedIsAccepted'
  BY <1>1, <1>2 DEF ClientInv, WatchedIsAccepted
<1>4. DOMAIN received[s] = {}
  <2>1. received[s] = <<>>
    BY <1>1 DEF WS!ServiceInv, WS!DeliveryInv, WS!SocketsKnowTheirOrder
  <2> QED BY <2>1
<1>5. PendingIsPast'
  BY <1>1, <1>2, <1>4 DEF ClientInv, PendingIsPast
<1> QED BY <1>3, <1>5 DEF ClientInv

(* The service handles a reply. *)
LEMMA ClientHandle ==
  ASSUME ClientInv, WS!ServiceInv, Service!HandleReply, UNCHANGED <<request, history>>
  PROVE  ClientInv'
<1>1. /\ replies # <<>> /\ replies' = Tail(replies) /\ target' = target
      /\ \/ received' = received
         \/ Service!ForwardMessage
  BY DEF Service!HandleReply, Service!SubscribeReply, Service!UnsubscribeReply,
         Service!ForwardMessage, Service!socketVars
<1>2. /\ 1 \in DOMAIN replies /\ Head(replies) = replies[1]
      /\ \A i \in DOMAIN replies' : i + 1 \in DOMAIN replies /\ replies'[i] = replies[i + 1]
  BY <1>1, ServiceAssumed, WS!HandleType DEF WS!ServiceInv
<1>3. CASE received' = received
  BY <1>1, <1>2, <1>3, ClientStays
<1>4. CASE Service!ForwardMessage /\ received' # received
  <2> DEFINE m == Head(replies)
             s == connections[m.order]
  <2>1. /\ m.op = "message" /\ s # None
        /\ received' = [received EXCEPT ![s] = Append(@, m.update)]
    BY <1>4 DEF Service!ForwardMessage
  <2>2. m.order \in Orders
    BY <1>2, <2>1, ClientTypes
  <2>3. s \in Sockets /\ target[s] = m.order
    BY <2>1, <2>2 DEF WS!ServiceInv, WS!TypeOK, WS!DeliveryInv, WS!MapHoldsLiveSockets
  <2>4. AfterPending(history[target[s]], m.update)
    BY <1>2, <2>1, <2>3 DEF ClientInv, PendingIsPast
  <2>5. m.update \in 1..MaxUpdates
    <3>1. replies \in Seq(WS!Commands \cup WS!Messages)
      BY DEF WS!ServiceInv, WS!TypeOK
    <3>2. m \in WS!Commands \cup WS!Messages
      BY <1>2, <3>1, LenProperties, ElementOfSeq
    <3> QED BY <2>1, <3>2 DEF WS!Commands, WS!Messages
  <2> HIDE DEF m, s
  <2>6. \A i \in DOMAIN received'[s] :
          (i \in DOMAIN received[s] /\ received'[s][i] = received[s][i])
          \/ received'[s][i] = m.update
    <3>1. received \in [Sockets -> Seq(1..MaxUpdates)]
      BY DEF WS!ServiceInv, WS!TypeOK
    <3>2. received'[s] = Append(received[s], m.update) /\ received[s] \in Seq(1..MaxUpdates)
      BY <2>1, <2>3, <3>1
    <3>3. /\ Append(received[s], m.update) \in Seq(1..MaxUpdates)
          /\ Len(Append(received[s], m.update)) = Len(received[s]) + 1
          /\ \A i \in 1..Len(received[s]) : Append(received[s], m.update)[i] = received[s][i]
          /\ Append(received[s], m.update)[Len(received[s]) + 1] = m.update
      BY <2>5, <3>2, AppendProperties
    <3>4. /\ DOMAIN received[s] = 1..Len(received[s]) /\ Len(received[s]) \in Nat
          /\ DOMAIN received'[s] = 1..(Len(received[s]) + 1)
      BY <3>2, <3>3, LenProperties
    <3> QED BY <3>2, <3>3, <3>4
  <2>7. \A w \in Sockets : w # s => received'[w] = received[w]
    BY <2>1, <2>3 DEF WS!ServiceInv, WS!TypeOK
  <2>8. \A w \in Sockets : \A i \in DOMAIN received'[w] :
          AfterPending(history[target[w]], received'[w][i])
    BY <2>4, <2>6, <2>7 DEF ClientInv, PendingIsPast
  <2>9. \A i \in DOMAIN replies' : replies'[i].op = "message"
          => AfterPending(history[replies'[i].order], replies'[i].update)
    BY <1>2 DEF ClientInv, PendingIsPast
  <2>10. WatchedIsAccepted'
    BY <1>1 DEF ClientInv, WatchedIsAccepted
  <2> QED BY <1>1, <2>8, <2>9, <2>10 DEF ClientInv, PendingIsPast
<1> QED BY <1>1, <1>3, <1>4

(* Redis executes a command, whose reply is no message. *)
LEMMA ClientExecute ==
  ASSUME ClientInv, WS!ServiceInv, Service!ExecuteCommand, UNCHANGED <<request, history>>
  PROVE  ClientInv'
<1> DEFINE c == Head(commands)
<1>1. /\ UNCHANGED <<target, received>> /\ replies' = Append(replies, c) /\ commands # <<>>
  BY DEF Service!ExecuteCommand, Service!socketVars, Service!serviceVars
<1>2. c \in WS!Commands
  <2>1. commands \in Seq(WS!Commands)
    BY DEF WS!ServiceInv, WS!TypeOK
  <2> QED BY <1>1, <2>1, HeadTailProperties
<1>3. c.op # "message"
  BY <1>2 DEF WS!Commands
<1> HIDE DEF c
<1>4. /\ DOMAIN replies = 1..Len(replies) /\ Len(replies) \in Nat
      /\ DOMAIN replies' = 1..(Len(replies) + 1)
      /\ \A i \in DOMAIN replies : replies'[i] = replies[i]
      /\ replies'[Len(replies) + 1] = c
  BY <1>1, <1>2, ServiceAssumed, WS!AnswerType DEF WS!ServiceInv
<1>5. \A i \in DOMAIN replies' : replies'[i].op = "message" =>
        \E j \in DOMAIN replies : replies[j] = replies'[i]
  BY <1>3, <1>4
<1> QED BY <1>1, <1>5, ClientStays

(* Every step of the stream. *)
LEMMA ClientNext ==
  ASSUME IInv, WS!ServiceInv, HistoryInv, ClientInv, [StreamNext]_streamVars
  PROVE  ClientInv'
<1>0. TypeOK
  BY DEF IInv
<1>1. ASSUME UNCHANGED <<target, received, history, replies>>,
             \A q \in Orders : request[q].step = "r201" => request'[q].step = "r201"
      PROVE  ClientInv'
  BY <1>1, ClientStays
<1>2. ASSUME NEW o \in Orders, RequestStep(o)
      PROVE  ClientInv'
  <2>1. CASE (CreateRow(o) \/ AddOrder(o) \/ CountQueue(o)) /\ Silently
    <3>1. \A q \in Orders : request'[q].step = "r201" <=> request[q].step = "r201"
      BY <1>0, <2>1, SilentSteps
    <3> QED BY <1>1, <2>1, <3>1 DEF Silently, serviceState
  <2>2. CASE AnnouncePending(o) /\ Publishing(o)
    <3>1. /\ lastEvent' = [lastEvent EXCEPT ![o] = "pending"]
          /\ \A q \in Orders : request[q].step = "r201" => request'[q].step = "r201"
      BY <1>0, <2>2, AnnouncementSays
    <3> QED BY <1>0, <2>2, <3>1, ClientPublish DEF Statuses
  <2> QED BY <1>2, <2>1, <2>2 DEF RequestStep
<1>3. ASSUME NEW o \in Orders, QueueStep(o)
      PROVE  ClientInv'
  <2>1. \A q \in Orders : request'[q].step = "r201" <=> request[q].step = "r201"
    BY <1>0, <1>3, SilentSteps
  <2>2. Silently
    BY <1>3 DEF QueueStep
  <2> QED BY <1>1, <2>1, <2>2 DEF Silently, serviceState
<1>4. ASSUME NEW s \in Slots, RunStep(s)
      PROVE  ClientInv'
  <2>1. CASE Working(s) /\ Silently
    <3>1. \A q \in Orders : request'[q].step = "r201" <=> request[q].step = "r201"
      BY <1>0, <2>1, SilentSteps
    <3> QED BY <1>1, <2>1, <3>1 DEF Silently, serviceState
  <2>2. CASE Reporting(s) /\ Publishing(run[s].order)
    <3>1. PICK e \in Statuses : lastEvent' = [lastEvent EXCEPT ![run[s].order] = e]
      BY <1>0, <2>2, ReportsSay
    <3>2. run[s].order \in Orders /\ request' = request
      BY <1>0, <2>2, ReportsSay
    <3> QED BY <1>0, <2>2, <3>1, <3>2, ClientPublish
  <2> QED BY <1>4, <2>1, <2>2 DEF RunStep
<1>5. ASSUME ClientStep, UNCHANGED <<vars, history>>
      PROVE  ClientInv'
  <2>1. request' = request
    BY <1>5 DEF vars
  <2>2. ASSUME NEW s \in Sockets, Service!StartClosing(s) \/ Service!ErrorEvent(s)
        PROVE  UNCHANGED <<target, received, replies>>
    BY <2>2 DEF Service!StartClosing, Service!ErrorEvent, Service!serviceVars,
       Service!redisVars
  <2> QED BY <1>1, <1>5, <2>1, <2>2, ClientConnect DEF ClientStep
<1>6. ASSUME ServiceStep, UNCHANGED <<vars, history>>
      PROVE  ClientInv'
  <2>1. request' = request
    BY <1>6 DEF vars
  <2>2. ASSUME NEW s \in Sockets, Service!CloseEvent(s)
        PROVE  UNCHANGED <<target, received, replies>>
    BY <2>2 DEF Service!CloseEvent, Service!redisVars
  <2> QED BY <1>1, <1>6, <2>1, <2>2, ClientExecute, ClientHandle DEF ServiceStep
<1>7. StreamAtRest \/ UNCHANGED streamVars
        => UNCHANGED <<target, received, history, replies, request>>
  BY DEF StreamAtRest, AtRest, streamVars, Service!Idle, Service!vars, serviceState, vars
<1> QED BY <1>1, <1>2, <1>3, <1>4, <1>5, <1>6, <1>7 DEF StreamNext

-----------------------------------------------------------------------------
(* The theorems. *)

LEMMA HistoryInit ==
  ASSUME StreamInit
  PROVE  HistoryInv /\ ClientInv
<1>1. /\ history = [o \in Orders |-> <<>>] /\ published = [o \in Orders |-> 0]
      /\ lastEvent = [o \in Orders |-> None]
      /\ target = [s \in Sockets |-> None] /\ replies = <<>>
      /\ received = [s \in Sockets |-> <<>>]
      /\ \A s \in Slots : run[s] = None
      /\ \A o \in Orders : request[o].step # "r201"
  BY DEF StreamInit, Init, Service!Init
<1>2. /\ Len(<<>>) = 0 /\ DOMAIN <<>> = {} /\ <<>> \in Seq(Statuses)
  OBVIOUS
<1>3. HistoryIsComplete
  BY <1>1, <1>2 DEF HistoryIsComplete
<1>4. PendingIsAnnouncedOnce
  BY <1>1, <1>2 DEF PendingIsAnnouncedOnce
<1>5. RunsSayWhatTheyDo /\ WaitingHasFailed
  BY <1>1 DEF RunsSayWhatTheyDo, WaitingHasFailed, Busy
<1>6. HistoryFollowsLifecycle
  BY <1>1, <1>2 DEF HistoryFollowsLifecycle
<1>7. ClientInv
  BY <1>1, <1>2 DEF ClientInv, WatchedIsAccepted, PendingIsPast
<1> QED BY <1>3, <1>4, <1>5, <1>6, <1>7 DEF HistoryInv

(* Through every interleaving of requests, runs, clients, Redis and the      *)
(* service, the history of a channel tells what the runs did, and what       *)
(* reaches a client came after the announcement of its order.                *)
THEOREM StreamInvariance ==
  StreamSpec => [](IInv /\ WS!ServiceInv /\ HistoryInv /\ ClientInv)
<1> DEFINE Components == IInv /\ WS!ServiceInv
           Stream == HistoryInv /\ ClientInv
<1>1. StreamInit => Stream
  BY HistoryInit
<1>2. Components /\ Stream /\ [StreamNext]_streamVars => Stream'
  BY HistoryNext, ClientNext DEF WS!ServiceInv
<1>3. StreamSpec => []Components
  BY ComponentInvariance
<1> HIDE DEF Components, Stream
<1>4. StreamSpec => [](Components /\ Stream)
  BY <1>1, <1>2, <1>3, PTL DEF StreamSpec
<1> QED BY <1>4 DEF Components, Stream

(* The only client of an order gets, after an update, the one published next.*)
LEMMA SoleGetsTheNext ==
  ASSUME WS!ServiceInv, NEW s \in Sockets, Service!SoleConnection(s),
         NEW i \in 1..(Len(received[s]) - 1)
  PROVE  /\ i \in DOMAIN received[s] /\ i + 1 \in DOMAIN received[s]
         /\ received[s][i + 1] = received[s][i] + 1
         /\ received[s][i] \in Nat /\ received[s][i + 1] <= published[target[s]]
<1> DEFINE a == received[s][i]
           b == received[s][i + 1]
<1>1. /\ DOMAIN received[s] = 1..Len(received[s]) /\ Len(received[s]) \in Nat
      /\ \A n \in DOMAIN received[s] : received[s][n] \in Nat
  BY ServiceAssumed, WS!ReceivedType DEF WS!ServiceInv
<1>2. i \in DOMAIN received[s] /\ i + 1 \in DOMAIN received[s] /\ i < i + 1
  BY <1>1
<1>3. /\ \A m, n \in DOMAIN received[s] : m < n => received[s][m] < received[s][n]
      /\ \A n \in DOMAIN received[s] : received[s][n] <= published[target[s]]
  BY DEF WS!ServiceInv, WS!DeliveryInv, WS!UpdatesInOrder
<1>4. /\ a \in Nat /\ b \in Nat /\ a < b /\ b <= published[target[s]]
      /\ published[target[s]] \in Nat
  <2>1. target[s] \in Orders
    BY <1>2, ClientTypes
  <2>2. published[target[s]] \in Nat
    BY <2>1, ServiceAssumed DEF WS!ServiceAssumption, WS!ServiceInv, WS!TypeOK
  <2> QED BY <1>1, <1>2, <1>3, <2>2
<1>5. a + 1 \in WS!ToSet(received[s]) \cup WS!OnTheirWay(target[s])
  <2>1. WS!SoleMissesNothing(s)
    <3>1. WS!SoleConnection(s)
      BY DEF Service!SoleConnection, WS!SoleConnection
    <3> QED BY <3>1 DEF WS!ServiceInv, WS!SoleInv
  <2>2. outage = None
    BY StreamAssumption DEF WS!ServiceInv, WS!TypeOK
  <2>3. a \in WS!ToSet(received[s])
    BY <1>2 DEF WS!ToSet
  <2>4. a + 1 \in a..published[target[s]]
    BY <1>4
  <2> HIDE DEF a
  <2> QED BY <2>1, <2>2, <2>3, <2>4 DEF WS!SoleMissesNothing
<1>6. a + 1 \notin WS!OnTheirWay(target[s])
  <2> SUFFICES ASSUME NEW r \in WS!ToSet(replies), WS!UpdateOf(r, target[s]), r.update = a + 1
               PROVE  FALSE
    BY DEF WS!OnTheirWay, WS!UpdateOf
  <2>1. b < r.update
    BY <1>2 DEF WS!ServiceInv, WS!DeliveryInv, WS!ReceivedIsOlder
  <2> QED BY <1>4, <2>1
<1>7. PICK n \in DOMAIN received[s] : received[s][n] = a + 1
  BY <1>5, <1>6 DEF WS!ToSet
<1>8. n = i + 1
  <2>1. n < i => a + 1 < a
    BY <1>2, <1>3, <1>7
  <2>2. n # i
    BY <1>4, <1>7
  <2>3. i + 1 < n => b < a + 1
    BY <1>2, <1>3, <1>7
  <2>4. n \in Nat /\ i \in Nat
    BY <1>1
  <2> QED BY <1>4, <2>1, <2>2, <2>3, <2>4
<1> QED BY <1>2, <1>4, <1>7, <1>8

(* The invariants say what the property of the stream says.                  *)
LEMMA PathIsSeen ==
  ASSUME WS!ServiceInv, HistoryInv, ClientInv
  PROVE  LifecycleIsSeenInOrder
<1> SUFFICES ASSUME NEW s \in Sockets, Service!SoleConnection(s), job[target[s]].stalled = 0,
                    NEW i \in 1..(Len(received[s]) - 1)
             PROVE  Seen(s)[i + 1] \in Follows[Seen(s)[i]]
  BY DEF LifecycleIsSeenInOrder
<1> DEFINE a == received[s][i]
           h == history[target[s]]
<1>1. /\ i \in DOMAIN received[s] /\ i + 1 \in DOMAIN received[s]
      /\ received[s][i + 1] = a + 1 /\ a \in Nat /\ a + 1 <= published[target[s]]
  BY SoleGetsTheNext
<1>2. target[s] \in Orders
  BY <1>1, ClientTypes
<1>3. /\ DOMAIN h = 1..published[target[s]] /\ Len(h) = published[target[s]]
      /\ published[target[s]] \in Nat
  <2>1. h \in Seq(Statuses) /\ Len(h) = published[target[s]]
    BY <1>2 DEF HistoryInv, HistoryIsComplete
  <2> QED BY <2>1, LenProperties
<1>4. PICK p \in DOMAIN h : p < a /\ h[p] = "pending"
  BY <1>1 DEF ClientInv, PendingIsPast, AfterPending
<1>5. /\ a \in DOMAIN h /\ a + 1 \in DOMAIN h /\ p # a /\ p # a + 1
      /\ a \in 1..(Len(h) - 1)
  BY <1>1, <1>3, <1>4
<1>6. h[a] # "pending" /\ h[a + 1] # "pending"
  BY <1>2, <1>4, <1>5 DEF HistoryInv, PendingIsAnnouncedOnce
<1>7. h[a + 1] \in Follows[h[a]]
  BY <1>2, <1>5, <1>6 DEF HistoryInv, HistoryFollowsLifecycle
<1>8. Seen(s)[i] = h[a] /\ Seen(s)[i + 1] = h[a + 1]
  BY <1>1 DEF Seen
<1> QED BY <1>7, <1>8

(* What the only client of an order sees, while the job has not stalled, is a*)
(* path through the life cycle, for any number of orders, clients, attempts  *)
(* and updates: an announcement that overtakes or trails the first report of *)
(* the worker never reaches it, and nothing is left out between two updates. *)
THEOREM LifecycleIsSeen == StreamSpec => []LifecycleIsSeenInOrder
<1>1. IInv /\ WS!ServiceInv /\ HistoryInv /\ ClientInv => LifecycleIsSeenInOrder
  BY PathIsSeen
<1> QED BY <1>1, StreamInvariance, PTL
=============================================================================
