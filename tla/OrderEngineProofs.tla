-------------------------- MODULE OrderEngineProofs --------------------------
EXTENDS OrderEngineInvariant, TLAPS

(* Going on to the next await of createOrder keeps request typed. *)
LEMMA ProceedType ==
  ASSUME request \in [Orders -> Requests], NEW o \in Orders,
         NEW step \in RequestSteps, Proceed(o, step)
  PROVE  request' \in [Orders -> Requests]
<1>1. [request[o] EXCEPT !.step = step] \in Requests
  BY DEF Requests
<1> QED BY <1>1 DEF Proceed

(* Replying to the client keeps request typed. *)
LEMMA ReplyType ==
  ASSUME request \in [Orders -> Requests], NEW o \in Orders,
         NEW step \in RequestSteps, Reply(o, step)
  PROVE  request' \in [Orders -> Requests]
  BY DEF Reply, Requests

(* prisma.order.create inserts a row of the type of rows. *)
LEMMA NewRowType == NewRow \in Rows
  BY EngineAssumption DEF NewRow, Rows, RowStatuses

(* The initial state is of the right type. *)
LEMMA InitTypeOK == Init => TypeOK
<1>1. NoJob \in Jobs
  BY EngineAssumption DEF NoJob, Jobs, JobStates, StalledCounts
<1> QED BY <1>1 DEF Init, TypeOK, Requests, RequestSteps

(* Receiving an order keeps the types. *)
LEMMA SubmitTypeOK ==
  ASSUME TypeOK, NEW o \in Orders, NEW k \in OrderKinds, NEW srv \in Servers,
         Submit(o, k, srv)
  PROVE  TypeOK'
<1>1. request' \in [Orders -> Requests]
  BY ReplyType DEF Submit, SchemaAccepts, TypeOK, Requests, RequestSteps
<1>2. kind' \in [Orders -> OrderKinds \cup {None}]
  BY DEF Submit, TypeOK
<1> QED BY <1>1, <1>2 DEF Submit, TypeOK

(* Every step of createOrder keeps the types. *)
LEMMA ControllerTypeOK ==
  ASSUME TypeOK, NEW o \in Orders, ControllerStep(o)
  PROVE  TypeOK'
<1>1. CASE CreateRow(o)
  <2>1. request' \in [Orders -> Requests]
    BY <1>1, ProceedType, ReplyType DEF CreateRow, TypeOK, RequestSteps
  <2>2. row' \in [Orders -> Rows \cup {None}]
    BY <1>1, NewRowType DEF CreateRow, TypeOK
  <2> QED BY <1>1, <2>1, <2>2 DEF TypeOK, CreateRow
<1>2. CASE AddOrder(o)
  <2>1. request' \in [Orders -> Requests]
    BY <1>2, ProceedType, ReplyType DEF AddOrder, TypeOK, RequestSteps
  <2>2. \A state \in JobStates : [job[o] EXCEPT !.state = state] \in Jobs
    BY DEF TypeOK, Jobs
  <2>3. job' \in [Orders -> Jobs]
    BY <1>2, <2>2 DEF AddOrder, TypeOK, JobStates
  <2> QED BY <1>2, <2>1, <2>3 DEF TypeOK, AddOrder
<1>3. CASE CountQueue(o)
  <2>1. request' \in [Orders -> Requests]
    BY <1>3, ProceedType, ReplyType DEF CountQueue, TypeOK, RequestSteps
  <2> QED BY <1>3, <2>1 DEF TypeOK, CountQueue
<1>4. CASE AnnouncePending(o)
  <2>1. request' \in [Orders -> Requests]
    BY <1>4, ProceedType, ReplyType DEF AnnouncePending, TypeOK, RequestSteps
  <2>2. lastEvent' \in [Orders -> Statuses \cup {None}]
    BY <1>4 DEF AnnouncePending, EmitStatusUpdate, PublishOutcomes, Statuses, TypeOK
  <2> QED BY <1>4, <2>1, <2>2 DEF TypeOK, AnnouncePending
<1> QED BY <1>1, <1>2, <1>3, <1>4 DEF ControllerStep

(* The fields of a busy slot's run. *)
LEMMA RunType ==
  ASSUME TypeOK, NEW s \in Slots, run[s] # None
  PROVE  /\ run[s] \in Runs
         /\ run[s].order \in Orders
         /\ run[s].stalled \in StalledCounts
         /\ run[s].attempt \in Attempts
         /\ RunId(run[s]) \in TradeIds
  BY DEF TypeOK, Runs, RunId, TradeIds

(* A run that goes on to another step of processOrder stays a run. *)
LEMMA GotoType ==
  ASSUME TypeOK, NEW s \in Slots, run[s] # None,
         NEW step \in BeforeTrade \cup AfterTrade, Goto(s, step)
  PROVE  run' \in [Slots -> Runs \cup {None}]
<1>1. [run[s] EXCEPT !.step = step] \in Runs
  BY RunType DEF Runs
<1> QED BY <1>1 DEF Goto, TypeOK

(* Only jobs of orders are removed. *)
LEMMA TrimType ==
  ASSUME TypeOK, NEW state, Trim(state)
  PROVE  removed' \subseteq Orders
  BY DEF Trim, Listed, TypeOK

(* A job that is not finished has attempts left, and one that has not failed *)
(* may stall once more: what TypeOK needs to be inductive.                   *)
LEMMA QueueTypeOK ==
  ASSUME TypeOK, JobsHaveAttemptsLeft, NEW o \in Orders
  PROVE  /\ PromoteDelayed(o) => TypeOK'
         /\ LoseLock(o) => TypeOK'
         /\ MoveStalledJob(o) => TypeOK'
         /\ \A s \in Slots : TakeJob(s, o) => TypeOK'
<1> USE EngineAssumption
<1>0. job[o] \in Jobs
  BY DEF TypeOK
<1>1. ASSUME PromoteDelayed(o) PROVE TypeOK'
  <2>1. [job[o] EXCEPT !.state = "waiting"] \in Jobs
    BY <1>0 DEF Jobs, JobStates
  <2> QED BY <1>1, <2>1 DEF PromoteDelayed, TypeOK
<1>2. ASSUME LoseLock(o) PROVE TypeOK'
  <2>1. [job[o] EXCEPT !.lock = None] \in Jobs
    BY <1>0 DEF Jobs
  <2> QED BY <1>2, <2>1 DEF LoseLock, TypeOK
<1>3. ASSUME MoveStalledJob(o) PROVE TypeOK'
  <2>1. job[o].stalled + 1 \in StalledCounts
    BY <1>0, <1>3 DEF MoveStalledJob, JobsHaveAttemptsLeft, Jobs, StalledCounts, Finished
  <2> DEFINE j(state) == [job[o] EXCEPT !.stalled = job[o].stalled + 1, !.state = state]
  <2>2. \A state \in JobStates : j(state) \in Jobs
    BY <1>0, <2>1 DEF Jobs
  <2>3. PICK state \in {"failed", "waiting"} : job' = [job EXCEPT ![o] = j(state)]
    BY <1>3 DEF MoveStalledJob, TypeOK
  <2>4. j(state) \in Jobs
    BY <2>2, <2>3 DEF JobStates
  <2> HIDE DEF j
  <2>5. job' \in [Orders -> Jobs]
    BY <2>3, <2>4 DEF TypeOK
  <2>6. removed' \subseteq Orders
    BY <1>3, TrimType DEF MoveStalledJob, TypeOK
  <2> QED BY <1>3, <2>5, <2>6 DEF MoveStalledJob, TypeOK
<1>4. ASSUME NEW s \in Slots, TakeJob(s, o) PROVE TypeOK'
  <2>1. [job[o] EXCEPT !.state = "active", !.lock = s] \in Jobs
    BY <1>0 DEF Jobs, JobStates
  <2>2. job' \in [Orders -> Jobs]
    BY <1>4, <2>1 DEF TakeJob, TypeOK
  <2>3. job[o].attemptsMade + 1 \in Attempts
    BY <1>0, <1>4 DEF TakeJob, JobsHaveAttemptsLeft, Jobs, Attempts, Finished
  <2>4. [order |-> o, stalled |-> job[o].stalled,
         attempt |-> job[o].attemptsMade + 1, step |-> "starting"] \in Runs
    BY <1>0, <2>3 DEF Runs, Jobs, BeforeTrade
  <2>5. run' \in [Slots -> Runs \cup {None}]
    BY <1>4, <2>4 DEF TakeJob, TypeOK
  <2> QED BY <1>4, <2>2, <2>5 DEF TakeJob, TypeOK
<1> QED BY <1>1, <1>2, <1>3, <1>4

(* The death of a server keeps the types. *)
LEMMA EndProcessTypeOK ==
  ASSUME TypeOK, NEW srv \in Servers, EndProcess(srv)
  PROVE  TypeOK'
<1>1. \A o \in Orders : [job[o] EXCEPT !.lock = None] \in Jobs
  BY DEF TypeOK, Jobs
<1>2. job' \in [Orders -> Jobs]
  BY <1>1 DEF EndProcess, TypeOK
<1>3. request' \in [Orders -> Requests]
  BY DEF EndProcess, TypeOK, Requests, RequestSteps
<1>4. run' \in [Slots -> Runs \cup {None}]
  BY DEF EndProcess, TypeOK
<1> QED BY <1>2, <1>3, <1>4 DEF EndProcess, TypeOK

(* No step deletes a row. *)
RowsStay == \A o \in Orders : row[o] # None => row'[o] # None

(* An update of a row with a row keeps the rows rows. *)
LEMMA UpdateType ==
  ASSUME TypeOK, NEW o \in Orders, NEW r, row[o] # None => r \in Rows,
         UpdateOrderInDB(o, r)
  PROVE  row' \in [Orders -> Rows \cup {None}] /\ RowsStay
  BY EngineAssumption DEF UpdateOrderInDB, TypeOK, RowsStay

(* emitStatusUpdate publishes a status or leaves the last one. *)
LEMMA EmitType ==
  ASSUME TypeOK, NEW o \in Orders, NEW status \in Statuses,
         EmitStatusUpdate(o, status)
  PROVE  lastEvent' \in [Orders -> Statuses \cup {None}]
  BY DEF EmitStatusUpdate, PublishOutcomes, TypeOK

(* What processOrder writes after a failure is a row. *)
LEMMA FailedRowType ==
  ASSUME TypeOK, NEW s \in Slots, run[s] # None, row[run[s].order] # None
  PROVE  FailedRow(run[s]) \in Rows
<1>1. row[run[s].order] \in Rows
  BY RunType DEF TypeOK
<1>2. run[s].attempt \in 0..MaxAttempts
  BY RunType, EngineAssumption DEF Attempts
<1> QED BY <1>1, <1>2 DEF FailedRow, Rows, RowStatuses

(* A status update of the executor keeps the types. *)
LEMMA ReportTypeOK ==
  ASSUME TypeOK, NEW s \in Slots, NEW step, NEW status \in Statuses,
         NEW next \in BeforeTrade \cup AfterTrade, Report(s, step, status, next)
  PROVE  TypeOK'
  BY RunType, GotoType, EmitType DEF Report, At, TypeOK

(* Every step of processOrder keeps the types, and none deletes a row. *)
LEMMA WorkerTypeOK ==
  ASSUME TypeOK, JobsHaveAttemptsLeft, NEW s \in Slots, WorkerStep(s)
  PROVE  TypeOK' /\ RowsStay
<1> DEFINE o == run[s].order
<1>0. run[s] # None /\ o \in Orders /\ job[o] \in Jobs
  <2>1. run[s] # None
    BY DEF WorkerStep, MarkPending, ReportRouting, GetBestQuote, ReportRouted,
       ReportBuilding, ReportSubmitted, ExecuteSwap, ReportConfirmed, RecordConfirmed,
       ReportFailed, RecordFailed, ReportExhausted, RecordExhausted, CompleteJob,
       FailJob, Report, At
  <2> QED BY <2>1, RunType DEF TypeOK
<1>a. AfterThrow(run[s]) \in BeforeTrade /\ Dispatch(run[s]) \in BeforeTrade
  BY DEF AfterThrow, Dispatch, BeforeTrade
<1>1. CASE MarkPending(s)
  <2>1. row[o] # None => [row[o] EXCEPT !.status = "pending"] \in Rows
    BY <1>0 DEF TypeOK, Rows, RowStatuses
  <2>2. row' \in [Orders -> Rows \cup {None}] /\ RowsStay
    BY <1>0, <1>1, <2>1, UpdateType DEF MarkPending
  <2>3. run' \in [Slots -> Runs \cup {None}]
    BY <1>0, <1>1, <1>a, GotoType DEF MarkPending
  <2> QED BY <1>1, <2>2, <2>3 DEF MarkPending, TypeOK
<1>2. CASE ReportRouting(s) \/ ReportRouted(s) \/ ReportBuilding(s) \/ ReportSubmitted(s)
           \/ ReportConfirmed(s) \/ ReportFailed(s) \/ ReportExhausted(s)
  BY <1>2, ReportTypeOK DEF ReportRouting, ReportRouted, ReportBuilding, ReportSubmitted,
     ReportConfirmed, ReportFailed, ReportExhausted, Report, RowsStay, Statuses, BeforeTrade, AfterTrade
<1>3. CASE GetBestQuote(s)
  <2>1. run' \in [Slots -> Runs \cup {None}]
    BY <1>0, <1>3, GotoType DEF GetBestQuote, BeforeTrade
  <2> QED BY <1>3, <2>1 DEF GetBestQuote, TypeOK, RowsStay
<1>4. CASE ExecuteSwap(s)
  <2>1. run' \in [Slots -> Runs \cup {None}]
    BY <1>0, <1>4, GotoType DEF ExecuteSwap, BeforeTrade, AfterTrade
  <2>2. trades' \in [Orders -> SUBSET TradeIds]
    BY <1>0, <1>4, RunType DEF ExecuteSwap, TypeOK, RowsStay
  <2> QED BY <1>4, <2>1, <2>2 DEF ExecuteSwap, TypeOK, RowsStay
<1>5. CASE RecordConfirmed(s)
  <2>1. row[o] # None =>
          [row[o] EXCEPT !.status = "confirmed", !.tx = RunId(run[s]),
                         !.attempts = run[s].attempt] \in Rows
    <3>1. run[s].attempt \in 0..MaxAttempts
      BY <1>0, RunType, EngineAssumption DEF Attempts
    <3> QED BY <1>0, <3>1, RunType DEF TypeOK, Rows, RowStatuses
  <2>2. row' \in [Orders -> Rows \cup {None}] /\ RowsStay
    BY <1>0, <1>5, <2>1, UpdateType DEF RecordConfirmed
  <2>3. run' \in [Slots -> Runs \cup {None}]
    BY <1>0, <1>5, GotoType DEF RecordConfirmed, AfterTrade
  <2> QED BY <1>5, <2>2, <2>3 DEF RecordConfirmed, TypeOK
<1>6. CASE RecordFailed(s) \/ RecordExhausted(s)
  <2>1. row' \in [Orders -> Rows \cup {None}] /\ RowsStay
    BY <1>0, <1>6, FailedRowType, UpdateType DEF RecordFailed, RecordExhausted
  <2>2. run' \in [Slots -> Runs \cup {None}]
    BY <1>0, <1>6, <1>a, GotoType DEF RecordFailed, RecordExhausted, BeforeTrade
  <2> QED BY <1>6, <2>1, <2>2 DEF RecordFailed, RecordExhausted, TypeOK
<1>7. CASE CompleteJob(s)
  <2>1. [job[o] EXCEPT !.state = "completed", !.lock = None] \in Jobs
    BY <1>0 DEF Jobs, JobStates
  <2>2. job' \in [Orders -> Jobs]
    BY <1>0, <1>7, <2>1 DEF CompleteJob, TypeOK
  <2>3. removed' \subseteq Orders
    BY <1>7, TrimType DEF CompleteJob, TypeOK
  <2> QED BY <1>7, <2>2, <2>3 DEF CompleteJob, TypeOK, RowsStay
<1>8. CASE FailJob(s)
  <2> DEFINE j(state) == [job[o] EXCEPT !.state = state,
                            !.attemptsMade = job[o].attemptsMade + 1, !.lock = None]
  <2>1. CASE HoldsLock(s, o)
    <3>1. job[o].attemptsMade + 1 \in 0..MaxAttempts
      BY <1>0, <2>1, EngineAssumption
         DEF HoldsLock, JobsHaveAttemptsLeft, Jobs, Finished
    <3>2. \A state \in JobStates : j(state) \in Jobs
      BY <1>0, <3>1 DEF Jobs
    <3>3. PICK state \in {"delayed", "failed"} : job' = [job EXCEPT ![o] = j(state)]
      BY <1>8, <2>1, <1>0 DEF FailJob, TypeOK, RowsStay
    <3>4. j(state) \in Jobs
      BY <3>2, <3>3 DEF JobStates
    <3> HIDE DEF j
    <3>5. job' \in [Orders -> Jobs]
      BY <3>3, <3>4 DEF TypeOK
    <3>6. removed' \subseteq Orders
      BY <1>8, TrimType DEF FailJob, TypeOK
    <3> QED BY <1>8, <3>5, <3>6 DEF FailJob, TypeOK, RowsStay
  <2>2. CASE ~HoldsLock(s, o)
    BY <1>8, <2>2 DEF FailJob, TypeOK, RowsStay
  <2> QED BY <2>1, <2>2
<1> QED BY <1>1, <1>2, <1>3, <1>4, <1>5, <1>6, <1>7, <1>8 DEF WorkerStep

-----------------------------------------------------------------------------
(* Steps that move no job, run or trade keep what these agree on. *)
LEMMA ExecutionFrame ==
  ASSUME ExecutionInv, UNCHANGED <<job, run, trades>>
  PROVE  ExecutionInv'
  BY DEF ExecutionInv, RunsBelongToDeliveries, OneRunPerDelivery, LocksAreHeld,
     JobsHaveAttemptsLeft, TradesBelongToDeliveries, CompletedHasTraded,
     RunsKnowTheirTrade, TradesOncePerDelivery, TradedInDelivery, Busy, RunId

(* A run that goes on without passing the swap. *)
LEMMA ExecutionGoto ==
  ASSUME TypeOK, ExecutionInv, NEW s \in Slots, run[s] # None, NEW step,
         \/ run[s].step \in BeforeTrade /\ step \in BeforeTrade
         \/ run[s].step \in AfterTrade /\ step \in AfterTrade,
         Goto(s, step), UNCHANGED <<job, trades>>
  PROVE  ExecutionInv'
<1>1. /\ run' \in [Slots -> Runs \cup {None}]
      /\ \A u \in Slots : Busy(u)' <=> Busy(u)
      /\ \A u \in Slots : Busy(u) =>
           /\ run'[u].order = run[u].order
           /\ run'[u].stalled = run[u].stalled
           /\ run'[u].attempt = run[u].attempt
           /\ RunId(run'[u]) = RunId(run[u])
           /\ u # s => run'[u].step = run[u].step
      /\ run'[s].step = step
  BY GotoType, EngineAssumption DEF TypeOK, Goto, Busy, RunId, Runs
<1>2. RunsBelongToDeliveries'
  BY <1>1 DEF ExecutionInv, RunsBelongToDeliveries
<1>3. OneRunPerDelivery'
  BY <1>1 DEF ExecutionInv, OneRunPerDelivery
<1>4. LocksAreHeld'
  BY <1>1 DEF ExecutionInv, LocksAreHeld, TypeOK, Jobs, Busy
<1>5. RunsKnowTheirTrade'
  BY <1>1 DEF ExecutionInv, RunsKnowTheirTrade, TradedInDelivery, BeforeTrade, AfterTrade
<1> QED BY <1>2, <1>3, <1>4, <1>5 DEF ExecutionInv, JobsHaveAttemptsLeft,
       TradesBelongToDeliveries, CompletedHasTraded, TradesOncePerDelivery, TradedInDelivery

(* A swap is the first one of its delivery, so trades stay unique per delivery.*)
LEMMA ExecutionSwap ==
  ASSUME TypeOK, ExecutionInv, NEW s \in Slots, ExecuteSwap(s)
  PROVE  ExecutionInv'
<1> DEFINE o == run[s].order
           t == RunId(run[s])
<1>0. run[s] # None /\ run[s].step \in BeforeTrade /\ o \in Orders /\ t \in TradeIds
      /\ t.stalled = run[s].stalled
  BY RunType DEF ExecuteSwap, At, BeforeTrade, RunId
<1>1. CASE UNCHANGED trades /\ Goto(s, "failing")
  BY <1>0, <1>1, ExecutionGoto DEF ExecuteSwap, BeforeTrade
<1>2. CASE /\ trades' = [trades EXCEPT ![o] = @ \cup {t}]
           /\ Goto(s, "confirming")
  <2>1. /\ \A u \in Slots : Busy(u)' <=> Busy(u)
        /\ \A u \in Slots : Busy(u) =>
             /\ run'[u].order = run[u].order
             /\ run'[u].stalled = run[u].stalled
             /\ run'[u].attempt = run[u].attempt
             /\ RunId(run'[u]) = RunId(run[u])
             /\ u # s => run'[u].step = run[u].step
        /\ run'[s].step = "confirming"
        /\ job' = job
    <3>1. [run[s] EXCEPT !.step = "confirming"] \in Runs
      BY <1>0, RunType DEF Runs, AfterTrade
    <3> QED BY <1>0, <1>2, <3>1, EngineAssumption
            DEF TypeOK, Goto, Busy, RunId, Runs, ExecuteSwap
  <2>2. /\ trades' \in [Orders -> SUBSET TradeIds]
        /\ trades'[o] = trades[o] \cup {t}
        /\ \A q \in Orders : q # o => trades'[q] = trades[q]
    BY <1>0, <1>2 DEF TypeOK
  <2>3. RunsBelongToDeliveries'
    BY <2>1 DEF ExecutionInv, RunsBelongToDeliveries
  <2>4. OneRunPerDelivery'
    BY <2>1 DEF ExecutionInv, OneRunPerDelivery
  <2>5. LocksAreHeld'
    BY <2>1 DEF ExecutionInv, LocksAreHeld, TypeOK, Jobs, Busy
  <2>6. TradesBelongToDeliveries'
    BY <1>0, <2>1, <2>2 DEF ExecutionInv, TradesBelongToDeliveries, RunsBelongToDeliveries, Busy
  <2>7. CompletedHasTraded'
    BY <2>1, <2>2 DEF ExecutionInv, CompletedHasTraded, TradedInDelivery
  <2>8. RunsKnowTheirTrade'
    <3>1. SUFFICES ASSUME NEW u \in Slots, Busy(u)
                   PROVE  /\ run'[u].step \in BeforeTrade
                               => ~TradedInDelivery(run[u].order, run[u].stalled)'
                          /\ run'[u].step \in AfterTrade
                               => RunId(run[u]) \in trades'[run[u].order]
      BY <2>1 DEF RunsKnowTheirTrade, TradedInDelivery
    <3>2. CASE u = s
      BY <1>0, <2>1, <2>2, <3>2 DEF BeforeTrade, AfterTrade
    <3>3. CASE u # s
      <4>1. run[u].order = o => run[u].stalled # t.stalled
        BY <1>0, <3>1, <3>3 DEF ExecutionInv, OneRunPerDelivery, Busy
      <4> QED BY <1>0, <2>1, <2>2, <3>1, <3>3, <4>1, RunType
              DEF ExecutionInv, RunsKnowTheirTrade, TradedInDelivery, Busy
    <3> QED BY <3>2, <3>3
  <2>9. TradesOncePerDelivery'
    BY <1>0, <2>2 DEF ExecutionInv, TradesOncePerDelivery, RunsKnowTheirTrade,
       TradedInDelivery, Busy
  <2> QED BY <2>1, <2>3, <2>4, <2>5, <2>6, <2>7, <2>8, <2>9
          DEF ExecutionInv, JobsHaveAttemptsLeft
<1> QED BY <1>0, <1>1, <1>2 DEF ExecuteSwap

(* A slot takes a job only when no run of its current delivery is left. *)
LEMMA ExecutionTake ==
  ASSUME TypeOK, ExecutionInv, NEW s \in Slots, NEW o \in Orders, TakeJob(s, o)
  PROVE  ExecutionInv'
<1> DEFINE r == [order |-> o, stalled |-> job[o].stalled,
                 attempt |-> job[o].attemptsMade + 1, step |-> "starting"]
<1>1. /\ \A q \in Orders : q # o => job'[q] = job[q]
      /\ job'[o].state = "active" /\ job'[o].lock = s
      /\ job'[o].stalled = job[o].stalled /\ job'[o].attemptsMade = job[o].attemptsMade
      /\ job[o].state = "waiting"
      /\ trades' = trades
  BY DEF TakeJob, TypeOK, Jobs
<1>2. /\ run'[s] = r
      /\ \A u \in Slots : u # s => run'[u] = run[u]
      /\ run[s] = None
  BY DEF TakeJob, TypeOK
<1>3. r # None
  <2>0. job[o] \in Jobs
    BY DEF TypeOK
  <2>1. job[o].attemptsMade + 1 \in Attempts
    BY <1>1, <2>0, EngineAssumption DEF ExecutionInv, JobsHaveAttemptsLeft, Jobs, Attempts, Finished
  <2>2. r \in Runs
    BY <1>1, <2>0, <2>1 DEF Runs, Jobs, BeforeTrade
  <2> QED BY <2>2, EngineAssumption
<1>4. \A u \in Slots : run[u] # None /\ run[u].order = o => run[u].stalled # job[o].stalled
  BY <1>1 DEF ExecutionInv, RunsBelongToDeliveries, Busy
<1>5. RunsBelongToDeliveries'
  <2>1. job[o].stalled \in Nat /\ job'[o].stalled <= job[o].stalled
    BY <1>1 DEF TypeOK, Jobs, StalledCounts
  <2>2. ASSUME NEW u \in Slots, u # s, Busy(u), run[u].order = o
        PROVE  run[u].stalled < job[o].stalled
    BY <1>4, <2>1, <2>2, RunType DEF ExecutionInv, RunsBelongToDeliveries, Busy, StalledCounts
  <2> QED BY <1>1, <1>2, <2>1, <2>2, RunType DEF ExecutionInv, RunsBelongToDeliveries, Busy
<1>6. OneRunPerDelivery'
  BY <1>2, <1>3, <1>4 DEF ExecutionInv, OneRunPerDelivery, Busy
<1>7. LocksAreHeld'
  <2>1. ASSUME NEW q \in Orders, q # o, job[q].lock # None
        PROVE  job[q].lock \in Slots \ {s}
    BY <1>2, <2>1 DEF ExecutionInv, LocksAreHeld, Busy, TypeOK, Jobs
  <2> QED BY <1>1, <1>2, <1>3, <2>1 DEF ExecutionInv, LocksAreHeld, Busy
<1>8. JobsHaveAttemptsLeft'
  BY <1>1 DEF ExecutionInv, JobsHaveAttemptsLeft, Finished
<1>9. TradesBelongToDeliveries'
  BY <1>1 DEF ExecutionInv, TradesBelongToDeliveries
<1>10. CompletedHasTraded'
  BY <1>1 DEF ExecutionInv, CompletedHasTraded, TradedInDelivery
<1>11. RunsKnowTheirTrade'
  <2>1. ~TradedInDelivery(o, job[o].stalled)'
    BY <1>1 DEF ExecutionInv, TradesBelongToDeliveries, TradedInDelivery
  <2> QED BY <1>1, <1>2, <1>3, <2>1
          DEF ExecutionInv, RunsKnowTheirTrade, TradedInDelivery, Busy, BeforeTrade, AfterTrade
<1>12. TradesOncePerDelivery'
  BY <1>1 DEF ExecutionInv, TradesOncePerDelivery
<1> QED BY <1>5, <1>6, <1>7, <1>8, <1>9, <1>10, <1>11, <1>12 DEF ExecutionInv

(* Queue operations that touch one job and no run. *)
LEMMA ExecutionQueue ==
  ASSUME TypeOK, ExecutionInv, NEW o \in Orders,
         PromoteDelayed(o) \/ LoseLock(o) \/ MoveStalledJob(o)
  PROVE  ExecutionInv'
<1> USE EngineAssumption
<1>0. UNCHANGED <<run, trades>> /\ job[o] \in Jobs
  BY DEF PromoteDelayed, LoseLock, MoveStalledJob, TypeOK
<1>1. CASE PromoteDelayed(o) \/ LoseLock(o)
  <2>1. /\ \A q \in Orders : q # o => job'[q] = job[q]
        /\ \/ /\ job[o].state = "delayed" /\ job'[o].state = "waiting"
              /\ job'[o].lock = job[o].lock
           \/ /\ job[o].state = "active" /\ job'[o].state = "active"
              /\ job'[o].lock = None
        /\ job'[o].stalled = job[o].stalled
        /\ job'[o].attemptsMade = job[o].attemptsMade
    BY <1>1 DEF PromoteDelayed, LoseLock, TypeOK, Jobs
  <2>2. RunsBelongToDeliveries'
    BY <1>0, <2>1, RunType DEF ExecutionInv, RunsBelongToDeliveries, Busy
  <2>3. LocksAreHeld'
    BY <1>0, <2>1 DEF ExecutionInv, LocksAreHeld, Busy
  <2>4. JobsHaveAttemptsLeft'
    BY <1>0, <2>1 DEF ExecutionInv, JobsHaveAttemptsLeft, Finished
  <2>5. TradesBelongToDeliveries'
    BY <1>0, <2>1 DEF ExecutionInv, TradesBelongToDeliveries
  <2>6. CompletedHasTraded'
    BY <1>0, <2>1 DEF ExecutionInv, CompletedHasTraded, TradedInDelivery
  <2> QED BY <1>0, <2>2, <2>3, <2>4, <2>5, <2>6 DEF ExecutionInv, OneRunPerDelivery,
             RunsKnowTheirTrade, TradesOncePerDelivery, TradedInDelivery, Busy, RunId
<1>2. CASE MoveStalledJob(o)
  <2>1. /\ \A q \in Orders : q # o => job'[q] = job[q]
        /\ job[o].state = "active" /\ job[o].lock = None
        /\ job'[o].state \in {"waiting", "failed"}
        /\ job'[o].stalled > MaxStalledCount => job'[o].state = "failed"
        /\ job'[o].lock = None /\ job'[o].stalled = job[o].stalled + 1
        /\ job'[o].attemptsMade = job[o].attemptsMade
        /\ job[o].stalled \in Nat
    BY <1>2 DEF MoveStalledJob, TypeOK, Jobs, StalledCounts
  <2>2. RunsBelongToDeliveries'
    <3>1. \A u \in Slots : Busy(u) /\ run[u].order = o
            => run[u].stalled \in Nat /\ run[u].stalled < job'[o].stalled
      BY <2>1, RunType DEF ExecutionInv, RunsBelongToDeliveries, Busy, StalledCounts
    <3> QED BY <1>0, <2>1, <3>1, RunType DEF ExecutionInv, RunsBelongToDeliveries, Busy
  <2>3. LocksAreHeld'
    BY <1>0, <2>1 DEF ExecutionInv, LocksAreHeld, Busy
  <2>4. JobsHaveAttemptsLeft'
    <3>1. job'[o].stalled \in Nat
      BY <2>1
    <3> QED BY <1>0, <2>1, <3>1 DEF ExecutionInv, JobsHaveAttemptsLeft, Finished
  <2>5. TradesBelongToDeliveries'
    <3>1. \A t \in trades[o] : t.stalled \in Nat /\ t.stalled < job'[o].stalled
      BY <2>1 DEF ExecutionInv, TradesBelongToDeliveries, TypeOK, TradeIds, StalledCounts
    <3> QED BY <1>0, <2>1, <3>1 DEF ExecutionInv, TradesBelongToDeliveries
  <2>6. CompletedHasTraded'
    BY <1>0, <2>1 DEF ExecutionInv, CompletedHasTraded, TradedInDelivery
  <2> QED BY <1>0, <2>2, <2>3, <2>4, <2>5, <2>6 DEF ExecutionInv, OneRunPerDelivery,
             RunsKnowTheirTrade, TradesOncePerDelivery, TradedInDelivery, Busy, RunId
<1> QED BY <1>1, <1>2

(* queue.add starts the first delivery of a job nobody has run. *)
LEMMA ExecutionAdd ==
  ASSUME TypeOK, ExecutionInv, NEW o \in Orders, AddOrder(o), job[o].state = "none"
  PROVE  ExecutionInv'
<1>1. /\ \A q \in Orders : q # o => job'[q] = job[q]
      /\ job'[o].state \in {"none", "waiting"}
      /\ job'[o].state = "none" => job'[o] = NoJob
      /\ job'[o].lock = None /\ job'[o].stalled = 0
      /\ job'[o].attemptsMade = 0
      /\ job[o].stalled = 0 /\ job[o].lock = None /\ job[o].attemptsMade = 0
      /\ UNCHANGED <<run, trades>>
  BY DEF AddOrder, TypeOK, Jobs, ExecutionInv, JobsHaveAttemptsLeft, NoJob
<1>2. RunsBelongToDeliveries'
  BY <1>1, RunType DEF ExecutionInv, RunsBelongToDeliveries, Busy, StalledCounts
<1>3. LocksAreHeld'
  BY <1>1 DEF ExecutionInv, LocksAreHeld, Busy
<1>4. JobsHaveAttemptsLeft'
  BY <1>1, EngineAssumption DEF ExecutionInv, JobsHaveAttemptsLeft, Finished
<1>5. TradesBelongToDeliveries'
  BY <1>1 DEF ExecutionInv, TradesBelongToDeliveries
<1>6. CompletedHasTraded'
  BY <1>1 DEF ExecutionInv, CompletedHasTraded, TradedInDelivery
<1> QED BY <1>1, <1>2, <1>3, <1>4, <1>5, <1>6 DEF ExecutionInv, OneRunPerDelivery,
           RunsKnowTheirTrade, TradesOncePerDelivery, TradedInDelivery, Busy, RunId

(* A dead server leaves no run and no lock behind. *)
LEMMA ExecutionRestart ==
  ASSUME TypeOK, ExecutionInv, NEW srv \in Servers, Restart(srv)
  PROVE  ExecutionInv'
<1> DEFINE dead == {s \in Slots : Host(s) = srv}
<1>1. /\ \A s \in Slots : run'[s] = IF s \in dead THEN None ELSE run[s]
      /\ trades' = trades
      /\ \A o \in Orders :
           /\ job'[o].lock = IF job[o].lock \in dead THEN None ELSE job[o].lock
           /\ job'[o].state = job[o].state
           /\ job'[o].stalled = job[o].stalled
           /\ job'[o].attemptsMade = job[o].attemptsMade
  BY DEF Restart, EndProcess, TypeOK, Jobs
<1>2. RunsBelongToDeliveries'
  BY <1>1, RunType DEF ExecutionInv, RunsBelongToDeliveries, Busy
<1>3. OneRunPerDelivery'
  BY <1>1 DEF ExecutionInv, OneRunPerDelivery, Busy
<1>4. LocksAreHeld'
  BY <1>1 DEF ExecutionInv, LocksAreHeld, Busy, TypeOK, Jobs
<1>5. JobsHaveAttemptsLeft'
  <2>1. \A o \in Orders : job[o] = NoJob => job'[o] = NoJob
    BY EngineAssumption DEF Restart, EndProcess, TypeOK, NoJob
  <2> QED BY <1>1, <2>1 DEF ExecutionInv, JobsHaveAttemptsLeft, Finished
<1>6. TradesBelongToDeliveries'
  BY <1>1 DEF ExecutionInv, TradesBelongToDeliveries
<1>7. CompletedHasTraded'
  BY <1>1 DEF ExecutionInv, CompletedHasTraded, TradedInDelivery
<1>8. RunsKnowTheirTrade'
  BY <1>1 DEF ExecutionInv, RunsKnowTheirTrade, TradedInDelivery, Busy, RunId
<1> QED BY <1>1, <1>2, <1>3, <1>4, <1>5, <1>6, <1>7, <1>8
        DEF ExecutionInv, TradesOncePerDelivery

(* The end of a run: the job moves if the run still holds its lock. *)
LEMMA ExecutionEnd ==
  ASSUME TypeOK, ExecutionInv, NEW s \in Slots, CompleteJob(s) \/ FailJob(s)
  PROVE  ExecutionInv'
<1> USE EngineAssumption
<1> DEFINE o == run[s].order
<1>0. /\ run[s] # None /\ o \in Orders
      /\ job[o].attemptsMade \in Nat
      /\ run'[s] = None
      /\ \A u \in Slots : u # s => run'[u] = run[u]
      /\ trades' = trades
  BY RunType DEF CompleteJob, FailJob, TypeOK, Jobs
<1>1. \A q \in Orders : q # o => job'[q] = job[q]
  BY <1>0 DEF CompleteJob, FailJob, TypeOK
<1>2. CASE HoldsLock(s, o)
  <2>1. /\ job[o].state = "active" /\ job[o].lock = s
        /\ run[s].stalled = job[o].stalled
        /\ job'[o].lock = None /\ job'[o].stalled = job[o].stalled
        /\ \/ /\ run[s].step = "returning"
              /\ job'[o].state = "completed"
              /\ job'[o].attemptsMade = job[o].attemptsMade
           \/ /\ run[s].step = "throwing"
              /\ job'[o].attemptsMade = job[o].attemptsMade + 1
              /\ \/ job'[o].state = "delayed" /\ job'[o].attemptsMade < MaxAttempts
                 \/ job'[o].state = "failed"
    BY <1>0, <1>2 DEF CompleteJob, FailJob, TypeOK, Jobs, HoldsLock, ExecutionInv, LocksAreHeld
  <2>2. \A u \in Slots : u # s /\ Busy(u) /\ run[u].order = o
                           => run[u].stalled # job[o].stalled
    BY <1>0, <2>1 DEF ExecutionInv, OneRunPerDelivery, Busy
  <2>3. RunsBelongToDeliveries'
    BY <1>0, <1>1, <2>1, <2>2, RunType DEF ExecutionInv, RunsBelongToDeliveries, Busy
  <2>4. LocksAreHeld'
    <3>1. \A q \in Orders : q # o => job[q].lock # s
      BY <1>0 DEF ExecutionInv, LocksAreHeld
    <3> QED BY <1>0, <1>1, <2>1, <3>1 DEF ExecutionInv, LocksAreHeld, Busy, TypeOK, Jobs
  <2>5. JobsHaveAttemptsLeft'
    BY <1>0, <1>1, <2>1 DEF ExecutionInv, JobsHaveAttemptsLeft, Finished
  <2>6. TradesBelongToDeliveries' /\ CompletedHasTraded'
    <3>1. CASE run[s].step = "returning"
      <4>1. TradedInDelivery(o, job[o].stalled)
        BY <1>0, <2>1, <3>1, RunType
           DEF ExecutionInv, RunsKnowTheirTrade, AfterTrade, TradedInDelivery, Busy, RunId
      <4> QED BY <1>0, <1>1, <2>1, <3>1, <4>1
              DEF ExecutionInv, TradesBelongToDeliveries, CompletedHasTraded, TradedInDelivery
    <3>2. CASE run[s].step = "throwing"
      <4>1. ~TradedInDelivery(o, job[o].stalled)
        BY <1>0, <2>1, <3>2 DEF ExecutionInv, RunsKnowTheirTrade, BeforeTrade, Busy
      <4> QED BY <1>0, <1>1, <2>1, <3>2, <4>1
              DEF ExecutionInv, TradesBelongToDeliveries, CompletedHasTraded, TradedInDelivery
    <3> QED BY <2>1, <3>1, <3>2
  <2> QED BY <1>0, <2>3, <2>4, <2>5, <2>6 DEF ExecutionInv, OneRunPerDelivery,
             RunsKnowTheirTrade, TradesOncePerDelivery, TradedInDelivery, Busy, RunId
<1>3. CASE ~HoldsLock(s, o)
  <2>1. job' = job
    BY <1>3 DEF CompleteJob, FailJob
  <2>2. \A q \in Orders : job[q].lock # s
    BY <1>0, <1>3 DEF ExecutionInv, LocksAreHeld, HoldsLock
  <2>3. LocksAreHeld'
    BY <1>0, <2>1, <2>2 DEF ExecutionInv, LocksAreHeld, Busy, TypeOK, Jobs
  <2>4. RunsBelongToDeliveries'
    BY <1>0, <2>1 DEF ExecutionInv, RunsBelongToDeliveries, Busy
  <2> QED BY <1>0, <2>1, <2>3, <2>4 DEF ExecutionInv, OneRunPerDelivery, JobsHaveAttemptsLeft,
             TradesBelongToDeliveries, CompletedHasTraded,
             RunsKnowTheirTrade, TradesOncePerDelivery, TradedInDelivery, Busy, RunId
<1> QED BY <1>2, <1>3

(* Every step of processOrder keeps what the queue and the DEX agree on. *)
LEMMA ExecutionWorker ==
  ASSUME TypeOK, ExecutionInv, NEW s \in Slots, WorkerStep(s)
  PROVE  ExecutionInv'
<1>1. CASE ExecuteSwap(s)
  BY <1>1, ExecutionSwap
<1>2. CASE CompleteJob(s) \/ FailJob(s)
  BY <1>2, ExecutionEnd
<1>3. ASSUME ~ExecuteSwap(s), ~CompleteJob(s), ~FailJob(s)
      PROVE  /\ run[s] # None /\ UNCHANGED <<job, trades>>
             /\ \E step : /\ Goto(s, step)
                         /\ \/ run[s].step \in BeforeTrade /\ step \in BeforeTrade
                            \/ run[s].step \in AfterTrade /\ step \in AfterTrade
  BY <1>3 DEF WorkerStep, MarkPending, ReportRouting, GetBestQuote, ReportRouted,
     ReportBuilding, ReportSubmitted, ReportConfirmed, RecordConfirmed, ReportFailed,
     RecordFailed, ReportExhausted, RecordExhausted, Report, At, AfterThrow, Dispatch,
     BeforeTrade, AfterTrade
<1> QED BY <1>1, <1>2, <1>3, ExecutionGoto

-----------------------------------------------------------------------------
(* Steps that lose no row and add no job keep what the requests have stored. *)
LEMMA StorageFrame ==
  ASSUME StorageInv, RowsStay,
         \A o \in Orders : job'[o].state = "none" <=> job[o].state = "none",
         \A o \in Orders : request'[o].step \in {request[o].step, "lost"}
  PROVE  StorageInv'
  BY DEF StorageInv, RequestsStoreInOrder, AcceptedIsDurable, RowsStay

(* A request that begins has stored nothing. *)
LEMMA StorageSubmit ==
  ASSUME TypeOK, StorageInv, NEW o \in Orders, NEW k \in OrderKinds,
         NEW srv \in Servers, Submit(o, k, srv)
  PROVE  StorageInv'
<1>1. /\ \A q \in Orders : q # o => request'[q] = request[q]
      /\ request[o].step = "none" /\ request'[o].step \in {"creating", "r400"}
      /\ UNCHANGED <<row, job>>
  BY DEF Submit, SchemaAccepts, Reply, TypeOK, Requests
<1> QED BY <1>1 DEF StorageInv, RequestsStoreInOrder, AcceptedIsDurable

(* createOrder stores the row, then the job, then replies. *)
LEMMA StorageController ==
  ASSUME TypeOK, StorageInv, NEW o \in Orders, ControllerStep(o)
  PROVE  StorageInv'
<1>0. NewRow # None
  BY NewRowType, EngineAssumption
<1>1. /\ \A q \in Orders : q # o =>
           request'[q] = request[q] /\ row'[q] = row[q] /\ job'[q] = job[q]
      /\ \/ /\ request[o].step = "creating" /\ request'[o].step = "enqueueing"
            /\ row'[o] # None /\ job'[o] = job[o]
         \/ /\ request[o].step = "creating" /\ request'[o].step = "r400"
            /\ row[o] # None => row'[o] # None
            /\ job'[o] = job[o]
         \/ /\ request[o].step = "enqueueing" /\ request'[o].step = "counting"
            /\ row'[o] = row[o] /\ job'[o].state = "waiting"
         \/ /\ request[o].step = "enqueueing" /\ request'[o].step = "r400"
            /\ row'[o] = row[o]
         \/ /\ request[o].step = "counting" /\ request'[o].step \in {"announcing", "r400"}
            /\ row'[o] = row[o] /\ job'[o] = job[o]
         \/ /\ request[o].step = "announcing" /\ request'[o].step \in {"r201", "r400"}
            /\ row'[o] = row[o] /\ job'[o] = job[o]
  <2> USE <1>0 DEF Proceed, Reply, TypeOK, Requests, Jobs
  <2>1. CASE CreateRow(o)
    BY <2>1 DEF CreateRow
  <2>2. CASE AddOrder(o)
    BY <2>2 DEF AddOrder
  <2>3. CASE CountQueue(o)
    BY <2>3 DEF CountQueue
  <2>4. CASE AnnouncePending(o)
    BY <2>4 DEF AnnouncePending
  <2> QED BY <2>1, <2>2, <2>3, <2>4 DEF ControllerStep
<1> QED BY <1>1 DEF StorageInv, RequestsStoreInOrder, AcceptedIsDurable

(* The queue never forgets a job. *)
LEMMA StorageQueue ==
  ASSUME TypeOK, StorageInv, NEW o \in Orders,
         \/ PromoteDelayed(o) \/ LoseLock(o) \/ MoveStalledJob(o)
         \/ \E s \in Slots : TakeJob(s, o)
  PROVE  StorageInv'
<1>1. /\ UNCHANGED <<request, row>>
      /\ \A q \in Orders : job'[q].state = "none" <=> job[q].state = "none"
  BY DEF PromoteDelayed, LoseLock, MoveStalledJob, TakeJob, TypeOK, Jobs
<1> QED BY <1>1, StorageFrame DEF RowsStay

(* A dead server loses requests, but no row and no job. *)
LEMMA StorageEndProcess ==
  ASSUME TypeOK, StorageInv, NEW srv \in Servers, EndProcess(srv)
  PROVE  StorageInv'
<1>1. /\ row' = row
      /\ \A q \in Orders : job'[q].state = job[q].state
      /\ \A q \in Orders : request'[q].step \in {request[q].step, "lost"}
  BY DEF EndProcess, TypeOK, Jobs
<1> QED BY <1>1, StorageFrame DEF RowsStay

(* processOrder deletes neither rows nor jobs. *)
LEMMA StorageWorker ==
  ASSUME TypeOK, StorageInv, JobsHaveAttemptsLeft, NEW s \in Slots, WorkerStep(s)
  PROVE  StorageInv'
<1>1. request' = request
  BY DEF WorkerStep, MarkPending, ReportRouting, GetBestQuote, ReportRouted,
     ReportBuilding, ReportSubmitted, ExecuteSwap, ReportConfirmed, RecordConfirmed,
     ReportFailed, RecordFailed, ReportExhausted, RecordExhausted, CompleteJob,
     FailJob, Report
<1>2. \A q \in Orders : job'[q].state = "none" <=> job[q].state = "none"
  <2>1. CASE CompleteJob(s) \/ FailJob(s)
    BY <2>1 DEF CompleteJob, FailJob, HoldsLock, TypeOK, Jobs
  <2>2. CASE job' = job
    BY <2>2
  <2> QED BY <2>1, <2>2 DEF WorkerStep, MarkPending, ReportRouting, GetBestQuote,
       ReportRouted, ReportBuilding, ReportSubmitted, ExecuteSwap, ReportConfirmed,
       RecordConfirmed, ReportFailed, RecordFailed, ReportExhausted, RecordExhausted, Report
<1> QED BY <1>1, <1>2, WorkerTypeOK, StorageFrame

-----------------------------------------------------------------------------
Confirmed(o) == row[o] # None /\ row[o].status = "confirmed"

(* An order confirmed in its first delivery has a trade of that delivery, so *)
(* its job is running or completed.                                          *)
LEMMA ConfirmedIsActive ==
  ASSUME TypeOK, ExecutionInv, ClaimsInv, NEW o \in Orders,
         Confirmed(o), job[o].stalled = 0
  PROVE  job[o].state \in {"active", "completed"}
<1>1. PICK t \in trades[o] : TRUE
  BY DEF ClaimsInv, ClaimsAreReal, Confirmed
<1>2. t.stalled \in Nat /\ t.stalled <= 0
  BY <1>1 DEF ExecutionInv, TradesBelongToDeliveries, TypeOK, TradeIds, StalledCounts
<1> QED BY <1>1, <1>2 DEF ExecutionInv, TradesBelongToDeliveries

(* The first delivery has one run. *)
LEMMA FirstDelivery ==
  ASSUME TypeOK, ExecutionInv, NEW s \in Slots, NEW u \in Slots, Busy(s), Busy(u),
         run[s].order = run[u].order, job[run[s].order].stalled = 0
  PROVE  s = u
<1>1. /\ run[s].stalled \in Nat /\ run[s].stalled <= 0
      /\ run[u].stalled \in Nat /\ run[u].stalled <= 0
  BY RunType DEF ExecutionInv, RunsBelongToDeliveries, StalledCounts, Busy
<1> QED BY <1>1 DEF ExecutionInv, OneRunPerDelivery

(* A step after which no row is newly confirmed, and no run of a confirmed   *)
(* order is new or further from its end.                                     *)
LEMMA ClaimsFrame ==
  ASSUME ClaimsInv,
         \A o \in Orders :
           /\ \/ row'[o] = row[o]
              \/ row[o] # None /\ row'[o].status # "confirmed" /\ row'[o].tx = row[o].tx
              \/ row'[o].status # "confirmed" /\ row'[o].tx = None
           /\ lastEvent'[o] = "confirmed" => lastEvent[o] = "confirmed" \/ trades[o] # {}
           /\ trades[o] \subseteq trades'[o]
           /\ job'[o].stalled = 0 => job[o].stalled = 0,
         \A s \in Slots : Busy(s)' =>
           /\ run'[s].order \in Orders
           /\ \/ run'[s] = run[s]
              \/ run'[s].step = "returning"
              \/ ~(Confirmed(run'[s].order) /\ job[run'[s].order].stalled = 0)
  PROVE  ClaimsInv'
<1>1. ClaimsAreReal'
  BY DEF ClaimsInv, ClaimsAreReal
<1>2. ConfirmedHasReturned'
  BY DEF ClaimsInv, ConfirmedHasReturned, Confirmed, Busy
<1> QED BY <1>1, <1>2 DEF ClaimsInv

(* createOrder claims no execution: it writes and publishes pending. *)
LEMMA ClaimsController ==
  ASSUME TypeOK, ExecutionInv, ClaimsInv, NEW o \in Orders,
         \/ ControllerStep(o)
         \/ \E k \in OrderKinds, srv \in Servers : Submit(o, k, srv)
  PROVE  ClaimsInv'
<1>1. UNCHANGED <<run, trades>>
  BY DEF ControllerStep, Submit, CreateRow, AddOrder, CountQueue, AnnouncePending
<1>2. \A q \in Orders : row'[q] \in {row[q], NewRow}
  BY DEF ControllerStep, Submit, CreateRow, AddOrder, CountQueue, AnnouncePending, TypeOK
<1>3. \A q \in Orders : lastEvent'[q] \in {lastEvent[q], "pending"}
  BY DEF ControllerStep, Submit, CreateRow, AddOrder, CountQueue, AnnouncePending,
     EmitStatusUpdate, PublishOutcomes, TypeOK
<1>4. \A q \in Orders : job'[q].stalled = job[q].stalled
  BY DEF ControllerStep, Submit, CreateRow, AddOrder, CountQueue, AnnouncePending,
     TypeOK, Jobs
<1>5. \A s \in Slots : Busy(s) => run[s].order \in Orders
  BY RunType DEF Busy
<1> QED BY <1>1, <1>2, <1>3, <1>4, <1>5, ClaimsFrame DEF NewRow, Busy

(* The queue touches no claim, and a stall only ends the first delivery. *)
LEMMA ClaimsQueue ==
  ASSUME TypeOK, ExecutionInv, ClaimsInv, NEW o \in Orders,
         PromoteDelayed(o) \/ LoseLock(o) \/ MoveStalledJob(o)
  PROVE  ClaimsInv'
<1>1. UNCHANGED <<row, lastEvent, run, trades>>
  BY DEF PromoteDelayed, LoseLock, MoveStalledJob
<1>2. \A q \in Orders : job'[q].stalled = 0 => job[q].stalled = 0
  <2>0. CASE PromoteDelayed(o)
    BY <2>0 DEF PromoteDelayed, TypeOK, Jobs
  <2>1. CASE LoseLock(o)
    BY <2>1 DEF LoseLock, TypeOK, Jobs
  <2>2. CASE MoveStalledJob(o)
    <3>1. /\ job[o].stalled \in Nat /\ job'[o].stalled = job[o].stalled + 1
          /\ \A q \in Orders : q # o => job'[q] = job[q]
      BY <2>2 DEF MoveStalledJob, TypeOK, Jobs, StalledCounts
    <3> QED BY <3>1
  <2> QED BY <2>0, <2>1, <2>2
<1>3. \A s \in Slots : Busy(s) => run[s].order \in Orders
  BY RunType DEF Busy
<1> QED BY <1>1, <1>2, <1>3, ClaimsFrame DEF Busy

(* A job that is taken was not confirmed in its first delivery. *)
LEMMA ClaimsTake ==
  ASSUME TypeOK, ExecutionInv, ClaimsInv, NEW o \in Orders, NEW s \in Slots, TakeJob(s, o)
  PROVE  ClaimsInv'
<1>1. /\ UNCHANGED <<row, lastEvent, trades>>
      /\ \A q \in Orders : job'[q].stalled = job[q].stalled
      /\ \A u \in Slots : u # s => run'[u] = run[u]
      /\ run'[s].order = o
  BY DEF TakeJob, TypeOK, Jobs
<1>2. ~(Confirmed(o) /\ job[o].stalled = 0)
  BY ConfirmedIsActive DEF TakeJob
<1>3. \A u \in Slots : Busy(u) => run[u].order \in Orders
  BY RunType DEF Busy
<1> QED BY <1>1, <1>2, <1>3, ClaimsFrame DEF Busy

(* A dead server makes no claim. *)
LEMMA ClaimsRestart ==
  ASSUME TypeOK, ExecutionInv, ClaimsInv, NEW srv \in Servers, Restart(srv)
  PROVE  ClaimsInv'
<1>1. /\ UNCHANGED <<row, lastEvent, trades>>
      /\ \A q \in Orders : job'[q].stalled = job[q].stalled
      /\ \A u \in Slots : run'[u] \in {run[u], None}
  BY DEF Restart, EndProcess, TypeOK, Jobs
<1>2. \A u \in Slots : Busy(u) => run[u].order \in Orders
  BY RunType DEF Busy
<1> QED BY <1>1, <1>2, ClaimsFrame DEF Busy

(* updateOrderInDB writes its row or nothing. *)
LEMMA UpdateEffect ==
  ASSUME TypeOK, NEW o \in Orders, NEW r, UpdateOrderInDB(o, r)
  PROVE  \A q \in Orders :
           \/ row'[q] = row[q]
           \/ q = o /\ row[o] # None /\ row'[q] = r
<1>1. CASE row' = row
  BY <1>1
<1>2. CASE row[o] # None /\ row' = [row EXCEPT ![o] = r]
  BY <1>2 DEF TypeOK
<1> QED BY <1>1, <1>2 DEF UpdateOrderInDB

(* RecordConfirmed is the only step that confirms a row. *)
LEMMA ClaimsRecordConfirmed ==
  ASSUME TypeOK, ExecutionInv, ClaimsInv, NEW s \in Slots, RecordConfirmed(s)
  PROVE  ClaimsInv'
<1> DEFINE o == run[s].order
           r == [row[o] EXCEPT !.status = "confirmed", !.tx = RunId(run[s]),
                               !.attempts = run[s].attempt]
<1>0. /\ run[s] # None /\ run[s] \in Runs /\ run[s].step = "persisting" /\ o \in Orders
      /\ RunId(run[s]) \in trades[o] /\ RunId(run[s]) # None
      /\ UNCHANGED <<job, lastEvent, trades>>
  BY RunType, EngineAssumption
     DEF RecordConfirmed, At, ExecutionInv, RunsKnowTheirTrade, AfterTrade, Busy
<1>1. \A q \in Orders :
        \/ row'[q] = row[q]
        \/ q = o /\ row[o] # None /\ row'[q] = r
  <2>1. UpdateOrderInDB(o, r)
    BY DEF RecordConfirmed
  <2> QED BY <1>0, <2>1, UpdateEffect
<1>2. row[o] # None => r.status = "confirmed" /\ r.tx = RunId(run[s])
  BY <1>0 DEF TypeOK, Rows
<1>3. ClaimsAreReal'
  <2> HIDE DEF r
  <2> QED BY <1>0, <1>1, <1>2 DEF ClaimsInv, ClaimsAreReal
<1>4. /\ \A u \in Slots : u # s => run'[u] = run[u]
      /\ run'[s].step = "returning"
  BY <1>0 DEF RecordConfirmed, Goto, TypeOK, Runs
<1>5. ConfirmedHasReturned'
  <2>1. SUFFICES ASSUME NEW u \in Slots, u # s, Busy(u), row'[run[u].order] # None,
                        row'[run[u].order].status = "confirmed",
                        job[run[u].order].stalled = 0
                 PROVE  run[u].step = "returning"
    BY <1>0, <1>4 DEF ConfirmedHasReturned, Confirmed, Busy
  <2>2. run[u].order # o
    BY <1>0, <2>1, FirstDelivery DEF Busy
  <2>3. Confirmed(run[u].order)
    BY <1>1, <2>1, <2>2, RunType DEF Confirmed, Busy
  <2> QED BY <2>1, <2>3 DEF ClaimsInv, ConfirmedHasReturned, Confirmed
<1> QED BY <1>3, <1>5 DEF ClaimsInv

(* processOrder claims an execution only after its swap. *)
LEMMA ClaimsWorker ==
  ASSUME TypeOK, ExecutionInv, ClaimsInv, NEW s \in Slots, WorkerStep(s)
  PROVE  ClaimsInv'
<1> DEFINE o == run[s].order
<1>1. CASE RecordConfirmed(s)
  BY <1>1, ClaimsRecordConfirmed
<1>2. CASE CompleteJob(s) \/ FailJob(s)
  <2>1. /\ UNCHANGED <<row, lastEvent, trades>>
        /\ \A q \in Orders : job'[q].stalled = job[q].stalled
        /\ \A u \in Slots : run'[u] \in {run[u], None}
    <3>1. CASE CompleteJob(s)
      BY <3>1 DEF CompleteJob, TypeOK, Jobs
    <3>2. CASE FailJob(s)
      BY <3>2 DEF FailJob, TypeOK, Jobs
    <3> QED BY <1>2, <3>1, <3>2
  <2>2. \A u \in Slots : Busy(u) => run[u].order \in Orders
    BY RunType DEF Busy
  <2> QED BY <2>1, <2>2, ClaimsFrame DEF Busy
<1>3. ASSUME ~RecordConfirmed(s), ~CompleteJob(s), ~FailJob(s)
      PROVE  ClaimsInv'
  <2>1. run[s] # None /\ run[s].step # "returning" /\ UNCHANGED job
        /\ \E step : Goto(s, step)
    BY <1>3 DEF WorkerStep, MarkPending, ReportRouting, GetBestQuote, ReportRouted,
       ReportBuilding, ReportSubmitted, ExecuteSwap, ReportConfirmed, ReportFailed,
       RecordFailed, ReportExhausted, RecordExhausted, Report, At
  <2>2. o \in Orders /\ \A u \in Slots : Busy(u) => run[u].order \in Orders
    BY <2>1, RunType DEF Busy
  <2>3. \A u \in Slots :
          /\ u # s => run'[u] = run[u]
          /\ Busy(u)' => run'[u].order \in Orders
          /\ u = s => run'[u].order = o
    BY <2>1, <2>2, RunType DEF Goto, TypeOK, Runs, Busy
  <2>4. ~(Confirmed(o) /\ job[o].stalled = 0)
    BY <2>1 DEF ClaimsInv, ConfirmedHasReturned, Confirmed, Busy
  <2>5. \A q \in Orders : trades[q] \subseteq trades'[q]
    BY <1>3, <2>2 DEF WorkerStep, MarkPending, ReportRouting, GetBestQuote, ReportRouted,
       ReportBuilding, ReportSubmitted, ExecuteSwap, ReportConfirmed, ReportFailed,
       RecordFailed, ReportExhausted, RecordExhausted, Report, TypeOK
  <2>6. \A q \in Orders :
          lastEvent'[q] = "confirmed" => lastEvent[q] = "confirmed" \/ trades[q] # {}
    <3>1. CASE ReportConfirmed(s)
      <4>1. trades[o] # {}
        BY <2>1, <3>1 DEF ReportConfirmed, Report, At, ExecutionInv, RunsKnowTheirTrade,
           AfterTrade, Busy
      <4> QED BY <2>2, <3>1, <4>1 DEF ReportConfirmed, Report, EmitStatusUpdate, TypeOK
    <3>2. CASE ~ReportConfirmed(s)
      BY <1>3, <2>2, <3>2 DEF WorkerStep, MarkPending, ReportRouting, GetBestQuote,
         ReportRouted, ReportBuilding, ReportSubmitted, ExecuteSwap, ReportFailed,
         RecordFailed, ReportExhausted, RecordExhausted, Report, EmitStatusUpdate,
         PublishOutcomes, TypeOK
    <3> QED BY <3>1, <3>2
  <2>7. \A q \in Orders :
          \/ row'[q] = row[q]
          \/ row[q] # None /\ row'[q].status # "confirmed" /\ row'[q].tx = row[q].tx
    <3>1. CASE row' = row
      BY <3>1
    <3>2. CASE MarkPending(s)
      <4>1. row[o] # None => LET r == [row[o] EXCEPT !.status = "pending"]
                             IN r.status # "confirmed" /\ r.tx = row[o].tx
        BY <2>2 DEF TypeOK, Rows
      <4> QED BY <2>2, <3>2, <4>1 DEF MarkPending, UpdateOrderInDB, TypeOK
    <3>3. CASE RecordFailed(s) \/ RecordExhausted(s)
      <4>1. row[o] # None => LET r == FailedRow(run[s])
                             IN r.status # "confirmed" /\ r.tx = row[o].tx
        BY <2>2 DEF TypeOK, Rows, FailedRow
      <4> QED BY <2>2, <3>3, <4>1 DEF RecordFailed, RecordExhausted, UpdateOrderInDB, TypeOK
    <3> QED BY <1>3, <3>1, <3>2, <3>3 DEF WorkerStep, ReportRouting, GetBestQuote, ReportRouted,
         ReportBuilding, ReportSubmitted, ExecuteSwap, ReportConfirmed, ReportFailed,
         ReportExhausted, Report
  <2>8. \A u \in Slots : Busy(u)' =>
          /\ run'[u].order \in Orders
          /\ \/ run'[u] = run[u]
             \/ ~(Confirmed(run'[u].order) /\ job[run'[u].order].stalled = 0)
    BY <2>3, <2>4
  <2> HIDE DEF o
  <2> QED BY <2>1, <2>5, <2>6, <2>7, <2>8, ClaimsFrame
<1> QED BY <1>1, <1>2, <1>3

-----------------------------------------------------------------------------
(* The engine starts in IInv: nothing is stored, queued, running or traded.  *)
LEMMA InitInv == Init => IInv
<1> SUFFICES ASSUME Init PROVE IInv
  OBVIOUS
<1>1. ExecutionInv
  BY EngineAssumption DEF Init, NoJob, ExecutionInv, RunsBelongToDeliveries,
     OneRunPerDelivery, LocksAreHeld, JobsHaveAttemptsLeft, TradesBelongToDeliveries,
     CompletedHasTraded, RunsKnowTheirTrade, TradesOncePerDelivery, Busy, Finished
<1>2. StorageInv
  BY DEF Init, NoJob, StorageInv, RequestsStoreInOrder, AcceptedIsDurable
<1>3. ClaimsInv
  BY EngineAssumption DEF Init, ClaimsInv, ClaimsAreReal, ConfirmedHasReturned, Busy, Statuses
<1> QED BY <1>1, <1>2, <1>3, InitTypeOK DEF IInv

(* Every step of the engine preserves IInv. *)
LEMMA NextInv ==
  ASSUME IInv, [Next]_vars
  PROVE  IInv'
<1> USE DEF IInv
<1>0. JobsHaveAttemptsLeft
  BY DEF ExecutionInv
<1>1. ASSUME NEW o \in Orders, NEW k \in OrderKinds, NEW srv \in Servers, Submit(o, k, srv)
      PROVE  IInv'
  BY <1>1, SubmitTypeOK, ExecutionFrame, StorageSubmit, ClaimsController DEF Submit
<1>2. ASSUME NEW o \in Orders, ControllerStep(o)
      PROVE  IInv'
  <2>1. ExecutionInv'
    <3>1. CASE AddOrder(o)
      BY <3>1, ExecutionAdd DEF AddOrder, StorageInv, RequestsStoreInOrder
    <3>2. CASE ~AddOrder(o)
      BY <1>2, <3>2, ExecutionFrame
         DEF ControllerStep, CreateRow, CountQueue, AnnouncePending
    <3> QED BY <3>1, <3>2
  <2> QED BY <1>2, <2>1, ControllerTypeOK, StorageController, ClaimsController
<1>3. ASSUME NEW s \in Slots, NEW o \in Orders, TakeJob(s, o)
      PROVE  IInv'
  BY <1>0, <1>3, QueueTypeOK, ExecutionTake, StorageQueue, ClaimsTake
<1>4. ASSUME NEW s \in Slots, WorkerStep(s)
      PROVE  IInv'
  BY <1>0, <1>4, WorkerTypeOK, ExecutionWorker, StorageWorker, ClaimsWorker
<1>5. ASSUME NEW o \in Orders, PromoteDelayed(o) \/ LoseLock(o) \/ MoveStalledJob(o)
      PROVE  IInv'
  BY <1>0, <1>5, QueueTypeOK, ExecutionQueue, StorageQueue, ClaimsQueue
<1>6. ASSUME NEW srv \in Servers, Restart(srv)
      PROVE  IInv'
  BY <1>6, EndProcessTypeOK, ExecutionRestart, StorageEndProcess, ClaimsRestart DEF Restart
<1>7. CASE UNCHANGED vars
  <2>1. TypeOK'
    BY <1>7 DEF vars, TypeOK
  <2>2. ExecutionInv'
    BY <1>7, ExecutionFrame DEF vars
  <2>3. StorageInv'
    BY <1>7, StorageFrame DEF vars, RowsStay
  <2>4. ClaimsInv'
    BY <1>7, ClaimsFrame, RunType DEF vars, Busy
  <2> QED BY <2>1, <2>2, <2>3, <2>4
<1>8. CASE AtRest
  BY <1>7, <1>8 DEF AtRest
<1> QED BY <1>1, <1>2, <1>3, <1>4, <1>5, <1>6, <1>7, <1>8 DEF Next

(* IInv holds in every reachable state, whatever the number of orders,       *)
(* servers, slots, attempts and stalls, and whichever faults occur.          *)
THEOREM Invariance == Spec => []IInv
<1>1. IInv /\ [Next]_vars => IInv'
  BY NextInv
<1> QED BY <1>1, InitInv, PTL DEF Spec

(* The variables keep their types: in particular no attempt is numbered      *)
(* above MAX_ATTEMPTS and no job stalls more often than the queue allows.    *)
THEOREM TypeCorrectness == Spec => []TypeOK
<1>1. IInv => TypeOK
  BY DEF IInv
<1> QED BY <1>1, Invariance, PTL

(* An order trades at most once per delivery of its job, although runs that  *)
(* lost their lock race with their successors, attempts are retried and      *)
(* processOrder swallows the failures of its updates.                        *)
THEOREM SingleTradePerDelivery == Spec => []TradesOncePerDelivery
<1>1. IInv => TradesOncePerDelivery
  BY DEF IInv, ExecutionInv
<1> QED BY <1>1, Invariance, PTL

(* A job BullMQ completed has traded in its current delivery; one that is    *)
(* waiting, delayed or failed has not.                                       *)
THEOREM TruthfulVerdicts == Spec => []VerdictIsTruthful
<1>1. IInv => VerdictIsTruthful
  BY DEF IInv, ExecutionInv, VerdictIsTruthful, CompletedHasTraded,
     TradesBelongToDeliveries, TradedInDelivery
<1> QED BY <1>1, Invariance, PTL

(* A confirmation in the row or on the channel, and a hash in the row, is    *)
(* that of a swap the DEX executed.                                          *)
THEOREM RealClaims == Spec => []ClaimsAreReal
<1>1. IInv => ClaimsAreReal
  BY DEF IInv, ClaimsInv
<1> QED BY <1>1, Invariance, PTL

(* createOrder replies 201 only for an order in the queue, and every order   *)
(* in the queue has its row.                                                 *)
THEOREM DurableAcceptance == Spec => []AcceptedIsDurable
<1>1. IInv => AcceptedIsDurable
  BY DEF IInv, StorageInv
<1> QED BY <1>1, Invariance, PTL

(* A step that takes a confirmation back happens only to a job that stalled. *)
LEMMA ConfirmedStep ==
  ASSUME IInv, [Next]_vars, NEW o \in Orders, Confirmed(o), job[o].stalled = 0
  PROVE  row'[o].status = "confirmed"
<1> USE DEF IInv
<1>1. CASE row'[o] = row[o]
  BY <1>1 DEF Confirmed
<1>2. ASSUME CreateRow(o)
      PROVE  FALSE
  BY <1>2, ConfirmedIsActive DEF CreateRow, StorageInv, RequestsStoreInOrder
<1>3. ASSUME NEW s \in Slots, NEW r, At(s, "starting") \/ At(s, "recording") \/ At(s, "burying")
                                  \/ At(s, "persisting"),
             UpdateOrderInDB(run[s].order, r)
      PROVE  row'[o] = row[o]
  <2>1. run[s].order # o
    BY <1>3 DEF At, ClaimsInv, ConfirmedHasReturned, Confirmed, Busy
  <2> QED BY <1>3, <2>1, RunType, UpdateEffect DEF At
<1>4. ASSUME NEW s \in Slots, WorkerStep(s)
      PROVE  row'[o] = row[o]
  BY <1>3, <1>4 DEF WorkerStep, MarkPending, ReportRouting, GetBestQuote, ReportRouted,
     ReportBuilding, ReportSubmitted, ExecuteSwap, ReportConfirmed, RecordConfirmed,
     ReportFailed, RecordFailed, ReportExhausted, RecordExhausted, CompleteJob, FailJob, Report
<1>5. ASSUME NEW q \in Orders, ControllerStep(q)
      PROVE  row'[o] = row[o]
  BY <1>2, <1>5 DEF ControllerStep, CreateRow, AddOrder, CountQueue, AnnouncePending, TypeOK
<1>6. CASE row' = row
  BY <1>1, <1>6
<1> QED BY <1>1, <1>4, <1>5, <1>6 DEF Next, Submit, TakeJob, PromoteDelayed, LoseLock,
           MoveStalledJob, Restart, EndProcess, AtRest, vars

(* Neither a retry nor a late handler takes back the confirmation of an order*)
(* whose job never stalled.                                                  *)
THEOREM StableConfirmation == Spec => ConfirmedUntilStalled
<1>1. IInv /\ [Next]_vars =>
        [\A o \in Orders :
           /\ row[o] # None
           /\ row[o].status = "confirmed"
           /\ job[o].stalled = 0
           => row'[o].status = "confirmed"]_vars
  BY ConfirmedStep DEF Confirmed
<1> QED BY <1>1, Invariance, PTL DEF Spec, ConfirmedUntilStalled

-----------------------------------------------------------------------------
(* The rows, while the database accepts the updates.                         *)

(* No step before the job is taken, and none of the queue's, changes what    *)
(* the rows tell of the attempts.                                            *)
LEMMA RowsFrame ==
  ASSUME RowInv, UNCHANGED row,
         \A s \in Slots : run'[s] \in {run[s], None},
         \A o \in Orders : job'[o].stalled = 0 =>
           /\ job[o].stalled = 0
           /\ job'[o].attemptsMade = job[o].attemptsMade
           /\ job'[o].state \in {"none", "waiting", "delayed"} =>
                job[o].state \in {"none", "waiting", "delayed"}
           /\ job'[o].state \in Finished => job'[o].state = job[o].state,
         \A s \in Slots : Busy(s) => run[s].order \in Orders
  PROVE  RowInv'
<1> SUFFICES ASSUME "db" \notin Faults
             PROVE  RowsLagBehind' /\ RunsKnowTheirRow' /\ FinishedRowIsTruthful'
  BY DEF RowInv
<1>1. RowsLagBehind'
  BY DEF RowInv, RowsLagBehind
<1>2. RunsKnowTheirRow'
  <2> SUFFICES ASSUME NEW s \in Slots, Busy(s)', job'[run'[s].order].stalled = 0
               PROVE  RunKnowsRow(s)'
    BY DEF RunsKnowTheirRow
  <2>1. run'[s] = run[s] /\ Busy(s) /\ run[s].order \in Orders
    BY DEF Busy
  <2>2. RunKnowsRow(s)
    BY <2>1 DEF RowInv, RunsKnowTheirRow
  <2> QED BY <2>1, <2>2 DEF RunKnowsRow
<1>3. FinishedRowIsTruthful'
  BY DEF RowInv, FinishedRowIsTruthful, Finished
<1> QED BY <1>1, <1>2, <1>3

(* A delivery that began with the job, and is not over, is active. *)
LEMMA FirstDeliveryIsActive ==
  ASSUME TypeOK, ExecutionInv, NEW s \in Slots, Busy(s), job[run[s].order].stalled = 0
  PROVE  /\ job[run[s].order].state = "active"
         /\ run[s].stalled = 0
         /\ run[s].attempt = job[run[s].order].attemptsMade + 1
<1>1. run[s].stalled \in Nat /\ run[s].stalled <= 0
  BY RunType DEF ExecutionInv, RunsBelongToDeliveries, StalledCounts, Busy
<1> QED BY <1>1 DEF ExecutionInv, RunsBelongToDeliveries

(* A new row tells of no failure, and its job has had no attempt. *)
LEMMA RowsCreate ==
  ASSUME TypeOK, ExecutionInv, StorageInv, RowInv, NEW o \in Orders, CreateRow(o)
  PROVE  RowInv'
<1> SUFFICES ASSUME "db" \notin Faults
             PROVE  RowsLagBehind' /\ RunsKnowTheirRow' /\ FinishedRowIsTruthful'
  BY DEF RowInv
<1>1. /\ UNCHANGED <<job, run>>
      /\ row'[o] = NewRow
      /\ \A q \in Orders : q # o => row'[q] = row[q]
      /\ job[o].state = "none" /\ job[o].attemptsMade = 0
  BY DEF CreateRow, TypeOK, StorageInv, RequestsStoreInOrder, ExecutionInv,
     JobsHaveAttemptsLeft, NoJob
<1>2. RowsLagBehind'
  BY <1>1 DEF RowInv, RowsLagBehind, NewRow
<1>3. RunsKnowTheirRow'
  <2> SUFFICES ASSUME NEW s \in Slots, Busy(s), job[run[s].order].stalled = 0
               PROVE  RunKnowsRow(s)'
    BY <1>1 DEF RunsKnowTheirRow, Busy
  <2>1. run[s].order # o /\ run[s].order \in Orders
    BY <1>1, FirstDeliveryIsActive, RunType DEF Busy
  <2>2. RunKnowsRow(s)
    BY DEF RowInv, RunsKnowTheirRow
  <2> QED BY <1>1, <2>1, <2>2 DEF RunKnowsRow
<1>4. FinishedRowIsTruthful'
  BY <1>1 DEF RowInv, FinishedRowIsTruthful
<1> QED BY <1>2, <1>3, <1>4

(* The attempt that begins is later than every failure in the row. *)
LEMMA RowsTake ==
  ASSUME TypeOK, StorageInv, RowInv, NEW s \in Slots, NEW o \in Orders, TakeJob(s, o)
  PROVE  RowInv'
<1> SUFFICES ASSUME "db" \notin Faults
             PROVE  RowsLagBehind' /\ RunsKnowTheirRow' /\ FinishedRowIsTruthful'
  BY DEF RowInv
<1>1. /\ UNCHANGED row
      /\ \A q \in Orders : q # o => job'[q] = job[q]
      /\ job'[o].state = "active" /\ job'[o].stalled = job[o].stalled
      /\ job[o].state = "waiting" /\ job[o].attemptsMade \in Nat
      /\ \A u \in Slots : u # s => run'[u] = run[u]
      /\ run'[s] = [order |-> o, stalled |-> job[o].stalled,
                    attempt |-> job[o].attemptsMade + 1, step |-> "starting"]
  BY EngineAssumption DEF TakeJob, TypeOK, Jobs
<1>2. row[o] # None /\ row[o].error \in Nat
  BY <1>1, EngineAssumption DEF StorageInv, AcceptedIsDurable, TypeOK, Rows
<1>3. RowsLagBehind'
  BY <1>1 DEF RowInv, RowsLagBehind
<1>4. RunsKnowTheirRow'
  <2> SUFFICES ASSUME NEW u \in Slots, Busy(u)', job'[run'[u].order].stalled = 0
               PROVE  RunKnowsRow(u)'
    BY DEF RunsKnowTheirRow
  <2>1. CASE u = s
    <3>1. row[o].error <= job[o].attemptsMade
      BY <1>1, <1>2, <2>1 DEF RowInv, RowsLagBehind
    <3> QED BY <1>1, <1>2, <2>1, <3>1 DEF RunKnowsRow
  <2>2. CASE u # s
    <3>1. run'[u] = run[u] /\ Busy(u) /\ run[u].order \in Orders
      BY <1>1, <2>2, RunType DEF Busy
    <3>2. job[run[u].order].stalled = 0
      BY <1>1, <3>1
    <3>3. RunKnowsRow(u)
      BY <3>1, <3>2 DEF RowInv, RunsKnowTheirRow
    <3> QED BY <1>1, <3>1, <3>3 DEF RunKnowsRow
  <2> QED BY <2>1, <2>2
<1>5. FinishedRowIsTruthful'
  BY <1>1 DEF RowInv, FinishedRowIsTruthful
<1> QED BY <1>3, <1>4, <1>5

(* A run that goes on, if it still knows its row: no other run of the order  *)
(* cares as long as the job has not stalled.                                 *)
LEMMA RowsGoOn ==
  ASSUME TypeOK, ExecutionInv, RowInv, NEW s \in Slots, Busy(s), Busy(s)',
         UNCHANGED job,
         run'[s].order = run[s].order,
         \A u \in Slots : u # s => run'[u] = run[u],
         \A q \in Orders : q # run[s].order => row'[q] = row[q],
         "db" \notin Faults /\ job[run[s].order].stalled = 0 => RunKnowsRow(s)'
  PROVE  RowInv'
<1> DEFINE o == run[s].order
<1> SUFFICES ASSUME "db" \notin Faults
             PROVE  RowsLagBehind' /\ RunsKnowTheirRow' /\ FinishedRowIsTruthful'
  BY DEF RowInv
<1>0. o \in Orders /\ (job[o].stalled = 0 => job[o].state = "active")
  BY RunType, FirstDeliveryIsActive DEF Busy
<1>1. RowsLagBehind'
  BY <1>0 DEF RowInv, RowsLagBehind
<1>2. RunsKnowTheirRow'
  <2> SUFFICES ASSUME NEW u \in Slots, Busy(u)', job[run'[u].order].stalled = 0
               PROVE  RunKnowsRow(u)'
    BY DEF RunsKnowTheirRow
  <2>1. CASE u = s
    BY <2>1
  <2>2. CASE u # s
    <3>1. run'[u] = run[u] /\ Busy(u) /\ run[u].order \in Orders
      BY <2>2, RunType DEF Busy
    <3>2. run[u].order # o
      BY <2>2, <3>1, FirstDelivery
    <3>3. RunKnowsRow(u)
      BY <3>1 DEF RowInv, RunsKnowTheirRow
    <3> QED BY <3>1, <3>2, <3>3 DEF RunKnowsRow
  <2> QED BY <2>1, <2>2
<1>3. FinishedRowIsTruthful'
  BY <1>0 DEF RowInv, FinishedRowIsTruthful
<1> QED BY <1>1, <1>2, <1>3

(* Going on without a word to the database, short of the steps that claim    *)
(* something of the row.                                                     *)
LEMMA RowsGoto ==
  ASSUME TypeOK, ExecutionInv, RowInv, NEW s \in Slots, run[s] # None,
         NEW step \in BeforeTrade \cup AfterTrade, Goto(s, step), UNCHANGED <<job, row>>,
         step \notin {"exhausted", "burying", "throwing", "returning"}
           /\ run[s].step \notin {"exhausted", "burying", "throwing"}
  PROVE  RowInv'
<1>1. /\ run'[s] = [run[s] EXCEPT !.step = step]
      /\ \A u \in Slots : u # s => run'[u] = run[u]
  BY DEF Goto, TypeOK
<1>2. run[s] \in Runs /\ run'[s] \in Runs
  BY <1>1, RunType DEF Runs
<1>3. /\ run'[s].order = run[s].order /\ run'[s].attempt = run[s].attempt
      /\ run'[s].step = step
  BY <1>1, <1>2 DEF Runs
<1>4. Busy(s) /\ Busy(s)'
  BY <1>2, EngineAssumption DEF Busy
<1>5. "db" \notin Faults /\ job[run[s].order].stalled = 0 => RunKnowsRow(s)'
  BY <1>3, <1>4 DEF RowInv, RunsKnowTheirRow, RunKnowsRow
<1> QED BY <1>1, <1>3, <1>4, <1>5, RowsGoOn

(* Going on with an update of the row, which the database accepts.           *)
LEMMA RowsUpdate ==
  ASSUME TypeOK, ExecutionInv, StorageInv, RowInv, NEW s \in Slots, run[s] # None,
         NEW step \in BeforeTrade \cup AfterTrade, Goto(s, step), UNCHANGED job,
         NEW w, UpdateOrderInDB(run[s].order, w),
         "db" \notin Faults /\ job[run[s].order].stalled = 0 =>
           /\ w.error <= run[s].attempt
           /\ step \notin {"exhausted", "burying", "throwing"} => w.error < run[s].attempt
           /\ step \in {"exhausted", "burying"} => run[s].attempt = MaxAttempts
           /\ step = "returning" => w.status = "confirmed" /\ w.attempts = run[s].attempt
           /\ step = "throwing" /\ run[s].attempt = MaxAttempts
                => w.status = "failed" /\ w.attempts = MaxAttempts
  PROVE  RowInv'
<1>1. /\ run'[s] = [run[s] EXCEPT !.step = step]
      /\ \A u \in Slots : u # s => run'[u] = run[u]
  BY DEF Goto, TypeOK
<1>2. run[s] \in Runs /\ run'[s] \in Runs /\ run[s].order \in Orders
  BY <1>1, RunType DEF Runs
<1>3. /\ run'[s].order = run[s].order /\ run'[s].attempt = run[s].attempt
      /\ run'[s].step = step
  BY <1>1, <1>2 DEF Runs
<1>4. Busy(s) /\ Busy(s)'
  BY <1>2, EngineAssumption DEF Busy
<1>5. \A q \in Orders : q # run[s].order => row'[q] = row[q]
  BY <1>2, UpdateEffect
<1>6. ASSUME "db" \notin Faults, job[run[s].order].stalled = 0
      PROVE  RunKnowsRow(s)'
  <2>1. row[run[s].order] # None
    BY <1>2, <1>4, <1>6, FirstDeliveryIsActive DEF StorageInv, AcceptedIsDurable
  <2>2. row'[run[s].order] = w
    BY <1>2, <1>6, <2>1 DEF UpdateOrderInDB, TypeOK
  <2> QED BY <1>3, <1>6, <2>2 DEF RunKnowsRow
<1> QED BY <1>1, <1>3, <1>4, <1>5, <1>6, RowsGoOn

(* The run of a first delivery finds the row of its order.                   *)
LEMMA FirstRowIsThere ==
  ASSUME TypeOK, ExecutionInv, StorageInv, NEW s \in Slots, Busy(s),
         job[run[s].order].stalled = 0
  PROVE  /\ run[s] \in Runs
         /\ row[run[s].order] \in Rows
  BY RunType, FirstDeliveryIsActive DEF StorageInv, AcceptedIsDurable, TypeOK, Busy

(* The four updates of processOrder and its status callback.                 *)
LEMMA RowsMarkPending ==
  ASSUME TypeOK, ExecutionInv, StorageInv, RowInv, NEW s \in Slots, MarkPending(s)
  PROVE  RowInv'
<1> DEFINE r == run[s]
           w == [row[r.order] EXCEPT !.status = "pending"]
<1>1. /\ r # None /\ r.step = "starting" /\ UNCHANGED job
      /\ UpdateOrderInDB(r.order, w) /\ Goto(s, Dispatch(r))
  BY DEF MarkPending, At
<1>2. Dispatch(r) \in BeforeTrade
  BY DEF AfterThrow, Dispatch, BeforeTrade
<1>3. ASSUME "db" \notin Faults, job[r.order].stalled = 0
      PROVE  /\ w.error < r.attempt
             /\ Dispatch(r) # "burying" /\ Dispatch(r) # "returning"
             /\ Dispatch(r) = "exhausted" => r.attempt = MaxAttempts
             /\ Dispatch(r) = "throwing" => r.attempt # MaxAttempts
             /\ w.error \in Nat /\ r.attempt \in Nat
  <2>1. r \in Runs /\ row[r.order] \in Rows
    BY <1>1, <1>3, FirstRowIsThere DEF Busy
  <2>2. r.attempt \in 1..MaxAttempts
    BY <2>1 DEF Runs, Attempts
  <2>3. w.error = row[r.order].error /\ w.error \in 0..MaxAttempts
    BY <2>1 DEF Rows
  <2>4. row[r.order].error < r.attempt
    BY <1>1, <1>3 DEF RowInv, RunsKnowTheirRow, RunKnowsRow, Busy
  <2> QED BY <2>2, <2>3, <2>4, EngineAssumption DEF Dispatch, AfterThrow
<1> HIDE DEF w
<1> QED BY <1>1, <1>2, <1>3, RowsUpdate

LEMMA RowsRecordConfirmed ==
  ASSUME TypeOK, ExecutionInv, StorageInv, RowInv, NEW s \in Slots, RecordConfirmed(s)
  PROVE  RowInv'
<1> DEFINE r == run[s]
           w == [row[r.order] EXCEPT !.status = "confirmed", !.tx = RunId(r),
                                     !.attempts = r.attempt]
<1>1. /\ r # None /\ r.step = "persisting" /\ UNCHANGED job
      /\ UpdateOrderInDB(r.order, w) /\ Goto(s, "returning")
  BY DEF RecordConfirmed, At
<1>2. ASSUME "db" \notin Faults, job[r.order].stalled = 0
      PROVE  /\ w.error < r.attempt /\ w.error \in Nat /\ r.attempt \in Nat
             /\ w.status = "confirmed" /\ w.attempts = r.attempt
  <2>1. r \in Runs /\ row[r.order] \in Rows
    BY <1>1, <1>2, FirstRowIsThere DEF Busy
  <2>2. row[r.order].error < r.attempt
    BY <1>1, <1>2 DEF RowInv, RunsKnowTheirRow, RunKnowsRow, Busy
  <2> QED BY <2>1, <2>2, EngineAssumption DEF Rows, Runs, Attempts
<1> HIDE DEF w
<1> QED BY <1>1, <1>2, RowsUpdate DEF AfterTrade

LEMMA RowsRecordFailure ==
  ASSUME TypeOK, ExecutionInv, StorageInv, RowInv, NEW s \in Slots,
         RecordFailed(s) \/ RecordExhausted(s)
  PROVE  RowInv'
<1> DEFINE r == run[s]
           w == FailedRow(r)
           step == IF r.step = "recording" THEN AfterThrow(r) ELSE "throwing"
<1>1. /\ r # None /\ r.step \in {"recording", "burying"} /\ UNCHANGED job
      /\ UpdateOrderInDB(r.order, w) /\ Goto(s, step)
  BY DEF RecordFailed, RecordExhausted, At
<1>2. step \in {"exhausted", "throwing"}
  BY DEF AfterThrow
<1>3. ASSUME "db" \notin Faults, job[r.order].stalled = 0
      PROVE  /\ w.error = r.attempt /\ w.attempts = r.attempt /\ w.status = "failed"
             /\ r.attempt \in Nat
             /\ step = "exhausted" => r.attempt = MaxAttempts
  <2>1. r \in Runs /\ row[r.order] \in Rows
    BY <1>1, <1>3, FirstRowIsThere DEF Busy
  <2> QED BY <2>1, EngineAssumption DEF FailedRow, AfterThrow, Rows, Runs, Attempts
<1> HIDE DEF w, step
<1> QED BY <1>1, <1>2, <1>3, RowsUpdate DEF BeforeTrade

(* Publishing, before the worker's own update, that no attempt is left.      *)
LEMMA RowsReportExhausted ==
  ASSUME TypeOK, ExecutionInv, RowInv, NEW s \in Slots, ReportExhausted(s)
  PROVE  RowInv'
<1> DEFINE r == run[s]
<1>1. /\ r # None /\ r.step = "exhausted" /\ UNCHANGED <<job, row>>
      /\ Goto(s, "burying")
  BY DEF ReportExhausted, Report, At
<1>2. r \in Runs /\ r.order \in Orders
  BY <1>1, RunType
<1>3. /\ run'[s] = [r EXCEPT !.step = "burying"]
      /\ \A u \in Slots : u # s => run'[u] = run[u]
  BY <1>1 DEF Goto, TypeOK
<1>4. /\ run'[s] \in Runs
      /\ run'[s].order = r.order /\ run'[s].attempt = r.attempt
      /\ run'[s].step = "burying"
  BY <1>2, <1>3 DEF Runs, BeforeTrade
<1>5. Busy(s) /\ Busy(s)'
  BY <1>1, <1>4, EngineAssumption DEF Busy
<1>6. "db" \notin Faults /\ job[r.order].stalled = 0 => RunKnowsRow(s)'
  BY <1>1, <1>4, <1>5 DEF RowInv, RunsKnowTheirRow, RunKnowsRow
<1> QED BY <1>1, <1>3, <1>4, <1>5, <1>6, RowsGoOn

(* A run of a first delivery that is about to throw has traded nothing, so   *)
(* its row has no hash.                                                      *)
LEMMA FirstFailureHasNoHash ==
  ASSUME TypeOK, ExecutionInv, StorageInv, ClaimsInv, NEW s \in Slots, Busy(s),
         job[run[s].order].stalled = 0, run[s].step \in BeforeTrade
  PROVE  row[run[s].order].tx = None
<1> DEFINE o == run[s].order
<1>1. o \in Orders /\ run[s].stalled = 0 /\ row[o] \in Rows
  BY FirstRowIsThere, FirstDeliveryIsActive DEF Runs
<1>2. ~TradedInDelivery(o, 0)
  BY <1>1 DEF ExecutionInv, RunsKnowTheirTrade
<1>3. \A t \in trades[o] : t.stalled \in Nat /\ t.stalled <= 0
  BY <1>1 DEF ExecutionInv, TradesBelongToDeliveries, TypeOK, TradeIds, StalledCounts
<1>4. trades[o] = {}
  BY <1>2, <1>3 DEF TradedInDelivery
<1> QED BY <1>1, <1>4, EngineAssumption DEF ClaimsInv, ClaimsAreReal, Rows

(* A run that holds its lock ends the attempt: what it knows of its row is   *)
(* now true of a finished, or a delayed, job.                                *)
LEMMA RowsEnd ==
  ASSUME TypeOK, ExecutionInv, StorageInv, ClaimsInv, RowInv, NEW s \in Slots,
         CompleteJob(s) \/ FailJob(s)
  PROVE  RowInv'
<1> DEFINE r == run[s]
           o == r.order
<1>0. /\ Busy(s) /\ o \in Orders
      /\ r.step \in {"returning", "throwing"} /\ UNCHANGED row
      /\ run'[s] = None
      /\ \A u \in Slots : u # s => run'[u] = run[u]
      /\ \A u \in Slots : Busy(u) => run[u].order \in Orders
  BY RunType DEF CompleteJob, FailJob, TypeOK, Busy
<1>1. CASE ~HoldsLock(s, o)
  <2>1. UNCHANGED job
    BY <1>1 DEF CompleteJob, FailJob
  <2> QED BY <1>0, <2>1, RowsFrame DEF Finished
<1>2. CASE HoldsLock(s, o)
  <2>0. job[o].attemptsMade \in Nat
    BY <1>0, EngineAssumption DEF TypeOK, Jobs
  <2>1. /\ \A q \in Orders : q # o => job'[q] = job[q]
        /\ job'[o].stalled = job[o].stalled
        /\ \/ /\ r.step = "returning"
              /\ job'[o].state = "completed"
              /\ job'[o].attemptsMade = job[o].attemptsMade
           \/ /\ r.step = "throwing"
              /\ job'[o].attemptsMade = job[o].attemptsMade + 1
              /\ \/ job'[o].state = "delayed" /\ job'[o].attemptsMade < MaxAttempts
                 \/ job'[o].state = "failed" /\ ~(job'[o].attemptsMade < MaxAttempts)
    BY <1>0, <1>2 DEF CompleteJob, FailJob, TypeOK, Jobs
  <2> SUFFICES ASSUME "db" \notin Faults
               PROVE  RowsLagBehind' /\ RunsKnowTheirRow' /\ FinishedRowIsTruthful'
    BY DEF RowInv
  <2>2. ASSUME job[o].stalled = 0
        PROVE  /\ r \in Runs /\ row[o] \in Rows /\ RunKnowsRow(s)
               /\ r.attempt = job[o].attemptsMade + 1
               /\ r.attempt \in 1..MaxAttempts /\ row[o].error \in Nat
               /\ r.step = "throwing" => row[o].tx = None
    BY <1>0, <2>2, FirstRowIsThere, FirstDeliveryIsActive, FirstFailureHasNoHash,
       EngineAssumption
       DEF RowInv, RunsKnowTheirRow, Runs, Rows, Attempts, BeforeTrade
  <2>3. RowsLagBehind'
    <3>1. ASSUME job[o].stalled = 0, r.step = "throwing"
          PROVE  row[o].error <= job'[o].attemptsMade
      BY <2>1, <2>2, <3>1 DEF RunKnowsRow
    <3> QED BY <1>0, <2>1, <3>1 DEF RowInv, RowsLagBehind
  <2>4. RunsKnowTheirRow'
    <3> SUFFICES ASSUME NEW u \in Slots, Busy(u)', job'[run'[u].order].stalled = 0
                 PROVE  RunKnowsRow(u)'
      BY DEF RunsKnowTheirRow
    <3>1. u # s /\ run'[u] = run[u] /\ Busy(u) /\ run[u].order \in Orders
      BY <1>0 DEF Busy
    <3>2. job[run[u].order].stalled = 0
      BY <2>1, <3>1
    <3>3. RunKnowsRow(u)
      BY <3>1, <3>2 DEF RowInv, RunsKnowTheirRow
    <3> QED BY <1>0, <3>1, <3>3 DEF RunKnowsRow
  <2>5. FinishedRowIsTruthful'
    <3>1. ASSUME job[o].stalled = 0, r.step = "returning"
          PROVE  /\ row[o].status = "confirmed"
                 /\ row[o].attempts = job'[o].attemptsMade + 1
                 /\ row[o].error < row[o].attempts
      BY <2>0, <2>1, <2>2, <3>1 DEF RunKnowsRow
    <3>2. ASSUME job[o].stalled = 0, r.step = "throwing", job'[o].state = "failed"
          PROVE  /\ row[o].status = "failed"
                 /\ row[o].attempts = MaxAttempts
                 /\ row[o].tx = None
      <4>1. r.attempt = MaxAttempts
        BY <2>0, <2>1, <2>2, <3>2, EngineAssumption
      <4> QED BY <2>2, <3>2, <4>1 DEF RunKnowsRow
    <3>3. row' = row /\ job'[o].stalled = job[o].stalled
      BY <1>0, <2>1
    <3>4. CASE r.step = "returning"
      BY <2>1, <3>1, <3>3, <3>4 DEF RowInv, FinishedRowIsTruthful
    <3>5. CASE r.step = "throwing"
      BY <2>1, <3>2, <3>3, <3>5 DEF RowInv, FinishedRowIsTruthful
    <3> QED BY <1>0, <3>4, <3>5
  <2> QED BY <2>3, <2>4, <2>5
<1> QED BY <1>1, <1>2

(* Every step of processOrder keeps what the rows tell.                      *)
LEMMA RowsWorker ==
  ASSUME TypeOK, ExecutionInv, StorageInv, ClaimsInv, RowInv, NEW s \in Slots,
         WorkerStep(s)
  PROVE  RowInv'
<1>1. CASE \/ ReportRouting(s) \/ ReportRouted(s) \/ ReportBuilding(s)
           \/ ReportSubmitted(s) \/ ReportConfirmed(s) \/ ReportFailed(s)
           \/ GetBestQuote(s) \/ ExecuteSwap(s)
  <2>1. /\ run[s] # None /\ UNCHANGED <<job, row>>
        /\ run[s].step \notin {"exhausted", "burying", "throwing"}
        /\ \E step \in BeforeTrade \cup AfterTrade :
             /\ Goto(s, step)
             /\ step \notin {"exhausted", "burying", "throwing", "returning"}
    BY <1>1 DEF ReportRouting, ReportRouted, ReportBuilding, ReportSubmitted,
       ReportConfirmed, ReportFailed, GetBestQuote, ExecuteSwap, Report, At,
       BeforeTrade, AfterTrade
  <2> QED BY <2>1, RowsGoto
<1>2. CASE CompleteJob(s) \/ FailJob(s)
  BY <1>2, RowsEnd
<1> QED BY <1>1, <1>2, RowsMarkPending, RowsRecordConfirmed, RowsRecordFailure,
        RowsReportExhausted DEF WorkerStep

(* The queue, a dead server and a request write no row and begin no attempt. *)
LEMMA RowsElsewhere ==
  ASSUME TypeOK, ExecutionInv, StorageInv, RowInv,
         \/ \E o \in Orders : \/ \E k \in OrderKinds, srv \in Servers : Submit(o, k, srv)
                              \/ AddOrder(o) \/ CountQueue(o) \/ AnnouncePending(o)
                              \/ PromoteDelayed(o) \/ LoseLock(o) \/ MoveStalledJob(o)
         \/ \E srv \in Servers : Restart(srv)
  PROVE  RowInv'
<1>0. \A s \in Slots : Busy(s) => run[s].order \in Orders
  BY RunType DEF Busy
<1>1. UNCHANGED row /\ \A s \in Slots : run'[s] \in {run[s], None}
  BY DEF Submit, AddOrder, CountQueue, AnnouncePending, PromoteDelayed, LoseLock,
     MoveStalledJob, Restart, EndProcess, TypeOK
<1>2. ASSUME NEW q \in Orders, job'[q].stalled = 0
      PROVE  /\ job[q].stalled = 0
             /\ job'[q].attemptsMade = job[q].attemptsMade
             /\ job'[q].state \in {"none", "waiting", "delayed"} =>
                  job[q].state \in {"none", "waiting", "delayed"}
             /\ job'[q].state \in Finished => job'[q].state = job[q].state
  <2>1. CASE job'[q] = job[q]
    BY <1>2, <2>1
  <2>2. CASE AddOrder(q) \/ PromoteDelayed(q) \/ LoseLock(q)
    BY <1>2, <2>2 DEF AddOrder, PromoteDelayed, LoseLock, StorageInv,
       RequestsStoreInOrder, TypeOK, Jobs, Finished
  <2>3. CASE MoveStalledJob(q)
    <3>1. job[q].stalled \in Nat /\ job'[q].stalled = job[q].stalled + 1
      BY <2>3 DEF MoveStalledJob, TypeOK, Jobs, StalledCounts
    <3> QED BY <1>2, <3>1
  <2>4. CASE \E srv \in Servers : Restart(srv)
    BY <1>2, <2>4 DEF Restart, EndProcess, TypeOK, Jobs
  <2>5. ASSUME NEW o \in Orders, o # q,
               AddOrder(o) \/ PromoteDelayed(o) \/ LoseLock(o) \/ MoveStalledJob(o)
        PROVE  job'[q] = job[q]
    BY <2>5 DEF AddOrder, PromoteDelayed, LoseLock, MoveStalledJob, TypeOK
  <2>6. ASSUME NEW o \in Orders,
               \/ CountQueue(o) \/ AnnouncePending(o)
               \/ \E k \in OrderKinds, srv \in Servers : Submit(o, k, srv)
        PROVE  job'[q] = job[q]
    BY <2>6 DEF Submit, CountQueue, AnnouncePending
  <2> QED BY <2>1, <2>2, <2>3, <2>4, <2>5, <2>6
<1> QED BY <1>0, <1>1, <1>2, RowsFrame

(* Every step of the engine keeps what the rows tell of the attempts.        *)
LEMMA RowsNext ==
  ASSUME IInv, RowInv, [Next]_vars
  PROVE  RowInv'
<1> USE DEF IInv
<1>1. ASSUME NEW o \in Orders, CreateRow(o)
      PROVE  RowInv'
  BY <1>1, RowsCreate
<1>2. ASSUME NEW s \in Slots, NEW o \in Orders, TakeJob(s, o)
      PROVE  RowInv'
  BY <1>2, RowsTake
<1>3. ASSUME NEW s \in Slots, WorkerStep(s)
      PROVE  RowInv'
  BY <1>3, RowsWorker
<1>4. CASE UNCHANGED vars
  BY <1>4, RunType, RowsFrame DEF vars, Busy
<1>5. CASE AtRest
  BY <1>4, <1>5 DEF AtRest
<1> QED BY <1>1, <1>2, <1>3, <1>4, <1>5, RowsElsewhere DEF Next, ControllerStep

(* While the database accepts the updates and the job never stalled, the row *)
(* of a finished order tells how it ended, and a reason left by an earlier   *)
(* attempt is never taken for the outcome of the confirmed one.              *)
THEOREM TruthfulRows == Spec => []FinishedRowIsTruthful
<1>1. Init => RowInv
  BY EngineAssumption DEF Init, RowInv, RowsLagBehind, RunsKnowTheirRow,
     FinishedRowIsTruthful, NoJob, Busy
<1>2. IInv /\ RowInv /\ [Next]_vars => RowInv'
  BY RowsNext
<1>3. RowInv => FinishedRowIsTruthful
  BY Zenon DEF RowInv, FinishedRowIsTruthful
<1> QED BY <1>1, <1>2, <1>3, Invariance, PTL DEF Spec
=============================================================================
