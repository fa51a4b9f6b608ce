------------------------ MODULE GracefulShutdownProofs ------------------------
(***************************************************************************)
(* What the shutdown of a server spares. A job may be abandoned here while *)
(* it is active and locked, which no run of OrderEngine does, so that of   *)
(* the engine's invariant only the parts about attempts and storage hold.  *)
(***************************************************************************)
EXTENDS GracefulShutdown, OrderEngineProofs

(* The shutdown of a server begins when its clients are closed, and beyond   *)
(* worker.close the server has no run.                                       *)
ServersStopInOrder ==
  \A srv \in Servers :
    /\ server[srv].shutdown # "none" => ~HasRedis(srv)
    /\ server[srv].shutdown \in {"queue", "app", "redis"} =>
         \A s \in Slots : Host(s) = srv => ~Busy(s)

(* The engine's part of the invariant, and all of it. *)
EngineInv == TypeOK /\ JobsHaveAttemptsLeft /\ StorageInv

GInv == EngineInv /\ ServerTypeOK /\ ServersStopInOrder

(* Jobs keep their attempts if they keep their counters, or are settled.     *)
LEMMA AttemptsFrame ==
  ASSUME JobsHaveAttemptsLeft,
         \A o \in Orders :
           /\ job'[o].attemptsMade = job[o].attemptsMade
           /\ job'[o].stalled = job[o].stalled
           /\ job[o].state \in Finished => job'[o].state = job[o].state
           /\ job[o].state # "none" => job'[o].state # "none"
           /\ job[o].state = "none" => job'[o] = job[o]
  PROVE  JobsHaveAttemptsLeft'
  BY DEF JobsHaveAttemptsLeft, Finished

(* queue.add finds no job, by the progress of the request. *)
LEMMA AttemptsController ==
  ASSUME TypeOK, JobsHaveAttemptsLeft, StorageInv, NEW o \in Orders, ControllerStep(o)
  PROVE  JobsHaveAttemptsLeft'
<1>1. CASE AddOrder(o)
  <2>1. job[o] = NoJob
    BY <1>1 DEF AddOrder, StorageInv, RequestsStoreInOrder, JobsHaveAttemptsLeft
  <2>2. /\ \A q \in Orders : q # o => job'[q] = job[q]
        /\ job'[o].state \in {"none", "waiting"}
        /\ job'[o].state = "none" => job'[o] = NoJob
        /\ job'[o].stalled = 0 /\ job'[o].attemptsMade = 0
    BY <1>1, <2>1 DEF AddOrder, TypeOK, Jobs, NoJob
  <2> QED BY <2>2, EngineAssumption DEF JobsHaveAttemptsLeft, Finished
<1>2. CASE job' = job
  BY <1>2, AttemptsFrame
<1> QED BY <1>1, <1>2 DEF ControllerStep, CreateRow, CountQueue, AnnouncePending

(* The queue counts what it takes away. *)
LEMMA AttemptsQueue ==
  ASSUME TypeOK, JobsHaveAttemptsLeft, NEW o \in Orders,
         \/ PromoteDelayed(o) \/ LoseLock(o) \/ MoveStalledJob(o)
         \/ \E s \in Slots : TakeJob(s, o)
  PROVE  JobsHaveAttemptsLeft'
<1>0. job[o] \in Jobs
  BY DEF TypeOK
<1>1. CASE MoveStalledJob(o)
  <2>1. /\ \A q \in Orders : q # o => job'[q] = job[q]
        /\ job[o].state = "active"
        /\ job'[o].state \in {"waiting", "failed"}
        /\ job'[o].stalled > MaxStalledCount => job'[o].state = "failed"
        /\ job'[o].attemptsMade = job[o].attemptsMade
        /\ job'[o].stalled \in Nat
    BY <1>0, <1>1, EngineAssumption DEF MoveStalledJob, TypeOK, Jobs, StalledCounts
  <2> QED BY <2>1, EngineAssumption DEF JobsHaveAttemptsLeft, Finished
<1>2. CASE ~MoveStalledJob(o)
  <2>1. /\ \A q \in Orders : q # o => job'[q] = job[q]
        /\ job[o].state \in {"waiting", "delayed", "active"}
        /\ job'[o].state \in {"waiting", "active"}
        /\ job'[o].attemptsMade = job[o].attemptsMade
        /\ job'[o].stalled = job[o].stalled
    BY <1>0, <1>2 DEF PromoteDelayed, LoseLock, TakeJob, TypeOK, Jobs
  <2> QED BY <2>1, AttemptsFrame DEF Finished
<1> QED BY <1>1, <1>2

(* A failed attempt is counted, and the last one settles the job. *)
LEMMA AttemptsWorker ==
  ASSUME TypeOK, JobsHaveAttemptsLeft, NEW s \in Slots, WorkerStep(s)
  PROVE  JobsHaveAttemptsLeft'
<1> DEFINE o == run[s].order
<1>1. CASE job' = job
  BY <1>1, AttemptsFrame
<1>2. CASE (CompleteJob(s) \/ FailJob(s)) /\ HoldsLock(s, o)
  <2>1. o \in Orders /\ job[o] \in Jobs
    BY <1>2, RunType DEF CompleteJob, FailJob, TypeOK
  <2>2. /\ \A q \in Orders : q # o => job'[q] = job[q]
        /\ job[o].state = "active"
        /\ job'[o].stalled = job[o].stalled
        /\ \/ job'[o].state = "completed"
           \/ job'[o].state = "delayed" /\ job'[o].attemptsMade < MaxAttempts
           \/ job'[o].state = "failed"
    BY <1>2, <2>1 DEF CompleteJob, FailJob, HoldsLock, TypeOK, Jobs
  <2> QED BY <2>1, <2>2 DEF JobsHaveAttemptsLeft, Finished
<1> QED BY <1>1, <1>2 DEF WorkerStep, MarkPending, ReportRouting, GetBestQuote,
       ReportRouted, ReportBuilding, ReportSubmitted, ExecuteSwap, ReportConfirmed,
       RecordConfirmed, ReportFailed, RecordFailed, ReportExhausted, RecordExhausted,
       Report, CompleteJob, FailJob

(* A step of processOrder is a step of a slot that has a run, and of no      *)
(* other slot; one that has traded and has not reported it ends no run.      *)
LEMMA WorkerRuns ==
  ASSUME TypeOK, NEW s \in Slots, WorkerStep(s)
  PROVE  /\ Busy(s)
         /\ \A u \in Slots : u # s => run'[u] = run[u]
         /\ At(s, "confirming") \/ At(s, "persisting") => run'[s] # None
<1>1. CASE CompleteJob(s) \/ FailJob(s)
  BY <1>1 DEF CompleteJob, FailJob, At, Busy, TypeOK
<1>2. CASE ~CompleteJob(s) /\ ~FailJob(s)
  <2>1. PICK step : Goto(s, step) /\ run[s] # None
    BY <1>2 DEF WorkerStep, MarkPending, ReportRouting, GetBestQuote, ReportRouted,
       ReportBuilding, ReportSubmitted, ExecuteSwap, ReportConfirmed, RecordConfirmed,
       ReportFailed, RecordFailed, ReportExhausted, RecordExhausted, Report, At
  <2>2. \A u \in Slots : u # s => run'[u] = run[u]
    BY <2>1 DEF Goto, TypeOK
  <2>3. CASE At(s, "confirming") \/ At(s, "persisting")
    <3>1. Goto(s, "persisting") \/ Goto(s, "returning")
      BY <1>2, <2>3 DEF At, WorkerStep, MarkPending, ReportRouting, GetBestQuote,
         ReportRouted, ReportBuilding, ReportSubmitted, ExecuteSwap, ReportConfirmed,
         RecordConfirmed, ReportFailed, RecordFailed, ReportExhausted, RecordExhausted,
         Report
    <3>2. PICK next \in {"persisting", "returning"} :
            run'[s] = [run[s] EXCEPT !.step = next]
      BY <3>1 DEF Goto, TypeOK
    <3>3. run'[s] \in Runs
      BY <2>1, <3>2, RunType DEF Runs, AfterTrade
    <3> QED BY <2>1, <2>2, <3>3, EngineAssumption DEF Busy
  <2> QED BY <2>1, <2>2, <2>3 DEF Busy
<1> QED BY <1>1, <1>2

(* A step of the engine on servers that may have lost their clients.         *)
LEMMA EngineStepKeeps ==
  ASSUME EngineInv,
         \/ \E o \in Orders, k \in OrderKinds, srv \in Servers : Submit(o, k, srv)
         \/ \E o \in Orders : ControllerStep(o)
         \/ \E s \in Slots : WorkerStep(s) \/ AbandonJob(s)
         \/ \E s \in Slots, o \in Orders : TakeJob(s, o)
         \/ \E o \in Orders : PromoteDelayed(o) \/ MoveStalledJob(o) \/ LoseLock(o)
         \/ UNCHANGED vars
  PROVE  EngineInv'
<1> USE DEF EngineInv
<1>1. ASSUME NEW o \in Orders, NEW k \in OrderKinds, NEW srv \in Servers, Submit(o, k, srv)
      PROVE  EngineInv'
  BY <1>1, SubmitTypeOK, StorageSubmit, AttemptsFrame DEF Submit
<1>2. ASSUME NEW o \in Orders, ControllerStep(o)
      PROVE  EngineInv'
  BY <1>2, ControllerTypeOK, StorageController, AttemptsController
<1>3. ASSUME NEW s \in Slots, WorkerStep(s)
      PROVE  EngineInv'
  BY <1>3, WorkerTypeOK, StorageWorker, AttemptsWorker
<1>4. ASSUME NEW s \in Slots, AbandonJob(s)
      PROVE  EngineInv'
  <2>1. TypeOK'
    BY <1>4 DEF AbandonJob, TypeOK
  <2>2. StorageInv'
    BY <1>4, StorageFrame DEF AbandonJob, RowsStay
  <2> QED BY <1>4, <2>1, <2>2, AttemptsFrame DEF AbandonJob
<1>5. ASSUME NEW o \in Orders,
             \/ PromoteDelayed(o) \/ LoseLock(o) \/ MoveStalledJob(o)
             \/ \E s \in Slots : TakeJob(s, o)
      PROVE  EngineInv'
  BY <1>5, QueueTypeOK, StorageQueue, AttemptsQueue
<1>6. CASE UNCHANGED vars
  <2>1. TypeOK'
    BY <1>6 DEF vars, TypeOK
  <2>2. StorageInv'
    BY <1>6, StorageFrame DEF vars, RowsStay
  <2> QED BY <1>6, <2>1, <2>2, AttemptsFrame DEF vars
<1> QED BY <1>1, <1>2, <1>3, <1>4, <1>5, <1>6

(* The end of a process. *)
LEMMA EndProcessKeeps ==
  ASSUME EngineInv, NEW srv \in Servers, EndProcess(srv)
  PROVE  /\ EngineInv'
         /\ \A s \in Slots : run'[s] = IF Host(s) = srv THEN None ELSE run[s]
<1>1. \A o \in Orders :
        /\ job'[o].attemptsMade = job[o].attemptsMade
        /\ job'[o].stalled = job[o].stalled
        /\ job'[o].state = job[o].state
        /\ job[o].lock = None => job'[o] = job[o]
  BY EngineAssumption DEF EndProcess, EngineInv, TypeOK, Jobs
<1>2. \A o \in Orders : job[o].state = "none" => job[o].lock = None
  BY DEF EngineInv, JobsHaveAttemptsLeft, NoJob
<1>3. JobsHaveAttemptsLeft'
  BY <1>1, <1>2, AttemptsFrame DEF EngineInv
<1>4. \A s \in Slots : run'[s] = IF Host(s) = srv THEN None ELSE run[s]
  BY DEF EndProcess
<1> QED BY <1>3, <1>4, EndProcessTypeOK, StorageEndProcess DEF EngineInv

(* The initial state. *)
LEMMA InitGInv == ShutdownInit => GInv
<1> SUFFICES ASSUME ShutdownInit PROVE GInv
  OBVIOUS
<1>1. EngineInv
  BY InitInv DEF ShutdownInit, IInv, ExecutionInv, EngineInv
<1>2. ServerTypeOK
  BY <1>1, ShutdownAssumption
     DEF ShutdownInit, ServerTypeOK, EngineInv, ServerStates, ShutdownSteps, Loaded
<1>3. ServersStopInOrder
  BY DEF ShutdownInit, ServersStopInOrder, Loaded
<1> QED BY <1>1, <1>2, <1>3 DEF GInv

(* Whatever the engine does gives no run to a server without clients.        *)
LEMMA EngineStartsNoRun ==
  ASSUME GInv, NEW u \in Slots, run[u] = None, ~HasRedis(Host(u)),
         \/ \E o \in Orders, k \in OrderKinds, srv \in Servers : Accept(o, k, srv)
         \/ \E o \in Orders : RequestStep(o)
         \/ \E s \in Slots : RunStep(s) \/ AbandonJob(s)
         \/ \E s \in Slots, o \in Orders : Take(s, o)
         \/ \E o \in Orders : Maintain(o) \/ LockExpires(o)
  PROVE  run'[u] = None
<1>1. ASSUME NEW s \in Slots, RunStep(s)
      PROVE  run'[u] = None
  BY <1>1, WorkerRuns DEF RunStep, GInv, EngineInv, Busy
<1>2. ASSUME NEW s \in Slots, AbandonJob(s)
      PROVE  run'[u] = None
  BY <1>2 DEF AbandonJob, GInv, EngineInv, TypeOK
<1>3. ASSUME NEW s \in Slots, NEW o \in Orders, Take(s, o)
      PROVE  run'[u] = None
  BY <1>3 DEF Take, TakeJob, GInv, EngineInv, TypeOK
<1>4. ASSUME run' = run
      PROVE  run'[u] = None
  BY <1>4
<1>5. \A o \in Orders : RequestStep(o) \/ Maintain(o) \/ LockExpires(o) => run' = run
  BY DEF RequestStep, ControllerStep, CreateRow, AddOrder, CountQueue, AnnouncePending,
     Maintain, PromoteDelayed, MoveStalledJob, LockExpires, LoseLock
<1>6. \A o \in Orders, k \in OrderKinds, srv \in Servers : Accept(o, k, srv) => run' = run
  BY DEF Accept, Submit
<1> QED BY <1>1, <1>2, <1>3, <1>4, <1>5, <1>6

(* The steps of the engine. *)
LEMMA EngineGInv ==
  ASSUME GInv, SameServers,
         \/ \E o \in Orders, k \in OrderKinds, srv \in Servers : Accept(o, k, srv)
         \/ \E o \in Orders : RequestStep(o)
         \/ \E s \in Slots : RunStep(s) \/ AbandonJob(s)
         \/ \E s \in Slots, o \in Orders : Take(s, o)
         \/ \E o \in Orders : Maintain(o) \/ LockExpires(o)
  PROVE  GInv'
<1>1. EngineInv'
  <2>1. \/ \E o \in Orders, k \in OrderKinds, srv \in Servers : Submit(o, k, srv)
        \/ \E o \in Orders : ControllerStep(o)
        \/ \E s \in Slots : WorkerStep(s) \/ AbandonJob(s)
        \/ \E s \in Slots, o \in Orders : TakeJob(s, o)
        \/ \E o \in Orders : PromoteDelayed(o) \/ MoveStalledJob(o) \/ LoseLock(o)
    BY DEF Accept, RequestStep, RunStep, Take, Maintain, LockExpires
  <2> QED BY <2>1, EngineStepKeeps DEF GInv
<1>2. ServerTypeOK'
  BY <1>1 DEF GInv, EngineInv, ServerTypeOK, SameServers
<1>3. ServersStopInOrder'
  <2>1. ASSUME NEW srv \in Servers, server[srv].shutdown \in {"queue", "app", "redis"},
               NEW u \in Slots, Host(u) = srv
        PROVE  run'[u] = None
    <3>1. run[u] = None /\ ~HasRedis(Host(u))
      BY <2>1 DEF GInv, ServersStopInOrder, Busy
    <3> QED BY <3>1, EngineStartsNoRun
  <2> QED BY <2>1 DEF GInv, ServersStopInOrder, SameServers, HasRedis, Busy
<1> QED BY <1>1, <1>2, <1>3 DEF GInv

(* A process that ends and is loaded again. *)
LEMMA ExitGInv ==
  ASSUME GInv, NEW srv \in Servers, Exit(srv), signals' \in 0..MaxSignals
  PROVE  GInv'
<1>1. EngineInv' /\ \A s \in Slots : run'[s] = IF Host(s) = srv THEN None ELSE run[s]
  BY EndProcessKeeps DEF Exit, GInv
<1>2. /\ server'[srv] = Loaded
      /\ \A q \in Servers : q # srv => server'[q] = server[q]
  BY DEF Exit, GInv, ServerTypeOK
<1>3. ServerTypeOK'
  BY <1>1 DEF Exit, GInv, EngineInv, ServerTypeOK, ServerStates, ShutdownSteps, Loaded
<1>4. ServersStopInOrder'
  BY <1>1, <1>2 DEF GInv, ServersStopInOrder, HasRedis, Busy, Loaded
<1> QED BY <1>1, <1>3, <1>4 DEF GInv

(* A process that goes on starting or stopping leaves the engine alone.      *)
LEMMA ServerGInv ==
  ASSUME GInv, NEW srv \in Servers,
         \/ Start(srv) \/ FirstSignal(srv)
         \/ CloseWorker(srv) \/ CloseQueue(srv) \/ CloseApp(srv)
  PROVE  GInv'
<1>0. UNCHANGED vars
  BY DEF Start, FirstSignal, CloseWorker, CloseQueue, CloseApp
<1>1. EngineInv'
  BY <1>0, EngineStepKeeps DEF GInv
<1>2. /\ server[srv] \in ServerStates
      /\ \A q \in Servers : q # srv => server'[q] = server[q]
  BY DEF Start, FirstSignal, CloseWorker, CloseQueue, CloseApp, GInv, ServerTypeOK
<1>3. signals' \in 0..MaxSignals
  BY ShutdownAssumption
     DEF Start, FirstSignal, CloseWorker, CloseQueue, CloseApp, GInv, ServerTypeOK
<1>4. server' \in [Servers -> ServerStates]
  BY <1>2 DEF Start, FirstSignal, CloseWorker, CloseQueue, CloseApp, GInv, ServerTypeOK,
     ServerStates, ShutdownSteps
<1>5. ServersStopInOrder'
  <2>1. /\ server'[srv].shutdown # "none" => server'[srv].redis # "open"
        /\ server'[srv].shutdown \in {"queue", "app", "redis"} =>
             \A s \in Slots : Host(s) = srv => run[s] = None
    BY <1>2 DEF Start, FirstSignal, CloseWorker, CloseQueue, CloseApp, GInv, ServerTypeOK,
       ServerStates, ServersStopInOrder, HasRedis, Busy
  <2> QED BY <1>0, <1>2, <2>1 DEF vars, GInv, ServersStopInOrder, HasRedis, Busy
<1> QED BY <1>1, <1>3, <1>4, <1>5 DEF GInv, EngineInv, ServerTypeOK

(* Every step keeps the invariant. *)
LEMMA NextGInv ==
  ASSUME GInv, [ShutdownNext]_shutdownVars
  PROVE  GInv'
<1>1. ASSUME NEW srv \in Servers, StartFails(srv) \/ AnotherSignal(srv) \/ DisconnectRedis(srv)
      PROVE  GInv'
  <2>1. signals' \in 0..MaxSignals
    BY <1>1, ShutdownAssumption
       DEF StartFails, AnotherSignal, DisconnectRedis, GInv, ServerTypeOK
  <2> QED BY <1>1, <2>1, ExitGInv DEF StartFails, AnotherSignal, DisconnectRedis
<1>2. CASE UNCHANGED shutdownVars
  <2>1. EngineInv'
    BY <1>2, EngineStepKeeps DEF GInv, shutdownVars
  <2> QED BY <1>2, <2>1
          DEF GInv, EngineInv, shutdownVars, vars, ServerTypeOK, ServersStopInOrder,
              HasRedis, Busy
<1> QED BY <1>1, <1>2, EngineGInv, ServerGInv DEF ShutdownNext, ShutdownStep

(* The invariant holds however often the servers are told to stop.           *)
THEOREM ShutdownInvariance == ShutdownSpec => []GInv
<1>1. GInv /\ [ShutdownNext]_shutdownVars => GInv'
  BY NextGInv
<1> QED BY <1>1, InitGInv, PTL DEF ShutdownSpec

(* The variables of the engine and of the servers keep their types: also with*)
(* jobs that BullMQ gave up moving, no attempt is above MAX_ATTEMPTS.        *)
THEOREM ServerTypes == ShutdownSpec => []ServerTypeOK
<1>1. GInv => ServerTypeOK
  BY DEF GInv
<1> QED BY <1>1, ShutdownInvariance, PTL

(* An order answered with 201 is in the queue and in the database, however   *)
(* far its server was in starting or stopping when it answered.              *)
THEOREM ShutdownKeepsOrders == ShutdownSpec => []AcceptedIsDurable
<1>1. GInv => AcceptedIsDurable
  BY DEF GInv, EngineInv, StorageInv
<1> QED BY <1>1, ShutdownInvariance, PTL

(* The steps of the engine cut off no run that has traded. *)
LEMMA EngineCutsNoRun ==
  ASSUME GInv, NEW u \in Slots, At(u, "confirming") \/ At(u, "persisting"),
         \/ \E o \in Orders, k \in OrderKinds, srv \in Servers : Accept(o, k, srv)
         \/ \E o \in Orders : RequestStep(o)
         \/ \E s \in Slots : RunStep(s) \/ AbandonJob(s)
         \/ \E s \in Slots, o \in Orders : Take(s, o)
         \/ \E o \in Orders : Maintain(o) \/ LockExpires(o)
  PROVE  run'[u] # None
<1>0. run[u] # None
  BY DEF At
<1>1. ASSUME NEW s \in Slots, RunStep(s)
      PROVE  run'[u] # None
  BY <1>0, <1>1, WorkerRuns DEF RunStep, GInv, EngineInv
<1>2. ASSUME NEW s \in Slots, AbandonJob(s)
      PROVE  run'[u] # None
  BY <1>0, <1>2 DEF AbandonJob, CannotEnd, At, GInv, EngineInv, TypeOK
<1>3. ASSUME NEW s \in Slots, NEW o \in Orders, Take(s, o)
      PROVE  run'[u] # None
  BY <1>0, <1>3 DEF Take, TakeJob, GInv, EngineInv, TypeOK
<1>4. ASSUME run' = run
      PROVE  run'[u] # None
  BY <1>0, <1>4
<1>5. \A o \in Orders : RequestStep(o) \/ Maintain(o) \/ LockExpires(o) => run' = run
  BY DEF RequestStep, ControllerStep, CreateRow, AddOrder, CountQueue, AnnouncePending,
     Maintain, PromoteDelayed, MoveStalledJob, LockExpires, LoseLock
<1>6. \A o \in Orders, k \in OrderKinds, srv \in Servers : Accept(o, k, srv) => run' = run
  BY DEF Accept, Submit
<1> QED BY <1>1, <1>2, <1>3, <1>4, <1>5, <1>6

(* No step of a shutdown ends a run between its trade and the update of its  *)
(* row: worker.close waits, although the Redis clients are gone already.     *)
THEOREM TradesNotCutOff == ShutdownSpec => ShutdownCutsNoTradeOff
<1>1. ASSUME GInv, [ShutdownNext]_shutdownVars, NEW s \in Slots,
             At(s, "confirming") \/ At(s, "persisting"), run'[s] = None
      PROVE  signals' > signals \/ server[Host(s)].boot = "starting"
  <2>0. Busy(s)
    BY <1>1 DEF At, Busy
  <2>1. ASSUME NEW srv \in Servers, StartFails(srv)
        PROVE  server[Host(s)].boot = "starting"
    BY <1>1, <2>0, <2>1, EndProcessKeeps DEF StartFails, Exit, GInv, Busy
  <2>2. ASSUME NEW srv \in Servers, AnotherSignal(srv)
        PROVE  signals' > signals
    BY <1>1, <2>2 DEF AnotherSignal, GInv, ServerTypeOK
  <2>3. ASSUME NEW srv \in Servers, DisconnectRedis(srv)
        PROVE  FALSE
    <3>1. Host(s) = srv
      BY <1>1, <2>0, <2>3, EndProcessKeeps DEF DisconnectRedis, Exit, GInv, Busy
    <3> QED BY <1>1, <2>0, <2>3, <3>1 DEF DisconnectRedis, GInv, ServersStopInOrder
  <2>4. run' # run
    BY <1>1, <2>0 DEF Busy
  <2>5. ASSUME NEW srv \in Servers,
               \/ Start(srv) \/ FirstSignal(srv)
               \/ CloseWorker(srv) \/ CloseQueue(srv) \/ CloseApp(srv)
        PROVE  run' = run
    BY <2>5 DEF Start, FirstSignal, CloseWorker, CloseQueue, CloseApp, vars
  <2> QED BY <1>1, <2>1, <2>2, <2>3, <2>4, <2>5, EngineCutsNoRun
          DEF ShutdownNext, ShutdownStep, shutdownVars, vars
<1>2. GInv /\ [ShutdownNext]_shutdownVars =>
        [\A s \in Slots :
           /\ At(s, "confirming") \/ At(s, "persisting")
           /\ run'[s] = None
           => \/ signals' > signals
              \/ server[Host(s)].boot = "starting"]_shutdownVars
  BY <1>1
<1> QED BY <1>2, ShutdownInvariance, PTL DEF ShutdownSpec, ShutdownCutsNoTradeOff
=============================================================================
