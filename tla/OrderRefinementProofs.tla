------------------------ MODULE OrderRefinementProofs ------------------------
(***************************************************************************)
(* The engine implements the contract, and trades no order too often.      *)
(***************************************************************************)
EXTENDS OrderRefinement, OrderEngineProofs, FiniteSetTheorems

(* What the contract sees of the state. *)
Seen == <<[o \in Orders |-> OutcomeOf(o)], [o \in Orders |-> job[o].stalled], trades>>

(* A job that moves within the queue stays what it is to the contract.       *)
LEMMA InvisibleMove ==
  ASSUME trades' = trades,
         \A o \in Orders : /\ OutcomeOf(o)' = OutcomeOf(o)
                           /\ job'[o].stalled = job[o].stalled
  PROVE  UNCHANGED Seen
  BY DEF Seen

(* A step that moves no job and makes no trade is invisible. *)
LEMMA InvisibleStep ==
  ASSUME UNCHANGED <<job, trades>>
  PROVE  UNCHANGED Seen
  BY DEF Seen, OutcomeOf

(* The initial states of the engine are initial states of the contract.      *)
LEMMA ContractInit == Init => Contract!Init
<1> SUFFICES ASSUME Init PROVE Contract!Init
  OBVIOUS
<1>1. \A o \in Orders : job[o] = NoJob
  BY DEF Init
<1>2. \A o \in Orders : job[o].state = "none" /\ job[o].stalled = 0
  <2>1. NoJob.state = "none" /\ NoJob.stalled = 0
    BY DEF NoJob
  <2> QED BY <1>1, <2>1
<1>3. trades = [o \in Orders |-> {}]
  BY DEF Init
<1>4. \A o \in Orders : OutcomeOf(o) = "absent"
  BY <1>2 DEF OutcomeOf, Finished
<1> QED BY <1>2, <1>3, <1>4 DEF Contract!Init

(* createOrder: the order is in with the job, whatever the reply. *)
LEMMA ContractController ==
  ASSUME IInv, NEW o \in Orders, ControllerStep(o)
  PROVE  Contract!Next \/ UNCHANGED Seen
<1>1. CASE AddOrder(o)
  <2>1. job \in [Orders -> Jobs] /\ job[o].state = "none"
    BY <1>1 DEF AddOrder, IInv, TypeOK, StorageInv, RequestsStoreInOrder
  <2>2. CASE job' = [job EXCEPT ![o].state = "waiting"]
    <3>1. Contract!Accept(o)
      BY <1>1, <2>1, <2>2 DEF AddOrder, Contract!Accept, OutcomeOf, Jobs, Finished
    <3> QED BY <3>1 DEF Contract!Next
  <2>3. CASE job' = [job EXCEPT ![o].state = "none"]
    <3>1. \A p \in Orders : job'[p].state = job[p].state /\ job'[p].stalled = job[p].stalled
      BY <2>1, <2>3 DEF Jobs
    <3> QED BY <1>1, <3>1, InvisibleMove DEF AddOrder, OutcomeOf
  <2> QED BY <1>1, <2>2, <2>3 DEF AddOrder
<1>2. CASE CreateRow(o) \/ CountQueue(o) \/ AnnouncePending(o)
  BY <1>2, InvisibleStep DEF CreateRow, CountQueue, AnnouncePending
<1> QED BY <1>1, <1>2 DEF ControllerStep

(* A delivery that stalls is given up, and nothing else the queue does to a  *)
(* job between two runs is visible.                                          *)
LEMMA ContractQueue ==
  ASSUME IInv, NEW o \in Orders,
         PromoteDelayed(o) \/ LoseLock(o) \/ MoveStalledJob(o) \/ (\E s \in Slots : TakeJob(s, o))
  PROVE  Contract!Next \/ UNCHANGED Seen
<1>0. job \in [Orders -> Jobs]
  BY DEF IInv, TypeOK
<1>1. CASE PromoteDelayed(o)
  <2>1. \A p \in Orders : OutcomeOf(p)' = OutcomeOf(p) /\ job'[p].stalled = job[p].stalled
    BY <1>0, <1>1 DEF PromoteDelayed, OutcomeOf, Jobs, Finished
  <2> QED BY <1>1, <2>1, InvisibleMove DEF PromoteDelayed
<1>2. CASE LoseLock(o)
  <2>1. \A p \in Orders : OutcomeOf(p)' = OutcomeOf(p) /\ job'[p].stalled = job[p].stalled
    BY <1>0, <1>2 DEF LoseLock, OutcomeOf, Jobs, Finished
  <2> QED BY <1>2, <2>1, InvisibleMove DEF LoseLock
<1>3. CASE \E s \in Slots : TakeJob(s, o)
  <2>1. PICK s \in Slots : TakeJob(s, o)
    BY <1>3
  <2>2. job[o].state = "waiting" /\ job' = [job EXCEPT ![o].state = "active", ![o].lock = s]
    BY <2>1 DEF TakeJob
  <2>3. \A p \in Orders : OutcomeOf(p)' = OutcomeOf(p) /\ job'[p].stalled = job[p].stalled
    BY <1>0, <2>2 DEF OutcomeOf, Jobs, Finished
  <2> QED BY <2>1, <2>3, InvisibleMove DEF TakeJob
<1>4. CASE MoveStalledJob(o)
  <2>1. job[o].stalled \in Nat /\ MaxStalledCount \in Nat
    BY <1>0, EngineAssumption DEF Jobs, StalledCounts
  <2>2. Contract!GiveUp(o)
    BY <1>0, <1>4, <2>1 DEF MoveStalledJob, Contract!GiveUp, OutcomeOf, Jobs, Finished
  <2> QED BY <2>2 DEF Contract!Next
<1> QED BY <1>1, <1>2, <1>3, <1>4

(* A delivery that may still trade is one of those the contract numbers, and *)
(* the order is open if it is the current one.                               *)
LEMMA DeliveryIsNumbered ==
  ASSUME IInv, NEW s \in Slots, run[s] # None
  PROVE  LET o == run[s].order
             n == run[s].stalled
         IN /\ n \in 0..MaxStalledCount
            /\ n <= job[o].stalled
            /\ n = job[o].stalled => job[o].state = "active"
<1> DEFINE o == run[s].order
           n == run[s].stalled
<1>1. /\ o \in Orders
      /\ n \in 0..(MaxStalledCount + 1)
      /\ job[o] \in Jobs
      /\ job[o].stalled \in 0..(MaxStalledCount + 1)
  BY RunType DEF IInv, TypeOK, StalledCounts, Jobs
<1>2. /\ n <= job[o].stalled
      /\ n = job[o].stalled => job[o].state = "active"
  BY DEF IInv, ExecutionInv, RunsBelongToDeliveries, Busy
<1>3. n = job[o].stalled => n <= MaxStalledCount
  BY <1>1, <1>2 DEF IInv, ExecutionInv, JobsHaveAttemptsLeft
<1> QED BY <1>1, <1>2, <1>3, EngineAssumption

(* processOrder: the swap is the trade of its delivery, and the end of a run *)
(* that holds the lock of its job may settle the order.                      *)
LEMMA ContractWorker ==
  ASSUME IInv, NEW s \in Slots, WorkerStep(s)
  PROVE  Contract!Next \/ UNCHANGED Seen
<1> DEFINE o == run[s].order
<1>0. run[s] # None /\ o \in Orders /\ job \in [Orders -> Jobs]
  <2>1. run[s] # None
    BY DEF WorkerStep, MarkPending, ReportRouting, GetBestQuote, ReportRouted,
       ReportBuilding, ReportSubmitted, ExecuteSwap, ReportConfirmed, RecordConfirmed,
       ReportFailed, RecordFailed, ReportExhausted, RecordExhausted, CompleteJob,
       FailJob, Report, At
  <2> QED BY <2>1, RunType DEF IInv, TypeOK
<1>a. HoldsLock(s, o) => run[s].stalled = job[o].stalled
  BY <1>0, EngineAssumption DEF HoldsLock, IInv, ExecutionInv, LocksAreHeld, Busy
<1>b. run[s].step \in BeforeTrade => ~TradedInDelivery(o, run[s].stalled)
  BY <1>0 DEF IInv, ExecutionInv, RunsKnowTheirTrade, Busy
<1>c. run[s].step \in AfterTrade => TradedInDelivery(o, run[s].stalled)
  BY <1>0 DEF IInv, ExecutionInv, RunsKnowTheirTrade, Busy, TradedInDelivery, RunId
<1>1. CASE ExecuteSwap(s)
  <2>1. CASE UNCHANGED trades
    BY <1>1, <2>1, InvisibleStep DEF ExecuteSwap
  <2>2. CASE trades' = [trades EXCEPT ![o] = @ \cup {RunId(run[s])}]
    <3> DEFINE n == run[s].stalled
    <3>1. n \in 0..MaxStalledCount /\ n <= job[o].stalled
          /\ (n = job[o].stalled => job[o].state = "active")
      BY <1>0, DeliveryIsNumbered
    <3>2. ~TradedInDelivery(o, n)
      BY <1>1, <1>b DEF ExecuteSwap, At, BeforeTrade
    <3>3. run[s].attempt \in 1..MaxAttempts
      BY <1>0, RunType DEF IInv, Attempts
    <3>4. Contract!Trade(o, n)
      BY <1>0, <1>1, <2>2, <3>1, <3>2, <3>3
         DEF ExecuteSwap, Contract!Trade, Contract!Traded, TradedInDelivery, OutcomeOf, RunId, Finished
    <3> QED BY <1>0, <3>1, <3>4 DEF Contract!Next
  <2> QED BY <1>1, <2>1, <2>2 DEF ExecuteSwap
<1>2. CASE CompleteJob(s)
  <2>1. CASE HoldsLock(s, o)
    <3>1. TradedInDelivery(o, job[o].stalled)
      BY <1>2, <2>1, <1>a, <1>c DEF CompleteJob, AfterTrade
    <3>a. /\ job' = [job EXCEPT ![o].state = "completed", ![o].lock = None]
          /\ UNCHANGED trades
      BY <1>2, <2>1 DEF CompleteJob
    <3>2. Contract!Settle(o)
      BY <1>0, <2>1, <3>a, <3>1
         DEF HoldsLock, Contract!Settle, Contract!Traded, TradedInDelivery,
             OutcomeOf, Jobs, Finished
    <3> QED BY <1>0, <3>2 DEF Contract!Next
  <2>2. CASE ~HoldsLock(s, o)
    BY <1>2, <2>2, InvisibleStep DEF CompleteJob
  <2> QED BY <2>1, <2>2
<1>3. CASE FailJob(s)
  <2>1. CASE HoldsLock(s, o)
    <3>1. ~TradedInDelivery(o, job[o].stalled)
      BY <1>3, <2>1, <1>a, <1>b DEF FailJob, BeforeTrade
    <3>2. CASE job[o].attemptsMade + 1 < MaxAttempts
      <4>1. \A p \in Orders : OutcomeOf(p)' = OutcomeOf(p) /\ job'[p].stalled = job[p].stalled
        BY <1>0, <1>3, <2>1, <3>2 DEF FailJob, HoldsLock, OutcomeOf, Jobs, Finished
      <4> QED BY <1>3, <4>1, InvisibleMove DEF FailJob
    <3>3. CASE ~(job[o].attemptsMade + 1 < MaxAttempts)
      <4>1. Contract!Settle(o)
        BY <1>0, <1>3, <2>1, <3>1, <3>3
           DEF FailJob, HoldsLock, Contract!Settle, Contract!Traded, TradedInDelivery,
               OutcomeOf, Jobs, Finished
      <4> QED BY <1>0, <4>1 DEF Contract!Next
    <3> QED BY <3>2, <3>3
  <2>2. CASE ~HoldsLock(s, o)
    BY <1>3, <2>2, InvisibleStep DEF FailJob
  <2> QED BY <2>1, <2>2
<1>4. CASE ~(ExecuteSwap(s) \/ CompleteJob(s) \/ FailJob(s))
  BY <1>4, InvisibleStep DEF WorkerStep, MarkPending, ReportRouting, GetBestQuote,
     ReportRouted, ReportBuilding, ReportSubmitted, ReportConfirmed, RecordConfirmed,
     ReportFailed, RecordFailed, ReportExhausted, RecordExhausted, Report
<1> QED BY <1>1, <1>2, <1>3, <1>4

(* A process that dies loses locks, and the contract does not speak of those.*)
LEMMA ContractRestart ==
  ASSUME IInv, NEW srv \in Servers, Restart(srv)
  PROVE  UNCHANGED Seen
<1>1. \A p \in Orders : OutcomeOf(p)' = OutcomeOf(p) /\ job'[p].stalled = job[p].stalled
  BY DEF Restart, EndProcess, OutcomeOf, IInv, TypeOK, Jobs, Finished
<1> QED BY <1>1, InvisibleMove DEF Restart, EndProcess

(* Every step of the engine is one of the contract, or invisible. *)
LEMMA ContractNext ==
  ASSUME IInv, [Next]_vars
  PROVE  [Contract!Next]_Seen
<1>1. ASSUME NEW o \in Orders, NEW k \in OrderKinds, NEW srv \in Servers, Submit(o, k, srv)
      PROVE  UNCHANGED Seen
  BY <1>1, InvisibleStep DEF Submit
<1>2. CASE UNCHANGED vars \/ AtRest
  BY <1>2, InvisibleStep DEF vars, AtRest
<1> QED BY <1>1, <1>2, ContractController, ContractQueue, ContractWorker, ContractRestart DEF Next

(* The engine implements the contract: it accepts, trades, settles and gives *)
(* up as the contract says, for any orders, servers, slots, attempts, stalls *)
(* and faults.                                                               *)
THEOREM Refinement == Spec => ImplementsContract
<1>1. Init => Contract!Init
  BY ContractInit
<1>2. IInv /\ [Next]_vars => [Contract!Next]_(Contract!contractVars)
  BY ContractNext DEF Seen, Contract!contractVars
<1> QED BY <1>1, <1>2, Invariance, PTL DEF Spec, ImplementsContract, Contract!Spec

(* The trades of an order belong to different deliveries, and only so many   *)
(* of these can trade.                                                       *)
LEMMA TradesAreFew ==
  ASSUME IInv, NEW o \in Orders
  PROVE  Cardinality(trades[o]) <= MaxStalledCount + 1
<1> DEFINE f == [t \in trades[o] |-> t.stalled]
<1>0. MaxStalledCount \in Nat /\ trades[o] \subseteq TradeIds /\ job[o] \in Jobs
  BY EngineAssumption DEF IInv, TypeOK
<1>1. ASSUME NEW t \in trades[o]
      PROVE  t.stalled \in 0..MaxStalledCount
  <2>1. /\ t.stalled \in 0..(MaxStalledCount + 1)
        /\ job[o].stalled \in 0..(MaxStalledCount + 1)
    BY <1>0 DEF TradeIds, StalledCounts, Jobs
  <2>2. /\ t.stalled <= job[o].stalled
        /\ t.stalled = job[o].stalled => job[o].state \in {"active", "completed"}
    BY DEF IInv, ExecutionInv, TradesBelongToDeliveries
  <2>3. job[o].state # "failed" => job[o].stalled <= MaxStalledCount
    BY DEF IInv, ExecutionInv, JobsHaveAttemptsLeft
  <2> QED BY <1>0, <2>1, <2>2, <2>3
<1>2. \A t, u \in trades[o] : t.stalled = u.stalled => t = u
  BY DEF IInv, ExecutionInv, TradesOncePerDelivery
<1>3. f \in Injection(trades[o], 0..MaxStalledCount)
  BY <1>1, <1>2 DEF Injection, IsInjective
<1>4. IsFiniteSet(0..MaxStalledCount) /\ Cardinality(0..MaxStalledCount) = MaxStalledCount + 1
  BY <1>0, FS_Interval
<1> HIDE DEF f
<1> QED BY <1>3, <1>4, FS_Injection

(* However often servers die or fall silent while they hold an order, it is  *)
(* traded at most once more than MaxStalledCount.                            *)
THEOREM BoundedTrades == Spec => []TradesAreBounded
<1>1. IInv => TradesAreBounded
  BY TradesAreFew DEF TradesAreBounded
<1> QED BY <1>1, Invariance, PTL
=============================================================================
