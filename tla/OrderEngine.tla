----------------------------- MODULE OrderEngine -----------------------------
(***************************************************************************)
(* The order execution engine: the HTTP handlers, the queue and the worker *)
(* slots of every server, interleaved.                                     *)
(***************************************************************************)
EXTENDS OrderController, OrderWorker

Init ==
  /\ kind = [o \in Orders |-> None]
  /\ request = [o \in Orders |-> [step |-> "none", server |-> None]]
  /\ row = [o \in Orders |-> None]
  /\ job = [o \in Orders |-> NoJob]
  /\ removed = {}
  /\ run = [s \in Slots |-> None]
  /\ lastEvent = [o \in Orders |-> None]
  /\ trades = [o \in Orders |-> {}]

(* Every order has been submitted and answered, and the queue is drained.    *)
AtRest ==
  /\ \A o \in Orders : /\ request[o].step \in {"r201", "r400", "lost"}
                       /\ job[o].state \in {"none"} \cup Finished
  /\ \A s \in Slots : run[s] = None
  /\ UNCHANGED vars

Next ==
  \/ \E o \in Orders, k \in OrderKinds, srv \in Servers : Submit(o, k, srv)
  \/ \E o \in Orders : ControllerStep(o)
  \/ \E s \in Slots, o \in Orders : TakeJob(s, o)
  \/ \E s \in Slots : WorkerStep(s)
  \/ \E o \in Orders : PromoteDelayed(o)
  \/ \E o \in Orders : LoseLock(o)
  \/ \E o \in Orders : MoveStalledJob(o)
  \/ \E srv \in Servers : Restart(srv)
  \/ AtRest

Spec == Init /\ [][Next]_vars

(* The event loop of a live server keeps running its handlers and its runs,  *)
(* and BullMQ keeps serving its lists; clients, faults and restarts are free.*)
Fairness ==
  /\ \A o \in Orders : WF_vars(ControllerStep(o))
  /\ \A s \in Slots : WF_vars(WorkerStep(s))
  /\ \A o \in Orders : WF_vars(\E s \in Slots : TakeJob(s, o))
  /\ \A o \in Orders : WF_vars(PromoteDelayed(o)) /\ WF_vars(MoveStalledJob(o))

FairSpec == Spec /\ Fairness
-----------------------------------------------------------------------------
(* Safety.                                                                   *)

(* A trade belongs to a delivery of the job: it names the value the stalled  *)
(* counter had when its run began.                                           *)
TradedInDelivery(o, n) == \E t \in trades[o] : t.stalled = n

(* However its runs interleave, retry, or outlive their lock, an order trades*)
(* at most once per delivery of its job: it can trade again only after the   *)
(* queue declared the job stalled. This is what the "don't throw" catches of *)
(* emitStatusUpdate and updateOrderInDB are for.                             *)
TradesOncePerDelivery ==
  \A o \in Orders : \A t, u \in trades[o] : t.stalled = u.stalled => t = u

(* The queue's verdict on a job is the truth about its current delivery: a   *)
(* completed job has traded in it, and one that failed, or is going to be    *)
(* tried again, has not.                                                     *)
VerdictIsTruthful ==
  \A o \in Orders :
    /\ job[o].state = "completed" => TradedInDelivery(o, job[o].stalled)
    /\ job[o].state \in {"waiting", "delayed", "failed"}
         => ~TradedInDelivery(o, job[o].stalled)

(* Whatever claims that an order was executed, the row or the stream, claims *)
(* it of a trade that happened, and a hash in the row is that of a trade.    *)
ClaimsAreReal ==
  \A o \in Orders :
    /\ lastEvent[o] = "confirmed" => trades[o] # {}
    /\ row[o] # None =>
         /\ row[o].status = "confirmed" => row[o].tx # None
         /\ row[o].tx # None => row[o].tx \in trades[o]

(* An accepted order is in the queue, and an order in the queue is in the    *)
(* database: the worker's updates always find their row.                     *)
AcceptedIsDurable ==
  \A o \in Orders :
    /\ request[o].step = "r201" => job[o].state # "none"
    /\ job[o].state # "none" => row[o] # None

(* While the database accepts the updates and the job never stalled, the row *)
(* of a finished order tells how it ended: which attempt executed it, or that*)
(* the last one failed. A reason left by an earlier attempt is never taken   *)
(* for the outcome of the one that was confirmed.                            *)
FinishedRowIsTruthful ==
  "db" \notin Faults =>
    \A o \in Orders :
      /\ job[o].state = "completed" /\ job[o].stalled = 0 =>
           /\ row[o].status = "confirmed"
           /\ row[o].attempts = job[o].attemptsMade + 1
           /\ row[o].error < row[o].attempts
      /\ job[o].state = "failed" /\ job[o].stalled = 0 =>
           /\ row[o].status = "failed"
           /\ row[o].attempts = MaxAttempts
           /\ row[o].tx = None

(* A confirmed row changes status only if the job stalled: neither a retry   *)
(* nor a late handler takes a confirmation back.                             *)
ConfirmedUntilStalled ==
  [][\A o \in Orders :
       /\ row[o] # None
       /\ row[o].status = "confirmed"
       /\ job[o].stalled = 0
       => row'[o].status = "confirmed"]_vars

-----------------------------------------------------------------------------
(* Liveness.                                                                 *)

(* An order that was accepted, or got into the queue although its request was*)
(* refused, is eventually settled by the queue: refusals, retries and lost   *)
(* locks may keep it, and the slot, busy, but not for ever.                  *)
AcceptedSettles ==
  \A o \in Orders :
    request[o].step = "r201" \/ job[o].state # "none" ~> job[o].state \in Finished

(* While no update is refused, the row of an order that got into the queue   *)
(* ends up with a result and keeps it, unless its job stalls: no retry leaves*)
(* it pending, and no order, not even one without an executor, is forgotten. *)
ResultIsRecorded ==
  "db" \notin Faults =>
    \A o \in Orders :
      job[o].state # "none"
        ~> \/ job[o].stalled > 0
           \/ [](row[o] # None /\ row[o].status \in {"confirmed", "failed"})

-----------------------------------------------------------------------------
(* What the repository says of the engine and the engine does not do.        *)

(* A reply saying that creating the order failed means there is no order to  *)
(* execute.                                                                  *)
ErrorReplyMeansNoOrder ==
  \A o \in Orders : request[o].step = "r400" => job[o].state = "none"

(* The database persists the final result of every order the queue is done   *)
(* with.                                                                     *)
FinalResultIsPersisted ==
  \A o \in Orders :
    job[o].state \in Finished => row[o].status \in {"confirmed", "failed"}
=============================================================================
