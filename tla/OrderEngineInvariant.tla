------------------------- MODULE OrderEngineInvariant -------------------------
(***************************************************************************)
(* The inductive invariant behind the safety properties of OrderEngine.    *)
(* A delivery of a job is the part of its life between two stalls; its     *)
(* number is the value of the job's stalled counter.                       *)
(***************************************************************************)
EXTENDS OrderEngine

Busy(s) == run[s] # None

(* A run belongs to the delivery in which it began, which may be over. Only  *)
(* the run of the current delivery can hold the lock, and its attempt is the *)
(* one the job counts.                                                       *)
RunsBelongToDeliveries ==
  \A s \in Slots : Busy(s) =>
    LET r == run[s]
        j == job[r.order]
    IN /\ r.stalled <= j.stalled
       /\ r.stalled = j.stalled => /\ j.state = "active"
                                   /\ r.attempt = j.attemptsMade + 1

(* No two runs of an order belong to the same delivery. *)
OneRunPerDelivery ==
  \A s, u \in Slots :
    /\ Busy(s) /\ Busy(u)
    /\ run[s].order = run[u].order
    /\ run[s].stalled = run[u].stalled
    => s = u

(* A lock is held by the run of the current delivery. *)
LocksAreHeld ==
  \A o \in Orders : job[o].lock # None =>
    /\ job[o].state = "active"
    /\ Busy(job[o].lock)
    /\ run[job[o].lock].order = o
    /\ run[job[o].lock].stalled = job[o].stalled

(* A job that may run again has attempts left, and one that is not failed has*)
(* not stalled too often.                                                    *)
JobsHaveAttemptsLeft ==
  \A o \in Orders :
    /\ job[o].state \notin Finished => job[o].attemptsMade < MaxAttempts
    /\ job[o].state # "failed" => job[o].stalled <= MaxStalledCount
    /\ job[o].state = "none" => job[o] = NoJob

(* A trade was made in the current delivery or an earlier one; one made in   *)
(* the current delivery means that the job is running or completed.          *)
TradesBelongToDeliveries ==
  \A o \in Orders : \A t \in trades[o] :
    /\ t.stalled <= job[o].stalled
    /\ t.stalled = job[o].stalled => job[o].state \in {"active", "completed"}

CompletedHasTraded ==
  \A o \in Orders :
    job[o].state = "completed" => TradedInDelivery(o, job[o].stalled)

(* How far a run has got says whether its delivery has traded. *)
RunsKnowTheirTrade ==
  \A s \in Slots : Busy(s) =>
    LET r == run[s]
    IN /\ r.step \in BeforeTrade => ~TradedInDelivery(r.order, r.stalled)
       /\ r.step \in AfterTrade => RunId(r) \in trades[r.order]

(* The progress of a request tells what it has stored. *)
RequestsStoreInOrder ==
  \A o \in Orders :
    /\ request[o].step \in {"none", "creating", "enqueueing"} => job[o].state = "none"
    /\ request[o].step \in {"counting", "announcing"} => job[o].state # "none"
    /\ request[o].step = "enqueueing" => row[o] # None

(* A confirmed row of an order that never stalled is final: the run that     *)
(* confirmed it has only to return.                                          *)
ConfirmedHasReturned ==
  \A s \in Slots : Busy(s) =>
    LET o == run[s].order
    IN /\ row[o] # None
       /\ row[o].status = "confirmed"
       /\ job[o].stalled = 0
       => run[s].step = "returning"

(* What the queue, the worker slots and the DEX know of each other. *)
ExecutionInv ==
  /\ RunsBelongToDeliveries
  /\ OneRunPerDelivery
  /\ LocksAreHeld
  /\ JobsHaveAttemptsLeft
  /\ TradesBelongToDeliveries
  /\ CompletedHasTraded
  /\ RunsKnowTheirTrade
  /\ TradesOncePerDelivery

(* What the HTTP handlers, the queue and the database know of each other. *)
StorageInv ==
  /\ RequestsStoreInOrder
  /\ AcceptedIsDurable

(* What the database and the stream tell of the trades. *)
ClaimsInv ==
  /\ ClaimsAreReal
  /\ ConfirmedHasReturned

(* Every step preserves the conjunction; no part is preserved alone.         *)
IInv == TypeOK /\ ExecutionInv /\ StorageInv /\ ClaimsInv
-----------------------------------------------------------------------------
(* What the rows tell of the attempts while the database accepts the updates *)
(* and the job has not stalled: it is inductive on top of IInv.              *)

(* The row of a job that waits for an attempt tells of earlier ones only.    *)
RowsLagBehind ==
  \A o \in Orders :
    /\ job[o].stalled = 0
    /\ job[o].state \in {"none", "waiting", "delayed"}
    /\ row[o] # None
    => row[o].error <= job[o].attemptsMade

(* How far a run has got says what it has recorded: a failure of its own only*)
(* once it is about to throw, a success when it returns, and the failure of  *)
(* the order before the last attempt throws.                                 *)
RunKnowsRow(s) ==
  LET r == run[s]
      w == row[r.order]
  IN /\ w.error <= r.attempt
     /\ r.step \notin {"exhausted", "burying", "throwing"} => w.error < r.attempt
     /\ r.step \in {"exhausted", "burying"} => r.attempt = MaxAttempts
     /\ r.step = "returning" => w.status = "confirmed" /\ w.attempts = r.attempt
     /\ r.step = "throwing" /\ r.attempt = MaxAttempts
          => w.status = "failed" /\ w.attempts = MaxAttempts

RunsKnowTheirRow ==
  \A s \in Slots : Busy(s) /\ job[run[s].order].stalled = 0 => RunKnowsRow(s)

RowInv ==
  "db" \notin Faults => RowsLagBehind /\ RunsKnowTheirRow /\ FinishedRowIsTruthful
=============================================================================
