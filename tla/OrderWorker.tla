----------------------------- MODULE OrderWorker -----------------------------
(***************************************************************************)
(* OrderWorker.processOrder with its status callback, the executor factory *)
(* and MarketOrderExecutor.execute, for the run in worker slot s.          *)
(*                                                                         *)
(* The happy path is                                                       *)
(*   starting -> routing -> quoting -> routed -> building -> submitting    *)
(*     -> swapping -> confirming -> persisting -> returning                *)
(* A rejection inside execute leads to failing -> recording, after which   *)
(* the worker throws; on the last attempt the worker first goes through    *)
(* exhausted -> burying.                                                   *)
(***************************************************************************)
EXTENDS OrderQueue

At(s, step) == run[s] # None /\ run[s].step = step

Goto(s, step) == run' = [run EXCEPT ![s].step = step]

RunId(r) == [stalled |-> r.stalled, attempt |-> r.attempt]

(* Mutant of AfterThrow: the last attempt is not recognised. *)
AfterThrowOffByOne(r) == IF r.attempt > MaxAttempts THEN "exhausted" ELSE "throwing"

(* The catch of processOrder: only the last attempt reports and records the  *)
(* failure of the order before the error is thrown again.                    *)
AfterThrow(r) == IF r.attempt >= MaxAttempts THEN "exhausted" ELSE "throwing"

(* Where a run goes once the row is pending: getExecutor throws for the      *)
(* order types without an executor, and validate throws inside execute.      *)
Dispatch(r) ==
  CASE kind[r.order] = "unsupported" -> AfterThrow(r)
    [] kind[r.order] = "sameToken"   -> "failing"
    [] OTHER                         -> "routing"

(* The first statement of the try block: the row goes back to pending, and   *)
(* keeps whatever an earlier attempt wrote in its other columns.             *)
MarkPending(s) ==
  /\ At(s, "starting")
  /\ LET o == run[s].order IN
       UpdateOrderInDB(o, [row[o] EXCEPT !.status = "pending"])
  /\ Goto(s, Dispatch(run[s]))
  /\ UNCHANGED <<kind, request, job, lastEvent, trades, removed>>

(* A status update of the executor, awaited; publishing may fail silently.   *)
Report(s, step, status, next) ==
  /\ At(s, step)
  /\ EmitStatusUpdate(run[s].order, status)
  /\ Goto(s, next)
  /\ UNCHANGED <<kind, request, row, job, trades, removed>>

(* Mutant of ReportExhausted: the row is not marked as failed. *)
ReportExhaustedOnly(s) == Report(s, "exhausted", "failed", "throwing")

ReportRouting(s)   == Report(s, "routing", "routing", "quoting")
ReportRouted(s)    == Report(s, "routed", "routing", "building")
ReportBuilding(s)  == Report(s, "building", "building", "submitting")
ReportSubmitted(s) == Report(s, "submitting", "submitted", "swapping")
ReportConfirmed(s) == Report(s, "confirming", "confirmed", "persisting")
ReportFailed(s)    == Report(s, "failing", "failed", "recording")
ReportExhausted(s) == Report(s, "exhausted", "failed", "burying")

(* dexRouter.getBestQuote. *)
GetBestQuote(s) ==
  /\ At(s, "quoting")
  /\ \/ Goto(s, "routed")
     \/ "dex" \in Faults /\ Goto(s, "failing")
  /\ UNCHANGED <<kind, request, row, job, lastEvent, trades, removed>>

(* Mutant of ExecuteSwap: the swap is not awaited, its refusal not seen. *)
ExecuteSwapUnawaited(s) ==
  /\ At(s, "swapping")
  /\ \E done \in {{RunId(run[s])}} \cup (IF "dex" \in Faults THEN {{}} ELSE {}) :
       trades' = [trades EXCEPT ![run[s].order] = @ \cup done]
  /\ Goto(s, "confirming")
  /\ UNCHANGED <<kind, request, row, job, lastEvent, removed>>

(* dexRouter.executeSwap: the DEX trades, or refuses and does not.           *)
ExecuteSwap(s) ==
  /\ At(s, "swapping")
  /\ \/ /\ trades' = [trades EXCEPT ![run[s].order] = @ \cup {RunId(run[s])}]
        /\ Goto(s, "confirming")
     \/ /\ "dex" \in Faults
        /\ UNCHANGED trades
        /\ Goto(s, "failing")
  /\ UNCHANGED <<kind, request, row, job, lastEvent, removed>>

(* Mutant of RecordConfirmed: the failure of the update is not swallowed. *)
RecordConfirmedRethrows(s) ==
  /\ At(s, "persisting")
  /\ LET r == run[s] IN
       \/ /\ row' = [row EXCEPT ![r.order].status = "confirmed",
                                 ![r.order].tx = RunId(r),
                                 ![r.order].attempts = r.attempt]
          /\ Goto(s, "returning")
       \/ /\ "db" \in Faults
          /\ UNCHANGED row
          /\ Goto(s, "failing")
  /\ UNCHANGED <<kind, request, job, lastEvent, trades, removed>>

(* Mutant of RecordConfirmed: the result does not say success. *)
RecordConfirmedFails(s) ==
  /\ At(s, "persisting")
  /\ LET r == run[s] IN
       UpdateOrderInDB(r.order,
         [row[r.order] EXCEPT !.status = "confirmed", !.tx = RunId(r),
                              !.attempts = r.attempt])
  /\ Goto(s, AfterThrow(run[s]))
  /\ UNCHANGED <<kind, request, job, lastEvent, trades, removed>>

(* The status callback writes CONFIRMED with the hash and the price of this  *)
(* run's trade; the undefined error leaves the column as it was.             *)
RecordConfirmed(s) ==
  /\ At(s, "persisting")
  /\ LET r == run[s] IN
       UpdateOrderInDB(r.order,
         [row[r.order] EXCEPT !.status = "confirmed", !.tx = RunId(r),
                              !.attempts = r.attempt])
  /\ Goto(s, "returning")
  /\ UNCHANGED <<kind, request, job, lastEvent, trades, removed>>

(* What a failure writes: the undefined hash and price leave theirs alone.   *)
FailedRow(r) ==
  [row[r.order] EXCEPT !.status = "failed", !.attempts = r.attempt,
                       !.error = r.attempt]

(* Mutant of RecordFailed: an unsuccessful result is not thrown. *)
RecordFailedReturns(s) ==
  /\ At(s, "recording")
  /\ UpdateOrderInDB(run[s].order, FailedRow(run[s]))
  /\ Goto(s, "returning")
  /\ UNCHANGED <<kind, request, job, lastEvent, trades, removed>>

(* The status callback writes FAILED, whichever attempt this is; execute     *)
(* then returns success: false and processOrder throws.                      *)
RecordFailed(s) ==
  /\ At(s, "recording")
  /\ UpdateOrderInDB(run[s].order, FailedRow(run[s]))
  /\ Goto(s, AfterThrow(run[s]))
  /\ UNCHANGED <<kind, request, job, lastEvent, trades, removed>>

(* The worker's own FAILED update after the last attempt.                    *)
RecordExhausted(s) ==
  /\ At(s, "burying")
  /\ UpdateOrderInDB(run[s].order, FailedRow(run[s]))
  /\ Goto(s, "throwing")
  /\ UNCHANGED <<kind, request, job, lastEvent, trades, removed>>

WorkerStep(s) ==
  \/ MarkPending(s)
  \/ ReportRouting(s)
  \/ GetBestQuote(s)
  \/ ReportRouted(s)
  \/ ReportBuilding(s)
  \/ ReportSubmitted(s)
  \/ ExecuteSwap(s)
  \/ ReportConfirmed(s)
  \/ RecordConfirmed(s)
  \/ ReportFailed(s)
  \/ RecordFailed(s)
  \/ ReportExhausted(s)
  \/ RecordExhausted(s)
  \/ CompleteJob(s)
  \/ FailJob(s)
=============================================================================
