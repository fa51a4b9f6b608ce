------------------------------ MODULE OrderQueue ------------------------------
(***************************************************************************)
(* The BullMQ queue as src/ configures and uses it: attempts with back-off *)
(* (QueueService), Concurrency slots per worker, and the lock a worker     *)
(* holds on the job it runs. BullMQ itself is external: these operations   *)
(* are the ones its documentation promises the program.                    *)
(***************************************************************************)
EXTENDS EngineState, FiniteSets

(* The jobs in the queue's list of a state. A job that has been removed is in*)
(* no list; nothing else that src/ asks the queue can tell.                  *)
Listed(state) == {o \in Orders : job[o].state = state} \ removed

(* removeOnComplete and removeOnFail: when a job is settled, BullMQ removes  *)
(* jobs from the list that it enters, those that are too old, and so many of *)
(* the completed ones that no more than KeepCompleted are left. The age of a *)
(* job is not modelled: any job of the list may be the oldest, or too old.   *)
Trim(state) ==
  \E old \in SUBSET Listed(state) :
    /\ state = "completed" => Cardinality(Listed(state) \ old) < KeepCompleted
    /\ removed' = removed \cup old

NoJob == [state |-> "none", attemptsMade |-> 0, stalled |-> 0, lock |-> None]

(* A free slot takes a waiting job, locks it and calls processOrder.         *)
(* attemptNumber is job.attemptsMade + 1.                                    *)
TakeJob(s, o) ==
  /\ run[s] = None
  /\ job[o].state = "waiting"
  /\ job' = [job EXCEPT ![o].state = "active", ![o].lock = s]
  /\ run' = [run EXCEPT ![s] = [order |-> o, stalled |-> job[o].stalled,
                                attempt |-> job[o].attemptsMade + 1,
                                step |-> "starting"]]
  /\ UNCHANGED <<kind, request, row, lastEvent, trades, removed>>

(* The back-off delay of a failed attempt ends.                              *)
PromoteDelayed(o) ==
  /\ job[o].state = "delayed"
  /\ job' = [job EXCEPT ![o].state = "waiting"]
  /\ UNCHANGED <<kind, request, row, run, lastEvent, trades, removed>>

(* Whether slot s still holds the lock of job o: without it BullMQ refuses   *)
(* to move the job, and the worker only emits an 'error' event.              *)
HoldsLock(s, o) == job[o].state = "active" /\ job[o].lock = s

(* processOrder resolved. *)
CompleteJob(s) ==
  /\ run[s] # None
  /\ run[s].step = "returning"
  /\ LET o == run[s].order IN
       IF HoldsLock(s, o)
         THEN /\ job' = [job EXCEPT ![o].state = "completed", ![o].lock = None]
              /\ Trim("completed")
         ELSE UNCHANGED <<job, removed>>
  /\ run' = [run EXCEPT ![s] = None]
  /\ UNCHANGED <<kind, request, row, lastEvent, trades>>

(* Mutant of FailJob: one attempt too many. *)
FailJobOffByOne(s) ==
  /\ run[s] # None
  /\ run[s].step = "throwing"
  /\ LET o == run[s].order
         made == job[o].attemptsMade + 1
     IN IF HoldsLock(s, o)
          THEN /\ job' = [job EXCEPT
                           ![o].state = IF made <= MaxAttempts THEN "delayed" ELSE "failed",
                           ![o].attemptsMade = made,
                           ![o].lock = None]
               /\ IF made <= MaxAttempts THEN UNCHANGED removed ELSE Trim("failed")
          ELSE UNCHANGED <<job, removed>>
  /\ run' = [run EXCEPT ![s] = None]
  /\ UNCHANGED <<kind, request, row, lastEvent, trades>>

(* processOrder rejected: the job is delayed for another attempt while it    *)
(* has attempts left.                                                        *)
FailJob(s) ==
  /\ run[s] # None
  /\ run[s].step = "throwing"
  /\ LET o == run[s].order
         made == job[o].attemptsMade + 1
     IN IF HoldsLock(s, o)
          THEN /\ job' = [job EXCEPT
                           ![o].state = IF made < MaxAttempts THEN "delayed" ELSE "failed",
                           ![o].attemptsMade = made,
                           ![o].lock = None]
               /\ IF made < MaxAttempts THEN UNCHANGED removed ELSE Trim("failed")
          ELSE UNCHANGED <<job, removed>>
  /\ run' = [run EXCEPT ![s] = None]
  /\ UNCHANGED <<kind, request, row, lastEvent, trades>>

(* The lock of a running job expires because its worker could not renew it.  *)
(* The run goes on: nothing tells processOrder.                              *)
LoseLock(o) ==
  /\ "lock" \in Faults
  /\ job[o].state = "active"
  /\ job[o].lock # None
  /\ job' = [job EXCEPT ![o].lock = None]
  /\ UNCHANGED <<kind, request, row, run, lastEvent, trades, removed>>

(* A worker's stalled check finds an active job without a lock: the job      *)
(* waits again, its attempt not counted, or fails if it stalled too often.   *)
MoveStalledJob(o) ==
  /\ job[o].state = "active"
  /\ job[o].lock = None
  /\ LET n == job[o].stalled + 1 IN
       /\ job' = [job EXCEPT
                   ![o].stalled = n,
                   ![o].state = IF n > MaxStalledCount THEN "failed" ELSE "waiting"]
       /\ IF n > MaxStalledCount THEN Trim("failed") ELSE UNCHANGED removed
  /\ UNCHANGED <<kind, request, row, run, lastEvent, trades>>

(* A server process ends. Its requests and runs are gone; the locks of its   *)
(* jobs are no longer renewed and expire.                                    *)
EndProcess(srv) ==
  LET dead == {s \in Slots : Host(s) = srv} IN
  /\ run' = [s \in Slots |-> IF s \in dead THEN None ELSE run[s]]
  /\ request' = [o \in Orders |->
                   IF request[o].server = srv
                     THEN [step |-> "lost", server |-> None]
                     ELSE request[o]]
  /\ job' = [o \in Orders |->
               IF job[o].lock \in dead
                 THEN [job[o] EXCEPT !.lock = None]
                 ELSE job[o]]
  /\ UNCHANGED <<kind, row, lastEvent, trades, removed>>

(* A server process dies and the platform starts it again.                   *)
Restart(srv) ==
  /\ "restart" \in Faults
  /\ \/ \E s \in Slots : Host(s) = srv /\ run[s] # None
     \/ \E o \in Orders : request[o].server = srv
  /\ EndProcess(srv)
=============================================================================
