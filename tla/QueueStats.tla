------------------------------ MODULE QueueStats ------------------------------
(***************************************************************************)
(* GET /api/orders/stats: QueueService.getQueueStats asks Redis for the    *)
(* lengths of five lists, one command after the other on one connection,   *)
(* and adds them up. Between two commands the engine goes on.              *)
(***************************************************************************)
EXTENDS OrderEngine, Sequences

VARIABLES
  next,      (* the list whose length is asked for next, 0 before the request*)
  counted,   (* counted[o]: the lists in which the job of o was counted      *)
  before,    (* before[o]: the state of the job when the request came, or    *)
             (* "removed" if the queue did not have it any more              *)
  returned   (* the jobs that went back to waiting since then                *)

statsVars == <<vars, next, counted, before, returned>>

(* The order of the calls in getQueueStats. *)
Lists == <<"waiting", "active", "completed", "failed", "delayed">>

Replied == Len(Lists) + 1

StatsTypeOK ==
  /\ next \in 0..Replied
  /\ counted \in [Orders -> SUBSET {Lists[i] : i \in DOMAIN Lists}]
  /\ before \in [Orders -> JobStates \cup {"removed"}]
  /\ returned \subseteq Orders

StatsInit ==
  /\ Init
  /\ next = 0
  /\ counted = [o \in Orders |-> {}]
  /\ before = [o \in Orders |-> "none"]
  /\ returned = {}

(* The route calls getQueueStats, which issues its five calls. *)
GetQueueStats ==
  /\ next = 0
  /\ next' = 1
  /\ before' = [o \in Orders |-> IF o \in removed THEN "removed" ELSE job[o].state]
  /\ UNCHANGED <<vars, counted, returned>>

(* The length of a list is told, with the jobs that are in it. *)
CountJobsOf(list) ==
  /\ next \in DOMAIN Lists
  /\ counted' = [o \in Orders |->
                   IF o \in Listed(list) THEN counted[o] \cup {list} ELSE counted[o]]
  /\ next' = next + 1
  /\ UNCHANGED <<vars, before, returned>>

(* Mutant of CountList: any state is asked for, also that of unknown jobs.   *)
CountListOfAny == \E list \in JobStates : CountJobsOf(list)

(* Mutant of CountList: the lists are asked for in the reverse order. *)
CountListReversed == CountJobsOf(Lists[Replied - next])

(* Mutant of CountList: the delayed jobs are asked for before the settled.   *)
CountListDelayedThird ==
  CountJobsOf(<<"waiting", "active", "delayed", "completed", "failed">>[next])

(* Redis tells the length of the next list. *)
CountList == CountJobsOf(Lists[next])

(* The engine goes on. *)
EngineStep ==
  /\ Next
  /\ returned' = IF next \in DOMAIN Lists
                   THEN returned \cup {o \in Orders :
                          job[o].state \notin {"none", "waiting"} /\ job'[o].state = "waiting"}
                   ELSE returned
  /\ UNCHANGED <<next, counted, before>>

StatsNext == GetQueueStats \/ CountList \/ EngineStep

StatsSpec == StatsInit /\ [][StatsNext]_statsVars
-----------------------------------------------------------------------------
(* Another job has been settled like that of o since the request came. *)
SettledSince(o) ==
  \E q \in Orders \ {o} :
    /\ job[q].state = job[o].state
    /\ before[q] \notin Finished \cup {"removed"}

(* The order of the five calls follows a job on its way through the lists, so*)
(* that a job which was in the queue when the request came is missing from   *)
(* the total for two reasons only: it went back to waiting behind the count's*)
(* back, by the end of its back-off or because it stalled; or it was settled *)
(* and the queue removed it, because another job was settled like it since.  *)
MissedIfReturnedOrRemoved ==
  next = Replied =>
    \A o \in Orders :
      before[o] \notin {"none", "removed"} /\ counted[o] = {} =>
        \/ o \in returned
        \/ o \in removed /\ SettledSince(o)

(* A job counts several times only along its way: never as completed and as  *)
(* failed, never as settled and as delayed, and a job that was settled when  *)
(* the request came counts at most once, as what it was.                     *)
NoContradictoryCounts ==
  \A o \in Orders :
    /\ \A x, y \in counted[o] : {x, y} \subseteq {"completed", "failed", "delayed"} => x = y
    /\ before[o] \in Finished => counted[o] \subseteq {before[o]}
=============================================================================
