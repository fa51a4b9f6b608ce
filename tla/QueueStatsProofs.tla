--------------------------- MODULE QueueStatsProofs ---------------------------
(***************************************************************************)
(* What the five counts of getQueueStats can and cannot miss, for every    *)
(* engine. The argument is about the way of a job through the lists, which *)
(* the order of the calls follows.                                         *)
(***************************************************************************)
EXTENDS QueueStats, OrderEngineProofs

(* The ways of a job from one state to another one. *)
Moves ==
  {<<"none", "waiting">>, <<"waiting", "active">>, <<"delayed", "waiting">>}
    \cup {"active"} \X {"waiting", "delayed", "completed", "failed"}

(* A job whose way has not led it back is in a list still to be counted, or  *)
(* had to make room for another one.                                         *)
AheadOfCount ==
  next > 0 =>
    \A o \in Orders :
      before[o] \notin {"none", "removed"} /\ counted[o] = {} /\ o \notin returned
        => \/ o \notin removed /\ \E i \in DOMAIN Lists : i >= next /\ job[o].state = Lists[i]
           \/ o \in removed /\ SettledSince(o)

(* Only settled jobs are removed, and what was removed stays so.             *)
RemovedAreSettled ==
  \A o \in Orders :
    /\ o \in removed => job[o].state \in Finished
    /\ before[o] = "removed" => o \in removed

(* A job that is settled, or was counted as settled, stays what it is, and   *)
(* the delayed jobs are the last ones to be counted.                         *)
CountsAreFinal ==
  \A o \in Orders :
    /\ before[o] \in Finished => job[o].state = before[o] /\ counted[o] \subseteq {before[o]}
    /\ \A x \in counted[o] : x \in Finished => job[o].state = x
    /\ "delayed" \in counted[o] =>
         next = Replied /\ "completed" \notin counted[o] /\ "failed" \notin counted[o]

StatsInv ==
  /\ IInv
  /\ StatsTypeOK
  /\ next = 0 => counted = [o \in Orders |-> {}] /\ before = [o \in Orders |-> "none"]
  /\ RemovedAreSettled
  /\ AheadOfCount
  /\ CountsAreFinal

-----------------------------------------------------------------------------
(* The lists and their number. *)
LEMMA ListsAre ==
  /\ DOMAIN Lists = 1..5
  /\ Replied = 6
  /\ Lists[1] = "waiting" /\ Lists[2] = "active" /\ Lists[3] = "completed"
  /\ Lists[4] = "failed" /\ Lists[5] = "delayed"
  /\ \A i \in 1..5 : /\ Lists[i] = "waiting" => i = 1
                     /\ Lists[i] = "active" => i = 2
                     /\ Lists[i] = "delayed" => i = 5
<1>1. /\ DOMAIN Lists = 1..5
      /\ Replied = 6
      /\ Lists[1] = "waiting" /\ Lists[2] = "active" /\ Lists[3] = "completed"
      /\ Lists[4] = "failed" /\ Lists[5] = "delayed"
  BY DEF Lists, Replied
<1>2. \A i \in 1..5 : i = 1 \/ i = 2 \/ i = 3 \/ i = 4 \/ i = 5
  OBVIOUS
<1> QED BY <1>1, <1>2

(* Whatever the engine does, a job stays in its state or moves on.           *)
LEMMA JobMoves ==
  ASSUME IInv, [Next]_vars, NEW o \in Orders
  PROVE  job'[o].state = job[o].state \/ <<job[o].state, job'[o].state>> \in Moves
<1>0. TypeOK /\ RequestsStoreInOrder /\ \A q \in Orders : job[q] \in Jobs
  BY DEF IInv, StorageInv, TypeOK
<1>1. ASSUME NEW q \in Orders, AddOrder(q)
      PROVE  \/ job'[o].state = job[o].state
             \/ job[o].state = "none" /\ job'[o].state = "waiting"
  BY <1>0, <1>1 DEF AddOrder, RequestsStoreInOrder, TypeOK, Jobs
<1>2. ASSUME NEW q \in Orders,
             \/ PromoteDelayed(q) \/ LoseLock(q) \/ MoveStalledJob(q)
             \/ \E s \in Slots : TakeJob(s, q)
      PROVE  \/ job'[o].state = job[o].state
             \/ job[o].state = "delayed" /\ job'[o].state = "waiting"
             \/ job[o].state = "waiting" /\ job'[o].state = "active"
             \/ job[o].state = "active" /\ job'[o].state \in {"waiting", "failed"}
  <2> USE <1>0 DEF TypeOK, Jobs
  <2>1. CASE PromoteDelayed(q)
    BY <2>1 DEF PromoteDelayed
  <2>2. CASE LoseLock(q)
    BY <2>2 DEF LoseLock
  <2>3. CASE MoveStalledJob(q)
    BY <2>3 DEF MoveStalledJob
  <2>4. ASSUME NEW s \in Slots, TakeJob(s, q)
        PROVE  \/ job'[o].state = job[o].state
               \/ job[o].state = "waiting" /\ job'[o].state = "active"
    BY <2>4 DEF TakeJob
  <2> QED BY <1>2, <2>1, <2>2, <2>3, <2>4
<1>3. ASSUME NEW s \in Slots, CompleteJob(s) \/ FailJob(s)
      PROVE  \/ job'[o].state = job[o].state
             \/ job[o].state = "active" /\ job'[o].state \in {"completed", "delayed", "failed"}
  <2>1. CASE CompleteJob(s)
    <3>1. \/ job' = job
          \/ /\ job[run[s].order].state = "active"
             /\ job' = [job EXCEPT ![run[s].order].state = "completed",
                                  ![run[s].order].lock = None]
      BY <2>1 DEF CompleteJob, HoldsLock
    <3> QED BY <1>0, <3>1 DEF TypeOK, Jobs
  <2>2. CASE FailJob(s)
    BY <1>0, <2>2 DEF FailJob, HoldsLock, TypeOK, Jobs
  <2> QED BY <1>3, <2>1, <2>2
<1>4. ASSUME NEW srv \in Servers, Restart(srv)
      PROVE  job'[o].state = job[o].state
  BY <1>0, <1>4 DEF Restart, EndProcess, TypeOK, Jobs
<1>5. ASSUME job' = job
      PROVE  job'[o].state = job[o].state
  BY <1>5
<1>6. ASSUME NEW s \in Slots, WorkerStep(s)
      PROVE  CompleteJob(s) \/ FailJob(s) \/ job' = job
  BY <1>6 DEF WorkerStep, MarkPending, ReportRouting, GetBestQuote, ReportRouted,
     ReportBuilding, ReportSubmitted, ExecuteSwap, ReportConfirmed, RecordConfirmed,
     ReportFailed, RecordFailed, ReportExhausted, RecordExhausted, Report
<1>7. ASSUME NEW q \in Orders, ControllerStep(q)
      PROVE  AddOrder(q) \/ job' = job
  BY <1>7 DEF ControllerStep, CreateRow, CountQueue, AnnouncePending
<1>8. ASSUME NEW q \in Orders, NEW k \in OrderKinds, NEW srv \in Servers, Submit(q, k, srv)
      PROVE  job' = job
  BY <1>8 DEF Submit
<1>9. AtRest \/ UNCHANGED vars => job' = job
  BY DEF AtRest, vars
<1>10. \/ job'[o].state = job[o].state
       \/ job[o].state = "none" /\ job'[o].state = "waiting"
       \/ job[o].state = "waiting" /\ job'[o].state = "active"
       \/ job[o].state = "delayed" /\ job'[o].state = "waiting"
       \/ /\ job[o].state = "active"
          /\ job'[o].state \in {"waiting", "delayed", "completed", "failed"}
  BY <1>1, <1>2, <1>3, <1>4, <1>5, <1>6, <1>7, <1>8, <1>9 DEF Next
<1> QED BY <1>10 DEF Moves

(* What Trim removes was settled like the job that makes it do so. *)
LEMMA TrimRemoves ==
  ASSUME NEW state, Trim(state), NEW o, o \notin removed, o \in removed'
  PROVE  o \in Orders /\ job[o].state = state
  BY DEF Trim, Listed

(* A job is removed only when another one is settled like it.                *)
LEMMA JobRemovals ==
  ASSUME IInv, [Next]_vars
  PROVE  /\ removed \subseteq removed'
         /\ \A o \in removed' \ removed :
              /\ o \in Orders /\ job[o].state \in Finished
              /\ \E q \in Orders : job[q].state = "active" /\ job'[q].state = job[o].state
<1>0. /\ TypeOK /\ \A q \in Orders : job[q] \in Jobs
      /\ \A s \in Slots : run[s] # None => run[s].order \in Orders
  BY RunType DEF IInv, TypeOK
<1>1. ASSUME NEW q \in Orders, MoveStalledJob(q), removed' # removed
      PROVE  /\ Trim("failed")
             /\ job[q].state = "active" /\ job'[q].state = "failed"
  BY <1>0, <1>1 DEF MoveStalledJob, TypeOK, Jobs
<1>2. ASSUME NEW s \in Slots, CompleteJob(s), removed' # removed
      PROVE  /\ Trim("completed")
             /\ \E q \in Orders : job[q].state = "active" /\ job'[q].state = "completed"
  <2>1. /\ HoldsLock(s, run[s].order) /\ Trim("completed")
        /\ job' = [job EXCEPT ![run[s].order].state = "completed",
                             ![run[s].order].lock = None]
    BY <1>2 DEF CompleteJob
  <2>2. run[s].order \in Orders
    BY <1>0, <1>2 DEF CompleteJob
  <2>3. job[run[s].order].state = "active" /\ job'[run[s].order].state = "completed"
    BY <1>0, <2>1, <2>2 DEF HoldsLock, TypeOK, Jobs
  <2> QED BY <2>1, <2>2, <2>3
<1>3. ASSUME NEW s \in Slots, FailJob(s), removed' # removed
      PROVE  /\ Trim("failed")
             /\ \E q \in Orders : job[q].state = "active" /\ job'[q].state = "failed"
  <2>1. /\ HoldsLock(s, run[s].order) /\ Trim("failed")
        /\ job[run[s].order].attemptsMade + 1 >= MaxAttempts
    BY <1>0, <1>3, EngineAssumption DEF FailJob, HoldsLock, Jobs
  <2>2. run[s].order \in Orders
    BY <1>0, <1>3 DEF FailJob
  <2>3. job[run[s].order].state = "active" /\ job'[run[s].order].state = "failed"
    BY <1>0, <1>3, <2>1, <2>2, EngineAssumption DEF FailJob, HoldsLock, TypeOK, Jobs
  <2> QED BY <2>1, <2>2, <2>3
<1>4. \/ UNCHANGED removed
      \/ \E q \in Orders : MoveStalledJob(q)
      \/ \E s \in Slots : CompleteJob(s) \/ FailJob(s)
  <2>1. ASSUME NEW s \in Slots, WorkerStep(s)
        PROVE  UNCHANGED removed \/ CompleteJob(s) \/ FailJob(s)
    BY <2>1 DEF WorkerStep, MarkPending, ReportRouting, GetBestQuote, ReportRouted,
       ReportBuilding, ReportSubmitted, ExecuteSwap, ReportConfirmed, RecordConfirmed,
       ReportFailed, RecordFailed, ReportExhausted, RecordExhausted, Report
  <2>2. ASSUME NEW q \in Orders, ControllerStep(q)
        PROVE  UNCHANGED removed
    BY <2>2 DEF ControllerStep, CreateRow, AddOrder, CountQueue, AnnouncePending
  <2>3. ASSUME NEW q \in Orders, NEW k \in OrderKinds, NEW srv \in Servers, Submit(q, k, srv)
        PROVE  UNCHANGED removed
    BY <2>3 DEF Submit
  <2>4. ASSUME NEW q \in Orders,
               PromoteDelayed(q) \/ LoseLock(q) \/ \E s \in Slots : TakeJob(s, q)
        PROVE  UNCHANGED removed
    BY <2>4 DEF PromoteDelayed, LoseLock, TakeJob
  <2>5. ASSUME NEW srv \in Servers, Restart(srv)
        PROVE  UNCHANGED removed
    BY <2>5 DEF Restart, EndProcess
  <2>6. AtRest \/ UNCHANGED vars => UNCHANGED removed
    BY DEF AtRest, vars
  <2> QED BY <2>1, <2>2, <2>3, <2>4, <2>5, <2>6 DEF Next
<1>5. removed' = removed \/ \E state \in Finished :
        /\ Trim(state)
        /\ \E q \in Orders : job[q].state = "active" /\ job'[q].state = state
  BY <1>1, <1>2, <1>3, <1>4 DEF Finished
<1>6. removed \subseteq removed'
  BY <1>5 DEF Trim
<1> QED BY <1>5, <1>6, TrimRemoves

(* The initial state. *)
LEMMA InitStatsInv == StatsInit => StatsInv
<1> SUFFICES ASSUME StatsInit PROVE StatsInv
  OBVIOUS
<1>1. IInv
  BY InitInv DEF StatsInit
<1>2. StatsTypeOK
  BY ListsAre DEF StatsInit, StatsTypeOK, JobStates
<1>3. AheadOfCount /\ CountsAreFinal /\ RemovedAreSettled
  BY DEF StatsInit, Init, AheadOfCount, CountsAreFinal, RemovedAreSettled, Finished
<1> QED BY <1>1, <1>2, <1>3 DEF StatsInv, StatsInit

(* The request comes: every job there is has its list ahead. *)
LEMMA RequestStatsInv ==
  ASSUME StatsInv, GetQueueStats
  PROVE  StatsInv'
<1>0. /\ UNCHANGED vars /\ next' = 1 /\ UNCHANGED <<counted, returned>>
      /\ counted = [o \in Orders |-> {}]
      /\ before' = [o \in Orders |-> IF o \in removed THEN "removed" ELSE job[o].state]
      /\ \A o \in Orders : job[o].state \in JobStates
  BY DEF GetQueueStats, StatsInv, IInv, TypeOK, Jobs
<1>1. IInv'
  BY <1>0, NextInv DEF StatsInv
<1>2. StatsTypeOK'
  BY <1>0, ListsAre DEF StatsInv, StatsTypeOK
<1>3. AheadOfCount'
  BY <1>0, ListsAre DEF AheadOfCount, vars, JobStates
<1>4. RemovedAreSettled'
  <2>1. \A o \in Orders : job[o].state # "removed"
    BY <1>0 DEF JobStates
  <2> QED BY <1>0, <2>1 DEF StatsInv, RemovedAreSettled, vars
<1>5. CountsAreFinal'
  <2>1. \A o \in Orders : counted'[o] = {} /\ job'[o] = job[o]
    BY <1>0 DEF vars
  <2>2. \A o \in Orders : before'[o] \in Finished => job[o].state = before'[o]
    BY <1>0 DEF Finished
  <2> QED BY <2>1, <2>2 DEF CountsAreFinal
<1> QED BY <1>0, <1>1, <1>2, <1>3, <1>4, <1>5 DEF StatsInv

(* A list is counted: the jobs in it are not missed, the others are ahead.   *)
LEMMA CountStatsInv ==
  ASSUME StatsInv, CountList
  PROVE  StatsInv'
<1>0. /\ UNCHANGED vars /\ next \in 1..5 /\ next' = next + 1
      /\ UNCHANGED <<before, returned>>
      /\ \A o \in Orders :
           counted'[o] = IF o \in Listed(Lists[next]) THEN counted[o] \cup {Lists[next]}
                                                       ELSE counted[o]
  BY ListsAre DEF CountList, CountJobsOf
<1>1. IInv'
  BY <1>0, NextInv DEF StatsInv
<1>2. StatsTypeOK'
  <2>1. counted' \in [Orders -> SUBSET {Lists[i] : i \in DOMAIN Lists}]
    BY DEF CountList, CountJobsOf, StatsInv, StatsTypeOK
  <2> QED BY <1>0, <2>1, ListsAre DEF StatsInv, StatsTypeOK
<1>3. AheadOfCount'
  <2>a. /\ \A o \in Orders : SettledSince(o)' <=> SettledSince(o)
        /\ removed' = removed /\ job' = job
    BY <1>0 DEF SettledSince, vars
  <2> SUFFICES ASSUME NEW o \in Orders, before[o] \notin {"none", "removed"},
                      counted'[o] = {}, o \notin returned
               PROVE  \/ o \notin removed /\ \E i \in 1..5 : i >= next + 1 /\ job[o].state = Lists[i]
                      \/ o \in removed /\ SettledSince(o)
    BY <1>0, <2>a, ListsAre DEF AheadOfCount
  <2>0. counted[o] = {} /\ next > 0 /\ o \notin Listed(Lists[next])
    <3>1. counted[o] \subseteq counted'[o]
      BY <1>0
    <3>2. o \in Listed(Lists[next]) => Lists[next] \in counted'[o]
      BY <1>0
    <3> QED BY <1>0, <3>1, <3>2
  <2>1. CASE o \in removed
    BY <2>0, <2>1 DEF StatsInv, AheadOfCount
  <2>2. CASE o \notin removed
    <3>1. PICK i \in 1..5 : i >= next /\ job[o].state = Lists[i]
      BY <2>0, <2>2, ListsAre DEF StatsInv, AheadOfCount
    <3>2. i # next
      BY <2>0, <2>2, <3>1 DEF Listed
    <3> QED BY <1>0, <2>2, <3>1, <3>2
  <2> QED BY <2>1, <2>2
<1>4. CountsAreFinal'
  <2> SUFFICES ASSUME NEW o \in Orders
               PROVE  /\ before[o] \in Finished =>
                           job[o].state = before[o] /\ counted'[o] \subseteq {before[o]}
                      /\ \A x \in counted'[o] : x \in Finished => job[o].state = x
                      /\ "delayed" \in counted'[o] =>
                           /\ next + 1 = Replied
                           /\ "completed" \notin counted'[o] /\ "failed" \notin counted'[o]
    BY <1>0 DEF CountsAreFinal, vars
  <2>0. /\ before[o] \in Finished => job[o].state = before[o] /\ counted[o] \subseteq {before[o]}
        /\ \A x \in counted[o] : x \in Finished => job[o].state = x
        /\ "delayed" \notin counted[o]
    BY <1>0, ListsAre DEF StatsInv, CountsAreFinal
  <2>1. CASE o \in Listed(Lists[next])
    <3>0. job[o].state = Lists[next]
      BY <2>1 DEF Listed
    <3>1. counted'[o] = counted[o] \cup {Lists[next]}
      BY <1>0, <2>1
    <3>2. "delayed" \in counted'[o] => Lists[next] = "delayed"
      BY <2>0, <3>1
    <3>3. Lists[next] = "delayed" => next + 1 = Replied
      BY <1>0, ListsAre
    <3>4. \A x \in counted'[o] : x \in Finished => job[o].state = x
      BY <2>0, <3>0, <3>1
    <3>5. "completed" \in Finished /\ "failed" \in Finished
      BY DEF Finished
    <3> QED BY <2>0, <3>0, <3>1, <3>2, <3>3, <3>4, <3>5
  <2>2. CASE o \notin Listed(Lists[next])
    BY <1>0, <2>0, <2>2
  <2> QED BY <2>1, <2>2
<1>5. RemovedAreSettled'
  BY <1>0 DEF StatsInv, RemovedAreSettled, vars
<1> QED BY <1>0, <1>1, <1>2, <1>3, <1>4, <1>5 DEF StatsInv

(* The engine goes on: a job moves ahead, is seen to return, or makes room.  *)
LEMMA EngineStatsInv ==
  ASSUME StatsInv, EngineStep
  PROVE  StatsInv'
<1>0. /\ [Next]_vars /\ UNCHANGED <<next, counted, before>>
      /\ returned \subseteq returned' /\ returned' \subseteq Orders
      /\ next \in 1..5 =>
           \A o \in Orders :
             job[o].state \notin {"none", "waiting"} /\ job'[o].state = "waiting"
               => o \in returned'
  BY ListsAre DEF EngineStep, StatsInv, StatsTypeOK
<1>1. \A o \in Orders :
        job'[o].state = job[o].state \/ <<job[o].state, job'[o].state>> \in Moves
  BY <1>0, JobMoves DEF StatsInv
<1>a. \A o \in Orders : job[o].state \in Finished => job'[o].state = job[o].state
  BY <1>1 DEF Moves, Finished
<1>b. /\ removed \subseteq removed'
      /\ \A o \in removed' \ removed :
           /\ o \in Orders /\ job[o].state \in Finished
           /\ \E q \in Orders : job[q].state = "active" /\ job'[q].state = job[o].state
  BY <1>0, JobRemovals DEF StatsInv
<1>2. IInv'
  BY <1>0, NextInv DEF StatsInv
<1>3. StatsTypeOK'
  BY <1>0 DEF StatsInv, StatsTypeOK
<1>6. RemovedAreSettled'
  BY <1>0, <1>a, <1>b DEF StatsInv, RemovedAreSettled
<1>7. ASSUME NEW o \in Orders, o \in removed, SettledSince(o)
      PROVE  SettledSince(o)'
  <2>1. job[o].state \in Finished
    BY <1>7 DEF StatsInv, RemovedAreSettled
  <2>2. PICK q \in Orders \ {o} :
          job[q].state = job[o].state /\ before[q] \notin Finished \cup {"removed"}
    BY <1>7 DEF SettledSince
  <2>3. job'[q].state = job'[o].state
    BY <1>a, <2>1, <2>2
  <2> QED BY <1>0, <2>2, <2>3 DEF SettledSince, Finished
<1>8. ASSUME NEW o \in Orders, o \in removed' \ removed
      PROVE  SettledSince(o)'
  <2>1. PICK q \in Orders : job[q].state = "active" /\ job'[q].state = job[o].state
    BY <1>b, <1>8
  <2>2. job[o].state \in Finished /\ job'[o].state = job[o].state
    BY <1>a, <1>b, <1>8
  <2>3. q # o /\ q \notin removed
    BY <2>1, <2>2 DEF Finished, StatsInv, RemovedAreSettled
  <2>4. before[q] \notin Finished \cup {"removed"}
    BY <2>1, <2>3 DEF Finished, StatsInv, RemovedAreSettled, CountsAreFinal
  <2> QED BY <1>0, <2>1, <2>2, <2>3, <2>4 DEF SettledSince, Finished
<1>4. AheadOfCount'
  <2> SUFFICES ASSUME next > 0, NEW o \in Orders, before[o] \notin {"none", "removed"},
                      counted[o] = {}, o \notin returned'
               PROVE  \/ o \notin removed' /\ \E i \in 1..5 : i >= next /\ job'[o].state = Lists[i]
                      \/ o \in removed' /\ SettledSince(o)'
    BY <1>0, ListsAre DEF AheadOfCount
  <2>0. CASE o \in removed'
    <3>1. o \in removed => SettledSince(o)
      BY <1>0 DEF StatsInv, AheadOfCount
    <3> QED BY <1>7, <1>8, <2>0, <3>1
  <2>a. CASE o \notin removed'
    <3>0. o \notin removed
      BY <1>b, <2>a
    <3>1. PICK i \in 1..5 : i >= next /\ job[o].state = Lists[i]
      BY <1>0, <3>0, ListsAre DEF StatsInv, AheadOfCount
    <3>2. next \in 1..5
      BY <3>1, ListsAre DEF StatsInv, StatsTypeOK
    <3>3. job'[o].state # "waiting" \/ job'[o].state = job[o].state
      BY <1>0, <3>1, <3>2, ListsAre
    <3>4. CASE job'[o].state = job[o].state
      BY <2>a, <3>1, <3>4
    <3>5. CASE job[o].state = "waiting" /\ job'[o].state = "active"
      <4>1. i = 1 /\ Lists[2] = "active"
        BY <3>1, <3>5, ListsAre
      <4> QED BY <2>a, <3>1, <3>2, <3>5, <4>1
    <3>6. CASE job[o].state = "active" /\ job'[o].state \in {"delayed", "completed", "failed"}
      <4>1. i = 2 /\ Lists[3] = "completed" /\ Lists[4] = "failed" /\ Lists[5] = "delayed"
        BY <3>1, <3>6, ListsAre
      <4> QED BY <2>a, <3>1, <3>2, <3>6, <4>1
    <3> QED BY <1>1, <3>1, <3>3, <3>4, <3>5, <3>6, ListsAre DEF Moves
  <2> QED BY <2>0, <2>a
<1>5. CountsAreFinal'
  BY <1>0, <1>a DEF StatsInv, CountsAreFinal
<1> QED BY <1>0, <1>2, <1>3, <1>4, <1>5, <1>6 DEF StatsInv

(* The invariant holds whenever the request comes, and whatever the engine   *)
(* does between the five calls.                                              *)
THEOREM StatsInvariance == StatsSpec => []StatsInv
<1>1. StatsInv /\ [StatsNext]_statsVars => StatsInv'
  <2> SUFFICES ASSUME StatsInv, [StatsNext]_statsVars PROVE StatsInv'
    OBVIOUS
  <2>1. CASE UNCHANGED statsVars
    <3>0. UNCHANGED vars
      BY <2>1 DEF statsVars
    <3>1. IInv'
      BY <3>0, NextInv DEF StatsInv
    <3> QED BY <2>1, <3>1
            DEF StatsInv, StatsTypeOK, AheadOfCount, SettledSince, RemovedAreSettled,
                CountsAreFinal, statsVars, vars
  <2> QED BY <2>1, RequestStatsInv, CountStatsInv, EngineStatsInv DEF StatsNext
<1> QED BY <1>1, InitStatsInv, PTL DEF StatsSpec

(* The variables of the request keep their types. *)
THEOREM StatsTypes == StatsSpec => []StatsTypeOK
<1>1. StatsInv => StatsTypeOK
  BY DEF StatsInv
<1> QED BY <1>1, StatsInvariance, PTL

(* A job that was in the queue when the request came is missing from the     *)
(* total only if it went back to waiting while the lists were counted, or was*)
(* removed because another job was settled like it in the meantime.          *)
THEOREM MissedAreAccountedFor == StatsSpec => []MissedIfReturnedOrRemoved
<1>1. StatsInv => MissedIfReturnedOrRemoved
  BY ListsAre DEF StatsInv, AheadOfCount, MissedIfReturnedOrRemoved
<1> QED BY <1>1, StatsInvariance, PTL

(* No job is counted as completed and as failed, or as settled and delayed,  *)
(* and one that was settled when the request came counts only as what it was.*)
THEOREM CountsDoNotContradict == StatsSpec => []NoContradictoryCounts
<1>1. StatsInv => NoContradictoryCounts
  BY DEF StatsInv, CountsAreFinal, NoContradictoryCounts, Finished
<1> QED BY <1>1, StatsInvariance, PTL
=============================================================================
