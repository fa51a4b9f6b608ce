------------------------ MODULE StatusStreamInvariant ------------------------
(***************************************************************************)
(* What the history of an order's channel tells of its request and its     *)
(* runs, and what of it reaches a client. It is inductive on top of the    *)
(* invariants of the engine and of the service.                            *)
(***************************************************************************)
EXTENDS StatusStream, OrderEngineInvariant

(* The history of a channel has every update, and ends with the last event.  *)
HistoryIsComplete ==
  /\ history \in [Orders -> Seq(Statuses)]
  /\ \A o \in Orders :
       /\ Len(history[o]) = published[o]
       /\ lastEvent[o] = IF history[o] = <<>> THEN None ELSE history[o][Len(history[o])]

(* The request announces pending once, before its reply. *)
PendingIsAnnouncedOnce ==
  \A o \in Orders :
    LET announced == {i \in DOMAIN history[o] : history[o][i] = "pending"}
    IN /\ request[o].step = "r201" <=> announced # {}
       /\ \A i, j \in announced : i = j

(* What the runs of an order said last, by how far the present one has got.  *)
LastSaid ==
  [starting   |-> {None, "failed"},
   routing    |-> {None, "failed"},
   quoting    |-> {"routing"},
   routed     |-> {"routing"},
   building   |-> {"routing"},
   submitting |-> {"building"},
   swapping   |-> {"submitted"},
   confirming |-> {"submitted"},
   persisting |-> {"confirmed"},
   returning  |-> {"confirmed"},
   failing    |-> {None, "routing", "submitted", "failed"},
   recording  |-> {"failed"},
   exhausted  |-> {None, "failed"},
   burying    |-> {"failed"},
   throwing   |-> {None, "failed"}]

(* The announcement of the request may have come in between.                 *)
RunsSayWhatTheyDo ==
  \A s \in Slots :
    Busy(s) /\ job[run[s].order].stalled = 0
      => lastEvent[run[s].order] \in LastSaid[run[s].step] \cup {"pending"}

(* A job that waits for an attempt was last said to have failed, if anything.*)
WaitingHasFailed ==
  \A o \in Orders :
    job[o].stalled = 0 /\ job[o].state \in {"none", "waiting", "delayed"}
      => lastEvent[o] \in {None, "pending", "failed"}

(* Apart from the announcement, the history is a path through the life cycle.*)
HistoryFollowsLifecycle ==
  \A o \in Orders : job[o].stalled = 0 =>
    \A i \in 1..(Len(history[o]) - 1) :
      "pending" \notin {history[o][i], history[o][i + 1]}
        => history[o][i + 1] \in Follows[history[o][i]]

HistoryInv ==
  /\ HistoryIsComplete
  /\ PendingIsAnnouncedOnce
  /\ RunsSayWhatTheyDo
  /\ WaitingHasFailed
  /\ HistoryFollowsLifecycle

(* Clients watch orders whose request was accepted. *)
WatchedIsAccepted ==
  \A s \in Sockets : target[s] # None => request[target[s]].step = "r201"

(* Update u of history h came after the announcement. *)
AfterPending(h, u) == \E p \in DOMAIN h : p < u /\ h[p] = "pending"

(* What clients got, and what is on its way to them, came after pending.     *)
PendingIsPast ==
  /\ \A i \in DOMAIN replies : replies[i].op = "message"
       => AfterPending(history[replies[i].order], replies[i].update)
  /\ \A s \in Sockets : \A i \in DOMAIN received[s] :
       AfterPending(history[target[s]], received[s][i])

ClientInv == WatchedIsAccepted /\ PendingIsPast
=============================================================================
