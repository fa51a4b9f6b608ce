---------------------------- MODULE OrderContract ----------------------------
(***************************************************************************)
(* What the engine promises of every order, without saying how: an order   *)
(* that got in is tried until it is settled, and whoever asks is told the  *)
(* truth. Settling may take several deliveries, since a server can die or  *)
(* fall silent while it holds the order, and a delivery that was given up  *)
(* may still trade late. The contract allows that; it promises at most one *)
(* trade for each delivery, and a bounded number of deliveries.            *)
(***************************************************************************)
EXTENDS Integers

CONSTANTS
  Orders,           (* the orders clients may submit                         *)
  MaxAttempts,      (* attempts in one delivery                              *)
  MaxStalledCount   (* deliveries that may be given up and begun again       *)

VARIABLES
  outcome,    (* outcome[o]: what there is to say of the order               *)
  delivery,   (* delivery[o]: how many of its deliveries were given up       *)
  trades      (* trades[o]: its trades, each with its delivery and attempt   *)

contractVars == <<outcome, delivery, trades>>

Outcomes == {"absent", "open", "completed", "failed"}

Init ==
  /\ outcome = [o \in Orders |-> "absent"]
  /\ delivery = [o \in Orders |-> 0]
  /\ trades = [o \in Orders |-> {}]

Traded(o, n) == \E t \in trades[o] : t.stalled = n

(* The order gets in. *)
Accept(o) ==
  /\ outcome[o] = "absent"
  /\ outcome' = [outcome EXCEPT ![o] = "open"]
  /\ UNCHANGED <<delivery, trades>>

(* Delivery n trades, for the first time. Unless it was given up, nobody has *)
(* been told yet how the order ended.                                        *)
Trade(o, n) ==
  /\ n <= delivery[o]
  /\ n = delivery[o] => outcome[o] = "open"
  /\ ~Traded(o, n)
  /\ \E a \in 1..MaxAttempts :
       trades' = [trades EXCEPT ![o] = @ \cup {[stalled |-> n, attempt |-> a]}]
  /\ UNCHANGED <<outcome, delivery>>

(* The order is settled, as what its delivery did. *)
Settle(o) ==
  /\ outcome[o] = "open"
  /\ outcome' = [outcome EXCEPT ![o] =
                   IF Traded(o, delivery[o]) THEN "completed" ELSE "failed"]
  /\ UNCHANGED <<delivery, trades>>

(* The delivery is given up, and with the last one the order. *)
GiveUp(o) ==
  /\ outcome[o] = "open"
  /\ delivery' = [delivery EXCEPT ![o] = @ + 1]
  /\ outcome' = [outcome EXCEPT ![o] =
                   IF delivery[o] < MaxStalledCount THEN "open" ELSE "failed"]
  /\ UNCHANGED trades

Next ==
  \E o \in Orders :
    \/ Accept(o)
    \/ \E n \in 0..MaxStalledCount : Trade(o, n)
    \/ Settle(o)
    \/ GiveUp(o)

Spec == Init /\ [][Next]_contractVars
=============================================================================
