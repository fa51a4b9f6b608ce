--------------------------- MODULE OrderRefinement ---------------------------
(***************************************************************************)
(* How the state of the engine is read as the state of the contract.       *)
(***************************************************************************)
EXTENDS OrderEngineInvariant, FiniteSets

(* What the queue has to say of an order. *)
OutcomeOf(o) ==
  CASE job[o].state = "none"      -> "absent"
    [] job[o].state \in Finished -> job[o].state
    [] OTHER                      -> "open"

Contract ==
  INSTANCE OrderContract WITH
    outcome <- [o \in Orders |-> OutcomeOf(o)],
    delivery <- [o \in Orders |-> job[o].stalled]

(* The engine keeps the contract: retries, lost locks, dying servers and late*)
(* runs amount to what the contract says of deliveries, and every other step *)
(* changes nothing that it speaks of.                                        *)
ImplementsContract == Contract!Spec

(* However often its servers die or fall silent, an order is traded at most  *)
(* once more than the queue delivers it again.                               *)
TradesAreBounded ==
  \A o \in Orders : Cardinality(trades[o]) <= MaxStalledCount + 1
=============================================================================
