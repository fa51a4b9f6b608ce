----------------------------- MODULE MCQueueStats -----------------------------
(* A small instance of QueueStats for TLC. *)
EXTENDS QueueStats, TLC

CONSTANTS o1, o2, s1

Symmetry == Permutations(Orders)
=============================================================================
