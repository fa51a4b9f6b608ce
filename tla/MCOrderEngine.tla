---------------------------- MODULE MCOrderEngine ----------------------------
(* Small instances of OrderEngine for TLC. *)
EXTENDS OrderRefinement, TLC

CONSTANTS o1, o2, s1, s2

Symmetry == Permutations(Orders) \cup Permutations(Servers)
=============================================================================
