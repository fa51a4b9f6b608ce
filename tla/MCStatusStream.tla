---------------------------- MODULE MCStatusStream ----------------------------
(* A small instance of StatusStream for TLC. *)
EXTENDS StatusStream

CONSTANTS o1, s1, w1
=============================================================================
