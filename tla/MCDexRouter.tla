------------------------------ MODULE MCDexRouter ------------------------------
(* A small instance of DexRouter for TLC. *)
EXTENDS DexRouter
=============================================================================
