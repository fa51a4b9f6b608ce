-------------------------- MODULE MCGracefulShutdown --------------------------
(* Small instances of GracefulShutdown for TLC. *)
EXTENDS GracefulShutdown

CONSTANTS o1, s1, s2
=============================================================================
