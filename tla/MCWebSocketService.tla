-------------------------- MODULE MCWebSocketService --------------------------
(* Small instances of WebSocketService for TLC. *)
EXTENDS WebSocketService, TLC

CONSTANTS o1, o2, w1, w2

Symmetry == Permutations(Orders) \cup Permutations(Sockets)
=============================================================================
