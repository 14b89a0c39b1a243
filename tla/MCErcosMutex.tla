---------------------------- MODULE MCErcosMutex ----------------------------
(* Three threads, each of another priority, for TLC. *)
EXTENDS ErcosMutex, TLC

CONSTANTS high, middle, low

MCUser == {high, middle, low}
MCPriority == (high :> 0) @@ (middle :> 1) @@ (low :> 2)
=============================================================================
