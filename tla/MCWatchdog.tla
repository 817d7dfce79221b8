----------------------------- MODULE MCWatchdog -----------------------------
(***************************************************************************)
(* A small watchdog: two profiles that fail over to each other, a bounded  *)
(* number of requests, and a network that changes a bounded number of      *)
(* times.                                                                  *)
(***************************************************************************)
EXTENDS Watchdog, TLC

CONSTANTS p1, p2, r1

MCPriority == p1 :> 1 @@ p2 :> 2
=============================================================================
