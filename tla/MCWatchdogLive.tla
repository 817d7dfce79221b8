--------------------------- MODULE MCWatchdogLive ---------------------------
(* One profile, no failover, no bound: what must eventually happen. *)
EXTENDS Watchdog

CONSTANTS p1, r1

MCPriority == [p \in Profiles |-> 1]
=============================================================================
