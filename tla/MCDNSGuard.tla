----------------------------- MODULE MCDNSGuard -----------------------------
(* Two tunnels with their own DNS servers, and what else writes resolv.conf. *)
EXTENDS DNSGuard

CONSTANTS p1, p2, s1, s2, home, cafe

MCForeign == {{home}, {cafe}}
=============================================================================
