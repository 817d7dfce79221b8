---------------------------- MODULE MCLifecycle ----------------------------
(* Two daemons and a `down`, over one profile. *)
EXTENDS DaemonLifecycle, TLC

Symmetry == Permutations(Daemons)
=============================================================================
