------------------------------- MODULE MCHost -------------------------------
(***************************************************************************)
(* One daemon and a `down` over two protected profiles; or, in the other   *)
(* scene, the daemon's policy resolver with its own profile.  In what is   *)
(* modelled of them they touch no common state, so nothing is gained from  *)
(* interleaving them.                                                      *)
(***************************************************************************)
EXTENDS DaemonLifecycle, PolicyResolver, TLC

CONSTANTS wg, n1, n6, srv, sub

VARIABLE scene

MCDomains   == [p \in WireGuards |-> {"a", "b"}]
MCAnswers   == [a |-> {n1, srv}, b |-> {n6}]
MCEssential == [p \in WireGuards |-> {sub}]
MCConf      == [p \in WireGuards |-> {}]
MCBounds    == [calls |-> 3, network |-> 2, ticks |-> 2]

Symmetry == Permutations(Objects)

HostInit == Init /\ ResolverInit /\ scene \in {"processes", "resolver"}

HostNext ==
    /\ \/ scene = "processes" /\ Next /\ UNCHANGED resolverVars
       \/ scene = "resolver" /\ ResolverNext /\ UNCHANGED vars
    /\ UNCHANGED scene

HostSpec == HostInit /\ [][HostNext]_<<vars, resolverVars, scene>>
=============================================================================
