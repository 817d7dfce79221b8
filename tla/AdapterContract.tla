-------------------------- MODULE AdapterContract --------------------------
(***************************************************************************)
(* What callers may believe of an adapter's answers: any adapter, called   *)
(* in any order while its tunnel comes and goes.  `told` remembers what    *)
(* the last call answered, as long as nothing happened since: a status, or *)
(* that Connect succeeded.                                                 *)
(***************************************************************************)
EXTENDS VpnAdapters

CONSTANT Nothing    \* what was told before anything was asked

VARIABLE told    \* history: what the last call answered, until something happens

contractVars == <<adapterVars, told>>

\* Nothing is no answer.
ASSUME NothingAssumption == Nothing \notin Statuses \cup {"dialled"}

ContractTypeOK ==
    /\ AdaptersTypeOK
    /\ told \in [Profiles -> Statuses \cup {"dialled", Nothing}]

ContractInit == AdaptersInit /\ told = [p \in Profiles |-> Nothing]

Hear(p, answer) == told' = [told EXCEPT ![p] = answer]

ContractNext ==
    \E p \in Profiles :
        \/ \E s \in Statuses : StatusCall(p, s) /\ Hear(p, s)
        \/ ConnectCall(p, TRUE) /\ Hear(p, "dialled")
        \/ ConnectCall(p, FALSE) /\ Hear(p, Nothing)
        \/ \E ok \in BOOLEAN : DisconnectCall(p, ok) /\ Hear(p, Nothing)
        \/ (TunnelDrops(p) \/ TunnelAppears(p)) /\ Hear(p, Nothing)

ContractSpec == ContractInit /\ [][ContractNext]_contractVars
----------------------------------------------------------------------------
(* Properties *)

Down(p) == told[p] \in {"disconnected", "error"}

\* Adapters that look at the tunnel never call a dropped one connected,
\* whatever calls, failures and changes of the network came before.
LiveStatusIsTrue ==
    \A p \in Profiles :
        kind[p] \notin Remembering /\ told[p] = "connected" => up[p]

\* WireGuard, whose Status() writes back what it saw, never reports a tunnel
\* down that is up, and never stays refusing a Connect for one that is down.
WireGuardReconciles ==
    \A p \in Profiles :
        kind[p] = "wireguard" /\ Down(p) => ~up[p] /\ ~Refuses(p)

\* A Connect leaves "connecting" behind only where FortiClient's first probe
\* is cut short: every other path of every adapter resets the status.
ConnectingIsTransient ==
    \A p \in Profiles : mem[p] = "connecting" => kind[p] = "forticlient"

\* OpenVPN and FortiClient never remember a tunnel as connected without what
\* they need to take it down: Disconnect would report success and leave it up.
ConnectedIsHeld ==
    \A p \in Profiles : kind[p] \in Holding /\ mem[p] = "connected" => handle[p] = "held"
=============================================================================
