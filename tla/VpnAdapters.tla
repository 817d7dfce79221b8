---------------------------- MODULE VpnAdapters ----------------------------
(***************************************************************************)
(* The VPN adapters of internal/vpn: for each profile the status its       *)
(* adapter remembers, what it keeps to take the tunnel down with, and      *)
(* whether the tunnel is really up.  Every method runs under the adapter's *)
(* own mutex from its first to its last line, so a call is one action      *)
(* whose effect takes place when the mutex is released.  The eight         *)
(* adapters differ in how Status() relates the remembered status to the    *)
(* tunnel, in what convinces Connect that the tunnel is up, and in what    *)
(* a failed call leaves behind.                                            *)
(***************************************************************************)
CONSTANTS
    Profiles,        \* the profiles of the configuration
    AdapterKinds,    \* the adapter types they are configured with
    Platforms        \* operating systems the program is built for

VARIABLES
    kind,      \* the adapter type of a profile, fixed by the configuration
    platform,  \* runtime.GOOS
    mem,       \* a.status: what the adapter remembers
    handle,    \* openvpn: a.proc, and if its Wait returned; forticlient: a.tunnelIface
    up         \* the tunnel exists in the operating system (not the code's)

fixedVars   == <<kind, platform>>
adapterVars == <<fixedVars, mem, handle, up>>

Kinds == {"openvpn", "ciscoanyconnect", "protonvpn", "globalprotect",
          "cloudflarewarp", "tailscale", "wireguard", "forticlient"}

Remembering == {"openvpn", "ciscoanyconnect", "protonvpn", "globalprotect"}
Probing     == {"cloudflarewarp", "tailscale"}
Holding     == {"openvpn", "forticlient"}

\* Adapters whose commands end by themselves, by a timeout; a command of the
\* others may hang for ever, and the call that runs it with it.
Bounded == {"wireguard"}

Statuses == {"disconnected", "connecting", "connected", "error"}
Handles  == {"none", "held", "reaped"}

\* Every adapter type in use is a registered one, every platform supported.
ASSUME AdaptersAssumption == /\ AdapterKinds \subseteq Kinds
                             /\ Platforms \subseteq {"linux", "darwin", "windows"}

Normalize(s) == IF s = "" THEN "disconnected" ELSE s

AdaptersTypeOK ==
    /\ kind \in [Profiles -> AdapterKinds] /\ platform \in Platforms
    /\ mem \in [Profiles -> Statuses \cup {""}]
    /\ handle \in [Profiles -> Handles]
    /\ up \in [Profiles -> BOOLEAN]

\* A tunnel may already be up when the process starts; the struct is zero.
AdaptersInit ==
    /\ kind \in [Profiles -> AdapterKinds] /\ platform \in Platforms
    /\ mem = [p \in Profiles |-> ""]
    /\ handle = [p \in Profiles |-> "none"]
    /\ up \in [Profiles -> BOOLEAN]

Remember(p, s) == mem' = [mem EXCEPT ![p] = s]
Hold(p, h)     == handle' = [handle EXCEPT ![p] = h]
Bring(p, b)    == up' = [up EXCEPT ![p] = b]

\* What a vendor's client says of a tunnel that is up, or is not.
Reports(b) == IF b THEN {"connected"} ELSE {"connecting", "disconnected"}
----------------------------------------------------------------------------
(* Status() *)

\* The remembered status is all these adapters report.
RememberedStatus(p, s) ==
    /\ kind[p] \in Remembering
    /\ s = Normalize(mem[p])
    /\ UNCHANGED adapterVars

\* Mutant: what is remembered as connected is called connected.
ProbedStatusUnasked(p, s) ==
    /\ kind[p] \in Probing
    /\ s = Normalize(mem[p])
    /\ UNCHANGED adapterVars

\* The vendor's client is asked only about a tunnel remembered as connected,
\* under a read lock: its answer is returned and never written back.
ProbedStatus(p, s) ==
    /\ kind[p] \in Probing
    /\ IF mem[p] = "connected" THEN s \in {"error"} \cup Reports(up[p])
                               ELSE s = Normalize(mem[p])
    /\ UNCHANGED adapterVars

\* Mutants: WireGuard reports what it remembers; it reports a lost interface
\* without writing that down.
WireGuardStatusRemembered(p, s) ==
    /\ kind[p] = "wireguard"
    /\ s = Normalize(mem[p])
    /\ UNCHANGED adapterVars

WireGuardStatusUnwritten(p, s) ==
    /\ kind[p] = "wireguard"
    /\ \/ up[p] /\ s = "connected"
       \/ ~up[p] /\ s = IF mem[p] = "connected" THEN "error" ELSE Normalize(mem[p])
    /\ UNCHANGED adapterVars

\* WireGuard reconciles its memory with the interface in both directions; on
\* Windows the service may still run while the interface is not there.
WireGuardStatus(p, s) ==
    /\ kind[p] = "wireguard"
    /\ \/ up[p] /\ s = "connected" /\ Remember(p, "connected")
       \/ ~up[p] /\ platform = "windows" /\ s = "connecting" /\ UNCHANGED mem
       \/ /\ ~up[p]
          /\ Remember(p, IF mem[p] = "connected" THEN "error" ELSE mem[p])
          /\ s = Normalize(mem'[p])
    /\ UNCHANGED <<fixedVars, handle, up>>

\* Mutant: an adopted tunnel's interface is not remembered.
FortiClientStatusNameless(p, s) ==
    /\ kind[p] = "forticlient"
    /\ Remember(p, IF up[p] /\ mem[p] = "disconnected" THEN "connected" ELSE mem[p])
    /\ s = Normalize(mem'[p])
    /\ UNCHANGED <<fixedVars, handle, up>>

\* FortiClient drops a tunnel whose interface is gone, then adopts one that
\* appeared; only the remembered value "disconnected" is probed.
FortiClientStatus(p, s) ==
    LET lost  == mem[p] = "connected" /\ handle[p] = "held" /\ ~up[p]
        adopt == up[p] /\ mem[p] = "disconnected"
    IN  /\ kind[p] = "forticlient"
        /\ \/ lost /\ Remember(p, "disconnected") /\ Hold(p, "none")
           \/ adopt /\ Remember(p, "connected") /\ Hold(p, "held")
           \/ ~lost /\ ~adopt /\ UNCHANGED <<mem, handle>>
        /\ s = Normalize(mem'[p])
        /\ UNCHANGED <<fixedVars, up>>

StatusCall(p, s) ==
    \/ RememberedStatus(p, s)
    \/ ProbedStatus(p, s)
    \/ WireGuardStatus(p, s)
    \/ FortiClientStatus(p, s)
----------------------------------------------------------------------------
(* Connect(ctx, cfg) *)

\* All adapters begin with this, but GlobalProtect looks for its binary first.
Refuses(p) == mem[p] \in {"connected", "connecting"}

ConnectRefused(p) ==
    /\ Refuses(p)
    /\ ~(kind[p] = "globalprotect" /\ platform = "linux")
    /\ UNCHANGED adapterVars

\* The client's answers that count as "connected".  AnyConnect's, and the text
\* that ProtonVPN prints without --json, are searched for that word, which is
\* part of "Disconnected" too.
Exactly       == {"connected"}
CiscoAccepts  == {"connected", "disconnected"}
ProtonAccepts == {"connected", "disconnected"}

\* Connect waits until the client's answer convinces it.
Convinced(p, accepted, h) ==
    /\ ~Refuses(p)
    /\ Remember(p, "connected") /\ Hold(p, h)
    /\ \E b \in BOOLEAN : Reports(b) \cap accepted # {} /\ Bring(p, b)
    /\ UNCHANGED fixedVars

GivesUp(p, s) ==
    /\ ~Refuses(p)
    /\ Remember(p, s)
    /\ UNCHANGED <<fixedVars, handle, up>>

\* A process that did not start, or did not open its management port, leaves
\* a.proc as it was; one whose tunnel did not come up is stopped and forgotten.
StartFails(p) == GivesUp(p, "error")

WaitFails(p) ==
    /\ ~Refuses(p)
    /\ Remember(p, "error") /\ Hold(p, "none")
    /\ UNCHANGED <<fixedVars, up>>

OpenVPNConnect(p, ok) ==
    /\ kind[p] = "openvpn"
    /\ \/ ok /\ Convinced(p, Exactly, "held")
       \/ ~ok /\ (StartFails(p) \/ WaitFails(p))

CiscoConnect(p, ok) ==
    /\ kind[p] = "ciscoanyconnect"
    /\ \/ ok /\ Convinced(p, CiscoAccepts, "none")
       \/ ~ok /\ GivesUp(p, "error")

ProtonConnect(p, ok) ==
    /\ kind[p] = "protonvpn"
    /\ \/ ok /\ Convinced(p, ProtonAccepts, "none")
       \/ ~ok /\ GivesUp(p, "error")

\* There is no Linux client; without a portal's name Connect returns untouched.
GlobalProtectConnect(p, ok) ==
    /\ kind[p] = "globalprotect"
    /\ \/ /\ platform = "linux" /\ ~ok
          /\ Remember(p, "error")
          /\ UNCHANGED <<fixedVars, handle, up>>
       \/ /\ platform # "linux"
          /\ \/ ok /\ Convinced(p, Exactly, "none")
             \/ ~ok /\ GivesUp(p, "error")
             \/ ~ok /\ UNCHANGED adapterVars

\* Mutant: when the context ends the status is not reset.
WarpConnectPending(p, ok) ==
    /\ kind[p] = "cloudflarewarp"
    /\ \/ ok /\ Convinced(p, Exactly, "none")
       \/ ~ok /\ GivesUp(p, "connecting")

WarpConnect(p, ok) ==
    /\ kind[p] = "cloudflarewarp"
    /\ \/ ok /\ Convinced(p, Exactly, "none")
       \/ ~ok /\ GivesUp(p, "error")

TailscaleConnect(p, ok) ==
    /\ kind[p] = "tailscale"
    /\ \/ ok /\ Convinced(p, Exactly, "none")
       \/ ~ok /\ GivesUp(p, "error")

WireGuardConnect(p, ok) ==
    /\ kind[p] = "wireguard"
    /\ \/ ok /\ Convinced(p, Exactly, "none")
       \/ ~ok /\ GivesUp(p, "error")

\* FortiClient gives up in one of three places: the CLI or the GUI fails, the
\* tunnel does not come up, or the context ends during the first probe, which
\* returns without resetting the status.
FortiClientConnect(p, ok) ==
    /\ kind[p] = "forticlient"
    /\ \/ ok /\ Convinced(p, Exactly, "held")
       \/ ~ok /\ \E s \in {"error", "disconnected", "connecting"} : GivesUp(p, s)

ConnectCall(p, ok) ==
    \/ ~ok /\ ConnectRefused(p)
    \/ OpenVPNConnect(p, ok) \/ CiscoConnect(p, ok) \/ ProtonConnect(p, ok)
    \/ GlobalProtectConnect(p, ok) \/ WarpConnect(p, ok) \/ TailscaleConnect(p, ok)
    \/ WireGuardConnect(p, ok) \/ FortiClientConnect(p, ok)
----------------------------------------------------------------------------
(* Disconnect(ctx) *)

\* The process is told to exit, killed after ten seconds, and waited for: stop
\* fails when it ends with an error, and ever after, because Wait was called.
ProcessStops(p, ok) ==
    \/ /\ handle[p] = "held" /\ Bring(p, FALSE)
       /\ Hold(p, IF ok THEN "none" ELSE "reaped")
    \/ handle[p] = "reaped" /\ ~ok /\ UNCHANGED <<handle, up>>

\* Without a process there is nothing to stop.
OpenVPNDisconnect(p, ok) ==
    /\ kind[p] = "openvpn"
    /\ \/ handle[p] = "none" /\ ok /\ UNCHANGED <<handle, up>>
       \/ ProcessStops(p, ok)
    /\ Remember(p, IF ok THEN "disconnected" ELSE "error")
    /\ UNCHANGED fixedVars

\* The vendor's command works or fails; GlobalProtect has none on Linux.
CommandedDisconnect(p, ok) ==
    /\ kind[p] \notin Holding
    /\ \/ /\ ok /\ ~(kind[p] = "globalprotect" /\ platform = "linux")
          /\ Remember(p, "disconnected") /\ Bring(p, FALSE)
       \/ ~ok /\ Remember(p, "error") /\ UNCHANGED up
    /\ UNCHANGED <<fixedVars, handle>>

\* Failures of the GUI and of the CLI are ignored.  A tunnel whose interface is
\* known is waited for and in the end disabled, one that is not may stay up.
FortiClientDisconnect(p, ok) ==
    /\ kind[p] = "forticlient"
    /\ \/ /\ ok /\ Remember(p, "disconnected") /\ Hold(p, "none")
          /\ Bring(p, FALSE) \/ (handle[p] = "none" /\ UNCHANGED up)
       \/ /\ ~ok /\ handle[p] = "held" /\ up[p]
          /\ Remember(p, "error") /\ UNCHANGED <<handle, up>>
    /\ UNCHANGED fixedVars

DisconnectCall(p, ok) ==
    OpenVPNDisconnect(p, ok) \/ CommandedDisconnect(p, ok) \/ FortiClientDisconnect(p, ok)

\* TunnelInfo() is not nil; OpenVPN asks its process instead of its status.
HasTunnelInfo(p) == IF kind[p] = "openvpn" THEN handle[p] = "held"
                                           ELSE mem[p] = "connected"
----------------------------------------------------------------------------
(* The network, and the user of the vendor's own client. *)

TunnelDrops(p) == up[p] /\ Bring(p, FALSE) /\ UNCHANGED <<fixedVars, mem, handle>>

TunnelAppears(p) == ~up[p] /\ Bring(p, TRUE) /\ UNCHANGED <<fixedVars, mem, handle>>

Environment == \E p \in Profiles : TunnelDrops(p) \/ TunnelAppears(p)
=============================================================================
