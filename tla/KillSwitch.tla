----------------------------- MODULE KillSwitch -----------------------------
(***************************************************************************)
(* KillSwitchService.Apply (internal/app/killswitch_service.go), the last  *)
(* step of every ProfileService call, over the iptables kill switch        *)
(* (internal/security/killswitch_linux.go).  Apply holds no lock: it asks  *)
(* one adapter after the other, then calls Enable or Disable, which do     *)
(* hold the switch's mutex while they run one iptables command after the   *)
(* other.  Only connects and disconnects end in an Apply; a tunnel that    *)
(* drops does not.                                                         *)
(***************************************************************************)
EXTENDS Sequences, FiniteSets, Integers

CONSTANTS
    Profiles,
    Protected,    \* profiles the kill switch is configured for
    Named,        \* profiles whose adapter reports its interface's name
    Requests,     \* goroutines that connect and disconnect profiles
    Nobody,
    Faults,       \* {"iptables"}: commands may fail
    MaxRules      \* flushing fails only while the chain is shorter than this

\* Only profiles are protected, no interface is called "drop", and no goroutine
\* is called Nobody.
ASSUME KillSwitchAssumption == /\ Protected \cup Named \subseteq Profiles
                               /\ "drop" \notin Named
                               /\ Nobody \notin Requests
                               /\ Faults \subseteq {"iptables"}
                               /\ MaxRules \in Nat

VARIABLES
    connected,    \* profiles whose Status() is connected
    at,           \* per goroutine: where its call stands
    todo, found,  \* per goroutine: adapters to ask, protected ones connected
    allow,        \* per goroutine: interfaces it lets through
    holder,       \* who holds linuxKillSwitch.mu
    chain,        \* the OUTPUT chain: sets of interfaces accepted, and Drop
    enabled,      \* linuxKillSwitch.enabled
    failed,       \* history: a command of the last Enable or Disable failed
    steady        \* history: profiles connected ever since an Apply began

scanVars     == <<todo, found, allow, steady>>
firewallVars == <<holder, chain, enabled, failed>>
vars == <<connected, at, scanVars, firewallVars>>

Steps == {"idle", "scan", "disable", "resolve", "enable", "accept", "drop"}

\* A rule accepts the interfaces of a set; Drop, the last one, takes the rest.
Drop == {"drop"}

TypeOK ==
    /\ connected \subseteq Profiles
    /\ at \in [Requests -> Steps]
    /\ \A v \in {todo, found, allow, steady} : v \in [Requests -> SUBSET Profiles]
    /\ holder \in Requests \cup {Nobody}
    /\ chain \in Seq({Drop} \cup SUBSET Named)
    /\ enabled \in BOOLEAN /\ failed \in BOOLEAN

Init ==
    /\ connected = {}
    /\ at = [r \in Requests |-> "idle"]
    /\ todo = [r \in Requests |-> {}] /\ found = todo
    /\ allow = todo /\ steady = todo
    /\ holder = Nobody /\ chain = <<>>
    /\ enabled = FALSE /\ failed = FALSE
----------------------------------------------------------------------------
(* What the callers of Apply have just done. *)

\* The profiles that were connected throughout a goroutine's Apply.
Track(now) == steady' = [r \in Requests |-> steady[r] \cap now]

BeginApply(r, now) ==
    /\ at[r] = "idle"
    /\ at' = [at EXCEPT ![r] = "scan"]
    /\ todo' = [todo EXCEPT ![r] = Protected]
    /\ found' = [found EXCEPT ![r] = {}]
    /\ allow' = [allow EXCEPT ![r] = {}]
    /\ steady' = [s \in Requests |-> IF s = r THEN now ELSE steady[s] \cap now]
    /\ connected' = now
    /\ UNCHANGED firewallVars

Connect(r, p) == BeginApply(r, connected \cup {p})

Disconnect(r, p) == BeginApply(r, connected \ {p})

\* Nothing reacts to a tunnel that drops, until some call ends in an Apply.
TunnelDrops(p) ==
    /\ p \in connected
    /\ connected' = connected \ {p}
    /\ Track(connected')
    /\ UNCHANGED <<at, todo, found, allow, firewallVars>>
----------------------------------------------------------------------------
(* KillSwitchService.Apply *)

Goto(r, step) == at' = [at EXCEPT ![r] = step]

\* Mutant: the last adapter asked decides.
AskLast(r, p) ==
    /\ at[r] = "scan" /\ p \in todo[r]
    /\ todo' = [todo EXCEPT ![r] = @ \ {p}]
    /\ found' = [found EXCEPT ![r] = {p} \cap connected]
    /\ UNCHANGED <<connected, at, allow, steady, firewallVars>>

\* The adapters are asked for their status one by one, in any order.
Ask(r, p) ==
    /\ at[r] = "scan" /\ p \in todo[r]
    /\ todo' = [todo EXCEPT ![r] = @ \ {p}]
    /\ found' = [found EXCEPT ![r] = @ \cup ({p} \cap connected)]
    /\ UNCHANGED <<connected, at, allow, steady, firewallVars>>

Asked(r) ==
    /\ at[r] = "scan" /\ todo[r] = {}
    /\ Goto(r, IF found[r] = {} THEN "disable" ELSE "resolve")
    /\ todo' = [todo EXCEPT ![r] = found[r]]
    /\ UNCHANGED <<connected, found, allow, steady, firewallVars>>

\* TunnelInfo is empty for a tunnel that is gone, and names no interface for
\* most adapters.
Resolve(r, p) ==
    /\ at[r] = "resolve" /\ p \in todo[r]
    /\ todo' = [todo EXCEPT ![r] = @ \ {p}]
    /\ allow' = [allow EXCEPT ![r] = @ \cup ({p} \cap Named \cap connected)]
    /\ UNCHANGED <<connected, at, found, steady, firewallVars>>

\* Mutant: the switch is enabled with no interface to let through.
ResolvedAnyway(r) ==
    /\ at[r] = "resolve" /\ todo[r] = {}
    /\ Goto(r, "enable")
    /\ UNCHANGED <<connected, scanVars, firewallVars>>

\* Without an interface to let through, the switch stays as it is.
Resolved(r) ==
    /\ at[r] = "resolve" /\ todo[r] = {}
    /\ Goto(r, IF allow[r] = {} THEN "idle" ELSE "enable")
    /\ UNCHANGED <<connected, scanVars, firewallVars>>
----------------------------------------------------------------------------
(* linuxKillSwitch.Enable and Disable *)

\* A command succeeds, or fails before or after it changed the chain.
Runs(new) == chain' = new

FailsToRun(new) == "iptables" \in Faults /\ chain' \in {chain, new}

Unlock(r, err) ==
    /\ Goto(r, "idle")
    /\ holder' = Nobody
    /\ failed' = err

\* Mutant: the switch counts as enabled after its rules are gone.
DisableUnnoticed(r) ==
    /\ at[r] = "disable" /\ holder = Nobody
    /\ Runs(<<>>) /\ Unlock(r, FALSE)
    /\ UNCHANGED <<connected, scanVars, enabled>>

\* One command; the switch counts as disabled whether it worked or not.
Disable(r) ==
    /\ at[r] = "disable" /\ holder = Nobody
    /\ enabled' = FALSE
    /\ \/ Runs(<<>>) /\ Unlock(r, FALSE)
       \/ FailsToRun(<<>>) /\ Len(chain) < MaxRules /\ Unlock(r, TRUE)
    /\ UNCHANGED <<connected, scanVars>>

\* Enable takes the mutex and flushes the chain; a failure is not looked at.
Flush(r) ==
    /\ at[r] = "enable" /\ holder = Nobody
    /\ holder' = r /\ Goto(r, "accept")
    /\ \/ Runs(<<>>)
       \/ FailsToRun(<<>>) /\ Len(chain) < MaxRules
    /\ UNCHANGED <<connected, scanVars, enabled, failed>>

\* Loopback, established connections and the tunnels: the first command that
\* fails ends Enable.  (Endpoints and LAN ranges, whose errors are ignored,
\* concern no tunnel.)
Accept(r) ==
    /\ at[r] = "accept"
    /\ \/ Runs(Append(chain, allow[r])) /\ Goto(r, "drop") /\ UNCHANGED <<holder, failed>>
       \/ /\ \E part \in SUBSET allow[r] : FailsToRun(Append(chain, part))
          /\ Unlock(r, TRUE)
    /\ UNCHANGED <<connected, scanVars, enabled>>

DropRest(r) ==
    /\ at[r] = "drop"
    /\ \/ Runs(Append(chain, Drop)) /\ enabled' = TRUE /\ Unlock(r, FALSE)
       \/ FailsToRun(Append(chain, Drop)) /\ UNCHANGED enabled /\ Unlock(r, TRUE)
    /\ UNCHANGED <<connected, scanVars>>

Next ==
    \/ \E p \in Profiles : TunnelDrops(p)
    \/ \E r \in Requests, p \in Profiles :
          Connect(r, p) \/ Disconnect(r, p) \/ Ask(r, p) \/ Resolve(r, p)
    \/ \E r \in Requests :
          \/ Asked(r) \/ Resolved(r)
          \/ Disable(r) \/ Flush(r) \/ Accept(r) \/ DropRest(r)

Spec == Init /\ [][Next]_vars
----------------------------------------------------------------------------
(* Properties *)

Dropping == \E i \in DOMAIN chain : chain[i] = Drop

\* Between calls IsEnabled tells whether traffic is being dropped, unless a
\* command of the last Enable or Disable failed; the next call that succeeds
\* puts it right, whatever the failed one left in the chain.
EnabledTellsTheTruth == holder = Nobody /\ ~failed => (enabled <=> Dropping)

\* However the reads of several Apply calls interleave with connects, drops and
\* each other, an Apply never disables the switch over a protected tunnel that
\* was up all along, nor enables it without letting that tunnel through.
SteadyTunnelsCount ==
    \A r \in Requests :
        /\ at[r] = "disable" => steady[r] \cap Protected = {}
        /\ at[r] \in {"enable", "accept", "drop"} =>
              steady[r] \cap Protected \cap Named \subseteq allow[r]

\* A failed Enable, or several in a row, never cut the machine off: the first
\* rule that drops traffic comes right after one that lets a tunnel through.
NeverCutOff ==
    \A i \in DOMAIN chain :
        chain[i] = Drop /\ (\A j \in 1 .. i - 1 : chain[j] # Drop) =>
            i > 1 /\ chain[i - 1] # {}
=============================================================================
