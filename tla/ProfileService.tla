--------------------------- MODULE ProfileService ---------------------------
(***************************************************************************)
(* ProfileService.Connect and ProfileService.Disconnect, run concurrently  *)
(* by the request goroutines (the `up` loop, API handlers, the scheduler)  *)
(* and by the watchdog's watchers.  No lock spans a call: between any two  *)
(* of its steps the adapter's mutex, the watchdog's mutex, the DNS         *)
(* manager's mutex and the resolver's mutex are all free.  The last step   *)
(* of both calls, applyKill, only reads adapters; module KillSwitch has    *)
(* what it does.                                                           *)
(***************************************************************************)
EXTENDS VpnAdapters, Integers

CONSTANTS
    Requests,    \* goroutines that serve a user, the scheduler or `up`
    NoProfile    \* what an idle goroutine works on

VARIABLES
    intended,    \* Watchdog.intended: disconnects the user asked for
    active,      \* Watchdog.active: profiles that were once connected
    phase,       \* Watchdog.ctx: nil and not started, set, nil and stopped
    spawned,     \* watcher goroutines running per profile
    watch,       \* where the watcher of a profile stands
    overruns,    \* reconnects begun since the user asked to disconnect
    at, on,      \* per goroutine: next step of its call, and its profile
    guarded,     \* DNSManager.active
    registered   \* PolicyResolver.profiles

watchdogVars == <<intended, active, phase, spawned, watch, overruns>>
callVars     == <<at, on>>
serviceVars  == <<guarded, registered>>

\* The goroutine of a profile's watcher goes by the name of the profile.
Goroutines == Requests \cup Profiles

\* The three kinds of names are told apart; an idle goroutine has no profile.
ASSUME NamesAssumption == /\ Requests \cap Profiles = {}
                          /\ NoProfile \notin Profiles

ConnectSteps    == {"check", "dial", "mark", "attach", "guard"}
DisconnectSteps == {"intend", "hangup", "release"}
Resting         == {"idle", "succeeded", "failed"}

Phases     == {"new", "running", "stopping", "stopped"}
WatchSteps == {"none", "poll", "decide", "backoff", "reconnect",
               "failover", "takeover", "adopt"}
----------------------------------------------------------------------------
(* Watchdog.MarkIntended and Watchdog.MarkActive, each under the mutex. *)

MarkIntended(p) ==
    /\ intended' = intended \cup {p}
    /\ overruns' = [overruns EXCEPT ![p] = 0]
    /\ UNCHANGED <<active, phase, spawned, watch>>

\* Mutants: MarkActive forgets alreadyActive; Stop forgets to clear w.ctx.
SpawnsAgain(p)     == phase = "running"
SpawnsAfterStop(p) == p \notin active /\ phase # "new"

\* A watcher is spawned for a profile that becomes active, when the watchdog
\* has a context to give it.
Spawns(p) == p \notin active /\ phase = "running"

MarkActive(p) ==
    /\ intended' = intended \ {p}
    /\ overruns' = [overruns EXCEPT ![p] = 0]
    /\ active' = active \cup {p}
    /\ spawned' = [spawned EXCEPT ![p] = IF Spawns(p) THEN @ + 1 ELSE @]
    /\ watch' = [watch EXCEPT ![p] = IF Spawns(p) THEN "poll" ELSE @]
    /\ UNCHANGED phase
----------------------------------------------------------------------------
(* Calls *)

Begin(g, p, step) ==
    /\ at[g] \in Resting
    /\ at' = [at EXCEPT ![g] = step]
    /\ on' = [on EXCEPT ![g] = p]

Goto(g, step) ==
    /\ at' = [at EXCEPT ![g] = step]
    /\ UNCHANGED on

\* A request's result goes to a client; a watcher acts on its own.
Return(g, result) ==
    /\ at' = [at EXCEPT ![g] = IF g \in Requests THEN "idle" ELSE result]
    /\ on' = [on EXCEPT ![g] = NoProfile]

\* Missing files or credentials end the call before the adapter is asked.
Preflight(g) ==
    /\ at[g] = "check"
    /\ Return(g, "failed")
    /\ UNCHANGED <<adapterVars, watchdogVars, serviceVars>>

CheckStatus(g) ==
    /\ at[g] = "check"
    /\ \E s \in Statuses :
          /\ StatusCall(on[g], s)
          /\ Goto(g, IF s = "connected" THEN "mark" ELSE "dial")
    /\ UNCHANGED <<watchdogVars, serviceVars>>

Dial(g) ==
    /\ at[g] = "dial"
    /\ \/ ConnectCall(on[g], TRUE) /\ Goto(g, "mark")
       \/ ConnectCall(on[g], FALSE) /\ Return(g, "failed")
    /\ UNCHANGED <<watchdogVars, serviceVars>>

Mark(g) ==
    /\ at[g] = "mark"
    /\ MarkActive(on[g])
    /\ Goto(g, "attach")
    /\ UNCHANGED <<adapterVars, serviceVars>>

\* The adapter is asked for TunnelInfo, which may be empty by now; there may be
\* no DNS server to guard, or nothing to route by policy.
Attach(g) ==
    /\ at[g] = "attach"
    /\ \/ /\ kind[on[g]] # "wireguard" /\ HasTunnelInfo(on[g])
          /\ Goto(g, "guard")
          /\ UNCHANGED registered
       \/ /\ kind[on[g]] = "wireguard"
          /\ registered' = registered \cup {on[g]}
          /\ Return(g, "succeeded")
       \/ UNCHANGED registered /\ Return(g, "succeeded")
    /\ UNCHANGED <<adapterVars, watchdogVars, guarded>>

\* OnConnect, with what the adapter has answered, whatever is true by now.
Guard(g) ==
    /\ at[g] = "guard"
    /\ guarded' = guarded \cup {on[g]}
    /\ Return(g, "succeeded")
    /\ UNCHANGED <<adapterVars, watchdogVars, registered>>

\* Two mutexes in turn; nothing tells the two writes apart.
Intend(g) ==
    /\ at[g] = "intend"
    /\ MarkIntended(on[g])
    /\ registered' = registered \ {on[g]}
    /\ Goto(g, "hangup")
    /\ UNCHANGED <<adapterVars, guarded>>

\* An adapter's error ends the call with the profile still marked intended.
HangUp(g) ==
    /\ at[g] = "hangup"
    /\ \/ DisconnectCall(on[g], TRUE) /\ Goto(g, "release")
       \/ DisconnectCall(on[g], FALSE) /\ Return(g, "failed")
    /\ UNCHANGED <<watchdogVars, serviceVars>>

Release(g) ==
    /\ at[g] = "release"
    /\ guarded' = guarded \ {on[g]}
    /\ Return(g, "succeeded")
    /\ UNCHANGED <<adapterVars, watchdogVars, registered>>

CallStep(g) ==
    \/ Preflight(g) \/ CheckStatus(g) \/ Dial(g) \/ Mark(g) \/ Attach(g) \/ Guard(g)
    \/ Intend(g) \/ HangUp(g) \/ Release(g)

\* Before the watchdog starts only the `up` loop connects; the API server and
\* the scheduler take no new request once the process is going down.
RequestConnect(r, p) ==
    /\ phase \in {"new", "running"}
    /\ Begin(r, p, "check")
    /\ UNCHANGED <<adapterVars, watchdogVars, serviceVars>>

RequestDisconnect(r, p) ==
    /\ phase = "running"
    /\ Begin(r, p, "intend")
    /\ UNCHANGED <<adapterVars, watchdogVars, serviceVars>>
=============================================================================
