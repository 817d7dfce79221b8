------------------------------ MODULE Watchdog ------------------------------
(***************************************************************************)
(* The watchdog: one goroutine per profile that was ever connected polls   *)
(* its adapter, reconnects it after a backoff when it went down and nobody *)
(* asked for that, and fails over to another profile when the reconnect or *)
(* a health probe fails.  A reconnect is a ProfileService.Connect call of  *)
(* the watcher's own goroutine, interleaved with everybody else's calls.   *)
(***************************************************************************)
EXTENDS ProfileService

CONSTANTS
    Priority,         \* profile priorities; 0 takes no part in failover
    MaxRequests,      \* bound on the requests of a behaviour; 0: no bound
    MaxChanges        \* bound on tunnels changing by themselves; 0: no bound

VARIABLES
    cancelled,        \* the context the watchers were started with is done
    cooling,          \* sources whose last failover is under 30s old
    scan,             \* failover candidates a watcher has still to look at
    requests, changes \* history: how many there were, as far as they are bounded

counts == <<requests, changes>>
vars == <<adapterVars, watchdogVars, callVars, serviceVars, cancelled, cooling, scan, counts>>

\* Priorities are the natural numbers of the configuration; so are the bounds.
ASSUME PriorityAssumption == /\ Priority \in [Profiles -> Nat]
                             /\ MaxRequests \in Nat /\ MaxChanges \in Nat

\* ConfigureFailover's order, as the set of candidates that may be looked at
\* next among those left: lower numbers first, equal numbers in either order.
FailoverTargets(p) ==
    IF Priority[p] = 0 THEN {} ELSE {q \in Profiles \ {p} : Priority[q] > 0}

Preferred(qs) == {q \in qs : \A r \in qs : Priority[q] <= Priority[r]}

TypeOK ==
    /\ AdaptersTypeOK
    /\ intended \subseteq Profiles /\ active \subseteq Profiles
    /\ phase \in Phases /\ cancelled \in BOOLEAN
    /\ spawned \in [Profiles -> Nat] /\ watch \in [Profiles -> WatchSteps]
    /\ overruns \in [Profiles -> Nat]
    /\ at \in [Goroutines -> ConnectSteps \cup DisconnectSteps \cup Resting]
    /\ on \in [Goroutines -> Profiles \cup {NoProfile}]
    /\ guarded \subseteq Profiles /\ registered \subseteq Profiles
    /\ cooling \subseteq Profiles /\ scan \in [Profiles -> SUBSET Profiles]
    /\ requests \in Nat /\ changes \in Nat

Init ==
    /\ AdaptersInit
    /\ intended = {} /\ active = {} /\ phase = "new" /\ cancelled = FALSE
    /\ spawned = [p \in Profiles |-> 0]
    /\ watch = [p \in Profiles |-> "none"]
    /\ overruns = [p \in Profiles |-> 0]
    /\ at = [g \in Goroutines |-> "idle"]
    /\ on = [g \in Goroutines |-> NoProfile]
    /\ guarded = {} /\ registered = {} /\ cooling = {}
    /\ scan = [p \in Profiles |-> {}]
    /\ requests = 0 /\ changes = 0
----------------------------------------------------------------------------
(* Start, the end of the context, and Stop *)

Start ==
    /\ phase = "new"
    /\ phase' = "running"
    /\ spawned' = [p \in Profiles |-> IF p \in active THEN spawned[p] + 1 ELSE spawned[p]]
    /\ watch' = [p \in Profiles |-> IF p \in active THEN "poll" ELSE watch[p]]
    /\ UNCHANGED <<adapterVars, intended, active, overruns, callVars, serviceVars,
                   cancelled, cooling, scan, counts>>

\* SIGTERM, Ctrl+C or POST /shutdown: watchers may leave before Stop is called.
Cancel ==
    /\ phase = "running" /\ ~cancelled
    /\ cancelled' = TRUE
    /\ UNCHANGED <<adapterVars, watchdogVars, callVars, serviceVars, cooling, scan, counts>>

\* Mutant: Stop waits without calling cancel.
StopWithoutCancel ==
    /\ phase = "running"
    /\ phase' = "stopping"
    /\ UNCHANGED <<adapterVars, intended, active, spawned, watch, overruns, callVars,
                   serviceVars, cancelled, cooling, scan, counts>>

Stop ==
    /\ phase = "running"
    /\ phase' = "stopping" /\ cancelled' = TRUE
    /\ UNCHANGED <<adapterVars, intended, active, spawned, watch, overruns, callVars,
                   serviceVars, cooling, scan, counts>>

\* wg.Wait() returns.
Stopped ==
    /\ phase = "stopping" /\ \A p \in Profiles : spawned[p] = 0
    /\ phase' = "stopped"
    /\ UNCHANGED <<adapterVars, intended, active, spawned, watch, overruns, callVars,
                   serviceVars, cancelled, cooling, scan, counts>>
----------------------------------------------------------------------------
(* watch *)

Move(p, step) ==
    /\ watch' = [watch EXCEPT ![p] = step]
    /\ UNCHANGED <<intended, active, phase, spawned>>

\* A tick: the adapter is asked, and a healthy or unprobed tunnel left alone.
\* An unhealthy one stays up while its watcher fails over.
Poll(p) ==
    /\ watch[p] = "poll"
    /\ \E s \in Statuses :
          /\ StatusCall(p, s)
          /\ \/ s \in {"connected", "connecting"} /\ Move(p, "poll")
             \/ s = "connected" /\ Move(p, "failover")
             \/ s \in {"disconnected", "error"} /\ Move(p, "decide")
    /\ UNCHANGED <<overruns, callVars, serviceVars, cancelled, cooling, scan, counts>>

\* Mutant: watch does not read w.intended.
DecideBlindly(p) ==
    /\ watch[p] = "decide"
    /\ Move(p, "backoff")
    /\ UNCHANGED <<adapterVars, overruns, callVars, serviceVars, cancelled, cooling, scan,
                   counts>>

Decide(p) ==
    /\ watch[p] = "decide"
    /\ Move(p, IF p \in intended THEN "poll" ELSE "backoff")
    /\ UNCHANGED <<adapterVars, overruns, callVars, serviceVars, cancelled, cooling, scan,
                   counts>>

\* The backoff timer fires and w.connect is called: `intended` is not read again.
Wake(p) ==
    /\ watch[p] = "backoff"
    /\ Move(p, "reconnect")
    /\ overruns' = [overruns EXCEPT ![p] = IF p \in intended THEN @ + 1 ELSE @]
    /\ Begin(p, p, "check")
    /\ UNCHANGED <<adapterVars, serviceVars, cancelled, cooling, scan, counts>>

Reconnected(p) ==
    /\ watch[p] = "reconnect" /\ at[p] \in {"succeeded", "failed"}
    /\ Move(p, IF at[p] = "succeeded" THEN "poll" ELSE "failover")
    /\ Goto(p, "idle")
    /\ UNCHANGED <<adapterVars, overruns, serviceVars, cancelled, cooling, scan, counts>>

\* select may take either ready case, so the watcher leaves when the runtime
\* happens to pick ctx.Done() over the ticker, or the timer.
Leave(p) ==
    /\ cancelled /\ watch[p] \in {"poll", "backoff"}
    /\ watch' = [watch EXCEPT ![p] = "none"]
    /\ spawned' = [spawned EXCEPT ![p] = @ - 1]
    /\ UNCHANGED <<adapterVars, intended, active, phase, overruns, callVars, serviceVars,
                   cancelled, cooling, scan, counts>>
----------------------------------------------------------------------------
(* tryFailover *)

\* The candidates are copied, unless a failover of this source is recent.
ConsiderFailover(p) ==
    /\ watch[p] = "failover" /\ scan[p] = {}
    /\ IF p \in cooling \/ FailoverTargets(p) = {}
       THEN Move(p, "poll") /\ UNCHANGED scan
       ELSE Move(p, "failover") /\ scan' = [scan EXCEPT ![p] = FailoverTargets(p)]
    /\ UNCHANGED <<adapterVars, overruns, callVars, serviceVars, cancelled, cooling, counts>>

\* The next candidate is asked for its status: up or coming up, it is passed
\* over; otherwise it becomes the target, whoever took it down.
ScanCandidate(p, q) ==
    /\ watch[p] = "failover" /\ q \in Preferred(scan[p])
    /\ \E s \in Statuses :
          /\ StatusCall(q, s)
          /\ IF s \in {"connected", "connecting"}
             THEN /\ Move(p, IF scan[p] = {q} THEN "poll" ELSE "failover")
                  /\ scan' = [scan EXCEPT ![p] = @ \ {q}]
                  /\ UNCHANGED <<callVars, cooling>>
             ELSE /\ Move(p, "takeover")
                  /\ scan' = [scan EXCEPT ![p] = {q}]
                  /\ cooling' = cooling \cup {p}
                  /\ Begin(p, q, "check")
    /\ UNCHANGED <<overruns, serviceVars, cancelled, counts>>

\* The target is connected, and marked active a second time.
TakenOver(p) ==
    /\ watch[p] = "takeover" /\ at[p] \in {"succeeded", "failed"}
    /\ Goto(p, "idle")
    /\ \/ at[p] = "succeeded" /\ Move(p, "adopt") /\ UNCHANGED scan
       \/ at[p] = "failed" /\ Move(p, "poll") /\ scan' = [scan EXCEPT ![p] = {}]
    /\ UNCHANGED <<adapterVars, overruns, serviceVars, cancelled, cooling, counts>>

Adopt(p) ==
    /\ watch[p] = "adopt"
    /\ \E q \in scan[p] :
          /\ intended' = intended \ {q}
          /\ overruns' = [overruns EXCEPT ![q] = 0]
          /\ active' = active \cup {q}
          /\ spawned' = [spawned EXCEPT ![q] = IF Spawns(q) THEN @ + 1 ELSE @]
          /\ watch' = [watch EXCEPT ![p] = "poll", ![q] = IF Spawns(q) THEN "poll" ELSE @]
    /\ scan' = [scan EXCEPT ![p] = {}]
    /\ UNCHANGED <<adapterVars, phase, callVars, serviceVars, cancelled, cooling, counts>>

\* Thirty seconds have passed since the source's last failover.
CoolDown(p) ==
    /\ p \in cooling
    /\ cooling' = cooling \ {p}
    /\ UNCHANGED <<adapterVars, watchdogVars, callVars, serviceVars, cancelled, scan, counts>>
----------------------------------------------------------------------------
Rest == UNCHANGED <<cancelled, cooling, scan>>

\* Counted only up to the bound, if there is one.
Within(count, max) == IF max = 0 THEN count' = count ELSE count < max /\ count' = count + 1

Call(g) == CallStep(g) /\ Rest /\ UNCHANGED counts

Request(r) ==
    /\ \E p \in Profiles : RequestConnect(r, p) \/ RequestDisconnect(r, p)
    /\ Within(requests, MaxRequests) /\ UNCHANGED changes
    /\ Rest

Tunnels ==
    /\ Environment
    /\ Within(changes, MaxChanges) /\ UNCHANGED requests
    /\ UNCHANGED <<watchdogVars, callVars, serviceVars>> /\ Rest

Failover(p) ==
    \/ ConsiderFailover(p) \/ TakenOver(p) \/ Adopt(p)
    \/ \E q \in Profiles : ScanCandidate(p, q)

Watch(p) ==
    \/ Poll(p) \/ Decide(p) \/ Wake(p) \/ Reconnected(p) \/ Leave(p) \/ Failover(p)

Next ==
    \/ Start \/ Cancel \/ Stop \/ Stopped \/ Tunnels
    \/ \E g \in Goroutines : Call(g)
    \/ \E r \in Requests : Request(r)
    \/ \E p \in Profiles : Watch(p) \/ CoolDown(p)

Spec == Init /\ [][Next]_vars

\* Every call of an adapter returns: none runs commands without a timeout.
CallsReturn == \A p \in Profiles : kind[p] \in Bounded

\* Goroutines are scheduled, the ticker and the backoff timer fire, and Stop's
\* Wait ends.  Whoever asks an adapter goes on if its commands are bounded: all
\* of them have to be, as a watcher asks those it might fail over to.  select
\* chooses at random among its ready cases, so a watcher that keeps coming back
\* to a select with ctx.Done() ready leaves in the end.
Fairness ==
    /\ \A g \in Goroutines : WF_vars(CallsReturn /\ Call(g))
    /\ \A p \in Profiles : /\ WF_vars(CallsReturn /\ Watch(p))
                           /\ SF_vars(CallsReturn /\ Leave(p))
    /\ WF_vars(Stopped)

FairSpec == Spec /\ Fairness
----------------------------------------------------------------------------
(* Properties *)

\* No profile ever has two watchers racing to reconnect it, and while the
\* watchdog runs every profile that was connected has one: MarkActive (called
\* by any goroutine, twice by a failover) and Start never spawn a second one.
OneWatcher ==
    /\ \A p \in Profiles : spawned[p] <= 1
    /\ \A p \in active : phase = "running" /\ ~cancelled => spawned[p] = 1

\* When Stop has returned no watcher is left, and a Connect still in flight in
\* some request goroutine brings none to life.
StoppedMeansNoWatcher == phase = "stopped" => \A p \in Profiles : spawned[p] = 0

\* After MarkIntended a profile's own watcher overruns the user at most once:
\* with the reconnect whose backoff was already running.
AtMostOneOverrun == \A p \in Profiles : overruns[p] <= 1

\* MarkIntended's contract ("call this BEFORE calling Disconnect so the watchdog
\* does not immediately attempt to reconnect"): no watcher begins to connect a
\* profile whose disconnect the user asked for.
IntendedIsLeftAlone ==
    [][\A p, q \in Profiles :
          on[p] # q /\ on'[p] = q => q \notin intended]_vars

\* A tunnel that drops behind a profile's back is dialled again, unless it came
\* back, the user asked for the disconnect or the watchdog is going down.  Only
\* WireGuard's Status() both sees the drop and lets the adapter dial again; a
\* command of another adapter that hangs may hold up its watcher too.
DropIsRetried ==
    \A p \in Profiles :
        kind[p] = "wireguard" /\ CallsReturn /\ phase = "running" /\ p \in active /\ ~up[p] ~>
            up[p] \/ p \in intended \/ cancelled \/ on[p] = p

\* Stop returns, whatever the watchers are doing when the context ends, unless a
\* command without a timeout may hold one of them: wg.Wait() ends.
StopReturns == phase = "stopping" /\ CallsReturn ~> phase = "stopped"
=============================================================================
