----------------------------- MODULE ControlAPI -----------------------------
(***************************************************************************)
(* Who connects and disconnects the profiles of a running daemon: the      *)
(* handlers of the control API, the connect goroutines they leave behind,  *)
(* and the scheduler.  They share connectCancel, the table of pending      *)
(* connects, and the profile service (module ProfileService).              *)
(*                                                                         *)
(* A handler serves one request, for one tunnel or for the tunnels of a    *)
(* group in turn.  A connect is only started by it: a goroutine of its own *)
(* (an attempt) makes the call and at the end clears the table's entry,    *)
(* whose attempt it may no longer be.  Cancelling ends the attempt's       *)
(* context, which not every adapter looks at.                              *)
(*                                                                         *)
(* The watchdog's watchers are left to module Watchdog: none runs here.    *)
(***************************************************************************)
EXTENDS ProfileService, Sequences, FiniteSets

CONSTANTS
    Handlers,      \* goroutines of the HTTP server
    Attempts,      \* goroutines that a handler starts to connect a profile
    Scheduler,     \* the scheduler's goroutine
    NoAttempt,     \* a profile without a pending connect
    Targets,       \* sequences of profiles that a request may name
    Rules,         \* scheduler rules: profiles, weekdays, start and end
    DayLength,     \* minutes of a day
    Week,          \* days of a week
    MaxEvents      \* bound: tunnels of requests, ticks of the scheduler, lost tunnels

\* Every goroutine that calls the profile service is one of ProfileService's.
ASSUME ControlAssumption ==
    /\ Requests = Handlers \cup Attempts \cup {Scheduler}
    /\ Handlers \cap Attempts = {} /\ Scheduler \notin Handlers \cup Attempts
    /\ NoAttempt \notin Attempts
    \* What a profile was last asked for is told apart from who asked.
    /\ Handlers \cap {"nothing", "connect", "schedule", "disconnect"} = {}
    \* A request for no tunnel at all does nothing.
    /\ Targets \subseteq Seq(Profiles) \ {<<>>}
    /\ DayLength \in Nat \ {0} /\ Week \in Nat \ {0}

VARIABLES
    server,      \* "serving", "swept" by Shutdown, "closed"
    job,         \* per handler: its request and how far it is
    entry,       \* connectCancel: the attempt whose cancel function is there
    attempt,     \* per attempt: free, connecting, or about to clear its entry
    of,          \* per attempt: its profile
    cancelled,   \* attempts whose context has ended
    inside,      \* goroutines inside an adapter's Connect, holding its mutex
    doomed,      \* those that were cancelled before and will notice
    plan,        \* the scheduler's current pass
    now,         \* the minute of the week
    events,      \* how much of the bound is used
    last,        \* history, per profile: what it was last asked for
    escaped,     \* history: profiles with an attempt that the last disconnect missed
    slipped,     \* history: profiles whose DNS somebody was about to guard as the
                 \* last disconnect released it
    late,        \* history: attempts that Shutdown's sweep came too early or too late for
    calm         \* history: profiles none of whose connects was ever cancelled

tableVars   == <<entry, attempt, of, cancelled>>
dialVars    == <<inside, doomed>>
clockVars   == <<plan, now>>
historyVars == <<last, escaped, slipped, late, calm>>
vars == <<adapterVars, watchdogVars, callVars, serviceVars, server, job,
          tableVars, dialVars, clockVars, events, historyVars>>

NoJob == [kind |-> "none", step |-> "none", todo |-> << >>]
Rest  == [up |-> {}, down |-> {}, step |-> "none"]

Init ==
    /\ kind \in [Profiles -> AdapterKinds] /\ platform \in Platforms
    /\ mem = [p \in Profiles |-> ""] /\ handle = [p \in Profiles |-> "none"]
    /\ up = [p \in Profiles |-> FALSE]
    /\ intended = {} /\ active = {} /\ phase = "new"
    /\ spawned = [p \in Profiles |-> 0] /\ watch = [p \in Profiles |-> "none"]
    /\ overruns = [p \in Profiles |-> 0]
    /\ at = [g \in Goroutines |-> "idle"] /\ on = [g \in Goroutines |-> NoProfile]
    /\ guarded = {} /\ registered = {}
    /\ server = "serving"
    /\ job = [h \in Handlers |-> NoJob]
    /\ entry = [p \in Profiles |-> NoAttempt]
    /\ attempt = [a \in Attempts |-> "free"] /\ of = [a \in Attempts |-> NoProfile]
    /\ cancelled = {} /\ inside = {} /\ doomed = {}
    /\ plan = Rest /\ now = 0
    /\ events = 0
    /\ last = [p \in Profiles |-> "nothing"]
    /\ escaped = {} /\ slipped = {} /\ late = {} /\ calm = Profiles
----------------------------------------------------------------------------
(* The table of pending connects *)

\* Mutant: an entry that is there is replaced.
Replaces(p) == TRUE

\* startPendingConnect: one pending connect per profile.
MayStart(p) == entry[p] = NoAttempt

StartAttempt(a, p) ==
    /\ attempt[a] = "free"
    /\ entry' = [entry EXCEPT ![p] = a]
    /\ attempt' = [attempt EXCEPT ![a] = "connecting"]
    /\ of' = [of EXCEPT ![a] = p]
    /\ Begin(a, p, "check")
    /\ last' = [last EXCEPT ![p] = "connect"]
    /\ late' = IF server = "serving" THEN late ELSE late \cup {a}
    /\ UNCHANGED <<cancelled, escaped, slipped, calm>>

\* Adapters whose Connect never looks at its context.
Deaf == {"wireguard", "globalprotect"}

Running(p) == {a \in Attempts : attempt[a] = "connecting" /\ of[a] = p}

\* Attempts that nobody can cancel any more.
Orphans(p) == {a \in Running(p) : a # entry[p] /\ a \notin cancelled}

\* Mutant: the entry is dropped, its context goes on.
DropsOnly(p) == cancelled

\* The contexts that have ended once p's pending connect is cancelled.
Cancels(p) == IF entry[p] = NoAttempt THEN cancelled ELSE cancelled \cup {entry[p]}

\* cancelPendingConnect.
CancelPending(p) ==
    /\ cancelled' = Cancels(p)
    /\ entry' = [entry EXCEPT ![p] = NoAttempt]
    /\ calm' = IF entry[p] = NoAttempt THEN calm ELSE calm \ {p}
    /\ escaped' = IF Orphans(p) # {} \/ (kind[p] \in Deaf /\ Running(p) # {})
                  THEN escaped \cup {p} ELSE escaped \ {p}
    /\ UNCHANGED <<attempt, of, slipped, late>>
----------------------------------------------------------------------------
(* Calls of the profile service, under the adapters' mutexes *)

\* Nobody else is inside the Connect of g's adapter.
Unheld(g, p) == \A h \in inside \ {g} : on[h] # p

\* The mutex is taken; a context that has ended by now will be noticed.
EnterConnect(g) ==
    /\ at[g] = "dial" /\ g \notin inside
    /\ Unheld(g, on[g])
    /\ inside' = inside \cup {g}
    /\ doomed' = IF g \in cancelled /\ kind[on[g]] \notin Deaf THEN doomed \cup {g} ELSE doomed
    /\ UNCHANGED <<adapterVars, watchdogVars, callVars, serviceVars>>

\* The call returns; a doomed one with an error.
LeaveConnect(g) ==
    /\ g \in inside
    /\ Dial(g)
    /\ g \in doomed => at'[g] = "idle"
    /\ inside' = inside \ {g} /\ doomed' = doomed \ {g}

\* Any other step; those that ask the adapter wait for its mutex.
OtherStep(g) ==
    /\ at[g] # "dial"
    /\ at[g] \in {"check", "attach", "hangup"} => Unheld(g, on[g])
    /\ CallStep(g)
    /\ UNCHANGED dialVars

ServiceStep(g) == EnterConnect(g) \/ LeaveConnect(g) \/ OtherStep(g)
----------------------------------------------------------------------------
(* Handlers *)

Turn(h, step) == job' = [job EXCEPT ![h].step = step]

Subject(h) == Head(job[h].todo)

\* The first step for the next tunnel, or the answer.
FirstStep(k) == IF k = "disconnect" THEN "cancel" ELSE "look"

NextTunnel(h) ==
    job' = [job EXCEPT ![h] = IF Len(@.todo) = 1 THEN NoJob
                              ELSE [kind |-> @.kind, step |-> FirstStep(@.kind),
                                    todo |-> Tail(@.todo)]]

\* Requests for a tunnel or a group: connect, disconnect (or cancel_connect,
\* which does the same), or reload.
Accept(h, k, ps) ==
    /\ server \in {"serving", "swept"}
    /\ job[h] = NoJob
    /\ events + Len(ps) <= MaxEvents
    /\ events' = events + Len(ps)
    /\ job' = [job EXCEPT ![h] = [kind |-> k, step |-> FirstStep(k), todo |-> ps]]
    /\ UNCHANGED <<adapterVars, watchdogVars, callVars, serviceVars, server,
                   tableVars, dialVars, clockVars, historyVars>>

\* A connect is for tunnels that are not up, a reload for those that are.
Look(h) ==
    /\ job[h].step = "look"
    /\ Unheld(h, Subject(h))
    /\ \E s \in Statuses :
          /\ StatusCall(Subject(h), s)
          /\ CASE job[h].kind = "connect" -> IF s = "connected" THEN NextTunnel(h)
                                                               ELSE Turn(h, "start")
               [] job[h].kind = "reload"  -> IF s = "connected" THEN Turn(h, "cancel")
                                                               ELSE NextTunnel(h)
    /\ UNCHANGED <<watchdogVars, callVars, serviceVars, server, tableVars, dialVars,
                   clockVars, events, historyVars>>

\* The connect is started, or answered with a conflict.
StartConnect(h) ==
    /\ job[h].step = "start"
    /\ IF MayStart(Subject(h))
       THEN \E a \in Attempts : StartAttempt(a, Subject(h))
       ELSE UNCHANGED <<callVars, tableVars, historyVars>>
    /\ NextTunnel(h)
    /\ UNCHANGED <<adapterVars, watchdogVars, serviceVars, server, dialVars, clockVars, events>>

CancelFirst(h) ==
    /\ job[h].step = "cancel"
    /\ CancelPending(Subject(h))
    \* The scheduler's call cannot be cancelled: it has the last word.
    /\ last' = IF on[Scheduler] = Subject(h) THEN last ELSE [last EXCEPT ![Subject(h)] = h]
    /\ Begin(h, Subject(h), "intend")
    /\ Turn(h, "disconnect")
    /\ UNCHANGED <<adapterVars, watchdogVars, serviceVars, server, dialVars, clockVars, events>>

\* Somebody has TunnelInfo's answer for p and is about to guard its DNS.
Guarding(p) == \E g \in Goroutines : on[g] = p /\ at[g] = "guard"

\* disconnectProfile, step by step; a reload goes on to connect if it succeeds.
Disconnecting(h) ==
    /\ job[h].step = "disconnect"
    /\ OtherStep(h)
    /\ IF at'[h] # "idle" THEN UNCHANGED <<job, last>>
       ELSE LET succeeded == at[h] = "release"
            IN  /\ IF succeeded /\ job[h].kind = "reload" THEN Turn(h, "start")
                                                         ELSE NextTunnel(h)
                /\ last' = IF succeeded /\ last[Subject(h)] = h
                           THEN [last EXCEPT ![Subject(h)] = "disconnect"] ELSE last
    /\ slipped' = IF at[h] # "release" THEN slipped
                  ELSE IF Guarding(Subject(h)) THEN slipped \cup {Subject(h)}
                                               ELSE slipped \ {Subject(h)}
    /\ UNCHANGED <<server, tableVars, clockVars, events, escaped, late, calm>>
----------------------------------------------------------------------------
(* Attempts *)

Connecting(a) ==
    /\ attempt[a] = "connecting"
    /\ ServiceStep(a)
    /\ attempt' = IF at'[a] = "idle" THEN [attempt EXCEPT ![a] = "clearing"] ELSE attempt
    /\ UNCHANGED <<server, job, entry, of, cancelled, clockVars, events, historyVars>>

\* Mutant: the entry stays.
ClearsNothing(a) == entry

\* clearPendingConnect deletes the profile's entry, whosever it is.
Cleared(a) == [entry EXCEPT ![of[a]] = NoAttempt]

Clear(a) ==
    /\ attempt[a] = "clearing"
    /\ entry' = Cleared(a)
    /\ attempt' = [attempt EXCEPT ![a] = "free"]
    /\ of' = [of EXCEPT ![a] = NoProfile]
    /\ cancelled' = cancelled \ {a}
    /\ late' = late \ {a}
    /\ UNCHANGED <<adapterVars, watchdogVars, callVars, serviceVars, server, job,
                   dialVars, clockVars, events, last, escaped, slipped, calm>>
----------------------------------------------------------------------------
(* The scheduler *)

\* Mutant: both ends belong to the window.
WindowClosed(start, end, minute) ==
    IF start <= end THEN minute >= start /\ minute <= end
                    ELSE minute >= start \/ minute < end

\* timeWindowMatch: from start to end, over midnight if it ends before it starts.
InWindow(start, end, minute) ==
    IF start <= end THEN minute >= start /\ minute < end
                    ELSE minute >= start \/ minute < end

\* ruleActiveNow; a rule without weekdays is for all of them.
ActiveNow(rule, t) ==
    /\ rule.weekdays = {} \/ t \div DayLength \in rule.weekdays
    /\ InWindow(rule.start, rule.end, t % DayLength)

Managed    == UNION {rule.profiles : rule \in Rules}
Desired(t) == UNION {rule.profiles : rule \in {x \in Rules : ActiveNow(x, t)}}

\* A pass fixes its plan at the minute it begins.
Tick ==
    /\ server = "serving"
    /\ plan = Rest
    /\ events < MaxEvents
    /\ \E t \in {now, (now + 1) % (Week * DayLength)} :
          /\ now' = t
          /\ plan' = [up |-> Desired(t), down |-> Managed \ Desired(t), step |-> "next"]
    /\ events' = events + 1
    /\ UNCHANGED <<adapterVars, watchdogVars, callVars, serviceVars, server, job,
                   tableVars, dialVars, historyVars>>

\* A profile that is to be up is connected unless it is up or coming up; then
\* the others are disconnected if they are.
Enforce(p) ==
    /\ plan.step = "next"
    /\ p \in plan.up \/ (plan.up = {} /\ p \in plan.down)
    /\ Unheld(Scheduler, p)
    /\ \E s \in Statuses :
          /\ StatusCall(p, s)
          /\ IF (s \in {"connected", "connecting"}) = (p \in plan.up)
             THEN /\ plan' = [plan EXCEPT !.up = @ \ {p}, !.down = @ \ {p}]
                  /\ UNCHANGED <<callVars, last>>
             ELSE /\ Begin(Scheduler, p, IF p \in plan.up THEN "check" ELSE "intend")
                  /\ plan' = [plan EXCEPT !.up = @ \ {p}, !.down = @ \ {p}, !.step = "call"]
                  /\ last' = [last EXCEPT ![p] = "schedule"]
    /\ UNCHANGED <<watchdogVars, serviceVars, server, job, tableVars, dialVars, now,
                   events, escaped, slipped, late, calm>>

Enforcing ==
    /\ plan.step = "call"
    /\ ServiceStep(Scheduler)
    /\ plan' = IF at'[Scheduler] = "idle" THEN [plan EXCEPT !.step = "next"] ELSE plan
    /\ UNCHANGED <<server, job, tableVars, now, events, historyVars>>

PassEnds ==
    /\ plan.step = "next" /\ plan.up = {} /\ plan.down = {}
    /\ plan' = Rest
    /\ UNCHANGED <<adapterVars, watchdogVars, callVars, serviceVars, server, job,
                   tableVars, dialVars, now, events, historyVars>>
----------------------------------------------------------------------------
(* Shutdown and the network *)

\* Mutant: Shutdown empties the table and cancels nobody.
SweepsNobody == cancelled

Swept == cancelled \cup {entry[p] : p \in {q \in Profiles : entry[q] # NoAttempt}}

\* Server.Shutdown cancels what is pending, and only then stops listening.
Sweep ==
    /\ server = "serving"
    /\ server' = "swept"
    /\ cancelled' = Swept
    /\ calm' = {p \in calm : entry[p] = NoAttempt}
    /\ late' = UNION {Orphans(p) : p \in Profiles}
    /\ entry' = [p \in Profiles |-> NoAttempt]
    /\ UNCHANGED <<adapterVars, watchdogVars, callVars, serviceVars, job, attempt, of,
                   dialVars, clockVars, events, last, escaped, slipped>>

\* http.Server.Shutdown returns when no handler is at work, or after five seconds
\* with some that are.
Close ==
    /\ server = "swept"
    /\ server' = "closed"
    /\ UNCHANGED <<adapterVars, watchdogVars, callVars, serviceVars, job, tableVars,
                   dialVars, clockVars, events, historyVars>>

Drop(p) ==
    /\ events < MaxEvents
    /\ events' = events + 1
    /\ TunnelDrops(p)
    /\ UNCHANGED <<watchdogVars, callVars, serviceVars, server, job, tableVars,
                   dialVars, clockVars, historyVars>>

Handle(h) ==
    \/ \E k \in {"connect", "disconnect", "reload"}, ps \in Targets : Accept(h, k, ps)
    \/ Look(h) \/ StartConnect(h) \/ CancelFirst(h) \/ Disconnecting(h)

Next ==
    \/ \E h \in Handlers : Handle(h)
    \/ \E a \in Attempts : Connecting(a) \/ Clear(a)
    \/ Tick \/ Enforcing \/ PassEnds
    \/ Sweep \/ Close
    \/ \E p \in Profiles : Enforce(p) \/ Drop(p)

Spec == Init /\ [][Next]_vars
----------------------------------------------------------------------------
(* Properties *)

\* Whoever finds an entry in connectCancel finds a connect that is not over, of
\* that profile, and that nobody has cancelled yet: no request is answered with
\* "connect already in progress" for nothing, for ever.
PendingIsRunning ==
    \A p \in Profiles :
        entry[p] # NoAttempt => /\ attempt[entry[p]] # "free"
                                /\ of[entry[p]] = p
                                /\ entry[p] \notin cancelled

\* Until one of a profile's connects is cancelled, the API never runs two of
\* them at a time, and the one that runs can be cancelled.
OneConnectUntilCancel ==
    \A p \in calm : Cardinality(Running(p)) <= 1 /\ Orphans(p) = {}

\* When Shutdown has returned, every connect that still runs has been told to
\* stop, unless it was accepted between the sweep and the closing of the
\* listener, or had lost its entry before.
ShutdownReachesAll ==
    server = "closed" =>
        \A p \in Profiles : Running(p) \subseteq cancelled \cup late

\* A connect that runs can be cancelled: by its profile's next disconnect, and
\* by Shutdown at the latest.
ConnectsCanBeCancelled == OneConnectUntilCancel /\ ShutdownReachesAll

Quiet(p) == /\ Running(p) = {}
            /\ \A g \in Goroutines : on[g] # p
            /\ \A h \in Handlers : job[h] # NoJob => Subject(h) # p

\* What a disconnect (or a cancelled connect) has answered for stays so: once
\* everybody is done with the profile its tunnel is down and its DNS guard
\* released, although an earlier connect may have been anywhere on its way.
\* A connect accepted meanwhile, and one that the scheduler has begun, have the
\* last word instead.  Excepted are attempts that the disconnect could not reach:
\* one whose entry an older attempt has cleared, or one whose adapter does not
\* look at its context.  And where one had asked for TunnelInfo before and calls
\* OnConnect after the disconnect's OnDisconnect, the DNS stays guarded.
DisconnectSticks ==
    \A p \in Profiles :
        last[p] = "disconnect" /\ Quiet(p) /\ p \notin escaped =>
            ~up[p] /\ (p \in guarded => p \in slipped)

\* Whatever a rule's two ends, its window is on for the minutes from the first
\* to the second and no others, over midnight too.  (scheduler.go timeWindowMatch)
WindowIsAnInterval ==
    \A start, end \in 0..(DayLength - 1) :
        InWindow(start, end, now % DayLength) <=>
            (now - start) % DayLength < (end - start) % DayLength
=============================================================================
