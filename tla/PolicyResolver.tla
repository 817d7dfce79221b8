--------------------------- MODULE PolicyResolver ---------------------------
(***************************************************************************)
(* internal/monitor/policyresolver.go on Linux, with the route manager of  *)
(* internal/routing.  For each WireGuard profile it looks the policies'    *)
(* domains up, again and again, and sends what it finds through the        *)
(* tunnel: `wg set` replaces the networks that WireGuard lets through, and *)
(* each of them gets a route.                                              *)
(*                                                                         *)
(* A profile that is registered has an object of its own.  Its mutex       *)
(* guards the table of objects and nothing inside them: the caller of      *)
(* RegisterProfile and the loop may both be in a pass over one object, and *)
(* a pass goes on over an object that is not in the table any more.        *)
(***************************************************************************)
EXTENDS Integers, FiniteSets

CONSTANTS
    WireGuards,  \* WireGuard profiles
    Callers,     \* goroutines of the profile service
    Loop,        \* the resolver's own goroutine
    Objects,     \* profileState values
    NoObject,    \* a profile that is not registered
    Domains,     \* per profile: the domains of its policies
    Answers,     \* per domain: the host networks DNS may answer with
    V6,          \* those that are IPv6
    Endpoint,    \* the network of the WireGuard server
    Essential,   \* per profile: its subnet, DNS servers and static ranges
    Conf,        \* per profile: the allowed networks of its wg-quick file
    Bounds       \* bounds: calls, interface changes, ticks of the loop

Cidrs == (UNION {Answers[d] : d \in DOMAIN Answers})
             \cup UNION {Essential[p] \cup Conf[p] : p \in WireGuards}

\* Only DNS is looked through for the server's address; a policy that routes it
\* is taken at its word.
ASSUME ResolverAssumption ==
    /\ Loop \notin Callers /\ NoObject \notin Objects \cup WireGuards
    /\ \A p \in WireGuards : Domains[p] \subseteq DOMAIN Answers
    /\ V6 \subseteq Cidrs

VARIABLES
    table,     \* PolicyResolver.profiles
    owner,     \* per object: its profile, or NoObject when it is not in use
    seen,      \* per object: seenCIDRs
    pass,      \* per goroutine: the pass it is in
    batch,     \* the loop's snapshot: objects still to be passed over
    leaving,   \* per caller: the profile it unregisters, before its routes go
    looping,   \* the loop: not started, waiting, working, ended
    iface,     \* interfaces that exist
    allowed,   \* per profile: the networks WireGuard lets through
    routes,    \* per profile: the routes over its interface
    tracked,   \* per profile: those the route manager knows of
    astray,    \* history: profiles unregistered under a pass, or not flushed
    beside,    \* history: goroutines whose pass has had another over its profile
    unsettled, \* history: profiles whose last `wg set` failed or may be outdated
    spent      \* how much of the bounds is used

tableVars  == <<table, owner, seen>>
passVars   == <<pass, batch, leaving, looping>>
kernelVars == <<iface, allowed, routes>>
workVars == <<astray, beside, unsettled>>
resolverVars == <<tableVars, passVars, kernelVars, tracked, workVars, spent>>

Passers == Callers \cup {Loop}

Idle == [at |-> "idle", obj |-> NoObject, left |-> {}, fresh |-> FALSE, list |-> {}]

Steps == {"idle", "lookup", "set", "route"}

ResolverInit ==
    /\ table = [p \in WireGuards |-> NoObject]
    /\ owner = [s \in Objects |-> NoObject]
    /\ seen = [s \in Objects |-> {}]
    /\ pass = [g \in Passers |-> Idle]
    /\ batch = {} /\ looping = "new"
    /\ leaving = [c \in Callers |-> NoObject]
    /\ iface = {}
    /\ allowed = [p \in WireGuards |-> {}]
    /\ routes = [p \in WireGuards |-> {}] /\ tracked = [p \in WireGuards |-> {}]
    /\ astray = {} /\ beside = {} /\ unsettled = {}
    /\ spent = [calls |-> 0, network |-> 0, ticks |-> 0]

Within(k) == spent[k] < Bounds[k]
Spend(k)  == spent' = [spent EXCEPT ![k] = @ + 1]

Busy(g) == pass[g].at # "idle"

\* Goroutines in a pass over one of p's objects.
Over(p) == {g \in Passers : Busy(g) /\ owner[pass[g].obj] = p}

\* An object is garbage when neither the table nor a goroutine holds it.
Collectable(s) == /\ \A p \in WireGuards : table[p] # s
                  /\ \A g \in Passers : pass[g].obj # s
                  /\ s \notin batch

Begins(g, s, p) ==
    /\ pass' = [pass EXCEPT ![g] = [at |-> "lookup", obj |-> s, left |-> Domains[p],
                                    fresh |-> FALSE, list |-> {}]]
    /\ beside' = IF Over(p) = {} THEN beside ELSE beside \cup Over(p) \cup {g}
    /\ unsettled' = IF Over(p) = {} THEN unsettled ELSE unsettled \cup {p}

\* A pass ends, for whatever reason.
Ends(g) == pass' = [pass EXCEPT ![g] = Idle] /\ beside' = beside \ {g}
----------------------------------------------------------------------------
(* Register and Unregister *)

\* The new object takes the place of the old one, and is passed over at once.
\* A profile that no policy names a domain or a range for is left alone.
RegisterProfile(c, p) ==
    /\ Within("calls") /\ Spend("calls")
    /\ ~Busy(c) /\ leaving[c] = NoObject
    /\ \E s \in Objects :
          /\ Collectable(s)
          /\ table' = [table EXCEPT ![p] = s]
          /\ owner' = [owner EXCEPT ![s] = p]
          /\ seen' = [seen EXCEPT ![s] = {}]
          /\ Begins(c, s, p)
    /\ UNCHANGED <<batch, leaving, looping, kernelVars, tracked, astray>>

\* The entry goes under the mutex, the routes after it.
UnregisterProfile(c, p) ==
    /\ Within("calls") /\ Spend("calls")
    /\ ~Busy(c) /\ leaving[c] = NoObject
    /\ table[p] # NoObject
    /\ table' = [table EXCEPT ![p] = NoObject]
    /\ leaving' = [leaving EXCEPT ![c] = p]
    /\ astray' = IF Over(p) = {} /\ batch \cap {s \in Objects : owner[s] = p} = {}
                 THEN astray \ {p} ELSE astray \cup {p}
    /\ UNCHANGED <<owner, seen, pass, batch, looping, kernelVars, tracked, unsettled, beside>>

\* Mutant: the routes are looked for over another interface.
FlushesNothing(p) == routes[p]

\* Flush asks the kernel for the interface's IPv4 routes, and deletes those.
Flushed(p) == routes[p] \cap V6

\* A kernel that does not answer is not asked twice.
Flush(c) ==
    LET p == leaving[c]
    IN  /\ p # NoObject
        /\ \/ /\ routes' = [routes EXCEPT ![p] = Flushed(p)]
              /\ tracked' = [tracked EXCEPT ![p] = {}]
              /\ UNCHANGED astray
           \/ /\ astray' = astray \cup {p}
              /\ UNCHANGED <<routes, tracked>>
        /\ leaving' = [leaving EXCEPT ![c] = NoObject]
        /\ UNCHANGED <<tableVars, pass, batch, looping, iface, allowed, unsettled, beside, spent>>
----------------------------------------------------------------------------
(* A pass *)

\* The answers that count; the server's own address would loop.
Usable(ips) == ips \ {Endpoint}

\* The next domain is looked up, or the budget is used up.
Lookup(g) ==
    /\ pass[g].at = "lookup"
    /\ \E d \in pass[g].left, ips \in SUBSET UNION {Answers[x] : x \in pass[g].left} :
          LET s == pass[g].obj
          IN  /\ ips \subseteq Answers[d]
              /\ seen' = [seen EXCEPT ![s] = @ \cup Usable(ips)]
              /\ pass' = [pass EXCEPT ![g] =
                    [pass[g] EXCEPT !.left = @ \ {d},
                                    !.fresh = @ \/ ~(Usable(ips) \subseteq seen[s])]]
    /\ UNCHANGED <<table, owner, batch, leaving, looping, kernelVars, tracked, astray, unsettled, beside, spent>>

\* Mutant: only what is essential is let through.
AllowsEssential(s) == Essential[owner[s]]

\* buildAllowedIPs.
BuildAllowedIPs(s) == Essential[owner[s]] \cup seen[s]

\* Without a new address `wg` is not called, but the routes are set again.
Build(g) ==
    /\ pass[g].at = "lookup"
    /\ pass' = [pass EXCEPT ![g] =
          [@ EXCEPT !.at = IF pass[g].fresh THEN "set" ELSE "route",
                    !.list = BuildAllowedIPs(pass[g].obj)]]
    /\ UNCHANGED <<tableVars, batch, leaving, looping, kernelVars, tracked, astray, unsettled, beside, spent>>

\* WgSetAllowedIPs; a failure ends the pass, and what it found stays "seen".
WgSet(g) ==
    LET p == owner[pass[g].obj]
    IN  /\ pass[g].at = "set"
        /\ \/ /\ p \in iface
              /\ allowed' = [allowed EXCEPT ![p] = pass[g].list]
              /\ pass' = [pass EXCEPT ![g].at = "route"]
              /\ unsettled' = IF g \notin beside /\ table[p] = pass[g].obj
                              THEN unsettled \ {p} ELSE unsettled \cup {p}
              /\ UNCHANGED beside
           \/ /\ Ends(g)
              /\ unsettled' = unsettled \cup {p}
              /\ UNCHANGED allowed
        /\ UNCHANGED <<tableVars, batch, leaving, looping, iface, routes, tracked, astray, spent>>

\* addOSRoutes: one after the other, with nothing kept from coming between; those
\* that cannot be added, for want of the interface or otherwise, are skipped.
AddOSRoutes(g) ==
    LET p == owner[pass[g].obj]
    IN  /\ pass[g].at = "route"
        /\ \E added \in SUBSET pass[g].list :
              /\ added # {} => p \in iface
              /\ routes' = [routes EXCEPT ![p] = @ \cup added]
              /\ tracked' = [tracked EXCEPT ![p] = @ \cup added]
        /\ Ends(g)
        /\ UNCHANGED <<tableVars, batch, leaving, looping, iface, allowed, astray, unsettled, spent>>

PassStep(g) == Lookup(g) \/ Build(g) \/ WgSet(g) \/ AddOSRoutes(g)
----------------------------------------------------------------------------
(* The loop *)

StartLoop ==
    /\ looping = "new"
    /\ looping' = "waiting"
    /\ UNCHANGED <<tableVars, pass, batch, leaving, kernelVars, tracked, astray, unsettled, beside, spent>>

\* The ticker's turn: the table is copied under the mutex.
TakeSnapshot ==
    /\ Within("ticks") /\ Spend("ticks")
    /\ looping = "waiting"
    /\ looping' = "working"
    /\ batch' = {table[p] : p \in {q \in WireGuards : table[q] # NoObject}}
    /\ batch' # {}
    /\ UNCHANGED <<tableVars, pass, leaving, kernelVars, tracked, astray, unsettled, beside>>

NextObject ==
    /\ looping = "working" /\ ~Busy(Loop)
    /\ \E s \in batch : batch' = batch \ {s} /\ Begins(Loop, s, owner[s])
    /\ UNCHANGED <<tableVars, leaving, looping, kernelVars, tracked, astray, spent>>

BatchEnds ==
    /\ looping = "working" /\ ~Busy(Loop) /\ batch = {}
    /\ looping' = "waiting"
    /\ UNCHANGED <<tableVars, pass, batch, leaving, kernelVars, tracked, astray, unsettled, beside, spent>>

\* Between two batches only does the loop see that its context has ended.
LoopEnds ==
    /\ looping = "waiting"
    /\ looping' = "ended"
    /\ UNCHANGED <<tableVars, pass, batch, leaving, kernelVars, tracked, astray, unsettled, beside, spent>>

LoopStep == StartLoop \/ TakeSnapshot \/ NextObject \/ BatchEnds \/ LoopEnds
----------------------------------------------------------------------------
(* The network: wg-quick, or somebody else, makes and removes the interface. *)

InterfaceUp(p) ==
    /\ Within("network") /\ Spend("network")
    /\ p \notin iface
    /\ iface' = iface \cup {p}
    /\ allowed' = [allowed EXCEPT ![p] = Conf[p]]
    /\ unsettled' = unsettled \cup {p}
    /\ UNCHANGED <<tableVars, passVars, routes, tracked, astray, beside>>

InterfaceDown(p) ==
    /\ Within("network") /\ Spend("network")
    /\ p \in iface
    /\ iface' = iface \ {p}
    /\ allowed' = [allowed EXCEPT ![p] = {}]
    /\ routes' = [routes EXCEPT ![p] = {}]
    /\ UNCHANGED <<tableVars, passVars, tracked, astray, unsettled, beside>>

ResolverNext ==
    \/ \E c \in Callers : \/ \E p \in WireGuards : RegisterProfile(c, p) \/ UnregisterProfile(c, p)
                         \/ Flush(c)
    \/ \E g \in Passers : PassStep(g)
    \/ LoopStep
    \/ \E p \in WireGuards : InterfaceUp(p) \/ InterfaceDown(p)

ResolverSpec == ResolverInit /\ [][ResolverNext]_resolverVars
----------------------------------------------------------------------------
(* Properties *)

Unregistering(p) == \E c \in Callers : leaving[c] = p

\* A profile that is unregistered has no IPv4 route left, even if its interface
\* stays, unless a pass was under way over it (or waiting to be) at that moment,
\* which goes on to set the routes it has found, or the kernel refused.
RoutesGoWithProfile ==
    \A p \in WireGuards :
        table[p] = NoObject /\ ~Unregistering(p) /\ p \notin astray => routes[p] \subseteq V6

\* For a profile that nobody is working on, WireGuard lets through all that the
\* resolver has ever found for it, together with what is essential, once it has
\* found anything: addresses that pass away in DNS, or came in an earlier pass,
\* are not forgotten.  Excepted is a profile whose last `wg set` failed or came
\* from a pass that had another beside it, and one whose interface is a new one.
NothingForgotten ==
    \A p \in iface \ unsettled :
        table[p] # NoObject /\ Over(p) = {} /\ seen[table[p]] # {} =>
            Essential[p] \cup seen[table[p]] \subseteq allowed[p]
=============================================================================
