---------------------------- MODULE PolicyEngine ----------------------------
(***************************************************************************)
(* The policy engine of internal/policy: how the rules of a configuration  *)
(* are ordered, and which of them answers for an address, a domain or a    *)
(* flow.  The program asks in three places: the engine's ResolveIP (the    *)
(* command line's explain), the API's /resolve, and the table of routes.   *)
(*                                                                         *)
(* An address has Width bits, a network is its first len bits.  A domain   *)
(* is its sequence of labels, a pattern the same with an optional leading  *)
(* wildcard.  An application's name stands for all the spellings that      *)
(* normalizeApp makes one.                                                 *)
(***************************************************************************)
EXTENDS Integers, Sequences, FiniteSets

CONSTANTS
    Width,       \* bits of an address
    NoMatch,     \* no rule answers
    NoApp,       \* a flow whose application is not known
    Normal       \* targets that normalizeResolveTarget changes, and what it makes of them

\* An address has at least one bit.  No text at all stays what it is.
ASSUME EngineAssumption == /\ Width \in Nat \ {0}
                           /\ \A t \in DOMAIN Normal : /\ t.ip = FALSE /\ t.is # << >>
                                                      /\ Normal[t].ip \in BOOLEAN

Addresses == 0..(2^Width - 1)
Networks  == [base : Addresses, len : 0..Width]

Shortened(a, len) == a \div 2^(Width - len)

Contains(n, a) == Shortened(n.base, n.len) = Shortened(a, n.len)

Overlaps(m, n) == Contains(m, n.base) \/ Contains(n, m.base)

Maximum(S) == CHOOSE x \in S : \A y \in S : y <= x
----------------------------------------------------------------------------
(* One rule *)

\* A wildcard stands for exactly one label.
MatchGlob(pattern, domain) ==
    IF pattern.wild THEN Len(domain) > 0 /\ Tail(domain) = pattern.labels
                    ELSE domain = pattern.labels

MatchesIP(rule, a)     == \E n \in rule.ranges : Contains(n, a)
MatchesDomain(rule, d) == \E p \in rule.domains : MatchGlob(p, d)
MatchesApp(rule, app)  == app \in rule.apps

\* A target is an address or a domain.
MatchesTarget(rule, target) ==
    IF target.ip THEN MatchesIP(rule, target.is) ELSE MatchesDomain(rule, target.is)

\* A question about an application alone has no target: the domain without labels.
NoTarget == [ip |-> FALSE, is |-> << >>]

IsEmpty(target) == ~target.ip /\ target.is = << >>

\* A rule that names applications wants one of them, a rule that names
\* destinations wants one of those, and a rule that names both wants both.
MatchesFlow(rule, target, app) ==
    LET needsApp    == rule.apps # {}
        needsTarget == rule.ranges # {} \/ rule.domains # {}
    IN  /\ needsApp => app # NoApp /\ MatchesApp(rule, app)
        /\ IF needsTarget THEN ~IsEmpty(target) /\ MatchesTarget(rule, target)
                          ELSE needsApp

MaxPrefixLen(rule) == Maximum({0} \cup {n.len : n \in rule.ranges})
----------------------------------------------------------------------------
(* The engine of a configuration's policies *)

\* A profile's own priority, 0 for none or for a profile that is not there.
OwnPriority(cfg, profile) ==
    IF profile \in DOMAIN cfg.vpns THEN cfg.vpns[profile].priority ELSE 0

\* The profile's priority, or else the position counted from the end.
PriorityOf(cfg, i) ==
    LET own == OwnPriority(cfg, cfg.policies[i].via)
    IN  IF own > 0 THEN own ELSE Len(cfg.policies) - i + 1

Compiled(cfg, i) == [rule |-> cfg.policies[i], priority |-> PriorityOf(cfg, i)]

SortsBefore(r, q) ==
    \/ r.priority > q.priority
    \/ r.priority = q.priority /\ MaxPrefixLen(r.rule) > MaxPrefixLen(q.rule)

\* sort.Slice is not stable: rules that tie may come out in any order.
Engines(cfg) ==
    LET n      == Len(cfg.policies)
        orders == {s \in [1..n -> 1..n] : \A j, k \in 1..n : s[j] = s[k] => j = k}
        made(s) == [k \in 1..n |-> Compiled(cfg, s[k])]
    IN  {made(s) : s \in {t \in orders :
            \A j, k \in 1..n : j < k => ~SortsBefore(made(t)[k], made(t)[j])}}
----------------------------------------------------------------------------
(* Answers: the rule that matched, or NoMatch *)

\* Mutant: the last of several networks of one length wins.
BetterOrEqual(n, best) == best.rule = NoMatch \/ n.len >= best.net.len

Better(n, best) == best.rule = NoMatch \/ n.len > best.net.len

\* The scan of resolveIPMatch: rules in order, the strictly longer prefix wins.
Candidate(rule, a, best) ==
    LET found == {n \in rule.ranges : Contains(n, a) /\ Better(n, best)}
    IN  IF found = {} THEN best
        ELSE [rule |-> rule,
              net |-> CHOOSE n \in found : n.len = Maximum({m.len : m \in found})]

NoBest == [rule |-> NoMatch, net |-> NoMatch]

ResolveIP(e, a) ==
    LET scan[k \in 0..Len(e)] ==
            IF k = 0 THEN NoBest ELSE Candidate(e[k].rule, a, scan[k - 1])
    IN  scan[Len(e)]

FirstThat(e, hits) ==
    IF hits = {} THEN NoMatch
    ELSE e[CHOOSE k \in hits : \A j \in hits : k <= j].rule

ResolveDomain(e, d) == FirstThat(e, {k \in DOMAIN e : MatchesDomain(e[k].rule, d)})

ResolveApp(e, app)  == FirstThat(e, {k \in DOMAIN e : MatchesApp(e[k].rule, app)})

ResolveFlow(e, target, app) ==
    FirstThat(e, {k \in DOMAIN e : MatchesFlow(e[k].rule, target, app)})

Via(answer) == IF answer = NoMatch THEN NoMatch ELSE answer.via

\* The rule for an address or a domain alone.
ResolveTarget(e, target) ==
    IF target.ip THEN ResolveIP(e, target.is).rule ELSE ResolveDomain(e, target.is)

\* What `policy explain` answers for it.
ExplainTarget(e, target) ==
    IF IsEmpty(target) THEN NoMatch ELSE Via(ResolveTarget(e, target))

\* The same for an application (app:<exe>).
ExplainApp(e, app) == Via(ResolveApp(e, app))

\* A URL, a port, brackets, a final dot and capitals are taken off: what `explain`
\* took for a domain may become another one, an address, or nothing.
Normalized(text) == IF text \in DOMAIN Normal THEN Normal[text] ELSE text

\* What GET /resolve answers: the flow first, and only then the address or the
\* domain alone.  (A policy's or profile's name as target is left out: no
\* address or domain is one.)
HandleResolve(e, text, app) ==
    LET target == Normalized(text)
        flow   == ResolveFlow(e, target, app)
    IN  IF IsEmpty(target) /\ app = NoApp THEN NoMatch
        ELSE Via(IF flow # NoMatch THEN flow ELSE ResolveTarget(e, target))

\* The profile of the longest network that overlaps a route, the first of those
\* in the engine's order.
MatchStaticPolicy(e, route) ==
    LET longest(k) == Maximum({-1} \cup {n.len : n \in
                          {m \in e[k].rule.ranges : Overlaps(route, m)}})
        best == Maximum({-1} \cup {longest(k) : k \in DOMAIN e})
    IN  IF best = -1 THEN NoMatch
        ELSE FirstThat(e, {k \in DOMAIN e : longest(k) = best}).via

\* The profile that the table of routes shows: a network that the resolver has
\* found for a domain (and lists, with a profile that has it) goes before the rules.
System == "system"

HandleListRoutes(e, listed, route) ==
    IF route.len = 0 THEN System
    ELSE IF route \in DOMAIN listed THEN listed[route] ELSE MatchStaticPolicy(e, route)
=============================================================================
