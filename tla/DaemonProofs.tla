---------------------------- MODULE DaemonProofs ----------------------------
(***************************************************************************)
(* What the daemon keeps outside itself, for any number of processes,      *)
(* profiles, goroutines and answers of DNS: the PID file, resolv.conf, the *)
(* kill switch and the hosts file over the lives of `up` and `down`        *)
(* (DaemonLifecycle), and what the policy resolver tells WireGuard and the *)
(* routing table (PolicyResolver).                                         *)
(***************************************************************************)
EXTENDS DaemonLifecycle, PolicyResolver, TLAPS

----------------------------------------------------------------------------
(* The policy resolver *)

\* An object in the table belongs to the profile it is there for.
ObjectsOK ==
    /\ table \in [WireGuards -> Objects \cup {NoObject}]
    /\ owner \in [Objects -> WireGuards \cup {NoObject}]
    /\ seen \in [Objects -> SUBSET Cidrs]
    /\ \A p \in WireGuards : table[p] # NoObject => owner[table[p]] = p
    /\ batch \subseteq Objects /\ \A s \in batch : owner[s] \in WireGuards
    /\ DOMAIN leaving = Callers
    /\ iface \subseteq WireGuards /\ DOMAIN allowed = WireGuards /\ DOMAIN routes = WireGuards

Passing == [at : {"lookup", "set", "route"}, obj : Objects, left : SUBSET DOMAIN Answers,
            fresh : BOOLEAN, list : SUBSET Cidrs]

PassesOK ==
    /\ DOMAIN pass = Passers
    /\ \A g \in Passers :
          pass[g] = Idle \/ (pass[g] \in Passing /\ owner[pass[g].obj] \in WireGuards)

\* A profile that is out of the table, and not astray, nobody works on.
AstrayOK ==
    \A p \in WireGuards :
        table[p] = NoObject /\ p \notin astray =>
            Over(p) = {} /\ \A s \in batch : owner[s] # p

\* A pass without another beside it is alone over its profile, and so are all
\* over a profile that is settled.
AloneOK ==
    /\ \A g \in Passers \ beside : Busy(g) => Over(owner[pass[g].obj]) = {g}
    /\ \A p \in WireGuards \ unsettled : Over(p) \cap beside = {}
    /\ \A g \in beside : g \in Passers /\ Busy(g)

\* Nothing is found between the making of such a pass's list and its use.
ListOK ==
    \A g \in Passers \ beside :
        pass[g].at = "set" =>
            pass[g].list = Essential[owner[pass[g].obj]] \cup seen[pass[g].obj]

\* WireGuard lets through what p's object has seen, or there is nothing yet.
Lets(p) == seen[table[p]] = {} \/ Essential[p] \cup seen[table[p]] \subseteq allowed[p]

\* Or the pass that found it is on its way to say so.
AllowedOK ==
    \A p \in iface \ unsettled :
        table[p] # NoObject =>
            \/ Lets(p)
            \/ \E g \in Over(p) : /\ pass[g].obj = table[p]
                                  /\ pass[g].at = "set" \/ (pass[g].at = "lookup" /\ pass[g].fresh)

ResolverInv ==
    ObjectsOK /\ PassesOK /\ AstrayOK /\ AloneOK /\ ListOK /\ AllowedOK /\ RoutesGoWithProfile

LEMMA AtWork ==
    ASSUME ResolverAssumption, PassesOK
    PROVE  /\ Callers \subseteq Passers /\ Loop \in Passers
           /\ \A g \in Passers : Busy(g) <=> pass[g].at \in {"lookup", "set", "route"}
           /\ \A g \in Passers : ~Busy(g) => pass[g] = Idle
           /\ \A g \in Passers : Busy(g) => pass[g] \in Passing /\ owner[pass[g].obj] \in WireGuards
           /\ Idle.at = "idle" /\ Idle.obj = NoObject
<1>1. Idle.at = "idle" /\ Idle.obj = NoObject
  BY DEF Idle
<1>2. \A g \in Passers : pass[g] \in Passing => pass[g].at \in {"lookup", "set", "route"}
  BY DEF Passing
<1>3. QED
  BY <1>1, <1>2 DEF PassesOK, Busy, Passers

\* A pass begins over an object of p.
LEMMA PassBegins ==
    ASSUME ResolverAssumption, ObjectsOK, PassesOK, AloneOK,
           NEW g \in Passers, ~Busy(g), NEW s \in Objects, NEW p \in WireGuards, Begins(g, s, p),
           owner'[s] = p, \A o \in Objects \ {s} : owner'[o] = owner[o],
           owner' = owner \/ \A h \in Passers : pass[h].obj # s
    PROVE  /\ PassesOK' /\ AloneOK'
           /\ \A q \in WireGuards : Over(q)' = IF q = p THEN Over(p) \cup {g} ELSE Over(q)
           /\ \A h \in Passers \ {g} : pass'[h] = pass[h]
           /\ pass'[g].at = "lookup" /\ pass'[g].obj = s /\ pass'[g].fresh = FALSE
<1>1. PICK j : j = [at |-> "lookup", obj |-> s, left |-> Domains[p], fresh |-> FALSE, list |-> {}]
  OBVIOUS
<1>2. /\ pass' = [pass EXCEPT ![g] = j] /\ DOMAIN pass = Passers
      /\ beside' = IF Over(p) = {} THEN beside ELSE beside \cup Over(p) \cup {g}
      /\ unsettled' = IF Over(p) = {} THEN unsettled ELSE unsettled \cup {p}
  BY <1>1 DEF Begins, PassesOK
<1>3. /\ DOMAIN pass' = Passers /\ pass'[g] = j
      /\ \A h \in Passers \ {g} : pass'[h] = pass[h]
  BY <1>2
<1>4. j \in Passing /\ j.at = "lookup" /\ j.obj = s /\ j.fresh = FALSE
  BY <1>1 DEF Passing, ResolverAssumption
<1>5. \A h \in Passers \ {g} : Busy(h) => owner'[pass[h].obj] = owner[pass[h].obj]
  BY AtWork DEF Passing
<1>6. \A h \in Passers \ {g} : Busy(h)' <=> Busy(h)
  BY <1>3 DEF Busy
<1>7. Busy(g)'
  BY <1>3, <1>4 DEF Busy
<1>8. ASSUME NEW q \in WireGuards
      PROVE  Over(q)' = IF q = p THEN Over(p) \cup {g} ELSE Over(q)
  <2>1. ASSUME NEW h \in Passers \ {g} PROVE h \in Over(q)' <=> h \in Over(q)
    BY <1>3, <1>5, <1>6 DEF Over
  <2>2. g \in Over(q)' <=> q = p
    BY <1>3, <1>4, <1>7 DEF Over
  <2>3. g \notin Over(q) /\ Over(q) \subseteq Passers /\ Over(q)' \subseteq Passers
    BY DEF Over, Passers
  <2>4. CASE q = p
    <3>1. Over(q)' = Over(q) \cup {g}
      BY <2>1, <2>2, <2>3, <2>4
    <3>2. QED
      BY <2>4, <3>1
  <2>5. CASE q # p
    <3>1. Over(q)' = Over(q)
      BY <2>1, <2>2, <2>3, <2>5
    <3>2. QED
      BY <2>5, <3>1
  <2>6. QED
    BY <2>4, <2>5
<1>9. PassesOK'
  <2>1. ASSUME NEW h \in Passers
        PROVE  pass'[h] = Idle \/ (pass'[h] \in Passing /\ owner'[pass'[h].obj] \in WireGuards)
    <3>1. CASE h = g
      BY <1>3, <1>4, <3>1
    <3>2. CASE h # g
      BY <1>3, <1>5, <3>2, AtWork
    <3>3. QED
      BY <3>1, <3>2
  <2>2. QED
    BY <1>3, <2>1 DEF PassesOK, Passers, Passing
<1>10. AloneOK'
  <2>1. ASSUME NEW h \in Passers, h \notin beside', Busy(h)'
        PROVE  (Over(owner[pass[h].obj]) = {h})'
    <3>1. CASE h = g
      <4>1. Over(p) = {}
        BY <1>2, <2>1, <3>1
      <4>2. Over(p)' = {g}
        BY <1>8, <4>1
      <4>3. QED
        BY <1>3, <1>4, <3>1, <4>2
    <3>2. CASE h # g
      <4>1. Busy(h) /\ h \notin beside
        BY <1>2, <1>6, <2>1, <3>2
      <4>2. PICK q \in WireGuards : q = owner[pass[h].obj]
        BY <4>1, AtWork
      <4>3. Over(q) = {h}
        BY <4>1, <4>2 DEF AloneOK
      <4>4. q # p
        BY <1>2, <2>1, <4>3
      <4>5. Over(q)' = {h}
        BY <1>8, <4>3, <4>4
      <4>6. owner'[pass'[h].obj] = q
        BY <1>3, <1>5, <3>2, <4>1, <4>2
      <4>7. QED
        BY <4>5, <4>6
    <3>3. QED
      BY <3>1, <3>2
  <2>2. ASSUME NEW q \in WireGuards, q \notin unsettled' PROVE Over(q)' \cap beside' = {}
    <3>1. g \notin beside /\ q \notin unsettled /\ Over(q) \cap beside = {}
      BY <1>2, <2>2 DEF AloneOK
    <3>2. CASE q = p
      BY <1>2, <1>8, <2>2, <3>1, <3>2
    <3>3. CASE q # p
      <4>1. Over(q) \cap Over(p) = {} /\ g \notin Over(q)
        BY <3>3 DEF Over
      <4>2. QED
        BY <1>2, <1>8, <3>1, <3>3, <4>1
    <3>4. QED
      BY <3>2, <3>3
  <2>3. \A h \in beside' : h \in Passers /\ Busy(h)'
    BY <1>2, <1>6, <1>7 DEF AloneOK, Over
  <2>4. QED
    BY <2>1, <2>2, <2>3 DEF AloneOK, Passers
<1>11. QED
  BY <1>3, <1>4, <1>8, <1>9, <1>10

\* A pass goes on over its object.
Goes(g, j) == pass' = [pass EXCEPT ![g] = j]

LEMMA PassGoes ==
    ASSUME ResolverAssumption, PassesOK, AloneOK, NEW g \in Passers, Busy(g),
           NEW j \in Passing, j.obj = pass[g].obj, Goes(g, j),
           UNCHANGED <<owner, beside>>, NEW p \in WireGuards, p = owner[pass[g].obj],
           unsettled \subseteq unsettled' \cup {p}, p \in unsettled \ unsettled' => g \notin beside
    PROVE  /\ PassesOK' /\ AloneOK' /\ \A q \in WireGuards : Over(q)' = Over(q)
           /\ \A h \in Passers \ {g} : pass'[h] = pass[h]
           /\ pass'[g] = j
<1>1. /\ DOMAIN pass' = Passers /\ pass'[g] = j
      /\ \A h \in Passers \ {g} : pass'[h] = pass[h]
  BY DEF PassesOK, Goes
<1>2. \A h \in Passers : pass'[h].obj = pass[h].obj /\ (Busy(h)' <=> Busy(h))
  <2>1. j.at # "idle"
    BY DEF Passing
  <2>2. QED
    BY <1>1, <2>1 DEF Busy
<1>3. \A q \in WireGuards : Over(q)' = Over(q)
  BY <1>2 DEF Over
<1>4. PassesOK'
  BY <1>1, AtWork DEF PassesOK, Passers, Passing
<1>5. AloneOK'
  <2>1. ASSUME NEW h \in Passers \ beside', Busy(h)' PROVE (Over(owner[pass[h].obj]) = {h})'
    <3>1. PICK q \in WireGuards : q = owner[pass[h].obj]
      BY <1>2, <2>1, AtWork
    <3>2. Over(q) = {h}
      BY <1>2, <2>1, <3>1 DEF AloneOK
    <3>3. Over(q)' = {h} /\ owner'[pass'[h].obj] = q
      BY <1>2, <1>3, <3>1, <3>2
    <3>4. QED
      BY <3>3
  <2>2. ASSUME NEW q \in WireGuards \ unsettled' PROVE Over(q)' \cap beside' = {}
    <3>1. CASE q \notin unsettled
      BY <1>3, <2>2, <3>1 DEF AloneOK
    <3>2. CASE q \in unsettled
      <4>1. q = p /\ g \notin beside /\ Over(p) = {g}
        BY <2>2, <3>2 DEF AloneOK
      <4>2. QED
        BY <1>3, <4>1
    <3>3. QED
      BY <3>1, <3>2
  <2>3. QED
    BY <1>2, <2>1, <2>2 DEF AloneOK, Passers
<1>6. QED
  BY <1>1, <1>3, <1>4, <1>5

LEMMA PassEnds ==
    ASSUME ResolverAssumption, PassesOK, AloneOK, NEW g \in Passers, Busy(g), Ends(g),
           owner' = owner, unsettled \subseteq unsettled'
    PROVE  /\ PassesOK' /\ AloneOK' /\ \A q \in WireGuards : Over(q)' = Over(q) \ {g}
           /\ \A h \in Passers \ {g} : pass'[h] = pass[h]
           /\ pass'[g] = Idle /\ ~Busy(g)'
<1>1. /\ DOMAIN pass' = Passers /\ pass'[g] = Idle /\ beside' = beside \ {g}
      /\ \A h \in Passers \ {g} : pass'[h] = pass[h]
  BY DEF PassesOK, Ends
<1>2. ~Busy(g)' /\ \A h \in Passers \ {g} : Busy(h)' <=> Busy(h)
  BY <1>1, AtWork DEF Busy
<1>3. \A q \in WireGuards : Over(q)' = Over(q) \ {g}
  BY <1>1, <1>2 DEF Over
<1>4. PassesOK'
  BY <1>1, AtWork DEF PassesOK, Passers, Passing
<1>5. AloneOK'
  <2>1. ASSUME NEW h \in Passers \ beside', Busy(h)' PROVE (Over(owner[pass[h].obj]) = {h})'
    <3>1. h # g /\ Busy(h) /\ h \notin beside
      BY <1>1, <1>2, <2>1
    <3>2. PICK q \in WireGuards : q = owner[pass[h].obj]
      BY <3>1, AtWork
    <3>3. Over(q) = {h}
      BY <3>1, <3>2 DEF AloneOK
    <3>4. Over(q)' = {h} /\ owner'[pass'[h].obj] = q
      BY <1>1, <1>3, <3>1, <3>2, <3>3
    <3>5. QED
      BY <3>4
  <2>2. \A q \in WireGuards \ unsettled' : Over(q)' \cap beside' = {}
    BY <1>1, <1>3 DEF AloneOK
  <2>3. QED
    BY <1>1, <1>2, <2>1, <2>2 DEF AloneOK, Passers
<1>6. QED
  BY <1>1, <1>2, <1>3, <1>4, <1>5

\* Who passes over an object is over its profile.
LEMMA OverOf ==
    ASSUME PassesOK, NEW g \in Passers, NEW p \in WireGuards
    PROVE  g \in Over(p) <=> Busy(g) /\ owner[pass[g].obj] = p
BY DEF Over

LEMMA RegisterSteps ==
    ASSUME ResolverAssumption, ResolverInv, NEW c \in Callers, NEW p \in WireGuards,
           RegisterProfile(c, p)
    PROVE  ResolverInv'
<1>1. PICK s \in Objects :
         /\ Collectable(s) /\ table' = [table EXCEPT ![p] = s]
         /\ owner' = [owner EXCEPT ![s] = p] /\ seen' = [seen EXCEPT ![s] = {}]
         /\ Begins(c, s, p)
  BY DEF RegisterProfile
<1>2. /\ ~Busy(c) /\ UNCHANGED <<batch, leaving, iface, allowed, routes, astray>>
      /\ c \in Passers
  BY AtWork DEF RegisterProfile, ResolverInv, kernelVars
<1>3. /\ \A q \in WireGuards : table[q] # s
      /\ \A g \in Passers : pass[g].obj # s
      /\ s \notin batch
  BY <1>1 DEF Collectable
<1>4. /\ table'[p] = s /\ \A q \in WireGuards \ {p} : table'[q] = table[q]
      /\ owner'[s] = p /\ \A o \in Objects \ {s} : owner'[o] = owner[o]
      /\ seen'[s] = {} /\ \A o \in Objects \ {s} : seen'[o] = seen[o]
      /\ s # NoObject
  BY <1>1 DEF ResolverInv, ObjectsOK, ResolverAssumption
<1>5. /\ PassesOK' /\ AloneOK'
      /\ \A q \in WireGuards : Over(q)' = IF q = p THEN Over(p) \cup {c} ELSE Over(q)
      /\ \A h \in Passers \ {c} : pass'[h] = pass[h]
      /\ pass'[c].at = "lookup" /\ pass'[c].obj = s /\ pass'[c].fresh = FALSE
  BY <1>1, <1>2, <1>3, <1>4, PassBegins DEF ResolverInv
<1>6. /\ beside \subseteq beside'
      /\ unsettled' = IF Over(p) = {} THEN unsettled ELSE unsettled \cup {p}
  BY <1>1 DEF Begins
<1>7. ObjectsOK'
  <2>1. /\ table' \in [WireGuards -> Objects \cup {NoObject}]
        /\ owner' \in [Objects -> WireGuards \cup {NoObject}]
        /\ seen' \in [Objects -> SUBSET Cidrs]
    BY <1>1 DEF ResolverInv, ObjectsOK
  <2>2. \A q \in WireGuards : table'[q] # NoObject => owner'[table'[q]] = q
    BY <1>3, <1>4 DEF ResolverInv, ObjectsOK
  <2>3. \A o \in batch' : owner'[o] \in WireGuards
    BY <1>2, <1>3, <1>4 DEF ResolverInv, ObjectsOK
  <2>4. QED
    BY <1>2, <2>1, <2>2, <2>3 DEF ResolverInv, ObjectsOK
<1>8. AstrayOK'
  <2>1. \A o \in batch' : owner'[o] = owner[o]
    BY <1>2, <1>3, <1>4 DEF ResolverInv, ObjectsOK
  <2>2. QED
    BY <1>2, <1>4, <1>5, <2>1 DEF ResolverInv, AstrayOK
<1>9. ListOK'
  <2>1. ASSUME NEW g \in Passers \ beside', pass'[g].at = "set"
        PROVE  pass'[g].list = Essential[owner'[pass'[g].obj]] \cup seen'[pass'[g].obj]
    <3>1. g # c /\ g \notin beside /\ pass'[g] = pass[g] /\ Busy(g)
      BY <1>5, <1>6, <2>1 DEF Busy
    <3>2. pass[g].obj \in Objects \ {s}
      BY <1>3, <3>1, AtWork DEF ResolverInv, Passing
    <3>3. QED
      BY <1>4, <2>1, <3>1, <3>2 DEF ResolverInv, ListOK
  <2>2. QED
    BY <2>1 DEF ListOK, Passers
<1>10. AllowedOK'
  <2>1. ASSUME NEW q \in iface \ unsettled', table'[q] # NoObject
        PROVE  \/ Lets(q)'
               \/ \E g \in Over(q)' : /\ pass'[g].obj = table'[q]
                                      /\ pass'[g].at = "set" \/ (pass'[g].at = "lookup" /\ pass'[g].fresh)
    <3>1. CASE q = p
      BY <1>4, <3>1 DEF Lets
    <3>2. CASE q # p
      <4>1. q \in WireGuards /\ q \notin unsettled /\ table[q] # NoObject
            /\ table[q] \in Objects \ {s} /\ Over(q)' = Over(q) /\ c \notin Over(q)
        BY <1>2, <1>3, <1>4, <1>5, <1>6, <2>1, <3>2 DEF ResolverInv, ObjectsOK, Over
      <4>2. Over(q) \subseteq Passers
        BY DEF Over
      <4>3. CASE Lets(q)
        BY <1>2, <1>4, <3>2, <4>1, <4>3 DEF Lets
      <4>4. CASE ~Lets(q)
        <5>1. PICK g \in Over(q) : /\ pass[g].obj = table[q]
                                   /\ pass[g].at = "set" \/ (pass[g].at = "lookup" /\ pass[g].fresh)
          BY <2>1, <4>1, <4>4 DEF ResolverInv, AllowedOK
        <5>2. pass'[g] = pass[g] /\ table'[q] = table[q] /\ g \in Over(q)'
          BY <1>4, <1>5, <3>2, <4>1, <4>2
        <5>3. QED
          BY <5>1, <5>2
      <4>5. QED
        BY <4>3, <4>4
    <3>3. QED
      BY <3>1, <3>2
  <2>2. QED
    BY <1>2, <2>1 DEF AllowedOK
<1>11. RoutesGoWithProfile'
  BY <1>2, <1>4 DEF ResolverInv, RoutesGoWithProfile, Unregistering
<1>12. QED
  BY <1>5, <1>7, <1>8, <1>9, <1>10, <1>11 DEF ResolverInv

\* Nobody begins, goes on or ends.
LEMMA NobodyMoves ==
    ASSUME PassesOK, AloneOK, UNCHANGED <<pass, owner, beside>>, unsettled \subseteq unsettled'
    PROVE  /\ PassesOK' /\ AloneOK'
           /\ \A q \in WireGuards : Over(q)' = Over(q)
           /\ \A q \in WireGuards : Over(q) \subseteq Passers
<1>1. \A q \in WireGuards : Over(q)' = Over(q) /\ Over(q) \subseteq Passers
  BY DEF Over, Busy, Passers
<1>2. \A g \in Passers : Busy(g)' <=> Busy(g)
  BY DEF Busy
<1>3. PassesOK'
  BY DEF PassesOK, Passers, Passing
<1>4. AloneOK'
  <2>1. ASSUME NEW h \in Passers \ beside', Busy(h)' PROVE (Over(owner[pass[h].obj]) = {h})'
    <3>1. pass[h] # Idle
      BY <1>2, <2>1 DEF Busy, Idle
    <3>2. PICK q \in WireGuards : q = owner[pass[h].obj]
      BY <3>1 DEF PassesOK
    <3>3. Over(q)' = {h} /\ owner'[pass'[h].obj] = q
      BY <1>1, <1>2, <2>1, <3>2 DEF AloneOK
    <3>4. QED
      BY <3>3
  <2>2. \A q \in WireGuards \ unsettled' : Over(q)' \cap beside' = {}
    BY <1>1 DEF AloneOK
  <2>3. QED
    BY <1>2, <2>1, <2>2 DEF AloneOK, Passers
<1>5. QED
  BY <1>1, <1>3, <1>4

LEMMA UnregisterSteps ==
    ASSUME ResolverAssumption, ResolverInv, NEW c \in Callers, NEW p \in WireGuards,
           UnregisterProfile(c, p)
    PROVE  ResolverInv'
<1>1. /\ table' = [table EXCEPT ![p] = NoObject]
      /\ leaving' = [leaving EXCEPT ![c] = p]
      /\ astray' = IF Over(p) = {} /\ batch \cap {s \in Objects : owner[s] = p} = {}
                   THEN astray \ {p} ELSE astray \cup {p}
      /\ leaving[c] = NoObject
      /\ UNCHANGED <<owner, seen, pass, batch, iface, allowed, routes, unsettled, beside>>
  BY DEF UnregisterProfile, kernelVars
<1>2. /\ PassesOK' /\ AloneOK'
      /\ \A q \in WireGuards : Over(q)' = Over(q) /\ Over(q) \subseteq Passers
  BY <1>1, NobodyMoves DEF ResolverInv
<1>3. /\ table'[p] = NoObject /\ \A q \in WireGuards \ {p} : table'[q] = table[q]
      /\ leaving'[c] = p /\ \A d \in Callers \ {c} : leaving'[d] = leaving[d]
  BY <1>1 DEF ResolverInv, ObjectsOK
<1>4. ObjectsOK'
  BY <1>1, <1>3 DEF ResolverInv, ObjectsOK
<1>5. AstrayOK'
  <2>1. ASSUME NEW q \in WireGuards, table'[q] = NoObject, q \notin astray'
        PROVE  Over(q)' = {} /\ \A s \in batch' : owner'[s] # q
    <3>1. CASE q = p
      <4>1. Over(p) = {} /\ batch \cap {s \in Objects : owner[s] = p} = {}
        BY <1>1, <2>1, <3>1
      <4>2. QED
        BY <1>1, <1>2, <3>1, <4>1 DEF ResolverInv, ObjectsOK
    <3>2. CASE q # p
      <4>1. q \notin astray
        BY <1>1, <2>1, <3>2
      <4>2. QED
        BY <1>1, <1>2, <1>3, <2>1, <3>2, <4>1 DEF ResolverInv, AstrayOK
    <3>3. QED
      BY <3>1, <3>2
  <2>2. QED
    BY <2>1 DEF AstrayOK
<1>6. ListOK'
  BY <1>1 DEF ResolverInv, ListOK, Passers
<1>7. AllowedOK'
  <2>1. ASSUME NEW q \in iface \ unsettled, table'[q] # NoObject
        PROVE  \/ Lets(q)'
               \/ \E g \in Over(q)' : /\ pass'[g].obj = table'[q]
                                      /\ pass'[g].at = "set" \/ (pass'[g].at = "lookup" /\ pass'[g].fresh)
    <3>1. q \in WireGuards /\ table'[q] = table[q]
      BY <1>3, <2>1 DEF ResolverInv, ObjectsOK
    <3>2. QED
      BY <1>1, <1>2, <2>1, <3>1 DEF ResolverInv, AllowedOK, Lets
  <2>2. QED
    BY <1>1, <2>1 DEF AllowedOK
<1>8. RoutesGoWithProfile'
  <2>1. ASSUME NEW q \in WireGuards, table'[q] = NoObject, ~Unregistering(q)', q \notin astray'
        PROVE  routes'[q] \subseteq V6
    <3>1. q # p
      BY <1>3, <2>1 DEF Unregistering
    <3>2. ~Unregistering(q) /\ q \notin astray /\ table[q] = NoObject
      <4>1. \A d \in Callers : leaving[d] # q \/ d = c
        BY <1>3, <2>1 DEF Unregistering
      <4>2. NoObject # q
        BY DEF ResolverAssumption
      <4>3. QED
        BY <1>1, <1>3, <2>1, <3>1, <4>1, <4>2 DEF Unregistering
    <3>3. QED
      BY <1>1, <3>2 DEF ResolverInv, RoutesGoWithProfile
  <2>2. QED
    BY <2>1 DEF RoutesGoWithProfile
<1>9. QED
  BY <1>2, <1>4, <1>5, <1>6, <1>7, <1>8 DEF ResolverInv

\* What neither works on a profile nor takes it in or out of the table.
LEMMA ElsewhereSteps ==
    ASSUME ResolverInv, UNCHANGED <<table, owner, seen, pass, beside>>,
           batch' \subseteq Objects, \A s \in batch' : owner[s] \in WireGuards,
           \A s \in batch' : owner[s] \in astray' \/ table[owner[s]] # NoObject,
           DOMAIN leaving' = Callers, iface' \subseteq WireGuards,
           DOMAIN allowed' = WireGuards, DOMAIN routes' = WireGuards,
           astray \subseteq astray', unsettled \subseteq unsettled',
           \A q \in iface' \ unsettled' : q \in iface /\ allowed'[q] = allowed[q],
           \A q \in WireGuards :
              \/ routes'[q] \subseteq V6
              \/ routes'[q] = routes[q] /\ (Unregistering(q) => Unregistering(q)' \/ q \in astray')
    PROVE  ResolverInv'
<1>1. /\ PassesOK' /\ AloneOK'
      /\ \A q \in WireGuards : Over(q)' = Over(q) /\ Over(q) \subseteq Passers
  BY NobodyMoves DEF ResolverInv
<1>2. ObjectsOK'
  BY DEF ResolverInv, ObjectsOK
<1>3. AstrayOK'
  BY <1>1 DEF ResolverInv, AstrayOK
<1>4. ListOK'
  BY DEF ResolverInv, ListOK, Passers
<1>5. AllowedOK'
  <2>1. ASSUME NEW q \in iface' \ unsettled', table'[q] # NoObject
        PROVE  \/ Lets(q)'
               \/ \E g \in Over(q)' : /\ pass'[g].obj = table'[q]
                                      /\ pass'[g].at = "set" \/ (pass'[g].at = "lookup" /\ pass'[g].fresh)
    <3>1. q \in iface \ unsettled /\ q \in WireGuards /\ allowed'[q] = allowed[q]
      BY <2>1
    <3>2. QED
      BY <1>1, <2>1, <3>1 DEF ResolverInv, AllowedOK, Lets
  <2>2. QED
    BY <2>1 DEF AllowedOK
<1>6. RoutesGoWithProfile'
  BY DEF ResolverInv, RoutesGoWithProfile
<1>7. QED
  BY <1>1, <1>2, <1>3, <1>4, <1>5, <1>6 DEF ResolverInv

LEMMA FlushSteps ==
    ASSUME ResolverAssumption, ResolverInv, NEW c \in Callers, Flush(c)
    PROVE  ResolverInv'
<1>1. PICK p : p = leaving[c]
  OBVIOUS
<1>2. /\ \/ routes' = [routes EXCEPT ![p] = routes[p] \cap V6] /\ astray' = astray
         \/ routes' = routes /\ astray' = astray \cup {p}
      /\ leaving' = [leaving EXCEPT ![c] = NoObject]
      /\ UNCHANGED <<table, owner, seen, pass, beside, batch, iface, allowed, unsettled>>
  BY <1>1 DEF Flush, Flushed, tableVars
<1>3. /\ leaving'[c] = NoObject /\ \A d \in Callers \ {c} : leaving'[d] = leaving[d]
      /\ DOMAIN routes' = WireGuards /\ DOMAIN leaving' = Callers
      /\ \A q \in WireGuards \ {p} : routes'[q] = routes[q]
  BY <1>2 DEF ResolverInv, ObjectsOK
<1>4. \A q \in WireGuards \ {p} : Unregistering(q) => Unregistering(q)'
  BY <1>1, <1>3 DEF Unregistering
<1>5. p \in WireGuards => routes'[p] \subseteq V6 \/ (routes'[p] = routes[p] /\ p \in astray')
  BY <1>2 DEF ResolverInv, ObjectsOK
<1>6. \A s \in batch : owner[s] \in astray \/ table[owner[s]] # NoObject
  BY DEF ResolverInv, ObjectsOK, AstrayOK
<1>7. \A q \in WireGuards :
         \/ routes'[q] \subseteq V6
         \/ routes'[q] = routes[q] /\ (Unregistering(q) => Unregistering(q)' \/ q \in astray')
  BY <1>3, <1>4, <1>5
<1>8. astray \subseteq astray'
  BY <1>2
<1>9. /\ batch \subseteq Objects /\ \A s \in batch : owner[s] \in WireGuards
      /\ iface \subseteq WireGuards /\ DOMAIN allowed = WireGuards
  BY DEF ResolverInv, ObjectsOK
<1>10. QED
  BY <1>2, <1>3, <1>6, <1>7, <1>8, <1>9, ElsewhereSteps

\* A pass finds networks for its object, or makes a list of them; nothing else
\* changes.
Finds(g, s, j) ==
    /\ pass[g].at = "lookup"
    /\ seen' \in [Objects -> SUBSET Cidrs] /\ \A o \in Objects \ {s} : seen'[o] = seen[o]
    /\ seen'[s] = seen[s] \/ (j.at = "lookup" /\ j.fresh)
    /\ pass[g].fresh => j.at = "set" \/ (j.at = "lookup" /\ j.fresh)
    /\ j.at = "set" => j.list = Essential[owner[s]] \cup seen'[s]
    /\ UNCHANGED <<table, owner, batch, leaving, kernelVars, astray, unsettled, beside>>

LEMMA PassSteps ==
    ASSUME ResolverAssumption, ResolverInv, NEW g \in Passers, Busy(g),
           NEW s \in Objects, s = pass[g].obj, NEW j \in Passing, j.obj = s, Goes(g, j),
           Finds(g, s, j)
    PROVE  ResolverInv'
<1>1. /\ pass[g].at = "lookup"
      /\ seen' \in [Objects -> SUBSET Cidrs] /\ \A o \in Objects \ {s} : seen'[o] = seen[o]
      /\ seen'[s] = seen[s] \/ (j.at = "lookup" /\ j.fresh)
      /\ pass[g].fresh => j.at = "set" \/ (j.at = "lookup" /\ j.fresh)
      /\ j.at = "set" => j.list = Essential[owner[s]] \cup seen'[s]
      /\ UNCHANGED <<table, owner, batch, leaving, kernelVars, astray, unsettled, beside>>
  BY DEF Finds
<1>2. PICK p \in WireGuards : p = owner[s]
  BY <1>1, AtWork DEF ResolverInv
<1>3. /\ PassesOK' /\ AloneOK' /\ \A q \in WireGuards : Over(q)' = Over(q)
      /\ \A h \in Passers \ {g} : pass'[h] = pass[h]
      /\ pass'[g] = j
  <2>1. PassesOK /\ AloneOK /\ p = owner[pass[g].obj]
    BY <1>1, <1>2 DEF ResolverInv
  <2>2. QED
    BY <1>1, <1>2, <2>1, PassGoes
<1>4. UNCHANGED <<iface, allowed, routes>>
  BY <1>1 DEF kernelVars
<1>5. ObjectsOK'
  BY <1>1, <1>4 DEF ResolverInv, ObjectsOK
<1>6. AstrayOK'
  BY <1>1, <1>3 DEF ResolverInv, AstrayOK
<1>7. g \in Over(p)
  BY <1>1, <1>2 DEF Over
<1>8. ListOK'
  <2>1. ASSUME NEW h \in Passers \ beside', pass'[h].at = "set"
        PROVE  pass'[h].list = Essential[owner'[pass'[h].obj]] \cup seen'[pass'[h].obj]
    <3>1. CASE h = g
      BY <1>1, <1>3, <2>1, <3>1
    <3>2. CASE h # g
      <4>1. pass'[h] = pass[h] /\ Busy(h) /\ h \notin beside
        BY <1>1, <1>3, <2>1, <3>2 DEF Busy
      <4>2. pass[h].obj \in Objects /\ pass[h].obj # s
        BY <1>1, <1>2, <1>7, <3>2, <4>1, AtWork DEF ResolverInv, AloneOK, Passing
      <4>3. QED
        BY <1>1, <2>1, <4>1, <4>2 DEF ResolverInv, ListOK
    <3>3. QED
      BY <1>1, <3>1, <3>2
  <2>2. QED
    BY <1>1, <2>1 DEF ListOK, Passers
<1>9. AllowedOK'
  <2>1. ASSUME NEW q \in iface \ unsettled, table'[q] # NoObject
        PROVE  \/ Lets(q)'
               \/ \E h \in Over(q)' : /\ pass'[h].obj = table'[q]
                                      /\ pass'[h].at = "set" \/ (pass'[h].at = "lookup" /\ pass'[h].fresh)
    <3>1. q \in WireGuards /\ table[q] # NoObject /\ table[q] \in Objects
      BY <1>1, <2>1 DEF ResolverInv, ObjectsOK
    <3>2. CASE table[q] = s /\ j.at = "lookup" /\ j.fresh
      <4>1. q = p
        BY <1>1, <1>2, <3>1, <3>2 DEF ResolverInv, ObjectsOK
      <4>2. g \in Over(q)'
        BY <1>1, <1>3, <1>7, <4>1
      <4>3. QED
        BY <1>1, <1>3, <3>2, <4>2
    <3>3. CASE ~(table[q] = s /\ j.at = "lookup" /\ j.fresh)
      <4>1. seen'[table[q]] = seen[table[q]]
        BY <1>1, <3>1, <3>3
      <4>2. CASE Lets(q)
        BY <1>1, <1>4, <4>1, <4>2 DEF Lets
      <4>3. CASE ~Lets(q)
        <5>1. PICK h \in Over(q) : /\ pass[h].obj = table[q]
                                   /\ pass[h].at = "set" \/ (pass[h].at = "lookup" /\ pass[h].fresh)
          BY <1>1, <2>1, <3>1, <4>3 DEF ResolverInv, AllowedOK
        <5>2. h \in Over(q)' /\ pass'[h].obj = table[q] /\ h \in Passers
          BY <1>1, <1>3, <3>1, <5>1 DEF Over
        <5>3. pass'[h].at = "set" \/ (pass'[h].at = "lookup" /\ pass'[h].fresh)
          BY <1>1, <1>3, <5>1, <5>2
        <5>4. QED
          BY <1>1, <5>2, <5>3
      <4>4. QED
        BY <1>1, <4>2, <4>3
    <3>4. QED
      BY <1>1, <3>2, <3>3
  <2>2. QED
    BY <1>1, <1>4, <2>1 DEF AllowedOK
<1>10. RoutesGoWithProfile'
  BY <1>1, <1>4 DEF ResolverInv, RoutesGoWithProfile, Unregistering
<1>11. QED
  BY <1>1, <1>3, <1>5, <1>6, <1>8, <1>9, <1>10 DEF ResolverInv

LEMMA LookupSteps ==
    ASSUME ResolverAssumption, ResolverInv, NEW g \in Passers, Lookup(g)
    PROVE  ResolverInv'
<1>1. Busy(g) /\ pass[g].at = "lookup"
  BY DEF Lookup, Busy
<1>2. PICK i \in Passing : i = pass[g]
  BY <1>1, AtWork DEF ResolverInv
<1>3. PICK s \in Objects : s = i.obj
  BY DEF Passing
<1>4. PICK d \in i.left, ips \in SUBSET UNION {Answers[x] : x \in i.left} :
         /\ ips \subseteq Answers[d]
         /\ seen' = [seen EXCEPT ![s] = @ \cup Usable(ips)]
         /\ pass' = [pass EXCEPT ![g] =
               [pass[g] EXCEPT !.left = @ \ {d}, !.fresh = @ \/ ~(Usable(ips) \subseteq seen[s])]]
  BY <1>2, <1>3 DEF Lookup
<1>5. PICK found : found = Usable(ips)
  OBVIOUS
<1>6. PICK j : j = [pass[g] EXCEPT !.left = @ \ {d}, !.fresh = @ \/ ~(Usable(ips) \subseteq seen[s])]
  OBVIOUS
<1>7. j = [i EXCEPT !.left = @ \ {d}, !.fresh = @ \/ ~(found \subseteq seen[s])]
  BY <1>2, <1>5, <1>6
<1>8. found \in SUBSET Cidrs
  <2>1. d \in DOMAIN Answers
    BY <1>4 DEF Passing
  <2>2. QED
    BY <1>4, <1>5, <2>1 DEF Usable, Cidrs
<1>9. j \in Passing /\ j.obj = s /\ j.at = "lookup"
  BY <1>1, <1>2, <1>3, <1>7 DEF Passing
<1>10. j.fresh = (i.fresh \/ ~(found \subseteq seen[s]))
  BY <1>7 DEF Passing
<1>11. Goes(g, j)
  <2>1. pass' = [pass EXCEPT ![g] = [pass[g] EXCEPT !.left = @ \ {d}, !.fresh = @ \/ ~(Usable(ips) \subseteq seen[s])]]
    BY <1>4
  <2>2. QED
    BY <1>6, <2>1 DEF Goes
<1>12. /\ seen' \in [Objects -> SUBSET Cidrs] /\ \A o \in Objects \ {s} : seen'[o] = seen[o]
       /\ seen'[s] = seen[s] \cup found
  BY <1>4, <1>5, <1>8 DEF ResolverInv, ObjectsOK
<1>13. UNCHANGED <<table, owner, batch, leaving, kernelVars, astray, unsettled, beside>>
  BY DEF Lookup
<1>14. seen'[s] = seen[s] \/ (j.at = "lookup" /\ j.fresh)
  BY <1>9, <1>10, <1>12
<1>15. /\ s = pass[g].obj /\ (pass[g].fresh => j.at = "set" \/ (j.at = "lookup" /\ j.fresh))
       /\ j.at = "set" => j.list = Essential[owner[s]] \cup seen'[s]
  BY <1>2, <1>3, <1>9, <1>10
<1>16. Finds(g, s, j)
  BY <1>1, <1>12, <1>13, <1>14, <1>15 DEF Finds
<1>17. QED
  BY <1>1, <1>9, <1>11, <1>15, <1>16, PassSteps

LEMMA BuildSteps ==
    ASSUME ResolverAssumption, ResolverInv, NEW g \in Passers, Build(g)
    PROVE  ResolverInv'
<1>1. Busy(g) /\ pass[g].at = "lookup"
  BY DEF Build, Busy
<1>2. PICK i \in Passing : i = pass[g] /\ owner[i.obj] \in WireGuards
  BY <1>1, AtWork DEF ResolverInv
<1>3. PICK s \in Objects : s = i.obj
  BY DEF Passing
<1>4. PICK list : list = Essential[owner[s]] \cup seen[s]
  OBVIOUS
<1>5. PICK at : at = IF i.fresh THEN "set" ELSE "route"
  OBVIOUS
<1>6. PICK j : j = [i EXCEPT !.at = at, !.list = list]
  OBVIOUS
<1>7. list \in SUBSET Cidrs
  <2>1. PICK p \in WireGuards : p = owner[s]
    BY <1>2, <1>3
  <2>2. Essential[p] \subseteq Cidrs
    <3>1. Essential[p] \cup Conf[p] \in {Essential[q] \cup Conf[q] : q \in WireGuards}
      OBVIOUS
    <3>2. QED
      <4>1. Essential[p] \subseteq UNION {Essential[q] \cup Conf[q] : q \in WireGuards}
        BY <3>1
      <4>2. QED
        BY <4>1 DEF Cidrs
  <2>3. seen[s] \subseteq Cidrs
    BY DEF ResolverInv, ObjectsOK
  <2>4. QED
    BY <1>4, <2>1, <2>2, <2>3
<1>8. at \in {"set", "route"}
  BY <1>5
<1>9. j \in Passing /\ j.obj = s /\ j.at = at /\ j.list = list
  BY <1>3, <1>6, <1>7, <1>8 DEF Passing
<1>11. Goes(g, j)
  BY <1>2, <1>3, <1>4, <1>5, <1>6 DEF Goes, Build, BuildAllowedIPs, ResolverInv, PassesOK
<1>12. /\ UNCHANGED <<table, owner, batch, leaving, kernelVars, astray, unsettled, beside>>
       /\ seen' = seen
  BY DEF Build, tableVars
<1>13. /\ seen' \in [Objects -> SUBSET Cidrs] /\ \A o \in Objects \ {s} : seen'[o] = seen[o]
       /\ seen'[s] = seen[s]
  BY <1>12 DEF ResolverInv, ObjectsOK
<1>14. i.fresh => j.at = "set"
  BY <1>5, <1>9
<1>15. j.list = Essential[owner[s]] \cup seen'[s]
  BY <1>4, <1>9, <1>12
<1>16. /\ s = pass[g].obj /\ (pass[g].fresh => j.at = "set" \/ (j.at = "lookup" /\ j.fresh))
       /\ j.at = "set" => j.list = Essential[owner[s]] \cup seen'[s]
  BY <1>2, <1>3, <1>14, <1>15
<1>17. Finds(g, s, j)
  BY <1>1, <1>12, <1>13, <1>16 DEF Finds
<1>18. QED
  BY <1>1, <1>9, <1>11, <1>16, <1>17, PassSteps

\* A pass over p's object ends: after its routes are set, or with a `wg set` that
\* failed.
Leaves(g, p) ==
    /\ Ends(g)
    /\ pass[g].at = "route" \/ p \in unsettled'
    /\ unsettled \subseteq unsettled'
    /\ DOMAIN routes' = WireGuards /\ \A q \in WireGuards \ {p} : routes'[q] = routes[q]
    /\ UNCHANGED <<table, owner, seen, batch, leaving, iface, allowed, astray>>

LEMMA LastSteps ==
    ASSUME ResolverAssumption, ResolverInv, NEW g \in Passers, Busy(g),
           NEW p \in WireGuards, p = owner[pass[g].obj], Leaves(g, p)
    PROVE  ResolverInv'
<1>1. /\ Ends(g) /\ (pass[g].at = "route" \/ p \in unsettled')
      /\ unsettled \subseteq unsettled'
      /\ DOMAIN routes' = WireGuards /\ \A q \in WireGuards \ {p} : routes'[q] = routes[q]
      /\ UNCHANGED <<table, owner, seen, batch, leaving, iface, allowed, astray>>
  BY DEF Leaves
<1>2. /\ PassesOK' /\ AloneOK' /\ \A q \in WireGuards : Over(q)' = Over(q) \ {g}
      /\ \A h \in Passers \ {g} : pass'[h] = pass[h]
      /\ pass'[g] = Idle
  BY <1>1, PassEnds DEF ResolverInv
<1>3. ObjectsOK'
  BY <1>1 DEF ResolverInv, ObjectsOK
<1>4. AstrayOK'
  BY <1>1, <1>2 DEF ResolverInv, AstrayOK
<1>5. ListOK'
  <2>1. ASSUME NEW h \in Passers \ beside', pass'[h].at = "set"
        PROVE  pass'[h].list = Essential[owner'[pass'[h].obj]] \cup seen'[pass'[h].obj]
    <3>1. h # g /\ h \notin beside /\ pass'[h] = pass[h]
      BY <1>1, <1>2, <2>1, AtWork DEF ResolverInv, Ends
    <3>2. QED
      BY <1>1, <2>1, <3>1 DEF ResolverInv, ListOK
  <2>2. QED
    BY <2>1 DEF ListOK, Passers
<1>6. AllowedOK'
  <2>1. ASSUME NEW q \in iface \ unsettled', table'[q] # NoObject
        PROVE  \/ Lets(q)'
               \/ \E h \in Over(q)' : /\ pass'[h].obj = table'[q]
                                      /\ pass'[h].at = "set" \/ (pass'[h].at = "lookup" /\ pass'[h].fresh)
    <3>1. q \in WireGuards /\ q \in iface \ unsettled /\ table[q] # NoObject
      BY <1>1, <2>1 DEF ResolverInv, ObjectsOK
    <3>2. CASE Lets(q)
      BY <1>1, <3>2 DEF Lets
    <3>3. CASE ~Lets(q)
      <4>1. PICK h \in Over(q) : /\ pass[h].obj = table[q]
                                 /\ pass[h].at = "set" \/ (pass[h].at = "lookup" /\ pass[h].fresh)
        BY <3>1, <3>3 DEF ResolverInv, AllowedOK
      <4>2. h \in Passers /\ owner[pass[h].obj] = q
        BY DEF Over
      <4>3. h # g
        BY <1>1, <2>1, <4>1, <4>2
      <4>4. h \in Over(q)' /\ pass'[h] = pass[h]
        BY <1>2, <3>1, <4>1, <4>2, <4>3
      <4>5. QED
        BY <1>1, <4>1, <4>4
    <3>4. QED
      BY <3>2, <3>3
  <2>2. QED
    BY <1>1, <2>1 DEF AllowedOK
<1>7. RoutesGoWithProfile'
  <2>1. table[p] = NoObject => p \in astray
    BY DEF Over, ResolverInv, AstrayOK
  <2>2. QED
    BY <1>1, <2>1 DEF ResolverInv, RoutesGoWithProfile, Unregistering
<1>8. QED
  BY <1>2, <1>3, <1>4, <1>5, <1>6, <1>7 DEF ResolverInv

LEMMA WgSetSteps ==
    ASSUME ResolverAssumption, ResolverInv, NEW g \in Passers, WgSet(g)
    PROVE  ResolverInv'
<1>1. Busy(g) /\ pass[g].at = "set"
  BY DEF WgSet, Busy
<1>2. PICK i \in Passing : i = pass[g] /\ owner[i.obj] \in WireGuards
  BY <1>1, AtWork DEF ResolverInv
<1>3. PICK p \in WireGuards : p = owner[pass[g].obj]
  BY <1>2
<1>4. UNCHANGED <<table, owner, seen, batch, leaving, iface, routes, astray>>
  BY DEF WgSet, tableVars
<1>5. CASE /\ p \in iface /\ allowed' = [allowed EXCEPT ![p] = pass[g].list]
           /\ pass' = [pass EXCEPT ![g].at = "route"]
           /\ unsettled' = IF g \notin beside /\ table[p] = pass[g].obj
                           THEN unsettled \ {p} ELSE unsettled \cup {p}
           /\ UNCHANGED beside
  <2>1. PICK j : j = [i EXCEPT !.at = "route"]
    OBVIOUS
  <2>2. j \in Passing /\ j.obj = pass[g].obj /\ j.at = "route"
    BY <1>2, <2>1 DEF Passing
  <2>3. Goes(g, j)
    BY <1>2, <1>5, <2>1 DEF Goes, ResolverInv, PassesOK
  <2>4. /\ UNCHANGED <<owner, beside>>
        /\ unsettled \subseteq unsettled' \cup {p} /\ (p \in unsettled \ unsettled' => g \notin beside)
    BY <1>4, <1>5
  <2>5. /\ PassesOK' /\ AloneOK' /\ \A q \in WireGuards : Over(q)' = Over(q)
        /\ \A h \in Passers \ {g} : pass'[h] = pass[h]
        /\ pass'[g] = j
    BY <1>1, <1>3, <2>2, <2>3, <2>4, PassGoes DEF ResolverInv
  <2>6. /\ DOMAIN allowed' = WireGuards /\ allowed'[p] = i.list
        /\ \A q \in WireGuards \ {p} : allowed'[q] = allowed[q]
    BY <1>2, <1>5 DEF ResolverInv, ObjectsOK
  <2>7. ObjectsOK'
    BY <1>4, <2>6 DEF ResolverInv, ObjectsOK
  <2>8. AstrayOK'
    BY <1>4, <2>5 DEF ResolverInv, AstrayOK
  <2>9. ListOK'
    BY <1>4, <1>5, <2>2, <2>5 DEF ResolverInv, ListOK, Passers
  <2>10. AllowedOK'
    <3>1. ASSUME NEW q \in iface \ unsettled', table'[q] # NoObject
          PROVE  \/ Lets(q)'
                 \/ \E h \in Over(q)' : /\ pass'[h].obj = table'[q]
                                        /\ pass'[h].at = "set" \/ (pass'[h].at = "lookup" /\ pass'[h].fresh)
      <4>1. CASE q = p
        <5>1. g \notin beside /\ table[p] = pass[g].obj
          BY <1>5, <3>1, <4>1
        <5>2. i.list = Essential[p] \cup seen[table[p]]
          BY <1>1, <1>2, <1>3, <5>1 DEF ResolverInv, ListOK
        <5>3. Lets(p)'
          BY <1>4, <2>6, <5>2 DEF Lets
        <5>4. QED
          BY <4>1, <5>3
      <4>2. CASE q # p
        <5>1. /\ q \in WireGuards /\ q \in iface \ unsettled /\ table[q] # NoObject
              /\ allowed'[q] = allowed[q]
          BY <1>4, <1>5, <2>6, <3>1, <4>2 DEF ResolverInv, ObjectsOK
        <5>2. CASE Lets(q)
          BY <1>4, <5>1, <5>2 DEF Lets
        <5>3. CASE ~Lets(q)
          <6>1. PICK h \in Over(q) : /\ pass[h].obj = table[q]
                                     /\ pass[h].at = "set" \/ (pass[h].at = "lookup" /\ pass[h].fresh)
            BY <5>1, <5>3 DEF ResolverInv, AllowedOK
          <6>2. h \in Passers /\ h # g
            BY <1>3, <4>2 DEF Over
          <6>3. h \in Over(q)' /\ pass'[h] = pass[h]
            BY <2>5, <5>1, <6>2
          <6>4. QED
            BY <1>4, <6>1, <6>3
        <5>4. QED
          BY <5>2, <5>3
      <4>3. QED
        BY <4>1, <4>2
    <3>2. QED
      BY <1>4, <3>1 DEF AllowedOK
  <2>11. RoutesGoWithProfile'
    BY <1>4 DEF ResolverInv, RoutesGoWithProfile, Unregistering
  <2>12. QED
    BY <2>5, <2>7, <2>8, <2>9, <2>10, <2>11 DEF ResolverInv
<1>6. CASE Ends(g) /\ unsettled' = unsettled \cup {p} /\ UNCHANGED allowed
  <2>1. DOMAIN routes = WireGuards
    BY DEF ResolverInv, ObjectsOK
  <2>2. Leaves(g, p)
    BY <1>4, <1>6, <2>1 DEF Leaves
  <2>3. QED
    BY <1>1, <1>3, <2>2, LastSteps
<1>7. QED
  BY <1>3, <1>5, <1>6 DEF WgSet

LEMMA RouteSteps ==
    ASSUME ResolverAssumption, ResolverInv, NEW g \in Passers, AddOSRoutes(g)
    PROVE  ResolverInv'
<1>1. Busy(g) /\ pass[g].at = "route"
  BY DEF AddOSRoutes, Busy
<1>2. PICK p \in WireGuards : p = owner[pass[g].obj]
  BY <1>1, AtWork DEF ResolverInv
<1>3. PICK added : routes' = [routes EXCEPT ![p] = @ \cup added]
  BY <1>2 DEF AddOSRoutes
<1>4. DOMAIN routes' = WireGuards /\ \A q \in WireGuards \ {p} : routes'[q] = routes[q]
  BY <1>3 DEF ResolverInv, ObjectsOK
<1>5. Ends(g) /\ UNCHANGED <<table, owner, seen, batch, leaving, iface, allowed, astray, unsettled>>
  BY DEF AddOSRoutes, tableVars
<1>6. Leaves(g, p)
  BY <1>1, <1>4, <1>5 DEF Leaves
<1>7. QED
  BY <1>1, <1>2, <1>6, LastSteps

LEMMA NextObjectSteps ==
    ASSUME ResolverAssumption, ResolverInv, NextObject
    PROVE  ResolverInv'
<1>1. PICK s \in batch : batch' = batch \ {s} /\ Begins(Loop, s, owner[s])
  BY DEF NextObject
<1>2. /\ ~Busy(Loop) /\ Loop \in Passers
      /\ UNCHANGED <<table, owner, seen, leaving, iface, allowed, routes, astray>>
  BY AtWork DEF NextObject, tableVars, kernelVars, ResolverInv
<1>3. PICK p \in WireGuards : p = owner[s]
  BY DEF ResolverInv, ObjectsOK
<1>4. s \in Objects
  BY DEF ResolverInv, ObjectsOK
<1>5. /\ Begins(Loop, s, p) /\ owner'[s] = p /\ owner' = owner
      /\ ObjectsOK /\ PassesOK /\ AloneOK
      /\ \A o \in Objects \ {s} : owner'[o] = owner[o]
  BY <1>1, <1>2, <1>3 DEF ResolverInv
<1>6. /\ PassesOK' /\ AloneOK'
      /\ \A q \in WireGuards : Over(q)' = IF q = p THEN Over(p) \cup {Loop} ELSE Over(q)
      /\ \A h \in Passers \ {Loop} : pass'[h] = pass[h]
      /\ pass'[Loop].at = "lookup"
  BY <1>2, <1>4, <1>5, PassBegins, ZenonT(120)
<1>7. beside \subseteq beside' /\ unsettled \subseteq unsettled'
  BY <1>5 DEF Begins
<1>8. ObjectsOK'
  BY <1>1, <1>2 DEF ResolverInv, ObjectsOK
<1>9. AstrayOK'
  <2>1. ASSUME NEW q \in WireGuards, table'[q] = NoObject, q \notin astray'
        PROVE  Over(q)' = {} /\ \A o \in batch' : owner'[o] # q
    <3>1. Over(q) = {} /\ \A o \in batch : owner[o] # q
      BY <1>2, <2>1 DEF ResolverInv, AstrayOK
    <3>2. q # p
      BY <1>3, <3>1
    <3>3. QED
      BY <1>1, <1>2, <1>6, <3>1, <3>2
  <2>2. QED
    BY <2>1 DEF AstrayOK
<1>10. ListOK'
  <2>1. ASSUME NEW h \in Passers \ beside', pass'[h].at = "set"
        PROVE  pass'[h].list = Essential[owner'[pass'[h].obj]] \cup seen'[pass'[h].obj]
    <3>1. h # Loop /\ h \notin beside /\ pass'[h] = pass[h]
      BY <1>6, <1>7, <2>1
    <3>2. QED
      BY <1>2, <2>1, <3>1 DEF ResolverInv, ListOK
  <2>2. QED
    BY <2>1 DEF ListOK, Passers
<1>11. AllowedOK'
  <2>1. ASSUME NEW q \in iface \ unsettled', table'[q] # NoObject
        PROVE  \/ Lets(q)'
               \/ \E h \in Over(q)' : /\ pass'[h].obj = table'[q]
                                      /\ pass'[h].at = "set" \/ (pass'[h].at = "lookup" /\ pass'[h].fresh)
    <3>1. q \in WireGuards /\ q \in iface \ unsettled /\ table[q] # NoObject
      BY <1>2, <1>7, <2>1 DEF ResolverInv, ObjectsOK
    <3>2. CASE Lets(q)
      BY <1>2, <3>2 DEF Lets
    <3>3. CASE ~Lets(q)
      <4>1. PICK h \in Over(q) : /\ pass[h].obj = table[q]
                                 /\ pass[h].at = "set" \/ (pass[h].at = "lookup" /\ pass[h].fresh)
        BY <3>1, <3>3 DEF ResolverInv, AllowedOK
      <4>2. h \in Passers /\ h # Loop
        BY <1>2 DEF Over
      <4>3. h \in Over(q)' /\ pass'[h] = pass[h]
        BY <1>6, <3>1, <4>2
      <4>4. QED
        BY <1>2, <4>1, <4>3
    <3>4. QED
      BY <3>2, <3>3
  <2>2. QED
    BY <1>2, <2>1 DEF AllowedOK
<1>12. RoutesGoWithProfile'
  BY <1>2 DEF ResolverInv, RoutesGoWithProfile, Unregistering
<1>13. QED
  BY <1>6, <1>8, <1>9, <1>10, <1>11, <1>12 DEF ResolverInv

LEMMA LoopSteps ==
    ASSUME ResolverAssumption, ResolverInv, StartLoop \/ TakeSnapshot \/ BatchEnds \/ LoopEnds
    PROVE  ResolverInv'
<1>1. /\ UNCHANGED <<table, owner, seen, pass, beside, leaving, iface, allowed, routes, astray, unsettled>>
      /\ batch' = batch \/ batch' = {table[p] : p \in {q \in WireGuards : table[q] # NoObject}}
  BY DEF StartLoop, TakeSnapshot, BatchEnds, LoopEnds, tableVars, kernelVars
<1>2. /\ batch' \subseteq Objects /\ \A s \in batch' : owner[s] \in WireGuards
      /\ \A s \in batch' : owner[s] \in astray' \/ table[owner[s]] # NoObject
  <2>1. CASE batch' = batch
    BY <1>1, <2>1 DEF ResolverInv, ObjectsOK, AstrayOK
  <2>2. CASE batch' = {table[p] : p \in {q \in WireGuards : table[q] # NoObject}}
    BY <1>1, <2>2 DEF ResolverInv, ObjectsOK
  <2>3. QED
    BY <1>1, <2>1, <2>2
<1>3. /\ DOMAIN leaving' = Callers /\ iface' \subseteq WireGuards
      /\ DOMAIN allowed' = WireGuards /\ DOMAIN routes' = WireGuards
  BY <1>1 DEF ResolverInv, ObjectsOK
<1>4. \A q \in WireGuards :
         \/ routes'[q] \subseteq V6
         \/ routes'[q] = routes[q] /\ (Unregistering(q) => Unregistering(q)' \/ q \in astray')
  BY <1>1 DEF Unregistering
<1>5. QED
  BY <1>1, <1>2, <1>3, <1>4, ElsewhereSteps

LEMMA InterfaceSteps ==
    ASSUME ResolverAssumption, ResolverInv, NEW p \in WireGuards, InterfaceUp(p) \/ InterfaceDown(p)
    PROVE  ResolverInv'
<1>1. UNCHANGED <<table, owner, seen, pass, beside, batch, leaving, astray>>
  BY DEF InterfaceUp, InterfaceDown, tableVars, passVars
<1>2. \/ /\ iface' = iface \cup {p} /\ unsettled' = unsettled \cup {p}
         /\ allowed' = [allowed EXCEPT ![p] = Conf[p]] /\ routes' = routes
      \/ /\ iface' = iface \ {p} /\ unsettled' = unsettled
         /\ allowed' = [allowed EXCEPT ![p] = {}] /\ routes' = [routes EXCEPT ![p] = {}]
  BY DEF InterfaceUp, InterfaceDown
<1>3. /\ iface' \subseteq WireGuards /\ unsettled \subseteq unsettled'
      /\ DOMAIN allowed' = WireGuards /\ DOMAIN routes' = WireGuards
      /\ \A q \in iface' \ unsettled' : q \in iface /\ allowed'[q] = allowed[q]
  BY <1>2 DEF ResolverInv, ObjectsOK
<1>4. \A q \in WireGuards : routes'[q] \subseteq V6 \/ routes'[q] = routes[q]
  BY <1>2 DEF ResolverInv, ObjectsOK
<1>5. \A q \in WireGuards : Unregistering(q)' <=> Unregistering(q)
  BY <1>1 DEF Unregistering
<1>6. /\ batch' \subseteq Objects /\ \A s \in batch' : owner[s] \in WireGuards
      /\ \A s \in batch' : owner[s] \in astray' \/ table[owner[s]] # NoObject
      /\ DOMAIN leaving' = Callers /\ astray \subseteq astray'
  BY <1>1 DEF ResolverInv, ObjectsOK, AstrayOK
<1>7. \A q \in WireGuards :
         \/ routes'[q] \subseteq V6
         \/ routes'[q] = routes[q] /\ (Unregistering(q) => Unregistering(q)' \/ q \in astray')
  BY <1>4, <1>5
<1>8. QED
  BY <1>1, <1>3, <1>6, <1>7, ElsewhereSteps

LEMMA ResolverStarts == ASSUME ResolverAssumption, ResolverInit PROVE ResolverInv
<1>1. /\ \A p \in WireGuards : table[p] = NoObject
      /\ \A g \in Passers : pass[g] = Idle /\ ~Busy(g)
      /\ batch = {} /\ iface = {} /\ \A p \in WireGuards : routes[p] = {}
      /\ beside = {}
  BY DEF ResolverInit, Busy, Idle
<1>2. ObjectsOK
  BY DEF ResolverInit, ObjectsOK
<1>3. PassesOK
  BY <1>1 DEF ResolverInit, PassesOK, Passers
<1>4. \A p \in WireGuards : Over(p) = {}
  BY <1>1 DEF Over, Passers
<1>5. AstrayOK
  BY <1>1, <1>4 DEF AstrayOK
<1>6. AloneOK
  BY <1>1, <1>4 DEF AloneOK, Passers
<1>7. ListOK
  BY <1>1 DEF ListOK, Passers, Idle
<1>8. AllowedOK
  BY <1>1 DEF AllowedOK
<1>9. RoutesGoWithProfile
  BY <1>1 DEF RoutesGoWithProfile
<1>10. QED
  BY <1>2, <1>3, <1>5, <1>6, <1>7, <1>8, <1>9 DEF ResolverInv

LEMMA ResolverSteps ==
    ASSUME ResolverAssumption, ResolverInv, [ResolverNext]_resolverVars
    PROVE  ResolverInv'
<1>1. CASE \E c \in Callers, p \in WireGuards : RegisterProfile(c, p)
  BY <1>1, RegisterSteps
<1>2. CASE \E c \in Callers, p \in WireGuards : UnregisterProfile(c, p)
  BY <1>2, UnregisterSteps
<1>3. CASE \E c \in Callers : Flush(c)
  BY <1>3, FlushSteps
<1>4. CASE \E g \in Passers : PassStep(g)
  BY <1>4, LookupSteps, BuildSteps, WgSetSteps, RouteSteps DEF PassStep
<1>5. CASE LoopStep
  BY <1>5, NextObjectSteps, LoopSteps DEF LoopStep
<1>6. CASE \E p \in WireGuards : InterfaceUp(p) \/ InterfaceDown(p)
  BY <1>6, InterfaceSteps
<1>7. CASE UNCHANGED resolverVars
  <2>1. UNCHANGED <<table, owner, seen, pass, beside, batch, leaving, iface, allowed, routes, astray, unsettled>>
    BY <1>7 DEF resolverVars, tableVars, passVars, kernelVars, workVars
  <2>2. /\ batch' \subseteq Objects /\ \A s \in batch' : owner[s] \in WireGuards
        /\ \A s \in batch' : owner[s] \in astray' \/ table[owner[s]] # NoObject
        /\ DOMAIN leaving' = Callers /\ iface' \subseteq WireGuards
        /\ DOMAIN allowed' = WireGuards /\ DOMAIN routes' = WireGuards
    BY <2>1 DEF ResolverInv, ObjectsOK, AstrayOK
  <2>3. \A q \in WireGuards :
           \/ routes'[q] \subseteq V6
           \/ routes'[q] = routes[q] /\ (Unregistering(q) => Unregistering(q)' \/ q \in astray')
    BY <2>1 DEF Unregistering
  <2>4. QED
    BY <2>1, <2>2, <2>3, ElsewhereSteps
<1>8. QED
  BY <1>1, <1>2, <1>3, <1>4, <1>5, <1>6, <1>7 DEF ResolverNext

LEMMA ResolverInvariance == ResolverSpec => []ResolverInv
<1>1. ResolverInit => ResolverInv
  BY ResolverAssumption, ResolverStarts
<1>2. ResolverInv /\ [ResolverNext]_resolverVars => ResolverInv'
  BY ResolverAssumption, ResolverSteps
<1>3. QED
  BY <1>1, <1>2, PTL DEF ResolverSpec

\* A profile that is unregistered keeps no IPv4 route, however many goroutines
\* register, unregister and pass over its objects, unless a pass was under way (or
\* waiting) at that moment, or the kernel refused.
THEOREM RoutesLeave == ResolverSpec => []RoutesGoWithProfile
<1>1. ResolverInv => RoutesGoWithProfile
  BY DEF ResolverInv
<1>2. QED
  BY <1>1, ResolverInvariance, PTL

\* Whatever DNS answers, and in whatever order passes go over the objects of a
\* profile, what was found for it stays allowed once nobody works on it any more.
THEOREM FoundIsKept == ResolverSpec => []NothingForgotten
<1>1. ASSUME ResolverInv PROVE NothingForgotten
  BY <1>1 DEF ResolverInv, AllowedOK, Lets, NothingForgotten
<1>2. QED
  BY <1>1, ResolverInvariance, PTL
----------------------------------------------------------------------------
(* The daemon *)

\* Where a daemon may be, and those of it where resolv.conf or the kill switch's
\* rules may still be its own.
Early    == {"connect", "enable", "disable", "keep", "serve", "hosts", "watchdog"}
Stages   == Early \cup {"off", "kill", "dns", "pid", "unlink", "gone"}
Guarding == Early \cup {"kill", "dns"}
Blocking == Early \cup {"kill"}
Errands  == {"off", "ask", "wait", "kill", "remove", "done"}
Tasks    == {"todo", "failed", "scan", "enable", "disable", "keep", "done"}

\* A daemon that does not run connects nothing.
ProcessesOK ==
    /\ stage \in [Daemons -> Stages]
    /\ DOMAIN dial = Daemons /\ \A u \in Daemons : DOMAIN dial[u] = Profiles
    /\ \A u \in Daemons, p \in Profiles : dial[u][p] # NoDial => Alive(u)
    /\ errand \in [Downs -> Errands] /\ DOMAIN victim = Downs
    /\ down \in [Downs -> [Profiles -> Tasks]]
    /\ left \in [Daemons -> SUBSET Profiles] /\ tunnels \subseteq Profiles
    /\ blocking \in BOOLEAN /\ outdated \in BOOLEAN
    /\ spoilt \in BOOLEAN /\ late \in BOOLEAN /\ torn \in BOOLEAN

Started(u) == u \in Daemons /\ stage[u] # "off"

\* Who is named in the PID file wrote it last, and has been started; who is killed
\* has left; and who is about to remove the file has still written it last, unless
\* another one has slipped in.
PIDFileOK ==
    /\ newest = Nobody \/ Started(newest)
    /\ pidfile = Nobody \/ pidfile = newest
    /\ \A u \in Daemons : stage[u] = "unlink" => newest = u \/ newest \in raced
    /\ \A d \in Downs :
          /\ victim[d] = Nobody \/ Started(victim[d])
          /\ errand[d] \in {"ask", "wait", "kill", "remove"} => victim[d] # Nobody
          /\ errand[d] = "remove" => stage[victim[d]] = "gone"
    /\ NewestIsKnown /\ DownStopsTheDaemon

\* One daemon at most guards resolv.conf, and it has the user's file.
GuardOK ==
    ~spoilt /\ ~late =>
        \/ guarding = {} /\ resolv = [file |-> "original", backup |-> "none"]
        \/ /\ \E u \in Daemons : guarding = {u} /\ stage[u] \in Guarding
           /\ resolv = [file |-> "tunnel", backup |-> "original"]

\* A `down` with profiles still to be taken down, or a goroutine that will see
\* that all are.
Pending(d) ==
    /\ Taken(d) # {}
    /\ \/ Taken(d) # Profiles
       \/ \E p \in Profiles : down[d][p] \in {"scan", "disable"}

\* Rules that block have a daemon that will take them away, or a `down`.
BlockOK ==
    /\ redialled = {} => tunnels \cap Gone = {}
    /\ blocking /\ ~spoilt /\ ~late /\ early = {} /\ redialled = {} /\ ~outdated =>
          \/ \E d \in Downs : Pending(d)
          \/ \E u \in Daemons : stage[u] \in Blocking

\* The goroutines that write the hosts file, and the stages they belong to.
WriterStates == [at : {"idle", "read", "empty", "write"}, block : BOOLEAN, lines : Nat]

WriterOK(u) ==
    /\ Writing(u, "stop") => stage[u] = "hosts"
    /\ Writing(u, "sync") => Alive(u) /\ stage[u] # "connect"
    /\ Writing(u, "sync") /\ crossed = {} => stage[u] = "serve"
    /\ writer[u]["stop"].block = FALSE

WritersOK ==
    /\ writer \in [Daemons -> [Writers -> WriterStates]]
    /\ hosts \in [lines : Nat, block : BOOLEAN] /\ written \in Nat
    /\ \A u \in Daemons : WriterOK(u)

At(u, w) == writer[u][w].at

\* The user's lines are in the file, and with all who have read it; or one writer
\* has emptied it, and has them.
Settled ==
    /\ hosts.lines = written
    /\ \A u \in Daemons, w \in Writers :
          At(u, w) # "write" /\ (At(u, w) = "empty" => writer[u][w].lines = written)

Holds(u, w) ==
    /\ At(u, w) = "write" /\ writer[u][w].lines = written
    /\ \A v \in Daemons, x \in Writers : At(v, x) \in {"empty", "write"} => v = u /\ x = w

LinesOK == ~torn => Settled \/ \E u \in Daemons, w \in Writers : Holds(u, w)

\* A block in the file has a daemon that serves it, or is taking it out.
BlockLineOK ==
    hosts.block /\ ~spoilt /\ ~torn /\ crossed = {} =>
        \E u \in Daemons : stage[u] = "serve" \/ (stage[u] = "hosts" /\ Writing(u, "stop"))

LifecycleInv ==
    ProcessesOK /\ PIDFileOK /\ GuardOK /\ BlockOK /\ WritersOK /\ LinesOK /\ BlockLineOK

\* What the goroutine of a profile does.
DownProfile(d, p) == TakeDown(d, p) \/ StaysUp(d, p) \/ ScanDown(d, p) \/ SwitchDown(d, p)

\* Whom a `down` kills is a daemon that runs.
LEMMA KillCases ==
    ASSUME LifecycleAssumption, ProcessesOK, PIDFileOK, NEW d \in Downs, HardKill(d)
    PROVE  /\ errand[d] = "kill" /\ victim[d] \in Daemons
           /\ \/ Alive(victim[d]) /\ Dies(victim[d]) /\ Step(d, "remove")
              \/ /\ ~Alive(victim[d]) /\ Step(d, "done")
                 /\ UNCHANGED <<daemonVars, machineVars, hostsVars, spoilt>>
           /\ UNCHANGED <<victim, down, events, newest, stripped, raced, late, early, redialled, outdated>>
<1>1. errand[d] = "kill"
  BY DEF HardKill
<1>2. victim[d] \in Daemons
  BY <1>1 DEF PIDFileOK, Started
<1>3. QED
  BY <1>1, <1>2 DEF HardKill

\* How a daemon goes from one stage to the next, and what else it does then.
Moves(u) ==
    \/ stage[u] = "off" /\ Goto(u, "connect")
    \/ stage[u] = "connect" /\ Goto(u, "dns") /\ u \in early'
    \/ stage[u] = "connect" /\ \E x \in Switching : Goto(u, x)
    \/ stage[u] \in Switching /\ Goto(u, "serve")
    \/ CloseAPI(u) \/ StopServices(u)
    \/ stage[u] = "watchdog" /\ Goto(u, "kill")
    \/ stage[u] = "kill" /\ Goto(u, "dns") /\ blocking' = FALSE
    \/ ForceRestore(u) \/ CheckPID(u) \/ Exit(u)
    \/ Alive(u) /\ Goto(u, "gone") /\ spoilt' = TRUE /\ WritersEnd(u)
          /\ dial' = [dial EXCEPT ![u] = [p \in Profiles |-> NoDial]]

LEMMA StageMoves ==
    ASSUME LifecycleAssumption, ProcessesOK, PIDFileOK, Next
    PROVE  UNCHANGED stage \/ \E u \in Daemons : Moves(u)
<1>1. ASSUME NEW u \in Daemons, Up(u) PROVE UNCHANGED stage \/ Moves(u)
  <2>1. CASE Start(u) \/ AbandonDial(u) \/ ScanAll(u) \/ Serve(u)
    BY <2>1 DEF Start, AbandonDial, ScanAll, Decisions, Switching, Serve, Moves
  <2>2. CASE CloseAPI(u) \/ StopServices(u) \/ StopWatchdog(u) \/ DisableKill(u)
    BY <2>2 DEF StopWatchdog, DisableKill, Moves
  <2>3. CASE ForceRestore(u) \/ CheckPID(u) \/ Exit(u)
    BY <2>3 DEF Moves
  <2>4. CASE \E p \in Profiles : DialFails(u, p)
    BY <2>4 DEF DialFails, Moves
  <2>5. CASE Killed(u)
    BY <2>5 DEF Killed, Dies, Moves
  <2>6. CASE \/ DialNext(u) \/ Sync(u) \/ Signal(u)
             \/ \E w \in Writers : Writes(u, w)
             \/ \E p \in Profiles : \/ TunnelUp(u, p) \/ Attach(u, p) \/ Scan(u, p) \/ Connected(u, p)
                                    \/ Redial(u, p) \/ ConnectRequest(u, p)
    BY <2>6 DEF DialNext, Sync, Signal, Writes, TunnelUp, Attach, Scan, Connected, Redial, ConnectRequest,
                daemonVars
  <2>7. QED
    BY <1>1, <2>1, <2>2, <2>3, <2>4, <2>5, <2>6 DEF Up
<1>2. ASSUME NEW d \in Downs, DownStep(d) PROVE UNCHANGED stage \/ \E u \in Daemons : Moves(u)
  <2>1. CASE HardKill(d)
    BY <2>1, KillCases DEF Dies, Moves, daemonVars
  <2>2. CASE \/ \E p \in Profiles : DownProfile(d, p)
             \/ ReadPID(d) \/ AskShutdown(d) \/ Waited(d) \/ RemovePID(d)
    BY <2>2 DEF DownProfile, TakeDown, StaysUp, ScanDown, SwitchDown, ReadPID, AskShutdown, Waited, RemovePID, daemonVars
  <2>3. QED
    BY <1>2, <2>1, <2>2 DEF DownStep, DownProfile
<1>3. ASSUME (\E p \in Profiles : Drop(p)) \/ Edit PROVE UNCHANGED stage
  BY <1>3 DEF Drop, Edit, daemonVars
<1>4. QED
  BY <1>1, <1>2, <1>3 DEF Next

\* What is over is over: a daemon that is gone, and one that has been started.
LEMMA StagesGoOn ==
    ASSUME LifecycleAssumption, ProcessesOK, PIDFileOK, Next
    PROVE  /\ stage' \in [Daemons -> Stages]
           /\ \A u \in Daemons : /\ stage[u] = "gone" => stage'[u] = "gone"
                                 /\ stage[u] # "off" => stage'[u] # "off"
                                 /\ Alive(u)' => Alive(u) \/ (stage[u] = "off" /\ stage'[u] = "connect")
<1>1. CASE UNCHANGED stage
  BY <1>1 DEF ProcessesOK, Alive
<1>2. ASSUME NEW u \in Daemons, Moves(u)
      PROVE  /\ stage[u] # "gone"
             /\ \E s \in Stages \ {"off"} : /\ stage' = [stage EXCEPT ![u] = s]
                                            /\ stage[u] # "off" \/ s = "connect"
  <2> DEFINE Reach(s) == Goto(u, s) /\ s \in Stages \ {"off"} /\ stage[u] # "gone"
                        /\ (stage[u] # "off" \/ s = "connect")
  <2>1. ASSUME NEW x \in Switching, stage[u] = "connect", Goto(u, x) PROVE Reach(x)
    BY <2>1 DEF Switching, Stages, Early
  <2>2. /\ CloseAPI(u) => Reach("hosts")
        /\ StopServices(u) => Reach("watchdog")
    BY DEF CloseAPI, StopServices, Stages, Early
  <2>3. /\ ForceRestore(u) => Reach("pid")
        /\ CheckPID(u) => Reach("unlink")
        /\ Exit(u) => Reach("gone")
    BY DEF ForceRestore, CheckPID, Exit, Stages, Early
  <2>4. /\ stage[u] = "off" /\ Goto(u, "connect") => Reach("connect")
        /\ stage[u] \in {"connect", "kill"} /\ Goto(u, "dns") => Reach("dns")
        /\ stage[u] \in Switching /\ Goto(u, "serve") => Reach("serve")
        /\ stage[u] = "watchdog" /\ Goto(u, "kill") => Reach("kill")
        /\ Alive(u) /\ Goto(u, "gone") => Reach("gone")
    BY DEF Alive, Switching, Stages, Early
  <2>5. \E s : Reach(s)
    <3> HIDE DEF Reach
    <3> QED BY <1>2, <2>1, <2>2, <2>3, <2>4 DEF Moves
  <2>6. QED
    BY <2>5 DEF Goto
<1>3. ASSUME NEW u \in Daemons, Moves(u)
      PROVE  /\ stage' \in [Daemons -> Stages]
             /\ \A v \in Daemons : /\ stage[v] = "gone" => stage'[v] = "gone"
                                   /\ stage[v] # "off" => stage'[v] # "off"
                                   /\ Alive(v)' => Alive(v) \/ (stage[v] = "off" /\ stage'[v] = "connect")
  <2>1. PICK s \in Stages \ {"off"} : /\ stage' = [stage EXCEPT ![u] = s]
                                      /\ stage[u] # "off" \/ s = "connect"
    BY <1>2, <1>3
  <2>2. stage[u] # "gone"
    BY <1>2, <1>3
  <2>3. QED
    BY <2>1, <2>2 DEF ProcessesOK, Alive
<1>4. QED
  BY <1>1, <1>3, StageMoves

\* What has happened stays so.
HistoryGrows ==
    /\ spoilt => spoilt'
    /\ late => late'
    /\ torn => torn'
    /\ outdated => outdated'
    /\ early \subseteq early' /\ redialled \subseteq redialled'
    /\ stripped \subseteq stripped' /\ raced \subseteq raced'
    /\ crossed \subseteq crossed'

LEMMA HistorySteps ==
    ASSUME LifecycleAssumption, ProcessesOK, PIDFileOK, Next
    PROVE  HistoryGrows
<1>1. ASSUME NEW u \in Daemons, Up(u) PROVE HistoryGrows
  <2>1. CASE Start(u) \/ AbandonDial(u) \/ ScanAll(u) \/ Serve(u) \/ DialNext(u) \/ Signal(u)
    BY <2>1 DEF Start, AbandonDial, ScanAll, Serve, DialNext, Signal, HistoryGrows, ProcessesOK,
                hostsVars, historyVars
  <2>2. CASE StopServices(u) \/ StopWatchdog(u) \/ DisableKill(u) \/ ForceRestore(u) \/ CheckPID(u)
    BY <2>2 DEF StopServices, StopWatchdog, DisableKill, ForceRestore, CheckPID, HistoryGrows, ProcessesOK, hostsVars, historyVars
  <2>3. CASE Exit(u) \/ Killed(u)
    BY <2>3 DEF Exit, Killed, Dies, WritersEnd, HistoryGrows, ProcessesOK
  <2>4. CASE CloseAPI(u) \/ Sync(u)
    BY <2>4 DEF CloseAPI, Sync, StopBegins, SyncBegins, HistoryGrows, ProcessesOK, historyVars
  <2>5. CASE \E p \in Profiles : TunnelUp(u, p) \/ Attach(u, p) \/ Connected(u, p) \/ DialFails(u, p)
    BY <2>5 DEF TunnelUp, Attach, Connected, DialFails, HistoryGrows, ProcessesOK, hostsVars
  <2>6. CASE \E p \in Profiles : Scan(u, p) \/ Redial(u, p) \/ ConnectRequest(u, p)
    BY <2>6 DEF Scan, Redial, ConnectRequest, HistoryGrows, ProcessesOK, hostsVars, historyVars
  <2>7. CASE \E w \in Writers : Writes(u, w)
    BY <2>7 DEF Writes, Write, GivesUp, ReadHosts, EmptyHosts, WriteHosts, HistoryGrows, ProcessesOK, historyVars
  <2>8. QED
    BY <1>1, <2>1, <2>2, <2>3, <2>4, <2>5, <2>6, <2>7 DEF Up
<1>2. ASSUME NEW d \in Downs, DownStep(d) PROVE HistoryGrows
  <2>1. CASE HardKill(d)
    BY <2>1, KillCases DEF Dies, WritersEnd, HistoryGrows, ProcessesOK, hostsVars
  <2>2. CASE \/ \E p \in Profiles : DownProfile(d, p)
             \/ ReadPID(d) \/ AskShutdown(d) \/ Waited(d) \/ RemovePID(d)
    BY <2>2 DEF DownProfile, TakeDown, StaysUp, ScanDown, SwitchDown, ReadPID, AskShutdown, Waited, RemovePID, HistoryGrows, ProcessesOK, hostsVars, historyVars
  <2>3. QED
    BY <1>2, <2>1, <2>2 DEF DownStep, DownProfile
<1>3. ASSUME (\E p \in Profiles : Drop(p)) \/ Edit PROVE HistoryGrows
  BY <1>3 DEF Drop, Edit, UserEdits, HistoryGrows, ProcessesOK, hostsVars, historyVars
<1>4. QED
  BY <1>1, <1>2, <1>3 DEF Next

\* A connect belongs to a daemon that runs, and goes with it.
DialsOK ==
    /\ DOMAIN dial = Daemons /\ \A u \in Daemons : DOMAIN dial[u] = Profiles
    /\ \A u \in Daemons, p \in Profiles : dial[u][p] # NoDial => Alive(u)

Dials(u, p) == \E x : dial' = [dial EXCEPT ![u] = [dial[u] EXCEPT ![p] = x]]

LEMMA DialSteps ==
    ASSUME LifecycleAssumption, ProcessesOK, PIDFileOK, Next
    PROVE  DialsOK'
<1>1. ASSUME NEW u \in Daemons, UNCHANGED dial,
             \A v \in Daemons \ {u} : stage'[v] = stage[v],
             Alive(u)' \/ \A p \in Profiles : dial[u][p] = NoDial
      PROVE  DialsOK'
  BY <1>1 DEF ProcessesOK, DialsOK, Alive
<1>2. ASSUME NEW u \in Daemons, NEW p \in Profiles, Dials(u, p), Alive(u)',
             \A v \in Daemons \ {u} : stage'[v] = stage[v]
      PROVE  DialsOK'
  <2>1. PICK x : dial' = [dial EXCEPT ![u] = [dial[u] EXCEPT ![p] = x]]
    BY <1>2 DEF Dials
  <2>2. QED
    BY <1>2, <2>1 DEF ProcessesOK, DialsOK, Alive
<1>3. ASSUME NEW u \in Daemons, dial' = [dial EXCEPT ![u] = [p \in Profiles |-> NoDial]],
             \A v \in Daemons \ {u} : stage'[v] = stage[v]
      PROVE  DialsOK'
  BY <1>3 DEF ProcessesOK, DialsOK, Alive
<1>4. ASSUME UNCHANGED <<dial, stage>> PROVE DialsOK'
  BY <1>4 DEF ProcessesOK, DialsOK, Alive
<1>5. ASSUME NEW u \in Daemons, Up(u) PROVE DialsOK'
  <2>1. ASSUME NEW p \in Profiles, TunnelUp(u, p) \/ Attach(u, p) \/ Scan(u, p) \/ Connected(u, p)
        PROVE  DialsOK'
    <3>1. Dials(u, p) /\ UNCHANGED stage
      BY <2>1 DEF TunnelUp, Attach, Scan, Connected, Dials, ProcessesOK
    <3>2. dial[u][p] # NoDial
      BY <2>1 DEF TunnelUp, Attach, Scan, Connected, Switching, NoDial
    <3>3. QED
      BY <1>2, <3>1, <3>2 DEF ProcessesOK, Alive
  <2>2. ASSUME NEW p \in Profiles, DialFails(u, p) PROVE DialsOK'
    <3>1. Dials(u, p) /\ (UNCHANGED stage \/ stage' = [stage EXCEPT ![u] = "dns"])
      BY <2>2 DEF DialFails, Dials, Goto, ProcessesOK
    <3>2. Alive(u)
      BY <2>2 DEF DialFails, NoDial, ProcessesOK
    <3>3. Alive(u)' /\ \A v \in Daemons \ {u} : stage'[v] = stage[v]
      BY <3>1, <3>2 DEF ProcessesOK, Alive
    <3>4. QED
      BY <1>2, <3>1, <3>3
  <2>3. ASSUME NEW p \in Profiles,
               \/ Redial(u, p) \/ ConnectRequest(u, p)
               \/ stage[u] = "connect" /\ UNCHANGED stage /\ BeginDial(u, p, "loop")
        PROVE  DialsOK'
    <3>1. Dials(u, p) /\ UNCHANGED stage
      BY <2>3 DEF Redial, ConnectRequest, BeginDial, Dials, ProcessesOK
    <3>2. Alive(u)
      BY <2>3 DEF Redial, ConnectRequest, Alive
    <3>3. QED
      BY <1>2, <3>1, <3>2 DEF Alive
  <2>4. CASE DialNext(u)
    BY <2>3, <2>4 DEF DialNext, ProcessesOK
  <2>5. CASE Exit(u) \/ Killed(u)
    BY <1>3, <2>5 DEF Exit, Killed, Dies, Goto, ProcessesOK
  <2>6. CASE Start(u) \/ AbandonDial(u) \/ ScanAll(u) \/ Serve(u) \/ CloseAPI(u) \/ StopServices(u)
    <3>1. \E s \in Early \cup {"dns"} : Goto(u, s)
      BY <2>6 DEF Start, AbandonDial, ScanAll, Decisions, Serve, CloseAPI, StopServices, Early
    <3>2. UNCHANGED dial
      BY <2>6 DEF Start, AbandonDial, ScanAll, Serve, CloseAPI, StopServices
    <3>3. QED
      BY <1>1, <3>1, <3>2 DEF Goto, Alive, ProcessesOK, Early
  <2>7. CASE StopWatchdog(u) \/ DisableKill(u) \/ ForceRestore(u) \/ CheckPID(u)
    <3>1. \E s \in {"kill", "dns", "pid", "unlink"} : Goto(u, s)
      BY <2>7 DEF StopWatchdog, DisableKill, ForceRestore, CheckPID
    <3>2. UNCHANGED dial
      BY <2>7 DEF StopWatchdog, DisableKill, ForceRestore, CheckPID
    <3>3. QED
      BY <1>1, <3>1, <3>2 DEF Goto, Alive, ProcessesOK
  <2>8. CASE Sync(u) \/ Signal(u) \/ \E w \in Writers : Writes(u, w)
    BY <1>4, <2>8 DEF Sync, Signal, Writes, daemonVars
  <2>9. QED
    BY <1>5, <2>1, <2>2, <2>3, <2>4, <2>5, <2>6, <2>7, <2>8 DEF Up
<1>6. ASSUME NEW d \in Downs, DownStep(d) PROVE DialsOK'
  <2>1. CASE HardKill(d)
    <3>1. PICK u \in Daemons : u = victim[d]
      BY <2>1, KillCases
    <3>2. CASE Dies(u)
      BY <1>3, <3>2 DEF Dies, Goto, ProcessesOK
    <3>3. CASE UNCHANGED daemonVars
      BY <1>4, <3>3 DEF daemonVars
    <3>4. QED
      BY <2>1, <3>1, <3>2, <3>3, KillCases
  <2>2. CASE \E p \in Profiles : DownProfile(d, p)
    <3>1. UNCHANGED <<stage, dial>>
      BY <2>2 DEF DownProfile, TakeDown, StaysUp, ScanDown, SwitchDown, daemonVars
    <3>2. QED
      BY <1>4, <3>1
  <2>3. CASE ReadPID(d) \/ AskShutdown(d) \/ Waited(d) \/ RemovePID(d)
    <3>1. UNCHANGED <<stage, dial>>
      BY <2>3 DEF ReadPID, AskShutdown, Waited, RemovePID, daemonVars
    <3>2. QED
      BY <1>4, <3>1
  <2>4. QED
    BY <1>6, <2>1, <2>2, <2>3 DEF DownStep, DownProfile
<1>7. ASSUME (\E p \in Profiles : Drop(p)) \/ Edit PROVE DialsOK'
  BY <1>4, <1>7 DEF Drop, Edit, daemonVars
<1>8. QED
  BY <1>5, <1>6, <1>7 DEF Next

\* The rest of the types.
TypesOK ==
    /\ errand \in [Downs -> Errands] /\ DOMAIN victim = Downs
    /\ down \in [Downs -> [Profiles -> Tasks]]
    /\ left \in [Daemons -> SUBSET Profiles] /\ tunnels \subseteq Profiles
    /\ blocking \in BOOLEAN /\ outdated \in BOOLEAN
    /\ spoilt \in BOOLEAN /\ late \in BOOLEAN /\ torn \in BOOLEAN

LEMMA TypeSteps ==
    ASSUME LifecycleAssumption, ProcessesOK, PIDFileOK, Next
    PROVE  TypesOK'
<1>0. TypesOK
  BY DEF ProcessesOK, TypesOK
<1>1. ASSUME NEW u \in Daemons, Up(u) PROVE TypesOK'
  <2>1. CASE Start(u) \/ AbandonDial(u) \/ ScanAll(u) \/ Serve(u) \/ DialNext(u) \/ Signal(u)
    BY <1>0, <2>1 DEF Start, AbandonDial, ScanAll, Serve, DialNext, Signal, ApplyKill, TypesOK,
                      hostsVars, historyVars, downVars, machineVars, daemonVars
  <2>2. CASE StopServices(u) \/ StopWatchdog(u) \/ DisableKill(u) \/ ForceRestore(u) \/ CheckPID(u)
    BY <1>0, <2>2 DEF StopServices, StopWatchdog, DisableKill, ForceRestore, CheckPID, TypesOK,
                      hostsVars, historyVars, downVars, machineVars, daemonVars
  <2>3. CASE Exit(u) \/ Killed(u)
    BY <1>0, <2>3 DEF Exit, Killed, Dies, WritersEnd, TypesOK, downVars
  <2>4. CASE CloseAPI(u) \/ Sync(u)
    BY <1>0, <2>4 DEF CloseAPI, Sync, StopBegins, SyncBegins, TypesOK, historyVars, downVars, machineVars, daemonVars
  <2>5. CASE \E p \in Profiles : TunnelUp(u, p) \/ DialFails(u, p)
    BY <1>0, <2>5 DEF TunnelUp, DialFails, TypesOK, hostsVars, downVars, machineVars
  <2>6. ASSUME NEW p \in Profiles, Connected(u, p) PROVE TypesOK'
    <3>1. left' = left \/ left' = [left EXCEPT ![u] = @ \ {p}]
      BY <2>6 DEF Connected
    <3>2. left' \in [Daemons -> SUBSET Profiles]
      BY <1>0, <3>1 DEF TypesOK
    <3>3. UNCHANGED <<errand, victim, down, tunnels, torn, spoilt, outdated>> /\ blocking' \in BOOLEAN
      BY <1>0, <2>6 DEF Connected, ApplyKill, TypesOK, downVars, hostsVars
    <3>4. late' \in BOOLEAN
      BY <1>0, <2>6 DEF Connected, TypesOK
    <3>5. QED
      BY <1>0, <3>2, <3>3, <3>4 DEF TypesOK
  <2>7. CASE \E p \in Profiles : Attach(u, p) \/ Scan(u, p) \/ Redial(u, p) \/ ConnectRequest(u, p)
    BY <1>0, <2>7 DEF Attach, Scan, Redial, ConnectRequest, TypesOK, hostsVars, historyVars, downVars, machineVars, daemonVars
  <2>8. CASE \E w \in Writers : Writes(u, w)
    BY <1>0, <2>8 DEF Writes, Write, GivesUp, ReadHosts, EmptyHosts, WriteHosts, TypesOK,
                      historyVars, downVars, machineVars, daemonVars
  <2>9. QED
    BY <1>1, <2>1, <2>2, <2>3, <2>4, <2>5, <2>6, <2>7, <2>8 DEF Up
<1>2. ASSUME NEW d \in Downs, DownStep(d) PROVE TypesOK'
  <2>1. CASE HardKill(d)
    BY <1>0, <2>1, KillCases DEF Dies, WritersEnd, Step, TypesOK, Errands, hostsVars, machineVars, daemonVars
  <2>2. ASSUME NEW p \in Profiles, DownProfile(d, p) PROVE TypesOK'
    <3>1. \E x \in Tasks : Reaches(d, p, x)
      <4>1. CASE ScanDown(d, p)
        <5>1. PICK x \in Decisions : Reaches(d, p, x)
          BY <4>1 DEF ScanDown
        <5>2. x \in Tasks
          BY DEF Decisions, Tasks
        <5>3. QED
          BY <5>1, <5>2
      <4>2. CASE TakeDown(d, p) \/ StaysUp(d, p) \/ SwitchDown(d, p)
        BY <4>2 DEF TakeDown, StaysUp, SwitchDown, Tasks
      <4>3. QED
        BY <2>2, <4>1, <4>2 DEF DownProfile
    <3>2. down' \in [Downs -> [Profiles -> Tasks]]
      BY <1>0, <3>1 DEF Reaches, TypesOK
    <3>3. UNCHANGED <<errand, victim, left, spoilt, late, torn>> /\ tunnels' \subseteq tunnels
      BY <2>2 DEF DownProfile, TakeDown, StaysUp, ScanDown, SwitchDown, hostsVars, daemonVars, machineVars,
                  historyVars
    <3>4. blocking' \in BOOLEAN /\ outdated' \in BOOLEAN
      BY <1>0, <2>2 DEF DownProfile, TakeDown, StaysUp, ScanDown, SwitchDown, ApplyKill, TypesOK,
                        machineVars, historyVars
    <3>5. QED
      BY <1>0, <3>2, <3>3, <3>4 DEF TypesOK
  <2>3. CASE ReadPID(d) \/ AskShutdown(d) \/ Waited(d) \/ RemovePID(d)
    BY <1>0, <2>3 DEF ReadPID, AskShutdown, Waited, RemovePID, Step, TypesOK, Errands,
                      hostsVars, historyVars, machineVars, daemonVars
  <2>4. QED
    BY <1>2, <2>1, <2>2, <2>3 DEF DownStep, DownProfile
<1>3. ASSUME (\E p \in Profiles : Drop(p)) \/ Edit PROVE TypesOK'
  BY <1>0, <1>3 DEF Drop, Edit, UserEdits, TypesOK, hostsVars, historyVars, downVars, machineVars, daemonVars
<1>4. QED
  BY <1>1, <1>2, <1>3 DEF Next

LEMMA ProcessSteps ==
    ASSUME LifecycleAssumption, ProcessesOK, PIDFileOK, Next
    PROVE  ProcessesOK'
BY StagesGoOn, DialSteps, TypeSteps DEF ProcessesOK, DialsOK, TypesOK

LEMMA PIDFileSteps ==
    ASSUME LifecycleAssumption, ProcessesOK, PIDFileOK, Next
    PROVE  PIDFileOK'
<1>1. \A u : Started(u) => /\ Started(u)' /\ (Alive(u)' => Alive(u)) /\ u # Nobody
                           /\ stage[u] = "gone" => stage'[u] = "gone"
  BY StagesGoOn DEF Started, LifecycleAssumption
<1>2. /\ newest = Nobody \/ Started(newest)
      /\ pidfile = Nobody \/ pidfile = newest
      /\ \A u \in Daemons : stage[u] = "unlink" => newest = u \/ newest \in raced
      /\ \A d \in Downs : victim[d] = Nobody \/ Started(victim[d])
      /\ \A d \in Downs : errand[d] \in {"ask", "wait", "kill", "remove"} => Started(victim[d])
      /\ \A d \in Downs : errand[d] = "remove" => stage[victim[d]] = "gone"
      /\ NewestIsKnown /\ DownStopsTheDaemon
  BY DEF PIDFileOK
<1>0. ASSUME NEW u \in Daemons, stage'[u] = "unlink", ~CheckPID(u) PROVE stage[u] = "unlink"
  <2>1. ASSUME NEW v \in Daemons, Moves(v) PROVE stage[u] = "unlink"
    BY <1>0, <2>1 DEF Moves, Goto, CloseAPI, StopServices, ForceRestore, CheckPID, Exit, Switching, ProcessesOK
  <2>2. QED
    BY <1>0, <2>1, StageMoves
<1>3. ASSUME UNCHANGED <<newest, pidfile, victim, errand, stripped, raced>>,
             \A u \in Daemons : ~CheckPID(u)
      PROVE  PIDFileOK'
  BY <1>0, <1>1, <1>2, <1>3 DEF PIDFileOK, NewestIsKnown, DownStopsTheDaemon
<1>4. ASSUME NEW d \in Downs, NEW s \in {"ask", "wait", "kill", "remove", "done"}, Step(d, s),
             UNCHANGED <<newest, pidfile, stripped, raced>>,
             \A u \in Daemons : ~CheckPID(u), NEW v, victim'[d] = v, \A c \in Downs \ {d} : victim'[c] = victim[c],
             v = Nobody \/ Started(v), s = "done" \/ v # Nobody,
             s = "remove" => stage'[v] = "gone",
             s = "done" /\ v # Nobody /\ v = newest /\ v \notin stripped \cup raced => ~Alive(v)'
      PROVE  PIDFileOK'
  <2>1. /\ \A c \in Downs \ {d} : errand'[c] = errand[c] /\ victim'[c] = victim[c]
        /\ errand'[d] = s
    BY <1>4 DEF Step, ProcessesOK
  <2>2. NewestIsKnown'
    BY <1>1, <1>2, <1>4 DEF NewestIsKnown
  <2>3. DownStopsTheDaemon'
    <3>1. ASSUME NEW c \in Downs, errand'[c] = "done", victim'[c] # Nobody,
                 victim'[c] = newest', victim'[c] \notin stripped' \cup raced'
          PROVE  ~Alive(victim[c])'
      <4>1. CASE c = d
        BY <1>4, <2>1, <3>1, <4>1
      <4>2. CASE c # d
        BY <1>1, <1>2, <1>4, <2>1, <3>1, <4>2 DEF DownStopsTheDaemon
      <4>3. QED
        BY <4>1, <4>2
    <3>2. QED
      BY <3>1 DEF DownStopsTheDaemon
  <2>4. ASSUME NEW c \in Downs
        PROVE  /\ victim'[c] = Nobody \/ Started(victim[c])'
               /\ errand'[c] \in {"ask", "wait", "kill", "remove"} => victim'[c] # Nobody
               /\ errand'[c] = "remove" => stage'[victim'[c]] = "gone"
    <3>1. CASE c = d
      <4>1. v # Nobody => Started(v)'
        BY <1>1, <1>4
      <4>2. PICK x : x = victim'[c]
        OBVIOUS
      <4>3. x = v
        BY <1>4, <3>1, <4>2
      <4>4. QED
        BY <1>4, <2>1, <3>1, <4>1, <4>2, <4>3 DEF Started
    <3>2. CASE c # d
      <4>1. PICK x : x = victim[c]
        OBVIOUS
      <4>2. victim'[c] = x /\ errand'[c] = errand[c]
        BY <2>1, <3>2, <4>1
      <4>3. QED
        BY <1>1, <1>2, <4>1, <4>2 DEF Started
    <3>3. QED
      BY <3>1, <3>2
  <2>5. /\ newest' = Nobody \/ Started(newest)'
        /\ pidfile' = Nobody \/ pidfile' = newest'
        /\ \A u \in Daemons : stage'[u] = "unlink" => newest' = u \/ newest' \in raced'
    BY <1>0, <1>1, <1>2, <1>4 DEF Started
  <2>6. QED
    BY <2>2, <2>3, <2>4, <2>5 DEF PIDFileOK
<1>5. ASSUME NEW u \in Daemons, Up(u) PROVE PIDFileOK'
  <2>1. CASE Start(u)
    <3>1. /\ stage[u] = "off" /\ stage'[u] = "connect" /\ u # Nobody
          /\ UNCHANGED <<victim, errand, stripped>>
      BY <2>1 DEF Start, Goto, ProcessesOK, downVars, LifecycleAssumption
    <3>2. CASE /\ pidfile' = u /\ newest' = u
               /\ raced' = raced \cup {v \in {u} : \E w \in Daemons : stage[w] = "unlink"}
      <4>1. \A d \in Downs : victim[d] # u
        BY <1>2, <3>1 DEF Started
      <4>2. Started(u)'
        BY <3>1 DEF Started
      <4>3. NewestIsKnown' /\ DownStopsTheDaemon'
        BY <3>1, <3>2, <4>1 DEF NewestIsKnown, DownStopsTheDaemon
      <4>4. \A d \in Downs : /\ victim'[d] = Nobody \/ Started(victim[d])'
                             /\ errand'[d] \in {"ask", "wait", "kill", "remove"} => victim'[d] # Nobody
                             /\ errand'[d] = "remove" => stage'[victim'[d]] = "gone"
        BY <1>1, <1>2, <3>1 DEF Started
      <4>5. Started(newest)' /\ pidfile' = newest'
        BY <3>2, <4>2 DEF Started
      <4>6. ASSUME NEW w \in Daemons, stage'[w] = "unlink" PROVE newest' \in raced'
        <5>1. ~CheckPID(w)
          BY <2>1, <3>1 DEF CheckPID, Start, Goto, ProcessesOK
        <5>2. QED
          BY <1>0, <3>2, <4>6, <5>1
      <4>7. QED
        BY <4>3, <4>4, <4>5, <4>6 DEF PIDFileOK
    <3>3. CASE UNCHANGED <<pidfile, newest, raced>>
      <4>1. \A w \in Daemons : ~CheckPID(w)
        BY <2>1, <3>1 DEF CheckPID, Start, Goto, ProcessesOK
      <4>2. QED
        BY <1>3, <3>1, <3>3, <4>1
    <3>4. QED
      BY <2>1, <3>2, <3>3 DEF Start
  <2>2. CASE Exit(u)
    <3>1. /\ pidfile' = Nobody \/ (pidfile # u /\ UNCHANGED pidfile)
          /\ (pidfile' = Nobody /\ stage[u] = "unlink") \/ UNCHANGED pidfile
          /\ stage'[u] = "gone" /\ \A w \in Daemons \ {u} : stage'[w] = stage[w]
          /\ UNCHANGED <<victim, errand, newest, stripped, raced>>
      BY <2>2 DEF Exit, RemovesPID, Goto, ProcessesOK, downVars
    <3>2. Alive(newest)' => newest # u
      BY <3>1 DEF Alive
    <3>3. NewestIsKnown' /\ DownStopsTheDaemon'
      BY <1>1, <1>2, <3>1, <3>2 DEF NewestIsKnown, DownStopsTheDaemon
    <3>4. \A d \in Downs : /\ victim'[d] = Nobody \/ Started(victim[d])'
                           /\ errand'[d] \in {"ask", "wait", "kill", "remove"} => victim'[d] # Nobody
                           /\ errand'[d] = "remove" => stage'[victim'[d]] = "gone"
      BY <1>1, <1>2, <3>1 DEF Started
    <3>5. /\ newest' = Nobody \/ Started(newest)'
          /\ pidfile' = Nobody \/ pidfile' = newest'
          /\ \A w \in Daemons : stage'[w] = "unlink" => newest' = w \/ newest' \in raced'
      BY <1>1, <1>2, <3>1 DEF Started
    <3>6. QED
      BY <3>3, <3>4, <3>5 DEF PIDFileOK
  <2>5. CASE CheckPID(u)
    <3>1. /\ pidfile = u /\ stage[u] = "pid" /\ stage'[u] = "unlink"
          /\ \A w \in Daemons \ {u} : stage'[w] = stage[w]
          /\ UNCHANGED <<pidfile, victim, errand, newest, stripped, raced>>
      BY <2>5 DEF CheckPID, RemovesPID, Goto, ProcessesOK, machineVars, downVars, historyVars
    <3>2. newest = u
      BY <1>2, <3>1 DEF LifecycleAssumption
    <3>3. NewestIsKnown' /\ DownStopsTheDaemon'
      BY <1>1, <1>2, <3>1 DEF NewestIsKnown, DownStopsTheDaemon
    <3>4. \A d \in Downs : /\ victim'[d] = Nobody \/ Started(victim[d])'
                           /\ errand'[d] \in {"ask", "wait", "kill", "remove"} => victim'[d] # Nobody
                           /\ errand'[d] = "remove" => stage'[victim'[d]] = "gone"
      BY <1>1, <1>2, <3>1 DEF Started
    <3>5. /\ newest' = Nobody \/ Started(newest)'
          /\ pidfile' = Nobody \/ pidfile' = newest'
          /\ \A w \in Daemons : stage'[w] = "unlink" => newest' = w \/ newest' \in raced'
      BY <1>1, <1>2, <3>1, <3>2 DEF Started
    <3>6. QED
      BY <3>3, <3>4, <3>5 DEF PIDFileOK
  <2>3. CASE \/ AbandonDial(u) \/ ScanAll(u) \/ Serve(u) \/ DialNext(u) \/ Signal(u) \/ CloseAPI(u)
             \/ Sync(u) \/ StopServices(u) \/ StopWatchdog(u) \/ DisableKill(u) \/ ForceRestore(u)
    <3>1. UNCHANGED <<newest, pidfile, victim, errand, stripped, raced>>
      BY <2>3 DEF AbandonDial, ScanAll, Serve, DialNext, Signal, CloseAPI, Sync, StopServices, StopWatchdog,
                  DisableKill, ForceRestore, machineVars, downVars, historyVars
    <3>2. \A w \in Daemons : stage'[w] = "unlink" => stage[w] = "unlink"
      BY <2>3 DEF AbandonDial, ScanAll, Decisions, Serve, DialNext, Signal, CloseAPI, Sync, StopServices,
                  StopWatchdog, DisableKill, ForceRestore, Goto, ProcessesOK, daemonVars
    <3>3. QED
      BY <1>3, <3>1, <3>2 DEF CheckPID, Goto, ProcessesOK
  <2>4. CASE \/ \E p \in Profiles : \/ TunnelUp(u, p) \/ Attach(u, p) \/ Scan(u, p) \/ Connected(u, p)
                                    \/ DialFails(u, p) \/ Redial(u, p) \/ ConnectRequest(u, p)
             \/ \E w \in Writers : Writes(u, w)
             \/ Killed(u)
    <3>1. UNCHANGED <<newest, pidfile, victim, errand, stripped, raced>>
      BY <2>4 DEF TunnelUp, Attach, Scan, Connected, DialFails, Redial, ConnectRequest, Writes, Killed, Dies,
                  machineVars, downVars, historyVars
    <3>2. \A w \in Daemons : stage'[w] = "unlink" => stage[w] = "unlink"
      BY <2>4 DEF TunnelUp, Attach, Scan, Connected, DialFails, Redial, ConnectRequest, Writes, Killed, Dies,
                  Goto, ProcessesOK, daemonVars
    <3>3. QED
      BY <1>3, <3>1, <3>2 DEF CheckPID, Goto, ProcessesOK
  <2>6. QED
    BY <1>5, <2>1, <2>2, <2>3, <2>4, <2>5 DEF Up
<1>6. ASSUME NEW d \in Downs, DownStep(d) PROVE PIDFileOK'
  <2>0. \A w \in Daemons : ~CheckPID(w)
    <3>1. ASSUME NEW w \in Daemons, stage[w] = "pid" PROVE stage'[w] # "unlink"
      <4>1. CASE HardKill(d)
        BY <3>1, <4>1, KillCases DEF Dies, Goto, ProcessesOK, daemonVars
      <4>2. CASE ~HardKill(d)
        BY <1>6, <3>1, <4>2 DEF DownStep, TakeDown, StaysUp, ScanDown, SwitchDown, ReadPID, AskShutdown,
                                Waited, RemovePID, daemonVars
      <4>3. QED
        BY <4>1, <4>2
    <3>2. QED
      BY <3>1 DEF CheckPID, Goto, ProcessesOK
  <2>1. CASE \E p \in Profiles : DownProfile(d, p)
    <3>1. UNCHANGED <<newest, pidfile, victim, errand, stripped, raced>>
      BY <2>1 DEF DownProfile, TakeDown, StaysUp, ScanDown, SwitchDown, machineVars, historyVars
    <3>2. QED
      BY <1>3, <2>0, <3>1
  <2>2. CASE ReadPID(d)
    <3>1. PICK s : s = IF pidfile = Nobody THEN "done" ELSE "ask"
      OBVIOUS
    <3>2. /\ Step(d, s) /\ s \in {"ask", "wait", "kill", "remove", "done"} /\ s # "remove"
          /\ s = "done" <=> pidfile = Nobody
          /\ victim'[d] = pidfile /\ \A c \in Downs \ {d} : victim'[c] = victim[c]
          /\ UNCHANGED <<newest, pidfile, stripped, raced>>
      BY <2>2, <3>1 DEF ReadPID, ProcessesOK, machineVars, historyVars
    <3>3. QED
      BY <1>2, <1>4, <2>0, <3>2
  <2>3. CASE AskShutdown(d)
    <3>1. PICK s \in {"wait", "kill"} : Step(d, s)
      BY <2>3 DEF AskShutdown
    <3>2. UNCHANGED <<newest, pidfile, stripped, raced, victim>> /\ Started(victim[d])
      BY <1>2, <2>3 DEF AskShutdown, machineVars, historyVars
    <3>3. QED
      BY <1>1, <1>4, <2>0, <3>1, <3>2
  <2>4. CASE Waited(d)
    <3>1. PICK s : s = IF pidfile = Nobody THEN "done" ELSE "kill"
      OBVIOUS
    <3>2. /\ Step(d, s) /\ s \in {"ask", "wait", "kill", "remove", "done"} /\ s # "remove"
          /\ s = "done" <=> pidfile = Nobody
          /\ UNCHANGED <<newest, pidfile, stripped, raced, victim>> /\ Started(victim[d])
      BY <1>2, <2>4, <3>1 DEF Waited, PIDFileGone, machineVars, historyVars
    <3>3. s = "done" /\ victim[d] = newest /\ victim[d] \notin stripped \cup raced => ~Alive(victim[d])
      BY <1>1, <1>2, <3>2 DEF NewestIsKnown
    <3>4. QED
      BY <1>1, <1>4, <2>0, <3>2, <3>3
  <2>5. CASE HardKill(d)
    <3>1. PICK v \in Daemons : v = victim[d]
      BY <2>5, KillCases
    <3>2. Started(v) /\ UNCHANGED <<victim, newest, stripped, raced, pidfile>>
      BY <1>2, <2>5, <3>1, KillCases DEF Dies, machineVars
    <3>3. CASE Dies(v) /\ Step(d, "remove")
      <4>1. stage'[v] = "gone"
        BY <3>3 DEF Dies, Goto, ProcessesOK
      <4>2. QED
        BY <1>1, <1>4, <2>0, <3>1, <3>2, <3>3, <4>1
    <3>4. CASE ~Alive(v) /\ Step(d, "done")
      BY <1>1, <1>4, <2>0, <3>1, <3>2, <3>4
    <3>5. QED
      BY <2>5, <3>1, <3>3, <3>4, KillCases
  <2>6. CASE RemovePID(d)
    <3>1. /\ pidfile' = Nobody /\ stripped' = stripped \cup ({pidfile} \ {victim[d], Nobody})
          /\ UNCHANGED <<victim, newest, raced, stage>> /\ stage[victim[d]] = "gone"
          /\ errand'[d] = "done" /\ \A c \in Downs \ {d} : errand'[c] = errand[c]
      BY <1>2, <2>6 DEF RemovePID, Step, ProcessesOK, daemonVars
    <3>2. NewestIsKnown'
      <4>1. Alive(newest)' => newest # victim[d]
        BY <3>1 DEF Alive
      <4>2. QED
        BY <1>1, <1>2, <3>1, <4>1 DEF NewestIsKnown
    <3>3. DownStopsTheDaemon'
      BY <1>1, <1>2, <3>1 DEF DownStopsTheDaemon, Alive
    <3>4. \A c \in Downs : /\ victim'[c] = Nobody \/ Started(victim[c])'
                           /\ errand'[c] \in {"ask", "wait", "kill", "remove"} => victim'[c] # Nobody
                           /\ errand'[c] = "remove" => stage'[victim'[c]] = "gone"
      BY <1>1, <1>2, <3>1 DEF Started
    <3>5. /\ newest' = Nobody \/ Started(newest)'
          /\ \A u \in Daemons : stage'[u] = "unlink" => newest' = u \/ newest' \in raced'
      BY <1>1, <1>2, <3>1 DEF Started
    <3>6. QED
      BY <3>1, <3>2, <3>3, <3>4, <3>5 DEF PIDFileOK
  <2>7. QED
    BY <1>6, <2>1, <2>2, <2>3, <2>4, <2>5, <2>6 DEF DownStep, DownProfile
<1>7. ASSUME (\E p \in Profiles : Drop(p)) \/ Edit PROVE PIDFileOK'
  <2>1. UNCHANGED <<newest, pidfile, victim, errand, stripped, raced, stage>>
    BY <1>7 DEF Drop, Edit, machineVars, downVars, historyVars, daemonVars
  <2>2. QED
    BY <1>3, <2>1 DEF CheckPID, Goto, ProcessesOK
<1>8. QED
  BY <1>5, <1>6, <1>7 DEF Next

LEMMA GuardChanges ==
    ASSUME LifecycleAssumption, ProcessesOK, PIDFileOK, Next
    PROVE  \/ UNCHANGED <<guarding, resolv>>
           \/ \E u \in Daemons : ForceRestore(u) \/ \E p \in Profiles : Attach(u, p)
<1>1. ASSUME NEW u \in Daemons, Up(u)
      PROVE  UNCHANGED <<guarding, resolv>> \/ ForceRestore(u) \/ \E p \in Profiles : Attach(u, p)
  <2>1. CASE \/ Start(u) \/ AbandonDial(u) \/ ScanAll(u) \/ Serve(u) \/ DialNext(u) \/ Signal(u)
             \/ CloseAPI(u) \/ Sync(u) \/ StopServices(u) \/ StopWatchdog(u) \/ DisableKill(u)
    BY <2>1 DEF Start, AbandonDial, ScanAll, Serve, DialNext, Signal, CloseAPI, Sync, StopServices,
                StopWatchdog, DisableKill, machineVars, daemonVars
  <2>2. CASE \/ \E p \in Profiles : \/ TunnelUp(u, p) \/ Scan(u, p) \/ Connected(u, p) \/ DialFails(u, p)
                                    \/ Redial(u, p) \/ ConnectRequest(u, p)
             \/ \E w \in Writers : Writes(u, w)
             \/ Killed(u) \/ CheckPID(u) \/ Exit(u)
    BY <2>2 DEF TunnelUp, Scan, Connected, DialFails, Redial, ConnectRequest, Writes, Killed, Dies,
                CheckPID, Exit, machineVars, daemonVars
  <2>3. QED
    BY <1>1, <2>1, <2>2 DEF Up
<1>2. ASSUME NEW d \in Downs, DownStep(d) PROVE UNCHANGED <<guarding, resolv>>
  <2>1. CASE HardKill(d)
    BY <2>1, KillCases DEF Dies, machineVars, daemonVars
  <2>2. CASE \/ \E p \in Profiles : DownProfile(d, p)
             \/ ReadPID(d) \/ AskShutdown(d) \/ Waited(d) \/ RemovePID(d)
    BY <2>2 DEF DownProfile, TakeDown, StaysUp, ScanDown, SwitchDown, ReadPID, AskShutdown, Waited, RemovePID, machineVars, daemonVars
  <2>3. QED
    BY <1>2, <2>1, <2>2 DEF DownStep, DownProfile
<1>3. ASSUME (\E p \in Profiles : Drop(p)) \/ Edit PROVE UNCHANGED <<guarding, resolv>>
  BY <1>3 DEF Drop, Edit, machineVars, daemonVars
<1>4. QED
  BY <1>1, <1>2, <1>3 DEF Next

\* Who attaches a profile, with its cleanup still to come.
LEMMA AttachStage ==
    ASSUME ProcessesOK, NEW u \in Daemons, NEW p \in Profiles, Attach(u, p) \/ Connected(u, p), ~late'
    PROVE  UNCHANGED stage /\ stage[u] \in Early
<1>1. dial[u][p] # NoDial /\ stage[u] \notin Leaving /\ UNCHANGED stage
  <2>1. late' = (late \/ stage[u] \in Leaving) /\ UNCHANGED stage
    BY DEF Attach, Connected
  <2>2. dial[u][p].at # "dial" /\ NoDial.at = "dial"
    BY DEF Attach, Connected, Switching, NoDial
  <2>3. QED
    BY <2>1, <2>2 DEF ProcessesOK
<1>2. QED
  BY <1>1 DEF ProcessesOK, Alive, Stages, Leaving

LEMMA GuardSteps ==
    ASSUME LifecycleAssumption, ProcessesOK, PIDFileOK, GuardOK, Next
    PROVE  GuardOK'
<1> SUFFICES ASSUME ~spoilt', ~late' PROVE GuardOK'
  BY DEF GuardOK
<1>1. \/ guarding = {} /\ resolv = [file |-> "original", backup |-> "none"]
      \/ /\ \E u \in Daemons : guarding = {u} /\ stage[u] \in Guarding
         /\ resolv = [file |-> "tunnel", backup |-> "original"]
  BY HistorySteps DEF HistoryGrows, GuardOK
<1>2. ASSUME NEW u \in Daemons, NEW p \in Profiles, Attach(u, p) PROVE GuardOK'
  <2>1. UNCHANGED stage /\ stage[u] \in Guarding
    BY <1>2, AttachStage DEF Guarding, Early
  <2>2. CASE p \in Guarded
    <3>1. /\ resolv' = [file |-> "tunnel", backup |-> resolv.file]
          /\ guarding' = guarding \cup {u} /\ resolv.file # "tunnel"
      BY <1>2, <2>2 DEF Attach
    <3>2. guarding' = {u} /\ resolv' = [file |-> "tunnel", backup |-> "original"]
      BY <1>1, <3>1
    <3>3. QED
      BY <2>1, <3>2 DEF GuardOK
  <2>3. CASE p \notin Guarded
    <3>1. UNCHANGED <<guarding, resolv>>
      BY <1>2, <2>3 DEF Attach
    <3>2. QED
      BY <1>1, <2>1, <3>1 DEF GuardOK
  <2>4. QED
    BY <2>2, <2>3
<1>3. ASSUME NEW u \in Daemons, ForceRestore(u) PROVE GuardOK'
  <2>1. /\ \A v \in Daemons \ {u} : stage'[v] = stage[v]
        /\ IF Restores(u)
           THEN resolv' = [file |-> resolv.backup, backup |-> "none"] /\ guarding' = guarding \ {u}
           ELSE UNCHANGED <<resolv, guarding>>
    BY <1>3 DEF ForceRestore, Goto, ProcessesOK
  <2>2. CASE guarding = {} /\ resolv = [file |-> "original", backup |-> "none"]
    <3>1. UNCHANGED <<resolv, guarding>>
      BY <2>1, <2>2 DEF Restores
    <3>2. QED
      BY <2>2, <3>1 DEF GuardOK
  <2>3. ASSUME NEW v \in Daemons, guarding = {v}, stage[v] \in Guarding,
               resolv = [file |-> "tunnel", backup |-> "original"]
        PROVE  GuardOK'
    <3>1. CASE v = u
      <4>1. Restores(u)
        BY <2>3, <3>1 DEF Restores
      <4>2. guarding' = {} /\ resolv' = [file |-> "original", backup |-> "none"]
        BY <2>1, <2>3, <3>1, <4>1
      <4>3. QED
        BY <4>2 DEF GuardOK
    <3>2. CASE v # u
      <4>1. UNCHANGED <<resolv, guarding>> /\ stage'[v] = stage[v]
        BY <2>1, <2>3, <3>2 DEF Restores
      <4>2. QED
        BY <2>3, <4>1 DEF GuardOK
    <3>3. QED
      BY <3>1, <3>2
  <2>4. QED
    BY <1>1, <2>2, <2>3
<1>4. CASE UNCHANGED <<guarding, resolv>> /\ ~\E u \in Daemons : ForceRestore(u)
  <2>1. ASSUME NEW v \in Daemons, stage[v] \in Guarding PROVE stage'[v] \in Guarding
    <3>1. ASSUME NEW u \in Daemons, Moves(u) PROVE stage'[v] \in Guarding
      BY <1>4, <2>1, <3>1 DEF Moves, Guarding, Early, Goto, CloseAPI, StopServices, CheckPID, Exit, Switching,
                              ProcessesOK
    <3>2. QED
      BY <2>1, <3>1, StageMoves
  <2>2. QED
    BY <1>1, <1>4, <2>1 DEF GuardOK
<1>5. QED
  BY <1>2, <1>3, <1>4, GuardChanges

LEMMA BlockChanges ==
    ASSUME LifecycleAssumption, ProcessesOK, PIDFileOK, Next
    PROVE  \/ UNCHANGED <<blocking, down>> /\ tunnels' \subseteq tunnels
           \/ \E u \in Daemons : \/ Serve(u) \/ DisableKill(u)
                                 \/ \E p \in Profiles : TunnelUp(u, p) \/ Connected(u, p)
           \/ \E d \in Downs, p \in Profiles : DownProfile(d, p)
<1>1. ASSUME NEW u \in Daemons, Up(u)
      PROVE  \/ UNCHANGED <<blocking, down>> /\ tunnels' \subseteq tunnels
             \/ Serve(u) \/ DisableKill(u) \/ \E p \in Profiles : TunnelUp(u, p) \/ Connected(u, p)
  <2>1. CASE \/ Start(u) \/ AbandonDial(u) \/ ScanAll(u) \/ DialNext(u) \/ Signal(u) \/ CloseAPI(u)
             \/ Sync(u) \/ StopServices(u) \/ StopWatchdog(u) \/ ForceRestore(u)
    BY <2>1 DEF Start, AbandonDial, ScanAll, DialNext, Signal, CloseAPI, Sync, StopServices,
                StopWatchdog, ForceRestore, machineVars, downVars
  <2>2. CASE \/ \E p \in Profiles : \/ Attach(u, p) \/ Scan(u, p) \/ DialFails(u, p)
                                    \/ Redial(u, p) \/ ConnectRequest(u, p)
             \/ \E w \in Writers : Writes(u, w)
             \/ Killed(u) \/ CheckPID(u) \/ Exit(u)
    BY <2>2 DEF Attach, Scan, DialFails, Redial, ConnectRequest, Writes, Killed, Dies, CheckPID, Exit,
                machineVars, downVars
  <2>3. QED
    BY <1>1, <2>1, <2>2 DEF Up
<1>2. ASSUME NEW d \in Downs, DownStep(d)
      PROVE  UNCHANGED <<blocking, down, tunnels>> \/ \E p \in Profiles : DownProfile(d, p)
  <2>1. CASE HardKill(d)
    BY <2>1, KillCases DEF Dies, machineVars
  <2>2. CASE ReadPID(d) \/ AskShutdown(d) \/ Waited(d) \/ RemovePID(d)
    BY <2>2 DEF ReadPID, AskShutdown, Waited, RemovePID, machineVars, downVars
  <2>3. QED
    BY <1>2, <2>1, <2>2 DEF DownStep, DownProfile
<1>3. ASSUME (\E p \in Profiles : Drop(p)) \/ Edit
      PROVE  UNCHANGED <<blocking, down>> /\ tunnels' \subseteq tunnels
  BY <1>3 DEF Drop, Edit, machineVars, downVars
<1>4. QED
  BY <1>1, <1>2, <1>3 DEF Next

\* Who is among the profiles that a `down` has taken down.
LEMMA TakenGrows ==
    ASSUME ProcessesOK, NEW d \in Downs, NEW p \in Profiles, DownProfile(d, p)
    PROVE  /\ \A c \in Downs \ {d} : down'[c] = down[c] /\ Taken(c)' = Taken(c)
           /\ \A q \in Profiles \ {p} : down'[d][q] = down[d][q]
           /\ Taken(d)' = IF TakeDown(d, p) THEN Taken(d) \cup {p} ELSE Taken(d)
           /\ Gone' = IF TakeDown(d, p) THEN Gone \cup {p} ELSE Gone
           /\ ~TakeDown(d, p) => UNCHANGED <<tunnels, redialled>>
<1>1. PICK x \in Tasks : Reaches(d, p, x)
  <2>1. CASE ScanDown(d, p)
    <3>1. PICK x \in Decisions : Reaches(d, p, x)
      BY <2>1 DEF ScanDown
    <3>2. x \in Tasks
      BY DEF Decisions, Tasks
    <3>3. QED
      BY <3>1, <3>2
  <2>2. CASE TakeDown(d, p) \/ StaysUp(d, p) \/ SwitchDown(d, p)
    BY <2>2 DEF TakeDown, StaysUp, SwitchDown, Tasks
  <2>3. QED
    BY <2>1, <2>2 DEF DownProfile
<1>2. /\ down'[d][p] = x /\ \A q \in Profiles \ {p} : down'[d][q] = down[d][q]
      /\ \A c \in Downs \ {d} : down'[c] = down[c]
  BY <1>1 DEF Reaches, ProcessesOK
<1>3. \A c \in Downs \ {d} : Taken(c)' = Taken(c)
  BY <1>2 DEF Taken
<1>4. CASE TakeDown(d, p)
  <2>1. down'[d][p] = "scan"
    BY <1>4 DEF TakeDown, Reaches, ProcessesOK
  <2>2. Taken(d)' = Taken(d) \cup {p}
    BY <1>2, <2>1 DEF Taken
  <2>3. Gone' = Gone \cup {p}
    BY <1>3, <2>2 DEF Gone
  <2>4. QED
    BY <1>2, <1>3, <1>4, <2>2, <2>3
<1>5. CASE ~TakeDown(d, p)
  <2>1. (down[d][p] \in {"todo", "failed"}) <=> (down'[d][p] \in {"todo", "failed"})
    BY <1>5 DEF DownProfile, StaysUp, ScanDown, SwitchDown, Reaches, Decisions, Switching, ProcessesOK
  <2>2. Taken(d)' = Taken(d)
    BY <1>2, <2>1 DEF Taken
  <2>3. Gone' = Gone
    BY <1>3, <2>2 DEF Gone
  <2>4. UNCHANGED <<tunnels, redialled>>
    BY <1>5 DEF DownProfile, StaysUp, ScanDown, SwitchDown, machineVars, historyVars
  <2>5. QED
    BY <1>2, <1>3, <1>5, <2>2, <2>3, <2>4
<1>6. QED
  BY <1>4, <1>5

\* The goroutine that takes the last protected tunnel down sees that none is left.
LEMMA PendingSteps ==
    ASSUME LifecycleAssumption, ProcessesOK, NEW d \in Downs, NEW p \in Profiles, DownProfile(d, p),
           tunnels' \cap Gone' = {}, blocking', ~outdated'
    PROVE  \/ Pending(d)'
           \/ blocking /\ ~Pending(d)
<1>1. /\ \A q \in Profiles \ {p} : down'[d][q] = down[d][q]
      /\ Taken(d)' = IF TakeDown(d, p) THEN Taken(d) \cup {p} ELSE Taken(d)
      /\ Gone' = IF TakeDown(d, p) THEN Gone \cup {p} ELSE Gone
      /\ ~TakeDown(d, p) => UNCHANGED <<tunnels, redialled>>
  BY TakenGrows
<1>2. Taken(d)' \subseteq Gone'
  BY DEF Gone
<1>3. CASE TakeDown(d, p)
  <2>1. down'[d][p] = "scan"
    BY <1>3 DEF TakeDown, Reaches, ProcessesOK
  <2>2. QED
    BY <1>1, <1>3, <2>1 DEF Pending
<1>4. CASE StaysUp(d, p)
  <2>1. down[d][p] = "todo" /\ down'[d][p] = "failed" /\ UNCHANGED blocking
    <3>1. down[d][p] = "todo" /\ Reaches(d, p, "failed") /\ UNCHANGED blocking
      BY <1>4 DEF StaysUp, machineVars
    <3>2. QED
      BY <3>1 DEF Reaches, ProcessesOK
  <2>2. ~TakeDown(d, p)
    <3>1. TakeDown(d, p) => down'[d][p] = "scan"
      BY DEF TakeDown, Reaches, ProcessesOK
    <3>2. QED
      BY <2>1, <3>1
  <2>3. Taken(d)' = Taken(d)
    BY <1>1, <2>2
  <2>4. QED
    BY <1>1, <2>1, <2>3 DEF Pending
<1>5. CASE ScanDown(d, p)
  <2>1. /\ down[d][p] = "scan" /\ UNCHANGED <<blocking, tunnels>>
        /\ \E x \in Decisions : down'[d][p] = x
    <3>1. /\ down[d][p] = "scan" /\ UNCHANGED <<blocking, tunnels>>
          /\ \E x \in Decisions : Reaches(d, p, x)
      BY <1>5 DEF ScanDown, machineVars
    <3>2. \A x \in Decisions : Reaches(d, p, x) => down'[d][p] = x
      BY DEF Reaches, ProcessesOK
    <3>3. QED
      BY <3>1, <3>2
  <2>2. ~TakeDown(d, p)
    BY <2>1 DEF TakeDown
  <2>3. Taken(d)' = Taken(d) /\ p \in Taken(d)
    BY <1>1, <2>1, <2>2 DEF Taken
  <2>4. CASE tunnels \cap Protected = {}
    <3>1. down'[d][p] = "disable"
      BY <2>1, <2>4 DEF Decisions
    <3>2. QED
      BY <2>3, <3>1 DEF Pending
  <2>5. CASE tunnels \cap Protected # {}
    <3>1. Taken(d)' # Profiles
      BY <1>2, <2>1, <2>5 DEF ProcessesOK
    <3>2. QED
      BY <2>3, <3>1 DEF Pending
  <2>6. QED
    BY <2>4, <2>5
<1>6. CASE SwitchDown(d, p)
  <2>1. /\ down[d][p] \in Switching /\ ApplyKill(down[d][p]) /\ UNCHANGED tunnels
        /\ outdated' = (outdated \/ (down[d][p] = "enable" /\ tunnels \cap Protected = {}))
        /\ down'[d][p] = "done"
    BY <1>6 DEF SwitchDown, Reaches, ProcessesOK
  <2>2. ~TakeDown(d, p)
    BY <2>1 DEF TakeDown, Switching
  <2>3. Taken(d)' = Taken(d) /\ p \in Taken(d)
    BY <1>1, <2>1, <2>2 DEF Taken, Switching
  <2>4. CASE down[d][p] = "enable"
    <3>1. tunnels \cap Protected # {}
      BY <2>1, <2>4
    <3>2. Taken(d)' # Profiles
      BY <1>2, <2>1, <3>1 DEF ProcessesOK
    <3>3. QED
      BY <2>3, <3>2 DEF Pending
  <2>5. CASE down[d][p] = "disable"
    BY <2>1, <2>5 DEF ApplyKill
  <2>6. CASE down[d][p] = "keep"
    <3>1. blocking
      BY <2>1, <2>6 DEF ApplyKill
    <3>2. Pending(d) => Pending(d)'
      BY <1>1, <2>1, <2>3, <2>6 DEF Pending
    <3>3. QED
      BY <3>1, <3>2
  <2>7. QED
    BY <2>1, <2>4, <2>5, <2>6 DEF Switching
<1>7. QED
  BY <1>3, <1>4, <1>5, <1>6 DEF DownProfile

LEMMA BlockSteps ==
    ASSUME LifecycleAssumption, ProcessesOK, PIDFileOK, BlockOK, Next
    PROVE  BlockOK'
<1> DEFINE Answered == (\E d \in Downs : Pending(d)) \/ \E u \in Daemons : stage[u] \in Blocking
<1>1. HistoryGrows
  BY HistorySteps
<1>2. redialled' = {} => tunnels' \cap Gone' = {}
  <2>1. SUFFICES ASSUME redialled' = {} PROVE tunnels' \cap Gone' = {}
    OBVIOUS
  <2>2. tunnels \cap Gone = {}
    BY <1>1, <2>1 DEF HistoryGrows, BlockOK
  <2>3. ASSUME NEW u \in Daemons, NEW p \in Profiles, TunnelUp(u, p) PROVE tunnels' \cap Gone' = {}
    <3>1. tunnels' = tunnels \cup {p} /\ p \notin Gone /\ Gone' = Gone
      BY <2>1, <2>3 DEF TunnelUp, Gone, Taken, downVars
    <3>2. QED
      BY <2>2, <3>1
  <2>4. ASSUME NEW d \in Downs, NEW p \in Profiles, DownProfile(d, p) PROVE tunnels' \cap Gone' = {}
    <3>1. CASE TakeDown(d, p)
      BY <2>2, <2>4, <3>1, TakenGrows DEF TakeDown
    <3>2. CASE ~TakeDown(d, p)
      BY <2>2, <2>4, <3>2, TakenGrows
    <3>3. QED
      BY <3>1, <3>2
  <2>5. CASE UNCHANGED down /\ tunnels' \subseteq tunnels
    <3>1. Gone' = Gone
      BY <2>5 DEF Gone, Taken
    <3>2. QED
      BY <2>2, <2>5, <3>1
  <2>6. ASSUME NEW u \in Daemons, NEW p \in Profiles, Connected(u, p)
        PROVE  UNCHANGED <<down, tunnels>>
    BY <2>6 DEF Connected, downVars
  <2>7. ASSUME NEW u \in Daemons, Serve(u) \/ DisableKill(u)
        PROVE  UNCHANGED <<down, tunnels>>
    BY <2>7 DEF Serve, DisableKill, downVars
  <2>8. QED
    BY <2>3, <2>4, <2>5, <2>6, <2>7, BlockChanges
<1>3. ASSUME blocking', ~spoilt', ~late', early' = {}, redialled' = {}, ~outdated'
      PROVE  Answered'
  <2>1. ~spoilt /\ ~late /\ early = {} /\ redialled = {} /\ ~outdated
    BY <1>1, <1>3 DEF HistoryGrows
  <2>2. ASSUME NEW u \in Daemons, NEW p \in Profiles, Connected(u, p) PROVE Answered'
    BY <1>3, <2>2, AttachStage DEF Blocking
  <2>3. ASSUME NEW u \in Daemons, Serve(u) PROVE Answered'
    BY <2>3 DEF Serve, Goto, Blocking, Early, ProcessesOK
  <2>4. ASSUME NEW v \in Daemons, stage[v] \in Blocking, ~\E u \in Daemons : DisableKill(u) PROVE Answered'
    <3>1. UNCHANGED stage => stage'[v] \in Blocking
      BY <2>4
    <3>2. ASSUME NEW u \in Daemons, Moves(u) PROVE stage'[v] \in Blocking
      BY <1>3, <2>4, <3>2 DEF Moves, Blocking, Early, Goto, CloseAPI, StopServices, ForceRestore, CheckPID, Exit,
                              Switching, ProcessesOK
    <3>3. QED
      BY <3>1, <3>2, StageMoves
  <2>5. ASSUME NEW d \in Downs, NEW p \in Profiles, DownProfile(d, p) PROVE Answered'
    <3>1. tunnels' \cap Gone' = {}
      BY <1>2, <1>3
    <3>2. CASE Pending(d)'
      BY <3>2
    <3>3. CASE blocking /\ ~Pending(d)
      <4>1. (\E c \in Downs \ {d} : Pending(c)) \/ \E u \in Daemons : stage[u] \in Blocking
        BY <2>1, <3>3 DEF BlockOK
      <4>2. ASSUME NEW c \in Downs \ {d}, Pending(c) PROVE Answered'
        BY <2>5, <4>2, TakenGrows DEF Pending
      <4>3. UNCHANGED stage
        BY <2>5 DEF DownProfile, TakeDown, StaysUp, ScanDown, SwitchDown, daemonVars
      <4>4. QED
        BY <4>1, <4>2, <4>3
    <3>4. QED
      BY <1>3, <2>5, <3>1, <3>2, <3>3, PendingSteps
  <2>6. ASSUME UNCHANGED <<blocking, down>>, ~\E u \in Daemons : DisableKill(u) PROVE Answered'
    <3>1. Answered
      BY <1>3, <2>1, <2>6 DEF BlockOK
    <3>2. (\E d \in Downs : Pending(d)) => Answered'
      BY <2>6 DEF Pending, Taken
    <3>3. QED
      BY <2>4, <2>6, <3>1, <3>2
  <2>7. ASSUME NEW u \in Daemons, NEW p \in Profiles, TunnelUp(u, p)
        PROVE  UNCHANGED <<blocking, down, stage>>
    BY <2>7 DEF TunnelUp, downVars
  <2>8. ASSUME NEW u \in Daemons, DisableKill(u) PROVE FALSE
    BY <1>3, <2>8 DEF DisableKill
  <2>9. QED
    BY <2>2, <2>3, <2>5, <2>6, <2>7, <2>8, BlockChanges
<1>4. QED
  BY <1>2, <1>3 DEF BlockOK

\* The daemon leaves, and its goroutines with it.
Quits(u) ==
    /\ WritersEnd(u)
    /\ stage[u] \in {"pid", "unlink"} \/ spoilt' = TRUE
    /\ stage' = [stage EXCEPT ![u] = "gone"]

\* The steps that touch the hosts file or those who write it.
LEMMA WriterChanges ==
    ASSUME LifecycleAssumption, ProcessesOK, PIDFileOK, Next
    PROVE  \/ UNCHANGED hostsVars
           \/ \E u \in Daemons : \/ stage[u] = "serve" /\ UNCHANGED stage /\ SyncBegins(u)
                                 \/ CloseAPI(u) \/ Quits(u)
                                 \/ \E w \in Writers : Write(u, w) /\ UNCHANGED stage
           \/ UserEdits /\ UNCHANGED stage
<1>1. ASSUME NEW u \in Daemons, Up(u)
      PROVE  \/ UNCHANGED hostsVars
             \/ stage[u] = "serve" /\ UNCHANGED stage /\ SyncBegins(u)
             \/ CloseAPI(u) \/ Quits(u)
             \/ \E w \in Writers : Write(u, w) /\ UNCHANGED stage
  <2>1. CASE \/ Start(u) \/ AbandonDial(u) \/ ScanAll(u) \/ Serve(u) \/ DialNext(u) \/ Signal(u)
             \/ StopServices(u) \/ StopWatchdog(u) \/ DisableKill(u) \/ ForceRestore(u) \/ CheckPID(u)
    BY <2>1 DEF Start, AbandonDial, ScanAll, Serve, DialNext, Signal, StopServices, StopWatchdog,
                DisableKill, ForceRestore, CheckPID
  <2>2. CASE \E p \in Profiles : \/ TunnelUp(u, p) \/ Attach(u, p) \/ Scan(u, p) \/ Connected(u, p)
                                 \/ DialFails(u, p) \/ Redial(u, p) \/ ConnectRequest(u, p)
    BY <2>2 DEF TunnelUp, Attach, Scan, Connected, DialFails, Redial, ConnectRequest
  <2>3. CASE Sync(u)
    BY <2>3 DEF Sync, daemonVars
  <2>4. CASE Exit(u) \/ Killed(u)
    BY <2>4 DEF Exit, Killed, Dies, Goto, Quits
  <2>5. CASE \E w \in Writers : Writes(u, w)
    BY <2>5 DEF Writes, daemonVars
  <2>6. QED
    BY <1>1, <2>1, <2>2, <2>3, <2>4, <2>5 DEF Up
<1>2. ASSUME NEW d \in Downs, DownStep(d)
      PROVE  UNCHANGED hostsVars \/ \E u \in Daemons : Quits(u)
  <2>1. CASE HardKill(d)
    BY <2>1, KillCases DEF Dies, Goto, Quits
  <2>2. CASE \/ \E p \in Profiles : DownProfile(d, p)
             \/ ReadPID(d) \/ AskShutdown(d) \/ Waited(d) \/ RemovePID(d)
    BY <2>2 DEF DownProfile, TakeDown, StaysUp, ScanDown, SwitchDown, ReadPID, AskShutdown, Waited, RemovePID
  <2>3. QED
    BY <1>2, <2>1, <2>2 DEF DownStep, DownProfile
<1>3. ASSUME (\E p \in Profiles : Drop(p)) \/ Edit
      PROVE  UNCHANGED hostsVars \/ (UserEdits /\ UNCHANGED stage)
  BY <1>3 DEF Drop, Edit, daemonVars
<1>4. QED
  BY <1>1, <1>2, <1>3 DEF Next


\* The other steps of a daemon from one stage to the next.
Quiet(u) ==
    \/ stage[u] = "off" /\ Goto(u, "connect")
    \/ stage[u] = "connect" /\ \E s \in {"dns"} \cup Switching : Goto(u, s)
    \/ stage[u] \in Switching /\ Goto(u, "serve")
    \/ stage[u] = "hosts" /\ ~Writing(u, "stop") /\ Goto(u, "watchdog")
    \/ stage[u] \in {"watchdog", "kill", "dns", "pid"}
       /\ \E s \in {"kill", "dns", "pid", "unlink"} : Goto(u, s)

LEMMA HostsChanges ==
    ASSUME LifecycleAssumption, ProcessesOK, PIDFileOK, Next
    PROVE  \/ UNCHANGED hostsVars /\ (UNCHANGED stage \/ \E u \in Daemons : Quiet(u))
           \/ \E u \in Daemons : \/ stage[u] = "serve" /\ UNCHANGED stage /\ SyncBegins(u)
                                 \/ CloseAPI(u) \/ Quits(u)
                                 \/ \E w \in Writers : Write(u, w) /\ UNCHANGED stage
           \/ UserEdits /\ UNCHANGED stage
<1>1. ASSUME NEW u \in Daemons, Moves(u) PROVE Quiet(u) \/ CloseAPI(u) \/ Quits(u)
  BY <1>1 DEF Moves, Quiet, Quits, StopServices, ForceRestore, CheckPID, Exit, Goto
<1>2. QED
  BY <1>1, WriterChanges, StageMoves

\* One writer goes on to x; the others stay where they are.
Sets(u, w, x) == writer' = [writer EXCEPT ![u][w] = x]

LEMMA WriterSets ==
    ASSUME WritersOK, NEW u \in Daemons, NEW w \in Writers, NEW x \in WriterStates, Sets(u, w, x)
    PROVE  /\ writer' \in [Daemons -> [Writers -> WriterStates]]
           /\ writer'[u][w] = x
           /\ \A v \in Daemons, y \in Writers : v # u \/ y # w => writer'[v][y] = writer[v][y]
BY DEF WritersOK, Sets

LEMMA RestIsAState == AtRest \in WriterStates /\ AtRest.at = "idle" /\ AtRest.block = FALSE
BY DEF AtRest, WriterStates

\* What a step of a writer makes of it.
LEMMA WriteSteps ==
    ASSUME WritersOK, NEW u \in Daemons, NEW w \in Writers, Write(u, w)
    PROVE  \E x \in WriterStates :
              /\ Sets(u, w, x) /\ Writing(u, w)
              /\ x.block \in {writer[u][w].block, FALSE}
              /\ \/ (GivesUp(u, w) \/ WriteHosts(u, w)) /\ x.at = "idle"
                 \/ ReadHosts(u, w) /\ x.at = "empty" /\ x.lines = hosts.lines
                 \/ EmptyHosts(u, w) /\ x.at = "write" /\ x.lines = writer[u][w].lines
<1>1. PICK i \in WriterStates : i = writer[u][w]
  BY DEF WritersOK
<1>2. CASE GivesUp(u, w) \/ WriteHosts(u, w)
  <2>1. Sets(u, w, AtRest) /\ Writing(u, w)
    BY <1>2 DEF GivesUp, WriteHosts, Rests, Sets, Writing
  <2>2. QED
    BY <1>2, <2>1, RestIsAState
<1>3. CASE ReadHosts(u, w)
  <2>1. PICK x : x = [i EXCEPT !.at = "empty", !.lines = hosts.lines]
    OBVIOUS
  <2>2. x \in WriterStates /\ x.block = i.block /\ x.at = "empty" /\ x.lines = hosts.lines
    BY <1>1, <2>1 DEF WriterStates, WritersOK
  <2>3. Sets(u, w, x) /\ Writing(u, w)
    BY <1>1, <1>3, <2>1 DEF ReadHosts, Sets, WritersOK, Writing
  <2>4. QED
    BY <1>1, <1>3, <2>2, <2>3
<1>4. CASE EmptyHosts(u, w)
  <2>1. PICK x : x = [i EXCEPT !.at = "write"]
    OBVIOUS
  <2>2. x \in WriterStates /\ x.block = i.block /\ x.at = "write" /\ x.lines = i.lines
    BY <2>1 DEF WriterStates
  <2>3. Sets(u, w, x) /\ Writing(u, w)
    BY <1>1, <1>4, <2>1 DEF EmptyHosts, Sets, WritersOK, Writing
  <2>4. QED
    BY <1>1, <1>4, <2>2, <2>3
<1>5. QED
  BY <1>2, <1>3, <1>4 DEF Write

LEMMA WriterKept ==
    ASSUME LifecycleAssumption, ProcessesOK, PIDFileOK, WritersOK, Next
    PROVE  WritersOK'
<1>1. crossed \subseteq crossed'
  BY HistorySteps DEF HistoryGrows
<1>2. /\ writer \in [Daemons -> [Writers -> WriterStates]]
      /\ hosts \in [lines : Nat, block : BOOLEAN] /\ written \in Nat
      /\ \A u \in Daemons : WriterOK(u)
      /\ stage \in [Daemons -> Stages]
  BY DEF WritersOK, ProcessesOK
<1>3. ASSUME NEW u \in Daemons, writer'[u] = writer[u], stage'[u] = stage[u] PROVE WriterOK(u)'
  BY <1>1, <1>2, <1>3 DEF WriterOK, Writing, Alive
<1>4. CASE UNCHANGED hostsVars /\ UNCHANGED stage
  BY <1>2, <1>3, <1>4 DEF WritersOK, hostsVars
<1>5. ASSUME NEW u \in Daemons, UNCHANGED hostsVars, Quiet(u) PROVE WritersOK'
  <2>1. \A v \in Daemons \ {u} : stage'[v] = stage[v]
    BY <1>2, <1>5 DEF Quiet, Goto
  <2>2. WriterOK(u)'
    BY <1>2, <1>5 DEF Quiet, Switching, Goto, WriterOK, Writing, Alive, hostsVars, Stages, Early
  <2>3. QED
    BY <1>2, <1>3, <1>5, <2>1, <2>2 DEF WritersOK, hostsVars
<1>6. ASSUME NEW u \in Daemons, stage[u] = "serve", UNCHANGED stage, SyncBegins(u) PROVE WritersOK'
  <2>1. PICK b \in BOOLEAN : Sets(u, "sync", [AtRest EXCEPT !.at = "read", !.block = b])
    BY <1>6 DEF SyncBegins, Sets
  <2>2. PICK x : x = [AtRest EXCEPT !.at = "read", !.block = b]
    OBVIOUS
  <2>3. x \in WriterStates /\ Sets(u, "sync", x)
    BY <2>1, <2>2 DEF AtRest, WriterStates
  <2>4. "sync" \in Writers /\ "stop" \in Writers
    BY DEF Writers
  <2>5. /\ writer' \in [Daemons -> [Writers -> WriterStates]]
        /\ writer'[u]["stop"] = writer[u]["stop"]
        /\ \A v \in Daemons \ {u} : writer'[v]["stop"] = writer[v]["stop"] /\ writer'[v]["sync"] = writer[v]["sync"]
    BY <2>3, <2>4, WriterSets
  <2>6. WriterOK(u)'
    BY <1>2, <1>6, <2>5 DEF WriterOK, Writing, Alive
  <2>7. ASSUME NEW v \in Daemons \ {u} PROVE WriterOK(v)'
    BY <1>1, <1>2, <1>6, <2>5 DEF WriterOK, Writing, Alive
  <2>8. QED
    BY <1>2, <1>6, <2>5, <2>6, <2>7 DEF WritersOK, SyncBegins
<1>7. ASSUME NEW u \in Daemons, CloseAPI(u) PROVE WritersOK'
  <2>1. PICK x : x = [AtRest EXCEPT !.at = "read"]
    OBVIOUS
  <2>2. x \in WriterStates /\ Sets(u, "stop", x) /\ x.block = FALSE
    BY <1>7, <2>1 DEF AtRest, WriterStates, CloseAPI, StopBegins, Sets
  <2>3. "sync" \in Writers /\ "stop" \in Writers /\ "sync" # "stop"
    BY DEF Writers
  <2>4. /\ writer' \in [Daemons -> [Writers -> WriterStates]]
        /\ writer'[u]["stop"] = x /\ writer'[u]["sync"] = writer[u]["sync"]
        /\ \A v \in Daemons \ {u} : writer'[v]["stop"] = writer[v]["stop"] /\ writer'[v]["sync"] = writer[v]["sync"]
    BY <2>2, <2>3, WriterSets
  <2>5. /\ stage[u] = "serve" /\ stage'[u] = "hosts" /\ \A v \in Daemons \ {u} : stage'[v] = stage[v]
        /\ Writing(u, "sync") => u \in crossed'
    BY <1>2, <1>7 DEF CloseAPI, Goto, StopBegins
  <2>6. WriterOK(u)'
    BY <1>2, <2>2, <2>4, <2>5 DEF WriterOK, Writing, Alive
  <2>7. ASSUME NEW v \in Daemons \ {u} PROVE WriterOK(v)'
    BY <1>1, <1>2, <2>4, <2>5 DEF WriterOK, Writing, Alive
  <2>8. QED
    BY <1>2, <1>7, <2>4, <2>6, <2>7 DEF WritersOK, CloseAPI, StopBegins
<1>8. ASSUME NEW u \in Daemons, Quits(u) PROVE WritersOK'
  <2>0. WritersEnd(u) /\ stage' = [stage EXCEPT ![u] = "gone"]
    BY <1>8 DEF Quits
  <2>1. /\ writer' = [writer EXCEPT ![u] = [w \in Writers |-> AtRest]]
        /\ UNCHANGED <<hosts, written>>
    BY <2>0 DEF WritersEnd
  <2>2. writer' \in [Daemons -> [Writers -> WriterStates]]
    BY <1>2, <2>1, RestIsAState
  <2>3. /\ writer'[u]["sync"] = AtRest /\ writer'[u]["stop"] = AtRest
        /\ \A v \in Daemons \ {u} : writer'[v] = writer[v] /\ stage'[v] = stage[v]
    BY <1>2, <2>0, <2>1 DEF Writers
  <2>4. WriterOK(u)'
    BY <2>3, RestIsAState DEF WriterOK, Writing
  <2>5. QED
    BY <1>2, <1>3, <2>1, <2>2, <2>3, <2>4 DEF WritersOK
<1>9. ASSUME NEW u \in Daemons, NEW w \in Writers, Write(u, w), UNCHANGED stage PROVE WritersOK'
  <2>1. PICK x \in WriterStates : /\ Sets(u, w, x) /\ Writing(u, w)
                                  /\ x.block \in {writer[u][w].block, FALSE}
    BY <1>9, WriteSteps DEF WritersOK
  <2>2. /\ writer' \in [Daemons -> [Writers -> WriterStates]] /\ writer'[u][w] = x
        /\ \A v \in Daemons, y \in Writers : v # u \/ y # w => writer'[v][y] = writer[v][y]
    BY <2>1, WriterSets
  <2>3. ASSUME NEW v \in Daemons
        PROVE  /\ Writing(v, "stop")' => Writing(v, "stop")
               /\ Writing(v, "sync")' => Writing(v, "sync")
               /\ writer'[v]["stop"].block = FALSE
    BY <1>2, <2>1, <2>2 DEF Writing, WriterOK, Writers
  <2>4. \A v \in Daemons : WriterOK(v)'
    BY <1>1, <1>2, <1>9, <2>3 DEF WriterOK, Alive
  <2>5. hosts' \in [lines : Nat, block : BOOLEAN] /\ written' = written
    <3>1. CASE GivesUp(u, w) \/ ReadHosts(u, w)
      BY <1>2, <3>1 DEF GivesUp, ReadHosts
    <3>2. CASE EmptyHosts(u, w)
      BY <3>2 DEF EmptyHosts
    <3>3. CASE WriteHosts(u, w)
      <4>1. writer[u][w].lines \in Nat /\ writer[u][w].block \in BOOLEAN
        BY <1>2 DEF WriterStates
      <4>2. QED
        BY <1>2, <3>3, <4>1 DEF WriteHosts, Block
    <3>4. QED
      BY <1>9, <3>1, <3>2, <3>3 DEF Write
  <2>6. QED
    BY <1>2, <2>2, <2>4, <2>5 DEF WritersOK
<1>10. CASE UserEdits /\ UNCHANGED stage
  <2>1. written' = written + 1 /\ hosts' = [hosts EXCEPT !.lines = written + 1] /\ UNCHANGED writer
    BY <1>10 DEF UserEdits
  <2>2. written' \in Nat /\ hosts' \in [lines : Nat, block : BOOLEAN]
    BY <1>2, <2>1
  <2>3. QED
    BY <1>2, <1>3, <1>10, <2>1, <2>2 DEF WritersOK
<1>11. QED
  BY <1>4, <1>5, <1>6, <1>7, <1>8, <1>9, <1>10, HostsChanges

LEMMA MidwayIs ==
    /\ \A u \in Daemons, w \in Writers : <<u, w>> \in Midway <=> At(u, w) \in {"empty", "write"}
    /\ \A x \in Midway : x[1] \in Daemons /\ x[2] \in Writers /\ x = <<x[1], x[2]>>
BY DEF Midway, At

LEMMA LinesSteps ==
    ASSUME LifecycleAssumption, ProcessesOK, PIDFileOK, WritersOK, LinesOK, Next
    PROVE  LinesOK'
<1> SUFFICES ASSUME ~torn' PROVE LinesOK'
  BY DEF LinesOK
<1>1. Settled \/ \E u \in Daemons, w \in Writers : Holds(u, w)
  BY HistorySteps DEF HistoryGrows, LinesOK
<1>2. /\ writer \in [Daemons -> [Writers -> WriterStates]]
      /\ hosts \in [lines : Nat, block : BOOLEAN] /\ written \in Nat
      /\ torn \in BOOLEAN
  BY DEF WritersOK, ProcessesOK
<1>3. CASE UNCHANGED hostsVars
  BY <1>1, <1>3 DEF LinesOK, Settled, Holds, At, hostsVars
\* A writer that comes or goes without having emptied the file.
<1>4. ASSUME NEW u \in Daemons, NEW w \in Writers, NEW x \in WriterStates, Sets(u, w, x),
             UNCHANGED <<hosts, written>>, At(u, w) # "write", x.at \in {"idle", "read"}
      PROVE  LinesOK'
  <2>1. /\ At(u, w)' \in {"idle", "read"}
        /\ \A v \in Daemons, y \in Writers : v # u \/ y # w => writer'[v][y] = writer[v][y]
    BY <1>4, WriterSets DEF At
  <2>2. ASSUME Settled PROVE Settled'
    BY <1>4, <2>1, <2>2 DEF Settled, At
  <2>3. ASSUME NEW v \in Daemons, NEW y \in Writers, Holds(v, y) PROVE Holds(v, y)'
    BY <1>4, <2>1, <2>3 DEF Holds, At
  <2>4. QED
    BY <1>1, <2>2, <2>3 DEF LinesOK
<1>5. ASSUME NEW u \in Daemons, SyncBegins(u) PROVE LinesOK'
  <2>1. PICK b \in BOOLEAN : Sets(u, "sync", [AtRest EXCEPT !.at = "read", !.block = b])
    BY <1>5 DEF SyncBegins, Sets
  <2>2. PICK x : x = [AtRest EXCEPT !.at = "read", !.block = b]
    OBVIOUS
  <2>3. x \in WriterStates /\ Sets(u, "sync", x) /\ x.at = "read"
    BY <2>1, <2>2 DEF AtRest, WriterStates
  <2>4. "sync" \in Writers /\ UNCHANGED <<hosts, written>> /\ At(u, "sync") = "idle"
    BY <1>5 DEF SyncBegins, Writers, Writing, At
  <2>5. QED
    BY <1>4, <2>3, <2>4
<1>6. ASSUME NEW u \in Daemons, CloseAPI(u) PROVE LinesOK'
  <2>1. PICK x : x = [AtRest EXCEPT !.at = "read"]
    OBVIOUS
  <2>2. x \in WriterStates /\ Sets(u, "stop", x) /\ x.at = "read" /\ UNCHANGED <<hosts, written>>
    BY <1>6, <2>1 DEF AtRest, WriterStates, CloseAPI, StopBegins, Sets
  <2>3. "stop" \in Writers /\ At(u, "stop") = "idle"
    BY <1>6 DEF Writers, CloseAPI, WritersOK, WriterOK, Writing, At
  <2>4. QED
    BY <1>4, <2>2, <2>3
<1>7. ASSUME NEW u \in Daemons, Quits(u) PROVE LinesOK'
  <2>1. WritersEnd(u)
    BY <1>7 DEF Quits
  <2>2. /\ \A w \in Writers : writer'[u][w] = AtRest /\ At(u, w) # "write"
        /\ \A v \in Daemons \ {u}, w \in Writers : writer'[v][w] = writer[v][w]
        /\ UNCHANGED <<hosts, written>>
    BY <1>2, <2>1 DEF WritersEnd, At
  <2>3. \A w \in Writers : At(u, w)' = "idle"
    BY <2>2, RestIsAState DEF At
  <2>4. ASSUME Settled PROVE Settled'
    BY <2>2, <2>3, <2>4 DEF Settled, At
  <2>5. ASSUME NEW v \in Daemons, NEW y \in Writers, Holds(v, y) PROVE Holds(v, y)'
    BY <2>2, <2>3, <2>5 DEF Holds, At
  <2>6. QED
    BY <1>1, <2>4, <2>5 DEF LinesOK
<1>8. ASSUME NEW u \in Daemons, NEW w \in Writers, Write(u, w) PROVE LinesOK'
  <2>1. PICK x \in WriterStates :
           /\ Sets(u, w, x)
           /\ \/ (GivesUp(u, w) \/ WriteHosts(u, w)) /\ x.at = "idle"
              \/ ReadHosts(u, w) /\ x.at = "empty" /\ x.lines = hosts.lines
              \/ EmptyHosts(u, w) /\ x.at = "write" /\ x.lines = writer[u][w].lines
    BY <1>8, WriteSteps
  <2>2. /\ writer'[u][w] = x
        /\ \A v \in Daemons, y \in Writers : v # u \/ y # w => writer'[v][y] = writer[v][y]
    BY <2>1, WriterSets
  <2>3. CASE GivesUp(u, w) /\ x.at = "idle"
    <3>1. At(u, w) # "write" /\ UNCHANGED <<hosts, written>>
      BY <2>3 DEF GivesUp, At
    <3>2. QED
      BY <1>4, <2>1, <2>3, <3>1
  <2>4. CASE ReadHosts(u, w) /\ x.at = "empty" /\ x.lines = hosts.lines
    <3>1. UNCHANGED <<hosts, written>> /\ \A y \in Midway : writer[y[1]][y[2]].at # "write"
      BY <1>2, <2>4 DEF ReadHosts
    <3>2. \A v \in Daemons, y \in Writers : ~Holds(v, y)
      <4>1. ASSUME NEW v \in Daemons, NEW y \in Writers, Holds(v, y) PROVE FALSE
        <5>1. <<v, y>> \in Midway /\ writer[v][y].at = "write"
          BY <4>1, MidwayIs DEF Holds, At
        <5>2. QED
          BY <3>1, <5>1
      <4>2. QED
        BY <4>1
    <3>3. Settled'
      BY <1>1, <2>2, <2>4, <3>1, <3>2 DEF Settled, At
    <3>4. QED
      BY <3>3 DEF LinesOK
  <2>5. CASE EmptyHosts(u, w) /\ x.at = "write" /\ x.lines = writer[u][w].lines
    <3>1. Midway = {<<u, w>>} /\ At(u, w) = "empty" /\ written' = written
      BY <1>2, <2>5 DEF EmptyHosts, At
    <3>2. \A v \in Daemons, y \in Writers : At(v, y) \in {"empty", "write"} => v = u /\ y = w
      BY <3>1, MidwayIs
    <3>3. writer[u][w].lines = written
      BY <1>1, <3>1, <3>2 DEF Settled, Holds
    <3>4. Holds(u, w)'
      BY <2>2, <2>5, <3>1, <3>2, <3>3 DEF Holds, At
    <3>5. QED
      BY <3>4 DEF LinesOK
  <2>6. CASE WriteHosts(u, w) /\ x.at = "idle"
    <3>1. /\ At(u, w) = "write" /\ hosts' = [lines |-> writer[u][w].lines, block |-> Block(u, w)]
          /\ written' = written
      BY <2>6 DEF WriteHosts, At
    <3>2. Holds(u, w)
      BY <1>1, <3>1 DEF Settled, Holds
    <3>3. Settled'
      BY <2>2, <2>6, <3>1, <3>2 DEF Settled, Holds, At
    <3>4. QED
      BY <3>3 DEF LinesOK
  <2>7. QED
    BY <2>1, <2>3, <2>4, <2>5, <2>6
<1>9. CASE UserEdits
  <2>1. /\ written' = written + 1 /\ hosts'.lines = written + 1 /\ UNCHANGED writer
        /\ Midway = {}
    BY <1>2, <1>9 DEF UserEdits
  <2>2. \A u \in Daemons, w \in Writers : At(u, w) \notin {"empty", "write"}
    BY <2>1, MidwayIs
  <2>3. Settled'
    BY <2>1, <2>2 DEF Settled, At
  <2>4. QED
    BY <2>3 DEF LinesOK
<1>10. QED
  BY <1>3, <1>5, <1>6, <1>7, <1>8, <1>9, HostsChanges

LEMMA BlockLineSteps ==
    ASSUME LifecycleAssumption, ProcessesOK, PIDFileOK, WritersOK, BlockLineOK, Next
    PROVE  BlockLineOK'
<1> DEFINE Minds(u) == stage[u] = "serve" \/ (stage[u] = "hosts" /\ Writing(u, "stop"))
<1> SUFFICES ASSUME hosts'.block, ~spoilt', ~torn', crossed' = {}
             PROVE  \E u \in Daemons : Minds(u)'
  BY DEF BlockLineOK
<1>1. ~spoilt /\ ~torn /\ crossed = {} /\ stage \in [Daemons -> Stages]
  BY HistorySteps DEF HistoryGrows, ProcessesOK
<1>2. /\ writer \in [Daemons -> [Writers -> WriterStates]]
      /\ \A u \in Daemons : WriterOK(u)
      /\ spoilt \in BOOLEAN /\ torn \in BOOLEAN
  BY DEF WritersOK, ProcessesOK
<1>3. hosts.block => \E u \in Daemons : Minds(u)
  BY <1>1 DEF BlockLineOK
<1>4. CASE UNCHANGED hostsVars /\ UNCHANGED stage
  BY <1>3, <1>4 DEF hostsVars, Writing
<1>5. ASSUME NEW v \in Daemons, UNCHANGED hostsVars, Quiet(v) PROVE \E u \in Daemons : Minds(u)'
  <2>1. PICK u \in Daemons : Minds(u)
    BY <1>3, <1>5 DEF hostsVars
  <2>2. Minds(u)'
    BY <1>1, <1>5, <2>1 DEF Quiet, Switching, Goto, Writing, hostsVars
  <2>3. QED
    BY <2>2
<1>6. ASSUME NEW v \in Daemons, stage[v] = "serve", UNCHANGED stage PROVE \E u \in Daemons : Minds(u)'
  BY <1>6
<1>7. ASSUME NEW v \in Daemons, CloseAPI(v) PROVE \E u \in Daemons : Minds(u)'
  <2>1. /\ stage'[v] = "hosts" /\ writer'[v]["stop"].at = "read"
    BY <1>1, <1>2, <1>7 DEF CloseAPI, Goto, StopBegins, Writers, AtRest
  <2>2. QED
    BY <2>1 DEF Writing
<1>8. ASSUME NEW v \in Daemons, Quits(v) PROVE \E u \in Daemons : Minds(u)'
  <2>1. WritersEnd(v) /\ stage[v] \in {"pid", "unlink"} /\ stage' = [stage EXCEPT ![v] = "gone"]
    BY <1>8 DEF Quits
  <2>2. PICK u \in Daemons : Minds(u)
    BY <1>3, <2>1 DEF WritersEnd
  <2>3. u # v /\ stage'[u] = stage[u] /\ writer'[u] = writer[u]
    BY <1>1, <1>2, <2>1, <2>2 DEF WritersEnd
  <2>4. QED
    BY <2>2, <2>3 DEF Writing
<1>9. ASSUME NEW v \in Daemons, NEW w \in Writers, Write(v, w), UNCHANGED stage
      PROVE  \E u \in Daemons : Minds(u)'
  <2>1. CASE WriteHosts(v, w)
    <3>1. writer[v][w].block /\ writer[v][w].at = "write"
      BY <1>1, <1>2, <2>1 DEF WriteHosts, Block
    <3>2. w = "sync" /\ Writing(v, "sync")
      BY <1>2, <3>1 DEF Writers, WriterOK, Writing
    <3>3. stage'[v] = "serve"
      BY <1>1, <1>2, <1>9, <3>2 DEF WriterOK
    <3>4. QED
      BY <3>3
  <2>2. CASE EmptyHosts(v, w)
    BY <2>2 DEF EmptyHosts
  <2>3. CASE GivesUp(v, w) \/ ReadHosts(v, w)
    <3>1. hosts' = hosts /\ (GivesUp(v, w) => w # "stop")
      BY <2>3 DEF GivesUp, ReadHosts
    <3>2. PICK u \in Daemons : Minds(u)
      BY <1>3, <3>1
    <3>3. PICK x \in WriterStates : Sets(v, w, x) /\ (w = "stop" => x.at = "empty")
      <4>1. PICK y \in WriterStates :
               /\ Sets(v, w, y)
               /\ \/ (GivesUp(v, w) \/ WriteHosts(v, w)) /\ y.at = "idle"
                  \/ ReadHosts(v, w) /\ y.at = "empty"
                  \/ EmptyHosts(v, w) /\ y.at = "write"
        BY <1>9, WriteSteps
      <4>2. ~WriteHosts(v, w)
        BY <2>3 DEF GivesUp, ReadHosts, WriteHosts
      <4>3. ~EmptyHosts(v, w)
        BY DEF EmptyHosts
      <4>4. QED
        BY <2>3, <3>1, <4>1, <4>2, <4>3
    <3>4. /\ writer'[v][w] = x
          /\ \A z \in Daemons, y \in Writers : z # v \/ y # w => writer'[z][y] = writer[z][y]
      BY <3>3, WriterSets
    <3>5. Writing(u, "stop") => Writing(u, "stop")'
      BY <3>3, <3>4 DEF Writing, Writers
    <3>6. QED
      BY <1>9, <3>2, <3>5
  <2>4. QED
    BY <1>9, <2>1, <2>2, <2>3 DEF Write
<1>10. CASE UserEdits /\ UNCHANGED stage
  <2>1. hosts'.block = hosts.block /\ UNCHANGED writer
    BY <1>10 DEF UserEdits, WritersOK
  <2>2. QED
    BY <1>3, <1>10, <2>1 DEF Writing
<1>11. QED
  BY <1>4, <1>5, <1>6, <1>7, <1>8, <1>9, <1>10, HostsChanges

LEMMA LifecycleStarts == ASSUME LifecycleAssumption, Init PROVE LifecycleInv
<1>1. /\ stage = [u \in Daemons |-> "off"]
      /\ dial = [u \in Daemons |-> [p \in Profiles |-> NoDial]]
      /\ left = [u \in Daemons |-> Profiles]
      /\ guarding = {} /\ pidfile = Nobody
      /\ tunnels = {} /\ blocking = FALSE
      /\ resolv = [file |-> "original", backup |-> "none"]
  BY DEF Init
<1>2. /\ errand = [d \in Downs |-> "off"] /\ victim = [d \in Downs |-> Nobody]
      /\ down = [d \in Downs |-> [p \in Profiles |-> "todo"]]
      /\ newest = Nobody /\ late = FALSE /\ spoilt = FALSE /\ outdated = FALSE
  BY DEF Init
<1>3. /\ hosts.lines = 1 /\ hosts.block = FALSE /\ hosts \in [lines : Nat, block : BOOLEAN]
      /\ writer = [u \in Daemons |-> [w \in Writers |-> AtRest]]
      /\ written = 1 /\ torn = FALSE
  <2>1. HostsInit
    BY DEF Init
  <2>2. QED
    BY <2>1 DEF HostsInit
<1>4. ProcessesOK
  <2>1. DOMAIN dial = Daemons /\ \A u \in Daemons : DOMAIN dial[u] = Profiles
    BY <1>1
  <2>2. \A u \in Daemons, p \in Profiles : dial[u][p] = NoDial
    BY <1>1
  <2>3. /\ stage \in [Daemons -> Stages] /\ errand \in [Downs -> Errands]
        /\ down \in [Downs -> [Profiles -> Tasks]]
    BY <1>1, <1>2 DEF Stages, Errands, Tasks
  <2>4. QED
    BY <1>1, <1>2, <1>3, <2>1, <2>2, <2>3 DEF ProcessesOK
<1>5. PIDFileOK
  BY <1>1, <1>2 DEF PIDFileOK, NewestIsKnown, DownStopsTheDaemon
<1>6. GuardOK
  BY <1>1 DEF GuardOK
<1>7. BlockOK
  BY <1>1 DEF BlockOK
<1>8. WritersOK
  <2>1. \A u \in Daemons : writer[u]["stop"] = AtRest /\ writer[u]["sync"] = AtRest
    BY <1>3 DEF Writers
  <2>2. writer \in [Daemons -> [Writers -> WriterStates]]
    BY <1>3, RestIsAState
  <2>3. \A u \in Daemons : WriterOK(u)
    BY <2>1, RestIsAState DEF WriterOK, Writing
  <2>4. QED
    BY <1>3, <2>2, <2>3 DEF WritersOK
<1>9. LinesOK
  BY <1>3, RestIsAState DEF LinesOK, Settled, At
<1>10. BlockLineOK
  BY <1>3 DEF BlockLineOK
<1>11. QED
  BY <1>4, <1>5, <1>6, <1>7, <1>8, <1>9, <1>10 DEF LifecycleInv

LEMMA LifecycleStays == ASSUME LifecycleInv, UNCHANGED vars PROVE LifecycleInv'
<1>1. UNCHANGED <<stage, left, dial, guarding, pidfile, tunnels, resolv, blocking, errand, victim, down>>
  BY DEF vars, daemonVars, machineVars, downVars
<1>2. UNCHANGED <<newest, stripped, raced, late, spoilt, early, redialled, outdated, hosts, writer, written, torn, crossed>>
  BY DEF vars, historyVars, hostsVars
<1>3. ProcessesOK'
  BY <1>1, <1>2 DEF LifecycleInv, ProcessesOK, Alive
<1>4. PIDFileOK'
  BY <1>1, <1>2 DEF LifecycleInv, PIDFileOK, Started, NewestIsKnown, DownStopsTheDaemon, Alive
<1>5. GuardOK'
  BY <1>1, <1>2 DEF LifecycleInv, GuardOK
<1>6. BlockOK'
  BY <1>1, <1>2 DEF LifecycleInv, BlockOK, Pending, Gone, Taken
<1>7. WritersOK'
  BY <1>1, <1>2 DEF LifecycleInv, WritersOK, WriterOK, Writing, Alive
<1>8. LinesOK'
  BY <1>2 DEF LifecycleInv, LinesOK, Settled, Holds, At
<1>9. BlockLineOK'
  BY <1>1, <1>2 DEF LifecycleInv, BlockLineOK, Writing
<1>10. QED
  BY <1>3, <1>4, <1>5, <1>6, <1>7, <1>8, <1>9 DEF LifecycleInv

LEMMA LifecycleInvariance == Spec => []LifecycleInv
<1>1. Init => LifecycleInv
  BY LifecycleAssumption, LifecycleStarts
<1>2. ASSUME LifecycleInv, [Next]_vars PROVE LifecycleInv'
  <2>1. CASE Next
    BY <1>2, <2>1, LifecycleAssumption, ProcessSteps, PIDFileSteps, GuardSteps, BlockSteps,
       WriterKept, LinesSteps, BlockLineSteps DEF LifecycleInv
  <2>2. CASE UNCHANGED vars
    BY <1>2, <2>2, LifecycleStays
  <2>3. QED
    BY <1>2, <2>1, <2>2
<1>3. QED
  BY <1>1, <1>2, PTL DEF Spec

\* The daemon that wrote the PID file last is named there for as long as it runs,
\* whatever other daemons start, leave or die, unless a `down` that had killed
\* another one removed the file, or a daemon that had read its own name there
\* just before this one wrote.
THEOREM NewestStaysKnown == Spec => []NewestIsKnown
<1>1. LifecycleInv => NewestIsKnown
  BY DEF LifecycleInv, PIDFileOK
<1>2. QED
  BY <1>1, LifecycleInvariance, PTL

\* When `down` says it is done, the daemon it found in the PID file has left,
\* however exits, starts and other `down`s interleave, unless one of them removed
\* that daemon's entry.
THEOREM DownIsEffective == Spec => []DownStopsTheDaemon
<1>1. LifecycleInv => DownStopsTheDaemon
  BY DEF LifecycleInv, PIDFileOK
<1>2. QED
  BY <1>1, LifecycleInvariance, PTL

\* The machine is as it was when the last daemon has left, for any number of them
\* and any interleaving of their connects, scans, switches, cleanups and writers
\* with each other and with the goroutines of `down`; the ways out that the code
\* leaves open are exceptions of the property.
THEOREM MachineIsGivenBack == Spec => []ExitCleansUp
<1>1. ASSUME LifecycleInv PROVE ExitCleansUp
  <2> SUFFICES ASSUME Deserted, ~spoilt, ~late PROVE ExitCleansUp
    BY DEF ExitCleansUp
  <2>1. \A u \in Daemons : stage[u] \in {"off", "gone"}
    BY DEF Deserted, Alive
  <2>2. resolv = [file |-> "original", backup |-> "none"]
    BY <1>1, <2>1 DEF LifecycleInv, GuardOK, Guarding, Early
  <2>3. early = {} /\ redialled = {} /\ ~HalfDown /\ ~outdated => ~blocking
    <3>1. ASSUME NEW d \in Downs, Pending(d) PROVE HalfDown
      BY <3>1 DEF Pending, HalfDown, Switching
    <3>2. \A u \in Daemons : stage[u] \notin Blocking
      BY <2>1 DEF Blocking, Early
    <3>3. QED
      BY <1>1, <3>1, <3>2 DEF LifecycleInv, BlockOK
  <2>4. ASSUME ~torn, crossed = {} PROVE hosts = [lines |-> written, block |-> FALSE]
    <3>1. \A u \in Daemons : ~Writing(u, "stop") /\ ~Writing(u, "sync")
      BY <1>1, <2>1 DEF LifecycleInv, WritersOK, WriterOK, Alive
    <3>2. \A u \in Daemons, w \in Writers : ~Holds(u, w)
      BY <3>1 DEF Writers, Writing, Holds, At
    <3>3. hosts.lines = written
      BY <1>1, <2>4, <3>2 DEF LifecycleInv, LinesOK, Settled
    <3>4. hosts.block = FALSE
      BY <1>1, <2>1, <2>4 DEF LifecycleInv, BlockLineOK, WritersOK
    <3>5. hosts \in [lines : Nat, block : BOOLEAN]
      BY <1>1 DEF LifecycleInv, WritersOK
    <3>6. QED
      BY <3>3, <3>4, <3>5
  <2>5. QED
    BY <2>2, <2>3, <2>4 DEF ExitCleansUp
<1>2. QED
  BY <1>1, LifecycleInvariance, PTL
=============================================================================
