---------------------------- MODULE ConfigStore ----------------------------
(***************************************************************************)
(* The configuration of a running daemon: kongtrol.yaml, the OS keychain,  *)
(* the policy engine and the services that are made from the file, and the *)
(* requests that change them (internal/api, internal/config).              *)
(*                                                                         *)
(* secureHandler serialises with configMu the requests that may change the *)
(* file, but tells them by their paths: neither a tunnel's reload nor the  *)
(* update of a group named "connect" is among them.  A request loads the   *)
(* file, edits its copy, puts new credentials into the keychain, writes    *)
(* the file, stores the engine, and only then hands the configuration to   *)
(* the daemon, which makes its services of it one after the other.  Any of *)
(* the writes may fail, the daemon may die between two of them, and the    *)
(* user may edit the file with an editor at any time.                      *)
(***************************************************************************)
EXTENDS ConfigHandlers

CONSTANTS
    Operations,     \* the requests that may come
    HandEdits,      \* what may be typed into the file: policies, the kill switch, the mode
    Initial,        \* the file at first
    Requests,       \* requests in flight
    Nobody,         \* configMu is free
    Secrets,        \* the credentials that requests bring
    Missing,        \* the keychain has no such item
    Hosts, Apps,    \* domains and applications that may be asked about
    Snapshots,      \* what the resolver may list: profiles by network
    MaxEvents       \* bound: requests, edits by hand and deaths of the daemon

\* The rules that the file may hold: requests', its own and those typed into it.
AskedRules == {o.rule : o \in {p \in Operations : p.kind \in {"create policy", "update policy"}}}

WrittenRules ==
    AskedRules \cup UNION {{s[i] : i \in DOMAIN s} :
                              s \in {Initial.policies} \cup {e.policies : e \in HandEdits}}

PolicyRules == WrittenRules \cup {Expanded(rule, RulesWithVars) : rule \in WrittenRules}

\* Policies come in a sequence, their networks are networks, a variable does not
\* hold the name of another one, and an application that is asked about is known.
ASSUME RulesAssumption ==
    /\ \A s \in {Initial.policies} \cup {e.policies : e \in HandEdits} : s \in Seq(PolicyRules)
    /\ \A rule \in PolicyRules : /\ rule # NoMatch /\ rule.ranges \subseteq Networks
                                 /\ Expanded(rule, RulesWithVars) \in PolicyRules
    /\ NoApp \notin Apps

\* A request is of a kind that has a handler, and brings credentials that exist.
ASSUME StoreAssumption ==
    /\ Loads(Initial) /\ Shaped(Initial)
    /\ \A o \in Operations : /\ o.kind \in Kinds /\ Gives(o) \subseteq Credentials
                             /\ Gives(o) # {} => o.secret \in Secrets
    /\ Secrets # {}
    /\ Nobody \notin Requests
    /\ Missing \notin Secrets

VARIABLES
    file,       \* kongtrol.yaml
    keychain,   \* per profile and credential: the secret, or Missing
    alive,      \* the daemon runs
    holder,     \* who holds configMu
    pc,         \* per request: how far it is
    op,         \* per request: what it asks for
    base,       \* per request: the file it read
    copy,       \* per request: the configuration it is about to save
    todo,       \* per request: credentials still to be set or removed
    backup,     \* per request: what restoreCredentials puts back
    engine,     \* the API's policy engine
    running,    \* the daemon's configuration
    services,   \* the configurations its guards' and its profiles' services go by
    switches,   \* the API's killSwitchOn and dnsGuardOn
    seen,       \* history: what a request that may write last read or wrote
    stale,      \* history: memory set, by one that could not know, from an older file
    outdated,   \* history: requests that have not looked since the last edit by hand
    overtaken,  \* history: requests beside which another one changed seen, of which
                \* two one did without configMu
    unsure,     \* history: keychain items for which a read or a restore failed, or
                \* which a request without configMu has listed again
    found,      \* history, per request: the keychain when it came in
    spent       \* how much of the bound is used

memory == <<engine, running, services, switches>>
inFlight == <<op, base, copy, todo, backup>>
history == <<seen, stale, outdated, overtaken, unsure, found>>
vars == <<file, keychain, alive, holder, pc, inFlight, memory, history, spent>>

\* What the handler of o makes of the configuration in a file.
Makes(o, cfg) == Apply(o, Loaded(cfg))

Register == INSTANCE ConfigRegister
                WITH Apply <- Makes, reg <- seen, old <- {base[r] : r \in {q \in overtaken : pc[q] = "write"}}

Items == UNION {DOMAIN Initial.vpns, {o.name : o \in {p \in Operations : Gives(p) # {}}}}

Flags(cfg) == [kill |-> cfg.kill, dns |-> cfg.dns]

NoBackup == [k \in {} |-> Missing]

\* A file as the wizard leaves it: what it says of the keychain is there.
FirstKeychain ==
    [p \in Items |-> [k \in Credentials |->
        IF p \in DOMAIN Initial.vpns /\ k \in Initial.vpns[p].held
        THEN CHOOSE s \in Secrets : TRUE ELSE Missing]]

AnyOperation == CHOOSE o \in Operations : TRUE

Init ==
    /\ file = Initial /\ seen = Initial
    /\ running = Loaded(Initial)
    /\ services = [s \in {"guards", "profiles"} |-> Loaded(Initial)]
    /\ keychain = FirstKeychain
    /\ alive = TRUE
    /\ holder = Nobody
    /\ pc = [r \in Requests |-> "idle"]
    /\ op = [r \in Requests |-> AnyOperation]
    /\ base = [r \in Requests |-> Initial]
    /\ copy = [r \in Requests |-> Initial]
    /\ todo = [r \in Requests |-> {}]
    /\ backup = [r \in Requests |-> NoBackup]
    /\ engine \in Engines(Loaded(Initial))
    /\ switches = Flags(Initial)
    /\ stale = {} /\ outdated = {} /\ overtaken = {} /\ unsure = {}
    /\ found = [r \in Requests |-> FirstKeychain]
    /\ spent = 0
----------------------------------------------------------------------------
(* secureHandler *)

\* PUT and DELETE /groups/{name}: the path of a group with such a name looks like
\* the group's connect or disconnect.
Slips(o) == o.kind \in {"update group", "delete group"} /\ o.name \in {"connect", "disconnect"}

\* Mutant: the policies' handlers are not counted among the mutations.
LocksAllButPolicies(o) ==
    /\ o.kind \notin {"reload tunnel", "create policy", "update policy", "delete policy"}
    /\ ~Slips(o)

\* isConfigMutation: not for the paths under /tunnels, nor for those.
Locks(o) == o.kind # "reload tunnel" /\ ~Slips(o)

Goto(r, l) == pc' = [pc EXCEPT ![r] = l]

\* How much of the bound a request takes: one without configMu overlaps with every other.
Weight(o) == IF Locks(o) THEN 1 ELSE 2

Enter(r, o) ==
    /\ alive
    /\ pc[r] = "idle"
    /\ spent + Weight(o) <= MaxEvents
    /\ Locks(o) => holder = Nobody
    /\ holder' = IF Locks(o) THEN r ELSE holder
    /\ op' = [op EXCEPT ![r] = o]
    /\ found' = [found EXCEPT ![r] = keychain]
    /\ spent' = spent + Weight(o)
    /\ Goto(r, "load")
    /\ UNCHANGED <<file, keychain, alive, base, copy, todo, backup, memory, seen, stale, outdated,
                   overtaken, unsure>>

\* The answer is written and the mutex, if it was taken, given back.
Leave(r) ==
    /\ pc[r] \in {"refused", "done"}
    /\ holder' = IF holder = r THEN Nobody ELSE holder
    /\ Goto(r, "idle")
    /\ op' = [op EXCEPT ![r] = AnyOperation]
    /\ base' = [base EXCEPT ![r] = Initial]
    /\ copy' = [copy EXCEPT ![r] = Initial]
    /\ todo' = [todo EXCEPT ![r] = {}]
    /\ backup' = [backup EXCEPT ![r] = NoBackup]
    /\ found' = [found EXCEPT ![r] = FirstKeychain]
    /\ outdated' = outdated \ {r} /\ overtaken' = overtaken \ {r}
    /\ UNCHANGED <<file, keychain, alive, memory, seen, stale, unsure, spent>>
----------------------------------------------------------------------------
(* A request that is going to change the file *)

AfterLoad(o) == IF Reloads(o) THEN "store" ELSE IF Gives(o) # {} THEN "set" ELSE "write"

\* The file can be loaded and the handler's checks on the copy succeed.
Accepts(o) == Loads(file) /\ Makes(o, file) # Refused

\* Those who have read the file, and may write it, while one of them and r did so
\* without configMu.
Beside(r) ==
    {q \in Requests \ {r} : /\ pc[q] \notin {"idle", "load"} /\ op[q].kind # "reload tunnel"
                            /\ Slips(op[q]) \/ Slips(op[r])}

\* loadRuntimeConfig and the handler's edit of the copy.
Load(r) ==
    /\ pc[r] = "load"
    /\ IF Accepts(op[r])
       THEN /\ base' = [base EXCEPT ![r] = file]
            /\ copy' = [copy EXCEPT ![r] = Makes(op[r], file)]
            /\ todo' = [todo EXCEPT ![r] = Gives(op[r])]
            /\ seen' = IF op[r].kind = "reload tunnel" THEN seen ELSE file
            /\ overtaken' = IF seen' = seen THEN overtaken ELSE overtaken \cup Beside(r)
            /\ outdated' = outdated \ {r}
            /\ Goto(r, AfterLoad(op[r]))
       ELSE /\ Goto(r, "refused")
            /\ UNCHANGED <<base, copy, todo, seen, outdated, overtaken>>
    /\ UNCHANGED <<file, keychain, alive, holder, op, backup, memory, stale, unsure, found, spent>>

\* The user name before the password.
NextSecret(r) == IF "username" \in todo[r] THEN "username" ELSE "password"

\* Mutant: what was there is not put back.
BackupForgets(p, k, readable) == Missing

\* A keychain that cannot be read looks like one that has no such item.
BackupOf(p, k, readable) == IF readable THEN keychain[p][k] ELSE Missing

\* One credential is backed up and set, or the keychain refuses it.
SetCredential(r) ==
    /\ pc[r] = "set"
    /\ LET p == op[r].name
           k == NextSecret(r)
       IN  \/ \E readable \in BOOLEAN :
                 /\ keychain' = [keychain EXCEPT ![p][k] = op[r].secret]
                 /\ backup' = [backup EXCEPT ![r] =
                                  [j \in DOMAIN @ \cup {k} |->
                                      IF j = k THEN BackupOf(p, k, readable) ELSE @[j]]]
                 /\ unsure' = IF readable THEN unsure ELSE unsure \cup {<<p, k>>}
                 /\ todo' = [todo EXCEPT ![r] = @ \ {k}]
                 /\ Goto(r, IF todo[r] = {k} THEN "write" ELSE "set")
           \/ /\ Goto(r, "undo")
              /\ UNCHANGED <<keychain, backup, unsure, todo>>
    /\ UNCHANGED <<file, alive, holder, op, base, copy, memory, seen, stale, outdated, overtaken,
                   found, spent>>

\* restoreCredentials: the last one first, each on its own.
RestoreCredential(r) ==
    /\ pc[r] = "undo"
    /\ IF DOMAIN backup[r] = {}
       THEN /\ Goto(r, "refused")
            /\ UNCHANGED <<keychain, backup, unsure>>
       ELSE LET p == op[r].name
                k == IF "password" \in DOMAIN backup[r] THEN "password" ELSE "username"
            IN  /\ \/ /\ keychain' = [keychain EXCEPT ![p][k] = backup[r][k]]
                      /\ UNCHANGED unsure
                   \/ /\ unsure' = unsure \cup {<<p, k>>}
                      /\ UNCHANGED keychain
                /\ backup' = [backup EXCEPT ![r] =
                                 [j \in DOMAIN @ \ {k} |-> @[j]]]
                /\ UNCHANGED pc
    /\ UNCHANGED <<file, alive, holder, op, base, copy, todo, memory, seen, stale, outdated, overtaken,
                   found, spent>>

\* Mutant: saveRuntimeConfig does not validate.
SavesAnything(cfg) == TRUE

\* saveRuntimeConfig validates once more before it writes.
Saves(cfg) == Valid(cfg)

\* Mutant: the credentials that were set stay when the save fails.
NotUndone == "refused"

AfterFailedSave == "undo"

\* The credentials a file says the keychain holds.
Listed(cfg) == UNION {{p} \X cfg.vpns[p].held : p \in DOMAIN cfg.vpns}

\* WriteFileAtomic: the new file replaces the old one, or the old one stays.
Write(r) ==
    /\ pc[r] = "write"
    /\ \/ /\ Saves(copy[r])
          /\ file' = copy[r]
          /\ seen' = copy[r]
          /\ outdated' = outdated \ {r}
          /\ overtaken' = overtaken \cup Beside(r)
          /\ unsure' = IF Slips(op[r]) THEN unsure \cup (Listed(copy[r]) \ Listed(file)) ELSE unsure
          /\ stale' = stale \cup {f \in {"kill", "dns"} :
                         r \in outdated \cup overtaken /\ Flags(copy[r])[f] # Flags(file)[f]}
          /\ Goto(r, "store")
       \/ /\ Goto(r, AfterFailedSave)
          /\ UNCHANGED <<file, seen, outdated, overtaken, unsure, stale>>
    /\ UNCHANGED <<keychain, alive, holder, inFlight, memory, found, spent>>
----------------------------------------------------------------------------
(* What memory learns of it *)

\* As the file says, or as it is once it has been loaded.
Current(cfg) == cfg \in {file, Loaded(file)}

\* A piece of memory is made from what request r has in hand.
Freshen(r, piece) ==
    stale' = IF Current(copy[r]) THEN stale \ {piece}
             ELSE IF op[r].kind = "reload tunnel" \/ r \in outdated \cup overtaken
                  THEN stale \cup {piece}
             ELSE stale

StoreEngine(r) ==
    /\ pc[r] = "store"
    /\ engine' \in Engines(copy[r])
    /\ Freshen(r, "engine")
    /\ Goto(r, "update")
    /\ UNCHANGED <<file, keychain, alive, holder, inFlight, running, services, switches, seen, outdated,
                   overtaken, unsure, found, spent>>

\* onPolicyUpdate, which nobody serialises: the daemon's configuration first (and
\* its own engine, which nobody in it reads), ...
UpdateRunning(r) ==
    /\ pc[r] = "update"
    /\ running' = copy[r]
    /\ Freshen(r, "running")
    /\ Goto(r, "guards")
    /\ UNCHANGED <<file, keychain, alive, holder, inFlight, engine, services, switches, seen, outdated,
                   overtaken, unsure, found, spent>>

\* A service is made from the daemon's configuration, whoever has set it by now.
Rebuild(piece) ==
    /\ services' = [services EXCEPT ![piece] = running]
    /\ stale' = IF Current(running) THEN stale \ {piece}
                ELSE IF "running" \in stale THEN stale \cup {piece}
                ELSE stale
    /\ UNCHANGED <<file, keychain, alive, holder, op, base, copy, backup, engine, running, switches, seen,
                   outdated, overtaken, unsure, found, spent>>

\* ... then the kill switch's service, and the profiles'.
BuildGuards(r) ==
    /\ pc[r] = "guards"
    /\ Rebuild("guards")
    /\ Goto(r, "profiles")
    /\ UNCHANGED todo

BuildProfiles(r) ==
    /\ pc[r] = "profiles"
    /\ Rebuild("profiles")
    /\ todo' = [todo EXCEPT ![r] = Forgets(op[r], base[r])]
    /\ Goto(r, IF op[r].kind \in {"kill switch", "dns guard"} THEN "switch" ELSE "forget")

\* The guard's own flag in the API.  onSecurityToggle then applies the two
\* guards (modules KillSwitch and DNSGuard).
SetSwitch(r) ==
    /\ pc[r] = "switch"
    /\ LET piece == IF op[r].kind = "kill switch" THEN "kill" ELSE "dns"
       IN  /\ switches' = [switches EXCEPT ![piece] = op[r].enabled]
           /\ stale' = IF Flags(file)[piece] = op[r].enabled THEN stale \ {piece} ELSE stale
    /\ Goto(r, "done")
    /\ UNCHANGED <<file, keychain, alive, holder, inFlight, engine, running, services, seen, outdated,
                   overtaken, unsure, found, spent>>

\* A deleted profile's credentials are removed; one that stays is reported.
ForgetCredential(r) ==
    /\ pc[r] = "forget"
    /\ IF todo[r] = {}
       THEN Goto(r, "done") /\ UNCHANGED <<keychain, todo>>
       ELSE /\ \/ keychain' = [keychain EXCEPT ![op[r].name][NextSecret(r)] = Missing]
               \/ UNCHANGED keychain
            /\ todo' = [todo EXCEPT ![r] = @ \ {NextSecret(r)}]
            /\ UNCHANGED pc
    /\ UNCHANGED <<file, alive, holder, op, base, copy, backup, memory, history, spent>>
----------------------------------------------------------------------------
(* The world around *)

\* An editor replaces the policies, the kill switch's flag and its mode.
HandEdit(e) ==
    /\ spent < MaxEvents
    /\ file' = [file EXCEPT !.policies = e.policies, !.kill = e.kill, !.mode = e.mode]
    /\ file' # file
    /\ stale' = stale \cup {"engine", "running", "guards", "profiles"}
                      \cup (IF e.kill # file.kill THEN {"kill"} ELSE {})
    /\ outdated' = {r \in Requests : pc[r] # "idle"}
    /\ spent' = spent + 1
    /\ UNCHANGED <<keychain, alive, holder, pc, inFlight, memory, seen, overtaken, unsure, found>>

\* The daemon dies: its memory and its requests are gone.
Crash ==
    /\ alive
    /\ spent < MaxEvents
    /\ alive' = FALSE
    /\ holder' = Nobody
    /\ pc' = [r \in Requests |-> "idle"]
    /\ op' = [r \in Requests |-> AnyOperation]
    /\ base' = [r \in Requests |-> Initial]
    /\ copy' = [r \in Requests |-> Initial]
    /\ todo' = [r \in Requests |-> {}]
    /\ backup' = [r \in Requests |-> NoBackup]
    /\ found' = [r \in Requests |-> FirstKeychain]
    /\ outdated' = {} /\ overtaken' = {}
    /\ spent' = spent + 1
    /\ UNCHANGED <<file, keychain, memory, seen, stale, unsure>>

\* It starts again, if it can read the file.
Boot ==
    /\ ~alive
    /\ Loads(file)
    /\ alive' = TRUE
    /\ seen' = file
    /\ running' = Loaded(file) /\ services' = [s \in DOMAIN services |-> Loaded(file)]
    /\ engine' \in Engines(Loaded(file))
    /\ switches' = Flags(file)
    /\ stale' = {}
    /\ UNCHANGED <<file, keychain, holder, pc, inFlight, outdated, overtaken, unsure, found, spent>>

Step(r) == \/ \E o \in Operations : Enter(r, o)
           \/ Load(r) \/ SetCredential(r) \/ RestoreCredential(r) \/ Write(r)
           \/ StoreEngine(r) \/ UpdateRunning(r) \/ BuildGuards(r) \/ BuildProfiles(r) \/ SetSwitch(r)
           \/ ForgetCredential(r) \/ Leave(r)

Next == \/ \E r \in Requests : Step(r)
        \/ \E e \in HandEdits : HandEdit(e)
        \/ Crash
        \/ Boot

Spec == Init /\ [][Next]_vars
----------------------------------------------------------------------------
(* Properties *)

\* Who has written the file is still telling memory.
Telling == [engine |-> {"store"}, running |-> {"store", "update"},
            guards |-> {"store", "update", "guards"},
            profiles |-> {"store", "update", "guards", "profiles"},
            kill |-> {"store", "update", "guards", "profiles", "switch"},
            dns |-> {"store", "update", "guards", "profiles", "switch"}]

Publishing(piece) ==
    \E r \in Requests : op[r].kind # "reload tunnel" /\ pc[r] \in Telling[piece]

\* What the daemon goes by is what the file says: the engine's rules, the
\* daemon's configuration, the one that each service was made of and the two
\* flags, each once the request that wrote the file has told it.  Only what
\* nobody has reloaded after an edit by hand is excepted, or what was set from a
\* file already replaced by a request without configMu or beside one (a tunnel's
\* reload; the update of a group named "connect").  (server.go secureHandler,
\* handlers_common.go saveRuntimeConfig, daemon_runtime.go)
MemoryFollowsFile ==
    alive => /\ \/ "engine" \in stale \/ Publishing("engine")
                \/ engine \in Engines(file) \cup Engines(Loaded(file))
             /\ "running" \in stale \/ Publishing("running") \/ Current(running)
             /\ \A s \in {"guards", "profiles"} :
                    s \in stale \/ Publishing(s) \/ Current(services[s])
             /\ \A f \in {"kill", "dns"} :
                    f \in stale \/ Publishing(f) \/ switches[f] = Flags(file)[f]

\* No policy of the file names a variable.
Plain(cfg) == \A i \in DOMAIN cfg.policies : Expanded(cfg.policies[i], RulesWithVars) = cfg.policies[i]

\* No sequence of accepted requests, overlapping or not, leaves a policy, a group
\* or a schedule rule that names a profile which is gone: neither in memory nor
\* in a file that was not edited by hand.  Such a file can be loaded, unless a
\* policy in it names a variable: the next load expands what a request brought.
\* (handlers_vpn.go handleDeleteVPN, semantics.go, loader.go)
RunningIsValid == /\ alive => Valid(running) /\ \A s \in DOMAIN services : Valid(services[s])
                  /\ (Plain(file) => Loads(file)) \/ file \in Register!Edited(seen)

\* If the file says that the keychain holds a credential, it does, at every
\* step and after every crash, unless the keychain itself failed under a backup
\* or a restore, or the update of a group named "connect", which has no mutex,
\* brought a deleted profile back.  (handlers_vpn.go saveVPNProfile,
\* handleDeleteVPN)
CredentialsBacked ==
    \A p \in DOMAIN file.vpns : \A k \in file.vpns[p].held :
        keychain[p][k] # Missing \/ <<p, k>> \in unsure

\* A request that was turned down, at whatever step, leaves the keychain as it
\* found it, again unless the keychain itself failed.  (restoreCredentials)
RejectedLeavesNoTrace ==
    \A r \in Requests : pc[r] = "refused" /\ holder = r =>
        \A p \in Items, k \in Credentials :
            keychain[p][k] = found[r][p][k] \/ <<p, k>> \in unsure

\* Of all networks of all rules that hold an address, `explain` answers with one
\* of the longest, and among those with the first rule's.  (resolveIPMatch)
LongestPrefixWins ==
    \A a \in Addresses :
        LET hits == {h \in (DOMAIN engine) \X Networks :
                        h[2] \in engine[h[1]].rule.ranges /\ Contains(h[2], a)}
            longest == {h \in hits : \A g \in hits : g[2].len <= h[2].len}
            first == {h \in longest : \A g \in longest : h[1] <= g[1]}
        IN  IF hits = {} THEN ResolveIP(engine, a).rule = NoMatch
            ELSE \E h \in first : ResolveIP(engine, a) = [rule |-> engine[h[1]].rule, net |-> h[2]]

ViasOf(claims) == {engine[k].rule.via : k \in claims}

\* /resolve says what `explain` says of the target that it takes the text for,
\* unless rules of two profiles claim it.
Agreed(text) ==
    LET target == Normalized(text)
        claims == {k \in DOMAIN engine : MatchesTarget(engine[k].rule, target)}
    IN  \/ HandleResolve(engine, text, NoApp) = ExplainTarget(engine, target)
        \/ Cardinality(ViasOf(claims)) > 1

\* The places that say which profile takes an address, a domain or an
\* application agree: `explain` goes by the longest network; the table of routes
\* agrees with it on every address that the resolver has not listed for a domain;
\* /resolve does so unless rules of two profiles claim the target, with what
\* `explain` says of the text as normalizeResolveTarget leaves it; and for an
\* application whose rule wants a destination too, /resolve answers as for no
\* target at all: with nothing, unless someone has typed an empty domain.
\* (handlers_policy.go matchStaticPolicy, handleResolve; handleListRoutes)
AnswersAgree ==
    /\ LongestPrefixWins
    /\ \A a \in Addresses :
          LET route == [base |-> a, len |-> Width]
          IN  /\ Agreed([ip |-> TRUE, is |-> a])
              /\ \A listed \in Snapshots :
                    \/ route \in DOMAIN listed
                    \/ HandleListRoutes(engine, listed, route)
                          = ExplainTarget(engine, [ip |-> TRUE, is |-> a])
    /\ \A h \in Hosts : Agreed([ip |-> FALSE, is |-> h])
    /\ \A app \in Apps :
          \/ HandleResolve(engine, NoTarget, app) \in
                 {ExplainApp(engine, app), Via(ResolveDomain(engine, NoTarget.is))}
          \/ Cardinality(ViasOf({k \in DOMAIN engine : MatchesApp(engine[k].rule, app)})) > 1

\* Requests take effect one after another, whole.  Only an update of a group
\* named "connect" and a request beside it may undo each other's.
Atomic == Register!Spec
=============================================================================
