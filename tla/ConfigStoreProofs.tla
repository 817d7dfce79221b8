-------------------------- MODULE ConfigStoreProofs --------------------------
(***************************************************************************)
(* For every set of operations, edits by hand and requests: the store      *)
(* implements ConfigRegister, no configuration in memory or in a file that *)
(* was not edited by hand is invalid, memory follows the file, the         *)
(* keychain holds what the file lists and nothing of a refused request,    *)
(* and the engine gives one answer wherever it is asked.                   *)
(* The argument is that two requests between their load and their write    *)
(* are never both under configMu: either the one finds that the last       *)
(* configuration loaded or written is still the one it loaded, or one of   *)
(* the two does without the mutex and the other has overtaken it.  What    *)
(* the engine answers is found by induction over its scan, with the least  *)
(* natural that is not as it should be.                                    *)
(***************************************************************************)
EXTENDS ConfigStore, FiniteSetTheorems, SequenceTheorems, TLAPS

----------------------------------------------------------------------------
(* What a handler leaves alone *)

\* The guard whose flag a request sets.
Toggles(o, f) == \/ o.kind = "kill switch" /\ f = "kill"
                 \/ o.kind = "dns guard" /\ f = "dns"


\* A handler keeps the shape of the configuration.  It changes no flag but the
\* one it toggles, lists no credential but those it brings, and a profile that
\* it deletes is gone.
MadeOf(o, cfg, new) ==
    /\ Shaped(new)
    /\ \A f \in {"kill", "dns"} : new[f] = IF Toggles(o, f) THEN o.enabled ELSE cfg[f]
    /\ \A p \in DOMAIN new.vpns : \A k \in new.vpns[p].held :
          \/ p \in DOMAIN cfg.vpns /\ k \in cfg.vpns[p].held
          \/ p = o.name /\ k \in Gives(o)
    /\ o.kind = "delete vpn" => o.name \notin DOMAIN new.vpns

LEMMA HandlersKeep ==
    ASSUME NEW o \in Operations, NEW cfg, Shaped(cfg), Apply(o, cfg) # Refused
    PROVE  MadeOf(o, cfg, Apply(o, cfg))
<1> DEFINE new == Apply(o, cfg)
           Elsewhere == /\ DOMAIN new = DOMAIN cfg
                        /\ new.vpns = cfg.vpns /\ new.kill = cfg.kill /\ new.dns = cfg.dns
<1>1. o.kind \in Kinds /\ Gives(o) \subseteq Credentials
  BY StoreAssumption
<1>2. DOMAIN cfg = {"vpns", "policies", "groups", "schedule", "kill", "dns", "mode"}
  BY DEF Shaped
<1>3. ASSUME Elsewhere, o.kind \notin {"kill switch", "dns guard", "delete vpn"}
      PROVE  MadeOf(o, cfg, new)
  <2> HIDE DEF new
  <2> QED
    BY <1>3 DEF Shaped, Toggles, MadeOf
<1>4. CASE o.kind \in {"create policy", "update policy", "delete policy"}
  <2>1. o.kind = "create policy" => new = CreatePolicy(o, cfg)
    BY DEF Apply, Handle, Reloads
  <2>2. o.kind = "update policy" => new = UpdatePolicy(o, cfg)
    BY DEF Apply, Handle, Reloads
  <2>3. o.kind = "delete policy" => new = DeletePolicy(o, cfg)
    BY DEF Apply, Handle, Reloads
  <2>4. Elsewhere
    BY <1>2, <1>4, <2>1, <2>2, <2>3 DEF CreatePolicy, UpdatePolicy, DeletePolicy
  <2>5. QED
    BY <1>3, <1>4, <2>4
<1>5. CASE o.kind \in {"create group", "update group", "delete group"}
  <2>1. o.kind = "create group" => new = CreateGroup(o, cfg)
    BY DEF Apply, Handle, Reloads
  <2>2. o.kind = "update group" => new = UpdateGroup(o, cfg)
    BY DEF Apply, Handle, Reloads
  <2>3. o.kind = "delete group" => new = DeleteGroup(o, cfg)
    BY DEF Apply, Handle, Reloads
  <2>4. Elsewhere
    BY <1>2, <1>5, <2>1, <2>2, <2>3 DEF CreateGroup, UpdateGroup, DeleteGroup, SaveGroup
  <2>5. QED
    BY <1>3, <1>5, <2>4
<1>6. CASE o.kind \in {"create rule", "update rule", "delete rule", "settings"}
  <2>1. o.kind = "create rule" => new = CreateScheduleRule(o, cfg)
    BY DEF Apply, Handle, Reloads
  <2>2. o.kind = "update rule" => new = UpdateScheduleRule(o, cfg)
    BY DEF Apply, Handle, Reloads
  <2>3. o.kind = "delete rule" => new = DeleteScheduleRule(o, cfg)
    BY DEF Apply, Handle, Reloads
  <2>4. o.kind = "settings" => new = UpdateSettings(o, cfg)
    BY DEF Apply, Handle, Reloads
  <2>5. Elsewhere
    BY <1>2, <1>6, <2>1, <2>2, <2>3, <2>4
    DEF CreateScheduleRule, UpdateScheduleRule, DeleteScheduleRule, UpdateSettings, IfValid
  <2>6. QED
    BY <1>3, <1>6, <2>5
<1>7. CASE o.kind \in {"create vpn", "update vpn"}
  <2>1. new = SaveVPN(o, cfg)
    <3>1. o.kind = "create vpn" => new = CreateVPN(o, cfg)
      BY DEF Apply, Handle, Reloads
    <3>2. o.kind = "update vpn" => new = UpdateVPN(o, cfg)
      BY DEF Apply, Handle, Reloads
    <3>3. QED
      BY <1>7, <3>1, <3>2 DEF CreateVPN, UpdateVPN
  <2> DEFINE old == IF o.name \in DOMAIN cfg.vpns THEN cfg.vpns[o.name]
                    ELSE [priority |-> 0, held |-> {}, kill |-> "inherit"]
             made == [old EXCEPT !.priority = o.priority, !.held = @ \cup o.gives]
             vpns == [p \in DOMAIN cfg.vpns \cup {o.name} |->
                         IF p = o.name THEN made ELSE cfg.vpns[p]]
  <2>2. new = [cfg EXCEPT !.vpns = vpns]
    BY <2>1 DEF SaveVPN, IfValid
  <2>3. Gives(o) = o.gives
    BY <1>7 DEF Gives
  <2>4. DOMAIN old = {"priority", "held", "kill"} /\ old.held \subseteq Credentials
        /\ \A k \in old.held : o.name \in DOMAIN cfg.vpns /\ k \in cfg.vpns[o.name].held
    BY DEF Shaped
  <2>5. DOMAIN made = {"priority", "held", "kill"} /\ made.held = old.held \cup o.gives
    <3> HIDE DEF old
    <3> QED BY <2>4
  <2>6. /\ \A p \in DOMAIN vpns : /\ DOMAIN vpns[p] = {"priority", "held", "kill"}
                                  /\ vpns[p].held \subseteq Credentials
        /\ \A p \in DOMAIN vpns : \A k \in vpns[p].held :
              \/ p \in DOMAIN cfg.vpns /\ k \in cfg.vpns[p].held
              \/ p = o.name /\ k \in o.gives
    <3> HIDE DEF made, old
    <3> QED BY <1>1, <2>3, <2>4, <2>5 DEF Shaped
  <2>7. DOMAIN new = DOMAIN cfg /\ new.vpns = vpns /\ new.kill = cfg.kill /\ new.dns = cfg.dns
    <3> HIDE DEF vpns
    <3> QED BY <1>2, <2>2
  <2>8. MadeOf(o, cfg, new)
    <3> HIDE DEF vpns, new
    <3> QED BY <1>2, <1>7, <2>3, <2>6, <2>7 DEF Shaped, Toggles, MadeOf
  <2>9. QED
    BY <2>8
<1>8. CASE o.kind = "delete vpn"
  <2>1. new = DeleteVPN(o, cfg)
    BY <1>8 DEF Apply, Handle, Reloads
  <2> DEFINE vpns == [p \in DOMAIN cfg.vpns \ {o.name} |-> cfg.vpns[p]]
  <2>2. new = [cfg EXCEPT !.vpns = vpns]
    BY <2>1 DEF DeleteVPN
  <2>3. DOMAIN new = DOMAIN cfg /\ new.vpns = vpns /\ new.kill = cfg.kill /\ new.dns = cfg.dns
    BY <1>2, <2>2
  <2>4. MadeOf(o, cfg, new)
    <3> HIDE DEF new
    <3> QED BY <1>2, <1>8, <2>3 DEF Shaped, Toggles, MadeOf
  <2>5. QED
    BY <2>4
<1>9. CASE o.kind = "override"
  <2>1. new = SetProfileKillSwitch(o, cfg)
    BY <1>9 DEF Apply, Handle, Reloads
  <2>2. new = [cfg EXCEPT !.vpns[o.name].kill = o.override] /\ o.name \in DOMAIN cfg.vpns
    BY <2>1 DEF SetProfileKillSwitch
  <2>3. /\ DOMAIN new = DOMAIN cfg /\ new.kill = cfg.kill /\ new.dns = cfg.dns
        /\ new.vpns = [cfg.vpns EXCEPT ![o.name].kill = o.override]
    BY <1>2, <2>2
  <2>4. /\ DOMAIN new.vpns = DOMAIN cfg.vpns
        /\ \A p \in DOMAIN cfg.vpns : /\ DOMAIN new.vpns[p] = DOMAIN cfg.vpns[p]
                                      /\ new.vpns[p].held = cfg.vpns[p].held
    <3> HIDE DEF new
    <3> QED BY <2>2, <2>3 DEF Shaped
  <2>5. MadeOf(o, cfg, new)
    <3> HIDE DEF new
    <3> QED BY <1>2, <1>9, <2>3, <2>4 DEF Shaped, Toggles, MadeOf
  <2>6. QED
    BY <2>5
<1>10. CASE o.kind \in {"kill switch", "dns guard"}
  <2>1. o.kind = "kill switch" => new = [cfg EXCEPT !.kill = o.enabled]
    BY DEF Apply, Handle, Reloads, ToggleKillSwitch
  <2>2. o.kind = "dns guard" => new = [cfg EXCEPT !.dns = o.enabled]
    BY DEF Apply, Handle, Reloads, ToggleDNSGuard
  <2>3. /\ DOMAIN new = DOMAIN cfg /\ new.vpns = cfg.vpns
        /\ \A f \in {"kill", "dns"} : new[f] = IF Toggles(o, f) THEN o.enabled ELSE cfg[f]
    <3> HIDE DEF new
    <3> QED BY <1>2, <1>10, <2>1, <2>2 DEF Toggles
  <2>4. MadeOf(o, cfg, new)
    <3> HIDE DEF new
    <3> QED BY <1>2, <1>10, <2>3 DEF Shaped, MadeOf
  <2>5. QED
    BY <2>4
<1>11. CASE o.kind \in {"reload", "reload tunnel"}
  <2>1. new = cfg
    BY <1>11 DEF Apply, Reloads
  <2>2. QED
    BY <1>3, <1>11, <2>1
<1>12. QED
  BY <1>1, <1>4, <1>5, <1>6, <1>7, <1>8, <1>9, <1>10, <1>11 DEF Kinds

\* Neither does the loader.
LEMMA LoadedKeeps ==
    ASSUME NEW cfg, Shaped(cfg)
    PROVE  /\ Shaped(Loaded(cfg))
           /\ \A f \in {"vpns", "kill", "dns"} : Loaded(cfg)[f] = cfg[f]
BY DEF Shaped, Loaded

LEMMA MakesKeep ==
    ASSUME NEW o \in Operations, NEW cfg, Shaped(cfg), Makes(o, cfg) # Refused
    PROVE  MadeOf(o, cfg, Makes(o, cfg))
<1>1. MadeOf(o, Loaded(cfg), Makes(o, cfg))
  BY LoadedKeeps, HandlersKeep DEF Makes
<1>2. \A f \in {"vpns", "kill", "dns"} : Loaded(cfg)[f] = cfg[f]
  BY LoadedKeeps
<1>3. QED
  BY <1>1, <1>2 DEF MadeOf

\* What was validated can be loaded, if no policy in it is expanded.
LEMMA PlainLoads ==
    ASSUME NEW cfg, Shaped(cfg), Valid(cfg), Plain(cfg)
    PROVE  Loads(cfg)
<1> DEFINE new == Loaded(cfg)
<1>1. /\ new.vpns = cfg.vpns /\ new.groups = cfg.groups /\ new.schedule = cfg.schedule
      /\ DOMAIN new.policies = DOMAIN cfg.policies
      /\ \A i \in DOMAIN cfg.policies : new.policies[i] = Expanded(cfg.policies[i], RulesWithVars)
      /\ new.mode = Default(Expanded(cfg.mode, ModesWithVars))
  BY DEF Shaped, Loaded
<1>2. \A i \in DOMAIN cfg.policies : new.policies[i] = cfg.policies[i]
  BY <1>1 DEF Plain
<1>3. new.mode \in Modes
  <2>1. cfg.mode \in Modes
    BY DEF Valid
  <2>2. Expanded(cfg.mode, ModesWithVars) = cfg.mode
    BY <2>1, ModesAssumption DEF Expanded
  <2>3. QED
    BY <1>1, <2>1, <2>2 DEF Default, Modes
<1>4. ValidPolicies(new) /\ ValidReferences(new) /\ DOMAIN new.vpns # {}
  <2> HIDE DEF new
  <2> QED
    BY <1>1, <1>2 DEF Valid, ValidPolicies, ValidReferences
<1>5. QED
  BY <1>3, <1>4 DEF Loads, Valid
----------------------------------------------------------------------------
(* Requests exclude or overtake each other *)

Labels == {"idle", "load", "set", "write", "undo", "store", "update", "guards", "profiles",
           "switch", "forget", "done", "refused"}

Shapes == /\ pc \in [Requests -> Labels]
          /\ \A r \in Requests : pc[r] # "idle" => op[r] \in Operations
          /\ DOMAIN op = Requests /\ DOMAIN base = Requests /\ DOMAIN copy = Requests
          /\ Shaped(file) /\ Shaped(seen) /\ \A r \in Requests : Shaped(base[r])
          /\ DOMAIN services = {"guards", "profiles"}

\* A request that is serialised has the mutex, and none is in flight without a daemon.
MutexOK == /\ \A r \in Requests : pc[r] # "idle" /\ Locks(op[r]) => holder = r
           /\ ~alive => \A r \in Requests : pc[r] = "idle"

\* A request that is going to write has in hand what its operation makes of the
\* register's value, or of an older one if it was overtaken.
WriterOK ==
    \A r \in Requests : pc[r] \in {"set", "write"} =>
        /\ op[r].kind # "reload tunnel"
        /\ base[r] = seen \/ r \in overtaken
        /\ copy[r] = Makes(op[r], base[r]) /\ copy[r] # Refused

\* The file is the register's value, but for edits by hand.
FileOK == file = seen \/ file \in Register!Edited(seen)

\* What was loaded or written was valid, and so is what memory is told.
ValidOK == /\ Plain(seen) => Loads(seen)
           /\ Valid(running) /\ \A s \in DOMAIN services : Valid(services[s])
           /\ \A r \in Requests : pc[r] \in {"store", "update"} => Valid(copy[r])

IInv == Shapes /\ MutexOK /\ WriterOK /\ FileOK /\ ValidOK

\* Two edits by hand come to the second.
LEMMA EditedTwice ==
    ASSUME NEW cfg, NEW d \in HandEdits, NEW e \in HandEdits
    PROVE  [[cfg EXCEPT !.policies = d.policies, !.kill = d.kill, !.mode = d.mode]
               EXCEPT !.policies = e.policies, !.kill = e.kill, !.mode = e.mode]
             = [cfg EXCEPT !.policies = e.policies, !.kill = e.kill, !.mode = e.mode]
OBVIOUS

\* Of two requests that may write, the one that has not loaded yet, or writes,
\* finds the other beside it: they are not both serialised.
LEMMA OthersAreBeside ==
    ASSUME IInv, NEW r \in Requests, NEW s \in Requests, s # r,
           pc[r] # "idle", op[r].kind # "reload tunnel",
           pc[s] \notin {"idle", "load"}, op[s].kind # "reload tunnel"
    PROVE  s \in Beside(r)
<1>1. ~(Locks(op[r]) /\ Locks(op[s]))
  BY DEF IInv, MutexOK
<1>2. QED
  BY <1>1 DEF Locks, Beside

\* Only what is not a reload sets or writes; a reload's copy is the file as loaded.
LEMMA WritersWrite ==
    ASSUME NEW o
    PROVE  /\ AfterLoad(o) \in {"store", "set", "write"}
           /\ AfterLoad(o) \in {"set", "write"} => o.kind # "reload tunnel" /\ ~Reloads(o)
           /\ AfterLoad(o) = "store" => \A cfg : Makes(o, cfg) = Loaded(cfg)
BY DEF AfterLoad, Reloads, Makes, Apply

LEMMA InitIInv == Init => IInv
<1> SUFFICES ASSUME Init PROVE IInv
  OBVIOUS
<1>1. Shapes /\ MutexOK /\ WriterOK
  BY StoreAssumption DEF Init, Shapes, MutexOK, WriterOK, Labels
<1>2. FileOK /\ ValidOK
  BY StoreAssumption DEF Init, FileOK, ValidOK, Loads
<1>3. QED
  BY <1>1, <1>2 DEF IInv

\* A request moves on without touching the file, the mutex or what it has in
\* hand; it does not begin to write, nor to tell memory.
LEMMA QuietStep ==
    ASSUME IInv, NEW r \in Requests, NEW l \in Labels,
           pc[r] # "idle", Goto(r, l),
           l \in {"set", "write"} => pc[r] \in {"set", "write"},
           l \in {"store", "update"} => pc[r] \in {"store", "update"},
           UNCHANGED <<file, alive, holder, op, base, copy, seen, overtaken>>,
           Valid(running'), DOMAIN services' = DOMAIN services,
           \A s \in DOMAIN services : Valid(services'[s])
    PROVE  IInv'
<1> USE DEF IInv, Goto
<1>1. Shapes'
  BY DEF Shapes
<1>2. MutexOK'
  BY DEF MutexOK, Shapes
<1>3. WriterOK'
  BY DEF WriterOK, Shapes
<1>4. FileOK'
  BY DEF FileOK, Register!Edited
<1>5. ValidOK'
  BY DEF ValidOK, Shapes
<1>6. QED
  BY <1>1, <1>2, <1>3, <1>4, <1>5

\* A request comes in; one that is serialised waits for the mutex.
LEMMA EnterIInv ==
    ASSUME IInv, NEW r \in Requests, NEW o \in Operations, Enter(r, o)
    PROVE  IInv'
<1> USE DEF IInv, Enter, Goto
<1>1. Shapes'
  BY DEF Shapes, Labels, memory
<1>2. MutexOK'
  <2>1. \A s \in Requests : s # r => pc'[s] = pc[s] /\ op'[s] = op[s]
    BY DEF Shapes
  <2>2. pc'[r] = "load" /\ op'[r] = o /\ alive'
    BY DEF Shapes
  <2>3. Locks(o) => holder' = r
    BY DEF Shapes
  <2>4. ASSUME NEW s \in Requests, s # r, pc[s] # "idle", Locks(op[s])
        PROVE  holder' = s
    BY <2>4, StoreAssumption DEF MutexOK
  <2>5. QED
    BY <2>1, <2>2, <2>3, <2>4 DEF MutexOK
<1>3. WriterOK'
  BY DEF WriterOK, Shapes
<1>4. FileOK'
  BY DEF FileOK, Register!Edited
<1>5. ValidOK'
  BY DEF ValidOK, Shapes, memory
<1>6. QED
  BY <1>1, <1>2, <1>3, <1>4, <1>5

\* The answer is given, and the mutex given back by who held it.
LEMMA LeaveIInv ==
    ASSUME IInv, NEW r \in Requests, Leave(r)
    PROVE  IInv'
<1> USE DEF IInv, Leave, Goto
<1>1. Shapes'
  BY StoreAssumption DEF Shapes, Labels, memory
<1>2. MutexOK'
  BY DEF MutexOK, Shapes
<1>3. WriterOK'
  BY DEF WriterOK, Shapes
<1>4. FileOK'
  BY DEF FileOK, Register!Edited
<1>5. ValidOK'
  BY DEF ValidOK, Shapes, memory
<1>6. QED
  BY <1>1, <1>2, <1>3, <1>4, <1>5

\* The register takes notice of the file, and so are those overtaken who are
\* about to write.
LEMMA LoadIInv ==
    ASSUME IInv, NEW r \in Requests, Load(r)
    PROVE  IInv'
<1> USE DEF IInv, Load, Goto
<1>0. pc[r] = "load" /\ op[r] \in Operations
  BY DEF Shapes
<1>1. CASE ~Accepts(op[r])
  <2>1. Goto(r, "refused")
        /\ UNCHANGED <<file, alive, holder, op, base, copy, seen, overtaken, running, services>>
    BY <1>1 DEF memory
  <2>2. Valid(running') /\ \A s \in DOMAIN services : Valid(services'[s])
    BY <2>1 DEF ValidOK
  <2>3. QED
    BY <1>0, <2>1, <2>2, QuietStep DEF Labels
<1>2. CASE Accepts(op[r])
  <2> DEFINE o == op[r]
  <2>1. /\ base' = [base EXCEPT ![r] = file]
        /\ copy' = [copy EXCEPT ![r] = Makes(o, file)]
        /\ seen' = IF o.kind = "reload tunnel" THEN seen ELSE file
        /\ overtaken' = IF seen' = seen THEN overtaken ELSE overtaken \cup Beside(r)
        /\ pc' = [pc EXCEPT ![r] = AfterLoad(o)]
        /\ UNCHANGED <<file, alive, holder, op, running, services>>
    BY <1>2 DEF memory
  <2>2. Loads(file) /\ Makes(o, file) # Refused
    BY <1>2 DEF Accepts
  <2>3. AfterLoad(o) \in {"store", "set", "write"}
    BY WritersWrite
  <2>4. /\ base'[r] = file /\ copy'[r] = Makes(o, file) /\ pc'[r] = AfterLoad(o)
        /\ \A s \in Requests : s # r =>
              base'[s] = base[s] /\ copy'[s] = copy[s] /\ pc'[s] = pc[s]
    BY <2>1 DEF Shapes
  <2>5. Shapes'
    <3>1. \A s \in Requests : Shaped(base'[s])
      BY <2>1, <2>4 DEF Shapes
    <3>2. QED
      BY <2>1, <2>3, <3>1 DEF Shapes, Labels
  <2>6. MutexOK'
    <3> HIDE DEF Load, Goto
    <3>1. /\ ~alive => \A s \in Requests : pc[s] = "idle"
          /\ \A s \in Requests : pc[s] # "idle" /\ Locks(op[s]) => holder = s
      BY DEF MutexOK
    <3>2. alive
      BY <1>0, <3>1
    <3>3. \A s \in Requests : pc'[s] # "idle" => pc[s] # "idle"
      BY <1>0, <2>4
    <3>4. QED
      BY <2>1, <3>1, <3>2, <3>3 DEF MutexOK
  <2>7. WriterOK'
    <3>1. ASSUME NEW s \in Requests, pc'[s] \in {"set", "write"}
          PROVE  /\ op'[s].kind # "reload tunnel"
                 /\ base'[s] = seen' \/ s \in overtaken'
                 /\ copy'[s] = Makes(op'[s], base'[s]) /\ copy'[s] # Refused
      <4>1. CASE s = r
        <5>1. o.kind # "reload tunnel"
          BY <3>1, <4>1, <2>4, WritersWrite
        <5>2. QED
          BY <4>1, <5>1, <2>1, <2>2, <2>4
      <4>2. CASE s # r
        <5>1. pc[s] \in {"set", "write"}
          BY <3>1, <4>2, <2>4
        <5>2. /\ op[s].kind # "reload tunnel" /\ (base[s] = seen \/ s \in overtaken)
              /\ copy[s] = Makes(op[s], base[s]) /\ copy[s] # Refused
          BY <5>1 DEF WriterOK
        <5>3. seen' = seen \/ s \in Beside(r)
          BY <1>0, <2>1, <4>2, <5>1, <5>2, OthersAreBeside
        <5>4. QED
          BY <4>2, <5>2, <5>3, <2>1, <2>4
      <4>3. QED
        BY <4>1, <4>2
    <3>2. QED
      BY <3>1 DEF WriterOK
  <2>8. FileOK'
    BY <2>1 DEF FileOK, Register!Edited
  <2>9. ValidOK'
    <3>1. (Plain(seen') => Loads(seen')) /\ Valid(running')
          /\ \A s \in DOMAIN services' : Valid(services'[s])
      BY <2>1, <2>2 DEF ValidOK
    <3>2. ASSUME NEW s \in Requests, pc'[s] \in {"store", "update"}
          PROVE  Valid(copy'[s])
      <4>1. CASE s = r
        BY <3>2, <4>1, <2>2, <2>3, <2>4, WritersWrite DEF Loads
      <4>2. CASE s # r
        BY <3>2, <4>2, <2>4 DEF ValidOK
      <4>3. QED
        BY <4>1, <4>2
    <3>3. QED
      BY <3>1, <3>2 DEF ValidOK
  <2>10. QED
    BY <2>5, <2>6, <2>7, <2>8, <2>9
<1>3. QED
  BY <1>1, <1>2

\* The steps that concern the keychain or memory alone.
LEMMA QuietActions ==
    ASSUME IInv, NEW r \in Requests,
           SetCredential(r) \/ RestoreCredential(r) \/ StoreEngine(r) \/ UpdateRunning(r)
              \/ BuildGuards(r) \/ BuildProfiles(r) \/ SetSwitch(r) \/ ForgetCredential(r)
    PROVE  IInv'
<1> USE DEF memory, Labels
<1>0. /\ Valid(running) /\ DOMAIN services = {"guards", "profiles"}
      /\ \A s \in DOMAIN services : Valid(services[s])
  BY DEF IInv, ValidOK, Shapes
<1>1. CASE SetCredential(r)
  <2>1. \E l \in {"set", "write", "undo"} : Goto(r, l)
    BY <1>1 DEF SetCredential
  <2>2. pc[r] = "set"
        /\ UNCHANGED <<file, alive, holder, op, base, copy, seen, overtaken, running, services>>
    BY <1>1 DEF SetCredential
  <2>3. QED
    BY <1>0, <2>1, <2>2, QuietStep
<1>2. CASE RestoreCredential(r)
  <2>1. pc[r] = "undo"
        /\ UNCHANGED <<file, alive, holder, op, base, copy, seen, overtaken, running, services>>
    BY <1>2 DEF RestoreCredential
  <2>2. Goto(r, "refused") \/ UNCHANGED pc
    BY <1>2 DEF RestoreCredential
  <2>3. Goto(r, "refused") \/ Goto(r, "undo")
    BY <2>1, <2>2 DEF Goto, IInv, Shapes
  <2>4. QED
    BY <1>0, <2>1, <2>3, QuietStep
<1>3. CASE StoreEngine(r)
  <2>1. pc[r] = "store" /\ Goto(r, "update")
        /\ UNCHANGED <<file, alive, holder, op, base, copy, seen, overtaken, running, services>>
    BY <1>3 DEF StoreEngine, inFlight
  <2>2. QED
    BY <1>0, <2>1, QuietStep
<1>4. CASE UpdateRunning(r)
  <2>1. pc[r] = "update" /\ running' = copy[r] /\ Goto(r, "guards")
        /\ UNCHANGED <<file, alive, holder, op, base, copy, seen, overtaken, services>>
    BY <1>4 DEF UpdateRunning, inFlight
  <2>2. Valid(running')
    BY <2>1 DEF IInv, ValidOK
  <2>3. QED
    BY <1>0, <2>1, <2>2, QuietStep
<1>5. CASE BuildGuards(r) \/ BuildProfiles(r)
  <2>1. /\ pc[r] \in {"guards", "profiles"}
        /\ \E l \in {"profiles", "switch", "forget"} : Goto(r, l)
        /\ UNCHANGED <<file, alive, holder, op, base, copy, seen, overtaken, running>>
    BY <1>5 DEF BuildGuards, BuildProfiles, Rebuild
  <2>2. PICK piece : services' = [services EXCEPT ![piece] = running]
    BY <1>5 DEF BuildGuards, BuildProfiles, Rebuild
  <2>3. DOMAIN services' = DOMAIN services /\ \A s \in DOMAIN services : Valid(services'[s])
    BY <1>0, <2>2
  <2>4. QED
    BY <1>0, <2>1, <2>3, QuietStep
<1>6. CASE SetSwitch(r)
  <2>1. pc[r] = "switch" /\ Goto(r, "done")
        /\ UNCHANGED <<file, alive, holder, op, base, copy, seen, overtaken, running, services>>
    BY <1>6 DEF SetSwitch, inFlight
  <2>2. QED
    BY <1>0, <2>1, QuietStep
<1>7. CASE ForgetCredential(r)
  <2>1. pc[r] = "forget"
        /\ UNCHANGED <<file, alive, holder, op, base, copy, seen, overtaken, running, services>>
    BY <1>7 DEF ForgetCredential, history
  <2>2. Goto(r, "done") \/ UNCHANGED pc
    BY <1>7 DEF ForgetCredential
  <2>3. Goto(r, "done") \/ Goto(r, "forget")
    BY <2>1, <2>2 DEF Goto, IInv, Shapes
  <2>4. QED
    BY <1>0, <2>1, <2>3, QuietStep
<1>8. QED
  BY <1>1, <1>2, <1>3, <1>4, <1>5, <1>6, <1>7

\* The file is written: the register takes the value that was made of it, or of
\* an older one.
LEMMA WriteIInv ==
    ASSUME IInv, NEW r \in Requests, Write(r)
    PROVE  IInv'
<1> USE DEF IInv, Goto, Labels
<1>0. pc[r] = "write" /\ UNCHANGED <<alive, holder, op, base, copy, running, services>>
  BY DEF Write, inFlight, memory
<1>1. CASE Goto(r, "undo") /\ UNCHANGED <<file, seen, overtaken>>
  <2>1. Valid(running') /\ \A s \in DOMAIN services : Valid(services'[s])
    BY <1>0 DEF ValidOK
  <2>2. QED
    BY <1>0, <1>1, <2>1, QuietStep
<1>2. CASE /\ Saves(copy[r]) /\ file' = copy[r] /\ seen' = copy[r]
           /\ overtaken' = overtaken \cup Beside(r)
           /\ Goto(r, "store")
  <2>1. \A s \in Requests : s # r => pc'[s] = pc[s]
    BY <1>2 DEF Shapes
  <2>2. pc'[r] = "store" /\ op[r] \in Operations
    BY <1>0, <1>2 DEF Shapes
  <2>3. /\ op[r].kind # "reload tunnel"
        /\ copy[r] = Makes(op[r], base[r]) /\ copy[r] # Refused
    BY <1>0 DEF WriterOK
  <2>4. Shaped(copy[r])
    <3>1. Shaped(base[r])
      BY DEF Shapes
    <3>2. MadeOf(op[r], base[r], Makes(op[r], base[r]))
      BY <2>2, <2>3, <3>1, MakesKeep
    <3>3. QED
      BY <2>3, <3>2 DEF MadeOf
  <2>5. Shapes'
    BY <1>0, <1>2, <2>4 DEF Shapes
  <2>6. MutexOK'
    BY <1>0, <2>1, <2>2 DEF MutexOK
  <2>7. WriterOK'
    <3>1. ASSUME NEW s \in Requests, pc'[s] \in {"set", "write"}
          PROVE  /\ op[s].kind # "reload tunnel" /\ s \in Beside(r)
                 /\ copy[s] = Makes(op[s], base[s]) /\ copy[s] # Refused
      <4>1. s # r /\ pc[s] \in {"set", "write"}
        BY <3>1, <2>1, <2>2
      <4>2. /\ op[s].kind # "reload tunnel"
            /\ copy[s] = Makes(op[s], base[s]) /\ copy[s] # Refused
        BY <4>1 DEF WriterOK
      <4>3. QED
        BY <1>0, <2>3, <4>1, <4>2, OthersAreBeside
    <3>2. QED
      BY <1>0, <1>2, <3>1 DEF WriterOK
  <2>8. FileOK'
    BY <1>2 DEF FileOK
  <2>9. ValidOK'
    <3>1. Plain(seen') => Loads(seen')
      BY <1>2, <2>4, PlainLoads DEF Saves
    <3>2. QED
      BY <1>0, <1>2, <2>1, <2>2, <3>1 DEF ValidOK, Saves
  <2>10. QED
    BY <2>5, <2>6, <2>7, <2>8, <2>9
<1>3. QED
  BY <1>1, <1>2 DEF Write, AfterFailedSave

\* Edits by hand, deaths and starts.
LEMMA WorldIInv ==
    ASSUME IInv, (\E e \in HandEdits : HandEdit(e)) \/ Crash \/ Boot
    PROVE  IInv'
<1> USE DEF IInv, memory, Labels
<1>1. CASE \E e \in HandEdits : HandEdit(e)
  <2>1. UNCHANGED <<alive, holder, pc, op, base, copy, seen, overtaken, running, services>>
    BY <1>1 DEF HandEdit, inFlight
  <2>2. PICK e \in HandEdits :
           file' = [file EXCEPT !.policies = e.policies, !.kill = e.kill, !.mode = e.mode]
    BY <1>1 DEF HandEdit
  <2>3. file' = [seen EXCEPT !.policies = e.policies, !.kill = e.kill, !.mode = e.mode]
    <3>1. CASE file = seen
      BY <2>2, <3>1
    <3>2. CASE file \in Register!Edited(seen)
      <4>1. PICK d \in HandEdits :
               file = [seen EXCEPT !.policies = d.policies, !.kill = d.kill, !.mode = d.mode]
        BY <3>2 DEF Register!Edited
      <4>2. QED
        BY <2>2, <4>1, EditedTwice
    <3>3. QED
      BY <3>1, <3>2 DEF FileOK
  <2>4. FileOK'
    BY <2>1, <2>3 DEF FileOK, Register!Edited
  <2>5. Shaped(file')
    BY <2>2 DEF Shapes, Shaped
  <2>6. Shapes' /\ MutexOK' /\ WriterOK' /\ ValidOK'
    BY <2>1, <2>5 DEF Shapes, MutexOK, WriterOK, ValidOK
  <2>7. QED
    BY <2>4, <2>6
<1>2. CASE Crash
  <2>1. Shapes' /\ MutexOK' /\ WriterOK' /\ ValidOK'
    BY <1>2, StoreAssumption DEF Crash, Shapes, MutexOK, WriterOK, ValidOK
  <2>2. FileOK'
    BY <1>2 DEF Crash, FileOK, Register!Edited
  <2>3. QED
    BY <2>1, <2>2
<1>3. CASE Boot
  <2>1. \A r \in Requests : pc[r] = "idle"
    BY <1>3 DEF Boot, MutexOK
  <2>2. /\ UNCHANGED <<file, holder, pc, op, base, copy>> /\ alive' = TRUE /\ seen' = file
        /\ Loads(file) /\ running' = Loaded(file)
        /\ services' = [s \in DOMAIN services |-> Loaded(file)]
    BY <1>3 DEF Boot, inFlight
  <2>3. Shapes' /\ MutexOK' /\ WriterOK'
    BY <2>1, <2>2 DEF Shapes, MutexOK, WriterOK
  <2>4. FileOK' /\ ValidOK'
    BY <2>1, <2>2 DEF FileOK, ValidOK, Loads
  <2>5. QED
    BY <2>3, <2>4
<1>4. QED
  BY <1>1, <1>2, <1>3

LEMMA NextIInv == IInv /\ [Next]_vars => IInv'
<1> SUFFICES ASSUME IInv, [Next]_vars PROVE IInv'
  OBVIOUS
<1>1. CASE UNCHANGED vars
  BY <1>1 DEF vars, memory, inFlight, history, IInv, Shapes, MutexOK, WriterOK, FileOK, ValidOK,
              Register!Edited
<1>2. ASSUME NEW r \in Requests, Step(r) PROVE IInv'
  BY <1>2, EnterIInv, LoadIInv, LeaveIInv, WriteIInv, QuietActions DEF Step
<1>3. CASE (\E e \in HandEdits : HandEdit(e)) \/ Crash \/ Boot
  BY <1>3, WorldIInv
<1>4. QED
  BY <1>1, <1>2, <1>3 DEF Next
----------------------------------------------------------------------------
\* No accepted request, in whatever order, with whatever failures, crashes and
\* edits by hand, leaves an invalid configuration in memory or in a service, or
\* a file that does not load, unless somebody edited it by hand or a policy in it
\* names a variable.
THEOREM RunningStaysValid == Spec => []RunningIsValid
<1>1. IInv => RunningIsValid
  BY DEF IInv, ValidOK, FileOK, RunningIsValid
<1>2. QED
  BY <1>1, InitIInv, NextIInv, PTL DEF Spec

\* Each step of the store is a step of the register, or none: a write performs
\* the writer's operation, on an older value if it was overtaken; a load or a
\* start notices edits by hand.
LEMMA StepRefines == IInv /\ [Next]_vars => [Register!Next]_seen
<1> SUFFICES ASSUME IInv, [Next]_vars, seen' # seen PROVE Register!Next
  OBVIOUS
<1>0. seen' = file => Register!Next
  BY DEF IInv, FileOK, Register!Next, Register!Notice
<1>1. ASSUME NEW r \in Requests, Load(r) PROVE Register!Next
  BY <1>0, <1>1 DEF Load
<1>2. ASSUME NEW r \in Requests, Write(r) PROVE Register!Next
  <2>1. pc[r] = "write" /\ seen' = copy[r]
    BY <1>2 DEF Write
  <2>2. op[r] \in Operations
    BY <2>1 DEF IInv, Shapes
  <2>3. /\ seen' = Makes(op[r], base[r]) /\ Makes(op[r], base[r]) # Refused
        /\ base[r] = seen \/ r \in overtaken
    BY <2>1 DEF IInv, WriterOK
  <2>4. base[r] = seen => Register!Perform(op[r])
    BY <2>3 DEF Register!Perform, Register!PerformOn
  <2>5. r \in overtaken => Register!Overwrite(op[r])
    BY <2>1, <2>3 DEF Register!Overwrite, Register!PerformOn
  <2>6. QED
    BY <2>2, <2>3, <2>4, <2>5 DEF Register!Next
<1>3. CASE Boot
  BY <1>0, <1>3 DEF Boot
<1>4. ASSUME NEW r \in Requests, Step(r), ~Load(r), ~Write(r) PROVE FALSE
  BY <1>4 DEF Step, Enter, SetCredential, RestoreCredential, StoreEngine, UpdateRunning, BuildGuards,
              BuildProfiles, Rebuild, SetSwitch, ForgetCredential, Leave, history
<1>5. ~UNCHANGED vars
  BY DEF vars, history
<1>6. ASSUME NEW e \in HandEdits, HandEdit(e) PROVE FALSE
  BY <1>6 DEF HandEdit
<1>7. ~Crash
  BY DEF Crash
<1>8. QED
  BY <1>1, <1>2, <1>3, <1>4, <1>5, <1>6, <1>7 DEF Next

\* Requests take effect one after another, whole: the configuration store
\* implements the register.  Only one that another has overtaken, while one of
\* the two is the update of a group named "connect" and has no mutex, may undo
\* what came between.  (server.go secureHandler, isConfigMutation)
THEOREM StoreIsAtomic == Spec => Atomic
<1>1. Init => Register!Init
  BY DEF Init, Register!Init
<1>2. QED
  BY <1>1, InitIInv, NextIInv, StepRefines, PTL DEF Spec, Atomic, Register!Spec
----------------------------------------------------------------------------
(* Memory *)

\* Where a request is that has written, until its flag is set.
Busy == {"store", "update", "guards", "profiles", "switch"}

SwitchShapes ==
    /\ DOMAIN switches = {"kill", "dns"}
    /\ \A r \in Requests : pc[r] = "switch" => op[r].kind \in {"kill switch", "dns guard"}

\* Who may write goes by the file, and who has written tells memory of it, unless
\* an edit by hand or another request has come between.
FreshOK ==
    \A r \in Requests : op[r].kind # "reload tunnel" /\ r \notin outdated \cup overtaken =>
        /\ pc[r] \in {"set", "write"} => base[r] = file
        /\ pc[r] \in {"store", "update"} => Current(copy[r])

\* The engine, the configuration and the services.
EngineFits == engine \in Engines(file) \cup Engines(Loaded(file))

PiecesOK ==
    alive => /\ "engine" \in stale \/ Publishing("engine") \/ EngineFits
             /\ "running" \in stale \/ Publishing("running") \/ Current(running)
             /\ \A s \in {"guards", "profiles"} :
                    s \in stale \/ Publishing(s) \/ Current(services[s])

\* A flag differs from the file's only while its toggle is on the way, which has
\* the flag that the file has.
FlagOK(f) ==
    /\ \/ f \in stale \/ switches[f] = file[f]
       \/ \E r \in Requests : pc[r] \in Busy /\ Toggles(op[r], f)
    /\ \A r \in Requests : pc[r] \in Busy /\ Toggles(op[r], f) =>
           f \in stale \/ file[f] = op[r].enabled

FlagsOK == alive => \A f \in {"kill", "dns"} : FlagOK(f)

MemoryInv == SwitchShapes /\ FreshOK /\ PiecesOK /\ FlagsOK

\* Who has written tells all; at the guard's flag only the flag is left.
LEMMA TellingIs ==
    /\ \A q \in {"engine", "running", "guards", "profiles"} :
          "store" \in Telling[q] /\ "switch" \notin Telling[q]
    /\ \A s \in {"guards", "profiles"} : Telling["running"] \subseteq Telling[s]
    /\ \A f \in {"kill", "dns"} : Telling[f] = Busy
<1>1. /\ Telling["engine"] = {"store"} /\ Telling["running"] = {"store", "update"}
      /\ Telling["guards"] = {"store", "update", "guards"}
      /\ Telling["profiles"] = {"store", "update", "guards", "profiles"}
      /\ Telling["kill"] = Busy /\ Telling["dns"] = Busy
  BY DEF Telling, Busy
<1>2. QED
  BY <1>1

LEMMA InitMemory == Init => MemoryInv
<1> SUFFICES ASSUME Init PROVE MemoryInv
  OBVIOUS
<1>1. /\ file = Initial /\ running = Loaded(Initial) /\ engine \in Engines(Loaded(Initial))
      /\ services = [s \in {"guards", "profiles"} |-> Loaded(Initial)]
      /\ switches = [kill |-> Initial.kill, dns |-> Initial.dns]
      /\ \A r \in Requests : pc[r] = "idle"
  BY DEF Init, Flags
<1>2. SwitchShapes
  BY <1>1 DEF SwitchShapes
<1>3. FreshOK
  BY <1>1 DEF FreshOK
<1>4. PiecesOK /\ FlagsOK
  <2>1. Current(running) /\ EngineFits
    BY <1>1 DEF Current, EngineFits
  <2>2. \A s \in {"guards", "profiles"} : Current(services[s])
    BY <1>1 DEF Current
  <2>3. \A f \in {"kill", "dns"} : FlagOK(f)
    BY <1>1 DEF FlagOK, Busy
  <2>4. QED
    BY <2>1, <2>2, <2>3 DEF PiecesOK, FlagsOK
<1>5. QED
  BY <1>2, <1>3, <1>4 DEF MemoryInv

\* A toggle is serialised: no two are on the way, and what is beside one does not
\* touch its flag.
LEMMA OneToggle ==
    ASSUME IInv, NEW r \in Requests, NEW s \in Requests, pc[r] # "idle", pc[s] # "idle",
           NEW f, NEW g, Toggles(op[r], f), Toggles(op[s], g)
    PROVE  r = s
<1>1. Locks(op[r]) /\ Locks(op[s])
  BY DEF Toggles, Locks, Slips
<1>2. QED
  BY <1>1 DEF IInv, MutexOK

\* Who tells memory of a piece goes on doing so if nobody that did has moved.
LEMMA StillPublishing ==
    ASSUME NEW q, Publishing(q), NEW r \in Requests,
           \A s \in Requests \ {r} : pc'[s] = pc[s] /\ op'[s] = op[s],
           pc[r] \in Telling[q] => pc'[r] \in Telling[q] /\ op'[r] = op[r]
    PROVE  Publishing(q)'
BY DEF Publishing

\* A request takes a step that tells memory nothing and writes nothing.
LEMMA SilentStep ==
    ASSUME IInv, MemoryInv, NEW r \in Requests,
           UNCHANGED <<file, alive, engine, running, services, switches, stale>>,
           \A s \in Requests \ {r} :
              /\ pc'[s] = pc[s] /\ op'[s] = op[s] /\ base'[s] = base[s] /\ copy'[s] = copy[s]
              /\ s \in outdated \cup overtaken => s \in outdated' \cup overtaken',
           pc[r] \notin Busy, pc'[r] \notin Busy,
           pc'[r] \in {"set", "write"} =>
              /\ pc[r] \in {"set", "write"} /\ op'[r] = op[r] /\ base'[r] = base[r]
              /\ r \in outdated \cup overtaken => r \in outdated' \cup overtaken'
    PROVE  MemoryInv'
<1> USE DEF MemoryInv
<1>1. SwitchShapes'
  BY DEF SwitchShapes, Busy
<1>2. FreshOK'
  BY DEF FreshOK, Busy, Current
<1>3. \A q \in {"engine", "running", "guards", "profiles"} : Publishing(q) => Publishing(q)'
  BY StillPublishing DEF Busy, Telling
<1>4. PiecesOK'
  BY <1>3 DEF PiecesOK, Current, EngineFits
<1>5. ASSUME NEW f, FlagOK(f) PROVE FlagOK(f)'
  BY <1>5 DEF FlagOK
<1>6. FlagsOK'
  BY <1>5 DEF FlagsOK
<1>7. QED
  BY <1>1, <1>2, <1>4, <1>6

\* The steps of that kind.
LEMMA SilentActions ==
    ASSUME IInv, MemoryInv, NEW r \in Requests,
           \/ \E o \in Operations : Enter(r, o)
           \/ Load(r) /\ ~Accepts(op[r])
           \/ SetCredential(r) \/ RestoreCredential(r) \/ ForgetCredential(r) \/ Leave(r)
           \/ Write(r) /\ UNCHANGED <<file, outdated, overtaken, stale>> /\ Goto(r, "undo")
    PROVE  MemoryInv'
<1> USE DEF IInv, Shapes, Goto, Busy
<1>1. CASE \E o \in Operations : Enter(r, o)
  <2>1. PICK o \in Operations : Enter(r, o)
    BY <1>1
  <2>2. /\ pc[r] = "idle" /\ pc'[r] = "load"
        /\ UNCHANGED <<file, alive, engine, running, services, switches, stale, base, copy, outdated,
                       overtaken>>
        /\ \A s \in Requests \ {r} : pc'[s] = pc[s] /\ op'[s] = op[s]
    BY <2>1 DEF Enter, memory
  <2>3. QED
    BY <2>2, SilentStep
<1>2. CASE Load(r) /\ ~Accepts(op[r])
  <2>1. pc[r] = "load" /\ Goto(r, "refused")
        /\ UNCHANGED <<file, alive, engine, running, services, switches, stale, op, base, copy, outdated,
                       overtaken>>
    BY <1>2 DEF Load, memory
  <2>2. QED
    BY <2>1, SilentStep
<1>3. CASE SetCredential(r)
  <2>1. pc[r] = "set" /\ (\E l \in {"set", "write", "undo"} : Goto(r, l))
        /\ UNCHANGED <<file, alive, engine, running, services, switches, stale, op, base, copy, outdated,
                       overtaken>>
    BY <1>3 DEF SetCredential, memory
  <2>2. QED
    BY <2>1, SilentStep
<1>4. CASE RestoreCredential(r)
  <2>1. pc[r] = "undo" /\ (Goto(r, "refused") \/ UNCHANGED pc)
        /\ UNCHANGED <<file, alive, engine, running, services, switches, stale, op, base, copy, outdated,
                       overtaken>>
    BY <1>4 DEF RestoreCredential, memory
  <2>2. QED
    BY <2>1, SilentStep
<1>5. CASE ForgetCredential(r)
  <2>1. pc[r] = "forget" /\ (Goto(r, "done") \/ UNCHANGED pc)
        /\ UNCHANGED <<file, alive, engine, running, services, switches, stale, op, base, copy, outdated,
                       overtaken>>
    BY <1>5 DEF ForgetCredential, memory, history
  <2>2. QED
    BY <2>1, SilentStep
<1>6. CASE Leave(r)
  <2>1. /\ pc[r] \in {"refused", "done"} /\ Goto(r, "idle")
        /\ UNCHANGED <<file, alive, engine, running, services, switches, stale>>
        /\ \A s \in Requests \ {r} :
              /\ op'[s] = op[s] /\ base'[s] = base[s] /\ copy'[s] = copy[s]
              /\ s \in outdated \cup overtaken => s \in outdated' \cup overtaken'
    BY <1>6 DEF Leave, memory
  <2>2. QED
    BY <2>1, SilentStep
<1>7. CASE Write(r) /\ UNCHANGED <<file, outdated, overtaken, stale>> /\ Goto(r, "undo")
  <2>1. pc[r] = "write"
        /\ UNCHANGED <<alive, engine, running, services, switches, op, base, copy>>
    BY <1>7 DEF Write, memory, inFlight
  <2>2. QED
    BY <1>7, <2>1, SilentStep
<1>8. QED
  BY <1>1, <1>2, <1>3, <1>4, <1>5, <1>6, <1>7

\* The file is loaded: what the request has in hand is the file's.
LEMMA LoadMemory ==
    ASSUME IInv, MemoryInv, NEW r \in Requests, Load(r), Accepts(op[r])
    PROVE  MemoryInv'
<1> DEFINE o == op[r]
<1>1. /\ pc[r] = "load" /\ Goto(r, AfterLoad(o))
      /\ base' = [base EXCEPT ![r] = file]
      /\ copy' = [copy EXCEPT ![r] = Makes(o, file)]
      /\ outdated' = outdated \ {r} /\ overtaken \subseteq overtaken'
      /\ UNCHANGED <<file, alive, op, engine, running, services, switches, stale>>
  BY DEF Load, memory
<1>2. AfterLoad(o) \in {"store", "set", "write"}
  BY WritersWrite
<1>3. /\ pc'[r] = AfterLoad(o) /\ copy'[r] = Makes(o, file) /\ base'[r] = file
      /\ \A s \in Requests \ {r} : pc'[s] = pc[s] /\ copy'[s] = copy[s] /\ base'[s] = base[s]
  BY <1>1 DEF Goto, IInv, Shapes
<1>4. SwitchShapes'
  BY <1>1, <1>2, <1>3 DEF SwitchShapes, MemoryInv
<1>5. FreshOK'
  <2>1. pc'[r] \in {"store", "update"} => Current(copy[r])'
    BY <1>1, <1>2, <1>3, WritersWrite DEF Current
  <2>2. QED
    BY <1>1, <1>2, <1>3, <2>1 DEF FreshOK, MemoryInv, Current
<1>6. PiecesOK'
  <2>1. \A q \in {"engine", "running", "guards", "profiles"} : Publishing(q) => Publishing(q)'
    BY <1>1, <1>3, StillPublishing DEF Telling
  <2>2. QED
    BY <1>1, <2>1 DEF PiecesOK, MemoryInv, Current, EngineFits
<1>7. ASSUME alive, NEW f \in {"kill", "dns"} PROVE FlagOK(f)'
  <2>1. FlagOK(f)
    BY <1>7 DEF FlagsOK, MemoryInv
  <2>2. ~(pc'[r] \in Busy /\ Toggles(o, f)) /\ pc[r] \notin Busy
    BY <1>1, <1>2, <1>3 DEF AfterLoad, Reloads, Toggles, Busy
  <2>3. QED
    BY <1>1, <1>3, <2>1, <2>2 DEF FlagOK
<1>8. QED
  BY <1>1, <1>4, <1>5, <1>6, <1>7 DEF FlagsOK, MemoryInv

\* The file is written: all of memory is still to be told.
LEMMA WriteMemory ==
    ASSUME IInv, MemoryInv, NEW r \in Requests, Write(r)
    PROVE  MemoryInv'
<1>0. CASE UNCHANGED <<file, outdated, overtaken, stale>> /\ Goto(r, "undo")
  BY <1>0, SilentActions
<1>1. CASE /\ file' = copy[r] /\ outdated' = outdated \ {r} /\ overtaken' = overtaken \cup Beside(r)
           /\ stale' = stale \cup {f \in {"kill", "dns"} :
                            r \in outdated \cup overtaken /\ Flags(copy[r])[f] # Flags(file)[f]}
           /\ Goto(r, "store")
  <2>1. pc[r] = "write" /\ UNCHANGED <<alive, op, base, copy, engine, running, services, switches>>
    BY DEF Write, memory, inFlight
  <2>2. /\ op[r].kind # "reload tunnel" /\ op[r] \in Operations /\ Shaped(base[r])
        /\ copy[r] = Makes(op[r], base[r]) /\ Makes(op[r], base[r]) # Refused
    BY <2>1 DEF IInv, WriterOK, Shapes
  <2>3. MadeOf(op[r], base[r], copy[r])
    BY <2>2, MakesKeep
  <2>4. pc'[r] = "store" /\ \A s \in Requests \ {r} : pc'[s] = pc[s]
    BY <1>1 DEF Goto, IInv, Shapes
  <2>5. base[r] = file \/ r \in outdated \cup overtaken
    BY <2>1, <2>2 DEF MemoryInv, FreshOK
  <2>6. SwitchShapes'
    BY <1>1, <2>1, <2>4 DEF SwitchShapes, MemoryInv
  <2>7. FreshOK'
    <3>1. ASSUME NEW s \in Requests, op'[s].kind # "reload tunnel", s \notin outdated' \cup overtaken',
                 pc'[s] \in {"set", "write", "store", "update"}
          PROVE  s = r
      <4>1. SUFFICES ASSUME s # r PROVE FALSE
        OBVIOUS
      <4>2. pc[s] \notin {"idle", "load"} /\ op[s].kind # "reload tunnel"
        BY <2>1, <2>4, <3>1, <4>1
      <4>3. s \in Beside(r)
        BY <2>1, <2>2, <4>1, <4>2, OthersAreBeside
      <4>4. QED
        BY <1>1, <3>1, <4>3
    <3>2. Current(copy[r])'
      BY <1>1, <2>1 DEF Current
    <3>3. QED
      BY <2>4, <3>1, <3>2 DEF FreshOK
  <2>8. PiecesOK'
    <3>1. \A q \in {"engine", "running", "guards", "profiles"} : Publishing(q)'
      BY <2>1, <2>2, <2>4, TellingIs DEF Publishing
    <3>2. QED
      BY <3>1 DEF PiecesOK
  <2>9. ASSUME alive, NEW f \in {"kill", "dns"} PROVE FlagOK(f)'
    <3>1. FlagOK(f)
      BY <2>9 DEF MemoryInv, FlagsOK
    <3>2. file'[f] = IF Toggles(op[r], f) THEN op[r].enabled ELSE base[r][f]
      BY <1>1, <2>3 DEF MadeOf
    <3>3. Flags(copy[r])[f] = file'[f] /\ Flags(file)[f] = file[f]
      BY <1>1 DEF Flags
    <3>4. \/ f \in stale' \/ file'[f] = file[f]
          \/ Toggles(op[r], f)
      BY <1>1, <2>5, <3>2, <3>3
    <3>5. stale \subseteq stale' /\ pc'[r] \in Busy /\ pc[r] \notin Busy
      BY <1>1, <2>1, <2>4 DEF Busy
    <3>6. ASSUME NEW s \in Requests, s # r, pc[s] \in Busy, Toggles(op[s], f)
          PROVE  ~Toggles(op[r], f)
      BY <2>1, <3>6, OneToggle DEF Busy
    <3>7. CASE Toggles(op[r], f)
      <4>1. file'[f] = op[r].enabled
        BY <3>2, <3>7
      <4>2. \A s \in Requests : pc'[s] \in Busy /\ Toggles(op[s], f) => s = r
        BY <2>4, <3>6, <3>7
      <4>3. QED
        BY <2>1, <3>5, <3>7, <4>1, <4>2 DEF FlagOK
    <3>8. CASE ~Toggles(op[r], f)
      <4>1. f \in stale' \/ file'[f] = file[f]
        BY <3>4, <3>8
      <4>2. \A s \in Requests : Toggles(op[s], f) => (pc'[s] \in Busy <=> pc[s] \in Busy)
        BY <2>4, <3>8
      <4>3. QED
        BY <2>1, <3>1, <3>5, <4>1, <4>2 DEF FlagOK
    <3>9. QED
      BY <3>7, <3>8
  <2>10. QED
    BY <2>1, <2>6, <2>7, <2>8, <2>9 DEF FlagsOK, MemoryInv
<1>2. QED
  BY <1>0, <1>1 DEF Write, AfterFailedSave

\* A piece of memory is made, and nobody else's part of it is disturbed.
LEMMA PieceStep ==
    ASSUME IInv, MemoryInv, NEW r \in Requests, NEW piece \in {"engine", "running", "guards", "profiles"},
           UNCHANGED <<file, alive, op, base, copy, switches, outdated, overtaken>>,
           stale' \ {piece} = stale \ {piece},
           pc[r] \in Busy \ {"switch"}, \A s \in Requests \ {r} : pc'[s] = pc[s],
           pc'[r] \in {"set", "write", "store", "update"} =>
              pc[r] \in {"store", "update"} /\ pc'[r] \in {"store", "update"},
           pc'[r] \in Busy \/ op[r].kind \notin {"kill switch", "dns guard"},
           pc'[r] = "switch" => op[r].kind \in {"kill switch", "dns guard"},
           PiecesOK'
    PROVE  MemoryInv'
<1>1. SwitchShapes'
  BY DEF SwitchShapes, MemoryInv
<1>2. FreshOK'
  BY DEF FreshOK, MemoryInv, Current
<1>3. ASSUME alive, NEW f \in {"kill", "dns"} PROVE FlagOK(f)'
  <2>1. FlagOK(f) /\ (f \in stale' <=> f \in stale)
    BY <1>3 DEF MemoryInv, FlagsOK
  <2>2. \A s \in Requests : Toggles(op[s], f) => (pc'[s] \in Busy <=> pc[s] \in Busy)
    BY DEF Toggles
  <2>3. QED
    BY <2>1, <2>2 DEF FlagOK
<1>4. QED
  BY <1>1, <1>2, <1>3 DEF FlagsOK, MemoryInv

\* The engine and the daemon's configuration are what the request has in hand.
LEMMA EngineMemory ==
    ASSUME IInv, MemoryInv, NEW r \in Requests, StoreEngine(r) \/ UpdateRunning(r)
    PROVE  MemoryInv'
<1>1. UNCHANGED <<file, alive, op, base, copy, switches, services, outdated, overtaken>>
  BY DEF StoreEngine, UpdateRunning, inFlight
<1>2. PICK piece \in {"engine", "running"} :
         /\ Freshen(r, piece)
         /\ piece = "engine" => /\ pc[r] = "store" /\ Goto(r, "update")
                                /\ engine' \in Engines(copy[r]) /\ UNCHANGED running
         /\ piece = "running" => /\ pc[r] = "update" /\ Goto(r, "guards")
                                 /\ running' = copy[r] /\ UNCHANGED engine
  BY DEF StoreEngine, UpdateRunning
<1>3. /\ pc'[r] = IF piece = "engine" THEN "update" ELSE "guards"
      /\ \A s \in Requests \ {r} : pc'[s] = pc[s]
  BY <1>2 DEF Goto, IInv, Shapes
<1>4. stale' \ {piece} = stale \ {piece}
  BY <1>2 DEF Freshen
<1>5. Current(copy[r]) \/ piece \in stale'
  BY <1>2 DEF Freshen, MemoryInv, FreshOK
<1>6. \A q \in {"engine", "running", "guards", "profiles"} \ {piece} : Publishing(q) => Publishing(q)'
  BY <1>1, <1>2, <1>3, StillPublishing DEF Telling
<1>7. PiecesOK'
  <2> SUFFICES ASSUME alive PROVE PiecesOK'
    BY <1>1 DEF PiecesOK
  <2>1. "engine" \in stale' \/ Publishing("engine")' \/ EngineFits'
    <3>1. CASE piece = "engine"
      BY <1>1, <1>2, <1>5, <3>1 DEF Current, EngineFits
    <3>2. CASE piece = "running"
      BY <1>1, <1>2, <1>4, <1>6, <3>2 DEF MemoryInv, PiecesOK, EngineFits
    <3>3. QED
      BY <1>2, <3>1, <3>2
  <2>2. "running" \in stale' \/ Publishing("running")' \/ Current(running)'
    <3>1. CASE piece = "engine"
      BY <1>1, <1>2, <1>4, <1>6, <3>1 DEF MemoryInv, PiecesOK, Current
    <3>2. CASE piece = "running"
      BY <1>1, <1>2, <1>5, <3>2 DEF Current
    <3>3. QED
      BY <1>2, <3>1, <3>2
  <2>3. ASSUME NEW s \in {"guards", "profiles"}
        PROVE  s \in stale' \/ Publishing(s)' \/ Current(services[s])'
    BY <1>1, <1>2, <1>4, <1>6 DEF MemoryInv, PiecesOK, Current
  <2>4. QED
    BY <2>1, <2>2, <2>3 DEF PiecesOK
<1>8. QED
  BY <1>1, <1>2, <1>3, <1>4, <1>7, PieceStep DEF Busy

\* A service is made of the daemon's configuration: it is the file's, or somebody
\* is still about to replace it.
LEMMA ServiceMemory ==
    ASSUME IInv, MemoryInv, NEW r \in Requests, BuildGuards(r) \/ BuildProfiles(r)
    PROVE  MemoryInv'
<1>1. UNCHANGED <<file, alive, op, base, copy, engine, running, switches, outdated, overtaken>>
  BY DEF BuildGuards, BuildProfiles, Rebuild
<1>2. PICK piece \in {"guards", "profiles"} :
         /\ Rebuild(piece)
         /\ piece = "guards" => pc[r] = "guards" /\ Goto(r, "profiles")
         /\ piece = "profiles" => /\ pc[r] = "profiles"
                                  /\ Goto(r, IF op[r].kind \in {"kill switch", "dns guard"}
                                             THEN "switch" ELSE "forget")
  BY DEF BuildGuards, BuildProfiles
<1>3. /\ piece = "guards" => pc[r] = "guards" /\ pc'[r] = "profiles"
      /\ piece = "profiles" => /\ pc[r] = "profiles"
                               /\ pc'[r] = IF op[r].kind \in {"kill switch", "dns guard"}
                                           THEN "switch" ELSE "forget"
      /\ \A s \in Requests \ {r} : pc'[s] = pc[s]
  BY <1>2 DEF Goto, IInv, Shapes
<1>4. /\ stale' \ {piece} = stale \ {piece} /\ (piece \in stale' \/ Current(running)
                                                   \/ "running" \notin stale)
      /\ services'[piece] = running
      /\ \A s \in {"guards", "profiles"} \ {piece} : services'[s] = services[s]
  BY <1>2 DEF Rebuild, IInv, Shapes
<1>5. \A q \in {"engine", "running", "guards", "profiles"} \ {piece} : Publishing(q) => Publishing(q)'
  BY <1>1, <1>3, StillPublishing DEF Telling
<1>6. PiecesOK'
  <2> SUFFICES ASSUME alive PROVE PiecesOK'
    BY <1>1 DEF PiecesOK
  <2>1. "engine" \in stale' \/ Publishing("engine")' \/ EngineFits'
    BY <1>1, <1>4, <1>5 DEF MemoryInv, PiecesOK, EngineFits
  <2>2. "running" \in stale' \/ Publishing("running")' \/ Current(running)'
    BY <1>1, <1>4, <1>5 DEF MemoryInv, PiecesOK, Current
  <2>3. ASSUME NEW s \in {"guards", "profiles"}
        PROVE  s \in stale' \/ Publishing(s)' \/ Current(services[s])'
    <3>1. CASE s # piece
      BY <1>1, <1>4, <1>5, <3>1 DEF MemoryInv, PiecesOK, Current
    <3>2. CASE s = piece
      <4>1. Current(running) => Current(services[s])'
        <5>1. services'[s] = running /\ file' = file
          BY <1>1, <1>4, <3>2
        <5>2. QED
          BY <5>1 DEF Current
      <4>2. Publishing("running")' => Publishing(s)'
        BY TellingIs DEF Publishing
      <4>3. "running" \in stale \/ Publishing("running") \/ Current(running)
        BY DEF MemoryInv, PiecesOK
      <4>4. QED
        BY <1>4, <1>5, <3>2, <4>1, <4>2, <4>3
    <3>3. QED
      BY <3>1, <3>2
  <2>4. QED
    BY <2>1, <2>2, <2>3 DEF PiecesOK
<1>7. QED
  BY <1>1, <1>3, <1>4, <1>6, PieceStep DEF Busy

\* The flag follows the file's, unless it was edited meanwhile.
LEMMA SwitchMemory ==
    ASSUME IInv, MemoryInv, NEW r \in Requests, SetSwitch(r)
    PROVE  MemoryInv'
<1> DEFINE piece == IF op[r].kind = "kill switch" THEN "kill" ELSE "dns"
<1>1. /\ pc[r] = "switch" /\ Goto(r, "done")
      /\ switches' = [switches EXCEPT ![piece] = op[r].enabled]
      /\ stale' = IF Flags(file)[piece] = op[r].enabled THEN stale \ {piece} ELSE stale
      /\ UNCHANGED <<file, alive, op, base, copy, engine, running, services, outdated, overtaken>>
  BY DEF SetSwitch, inFlight
<1>2. pc'[r] = "done" /\ \A s \in Requests \ {r} : pc'[s] = pc[s]
  BY <1>1 DEF Goto, IInv, Shapes
<1>3. Toggles(op[r], piece) /\ (piece \in {"kill", "dns"})
  BY <1>1 DEF MemoryInv, SwitchShapes, Toggles
<1>4. SwitchShapes'
  BY <1>1, <1>2 DEF SwitchShapes, MemoryInv
<1>5. FreshOK'
  BY <1>1, <1>2 DEF FreshOK, MemoryInv, Current
<1>6. PiecesOK'
  <2>1. \A q \in {"engine", "running", "guards", "profiles"} :
           (Publishing(q) => Publishing(q)') /\ (q \in stale' <=> q \in stale)
    <3>1. \A q \in {"engine", "running", "guards", "profiles"} : pc[r] \notin Telling[q]
      BY <1>1, TellingIs
    <3>2. stale' = stale \/ stale' = stale \ {piece}
      BY <1>1
    <3>3. QED
      BY <1>1, <1>2, <1>3, <3>1, <3>2, StillPublishing
  <2>2. QED
    BY <1>1, <2>1 DEF PiecesOK, MemoryInv, Current, EngineFits
<1>7. ASSUME alive, NEW f \in {"kill", "dns"} PROVE FlagOK(f)'
  <2>1. FlagOK(f) /\ DOMAIN switches = {"kill", "dns"}
    BY <1>7 DEF MemoryInv, FlagsOK, SwitchShapes
  <2>2. \A s \in Requests : pc[s] \in Busy /\ Toggles(op[s], f) => s = r
    BY <1>1, <1>3, OneToggle DEF Busy
  <2>3. \A s \in Requests : ~(pc'[s] \in Busy /\ Toggles(op[s], f))
    BY <1>2, <2>2 DEF Busy
  <2>4. f \in stale' \/ switches'[f] = file[f]
    <3>1. CASE f = piece
      <4>1. switches'[f] = op[r].enabled
        BY <1>1, <2>1, <3>1
      <4>2. f \in stale \/ file[f] = op[r].enabled
        BY <1>1, <1>3, <2>1, <3>1 DEF FlagOK, Busy
      <4>3. Flags(file)[f] = file[f]
        BY DEF Flags
      <4>4. QED
        BY <1>1, <3>1, <4>1, <4>2, <4>3
    <3>2. CASE f # piece
      <4>1. ~Toggles(op[r], f)
        BY <1>3, <3>2 DEF Toggles
      <4>2. f \in stale \/ switches[f] = file[f]
        BY <2>1, <2>2, <4>1 DEF FlagOK
      <4>3. switches'[f] = switches[f]
        BY <1>1, <2>1, <3>2
      <4>4. stale' = stale \/ stale' = stale \ {piece}
        BY <1>1
      <4>5. QED
        BY <3>2, <4>2, <4>3, <4>4
    <3>3. QED
      BY <3>1, <3>2
  <2>5. QED
    BY <1>1, <2>3, <2>4 DEF FlagOK
<1>8. QED
  BY <1>1, <1>4, <1>5, <1>6, <1>7 DEF FlagsOK, MemoryInv

\* After an edit by hand nobody is up to date; after a start everybody is.
LEMMA WorldMemory ==
    ASSUME IInv, MemoryInv, (\E e \in HandEdits : HandEdit(e)) \/ Crash \/ Boot
    PROVE  MemoryInv'
<1>1. CASE \E e \in HandEdits : HandEdit(e)
  <2>1. PICK e \in HandEdits : HandEdit(e)
    BY <1>1
  <2>2. /\ file' = [file EXCEPT !.policies = e.policies, !.kill = e.kill, !.mode = e.mode]
        /\ stale' = stale \cup {"engine", "running", "guards", "profiles"}
                          \cup (IF e.kill # file.kill THEN {"kill"} ELSE {})
        /\ outdated' = {r \in Requests : pc[r] # "idle"}
        /\ UNCHANGED <<alive, pc, op, base, copy, engine, running, services, switches>>
    BY <2>1 DEF HandEdit, memory, inFlight
  <2>3. file'.kill = e.kill /\ file'.dns = file.dns
    BY <2>2 DEF IInv, Shapes, Shaped
  <2>4. SwitchShapes'
    BY <2>2 DEF MemoryInv, SwitchShapes
  <2>5. FreshOK' /\ PiecesOK'
    BY <2>2 DEF FreshOK, PiecesOK
  <2>6. ASSUME alive, NEW f \in {"kill", "dns"} PROVE FlagOK(f)'
    <3>1. FlagOK(f) /\ (f \in stale => f \in stale') /\ (f \in stale' \/ file'[f] = file[f])
      BY <2>2, <2>3, <2>6 DEF MemoryInv, FlagsOK
    <3>2. QED
      BY <2>2, <3>1 DEF FlagOK
  <2>7. QED
    BY <2>2, <2>4, <2>5, <2>6 DEF MemoryInv, FlagsOK
<1>2. CASE Crash
  <2>1. /\ \A r \in Requests : pc'[r] = "idle"
        /\ alive' = FALSE /\ UNCHANGED switches
    BY <1>2 DEF Crash, memory
  <2>2. QED
    BY <2>1 DEF MemoryInv, SwitchShapes, FreshOK, PiecesOK, FlagsOK
<1>3. CASE Boot
  <2>1. /\ \A r \in Requests : pc'[r] = "idle"
        /\ UNCHANGED file /\ running' = Loaded(file) /\ engine' \in Engines(Loaded(file))
        /\ \A s \in {"guards", "profiles"} : services'[s] = Loaded(file)
        /\ switches' = [kill |-> file.kill, dns |-> file.dns]
    BY <1>3 DEF Boot, Flags, IInv, MutexOK, Shapes
  <2>2. SwitchShapes'
    BY <2>1 DEF SwitchShapes
  <2>3. FreshOK' /\ PiecesOK'
    BY <2>1 DEF FreshOK, PiecesOK, Current, EngineFits
  <2>4. FlagsOK'
    BY <2>1 DEF FlagsOK, FlagOK, Busy
  <2>5. QED
    BY <2>2, <2>3, <2>4 DEF MemoryInv
<1>4. QED
  BY <1>1, <1>2, <1>3

LEMMA NextMemory == IInv /\ MemoryInv /\ [Next]_vars => MemoryInv'
<1> SUFFICES ASSUME IInv, MemoryInv, [Next]_vars PROVE MemoryInv'
  OBVIOUS
<1>1. CASE UNCHANGED vars
  BY <1>1, ZenonT(60) DEF vars, memory, inFlight, history, MemoryInv, SwitchShapes, FreshOK, PiecesOK,
              FlagsOK, FlagOK, Current, EngineFits, Publishing
<1>2. ASSUME NEW r \in Requests, Step(r) PROVE MemoryInv'
  <2>1. CASE Load(r)
    BY <2>1, LoadMemory, SilentActions
  <2>2. CASE ~Load(r)
    BY <1>2, <2>2, SilentActions, WriteMemory, EngineMemory, ServiceMemory, SwitchMemory DEF Step
  <2>3. QED
    BY <2>1, <2>2
<1>3. CASE (\E e \in HandEdits : HandEdit(e)) \/ Crash \/ Boot
  BY <1>3, WorldMemory
<1>4. QED
  BY <1>1, <1>2, <1>3 DEF Next

\* The daemon goes by what the file says as soon as the requests that may have
\* written it have told it, whatever was edited, failed or died before, and
\* although nobody serialises how the services are made; only what nobody has
\* reloaded since an edit by hand is behind, or what was set from a file that a
\* request without configMu, or one beside it, had replaced.  (server.go
\* secureHandler, handlers_common.go saveRuntimeConfig, daemon_runtime.go)
THEOREM MemoryIsCurrent == Spec => []MemoryFollowsFile
<1>1. MemoryInv => MemoryFollowsFile
  <2> SUFFICES ASSUME MemoryInv, alive PROVE MemoryFollowsFile
    BY DEF MemoryFollowsFile
  <2>1. ASSUME NEW f \in {"kill", "dns"}
        PROVE  f \in stale \/ Publishing(f) \/ switches[f] = Flags(file)[f]
    <3>1. \A r \in Requests : pc[r] \in Busy /\ Toggles(op[r], f) => Publishing(f)
      BY TellingIs DEF Publishing, Toggles
    <3>2. QED
      BY <3>1 DEF MemoryInv, FlagsOK, FlagOK, Flags
  <2>2. QED
    BY <2>1 DEF MemoryInv, PiecesOK, EngineFits, MemoryFollowsFile
<1>2. QED
  BY <1>1, InitIInv, NextIInv, InitMemory, NextMemory, PTL DEF Spec
----------------------------------------------------------------------------
(* The keychain follows what the file says of it *)

\* Request r holds configMu and is at one of the labels.
Holding(r, labels) == holder = r /\ pc[r] \in labels

\* The configuration says that the keychain holds credential k of p.
Lists(cfg, p, k) == p \in DOMAIN cfg.vpns /\ k \in cfg.vpns[p].held

\* What it says is the keychain's, and there, or the keychain has failed.
Named(cfg) == \A p \in DOMAIN cfg.vpns : cfg.vpns[p].held # {} => p \in Items

Backed(cfg) == \A p, k : Lists(cfg, p, k) => keychain[p][k] # Missing \/ <<p, k>> \in unsure

\* Request r has what it needs to undo what it has done.
Undoable(r) ==
    /\ DOMAIN backup[r] \subseteq Gives(op[r])
    /\ \A k \in DOMAIN backup[r] :
          /\ backup[r][k] \in Secrets \cup {Missing}
          /\ Lists(file, op[r].name, k) => backup[r][k] # Missing \/ <<op[r].name, k>> \in unsure

\* Credentials are backed up and set one by one, for a file that lists them.
SettingAt(r) ==
    /\ pc[r] \in {"set", "write", "undo"} => Undoable(r)
    /\ pc[r] \in {"set", "write"} =>
          /\ Named(base[r]) /\ (Locks(op[r]) => Backed(base[r]))
          /\ todo[r] \subseteq Gives(op[r])
          /\ DOMAIN backup[r] = Gives(op[r]) \ todo[r]
          /\ \A k \in DOMAIN backup[r] : keychain[op[r].name][k] # Missing
    /\ pc[r] = "set" <=> pc[r] \in {"set", "write"} /\ todo[r] # {}
    /\ pc[r] \in {"idle", "load", "refused"} => DOMAIN backup[r] = {}

\* Only what has left the file is forgotten, or what has come back unsure.
ForgettingAt(r) ==
    /\ pc[r] \in (Busy \ {"switch"}) \cup {"forget"} /\ op[r].kind = "delete vpn" =>
          \A k : Lists(file, op[r].name, k) => <<op[r].name, k>> \in unsure
    /\ pc[r] = "forget" /\ op[r].kind # "delete vpn" => todo[r] = {}

\* Where a request is before anything was written for good.
Unwritten == {"load", "set", "write", "undo", "refused"}

\* Until it has written, a holder's traces are in its backup.
TraceAt(r) ==
    Holding(r, Unwritten) =>
        \A p \in Items, k \in Credentials :
            \/ <<p, k>> \in unsure
            \/ k \in DOMAIN backup[r] /\ p = op[r].name /\ backup[r][k] = found[r][p][k]
            \/ ~(k \in DOMAIN backup[r] /\ p = op[r].name) /\ keychain[p][k] = found[r][p][k]

KeychainShapes ==
    /\ keychain \in [Items -> [Credentials -> Secrets \cup {Missing}]]
    /\ DOMAIN todo = Requests /\ DOMAIN backup = Requests /\ DOMAIN found = Requests
    /\ Named(file)

KeychainInv == /\ KeychainShapes /\ Backed(file)
               /\ \A r \in Requests : SettingAt(r) /\ ForgettingAt(r) /\ TraceAt(r)

LEMMA InitKeychain == Init => KeychainInv
<1> SUFFICES ASSUME Init PROVE KeychainInv
  OBVIOUS
<1>1. (CHOOSE s \in Secrets : TRUE) \in Secrets /\ Missing \notin Secrets
  BY StoreAssumption
<1>2. file = Initial /\ Shaped(file)
  BY StoreAssumption DEF Init
<1>3. KeychainShapes
  BY <1>1, <1>2 DEF Init, KeychainShapes, FirstKeychain, Items, Named
<1>4. Backed(file)
  BY <1>1, <1>2 DEF Init, Backed, Lists, FirstKeychain, Items, Shaped
<1>5. ASSUME NEW r \in Requests
      PROVE  SettingAt(r) /\ ForgettingAt(r) /\ TraceAt(r)
  <2>1. pc[r] = "idle" /\ DOMAIN backup[r] = {}
    BY DEF Init, NoBackup
  <2>2. QED
    BY <2>1 DEF SettingAt, ForgettingAt, TraceAt, Holding, Unwritten, Busy
<1>6. QED
  BY <1>3, <1>4, <1>5 DEF KeychainInv

\* What the file comes to list is unsure.
Growing == /\ unsure \subseteq unsure'
           /\ \A p, k : Lists(file', p, k) => Lists(file, p, k) \/ <<p, k>> \in unsure'

\* Labels between which the keychain does not matter.
Passes(a, b) == \/ a = b
                \/ a = "store" /\ b = "update"
                \/ a = "update" /\ b = "guards"
                \/ a = "guards" /\ b = "profiles"
                \/ a = "write" /\ b = "undo"
                \/ b = "done"

\* A request that neither acts nor loses anything keeps its part.
LEMMA Untouched ==
    ASSUME NEW r \in Requests, SettingAt(r), ForgettingAt(r), TraceAt(r),
           UNCHANGED keychain, Growing, Passes(pc[r], pc'[r]),
           op'[r] = op[r], todo'[r] = todo[r], backup'[r] = backup[r], found'[r] = found[r],
           base'[r] = base[r],
           Holding(r, Unwritten)' => Holding(r, Unwritten)
    PROVE  SettingAt(r)' /\ ForgettingAt(r)' /\ TraceAt(r)'
<1>1. SettingAt(r)'
  <2>1. Undoable(r) => Undoable(r)'
    BY DEF Undoable, Growing
  <2>2. Named(base[r]) => Named(base[r])'
    BY DEF Named
  <2>3. Backed(base[r]) => Backed(base[r])'
    BY DEF Backed, Lists, Growing
  <2>4. pc'[r] \in {"set", "write", "undo"} => pc[r] \in {"set", "write", "undo"}
    BY DEF Passes
  <2>5. pc'[r] \in {"set", "write"} \cup {"idle", "load", "refused"} => pc'[r] = pc[r]
    BY DEF Passes
  <2>6. QED
    BY <2>1, <2>2, <2>3, <2>4, <2>5 DEF SettingAt
<1>2. ForgettingAt(r)'
  <2>1. pc'[r] \in (Busy \ {"switch"}) \cup {"forget"} => pc[r] \in (Busy \ {"switch"}) \cup {"forget"}
    BY DEF Passes, Busy
  <2>2. pc'[r] = "forget" => pc[r] = "forget"
    BY DEF Passes
  <2>3. QED
    BY <2>1, <2>2 DEF ForgettingAt, Growing
<1>3. TraceAt(r)'
  <2>1. ASSUME Holding(r, Unwritten), NEW p \in Items, NEW k \in Credentials
        PROVE  \/ <<p, k>> \in unsure'
               \/ /\ k \in DOMAIN backup'[r] /\ p = op'[r].name
                  /\ backup'[r][k] = found'[r][p][k]
               \/ /\ ~(k \in DOMAIN backup'[r] /\ p = op'[r].name)
                  /\ keychain'[p][k] = found'[r][p][k]
    BY <2>1 DEF TraceAt, Growing
  <2>2. QED
    BY <2>1 DEF TraceAt
<1>4. QED
  BY <1>1, <1>2, <1>3

\* Who brings or forgets credentials is serialised.
LEMMA KeepersLock ==
    ASSUME NEW o, Gives(o) # {} \/ o.kind = "delete vpn"
    PROVE  Locks(o)
BY DEF Gives, Locks, Slips

\* Whoever does not hold configMu while another does has nothing to do with the
\* keychain.
LEMMA Bystander ==
    ASSUME IInv, NEW r \in Requests, NEW s \in Requests, s # r, holder = r,
           SettingAt(s), ForgettingAt(s), UNCHANGED holder,
           pc'[s] = pc[s], op'[s] = op[s], todo'[s] = todo[s], backup'[s] = backup[s],
           base'[s] = base[s]
    PROVE  SettingAt(s)' /\ ForgettingAt(s)' /\ TraceAt(s)'
<1>1. pc[s] # "idle" => ~Locks(op[s])
  BY DEF IInv, MutexOK
<1>2. pc[s] # "idle" => Gives(op[s]) = {} /\ op[s].kind # "delete vpn"
  BY <1>1, KeepersLock
<1>3. pc[s] \in {"set", "write", "undo"} => DOMAIN backup[s] = {}
  BY <1>2 DEF SettingAt, Undoable
<1>4. SettingAt(s)'
  <2>1. Named(base[s]) => Named(base[s])'
    BY DEF Named
  <2>2. DOMAIN backup[s] = {} => Undoable(s)'
    BY DEF Undoable
  <2>3. pc'[s] \in {"set", "write"} => ~Locks(op'[s])
    BY <1>1
  <2>4. QED
    BY <1>2, <1>3, <2>1, <2>2, <2>3 DEF SettingAt
<1>5. ForgettingAt(s)'
  BY <1>2 DEF ForgettingAt, Busy
<1>6. TraceAt(s)'
  BY DEF TraceAt, Holding
<1>7. QED
  BY <1>4, <1>5, <1>6

\* Steps that leave the keychain and every request's part of it alone.
LEMMA SilentKeychain ==
    ASSUME KeychainInv,
           UNCHANGED <<keychain, unsure, op, base, todo, backup, found>>, file'.vpns = file.vpns,
           \A s \in Requests :
              /\ Passes(pc[s], pc'[s])
              /\ Holding(s, Unwritten)' => Holding(s, Unwritten)
    PROVE  KeychainInv'
<1>1. Growing
  BY DEF Growing, Lists
<1>2. KeychainShapes' /\ Backed(file)'
  BY DEF KeychainInv, KeychainShapes, Named, Backed, Lists
<1>3. \A s \in Requests : SettingAt(s)' /\ ForgettingAt(s)' /\ TraceAt(s)'
  BY <1>1, Untouched DEF KeychainInv
<1>4. QED
  BY <1>2, <1>3 DEF KeychainInv

\* A request comes in, reads the keychain as it is, or leaves.
LEMMA DoorKeychain ==
    ASSUME IInv, KeychainInv, NEW r \in Requests,
           (\E o \in Operations : Enter(r, o)) \/ Leave(r)
    PROVE  KeychainInv'
<1> DEFINE l == IF pc[r] = "idle" THEN "load" ELSE "idle"
           Elsewhere ==
              /\ UNCHANGED <<file, keychain, unsure>>
              /\ pc'[r] = l
              /\ \A s \in Requests \ {r} :
                    /\ pc'[s] = pc[s] /\ op'[s] = op[s] /\ todo'[s] = todo[s]
                    /\ backup'[s] = backup[s] /\ found'[s] = found[s] /\ base'[s] = base[s]
                    /\ holder' = s => holder = s
              /\ DOMAIN todo' = Requests /\ DOMAIN backup' = Requests /\ DOMAIN found' = Requests
<1>1. Elsewhere
  <2>1. ASSUME NEW o \in Operations, Enter(r, o) PROVE Elsewhere
    BY <2>1 DEF Enter, Goto, IInv, Shapes, KeychainInv, KeychainShapes
  <2>2. ASSUME Leave(r) PROVE Elsewhere
    <3>1. \A s \in Requests \ {r} : holder' = s => holder = s
      BY <2>2, StoreAssumption DEF Leave
    <3>2. pc[r] # "idle"
      BY <2>2 DEF Leave
    <3>3. \A s \in Requests \ {r} :
             /\ pc'[s] = pc[s] /\ op'[s] = op[s] /\ todo'[s] = todo[s]
             /\ backup'[s] = backup[s] /\ found'[s] = found[s] /\ base'[s] = base[s]
      BY <2>2 DEF Leave, Goto, IInv, Shapes, KeychainInv, KeychainShapes
    <3>4. UNCHANGED <<file, keychain, unsure>> /\ pc'[r] = l
      BY <2>2, <3>2 DEF Leave, Goto, IInv, Shapes
    <3>5. DOMAIN todo' = Requests /\ DOMAIN backup' = Requests /\ DOMAIN found' = Requests
      BY <2>2 DEF Leave, KeychainInv, KeychainShapes
    <3>6. QED
      BY <3>1, <3>3, <3>4, <3>5
  <2>3. QED
    BY <2>1, <2>2
<1>2. DOMAIN backup'[r] = {}
  BY DEF Enter, Leave, NoBackup, KeychainInv, KeychainShapes, SettingAt
<1>3. l = "load" => found'[r] = keychain
  BY DEF Enter, Leave, KeychainInv, KeychainShapes
<1>4. SettingAt(r)' /\ ForgettingAt(r)' /\ TraceAt(r)'
  BY <1>1, <1>2, <1>3 DEF SettingAt, ForgettingAt, TraceAt, Holding, Unwritten, Busy
<1>5. ASSUME NEW s \in Requests \ {r}
      PROVE  SettingAt(s)' /\ ForgettingAt(s)' /\ TraceAt(s)'
  <2>1. Holding(s, Unwritten)' => Holding(s, Unwritten)
    BY <1>1 DEF Holding
  <2>2. SettingAt(s) /\ ForgettingAt(s) /\ TraceAt(s)
    BY DEF KeychainInv
  <2>3. Growing /\ Passes(pc[s], pc'[s])
    BY <1>1 DEF Growing, Lists, Passes
  <2>4. QED
    BY <1>1, <2>1, <2>2, <2>3, Untouched
<1>6. KeychainShapes' /\ Backed(file)'
  BY <1>1 DEF KeychainInv, KeychainShapes, Named, Backed, Lists
<1>7. QED
  BY <1>4, <1>5, <1>6 DEF KeychainInv

\* A request that loads has set nothing yet, and has in hand what the file lists.
LEMMA LoadKeychain ==
    ASSUME IInv, KeychainInv, NEW r \in Requests, Load(r)
    PROVE  KeychainInv'
<1>1. /\ pc[r] = "load" /\ UNCHANGED <<file, keychain, holder, op, backup, unsure, found>>
      /\ \/ Goto(r, "refused") /\ UNCHANGED <<base, todo>>
         \/ /\ Goto(r, AfterLoad(op[r])) /\ todo' = [todo EXCEPT ![r] = Gives(op[r])]
            /\ base' = [base EXCEPT ![r] = file]
  BY DEF Load
<1>2. /\ \/ pc'[r] = "refused"
         \/ pc'[r] = AfterLoad(op[r]) /\ todo'[r] = Gives(op[r]) /\ base'[r] = file
      /\ \A s \in Requests \ {r} : pc'[s] = pc[s] /\ todo'[s] = todo[s] /\ base'[s] = base[s]
      /\ DOMAIN todo' = Requests
  BY <1>1 DEF Goto, IInv, Shapes, KeychainInv, KeychainShapes
<1>3. DOMAIN backup[r] = {} /\ TraceAt(r)
  BY <1>1 DEF KeychainInv, SettingAt
<1>4. SettingAt(r)'
  <2>1. CASE pc'[r] = "refused"
    BY <1>1, <1>3, <2>1 DEF SettingAt
  <2>2. CASE pc'[r] = AfterLoad(op[r]) /\ todo'[r] = Gives(op[r]) /\ base'[r] = file
    <3>1. Named(base[r])' /\ Backed(base[r])'
      BY <1>1, <2>2 DEF KeychainInv, KeychainShapes, Named, Backed, Lists
    <3>2. pc'[r] = "store" \/ (pc'[r] = "set" <=> Gives(op[r]) # {})
      BY <2>2 DEF AfterLoad
    <3>3. pc'[r] \in {"store", "set", "write"}
      BY <2>2 DEF AfterLoad
    <3>4. QED
      BY <1>1, <1>3, <2>2, <3>1, <3>2, <3>3 DEF SettingAt, Undoable
  <2>3. QED
    BY <1>2, <2>1, <2>2
<1>5. ForgettingAt(r)'
  BY <1>1, <1>2 DEF ForgettingAt, AfterLoad, Reloads, Busy
<1>6. TraceAt(r)'
  BY <1>1, <1>2, <1>3, ZenonT(60) DEF TraceAt, Holding, Unwritten
<1>7. ASSUME NEW s \in Requests \ {r}
      PROVE  SettingAt(s)' /\ ForgettingAt(s)' /\ TraceAt(s)'
  <2>1. Growing /\ Passes(pc[s], pc'[s])
    BY <1>1, <1>2 DEF Growing, Lists, Passes
  <2>2. QED
    BY <1>1, <1>2, <2>1, Untouched DEF KeychainInv, Holding
<1>8. KeychainShapes' /\ Backed(file)'
  BY <1>1, <1>2 DEF KeychainInv, KeychainShapes, Named, Backed, Lists
<1>9. QED
  BY <1>4, <1>5, <1>6, <1>7, <1>8 DEF KeychainInv

\* Memory knows the configuration, and a deleted profile's credentials become due.
LEMMA ProfilesKeychain ==
    ASSUME IInv, KeychainInv, NEW r \in Requests, BuildProfiles(r)
    PROVE  KeychainInv'
<1> DEFINE l == IF op[r].kind \in {"kill switch", "dns guard"} THEN "switch" ELSE "forget"
<1>1. /\ pc[r] = "profiles"
      /\ UNCHANGED <<file, keychain, holder, op, base, backup, unsure, found>>
      /\ todo' = [todo EXCEPT ![r] = Forgets(op[r], base[r])] /\ Goto(r, l)
  BY DEF BuildProfiles, Rebuild
<1>2. /\ pc'[r] = l /\ todo'[r] = Forgets(op[r], base[r])
      /\ \A s \in Requests \ {r} : pc'[s] = pc[s] /\ todo'[s] = todo[s]
      /\ DOMAIN todo' = Requests
  BY <1>1 DEF Goto, IInv, Shapes, KeychainInv, KeychainShapes
<1>3. SettingAt(r)'
  BY <1>2 DEF SettingAt
<1>4. ForgettingAt(r)'
  BY <1>1, <1>2 DEF ForgettingAt, Forgets, KeychainInv, Busy, Lists
<1>5. TraceAt(r)'
  BY <1>2 DEF TraceAt, Holding, Unwritten
<1>6. ASSUME NEW s \in Requests \ {r}
      PROVE  SettingAt(s)' /\ ForgettingAt(s)' /\ TraceAt(s)'
  <2>1. Growing /\ Passes(pc[s], pc'[s])
    BY <1>1, <1>2 DEF Growing, Lists, Passes
  <2>2. QED
    BY <1>1, <1>2, <2>1, Untouched DEF KeychainInv, Holding
<1>7. KeychainShapes' /\ Backed(file)'
  BY <1>1, <1>2 DEF KeychainInv, KeychainShapes, Named, Backed, Lists
<1>8. QED
  BY <1>3, <1>4, <1>5, <1>6, <1>7 DEF KeychainInv

\* One item of the keychain is written; all others stay.
LEMMA OneItem ==
    ASSUME KeychainShapes, NEW n, NEW j \in Credentials, NEW v \in Secrets \cup {Missing},
           keychain' = [keychain EXCEPT ![n][j] = v]
    PROVE  /\ keychain' \in [Items -> [Credentials -> Secrets \cup {Missing}]]
           /\ \A p \in Items, k \in Credentials :
                 keychain'[p][k] = IF p = n /\ k = j THEN v ELSE keychain[p][k]
<1>1. keychain \in [Items -> [Credentials -> Secrets \cup {Missing}]]
  BY DEF KeychainShapes
<1>2. CASE n \in Items
  BY <1>1, <1>2
<1>3. CASE n \notin Items
  BY <1>1, <1>3
<1>4. QED
  BY <1>2, <1>3

\* What a configuration lists is an item of the keychain.
LEMMA ListedIsItem ==
    ASSUME NEW cfg, Shaped(cfg), Named(cfg), NEW p, NEW k, Lists(cfg, p, k)
    PROVE  p \in Items /\ k \in Credentials
BY DEF Named, Shaped, Lists

\* A request that brings credentials brings them for an item of the keychain.
LEMMA GivenIsItem ==
    ASSUME IInv, NEW r \in Requests, pc[r] # "idle", Gives(op[r]) # {}
    PROVE  /\ op[r].name \in Items /\ op[r].secret \in Secrets
           /\ Gives(op[r]) \subseteq Credentials
<1>1. op[r] \in Operations
  BY DEF IInv, Shapes
<1>2. QED
  BY <1>1, StoreAssumption DEF Items

\* The user name before the password, of what is left.
LEMMA NextIsTodo ==
    ASSUME NEW r, todo[r] # {}, todo[r] \subseteq Credentials
    PROVE  NextSecret(r) \in todo[r] /\ NextSecret(r) \in Credentials
BY DEF NextSecret, Credentials

\* Who is serialised holds configMu; the others are bystanders.
LEMMA SettersHold ==
    ASSUME IInv, KeychainInv, NEW r \in Requests, pc[r] # "idle", Locks(op[r])
    PROVE  /\ holder = r
           /\ \A s \in Requests \ {r} :
                 UNCHANGED holder /\ pc'[s] = pc[s] /\ op'[s] = op[s] /\ todo'[s] = todo[s]
                    /\ backup'[s] = backup[s] /\ base'[s] = base[s]
                 => SettingAt(s)' /\ ForgettingAt(s)' /\ TraceAt(s)'
<1>1. holder = r
  BY DEF IInv, MutexOK
<1>2. \A s \in Requests : SettingAt(s) /\ ForgettingAt(s)
  BY DEF KeychainInv
<1>3. QED
  BY <1>1, <1>2, Bystander

\* A credential is set once what it replaces is in the backup.
LEMMA SetKeychain ==
    ASSUME IInv, KeychainInv, NEW r \in Requests, SetCredential(r)
    PROVE  KeychainInv'
<1> DEFINE n == op[r].name
           j == NextSecret(r)
<1>1. pc[r] = "set" /\ UNCHANGED <<file, holder, op, base, found>>
  BY DEF SetCredential
<1>0. Locks(op[r]) /\ holder = r
  <2>1. Gives(op[r]) # {}
    BY <1>1 DEF KeychainInv, SettingAt
  <2>2. QED
    BY <1>1, <2>1, KeepersLock, SettersHold
<1>2. CASE Goto(r, "undo") /\ UNCHANGED <<keychain, backup, unsure, todo>>
  <2>1. pc'[r] = "undo" /\ \A s \in Requests \ {r} : pc'[s] = pc[s]
    BY <1>2 DEF Goto, IInv, Shapes
  <2>2. SettingAt(r)'
    <3>1. Undoable(r)
      BY <1>1 DEF KeychainInv, SettingAt
    <3>2. Undoable(r)'
      BY <1>1, <1>2, <3>1 DEF Undoable
    <3>3. QED
      BY <2>1, <3>2 DEF SettingAt
  <2>3. ForgettingAt(r)'
    BY <2>1 DEF ForgettingAt, Busy
  <2>4. TraceAt(r)'
    BY <1>1, <1>2, <2>1, ZenonT(60) DEF KeychainInv, TraceAt, Holding, Unwritten
  <2>5. \A s \in Requests \ {r} : SettingAt(s)' /\ ForgettingAt(s)' /\ TraceAt(s)'
    BY <1>0, <1>1, <1>2, <2>1, SettersHold
  <2>6. KeychainShapes' /\ Backed(file)'
    BY <1>1, <1>2 DEF KeychainInv, KeychainShapes, Named, Backed, Lists
  <2>7. QED
    BY <2>2, <2>3, <2>4, <2>5, <2>6 DEF KeychainInv
<1>3. ASSUME NEW readable \in BOOLEAN,
             keychain' = [keychain EXCEPT ![n][j] = op[r].secret],
             backup' = [backup EXCEPT ![r] =
                           [k \in DOMAIN @ \cup {j} |->
                               IF k = j THEN BackupOf(n, j, readable) ELSE @[k]]],
             unsure' = IF readable THEN unsure ELSE unsure \cup {<<n, j>>},
             todo' = [todo EXCEPT ![r] = @ \ {j}],
             Goto(r, IF todo[r] = {j} THEN "write" ELSE "set")
      PROVE  KeychainInv'
  <2>1. /\ todo[r] # {} /\ todo[r] \subseteq Gives(op[r])
        /\ DOMAIN backup[r] = Gives(op[r]) \ todo[r]
        /\ \A k \in DOMAIN backup[r] : keychain[n][k] # Missing
        /\ Undoable(r) /\ TraceAt(r) /\ holder = r
        /\ Named(base[r]) /\ Backed(base[r])
    BY <1>0, <1>1 DEF KeychainInv, SettingAt
  <2>2. /\ n \in Items /\ op[r].secret \in Secrets /\ op[r].secret # Missing
        /\ Gives(op[r]) \subseteq Credentials
    BY <1>1, <2>1, GivenIsItem, StoreAssumption
  <2>3. j \in todo[r] /\ j \in Credentials
    BY <2>1, <2>2, NextIsTodo
  <2>4. /\ keychain' \in [Items -> [Credentials -> Secrets \cup {Missing}]]
        /\ \A p \in Items, k \in Credentials :
              keychain'[p][k] = IF p = n /\ k = j THEN op[r].secret ELSE keychain[p][k]
    BY <1>3, <2>2, <2>3, OneItem, ZenonT(60) DEF KeychainInv
  <2>5. /\ DOMAIN backup'[r] = DOMAIN backup[r] \cup {j} /\ j \notin DOMAIN backup[r]
        /\ backup'[r][j] = BackupOf(n, j, readable)
        /\ \A k \in DOMAIN backup[r] : backup'[r][k] = backup[r][k]
        /\ todo'[r] = todo[r] \ {j}
        /\ DOMAIN todo' = Requests /\ DOMAIN backup' = Requests
        /\ \A s \in Requests \ {r} : backup'[s] = backup[s] /\ todo'[s] = todo[s]
    BY <1>3, <2>1, <2>3 DEF KeychainInv, KeychainShapes
  <2>6. /\ pc'[r] \in {"set", "write"} /\ (pc'[r] = "set" <=> todo'[r] # {})
        /\ \A s \in Requests \ {r} : pc'[s] = pc[s]
    BY <1>3, <2>3, <2>5 DEF Goto, IInv, Shapes
  <2>7. unsure \subseteq unsure' /\ (~readable => <<n, j>> \in unsure')
    BY <1>3
  <2>8. BackupOf(n, j, readable) \in Secrets \cup {Missing}
    BY <2>2, <2>3 DEF BackupOf, KeychainInv, KeychainShapes
  <2>9. ASSUME Lists(file, n, j)
        PROVE  BackupOf(n, j, readable) # Missing \/ <<n, j>> \in unsure'
    <3>1. keychain[n][j] # Missing \/ <<n, j>> \in unsure
      BY <2>9 DEF KeychainInv, Backed
    <3>2. QED
      BY <2>7, <3>1 DEF BackupOf
  <2>10. Undoable(r)'
    <3>1. ASSUME NEW k \in DOMAIN backup'[r]
          PROVE  /\ backup'[r][k] \in Secrets \cup {Missing}
                 /\ Lists(file, n, k) => backup'[r][k] # Missing \/ <<n, k>> \in unsure'
      BY <2>1, <2>5, <2>7, <2>8, <2>9 DEF Undoable
    <3>2. DOMAIN backup'[r] \subseteq Gives(op[r])
      BY <2>1, <2>3, <2>5 DEF Undoable
    <3>3. QED
      BY <1>1, <3>1, <3>2 DEF Undoable
  <2>11. SettingAt(r)'
    <3>1. \A k \in DOMAIN backup'[r] : keychain'[n][k] # Missing
      BY <2>1, <2>2, <2>3, <2>4, <2>5
    <3>2. todo'[r] \subseteq Gives(op[r]) /\ DOMAIN backup'[r] = Gives(op[r]) \ todo'[r]
      BY <2>1, <2>3, <2>5
    <3>3. Named(base[r])'
      BY <1>1, <2>1 DEF Named
    <3>4. ASSUME NEW p, NEW k, Lists(base[r], p, k)
          PROVE  keychain'[p][k] # Missing \/ <<p, k>> \in unsure'
      <4>1. p \in Items /\ k \in Credentials
        BY <2>1, <3>4, ListedIsItem DEF IInv, Shapes
      <4>2. QED
        BY <2>1, <2>2, <2>4, <2>7, <3>4, <4>1 DEF Backed
    <3>5. Backed(base[r])'
      BY <1>1, <3>4 DEF Backed, Lists
    <3>6. QED
      BY <1>1, <2>6, <2>10, <3>1, <3>2, <3>3, <3>5 DEF SettingAt
  <2>12. ForgettingAt(r)'
    BY <2>6 DEF ForgettingAt, Busy
  <2>13. TraceAt(r)'
    <3>1. ASSUME NEW p \in Items, NEW k \in Credentials
          PROVE  \/ <<p, k>> \in unsure'
                 \/ /\ k \in DOMAIN backup'[r] /\ p = n
                    /\ backup'[r][k] = found[r][p][k]
                 \/ /\ ~(k \in DOMAIN backup'[r] /\ p = n)
                    /\ keychain'[p][k] = found[r][p][k]
      <4>1. \/ <<p, k>> \in unsure
            \/ k \in DOMAIN backup[r] /\ p = n /\ backup[r][k] = found[r][p][k]
            \/ ~(k \in DOMAIN backup[r] /\ p = n) /\ keychain[p][k] = found[r][p][k]
        BY <1>1, <2>1 DEF TraceAt, Holding, Unwritten
      <4>2. CASE p = n /\ k = j
        BY <2>5, <2>7, <4>1, <4>2 DEF BackupOf
      <4>3. CASE ~(p = n /\ k = j)
        BY <2>4, <2>5, <2>7, <4>1, <4>3
      <4>4. QED
        BY <4>2, <4>3
    <3>2. QED
      BY <1>1, <3>1 DEF TraceAt
  <2>14. \A s \in Requests \ {r} : SettingAt(s)' /\ ForgettingAt(s)' /\ TraceAt(s)'
    BY <1>0, <1>1, <2>5, <2>6, SettersHold
  <2>15. KeychainShapes'
    BY <1>1, <2>4, <2>5 DEF KeychainInv, KeychainShapes, Named
  <2>16. Backed(file)'
    <3>1. ASSUME NEW p, NEW k, Lists(file, p, k)
          PROVE  keychain'[p][k] # Missing \/ <<p, k>> \in unsure'
      <4>1. p \in Items /\ k \in Credentials
        BY <3>1, ListedIsItem DEF KeychainInv, KeychainShapes, IInv, Shapes
      <4>2. keychain[p][k] # Missing \/ <<p, k>> \in unsure
        BY <3>1 DEF KeychainInv, Backed
      <4>3. QED
        BY <2>2, <2>4, <2>7, <4>1, <4>2
    <3>2. QED
      BY <1>1, <3>1 DEF Backed, Lists
  <2>17. QED
    BY <2>11, <2>12, <2>13, <2>14, <2>15, <2>16 DEF KeychainInv
<1>4. QED
  BY <1>2, <1>3 DEF SetCredential

\* What was there is put back, or the keychain failed and is not sure.
LEMMA RestoreKeychain ==
    ASSUME IInv, KeychainInv, NEW r \in Requests, RestoreCredential(r)
    PROVE  KeychainInv'
<1> DEFINE n == op[r].name
           j == IF "password" \in DOMAIN backup[r] THEN "password" ELSE "username"
<1>1. pc[r] = "undo" /\ UNCHANGED <<file, holder, op, base, todo, found>>
  BY DEF RestoreCredential
<1>2. Undoable(r) /\ TraceAt(r)
  BY <1>1 DEF KeychainInv, SettingAt
<1>3. CASE DOMAIN backup[r] = {} /\ Goto(r, "refused") /\ UNCHANGED <<keychain, backup, unsure>>
  <2>1. pc'[r] = "refused" /\ \A s \in Requests \ {r} : pc'[s] = pc[s]
    BY <1>3 DEF Goto, IInv, Shapes
  <2>2. SettingAt(r)' /\ ForgettingAt(r)'
    BY <1>3, <2>1 DEF SettingAt, ForgettingAt, Busy
  <2>3. TraceAt(r)'
    BY <1>1, <1>2, <1>3, <2>1 DEF TraceAt, Holding, Unwritten
  <2>4. ASSUME NEW s \in Requests \ {r}
        PROVE  SettingAt(s)' /\ ForgettingAt(s)' /\ TraceAt(s)'
    <3>1. Growing /\ Passes(pc[s], pc'[s])
      BY <1>1, <1>3, <2>1 DEF Growing, Lists, Passes
    <3>2. QED
      BY <1>1, <1>3, <2>1, <3>1, Untouched DEF KeychainInv, Holding
  <2>5. KeychainShapes' /\ Backed(file)'
    BY <1>1, <1>3 DEF KeychainInv, KeychainShapes, Named, Backed, Lists
  <2>6. QED
    BY <2>2, <2>3, <2>4, <2>5 DEF KeychainInv
<1>4. ASSUME DOMAIN backup[r] # {}, UNCHANGED pc,
             backup' = [backup EXCEPT ![r] = [k \in DOMAIN @ \ {j} |-> @[k]]],
             \/ keychain' = [keychain EXCEPT ![n][j] = backup[r][j]] /\ UNCHANGED unsure
             \/ unsure' = unsure \cup {<<n, j>>} /\ UNCHANGED keychain
      PROVE  KeychainInv'
  <2>1. /\ DOMAIN backup[r] \subseteq Gives(op[r]) /\ Gives(op[r]) \subseteq Credentials
        /\ n \in Items
    BY <1>1, <1>2, <1>4, GivenIsItem DEF Undoable
  <2>0. Locks(op[r]) /\ holder = r
    BY <1>1, <1>4, <2>1, KeepersLock, SettersHold
  <2>2. j \in DOMAIN backup[r] /\ j \in Credentials /\ backup[r][j] \in Secrets \cup {Missing}
    BY <1>2, <1>4, <2>1 DEF Credentials, Undoable
  <2>3. /\ keychain' \in [Items -> [Credentials -> Secrets \cup {Missing}]]
        /\ \A p \in Items, k \in Credentials :
              ~(p = n /\ k = j) => keychain'[p][k] = keychain[p][k]
        /\ keychain'[n][j] = backup[r][j] \/ <<n, j>> \in unsure'
        /\ unsure \subseteq unsure'
    <3>1. CASE keychain' = [keychain EXCEPT ![n][j] = backup[r][j]] /\ UNCHANGED unsure
      <4>1. PICK m \in Credentials, v \in Secrets \cup {Missing} : m = j /\ v = backup[r][j]
        BY <2>2
      <4>2. keychain' = [keychain EXCEPT ![n][m] = v]
        BY <3>1, <4>1
      <4>3. /\ keychain' \in [Items -> [Credentials -> Secrets \cup {Missing}]]
            /\ \A p \in Items, k \in Credentials :
                  keychain'[p][k] = IF p = n /\ k = m THEN v ELSE keychain[p][k]
        BY <4>2, OneItem, ZenonT(60) DEF KeychainInv
      <4>4. QED
        BY <2>1, <2>2, <3>1, <4>1, <4>3
    <3>2. CASE unsure' = unsure \cup {<<n, j>>} /\ UNCHANGED keychain
      BY <3>2 DEF KeychainInv, KeychainShapes
    <3>3. QED
      BY <1>4, <3>1, <3>2
  <2>4. /\ DOMAIN backup'[r] = DOMAIN backup[r] \ {j}
        /\ \A k \in DOMAIN backup'[r] : backup'[r][k] = backup[r][k]
        /\ DOMAIN backup' = Requests
        /\ \A s \in Requests \ {r} : backup'[s] = backup[s]
    BY <1>4 DEF KeychainInv, KeychainShapes
  <2>5. Undoable(r)'
    <3>1. ASSUME NEW k \in DOMAIN backup'[r]
          PROVE  /\ backup'[r][k] \in Secrets \cup {Missing}
                 /\ Lists(file, n, k) => backup'[r][k] # Missing \/ <<n, k>> \in unsure'
      BY <1>2, <2>3, <2>4 DEF Undoable
    <3>2. DOMAIN backup'[r] \subseteq Gives(op[r])
      BY <1>2, <2>4 DEF Undoable
    <3>3. QED
      BY <1>1, <3>1, <3>2 DEF Undoable
  <2>6. SettingAt(r)' /\ ForgettingAt(r)'
    BY <1>1, <1>4, <2>5 DEF SettingAt, ForgettingAt, Busy
  <2>7. TraceAt(r)'
    <3>1. ASSUME NEW p \in Items, NEW k \in Credentials
          PROVE  \/ <<p, k>> \in unsure'
                 \/ /\ k \in DOMAIN backup'[r] /\ p = n
                    /\ backup'[r][k] = found[r][p][k]
                 \/ /\ ~(k \in DOMAIN backup'[r] /\ p = n)
                    /\ keychain'[p][k] = found[r][p][k]
      <4>1. \/ <<p, k>> \in unsure
            \/ k \in DOMAIN backup[r] /\ p = n /\ backup[r][k] = found[r][p][k]
            \/ ~(k \in DOMAIN backup[r] /\ p = n) /\ keychain[p][k] = found[r][p][k]
        BY <1>1, <1>2, <2>0 DEF TraceAt, Holding, Unwritten
      <4>2. CASE p = n /\ k = j
        BY <2>2, <2>3, <2>4, <4>1, <4>2
      <4>3. CASE ~(p = n /\ k = j)
        BY <2>3, <2>4, <4>1, <4>3
      <4>4. QED
        BY <4>2, <4>3
    <3>2. QED
      BY <1>1, <3>1 DEF TraceAt
  <2>8. \A s \in Requests \ {r} : SettingAt(s)' /\ ForgettingAt(s)' /\ TraceAt(s)'
    BY <1>1, <1>4, <2>0, <2>4, SettersHold
  <2>9. KeychainShapes'
    BY <1>1, <2>3, <2>4 DEF KeychainInv, KeychainShapes, Named
  <2>10. Backed(file)'
    <3>1. ASSUME NEW p, NEW k, Lists(file, p, k)
          PROVE  keychain'[p][k] # Missing \/ <<p, k>> \in unsure'
      <4>1. p \in Items /\ k \in Credentials
        BY <3>1, ListedIsItem DEF KeychainInv, KeychainShapes, IInv, Shapes
      <4>2. keychain[p][k] # Missing \/ <<p, k>> \in unsure
        BY <3>1 DEF KeychainInv, Backed
      <4>3. CASE p = n /\ k = j
        BY <1>2, <2>2, <2>3, <3>1, <4>3 DEF Undoable
      <4>4. CASE ~(p = n /\ k = j)
        BY <2>3, <4>1, <4>2, <4>4
      <4>5. QED
        BY <4>3, <4>4
    <3>2. QED
      BY <1>1, <3>1 DEF Backed, Lists
  <2>11. QED
    BY <2>6, <2>7, <2>8, <2>9, <2>10 DEF KeychainInv
<1>5. QED
  BY <1>3, <1>4 DEF RestoreCredential

\* The new file lists what the one that was loaded did and what was just set; a
\* request without configMu may list again what was removed.
LEMMA WriteKeychain ==
    ASSUME IInv, KeychainInv, NEW r \in Requests, Write(r)
    PROVE  KeychainInv'
<1> DEFINE n == op[r].name
<1>1. pc[r] = "write" /\ UNCHANGED <<keychain, holder, op, base, todo, backup, found>>
  BY DEF Write, inFlight
<1>2. CASE Goto(r, "undo") /\ UNCHANGED <<file, unsure>>
  <2>1. pc'[r] = "undo" /\ \A s \in Requests \ {r} : pc'[s] = pc[s]
    BY <1>2 DEF Goto, IInv, Shapes
  <2>2. \A s \in Requests : Passes(pc[s], pc'[s]) /\ (Holding(s, Unwritten)' => Holding(s, Unwritten))
    BY <1>1, <2>1 DEF Holding, Unwritten, Passes
  <2>3. QED
    BY <1>1, <1>2, <2>2, SilentKeychain
<1>3. CASE /\ file' = copy[r] /\ Goto(r, "store")
           /\ unsure' = IF Slips(op[r]) THEN unsure \cup (Listed(copy[r]) \ Listed(file)) ELSE unsure
  <2>1. pc'[r] = "store" /\ \A s \in Requests \ {r} : pc'[s] = pc[s]
    BY <1>3 DEF Goto, IInv, Shapes
  <2>2. /\ DOMAIN backup[r] = Gives(op[r])
        /\ \A k \in DOMAIN backup[r] : keychain[n][k] # Missing
        /\ Named(base[r]) /\ (Locks(op[r]) => Backed(base[r]))
    BY <1>1 DEF KeychainInv, SettingAt
  <2>3. /\ op[r] \in Operations /\ Shaped(base[r]) /\ op[r].kind # "reload tunnel"
        /\ copy[r] = Makes(op[r], base[r]) /\ Makes(op[r], base[r]) # Refused
    BY <1>1 DEF IInv, Shapes, WriterOK
  <2>4. MadeOf(op[r], base[r], file')
    BY <1>3, <2>3, MakesKeep
  <2>5. \A p, k : Lists(file', p, k) => Lists(base[r], p, k) \/ (p = n /\ k \in Gives(op[r]))
    BY <2>4 DEF MadeOf, Lists
  <2>6. Named(file')
    <3>1. ASSUME NEW p \in DOMAIN file'.vpns, NEW k \in file'.vpns[p].held PROVE p \in Items
      <4>1. Lists(file', p, k)
        BY <3>1 DEF Lists
      <4>2. CASE Lists(base[r], p, k)
        BY <2>2, <2>3, <4>2, ListedIsItem
      <4>3. CASE p = n /\ k \in Gives(op[r])
        BY <1>1, <4>3, GivenIsItem
      <4>4. QED
        BY <2>5, <4>1, <4>2, <4>3
    <3>2. QED
      BY <3>1 DEF Named
  <2>7. SettingAt(r)' /\ TraceAt(r)'
    BY <2>1 DEF SettingAt, TraceAt, Holding, Unwritten
  <2>8. ForgettingAt(r)'
    BY <1>1, <2>1, <2>4 DEF ForgettingAt, MadeOf, Lists
  <2>9. KeychainShapes'
    BY <1>1, <2>6 DEF KeychainInv, KeychainShapes, Named
  <2>10. CASE Locks(op[r])
    <3>1. UNCHANGED unsure
      BY <1>3, <2>10 DEF Locks
    <3>2. \A s \in Requests \ {r} : SettingAt(s)' /\ ForgettingAt(s)' /\ TraceAt(s)'
      BY <1>1, <2>1, <2>10, SettersHold
    <3>3. ASSUME NEW p, NEW k, Lists(file', p, k)
          PROVE  keychain[p][k] # Missing \/ <<p, k>> \in unsure
      BY <2>2, <2>5, <2>10, <3>3 DEF Backed
    <3>4. Backed(file)'
      BY <1>1, <3>1, <3>3 DEF Backed, Lists
    <3>5. QED
      BY <2>7, <2>8, <2>9, <3>2, <3>4 DEF KeychainInv
  <2>11. CASE Slips(op[r])
    <3>1. \A p, k : Lists(file', p, k) => Lists(file, p, k) \/ <<p, k>> \in unsure'
      <4>1. ASSUME NEW cfg, NEW p, NEW k
            PROVE  <<p, k>> \in Listed(cfg) <=> Lists(cfg, p, k)
        BY DEF Listed, Lists
      <4>2. QED
        BY <1>3, <2>11, <4>1
    <3>2. Growing
      BY <1>3, <2>11, <3>1 DEF Growing
    <3>3. ASSUME NEW s \in Requests \ {r}
          PROVE  SettingAt(s)' /\ ForgettingAt(s)' /\ TraceAt(s)'
      BY <1>1, <2>1, <3>2, Untouched DEF KeychainInv, Holding, Passes
    <3>4. \A p, k : Lists(file, p, k) => keychain[p][k] # Missing \/ <<p, k>> \in unsure
      BY DEF KeychainInv, Backed
    <3>5. \A p, k : Lists(file', p, k) => keychain[p][k] # Missing \/ <<p, k>> \in unsure'
      BY <3>2, <3>4 DEF Growing
    <3>6. Backed(file)'
      BY <1>1, <3>5 DEF Backed, Lists
    <3>7. QED
      BY <2>7, <2>8, <2>9, <3>3, <3>6 DEF KeychainInv
  <2>12. QED
    BY <2>3, <2>10, <2>11 DEF Locks
<1>4. QED
  BY <1>2, <1>3 DEF Write, AfterFailedSave

\* A credential is removed once its profile has left the file.
LEMMA ForgetKeychain ==
    ASSUME IInv, KeychainInv, NEW r \in Requests, ForgetCredential(r)
    PROVE  KeychainInv'
<1> DEFINE n == op[r].name
<1>1. pc[r] = "forget" /\ UNCHANGED <<file, holder, op, base, backup, unsure, found>>
  BY DEF ForgetCredential, history
<1>2. CASE todo[r] = {}
  <2>1. Goto(r, "done") /\ UNCHANGED <<keychain, todo>>
    BY <1>2 DEF ForgetCredential
  <2>2. pc'[r] = "done" /\ \A s \in Requests \ {r} : pc'[s] = pc[s]
    BY <2>1 DEF Goto, IInv, Shapes
  <2>3. \A s \in Requests : Passes(pc[s], pc'[s]) /\ (Holding(s, Unwritten)' => Holding(s, Unwritten))
    BY <1>1, <2>2 DEF Holding, Unwritten, Passes
  <2>4. QED
    BY <1>1, <2>1, <2>3, SilentKeychain
<1>3. CASE todo[r] # {}
  <2>1. /\ UNCHANGED pc /\ todo' = [todo EXCEPT ![r] = @ \ {NextSecret(r)}]
        /\ keychain' = [keychain EXCEPT ![n][NextSecret(r)] = Missing] \/ UNCHANGED keychain
    BY <1>3 DEF ForgetCredential
  <2>2. op[r].kind = "delete vpn" /\ \A k : Lists(file, n, k) => <<n, k>> \in unsure
    BY <1>1, <1>3 DEF KeychainInv, ForgettingAt
  <2>3. holder = r /\ \A s \in Requests \ {r} : todo'[s] = todo[s]
    BY <1>1, <2>1, <2>2, KeepersLock, SettersHold DEF KeychainInv, KeychainShapes
  <2>4. /\ keychain' \in [Items -> [Credentials -> Secrets \cup {Missing}]]
        /\ \A p \in Items, k \in Credentials : p # n => keychain'[p][k] = keychain[p][k]
    <3>1. NextSecret(r) \in Credentials
      BY DEF NextSecret, Credentials
    <3>2. QED
      BY <2>1, <3>1, OneItem DEF KeychainInv, KeychainShapes
  <2>5. SettingAt(r)' /\ ForgettingAt(r)' /\ TraceAt(r)'
    BY <1>1, <2>1, <2>2 DEF SettingAt, ForgettingAt, TraceAt, Holding, Unwritten, Lists
  <2>6. ASSUME NEW s \in Requests \ {r}
        PROVE  SettingAt(s)' /\ ForgettingAt(s)' /\ TraceAt(s)'
    <3>1. SettingAt(s) /\ ForgettingAt(s)
      BY DEF KeychainInv
    <3>2. QED
      BY <1>1, <2>1, <2>3, <3>1, Bystander
  <2>7. KeychainShapes'
    BY <1>1, <2>1, <2>4 DEF KeychainInv, KeychainShapes, Named
  <2>8. Backed(file)'
    <3>1. ASSUME NEW p, NEW k, Lists(file, p, k)
          PROVE  keychain'[p][k] # Missing \/ <<p, k>> \in unsure
      <4>1. p \in Items /\ k \in Credentials
        BY <3>1, ListedIsItem DEF KeychainInv, KeychainShapes, IInv, Shapes
      <4>2. keychain[p][k] # Missing \/ <<p, k>> \in unsure
        BY <3>1 DEF KeychainInv, Backed
      <4>3. QED
        BY <2>2, <2>4, <3>1, <4>1, <4>2
    <3>2. QED
      BY <1>1, <3>1 DEF Backed, Lists
  <2>9. QED
    BY <2>5, <2>6, <2>7, <2>8 DEF KeychainInv
<1>4. QED
  BY <1>2, <1>3

\* Edits by hand leave the profiles; who dies leaves no request.
LEMMA WorldKeychain ==
    ASSUME IInv, KeychainInv, (\E e \in HandEdits : HandEdit(e)) \/ Crash \/ Boot
    PROVE  KeychainInv'
<1>1. CASE \E e \in HandEdits : HandEdit(e)
  <2>1. UNCHANGED <<keychain, unsure, op, base, todo, backup, found, pc, holder>>
    BY <1>1 DEF HandEdit, inFlight
  <2>2. file'.vpns = file.vpns
    BY <1>1 DEF HandEdit, IInv, Shapes, Shaped
  <2>3. QED
    BY <2>1, <2>2, SilentKeychain DEF Holding, Passes
<1>2. CASE Crash
  <2>1. UNCHANGED <<file, keychain, unsure>>
    BY <1>2 DEF Crash
  <2>2. /\ pc' = [r \in Requests |-> "idle"] /\ backup' = [r \in Requests |-> NoBackup]
        /\ todo' = [r \in Requests |-> {}] /\ found' = [r \in Requests |-> FirstKeychain]
    BY <1>2 DEF Crash
  <2>3. ASSUME NEW s \in Requests
        PROVE  SettingAt(s)' /\ ForgettingAt(s)' /\ TraceAt(s)'
    BY <2>2 DEF SettingAt, ForgettingAt, TraceAt, Holding, Unwritten, NoBackup, Busy
  <2>4. KeychainShapes' /\ Backed(file)'
    BY <2>1, <2>2 DEF KeychainInv, KeychainShapes, Named, Backed, Lists
  <2>5. QED
    BY <2>3, <2>4 DEF KeychainInv
<1>3. CASE Boot
  <2>1. UNCHANGED <<file, keychain, unsure, op, base, todo, backup, found, pc, holder>>
    BY <1>3 DEF Boot, inFlight
  <2>2. QED
    BY <2>1, SilentKeychain DEF Holding, Passes
<1>4. QED
  BY <1>1, <1>2, <1>3

LEMMA NextKeychain == IInv /\ KeychainInv /\ [Next]_vars => KeychainInv'
<1> SUFFICES ASSUME IInv, KeychainInv, [Next]_vars PROVE KeychainInv'
  OBVIOUS
<1>1. CASE UNCHANGED vars
  BY <1>1, SilentKeychain DEF vars, inFlight, history, Holding, Passes
<1>2. ASSUME NEW r \in Requests, StoreEngine(r) \/ UpdateRunning(r) \/ BuildGuards(r) \/ SetSwitch(r)
      PROVE  KeychainInv'
  <2>1. UNCHANGED <<file, keychain, unsure, op, base, todo, backup, found, holder>>
    BY <1>2 DEF StoreEngine, UpdateRunning, BuildGuards, Rebuild, SetSwitch, inFlight
  <2>2. PICK l \in {"update", "guards", "profiles", "done"} : Goto(r, l) /\ Passes(pc[r], l)
    BY <1>2 DEF StoreEngine, UpdateRunning, BuildGuards, SetSwitch, Passes
  <2>3. pc'[r] = l /\ \A s \in Requests \ {r} : pc'[s] = pc[s]
    BY <2>2 DEF Goto, IInv, Shapes
  <2>4. \A s \in Requests : Passes(pc[s], pc'[s]) /\ (Holding(s, Unwritten)' => Holding(s, Unwritten))
    BY <2>1, <2>2, <2>3 DEF Holding, Unwritten, Passes
  <2>5. QED
    BY <2>1, <2>4, SilentKeychain
<1>3. ASSUME NEW r \in Requests, Step(r)
      PROVE  KeychainInv'
  BY <1>2, <1>3, DoorKeychain, LoadKeychain, SetKeychain, RestoreKeychain, WriteKeychain,
     ProfilesKeychain, ForgetKeychain DEF Step
<1>4. QED
  BY <1>1, <1>3, WorldKeychain DEF Next

LEMMA KeychainHolds == Spec => []KeychainInv
<1>1. Init => IInv /\ KeychainInv
  BY InitIInv, InitKeychain
<1>2. IInv /\ KeychainInv /\ [Next]_vars => (IInv /\ KeychainInv)'
  BY NextIInv, NextKeychain
<1>3. QED
  BY <1>1, <1>2, PTL DEF Spec

\* What the file says the keychain holds is there, whatever request was refused,
\* failed half-way or died with the daemon, and whatever requests were under way
\* without configMu; only what one of those has listed again may be missing
\* (handlers_vpn.go saveVPNProfile).
THEOREM ListedIsHeld == Spec => []CredentialsBacked
<1>1. KeychainInv => CredentialsBacked
  BY DEF KeychainInv, Backed, Lists, CredentialsBacked
<1>2. QED
  BY <1>1, KeychainHolds, PTL

\* A request that was turned down leaves the keychain as it found it
\* (handlers_vpn.go restoreCredentials).
THEOREM RefusedLeavesKeychain == Spec => []RejectedLeavesNoTrace
<1>1. KeychainInv => RejectedLeavesNoTrace
  <2>1. ASSUME KeychainInv, NEW r \in Requests, pc[r] = "refused", holder = r,
               NEW p \in Items, NEW k \in Credentials
        PROVE  keychain[p][k] = found[r][p][k] \/ <<p, k>> \in unsure
    BY <2>1 DEF KeychainInv, SettingAt, TraceAt, Holding, Unwritten
  <2>2. QED
    BY <2>1 DEF RejectedLeavesNoTrace
<1>2. QED
  BY <1>1, KeychainHolds, PTL
----------------------------------------------------------------------------
(* Naturals, sets and scans *)

\* A set of naturals that is not empty has a least element.
LEMMA LeastNatural ==
    ASSUME NEW S, S \subseteq Nat, S # {}
    PROVE  \E x \in S : \A y \in S : x <= y
<1> DEFINE T == {1..n : n \in S}
<1>1. T \subseteq FiniteSubsetsOf(Nat) /\ T # {}
  <2>1. ASSUME NEW n \in S PROVE 1..n \in FiniteSubsetsOf(Nat)
    <3>1. IsFiniteSet(1..n) /\ 1..n \subseteq Nat
      BY FS_Interval
    <3>2. QED
      BY <3>1 DEF FiniteSubsetsOf
  <2>2. QED
    BY <2>1
<1>2. PICK x \in T : \A y \in T : ~(<<y, x>> \in StrictSubsetOrdering(Nat))
  <2> HIDE DEF T
  <2>1. QED
    BY <1>1, FS_StrictSubsetOrderingWellFounded, WFMin
<1>3. PICK n \in S : x = 1..n
  BY <1>2
<1>4. ASSUME NEW m \in S PROVE n <= m
  <2>1. 1..m \in T /\ n \in Nat /\ m \in Nat
    BY <1>3
  <2>2. ~(<<1..m, 1..n>> \in StrictSubsetOrdering(Nat))
    BY <1>2, <1>3, <2>1
  <2>3. ASSUME m < n PROVE FALSE
    <3>1. 1..m \subseteq 1..n /\ n \in 1..n /\ n \notin 1..m
      BY <2>1, <2>3
    <3>2. QED
      BY <2>1, <2>2, <3>1 DEF StrictSubsetOrdering
  <2>4. QED
    BY <2>1, <2>3
<1>5. QED
  BY <1>4

\* What holds of 0 and of the successor of each number up to n holds of them all.
LEMMA Upwards ==
    ASSUME NEW n \in Nat, NEW S, 0 \in S,
           \A k \in 0..n : k \in S /\ k < n => k + 1 \in S
    PROVE  0..n \subseteq S
<1> DEFINE T == (0..n) \ S
<1> SUFFICES ASSUME T # {} PROVE FALSE
  OBVIOUS
<1>1. PICK x \in T : \A y \in T : x <= y
  <2> HIDE DEF T
  <2>1. T \subseteq Nat
    BY DEF T
  <2>2. QED
    BY <2>1, LeastNatural
<1>2. x \in 0..n /\ x # 0 /\ x \notin S
  BY <1>1
<1>3. x - 1 \in 0..n /\ x - 1 < n
  BY <1>2
<1>4. x - 1 \in S
  BY <1>1, <1>2, <1>3
<1>5. (x - 1) + 1 \in S
  BY <1>3, <1>4
<1>6. QED
  BY <1>2, <1>5

\* Function f is a at 0, and goes on from each number to the next as g says.
Scans(f, n, V, a, g) ==
    f \in [0..n -> V] /\ f[0] = a /\ \A k \in 1..n : f[k] = g[<<k, f[k - 1]>>]

LEMMA ScanExists ==
    ASSUME NEW n \in Nat, NEW V, NEW a \in V, NEW g \in [(1..n) \X V -> V]
    PROVE  \E f : Scans(f, n, V, a, g)
<1> USE DEF Scans
<1> DEFINE Is(m, f) == Scans(f, m, V, a, g)
           S == {m \in 0..n : \E f : Is(m, f)}
<1>1. 0 \in S
  <2> DEFINE z == [k \in 0..0 |-> a]
  <2>1. Is(0, z)
    OBVIOUS
  <2>2. \E f : Is(0, f)
    <3> HIDE DEF Is, z
    <3>1. QED
      BY <2>1
  <2>3. QED
    <3> HIDE DEF Is
    <3>1. QED
      BY <2>2
<1>2. ASSUME NEW m \in 0..n, m \in S, m < n PROVE m + 1 \in S
  <2>1. PICK f : Is(m, f)
    BY <1>2
  <2>2. m + 1 \in 1..n /\ f[m] \in V
    BY <1>2, <2>1
  <2> DEFINE h == [k \in 0..(m + 1) |-> IF k = m + 1 THEN g[<<m + 1, f[m]>>] ELSE f[k]]
  <2>3. h \in [0..(m + 1) -> V]
    BY <2>1, <2>2
  <2>4. h[0] = a /\ h[m + 1] = g[<<m + 1, h[m]>>]
    <3>1. 0 # m + 1 /\ m # m + 1 /\ {0, m, m + 1} \subseteq 0..(m + 1)
      BY <1>2
    <3>2. h[0] = f[0] /\ h[m] = f[m] /\ h[m + 1] = g[<<m + 1, f[m]>>]
      BY <3>1
    <3>3. QED
      BY <2>1, <3>2
  <2>5. ASSUME NEW k \in 1..(m + 1) PROVE h[k] = g[<<k, h[k - 1]>>]
    <3>1. CASE k = m + 1
      BY <2>4, <3>1
    <3>2. CASE k # m + 1
      <4>1. k \in 1..m /\ k - 1 \in 0..m
        BY <3>2
      <4>2. h[k] = f[k] /\ h[k - 1] = f[k - 1]
        BY <4>1
      <4>3. QED
        BY <2>1, <4>1, <4>2
    <3>3. QED
      BY <3>1, <3>2
  <2>6. Is(m + 1, h)
    <3> HIDE DEF h
    <3>1. QED
      BY <2>3, <2>4, <2>5
  <2>7. \E f1 : Is(m + 1, f1)
    <3> HIDE DEF h
    <3>1. QED
      BY <2>6, Zenon
  <2>8. QED
    <3> HIDE DEF Is
    <3>1. QED
      BY <2>2, <2>7
<1>3. n \in S
  <2> HIDE DEF S
  <2>1. 0..n \subseteq S
    BY <1>1, <1>2, Upwards
  <2>2. QED
    BY <2>1
<1>4. PICK f : Is(n, f)
  BY <1>3
<1>5. QED
  BY <1>4

\* The greatest of integers that have a bound.
LEMMA MaximumIs ==
    ASSUME NEW b \in Int, NEW S, S \subseteq Int, S # {}, \A x \in S : x <= b
    PROVE  Maximum(S) \in S /\ \A y \in S : y <= Maximum(S)
<1> DEFINE T == {b - x : x \in S}
<1>1. T \subseteq Nat /\ T # {}
  <2>1. \A x \in S : b - x \in Nat
    OBVIOUS
  <2>2. QED
    BY <2>1
<1>2. PICK t \in T : \A u \in T : t <= u
  <2> HIDE DEF T
  <2>1. QED
    BY <1>1, LeastNatural
<1>3. PICK x \in S : t = b - x
  BY <1>2
<1>4. \A y \in S : y <= x
  BY <1>2, <1>3
<1>5. QED
  BY <1>4 DEF Maximum

\* Of two different things there is more than one.
LEMMA MoreThanOne ==
    ASSUME NEW S, IsFiniteSet(S), NEW x \in S, NEW y \in S, x # y
    PROVE  Cardinality(S) > 1
<1>1. Cardinality({x} \cup {y}) = 2
  <2>1. IsFiniteSet({x}) /\ Cardinality({x}) = 1 /\ y \notin {x}
    BY FS_Singleton
  <2>2. Cardinality({x} \cup {y}) = Cardinality({x}) + 1
    BY <2>1, FS_AddElement, Zenon
  <2>3. QED
    BY <2>1, <2>2
<1>2. Cardinality({x} \cup {y}) <= Cardinality(S)
  BY FS_Subset
<1>3. Cardinality(S) \in Nat
  BY FS_CardinalityType
<1>4. QED
  BY <1>1, <1>2, <1>3
----------------------------------------------------------------------------
(* One engine *)

\* A sequence of rules that the file may hold.
Orders(e) == /\ Len(e) \in Nat /\ DOMAIN e = 1..Len(e)
             /\ \A k \in DOMAIN e : e[k].rule \in PolicyRules

LEMMA RuleShape ==
    ASSUME NEW rule \in PolicyRules
    PROVE  rule # NoMatch /\ \A n \in rule.ranges : n \in Networks /\ n.len \in 0..Width
BY RulesAssumption DEF Networks

\* The engine of a configuration has that configuration's rules.
LEMMA EngineOrders ==
    ASSUME NEW cfg, cfg.policies \in Seq(PolicyRules), NEW e \in Engines(cfg)
    PROVE  Orders(e)
<1> DEFINE n == Len(cfg.policies)
<1>1. n \in Nat /\ \A i \in 1..n : cfg.policies[i] \in PolicyRules
  BY ElementOfSeq, LenProperties
<1>2. PICK s \in [1..n -> 1..n] : e = [k \in 1..n |-> Compiled(cfg, s[k])]
  BY DEF Engines
<1>3. \A k \in 1..n : e[k] = Compiled(cfg, s[k]) /\ e[k].rule = cfg.policies[s[k]]
  BY <1>2 DEF Compiled
<1>4. Len(e) = n /\ DOMAIN e = 1..n
  <2> DEFINE entries == {e[k] : k \in 1..n}
  <2>1. e \in [1..n -> entries]
    BY <1>2
  <2>2. e \in Seq(entries)
    <3> HIDE DEF n, entries
    <3>1. QED
      BY <1>1, <2>1, SeqDef
  <2>3. QED
    BY <1>1, <1>2, <2>2, LenProperties
<1>5. QED
  BY <1>1, <1>2, <1>3, <1>4 DEF Orders

\* The first of some rules.
LEMMA FirstIs ==
    ASSUME NEW e, Orders(e), NEW hits, hits \subseteq DOMAIN e, hits # {}
    PROVE  \E k \in hits : /\ \A j \in hits : k <= j
                           /\ FirstThat(e, hits) = e[k].rule
                           /\ FirstThat(e, hits) # NoMatch
<1>1. hits \subseteq Nat
  BY DEF Orders
<1>2. PICK k \in hits : \A j \in hits : k <= j
  BY <1>1, LeastNatural
<1>3. (CHOOSE i \in hits : \A j \in hits : i <= j) = k
  BY <1>1, <1>2
<1>4. FirstThat(e, hits) = e[k].rule
  BY <1>3 DEF FirstThat
<1>5. e[k].rule # NoMatch
  BY RuleShape DEF Orders
<1>6. QED
  BY <1>2, <1>4, <1>5

\* Network n of rule j is the longest of the first k rules' that hold a, and the
\* first of those.
Wins(e, a, k, j, n) ==
    /\ Contains(n, a)
    /\ \A i \in 1..k : \A m \in e[i].rule.ranges :
          Contains(m, a) => m.len <= n.len /\ (m.len = n.len => j <= i)

\* The best of the first k rules.
Best(e, a, k, b) ==
    \/ b = NoBest /\ \A i \in 1..k : \A m \in e[i].rule.ranges : ~Contains(m, a)
    \/ \E j \in 1..k : \E n \in e[j].rule.ranges :
          Wins(e, a, k, j, n) /\ b = [rule |-> e[j].rule, net |-> n]

\* The networks of a rule that hold a and are better than the best so far.
Found(rule, a, b) == {n \in rule.ranges : Contains(n, a) /\ Better(n, b)}

\* One of the longest of them is taken, if there are any.
LEMMA CandidateIs ==
    ASSUME NEW rule \in PolicyRules, NEW a, NEW b
    PROVE  \/ Found(rule, a, b) = {} /\ Candidate(rule, a, b) = b
           \/ \E n \in Found(rule, a, b) :
                 /\ Candidate(rule, a, b) = [rule |-> rule, net |-> n]
                 /\ \A m \in Found(rule, a, b) : m.len <= n.len
<1> DEFINE better == Found(rule, a, b)
           lens == {n.len : n \in better}
<1>1. \A n \in better : n.len \in 0..Width
  BY RuleShape DEF Found
<1>2. CASE better = {}
  BY <1>2 DEF Candidate, Found
<1>3. CASE better # {}
  <2>1. Width \in Int /\ lens \subseteq Int /\ lens # {} /\ \A l \in lens : l <= Width
    BY <1>1, <1>3, EngineAssumption
  <2>2. Maximum(lens) \in lens /\ \A l \in lens : l <= Maximum(lens)
    <3> HIDE DEF lens
    <3>1. QED
      BY <2>1, MaximumIs
  <2>3. \E n \in better : n.len = Maximum(lens) /\ Candidate(rule, a, b) = [rule |-> rule, net |-> n]
    BY <1>3, <2>2 DEF Candidate, Found
  <2>4. \A n \in better : n.len <= Maximum(lens)
    BY <2>2
  <2>5. QED
    <3> HIDE DEF lens
    <3>1. QED
      BY <2>3, <2>4
<1>4. QED
  BY <1>2, <1>3

\* The better of network n and the best so far.
LEMMA BestStep ==
    ASSUME NEW e, Orders(e), NEW a, NEW k \in 1..Len(e), NEW b, Best(e, a, k - 1, b)
    PROVE  Best(e, a, k, Candidate(e[k].rule, a, b))
<1> DEFINE rule == e[k].rule
           better == Found(rule, a, b)
           new == Candidate(rule, a, b)
<1>1. rule \in PolicyRules /\ Width \in Int
  BY EngineAssumption DEF Orders
<1>2. rule # NoMatch /\ \A n \in rule.ranges : n.len \in 0..Width
  BY <1>1, RuleShape
<1>3. \A i \in 1..k : i = k \/ i \in 1..(k - 1)
  BY DEF Orders
<1>4. \A i \in 1..k : e[i].rule \in PolicyRules /\ \A m \in e[i].rule.ranges : m.len \in 0..Width
  BY RuleShape DEF Orders
<1>5. \A i \in 1..(k - 1) : i \in 1..k
  BY DEF Orders
<1>6. b = NoBest => \A i \in 1..(k - 1) : \A m \in e[i].rule.ranges : ~Contains(m, a)
  <2>1. \A i \in 1..(k - 1) : e[i].rule # NoMatch
    BY <1>4, <1>5, RuleShape
  <2>2. ASSUME b = NoBest, NEW j \in 1..(k - 1), NEW n, b = [rule |-> e[j].rule, net |-> n]
        PROVE  FALSE
    <3>1. b.rule = NoMatch
      BY <2>2 DEF NoBest
    <3>2. b.rule = e[j].rule
      BY <2>2
    <3>3. QED
      BY <2>1, <3>1, <3>2
  <2>3. QED
    BY <2>2 DEF Best
<1>7. k \in 1..k
  BY DEF Orders
<1>8. CASE better = {}
  <2>1. new = b
    BY <1>1, <1>8, CandidateIs
  <2>2. CASE b = NoBest
    <3>1. \A n \in rule.ranges : ~Contains(n, a)
      BY <1>8, <2>2 DEF Found, Better, NoBest
    <3>2. \A i \in 1..k : \A m \in e[i].rule.ranges : ~Contains(m, a)
      BY <1>3, <1>6, <2>2, <3>1
    <3>3. QED
      BY <2>1, <2>2, <3>2 DEF Best
  <2>3. ASSUME NEW j \in 1..(k - 1), NEW n \in e[j].rule.ranges, Wins(e, a, k - 1, j, n),
               b = [rule |-> e[j].rule, net |-> n]
        PROVE  Best(e, a, k, new)
    <3>1. b.rule # NoMatch /\ b.net = n /\ n.len \in 0..Width /\ j \in 1..k
      BY <2>3, <1>4, <1>5, RuleShape
    <3>2. \A m \in rule.ranges : Contains(m, a) => m.len <= n.len
      BY <1>2, <1>8, <3>1 DEF Found, Better
    <3>3. Wins(e, a, k, j, n)
      BY <1>3, <2>3, <3>1, <3>2 DEF Wins
    <3>4. QED
      BY <2>1, <2>3, <3>1, <3>3 DEF Best
  <2>4. QED
    BY <2>2, <2>3 DEF Best
<1>9. CASE better # {}
  <2>1. PICK n \in better : new = [rule |-> rule, net |-> n] /\ \A m \in better : m.len <= n.len
    BY <1>1, <1>9, CandidateIs
  <2>2. n \in rule.ranges /\ Contains(n, a) /\ Better(n, b) /\ n.len \in 0..Width
    BY <1>2 DEF Found
  <2>3. ASSUME NEW i \in 1..(k - 1), NEW m \in e[i].rule.ranges, Contains(m, a)
        PROVE  m.len < n.len
    <3>1. b # NoBest
      BY <1>6, <2>3
    <3>2. PICK j \in 1..(k - 1) : \E l \in e[j].rule.ranges :
             Wins(e, a, k - 1, j, l) /\ b = [rule |-> e[j].rule, net |-> l]
      BY <3>1 DEF Best
    <3>3. PICK l \in e[j].rule.ranges :
             Wins(e, a, k - 1, j, l) /\ b = [rule |-> e[j].rule, net |-> l]
      BY <3>2
    <3>4. b.rule # NoMatch /\ b.net = l
      BY <3>3, <1>4, <1>5, RuleShape
    <3>5. l.len < n.len /\ m.len <= l.len
      BY <2>2, <2>3, <3>3, <3>4 DEF Better, Wins
    <3>6. m.len \in Int /\ l.len \in Int
      BY <1>4, <1>5
    <3>7. QED
      BY <2>2, <3>5, <3>6
  <2>4. ASSUME NEW m \in rule.ranges, Contains(m, a) PROVE m.len <= n.len
    <3>1. CASE m \in better
      BY <2>1, <3>1
    <3>2. CASE m \notin better
      <4>1. b.rule # NoMatch /\ ~(m.len > b.net.len)
        BY <2>4, <3>2 DEF Found, Better
      <4>2. PICK j \in 1..(k - 1) :
               \E l \in e[j].rule.ranges : b = [rule |-> e[j].rule, net |-> l]
        BY <4>1 DEF Best, NoBest
      <4>3. PICK l \in e[j].rule.ranges : b = [rule |-> e[j].rule, net |-> l]
        BY <4>2
      <4>4. l.len \in Int /\ m.len \in Int
        BY <1>2, <1>4, <1>5
      <4>5. QED
        BY <2>2, <4>1, <4>3, <4>4 DEF Better
    <3>3. QED
      BY <3>1, <3>2
  <2>5. Wins(e, a, k, k, n)
    <3>1. ASSUME NEW i \in 1..k, NEW m \in e[i].rule.ranges, Contains(m, a)
          PROVE  m.len <= n.len /\ (m.len = n.len => k <= i)
      <4>1. CASE i = k
        BY <2>4, <3>1, <4>1
      <4>2. CASE i # k
        <5>1. m.len < n.len
          BY <1>3, <2>3, <3>1, <4>2
        <5>2. m.len \in Int /\ n.len \in Int
          BY <1>4, <2>2
        <5>3. QED
          BY <5>1, <5>2
      <4>3. QED
        BY <4>1, <4>2
    <3>2. QED
      BY <2>2, <3>1 DEF Wins
  <2>6. QED
    BY <1>7, <2>1, <2>2, <2>5 DEF Best
<1>10. QED
  BY <1>8, <1>9

\* What `explain` finds for an address is the best of all.
LEMMA ResolveIPIsBest ==
    ASSUME NEW e, Orders(e), NEW a
    PROVE  Best(e, a, Len(e), ResolveIP(e, a))
<1> DEFINE n == Len(e)
           V == {NoBest} \cup {[rule |-> r, net |-> m] : r \in PolicyRules, m \in Networks}
           g == [p \in (1..n) \X V |-> Candidate(e[p[1]].rule, a, p[2])]
           Is(f) == f = [k \in 0..n |-> IF k = 0 THEN NoBest
                                        ELSE Candidate(e[k].rule, a, f[k - 1])]
           scan == CHOOSE f : Is(f)
<1>1. n \in Nat /\ NoBest \in V
  BY DEF Orders
<1>2. g \in [(1..n) \X V -> V]
  <2>1. ASSUME NEW k \in 1..n, NEW b \in V PROVE Candidate(e[k].rule, a, b) \in V
    <3>1. e[k].rule \in PolicyRules /\ e[k].rule.ranges \subseteq Networks
      BY RulesAssumption DEF Orders
    <3>2. QED
      BY <3>1, CandidateIs DEF Found
  <2>2. QED
    <3> HIDE DEF V
    <3>1. QED
      BY <2>1
<1>3. PICK f : Scans(f, n, V, NoBest, g)
  <2> HIDE DEF V, g, n
  <2>1. QED
    BY <1>1, <1>2, ScanExists
<1>4. Is(f)
  <2>1. ASSUME NEW k \in 0..n, k # 0 PROVE f[k] = Candidate(e[k].rule, a, f[k - 1])
    <3>1. k \in 1..n /\ k - 1 \in 0..n
      BY <1>1, <2>1
    <3>2. f[k - 1] \in V
      BY <1>3, <3>1 DEF Scans
    <3>3. QED
      <4> HIDE DEF V, n
      <4>1. QED
        BY <1>3, <3>1, <3>2 DEF Scans
  <2>2. QED
    <3> HIDE DEF V, g, n
    <3>1. QED
      BY <1>3, <2>1 DEF Scans
<1>5. Is(scan)
  <2> HIDE DEF Is
  <2>1. QED
    BY <1>4
<1>6. ResolveIP(e, a) = scan[n]
  BY DEF ResolveIP
<1> HIDE DEF scan
<1>7. scan[0] = NoBest /\ \A k \in 1..n : scan[k] = Candidate(e[k].rule, a, scan[k - 1])
  BY <1>1, <1>5
<1> DEFINE S == {k \in 0..n : Best(e, a, k, scan[k])}
<1>8. 0 \in S
  BY <1>1, <1>7 DEF Best
<1>9. ASSUME NEW k \in 0..n, k \in S, k < n PROVE k + 1 \in S
  <2>1. k + 1 \in 1..Len(e) /\ (k + 1) - 1 = k
    BY <1>1, <1>9
  <2>2. Best(e, a, (k + 1) - 1, scan[k])
    BY <1>9, <2>1
  <2>3. Best(e, a, k + 1, Candidate(e[k + 1].rule, a, scan[k]))
    BY <2>1, <2>2, BestStep
  <2>4. QED
    BY <1>7, <2>1, <2>3
<1>10. n \in S
  <2> HIDE DEF S
  <2>1. 0..n \subseteq S
    BY <1>1, <1>8, <1>9, Upwards, SMTT(60)
  <2>2. QED
    BY <1>1, <2>1
<1>11. QED
  BY <1>6, <1>10
----------------------------------------------------------------------------
(* The places that answer *)

\* `explain` goes by the longest network.
LEMMA Longest == Orders(engine) => LongestPrefixWins
<1> SUFFICES ASSUME Orders(engine), NEW a \in Addresses
             PROVE  LET hits == {h \in (DOMAIN engine) \X Networks :
                                   h[2] \in engine[h[1]].rule.ranges /\ Contains(h[2], a)}
                        longest == {h \in hits : \A g \in hits : g[2].len <= h[2].len}
                        first == {h \in longest : \A g \in longest : h[1] <= g[1]}
                    IN  IF hits = {} THEN ResolveIP(engine, a).rule = NoMatch
                        ELSE \E h \in first :
                               ResolveIP(engine, a) = [rule |-> engine[h[1]].rule, net |-> h[2]]
  BY DEF LongestPrefixWins
<1> DEFINE hits == {h \in (DOMAIN engine) \X Networks :
                      h[2] \in engine[h[1]].rule.ranges /\ Contains(h[2], a)}
           longest == {h \in hits : \A g \in hits : g[2].len <= h[2].len}
           first == {h \in longest : \A g \in longest : h[1] <= g[1]}
           answer == ResolveIP(engine, a)
           n == Len(engine)
<1>1. Best(engine, a, n, answer)
  BY ResolveIPIsBest
<1>2. DOMAIN engine = 1..n /\ n \in Nat
  BY DEF Orders
<1>3. \A k \in 1..n : \A m \in engine[k].rule.ranges : m \in Networks /\ m.len \in 0..Width
  BY RuleShape DEF Orders
<1>4. CASE answer = NoBest /\ \A i \in 1..n : \A m \in engine[i].rule.ranges : ~Contains(m, a)
  <2>1. hits = {}
    BY <1>2, <1>4
  <2>2. answer.rule = NoMatch
    BY <1>4 DEF NoBest
  <2>3. QED
    BY <2>1, <2>2
<1>5. ASSUME NEW j \in 1..n, NEW m \in engine[j].rule.ranges, Wins(engine, a, n, j, m),
             answer = [rule |-> engine[j].rule, net |-> m]
      PROVE  \E h \in first : answer = [rule |-> engine[h[1]].rule, net |-> h[2]]
  <2> DEFINE best == <<j, m>>
  <2>1. best \in hits
    BY <1>2, <1>3, <1>5 DEF Wins
  <2>2. ASSUME NEW h \in hits
        PROVE  /\ h[2].len <= m.len /\ (h[2].len = m.len => j <= h[1])
               /\ h[2].len \in 0..Width /\ m.len \in 0..Width
    BY <1>2, <1>3, <1>5 DEF Wins
  <2>3. best \in longest
    BY <2>1, <2>2
  <2>4. ASSUME NEW h \in longest PROVE j <= h[1]
    <3>1. h \in hits /\ m.len <= h[2].len
      BY <2>1
    <3>2. h[2].len = m.len
      BY <2>2, <3>1
    <3>3. QED
      BY <2>2, <3>1, <3>2
  <2>5. best \in first
    BY <2>3, <2>4
  <2>6. answer = [rule |-> engine[best[1]].rule, net |-> best[2]]
    BY <1>5
  <2>7. QED
    <3> HIDE DEF best, first
    <3>1. QED
      BY <2>5, <2>6
<1>6. CASE hits # {}
  <2>1. PICK h \in hits : TRUE
    BY <1>6
  <2>2. h[1] \in 1..n /\ h[2] \in engine[h[1]].rule.ranges /\ Contains(h[2], a)
    BY <1>2, <2>1
  <2>3. \E j \in 1..n : \E m \in engine[j].rule.ranges :
           Wins(engine, a, n, j, m) /\ answer = [rule |-> engine[j].rule, net |-> m]
    BY <1>1, <2>2 DEF Best
  <2>4. QED
    BY <1>5, <1>6, <2>3
<1>7. CASE hits = {}
  <2>1. \A j \in 1..n : \A m \in engine[j].rule.ranges : ~Contains(m, a)
    <3>1. ASSUME NEW j \in 1..n, NEW m \in engine[j].rule.ranges, Contains(m, a) PROVE FALSE
      <4>1. <<j, m>> \in hits
        BY <1>2, <1>3, <3>1
      <4>2. QED
        BY <1>7, <4>1
    <3>2. QED
      BY <3>1
  <2>2. answer = NoBest
    BY <1>1, <2>1 DEF Best, Wins
  <2>3. answer.rule = NoMatch
    BY <2>2 DEF NoBest
  <2>4. QED
    BY <1>7, <2>3
<1>8. QED
  BY <1>6, <1>7

\* Rules of two profiles have two profiles.
LEMMA TwoVias ==
    ASSUME Orders(engine), NEW claims, claims \subseteq DOMAIN engine,
           NEW i \in claims, NEW j \in claims, engine[i].rule.via # engine[j].rule.via
    PROVE  Cardinality(ViasOf(claims)) > 1
<1> DEFINE f == [k \in claims |-> engine[k].rule.via]
<1>1. IsFiniteSet(claims)
  <2>1. IsFiniteSet(1..Len(engine))
    BY FS_Interval DEF Orders
  <2>2. QED
    BY <2>1, FS_Subset DEF Orders
<1>2. f \in Surjection(claims, ViasOf(claims))
  BY DEF Surjection, ViasOf
<1>3. IsFiniteSet(ViasOf(claims))
  <2> HIDE DEF f
  <2>1. QED
    BY <1>1, <1>2, FS_Surjection
<1>4. engine[i].rule.via \in ViasOf(claims) /\ engine[j].rule.via \in ViasOf(claims)
  BY DEF ViasOf
<1>5. QED
  BY <1>3, <1>4, MoreThanOne

\* The rules that claim a target.
Claims(target) == {k \in DOMAIN engine : MatchesTarget(engine[k].rule, target)}

\* The rule for a target alone is one that claims it, or there is none.
LEMMA ResolvedClaims ==
    ASSUME Orders(engine), NEW target, target.ip \in BOOLEAN
    PROVE  \/ Claims(target) = {} /\ ResolveTarget(engine, target) = NoMatch
           \/ \E k \in Claims(target) : ResolveTarget(engine, target) = engine[k].rule
<1> DEFINE claims == Claims(target)
<1>1. claims \subseteq DOMAIN engine
  BY DEF Claims
<1>2. CASE target.ip
  <2>1. Best(engine, target.is, Len(engine), ResolveIP(engine, target.is))
    BY ResolveIPIsBest
  <2>2. claims = {k \in 1..Len(engine) : \E m \in engine[k].rule.ranges : Contains(m, target.is)}
    BY <1>2 DEF Claims, MatchesTarget, MatchesIP, Orders
  <2>3. ResolveTarget(engine, target) = ResolveIP(engine, target.is).rule
    BY <1>2 DEF ResolveTarget
  <2> DEFINE answer == ResolveIP(engine, target.is)
  <2> HIDE DEF claims, answer
  <2>4. CASE /\ answer = NoBest
             /\ \A i \in 1..Len(engine) : \A m \in engine[i].rule.ranges : ~Contains(m, target.is)
    <3>1. claims = {}
      BY <2>2, <2>4
    <3>2. answer.rule = NoMatch
      BY <2>4 DEF NoBest
    <3>3. QED
      BY <2>3, <3>1, <3>2 DEF claims, answer
  <2>5. ASSUME NEW j \in 1..Len(engine), NEW m \in engine[j].rule.ranges,
               Wins(engine, target.is, Len(engine), j, m),
               answer = [rule |-> engine[j].rule, net |-> m]
        PROVE  \E k \in claims : answer.rule = engine[k].rule
    <3>1. j \in claims
      BY <2>2, <2>5 DEF Wins
    <3>2. answer.rule = engine[j].rule
      BY <2>5
    <3>3. QED
      BY <3>1, <3>2
  <2>6. QED
    BY <2>1, <2>3, <2>4, <2>5 DEF Best, claims, answer
<1>3. CASE ~target.ip
  <2>1. claims = {k \in DOMAIN engine : MatchesDomain(engine[k].rule, target.is)}
    BY <1>3 DEF Claims, MatchesTarget
  <2>2. ResolveTarget(engine, target) = FirstThat(engine, claims)
    BY <1>3, <2>1 DEF ResolveTarget, ResolveDomain
  <2>3. claims = {} => FirstThat(engine, claims) = NoMatch
    BY DEF FirstThat
  <2> HIDE DEF claims
  <2>4. claims # {} => \E k \in claims : FirstThat(engine, claims) = engine[k].rule
    BY <1>1, FirstIs
  <2>5. QED
    BY <2>2, <2>3, <2>4 DEF claims
<1>4. QED
  BY <1>2, <1>3

\* Of the rules of one flow, the first answers.
LEMMA FlowClaims ==
    ASSUME Orders(engine), NEW target, NEW app
    PROVE  \/ ResolveFlow(engine, target, app) = NoMatch
           \/ \E k \in DOMAIN engine : /\ MatchesFlow(engine[k].rule, target, app)
                                       /\ ResolveFlow(engine, target, app) = engine[k].rule
<1> DEFINE hits == {k \in DOMAIN engine : MatchesFlow(engine[k].rule, target, app)}
<1>1. ResolveFlow(engine, target, app) = FirstThat(engine, hits) /\ hits \subseteq DOMAIN engine
  BY DEF ResolveFlow
<1>2. CASE hits = {}
  BY <1>1, <1>2 DEF FirstThat
<1>3. CASE hits # {}
  <2>1. \E k \in hits : FirstThat(engine, hits) = engine[k].rule
    <3> HIDE DEF hits
    <3>1. QED
      BY <1>1, <1>3, FirstIs
  <2>2. QED
    BY <1>1, <2>1
<1>4. QED
  BY <1>2, <1>3

\* /resolve and `explain` differ only where rules of two profiles claim the target
\* that /resolve takes the text for.
LEMMA AllAgreed ==
    ASSUME Orders(engine), NEW text, Normalized(text).ip \in BOOLEAN
    PROVE  Agreed(text)
<1> DEFINE target == Normalized(text)
           flow == ResolveFlow(engine, target, NoApp)
           resolved == ResolveTarget(engine, target)
           answer == HandleResolve(engine, text, NoApp)
<1>1. \A k \in DOMAIN engine : engine[k].rule # NoMatch
  BY RuleShape DEF Orders
<1>2. Claims(target) \subseteq DOMAIN engine
  BY DEF Claims
<1>3. Agreed(text) <=> \/ answer = ExplainTarget(engine, target)
                       \/ Cardinality(ViasOf(Claims(target))) > 1
  BY DEF Agreed, Claims
<1>4. answer = IF IsEmpty(target) THEN NoMatch
               ELSE Via(IF flow # NoMatch THEN flow ELSE resolved)
  BY DEF HandleResolve
<1>5. target.ip \in BOOLEAN
  OBVIOUS
<1> HIDE DEF target, answer
<1>6. CASE IsEmpty(target)
  BY <1>3, <1>4, <1>6 DEF ExplainTarget
<1>7. ASSUME ~IsEmpty(target) PROVE ExplainTarget(engine, target) = Via(resolved)
  BY <1>7 DEF ExplainTarget
<1>8. CASE ~IsEmpty(target) /\ flow = NoMatch
  BY <1>3, <1>4, <1>7, <1>8
<1>9. CASE ~IsEmpty(target) /\ flow # NoMatch
  <2>1. PICK i \in DOMAIN engine : MatchesFlow(engine[i].rule, target, NoApp) /\ flow = engine[i].rule
    BY <1>9, FlowClaims
  <2>2. i \in Claims(target)
    BY <2>1 DEF MatchesFlow, Claims
  <2>3. PICK j \in Claims(target) : resolved = engine[j].rule
    BY <1>5, <2>2, ResolvedClaims
  <2>4. answer = engine[i].rule.via
    BY <1>1, <1>4, <1>9, <2>1 DEF Via
  <2>5. ExplainTarget(engine, target) = engine[j].rule.via
    BY <1>1, <1>2, <1>7, <1>9, <2>3 DEF Via
  <2>6. CASE engine[i].rule.via = engine[j].rule.via
    BY <1>3, <2>4, <2>5, <2>6
  <2>7. CASE engine[i].rule.via # engine[j].rule.via
    <3>1. Cardinality(ViasOf(Claims(target))) > 1
      BY <1>2, <2>2, <2>7, TwoVias
    <3>2. QED
      BY <1>3, <3>1
  <2>8. QED
    BY <2>6, <2>7
<1>10. QED
  BY <1>6, <1>8, <1>9

\* For an application, /resolve answers as `explain` does, or as for no target.
LEMMA AppsAgree ==
    ASSUME Orders(engine), NEW app \in Apps
    PROVE  \/ HandleResolve(engine, NoTarget, app) \in
                 {ExplainApp(engine, app), Via(ResolveDomain(engine, NoTarget.is))}
           \/ Cardinality(ViasOf({k \in DOMAIN engine : MatchesApp(engine[k].rule, app)})) > 1
<1> DEFINE flow == ResolveFlow(engine, NoTarget, app)
           claims == {k \in DOMAIN engine : MatchesApp(engine[k].rule, app)}
<1>1. \A k \in DOMAIN engine : engine[k].rule # NoMatch
  BY RuleShape DEF Orders
<1>2. ~NoTarget.ip /\ IsEmpty(NoTarget)
  BY DEF NoTarget, IsEmpty
<1> DEFINE answer == HandleResolve(engine, NoTarget, app)
<1>6. answer = Via(IF flow # NoMatch THEN flow ELSE ResolveTarget(engine, NoTarget))
  <2>1. Normalized(NoTarget) = NoTarget
    BY EngineAssumption DEF Normalized, NoTarget
  <2>2. app # NoApp
    BY RulesAssumption
  <2>3. QED
    BY <2>1, <2>2 DEF HandleResolve
<1> HIDE DEF answer
<1>3. CASE flow = NoMatch
  <2>1. answer = Via(ResolveTarget(engine, NoTarget))
    BY <1>3, <1>6
  <2>2. ResolveTarget(engine, NoTarget) = ResolveDomain(engine, NoTarget.is)
    BY <1>2 DEF ResolveTarget
  <2>3. QED
    BY <2>1, <2>2 DEF answer
<1>4. CASE flow # NoMatch
  <2>1. PICK i \in DOMAIN engine : MatchesFlow(engine[i].rule, NoTarget, app) /\ flow = engine[i].rule
    BY <1>4, FlowClaims
  <2>2. i \in claims
    BY <1>2, <2>1 DEF MatchesFlow
  <2>3. PICK j \in claims : ResolveApp(engine, app) = engine[j].rule
    <3>1. ResolveApp(engine, app) = FirstThat(engine, claims) /\ claims \subseteq DOMAIN engine
      BY DEF ResolveApp
    <3>2. QED
      <4> HIDE DEF claims
      <4>1. QED
        BY <2>2, <3>1, FirstIs
  <2>4. answer = engine[i].rule.via
    BY <1>1, <1>4, <1>6, <2>1 DEF Via
  <2>5. ExplainApp(engine, app) = engine[j].rule.via
    BY <1>1, <2>3 DEF ExplainApp, Via
  <2>6. CASE engine[i].rule.via = engine[j].rule.via
    BY <2>4, <2>5, <2>6 DEF answer
  <2>7. CASE engine[i].rule.via # engine[j].rule.via
    <3>1. claims \subseteq DOMAIN engine
      OBVIOUS
    <3>2. Cardinality(ViasOf(claims)) > 1
      <4> HIDE DEF claims
      <4>1. QED
        BY <2>2, <2>3, <2>7, <3>1, TwoVias
    <3>3. QED
      BY <3>2
  <2>8. QED
    BY <2>6, <2>7
<1>5. QED
  BY <1>3, <1>4

\* A route to one address overlaps the networks that hold the address.
LEMMA HostRoute ==
    ASSUME NEW a \in Addresses, NEW n \in Networks
    PROVE  Overlaps([base |-> a, len |-> Width], n) <=> Contains(n, a)
<1> DEFINE route == [base |-> a, len |-> Width]
<1>1. Width \in Nat /\ a \in Int /\ n.base \in Int
  BY EngineAssumption DEF Addresses, Networks
<1>2. \A x \in Int : Shortened(x, Width) = x
  BY <1>1 DEF Shortened
<1>3. Contains(route, n.base) <=> a = n.base
  BY <1>1, <1>2 DEF Contains
<1>4. a = n.base => Contains(n, a)
  BY DEF Contains
<1>5. QED
  BY <1>3, <1>4 DEF Overlaps

\* The table of routes says of an address what `explain` says.
LEMMA TableAgrees ==
    ASSUME Orders(engine), NEW a \in Addresses
    PROVE  MatchStaticPolicy(engine, [base |-> a, len |-> Width])
             = ExplainTarget(engine, [ip |-> TRUE, is |-> a])
<1> DEFINE route == [base |-> a, len |-> Width]
           target == [ip |-> TRUE, is |-> a]
           answer == ResolveIP(engine, a)
           lens(k) == {-1} \cup {n.len : n \in {m \in engine[k].rule.ranges : Overlaps(route, m)}}
           longest(k) == Maximum(lens(k))
           tops == {-1} \cup {longest(k) : k \in DOMAIN engine}
           best == Maximum(tops)
           hits == {k \in DOMAIN engine : longest(k) = best}
           n == Len(engine)
<1>1. MatchStaticPolicy(engine, route) = IF best = -1 THEN NoMatch ELSE FirstThat(engine, hits).via
  BY DEF MatchStaticPolicy
<1>2. ExplainTarget(engine, target) = Via(answer.rule)
  BY DEF ExplainTarget, IsEmpty, ResolveTarget
<1>3. /\ DOMAIN engine = 1..n /\ n \in Nat /\ Width \in Nat
      /\ \A k \in 1..n : engine[k].rule # NoMatch
  BY RuleShape, EngineAssumption DEF Orders
<1>4. \A k \in 1..n : \A m \in engine[k].rule.ranges :
         m.len \in 0..Width /\ (Overlaps(route, m) <=> Contains(m, a))
  BY RuleShape, HostRoute DEF Orders
<1>5. ASSUME NEW k \in 1..n
      PROVE  /\ longest(k) \in lens(k) /\ longest(k) \in -1..Width
             /\ \A l \in lens(k) : l <= longest(k)
  <2>1. lens(k) \subseteq -1..Width /\ lens(k) # {}
    BY <1>3, <1>4
  <2>2. QED
    <3> HIDE DEF lens
    <3>1. lens(k) \subseteq Int /\ (\A l \in lens(k) : l <= Width) /\ Width \in Int
      BY <1>3, <2>1
    <3>2. longest(k) \in lens(k) /\ \A l \in lens(k) : l <= longest(k)
      BY <2>1, <3>1, MaximumIs
    <3>3. QED
      BY <2>1, <3>2
<1>6. ASSUME NEW k \in 1..n, NEW m \in engine[k].rule.ranges, Contains(m, a)
      PROVE  m.len <= longest(k)
  <2>1. m.len \in lens(k)
    BY <1>4, <1>6
  <2>2. QED
    <3> HIDE DEF lens
    <3>1. QED
      BY <1>5, <2>1
<1>7. ASSUME NEW k \in 1..n, longest(k) # -1
      PROVE  \E m \in engine[k].rule.ranges : Contains(m, a) /\ m.len = longest(k)
  <2>1. longest(k) \in lens(k)
    BY <1>5
  <2> HIDE DEF longest
  <2>2. QED
    BY <1>4, <1>7, <2>1
<1> HIDE DEF longest
<1>8. best \in tops /\ \A t \in tops : t <= best
  <2>1. tops \subseteq Int /\ tops # {} /\ (\A t \in tops : t <= Width) /\ Width \in Int
    BY <1>3, <1>5
  <2>2. QED
    <3> HIDE DEF tops
    <3>1. QED
      BY <2>1, MaximumIs
<1> HIDE DEF best
<1>9. Best(engine, a, n, answer)
  BY ResolveIPIsBest
<1>10. CASE answer = NoBest /\ \A i \in 1..n : \A m \in engine[i].rule.ranges : ~Contains(m, a)
  <2>1. \A k \in 1..n : longest(k) = -1
    BY <1>7, <1>10
  <2>2. best = -1
    BY <1>3, <1>8, <2>1
  <2>3. answer.rule = NoMatch
    BY <1>10 DEF NoBest
  <2>4. QED
    BY <1>1, <1>2, <2>2, <2>3 DEF Via
<1>11. ASSUME NEW j \in 1..n, NEW m \in engine[j].rule.ranges, Wins(engine, a, n, j, m),
              answer = [rule |-> engine[j].rule, net |-> m]
       PROVE  MatchStaticPolicy(engine, route) = ExplainTarget(engine, target)
  <2>1. m.len \in 0..Width /\ m.len <= longest(j)
    BY <1>4, <1>6, <1>11 DEF Wins
  <2>2. ASSUME NEW k \in 1..n, longest(k) # -1
        PROVE  longest(k) <= m.len /\ (longest(k) = m.len => j <= k)
    BY <1>7, <1>11, <2>2 DEF Wins
  <2>3. longest(j) = m.len
    BY <1>5, <2>1, <2>2
  <2>4. best = m.len
    <3>1. m.len \in tops
      BY <1>3, <2>3
    <3>2. \A t \in tops : t <= m.len
      BY <1>3, <2>1, <2>2
    <3>3. tops \subseteq Int
      BY <1>3, <1>5
    <3>4. QED
      BY <1>8, <2>1, <3>1, <3>2, <3>3
  <2>5. j \in hits /\ \A k \in hits : j <= k
    BY <1>3, <2>1, <2>2, <2>3, <2>4
  <2>6. FirstThat(engine, hits) = engine[j].rule
    <3>1. hits \subseteq DOMAIN engine /\ hits \subseteq Nat
      BY <1>3
    <3> HIDE DEF hits
    <3>2. PICK k \in hits : (\A i \in hits : k <= i) /\ FirstThat(engine, hits) = engine[k].rule
      BY <2>5, <3>1, FirstIs
    <3>3. k = j
      BY <2>5, <3>1, <3>2
    <3>4. QED
      BY <3>2, <3>3
  <2>7. answer.rule = engine[j].rule
    BY <1>11
  <2>8. QED
    BY <1>1, <1>2, <1>3, <2>1, <2>4, <2>6, <2>7 DEF Via
<1>12. QED
  BY <1>9, <1>10, <1>11 DEF Best

\* The handler says no more of a network that is not listed.
LEMMA RoutesAgree ==
    ASSUME Orders(engine), NEW a \in Addresses, NEW listed,
           [base |-> a, len |-> Width] \notin DOMAIN listed
    PROVE  HandleListRoutes(engine, listed, [base |-> a, len |-> Width])
             = ExplainTarget(engine, [ip |-> TRUE, is |-> a])
<1> DEFINE route == [base |-> a, len |-> Width]
<1>1. route.len # 0
  BY EngineAssumption
<1> HIDE DEF route
<1>2. HandleListRoutes(engine, listed, route) = MatchStaticPolicy(engine, route)
  BY <1>1 DEF HandleListRoutes, route
<1>3. QED
  BY <1>2, TableAgrees DEF route

\* All of them.
LEMMA OrdersAgree == Orders(engine) => AnswersAgree
<1> SUFFICES ASSUME Orders(engine) PROVE AnswersAgree
  OBVIOUS
<1>1. LongestPrefixWins
  BY Longest
<1>2. ASSUME NEW a \in Addresses PROVE Agreed([ip |-> TRUE, is |-> a])
  <2>1. Normalized([ip |-> TRUE, is |-> a]).ip \in BOOLEAN
    BY EngineAssumption DEF Normalized
  <2>2. QED
    BY <2>1, AllAgreed
<1>3. ASSUME NEW h \in Hosts PROVE Agreed([ip |-> FALSE, is |-> h])
  <2>1. Normalized([ip |-> FALSE, is |-> h]).ip \in BOOLEAN
    BY EngineAssumption DEF Normalized
  <2>2. QED
    BY <2>1, AllAgreed
<1>4. QED
  BY <1>1, <1>2, <1>3, RoutesAgree, AppsAgree DEF AnswersAgree
----------------------------------------------------------------------------
(* The engine of a running daemon *)

\* Deleting policies leaves policies.
LEMMA OthersRules ==
    ASSUME NEW s \in Seq(PolicyRules), NEW name
    PROVE  OthersThan(s, name) \in Seq(PolicyRules)
<1> DEFINE n == Len(s)
           V == Seq(PolicyRules)
           Go(i, t) == IF SameName(s[i].name, name) THEN t ELSE Append(t, s[i])
           g == [p \in (1..n) \X V |-> Go(p[1], p[2])]
           Is(f) == f = [i \in 0..n |-> IF i = 0 THEN << >> ELSE Go(i, f[i - 1])]
           out == CHOOSE f : Is(f)
<1>1. n \in Nat /\ << >> \in V /\ \A i \in 1..n : s[i] \in PolicyRules
  BY LenProperties, ElementOfSeq, EmptySeq
<1>2. \A i \in 1..n, t \in V : Go(i, t) \in V
  BY <1>1, AppendProperties
<1>3. g \in [(1..n) \X V -> V]
  <2> HIDE DEF V, Go
  <2>1. QED
    BY <1>2
<1>4. PICK f : Scans(f, n, V, << >>, g)
  <2> HIDE DEF V, g, n
  <2>1. QED
    BY <1>1, <1>3, ScanExists
<1>5. Is(f)
  <2>1. ASSUME NEW i \in 0..n, i # 0 PROVE f[i] = Go(i, f[i - 1])
    <3>1. i \in 1..n /\ i - 1 \in 0..n
      BY <1>1, <2>1
    <3>2. f[i - 1] \in V
      BY <1>4, <3>1 DEF Scans
    <3>3. QED
      <4> HIDE DEF V, n, Go
      <4>1. QED
        BY <1>4, <3>1, <3>2 DEF Scans
  <2>2. QED
    <3> HIDE DEF V, g, n, Go
    <3>1. QED
      BY <1>4, <2>1 DEF Scans
<1>6. Is(out)
  <2> HIDE DEF Is
  <2>1. QED
    BY <1>5
<1>7. OthersThan(s, name) = out[n]
  BY DEF OthersThan
<1> HIDE DEF out
<1>8. out[0] = << >> /\ \A i \in 1..n : out[i] = Go(i, out[i - 1])
  <2> HIDE DEF Go
  <2>1. QED
    BY <1>1, <1>6
<1> DEFINE S == {i \in 0..n : out[i] \in V}
<1>9. 0 \in S
  <2> HIDE DEF V, Go
  <2>1. QED
    BY <1>1, <1>8
<1>10. ASSUME NEW i \in 0..n, i \in S, i < n PROVE i + 1 \in S
  <2>1. i + 1 \in 1..n /\ (i + 1) - 1 = i /\ out[i] \in V
    BY <1>1, <1>10
  <2> HIDE DEF V, Go
  <2>2. out[i + 1] = Go(i + 1, out[i])
    BY <1>8, <2>1
  <2>3. QED
    BY <1>2, <2>1, <2>2
<1>11. n \in S
  <2> HIDE DEF S
  <2>1. 0..n \subseteq S
    BY <1>1, <1>9, <1>10, Upwards
  <2>2. QED
    BY <1>1, <2>1
<1>12. QED
  BY <1>7, <1>11

\* A rule that a request brings is among them.
LEMMA RequestRules ==
    ASSUME NEW o \in Operations, o.kind \in {"create policy", "update policy"}
    PROVE  o.rule \in PolicyRules
<1>1. o.rule \in AskedRules
  BY DEF AskedRules
<1>2. QED
  BY <1>1 DEF WrittenRules, PolicyRules

\* Handlers put nothing among the policies but the rules of requests.
LEMMA HandlersKeepRules ==
    ASSUME NEW o \in Operations, NEW cfg, Shaped(cfg), cfg.policies \in Seq(PolicyRules),
           Apply(o, cfg) # Refused
    PROVE  Apply(o, cfg).policies \in Seq(PolicyRules)
<1> DEFINE new == Apply(o, cfg)
<1>1. o.kind \in Kinds
  BY StoreAssumption
<1>2. DOMAIN cfg = {"vpns", "policies", "groups", "schedule", "kill", "dns", "mode"}
  BY DEF Shaped
<1>3. CASE o.kind = "create policy"
  <2>1. new = [cfg EXCEPT !.policies = Append(@, o.rule)]
    BY <1>3 DEF Apply, Handle, Reloads, CreatePolicy
  <2>2. o.rule \in PolicyRules
    BY <1>3, RequestRules
  <2>3. new.policies = Append(cfg.policies, o.rule)
    BY <1>2, <2>1
  <2>4. QED
    BY <2>2, <2>3, AppendProperties
<1>4. CASE o.kind = "update policy"
  <2> DEFINE i == FirstOf(PoliciesNamed(cfg, o.name))
  <2>1. new = [cfg EXCEPT !.policies[i] = o.rule]
    BY <1>4 DEF Apply, Handle, Reloads, UpdatePolicy
  <2>2. o.rule \in PolicyRules
    BY <1>4, RequestRules
  <2>3. new.policies = [cfg.policies EXCEPT ![i] = o.rule]
    <3> HIDE DEF i
    <3>1. QED
      BY <1>2, <2>1
  <2>4. [cfg.policies EXCEPT ![i] = o.rule] \in Seq(PolicyRules)
    <3> HIDE DEF i
    <3>1. CASE i \in 1..Len(cfg.policies)
      BY <2>2, <3>1, ExceptSeq
    <3>2. CASE i \notin 1..Len(cfg.policies)
      <4>1. cfg.policies \in [1..Len(cfg.policies) -> PolicyRules]
        BY LenProperties
      <4>2. [cfg.policies EXCEPT ![i] = o.rule] = cfg.policies
        BY <3>2, <4>1
      <4>3. QED
        BY <4>2
    <3>3. QED
      BY <3>1, <3>2
  <2>5. QED
    BY <2>3, <2>4
<1>5. CASE o.kind = "delete policy"
  <2>1. new = [cfg EXCEPT !.policies = OthersThan(@, o.name)]
    BY <1>5 DEF Apply, Handle, Reloads, DeletePolicy
  <2>2. new.policies = OthersThan(cfg.policies, o.name)
    BY <1>2, <2>1
  <2>3. QED
    BY <2>2, OthersRules
<1>6. CASE o.kind \notin {"create policy", "update policy", "delete policy"}
  <2>1. new.policies = cfg.policies
    <3>1. CASE o.kind \in {"create group", "update group", "delete group"}
      BY <1>2, <3>1 DEF Apply, Handle, Reloads, CreateGroup, UpdateGroup, DeleteGroup, SaveGroup
    <3>2. CASE o.kind \in {"create vpn", "update vpn", "delete vpn", "override"}
      BY <1>2, <3>2 DEF Apply, Handle, Reloads, CreateVPN, UpdateVPN, SaveVPN, IfValid, DeleteVPN,
                        SetProfileKillSwitch
    <3>3. CASE o.kind \in {"create rule", "update rule", "delete rule", "settings"}
      BY <1>2, <3>3 DEF Apply, Handle, Reloads, CreateScheduleRule, UpdateScheduleRule,
                        DeleteScheduleRule, UpdateSettings, IfValid
    <3>4. CASE o.kind \in {"kill switch", "dns guard", "reload", "reload tunnel"}
      BY <1>2, <3>4 DEF Apply, Handle, Reloads, ToggleKillSwitch, ToggleDNSGuard
    <3>5. QED
      BY <1>1, <1>6, <3>1, <3>2, <3>3, <3>4 DEF Kinds
  <2>2. QED
    BY <2>1
<1>7. QED
  BY <1>3, <1>4, <1>5, <1>6

\* Neither does the loader but what they expand to.
LEMMA LoadedRules ==
    ASSUME NEW cfg, Shaped(cfg), cfg.policies \in Seq(PolicyRules)
    PROVE  Loaded(cfg).policies \in Seq(PolicyRules)
<1> DEFINE n == Len(cfg.policies)
           new == [i \in DOMAIN cfg.policies |-> Expanded(cfg.policies[i], RulesWithVars)]
<1>1. n \in Nat /\ DOMAIN cfg.policies = 1..n /\ \A i \in 1..n : cfg.policies[i] \in PolicyRules
  BY LenProperties, ElementOfSeq
<1>2. Loaded(cfg).policies = new
  BY DEF Shaped, Loaded
<1>3. new \in [1..n -> PolicyRules]
  BY <1>1, RulesAssumption
<1>4. new \in Seq(PolicyRules)
  <2> HIDE DEF n, new
  <2>1. QED
    BY <1>1, <1>3, SeqDef
<1>5. QED
  BY <1>2, <1>4

LEMMA MakesKeepRules ==
    ASSUME NEW o \in Operations, NEW cfg, Shaped(cfg), cfg.policies \in Seq(PolicyRules),
           Makes(o, cfg) # Refused
    PROVE  Makes(o, cfg).policies \in Seq(PolicyRules)
<1>1. Shaped(Loaded(cfg)) /\ Loaded(cfg).policies \in Seq(PolicyRules)
  BY LoadedKeeps, LoadedRules
<1>2. QED
  BY <1>1, HandlersKeepRules DEF Makes

\* The file, the copies in hand and the engine have no other rules.
RulesInv == /\ file.policies \in Seq(PolicyRules)
            /\ \A r \in Requests : copy[r].policies \in Seq(PolicyRules)
            /\ Orders(engine)

LEMMA InitRules == Init => RulesInv
<1> SUFFICES ASSUME Init PROVE RulesInv
  OBVIOUS
<1>1. /\ file = Initial /\ engine \in Engines(Loaded(Initial))
      /\ \A r \in Requests : copy[r] = Initial
  BY DEF Init
<1>2. Initial.policies \in Seq(PolicyRules) /\ Shaped(Initial)
  BY RulesAssumption, StoreAssumption
<1>3. Loaded(Initial).policies \in Seq(PolicyRules)
  BY <1>2, LoadedRules
<1>4. QED
  BY <1>1, <1>2, <1>3, EngineOrders DEF RulesInv

LEMMA NextRules == IInv /\ RulesInv /\ [Next]_vars => RulesInv'
<1> SUFFICES ASSUME IInv, RulesInv, [Next]_vars PROVE RulesInv'
  OBVIOUS
<1>0. Shaped(file)
  BY DEF IInv, Shapes
<1>1. ASSUME UNCHANGED <<file, copy, engine>> PROVE RulesInv'
  BY <1>1 DEF RulesInv, Orders
<1>2. ASSUME NEW r \in Requests, Step(r) PROVE RulesInv'
  <2>1. CASE Load(r) /\ Accepts(op[r])
    <3>1. /\ pc[r] = "load" /\ copy' = [copy EXCEPT ![r] = Makes(op[r], file)]
          /\ UNCHANGED <<file, engine>>
      BY <2>1 DEF Load, memory
    <3>2. op[r] \in Operations /\ Makes(op[r], file) # Refused
      BY <2>1, <3>1 DEF IInv, Shapes, Accepts
    <3>3. Makes(op[r], file).policies \in Seq(PolicyRules)
      BY <1>0, <3>2, MakesKeepRules DEF RulesInv
    <3>4. \A q \in Requests : copy'[q].policies \in Seq(PolicyRules)
      BY <3>1, <3>3 DEF RulesInv
    <3>5. QED
      BY <3>1, <3>4 DEF RulesInv, Orders
  <2>2. CASE Load(r) /\ ~Accepts(op[r])
    BY <1>1, <2>2 DEF Load, memory
  <2>3. CASE Write(r)
    <3>1. UNCHANGED <<copy, engine>> /\ file' \in {file, copy[r]}
      BY <2>3 DEF Write, inFlight, memory
    <3>2. QED
      BY <3>1 DEF RulesInv, Orders
  <2>4. CASE StoreEngine(r)
    <3>1. UNCHANGED <<file, copy>> /\ engine' \in Engines(copy[r])
      BY <2>4 DEF StoreEngine, inFlight
    <3>2. Orders(engine')
      BY <3>1, EngineOrders DEF RulesInv
    <3>3. QED
      BY <3>1, <3>2 DEF RulesInv, Orders
  <2>5. CASE Leave(r)
    <3>1. copy' = [copy EXCEPT ![r] = Initial] /\ UNCHANGED <<file, engine>>
      BY <2>5 DEF Leave, memory
    <3>2. \A q \in Requests : copy'[q].policies \in Seq(PolicyRules)
      BY <3>1, RulesAssumption DEF RulesInv, IInv, Shapes
    <3>3. QED
      BY <3>1, <3>2 DEF RulesInv, Orders
  <2>6. CASE \/ \E o \in Operations : Enter(r, o)
             \/ SetCredential(r) \/ RestoreCredential(r) \/ UpdateRunning(r) \/ BuildGuards(r)
             \/ BuildProfiles(r) \/ SetSwitch(r) \/ ForgetCredential(r)
    BY <1>1, <2>6 DEF Enter, SetCredential, RestoreCredential, UpdateRunning, BuildGuards,
                      BuildProfiles, Rebuild, SetSwitch, ForgetCredential, memory, inFlight
  <2>7. QED
    BY <1>2, <2>1, <2>2, <2>3, <2>4, <2>5, <2>6 DEF Step
<1>3. ASSUME NEW e \in HandEdits, HandEdit(e) PROVE RulesInv'
  <2>1. /\ file' = [file EXCEPT !.policies = e.policies, !.kill = e.kill, !.mode = e.mode]
        /\ UNCHANGED <<copy, engine>>
    BY <1>3 DEF HandEdit, memory, inFlight
  <2>2. file'.policies = e.policies
    BY <1>0, <2>1 DEF Shaped
  <2>3. file'.policies \in Seq(PolicyRules)
    BY <2>2, RulesAssumption
  <2>4. QED
    BY <2>1, <2>3 DEF RulesInv, Orders
<1>4. CASE Crash
  <2>1. copy' = [r \in Requests |-> Initial] /\ UNCHANGED <<file, engine>>
    BY <1>4 DEF Crash, memory
  <2>2. QED
    BY <2>1, RulesAssumption DEF RulesInv, Orders
<1>5. CASE Boot
  <2>1. UNCHANGED <<file, copy>> /\ engine' \in Engines(Loaded(file))
    BY <1>5 DEF Boot, inFlight
  <2>2. Loaded(file).policies \in Seq(PolicyRules)
    BY <1>0, LoadedRules DEF RulesInv
  <2>4. Orders(engine')
    BY <2>1, <2>2, EngineOrders
  <2>3. QED
    BY <2>1, <2>4 DEF RulesInv, Orders
<1>6. CASE UNCHANGED vars
  BY <1>1, <1>6 DEF vars, inFlight, memory
<1>7. QED
  BY <1>2, <1>3, <1>4, <1>5, <1>6 DEF Next

\* Whatever was requested, typed or restarted, `explain`, the table of routes and
\* /resolve agree on whose an address, a domain or an application is: the table
\* where the resolver lists nothing else, /resolve unless rules of two profiles
\* claim the target, with what `explain` says of the text as it has been
\* normalised.  (engine.go resolveIPMatch, handlers_policy.go matchStaticPolicy,
\* normalizeResolveTarget, handleResolve)
THEOREM OneAnswer == Spec => []AnswersAgree
<1>1. RulesInv => AnswersAgree
  BY OrdersAgree DEF RulesInv
<1>2. QED
  BY <1>1, InitIInv, NextIInv, InitRules, NextRules, PTL DEF Spec
=============================================================================
