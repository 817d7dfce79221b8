--------------------------- MODULE ControlAPIProofs ---------------------------
(***************************************************************************)
(* The control API for any number of profiles, handlers, attempts and      *)
(* scheduler rules, and every adapter: the table of pending connects, what *)
(* can be cancelled, and that a disconnect that has answered holds.        *)
(***************************************************************************)
EXTENDS ControlAPI, FiniteSetTheorems, SequenceTheorems, TLAPS

\* The table's entries, the attempts and their profiles.
TableOK ==
    /\ entry \in [Profiles -> Attempts \cup {NoAttempt}]
    /\ attempt \in [Attempts -> {"free", "connecting", "clearing"}]
    /\ of \in [Attempts -> Profiles \cup {NoProfile}]
    /\ \A a \in Attempts : attempt[a] # "free" => of[a] \in Profiles
    /\ cancelled \subseteq {a \in Attempts : attempt[a] # "free"}
    /\ PendingIsRunning

\* A profile none of whose connects was cancelled has no attempt but its entry's.
CalmOK ==
    /\ calm \subseteq Profiles
    /\ \A p \in calm, a \in Attempts : attempt[a] # "free" /\ of[a] = p => a = entry[p]

\* Since the sweep, whoever still connects was told to stop or came too late.
SweptOK ==
    server \in {"swept", "closed"} =>
        \A a \in Attempts : attempt[a] = "connecting" => a \in cancelled \cup late

\* A handler at work has a profile in hand; a disconnect never looks first.
JobsOK ==
    /\ DOMAIN job = Handlers
    /\ \A h \in Handlers : job[h].step = "look" => job[h].kind # "disconnect"
    /\ \A h \in Handlers :
          job[h] = NoJob \/ job[h] \in [kind : {"connect", "disconnect", "reload"},
                                      step : {"look", "start", "cancel", "disconnect"},
                                      todo : Seq(Profiles) \ {<<>>}]

HandlerOK(h) ==
    IF job[h].step = "disconnect" THEN at[h] \in DisconnectSteps /\ on[h] = Subject(h)
                                  ELSE at[h] = "idle"

AttemptOK(a) ==
    IF attempt[a] = "connecting" THEN at[a] \in ConnectSteps /\ on[a] = of[a]
                                 ELSE at[a] = "idle"

\* A goroutine inside a call: handlers disconnect the profile in hand, attempts
\* connect theirs, the watchers do not run here.
CallsOK ==
    /\ DOMAIN at = Goroutines /\ DOMAIN on = Goroutines
    /\ \A g \in Requests : at[g] = "idle" => on[g] = NoProfile
    /\ \A h \in Handlers : HandlerOK(h)
    /\ \A a \in Attempts : AttemptOK(a)
    /\ \A p \in Profiles : at[p] = "idle" /\ on[p] = NoProfile
    /\ at[Scheduler] \in ConnectSteps \cup DisconnectSteps \cup {"idle"}
    /\ inside \subseteq {g \in Attempts \cup {Scheduler} : at[g] = "dial"}
    /\ \A g, h \in inside : on[g] = on[h] => g = h
    /\ at[Scheduler] # "idle" => on[Scheduler] \in Profiles

\* An adapter has what it needs to take its tunnel down.
HandlesOK ==
    /\ DOMAIN kind = Profiles /\ DOMAIN mem = Profiles /\ DOMAIN handle = Profiles
    /\ DOMAIN up = Profiles
    /\ \A p \in Profiles :
          /\ kind[p] \in Kinds /\ up[p] \in BOOLEAN
          /\ kind[p] \in Holding /\ up[p] => handle[p] = "held"
          /\ kind[p] = "openvpn" /\ handle[p] = "held" => mem[p] = "connected"

\* The last that p was asked for is a disconnect, which could reach every
\* attempt under way.
Parting(p) == last[p] \in Handlers \cup {"disconnect"} /\ p \notin escaped

\* Then every attempt under way has been cancelled and looks at its context,
\* and the scheduler is not at work on p.
PartingOK ==
    \A p \in Profiles :
        /\ on[Scheduler] = p => last[p] \notin Handlers \cup {"disconnect"}
        /\ Parting(p) => \A a \in Running(p) : a \in cancelled /\ kind[p] \notin Deaf

\* The tunnel is down, and Attach finds no DNS servers to guard.
Off(p) == ~up[p] /\ ~HasTunnelInfo(p)

\* From the moment the tunnel was taken down nobody brings it up again.
Parted(p) ==
    /\ Parting(p)
    /\ last[p] \in Handlers => on[last[p]] = p /\ at[last[p]] = "release"

\* p's DNS is guarded, or about to be.
Guards(p) == p \in guarded \/ Guarding(p)

DownOK ==
    /\ DOMAIN last = Profiles
    /\ \A p \in Profiles :
        /\ Parted(p) => Off(p) /\ \A g \in inside : on[g] = p => g \in doomed
        /\ Parting(p) /\ last[p] = "disconnect" => p \in slipped \/ ~Guards(p)

IInv == TableOK /\ CalmOK /\ SweptOK /\ JobsOK /\ CallsOK /\ HandlesOK /\ PartingOK /\ DownOK
----------------------------------------------------------------------------
(* What the calls do *)

\* What an adapter's call for p may do, by how it ends.
Leaves(p, down, same) ==
    /\ HandlesOK' /\ kind' = kind
    /\ \A q \in Profiles \ {p} : Off(q) => Off(q)'
    /\ down => Off(p)'
    /\ same => (Off(p) => Off(p)')

LEMMA StatusLeaves ==
    ASSUME HandlesOK, NEW p \in Profiles, NEW s \in Statuses, StatusCall(p, s)
    PROVE  Leaves(p, FALSE, TRUE)
<1> USE DEF HandlesOK, Off, HasTunnelInfo, Leaves, fixedVars, Holding
<1>1. CASE RememberedStatus(p, s) \/ ProbedStatus(p, s)
  BY <1>1 DEF RememberedStatus, ProbedStatus, adapterVars
<1>2. CASE WireGuardStatus(p, s)
  BY <1>2 DEF WireGuardStatus, Remember
<1>3. CASE FortiClientStatus(p, s)
  BY <1>3 DEF FortiClientStatus, Remember, Hold
<1>4. QED
  BY <1>1, <1>2, <1>3 DEF StatusCall

LEMMA ConnectLeaves ==
    ASSUME HandlesOK, NEW p \in Profiles, NEW ok \in BOOLEAN, ConnectCall(p, ok)
    PROVE  Leaves(p, FALSE, FALSE) /\ (~ok => Leaves(p, FALSE, TRUE))
<1> USE DEF HandlesOK, Off, HasTunnelInfo, Leaves, fixedVars, Holding, Refuses
<1>1. ASSUME NEW accepted, NEW h, Convinced(p, accepted, h), ok,
             kind[p] \in Holding => h = "held"
      PROVE  Leaves(p, FALSE, FALSE) /\ (~ok => Leaves(p, FALSE, TRUE))
  BY <1>1 DEF Convinced, Remember, Hold, Bring
<1>2. ASSUME NEW s \in {"error", "disconnected", "connecting"}, GivesUp(p, s)
      PROVE  Leaves(p, FALSE, FALSE) /\ (~ok => Leaves(p, FALSE, TRUE))
  BY <1>2 DEF GivesUp, Remember
<1>3. CASE ConnectRefused(p) \/ UNCHANGED adapterVars
  BY <1>3 DEF ConnectRefused, adapterVars
<1>4. CASE OpenVPNConnect(p, ok)
  <2>1. CASE WaitFails(p) /\ kind[p] = "openvpn"
    BY <2>1 DEF WaitFails, Remember, Hold
  <2>2. QED
    BY <1>1, <1>2, <1>4, <2>1 DEF OpenVPNConnect, StartFails
<1>5. CASE GlobalProtectConnect(p, ok)
  <2>1. CASE Remember(p, "error") /\ UNCHANGED <<fixedVars, handle, up>> /\ kind[p] # "openvpn"
    BY <2>1 DEF Remember
  <2>2. QED
    BY <1>1, <1>2, <1>3, <1>5, <2>1 DEF GlobalProtectConnect
<1>6. CASE CiscoConnect(p, ok) \/ ProtonConnect(p, ok) \/ WarpConnect(p, ok)
  BY <1>1, <1>2, <1>6 DEF CiscoConnect, ProtonConnect, WarpConnect
<1>7. CASE TailscaleConnect(p, ok) \/ WireGuardConnect(p, ok) \/ FortiClientConnect(p, ok)
  BY <1>1, <1>2, <1>7 DEF TailscaleConnect, WireGuardConnect, FortiClientConnect
<1>8. QED
  BY <1>3, <1>4, <1>5, <1>6, <1>7 DEF ConnectCall

LEMMA DisconnectLeaves ==
    ASSUME HandlesOK, NEW p \in Profiles, NEW ok \in BOOLEAN, DisconnectCall(p, ok)
    PROVE  Leaves(p, ok, TRUE)
<1> USE DEF HandlesOK, Off, HasTunnelInfo, Leaves, fixedVars, Holding, Remember, Hold, Bring
<1>1. CASE OpenVPNDisconnect(p, ok)
  BY <1>1 DEF OpenVPNDisconnect, ProcessStops
<1>2. CASE CommandedDisconnect(p, ok)
  BY <1>2 DEF CommandedDisconnect
<1>3. CASE FortiClientDisconnect(p, ok)
  BY <1>3 DEF FortiClientDisconnect
<1>4. QED
  BY <1>1, <1>2, <1>3 DEF DisconnectCall

\* A step of g's call: where it goes, and what it leaves behind.
Moves(g) ==
    /\ DOMAIN at' = DOMAIN at /\ DOMAIN on' = DOMAIN on
    /\ \A f \in Goroutines \ {g} : at'[f] = at[f] /\ on'[f] = on[f]
    /\ on'[g] = IF at'[g] = "idle" THEN NoProfile ELSE on[g]
    /\ \/ at[g] \in ConnectSteps /\ at'[g] \in ConnectSteps \cup {"idle"}
       \/ at[g] \in DisconnectSteps /\ at'[g] \in DisconnectSteps \cup {"idle"}
    /\ at'[g] = "dial" => at[g] = "check"
    /\ at'[g] = "release" => at[g] = "hangup"
    /\ at'[g] = "guard" => at[g] = "attach"

Effects(g) ==
    /\ HandlesOK' /\ kind' = kind
    /\ \A q \in Profiles :
          Off(q) => Off(q)' \/ (q = on[g] /\ at[g] = "dial" /\ at'[g] = "mark")
    /\ \A q \in Profiles : q = on[g] /\ at'[g] = "release" => Off(q)'
    /\ \A q \in Profiles : Guards(q)' =>
          \/ Guards(q) /\ (q = on[g] /\ at[g] = "release" => Guarding(q))
          \/ q = on[g] /\ ~Off(q)

\* Whoever is not about to guard DNS itself leaves that to others.
LEMMA GuardsStill ==
    ASSUME NEW g \in Goroutines, UNCHANGED guarded, at'[g] # "guard",
           \A f \in Goroutines \ {g} : at'[f] = at[f] /\ on'[f] = on[f]
    PROVE  \A q \in Profiles : Guards(q)' => Guards(q)
BY DEF Guards, Guarding

LEMMA CallSteps ==
    ASSUME HandlesOK, CallsOK, NEW g \in Requests, on[g] \in Profiles, CallStep(g)
    PROVE  Moves(g) /\ Effects(g)
<1>p. PICK p \in Profiles : p = on[g]
  OBVIOUS
<1>0. g \in Goroutines /\ DOMAIN at = Goroutines /\ DOMAIN on = Goroutines
  BY DEF Goroutines, CallsOK
<1> USE DEF ConnectSteps, DisconnectSteps
<1>a. ASSUME NEW step \in ConnectSteps \cup DisconnectSteps, Goto(g, step),
             \/ at[g] \in ConnectSteps /\ step \in ConnectSteps
             \/ at[g] \in DisconnectSteps /\ step \in DisconnectSteps,
             step = "dial" => at[g] = "check", step = "release" => at[g] = "hangup",
             step = "guard" => at[g] = "attach"
      PROVE  Moves(g) /\ at'[g] = step
  BY <1>0, <1>a DEF Goto, Moves
<1>b. ASSUME NEW result, Return(g, result), at[g] \in ConnectSteps \cup DisconnectSteps
      PROVE  Moves(g) /\ at'[g] = "idle"
  BY <1>0, <1>b DEF Return, Moves
<1>c. ASSUME UNCHANGED adapterVars PROVE HandlesOK' /\ kind' = kind /\ \A q : Off(q) => Off(q)'
  BY <1>c DEF adapterVars, fixedVars, HandlesOK, Off, HasTunnelInfo
<1>e. ASSUME Moves(g), at'[g] = "guard" => ~Off(p),
             guarded' \subseteq guarded \cup (IF at[g] = "guard" THEN {p} ELSE {}),
             at[g] = "release" => p \notin guarded',
             NEW q \in Profiles, Guards(q)'
      PROVE  \/ Guards(q) /\ (q = p /\ at[g] = "release" => Guarding(q))
             \/ q = p /\ ~Off(q)
  <2>1. CASE q \in guarded'
    BY <1>0, <1>e, <1>p, <2>1 DEF Guards, Guarding
  <2>2. CASE Guarding(q)'
    <3>1. PICK f \in Goroutines : on'[f] = q /\ at'[f] = "guard"
      BY <2>2 DEF Guarding
    <3>2. CASE f = g
      BY <1>e, <1>p, <3>1, <3>2 DEF Moves
    <3>3. CASE f # g
      BY <1>e, <3>1, <3>3 DEF Moves, Guards, Guarding
    <3>4. QED
      BY <3>2, <3>3
  <2>3. QED
    BY <1>e, <2>1, <2>2 DEF Guards
<1>d. ASSUME Moves(g), at'[g] # "guard", at[g] # "guard", NEW down \in BOOLEAN, NEW same \in BOOLEAN, Leaves(p, down, same),
             guarded' = guarded, at[g] # "release",
             same \/ (at[g] = "dial" /\ at'[g] = "mark"), at'[g] = "release" => down
      PROVE  Effects(g)
  <2>1. HandlesOK' /\ kind' = kind
    BY <1>d DEF Leaves
  <2>2. \A q \in Profiles \ {p} : Off(q) => Off(q)'
    BY <1>d DEF Leaves
  <2>3. Off(p) => Off(p)' \/ (at[g] = "dial" /\ at'[g] = "mark")
    BY <1>d DEF Leaves
  <2>4. at'[g] = "release" => Off(p)'
    BY <1>d DEF Leaves
  <2>5. \A q \in Profiles : Guards(q)' =>
           \/ Guards(q) /\ (q = p /\ at[g] = "release" => Guarding(q))
           \/ q = p /\ ~Off(q)
    BY <1>d, <1>e
  <2>6. QED
    BY <1>p, <2>1, <2>2, <2>3, <2>4, <2>5 DEF Effects
<1>1. CASE Preflight(g)
  <2>1. Return(g, "failed") /\ at[g] = "check" /\ UNCHANGED <<adapterVars, guarded>>
    BY <1>1 DEF Preflight, serviceVars
  <2>2. Moves(g) /\ at'[g] = "idle"
    BY <1>b, <2>1
  <2>3. Effects(g)
    BY <1>c, <1>e, <1>p, <2>1, <2>2 DEF Effects
  <2>4. QED
    BY <2>2, <2>3
<1>2. CASE CheckStatus(g)
  <2>1. PICK s \in Statuses : StatusCall(p, s) /\ Goto(g, IF s = "connected" THEN "mark" ELSE "dial")
    BY <1>2, <1>p DEF CheckStatus
  <2>2. at[g] = "check" /\ guarded' = guarded
    BY <1>2 DEF CheckStatus, serviceVars
  <2>3. PICK step \in {"mark", "dial"} : Goto(g, step)
    BY <2>1
  <2>4. Moves(g) /\ at'[g] = step
    BY <1>a, <2>2, <2>3
  <2>5. Leaves(p, FALSE, TRUE)
    BY <2>1, StatusLeaves
  <2>6. Effects(g)
    BY <1>d, <2>2, <2>4, <2>5
  <2>7. QED
    BY <2>4, <2>6
<1>3. CASE Dial(g)
  <2>1. at[g] = "dial" /\ guarded' = guarded
    BY <1>3 DEF Dial, serviceVars
  <2>2. CASE ConnectCall(p, TRUE) /\ Goto(g, "mark")
    <3>1. Moves(g) /\ at'[g] = "mark"
      BY <1>a, <2>1, <2>2
    <3>2. Leaves(p, FALSE, FALSE)
      BY <2>2, ConnectLeaves
    <3>3. QED
      BY <1>d, <2>1, <3>1, <3>2
  <2>3. CASE ConnectCall(p, FALSE) /\ Return(g, "failed")
    <3>1. Moves(g) /\ at'[g] = "idle"
      BY <1>b, <2>1, <2>3
    <3>2. Leaves(p, FALSE, TRUE)
      BY <2>3, ConnectLeaves
    <3>3. QED
      BY <1>d, <2>1, <3>1, <3>2
  <2>4. QED
    BY <1>3, <1>p, <2>2, <2>3 DEF Dial
<1>4. CASE Mark(g)
  <2>1. at[g] = "mark" /\ Goto(g, "attach") /\ UNCHANGED <<adapterVars, guarded>>
    BY <1>4 DEF Mark, serviceVars
  <2>2. Moves(g) /\ at'[g] = "attach"
    BY <1>a, <2>1
  <2>3. Effects(g)
    BY <1>c, <1>e, <1>p, <2>1, <2>2 DEF Effects
  <2>4. QED
    BY <2>2, <2>3
<1>5. CASE Attach(g)
  <2>1. /\ at[g] = "attach" /\ UNCHANGED <<adapterVars, guarded>>
        /\ Return(g, "succeeded") \/ (HasTunnelInfo(p) /\ Goto(g, "guard"))
    BY <1>5, <1>p DEF Attach
  <2>2. CASE Return(g, "succeeded")
    <3>1. Moves(g) /\ at'[g] = "idle"
      BY <1>b, <2>1, <2>2
    <3>2. Effects(g)
      BY <1>c, <1>e, <1>p, <2>1, <3>1 DEF Effects
    <3>3. QED
      BY <3>1, <3>2
  <2>3. CASE HasTunnelInfo(p) /\ Goto(g, "guard")
    <3>1. Moves(g) /\ at'[g] = "guard"
      BY <1>a, <2>1, <2>3
    <3>2. ~Off(p)
      BY <2>3 DEF Off
    <3>3. Effects(g)
      BY <1>c, <1>e, <1>p, <2>1, <3>1, <3>2 DEF Effects
    <3>4. QED
      BY <3>1, <3>3
  <2>4. QED
    BY <2>1, <2>2, <2>3
<1>10. CASE Guard(g)
  <2>1. /\ at[g] = "guard" /\ UNCHANGED adapterVars /\ guarded' = guarded \cup {p}
        /\ Return(g, "succeeded")
    BY <1>10, <1>p DEF Guard
  <2>2. Moves(g) /\ at'[g] = "idle"
    BY <1>b, <2>1
  <2>3. Effects(g)
    BY <1>c, <1>e, <1>p, <2>1, <2>2 DEF Effects
  <2>4. QED
    BY <2>2, <2>3
<1>6. CASE Intend(g)
  <2>1. at[g] = "intend" /\ Goto(g, "hangup") /\ UNCHANGED <<adapterVars, guarded>>
    BY <1>6 DEF Intend
  <2>2. Moves(g) /\ at'[g] = "hangup"
    BY <1>a, <2>1
  <2>3. Effects(g)
    BY <1>c, <1>e, <1>p, <2>1, <2>2 DEF Effects
  <2>4. QED
    BY <2>2, <2>3
<1>7. CASE HangUp(g)
  <2>1. at[g] = "hangup" /\ guarded' = guarded
    BY <1>7 DEF HangUp, serviceVars
  <2>2. CASE DisconnectCall(p, TRUE) /\ Goto(g, "release")
    <3>1. Moves(g) /\ at'[g] = "release"
      BY <1>a, <2>1, <2>2
    <3>2. Leaves(p, TRUE, TRUE)
      BY <2>2, DisconnectLeaves
    <3>3. QED
      BY <1>d, <2>1, <3>1, <3>2
  <2>3. CASE DisconnectCall(p, FALSE) /\ Return(g, "failed")
    <3>1. Moves(g) /\ at'[g] = "idle"
      BY <1>b, <2>1, <2>3
    <3>2. Leaves(p, FALSE, TRUE)
      BY <2>3, DisconnectLeaves
    <3>3. QED
      BY <1>d, <2>1, <3>1, <3>2
  <2>4. QED
    BY <1>7, <1>p, <2>2, <2>3 DEF HangUp
<1>8. CASE Release(g)
  <2>1. at[g] = "release" /\ Return(g, "succeeded") /\ UNCHANGED adapterVars
        /\ guarded' = guarded \ {p}
    BY <1>8, <1>p DEF Release
  <2>2. Moves(g) /\ at'[g] = "idle"
    BY <1>b, <2>1
  <2>3. Effects(g)
    BY <1>c, <1>e, <1>p, <2>1, <2>2 DEF Effects
  <2>4. QED
    BY <2>2, <2>3
<1>9. QED
  BY <1>1, <1>2, <1>3, <1>4, <1>5, <1>6, <1>7, <1>8, <1>10 DEF CallStep
----------------------------------------------------------------------------
(* The table of pending connects *)

LEMMA HandsFull ==
    ASSUME JobsOK, NEW h \in Handlers, job[h].step # "none"
    PROVE  /\ job[h] \in [kind : {"connect", "disconnect", "reload"},
                          step : {"look", "start", "cancel", "disconnect"},
                          todo : Seq(Profiles) \ {<<>>}]
           /\ Subject(h) \in Profiles
<1>1. NoJob.step = "none"
  BY DEF NoJob
<1>2. job[h].todo \in Seq(Profiles) /\ job[h].todo # <<>>
      /\ job[h] \in [kind : {"connect", "disconnect", "reload"},
                     step : {"look", "start", "cancel", "disconnect"},
                     todo : Seq(Profiles) \ {<<>>}]
  BY <1>1 DEF JobsOK
<1>3. QED
  BY <1>2, HeadTailProperties DEF Subject

LEMMA AttemptStarts ==
    ASSUME ControlAssumption, NamesAssumption, TableOK, CalmOK, SweptOK,
           NEW a \in Attempts, NEW p \in Profiles, MayStart(p), StartAttempt(a, p),
           server' = server
    PROVE  TableOK' /\ CalmOK' /\ SweptOK'
<1> USE DEF StartAttempt, MayStart, ControlAssumption, NamesAssumption
<1>1. TableOK'
  <2>1. /\ entry' \in [Profiles -> Attempts \cup {NoAttempt}]
        /\ attempt' \in [Attempts -> {"free", "connecting", "clearing"}]
        /\ of' \in [Attempts -> Profiles \cup {NoProfile}]
        /\ \A b \in Attempts : attempt'[b] # "free" => of'[b] \in Profiles
        /\ cancelled' \subseteq {b \in Attempts : attempt'[b] # "free"}
    BY DEF TableOK
  <2>2. PendingIsRunning'
    BY DEF TableOK, PendingIsRunning
  <2>3. QED
    BY <2>1, <2>2 DEF TableOK
<1>2. CalmOK'
  BY DEF TableOK, CalmOK
<1>3. SweptOK'
  BY DEF TableOK, SweptOK
<1>4. QED
  BY <1>1, <1>2, <1>3

LEMMA PendingCancelled ==
    ASSUME ControlAssumption, NamesAssumption, TableOK, CalmOK, SweptOK,
           NEW p \in Profiles, CancelPending(p), server' = server
    PROVE  TableOK' /\ CalmOK' /\ SweptOK'
<1> USE DEF CancelPending, Cancels, ControlAssumption, NamesAssumption
<1>1. TableOK'
  <2>1. /\ entry' \in [Profiles -> Attempts \cup {NoAttempt}]
        /\ UNCHANGED <<attempt, of>>
        /\ cancelled' \subseteq {b \in Attempts : attempt'[b] # "free"}
    BY DEF TableOK, PendingIsRunning
  <2>2. PendingIsRunning'
    BY DEF TableOK, PendingIsRunning
  <2>3. QED
    BY <2>1, <2>2 DEF TableOK
<1>2. CalmOK'
  BY DEF TableOK, CalmOK
<1>3. SweptOK'
  BY DEF TableOK, SweptOK
<1>4. QED
  BY <1>1, <1>2, <1>3

LEMMA TablesKept ==
    ASSUME ControlAssumption, NamesAssumption, TableOK, CalmOK, SweptOK, JobsOK, [Next]_vars
    PROVE  TableOK' /\ CalmOK' /\ SweptOK'
<1> DEFINE Same == UNCHANGED <<entry, of, cancelled, late, calm>>
<1>1. ASSUME Same, UNCHANGED attempt, server' = server \/ (server = "swept" /\ server' = "closed")
      PROVE  TableOK' /\ CalmOK' /\ SweptOK'
  BY <1>1 DEF TableOK, CalmOK, SweptOK, PendingIsRunning
<1>2. ASSUME NEW h \in Handlers, Handle(h) PROVE TableOK' /\ CalmOK' /\ SweptOK'
  <2>1. ASSUME NEW k \in {"connect", "disconnect", "reload"}, NEW ps \in Targets, Accept(h, k, ps)
        PROVE  TableOK' /\ CalmOK' /\ SweptOK'
    BY <1>1, <2>1 DEF Accept, tableVars, historyVars
  <2>2. CASE Look(h)
    BY <1>1, <2>2 DEF Look, tableVars, historyVars
  <2>3. CASE StartConnect(h)
    <3>1. Subject(h) \in Profiles
      BY <2>3, HandsFull DEF StartConnect
    <3>2. PICK p \in Profiles : p = Subject(h)
      BY <3>1
    <3>3. CASE MayStart(p)
      <4>1. PICK a \in Attempts : StartAttempt(a, p)
        BY <2>3, <3>2, <3>3 DEF StartConnect
      <4>2. QED
        BY <2>3, <3>3, <4>1, AttemptStarts DEF StartConnect
    <3>4. CASE ~MayStart(p)
      BY <1>1, <2>3, <3>2, <3>4 DEF StartConnect, tableVars, historyVars
    <3>5. QED
      BY <3>3, <3>4
  <2>4. CASE CancelFirst(h)
    <3>1. PICK p \in Profiles : p = Subject(h)
      BY <2>4, HandsFull DEF CancelFirst
    <3>2. CancelPending(p) /\ server' = server
      BY <2>4, <3>1 DEF CancelFirst
    <3>3. QED
      BY <3>2, PendingCancelled
  <2>5. CASE Disconnecting(h)
    BY <1>1, <2>5 DEF Disconnecting, tableVars
  <2>6. QED
    BY <1>2, <2>1, <2>2, <2>3, <2>4, <2>5 DEF Handle
<1>3. ASSUME NEW a \in Attempts, Connecting(a) PROVE TableOK' /\ CalmOK' /\ SweptOK'
  <2>1. Same /\ server' = server
    BY <1>3 DEF Connecting, historyVars
  <2>2. attempt[a] = "connecting" /\ (attempt' = attempt \/ attempt' = [attempt EXCEPT ![a] = "clearing"])
    BY <1>3 DEF Connecting
  <2>3. \A b \in Attempts : /\ attempt'[b] # "free" <=> attempt[b] # "free"
                            /\ attempt'[b] = "connecting" => attempt[b] = "connecting"
    BY <2>2 DEF TableOK
  <2>4. attempt' \in [Attempts -> {"free", "connecting", "clearing"}]
    BY <2>2 DEF TableOK
  <2>5. PendingIsRunning'
    BY <2>1, <2>3 DEF TableOK, PendingIsRunning
  <2>6. TableOK'
    BY <2>1, <2>3, <2>4, <2>5 DEF TableOK
  <2>7. CalmOK' /\ SweptOK'
    BY <2>1, <2>3 DEF CalmOK, SweptOK
  <2>8. QED
    BY <2>6, <2>7
<1>4. ASSUME NEW a \in Attempts, Clear(a) PROVE TableOK' /\ CalmOK' /\ SweptOK'
  <2> USE DEF Clear, Cleared
  <2>1. PICK p \in Profiles : p = of[a]
    BY <1>4 DEF TableOK
  <2>2. /\ entry' = [entry EXCEPT ![p] = NoAttempt]
        /\ attempt' = [attempt EXCEPT ![a] = "free"] /\ of' = [of EXCEPT ![a] = NoProfile]
        /\ cancelled' = cancelled \ {a} /\ late' = late \ {a} /\ UNCHANGED <<server, calm>>
    BY <1>4, <2>1
  <2>3. PendingIsRunning'
    BY <2>1, <2>2 DEF TableOK, PendingIsRunning, ControlAssumption
  <2>4. TableOK'
    BY <2>2, <2>3 DEF TableOK
  <2>5. CalmOK'
    BY <1>4, <2>1, <2>2, NamesAssumption DEF TableOK, CalmOK, NamesAssumption
  <2>6. SweptOK'
    BY <2>2 DEF TableOK, SweptOK
  <2>7. QED
    BY <2>4, <2>5, <2>6
<1>5. CASE Sweep
  <2> USE DEF Sweep, Swept
  <2>1. PendingIsRunning'
    BY <1>5 DEF PendingIsRunning
  <2>2. TableOK'
    BY <1>5, <2>1 DEF TableOK, PendingIsRunning
  <2>3. CalmOK'
    BY <1>5 DEF TableOK, CalmOK, ControlAssumption
  <2>4. ASSUME NEW a \in Attempts, attempt[a] = "connecting" PROVE a \in cancelled' \cup late'
    <3>1. of[a] \in Profiles /\ a \in Running(of[a])
      BY <2>4 DEF TableOK, Running
    <3>2. PICK p \in Profiles : p = of[a] /\ a \in Running(p)
      BY <3>1
    <3>3. CASE a = entry[p]
      BY <1>5, <3>2, <3>3 DEF ControlAssumption
    <3>4. CASE a # entry[p] /\ a \notin cancelled
      <4>1. a \in Orphans(p)
        BY <3>2, <3>4 DEF Orphans
      <4>2. QED
        BY <1>5, <4>1
    <3>5. CASE a \in cancelled
      BY <1>5, <3>5
    <3>6. QED
      BY <3>3, <3>4, <3>5
  <2>5. SweptOK'
    BY <1>5, <2>4 DEF SweptOK
  <2>6. QED
    BY <2>2, <2>3, <2>5
<1>6. CASE Tick \/ Enforcing \/ PassEnds \/ Close
  BY <1>1, <1>6 DEF Tick, Enforcing, PassEnds, Close, tableVars, historyVars
<1>7. ASSUME NEW p \in Profiles, Enforce(p) \/ Drop(p) PROVE TableOK' /\ CalmOK' /\ SweptOK'
  BY <1>1, <1>7 DEF Enforce, Drop, tableVars, historyVars
<1>8. CASE UNCHANGED vars
  BY <1>1, <1>8 DEF vars, tableVars, historyVars
<1>9. QED
  BY <1>2, <1>3, <1>4, <1>5, <1>6, <1>7, <1>8 DEF Next

\* A handler goes on to the next tunnel, or is done.
LEMMA NextInHand ==
    ASSUME JobsOK, NEW h \in Handlers, job[h].step # "none", NextTunnel(h)
    PROVE  /\ JobsOK' /\ job'[h].step # "disconnect" /\ \A g \in Handlers \ {h} : job'[g] = job[g]
<1>1. PICK k \in {"connect", "disconnect", "reload"},
           s \in {"look", "start", "cancel", "disconnect"}, todo \in Seq(Profiles) \ {<<>>} :
         job[h] = [kind |-> k, step |-> s, todo |-> todo]
  BY HandsFull
<1>2. PICK j : j = [kind |-> k, step |-> FirstStep(k), todo |-> Tail(todo)]
  OBVIOUS
<1>3. job' = [job EXCEPT ![h] = IF Len(todo) = 1 THEN NoJob ELSE j]
  <2>1. job' = [job EXCEPT ![h] =
                   IF Len(job[h].todo) = 1 THEN NoJob
                   ELSE [kind |-> job[h].kind, step |-> FirstStep(job[h].kind),
                         todo |-> Tail(job[h].todo)]]
    BY DEF NextTunnel
  <2>2. job[h].todo = todo /\ job[h].kind = k
    BY <1>1
  <2>3. QED
    BY <1>2, <2>1, <2>2
<1>4. Len(todo) # 1 => Tail(todo) \in Seq(Profiles) \ {<<>>}
  <2>1. todo \in Seq(Profiles) /\ todo # <<>> /\ Len(todo) \in Nat /\ Len(todo) # 0
    BY EmptySeq
  <2>2. Tail(todo) \in Seq(Profiles) /\ Len(Tail(todo)) = Len(todo) - 1
    BY <2>1, HeadTailProperties
  <2>3. Len(<<>>) = 0
    BY EmptySeq
  <2>4. Len(todo) # 1 => Len(Tail(todo)) # Len(<<>>)
    BY <2>1, <2>2, <2>3
  <2>5. QED
    BY <2>2, <2>4, Zenon
<1>5. FirstStep(k) \in {"look", "cancel"}
  BY DEF FirstStep
<1>6. Len(todo) # 1 => j \in [kind : {"connect", "disconnect", "reload"},
                              step : {"look", "start", "cancel", "disconnect"},
                              todo : Seq(Profiles) \ {<<>>}] /\ j.step # "disconnect"
                    /\ (j.step = "look" => j.kind # "disconnect")
  BY <1>2, <1>4, <1>5 DEF FirstStep
<1>7. NoJob.step \notin {"disconnect", "look"}
  BY DEF NoJob
<1>8. DOMAIN job = Handlers
  BY DEF JobsOK
<1>9. /\ \A g \in Handlers \ {h} : job'[g] = job[g]
      /\ DOMAIN job' = Handlers /\ job'[h] = IF Len(todo) = 1 THEN NoJob ELSE j
  BY <1>3, <1>8
<1>10. QED
  BY <1>6, <1>7, <1>9 DEF JobsOK

LEMMA StepInHand ==
    ASSUME JobsOK, NEW h \in Handlers, job[h].step # "none",
           NEW step \in {"start", "cancel", "disconnect"}, Turn(h, step)
    PROVE  /\ JobsOK' /\ job'[h].step = step /\ \A g \in Handlers \ {h} : job'[g] = job[g]
           /\ job'[h].todo = job[h].todo
<1>1. PICK k \in {"connect", "disconnect", "reload"},
           s \in {"look", "start", "cancel", "disconnect"}, todo \in Seq(Profiles) \ {<<>>} :
         job[h] = [kind |-> k, step |-> s, todo |-> todo]
  BY HandsFull
<1>2. PICK j : j = [kind |-> k, step |-> step, todo |-> todo]
  OBVIOUS
<1>3. job' = [job EXCEPT ![h] = j] /\ DOMAIN job = Handlers
  <2>1. job' = [job EXCEPT ![h] = [job[h] EXCEPT !.step = step]]
    BY DEF Turn
  <2>2. [job[h] EXCEPT !.step = step] = j
    BY <1>1, <1>2
  <2>3. QED
    BY <2>1, <2>2 DEF JobsOK
<1>4. j \in [kind : {"connect", "disconnect", "reload"},
             step : {"look", "start", "cancel", "disconnect"},
             todo : Seq(Profiles) \ {<<>>}] /\ j.step = step /\ j.todo = todo
  BY <1>2
<1>5. job[h].todo = todo
  BY <1>1
<1>6. QED
  BY <1>3, <1>4, <1>5 DEF JobsOK
----------------------------------------------------------------------------
(* Calls and their adapters *)

LEMMA Goers ==
    ASSUME ControlAssumption, NamesAssumption
    PROVE  /\ Handlers \subseteq Requests /\ Attempts \subseteq Requests /\ Scheduler \in Requests
           /\ Requests \subseteq Goroutines
           /\ \A p \in Profiles : p \in Goroutines /\ p \notin Requests
           /\ \A h \in Handlers : h \notin Attempts /\ h # Scheduler
           /\ Scheduler \notin Attempts
BY DEF ControlAssumption, NamesAssumption, Goroutines

\* What is left alone by steps that move nobody.
Still == UNCHANGED <<at, on, inside, doomed>>

\* A handler's steps other than in a call, and the steps of others.
LEMMA CallsStill ==
    ASSUME CallsOK, UNCHANGED <<at, on, inside>>,
           \A h \in Handlers : /\ job'[h].step = "disconnect" <=> job[h].step = "disconnect"
                               /\ job[h].step = "disconnect" => job'[h].todo = job[h].todo,
           \A a \in Attempts : /\ attempt'[a] = "connecting" <=> attempt[a] = "connecting"
                               /\ attempt[a] = "connecting" => of'[a] = of[a]
    PROVE  CallsOK'
<1>1. \A h \in Handlers : HandlerOK(h)'
  BY DEF CallsOK, HandlerOK, Subject
<1>2. \A a \in Attempts : AttemptOK(a)'
  BY DEF CallsOK, AttemptOK
<1>3. QED
  BY <1>1, <1>2 DEF CallsOK

\* One of an attempt's or the scheduler's steps.
LEMMA ServiceSteps ==
    ASSUME ControlAssumption, NamesAssumption, HandlesOK, CallsOK,
           NEW g \in Attempts \cup {Scheduler}, at[g] # "idle" => on[g] \in Profiles,
           ServiceStep(g)
    PROVE  /\ at[g] # "idle" /\ on[g] \in Profiles
           /\ \/ /\ at[g] = "dial" /\ g \notin inside /\ Unheld(g, on[g])
                 /\ inside' = inside \cup {g}
                 /\ doomed' = IF g \in cancelled /\ kind[on[g]] \notin Deaf
                              THEN doomed \cup {g} ELSE doomed
                 /\ UNCHANGED <<at, on, adapterVars, guarded>>
              \/ /\ Moves(g) /\ Effects(g)
                 /\ at[g] = "dial" /\ g \in inside
                 /\ g \in doomed => at'[g] = "idle"
                 /\ inside' = inside \ {g} /\ doomed' = doomed \ {g}
              \/ /\ Moves(g) /\ Effects(g)
                 /\ at[g] # "dial" /\ UNCHANGED <<inside, doomed>>
<1>1. g \in Requests
  BY Goers
<1>2. CASE EnterConnect(g)
  BY <1>2 DEF EnterConnect, callVars, serviceVars
<1>3. CASE LeaveConnect(g)
  <2>1. CallStep(g) /\ at[g] = "dial"
    BY <1>3 DEF LeaveConnect, CallStep, Dial
  <2>2. Moves(g) /\ Effects(g) /\ on[g] \in Profiles
    BY <1>1, <2>1, CallSteps
  <2>3. QED
    BY <1>3, <2>1, <2>2 DEF LeaveConnect
<1>4. CASE OtherStep(g)
  <2>1. CallStep(g) /\ at[g] # "dial" /\ UNCHANGED <<inside, doomed>>
    BY <1>4 DEF OtherStep, dialVars
  <2>2. at[g] # "idle"
    BY <2>1 DEF CallStep, Preflight, CheckStatus, Dial, Mark, Attach, Guard, Intend, HangUp, Release
  <2>3. Moves(g) /\ Effects(g) /\ on[g] \in Profiles
    BY <1>1, <2>1, <2>2, CallSteps
  <2>4. QED
    BY <2>1, <2>2, <2>3
<1>5. QED
  BY <1>2, <1>3, <1>4 DEF ServiceStep

\* Then the calls of the others are as they were.
LEMMA CallsServed ==
    ASSUME ControlAssumption, NamesAssumption, HandlesOK, CallsOK,
           NEW g \in Attempts \cup {Scheduler}, at[g] # "idle" => on[g] \in Profiles,
           ServiceStep(g), UNCHANGED <<job, of>>,
           g \in Attempts => /\ attempt[g] = "connecting" /\ DOMAIN attempt = Attempts
                             /\ attempt' = IF at'[g] = "idle"
                                           THEN [attempt EXCEPT ![g] = "clearing"] ELSE attempt,
           g = Scheduler => attempt' = attempt
    PROVE  CallsOK'
<1>1. /\ DOMAIN at' = DOMAIN at /\ DOMAIN on' = DOMAIN on
      /\ \A f \in Goroutines \ {g} : at'[f] = at[f] /\ on'[f] = on[f]
      /\ on'[g] = IF at'[g] = "idle" THEN NoProfile ELSE on[g]
      /\ at[g] \in ConnectSteps => at'[g] \in ConnectSteps \cup {"idle"}
      /\ at[g] \in DisconnectSteps => at'[g] \in DisconnectSteps \cup {"idle"}
      /\ at[g] # "idle" /\ on[g] \in Profiles
  <2>1. /\ at[g] # "idle" /\ on[g] \in Profiles
        /\ UNCHANGED <<at, on>> \/ Moves(g)
    BY ServiceSteps
  <2>2. CASE UNCHANGED <<at, on>>
    BY <2>1, <2>2
  <2>3. CASE Moves(g)
    BY <2>1, <2>3 DEF Moves, ConnectSteps, DisconnectSteps
  <2>4. QED
    BY <2>1, <2>2, <2>3
<1>2. g \in Requests /\ g \in Goroutines /\ g \notin Handlers /\ g \notin Profiles
  BY Goers
<1>3. \A h \in Handlers : HandlerOK(h)'
  BY <1>1, <1>2, Goers DEF CallsOK, HandlerOK, Subject
<1>4. \A a \in Attempts : AttemptOK(a)'
  <2>1. ASSUME NEW a \in Attempts PROVE AttemptOK(a)'
    <3>1. CASE a = g
      <4>1. at[a] \in ConnectSteps /\ on[a] = of[a]
        BY <3>1 DEF CallsOK, AttemptOK
      <4>2. attempt'[a] = IF at'[a] = "idle" THEN "clearing" ELSE "connecting"
        BY <3>1
      <4>3. QED
        BY <1>1, <3>1, <4>1, <4>2 DEF AttemptOK
    <3>2. CASE a # g
      BY <1>1, <1>2, <3>2, Goers DEF CallsOK, AttemptOK
    <3>3. QED
      BY <3>1, <3>2
  <2>2. QED
    BY <2>1
<1>5. inside' \subseteq {f \in Attempts \cup {Scheduler} : at'[f] = "dial"}
      /\ \A f, h \in inside' : on'[f] = on'[h] => f = h
  <2>1. inside \subseteq Goroutines
    BY Goers DEF CallsOK
  <2>2. CASE at[g] = "dial" /\ g \notin inside /\ Unheld(g, on[g]) /\ inside' = inside \cup {g}
             /\ UNCHANGED <<at, on>>
    BY <2>2 DEF CallsOK, Unheld
  <2>3. CASE at[g] = "dial" /\ inside' = inside \ {g}
    BY <1>1, <2>1, <2>3 DEF CallsOK
  <2>4. CASE at[g] # "dial" /\ UNCHANGED inside
    BY <1>1, <2>1, <2>4 DEF CallsOK
  <2>5. QED
    BY <2>2, <2>3, <2>4, ServiceSteps
<1>6. /\ \A f \in Requests : at'[f] = "idle" => on'[f] = NoProfile
      /\ \A p \in Profiles : at'[p] = "idle" /\ on'[p] = NoProfile
      /\ at'[Scheduler] \in ConnectSteps \cup DisconnectSteps \cup {"idle"}
      /\ at'[Scheduler] # "idle" => on'[Scheduler] \in Profiles
  <2>1. \A f \in Requests : at'[f] = "idle" => on'[f] = NoProfile
    BY <1>1, Goers DEF CallsOK
  <2>2. \A p \in Profiles : at'[p] = "idle" /\ on'[p] = NoProfile
    BY <1>1, <1>2, Goers DEF CallsOK
  <2>3. CASE g = Scheduler
    BY <1>1, <2>1, <2>2, <2>3 DEF CallsOK
  <2>4. CASE g # Scheduler
    BY <1>1, <2>1, <2>2, <2>4, Goers DEF CallsOK
  <2>5. QED
    BY <2>3, <2>4
<1>7. QED
  BY <1>1, <1>3, <1>4, <1>5, <1>6 DEF CallsOK

\* A step that is no call's changes the adapters' answers at most.
LEMMA QuietSteps ==
    ASSUME HandlesOK', kind' = kind, \A q \in Profiles : Off(q) => Off(q)',
           PartingOK, DownOK,
           UNCHANGED <<at, on, inside, doomed, last, escaped, slipped, guarded>>,
           \A a \in Attempts : attempt'[a] = "connecting" =>
              attempt[a] = "connecting" /\ of'[a] = of[a] /\ (a \in cancelled => a \in cancelled')
    PROVE  PartingOK' /\ DownOK'
<1>1. ASSUME NEW p \in Profiles
      PROVE  (Parting(p)' <=> Parting(p)) /\ (Parted(p)' <=> Parted(p))
  BY DEF Parting, Parted
<1>2. ASSUME NEW p \in Profiles PROVE Running(p)' \subseteq Running(p)
  BY DEF Running
<1>3. \A p \in Profiles, a \in Attempts : a \in Running(p)' /\ a \in cancelled => a \in cancelled'
  BY DEF Running
<1>4. PartingOK'
  BY <1>1, <1>2, <1>3 DEF PartingOK, Running
<1>5. DownOK'
  <2>1. \A p \in Profiles : Guards(p)' <=> Guards(p)
    BY DEF Guards, Guarding
  <2>2. QED
    BY <1>1, <2>1 DEF DownOK
<1>6. QED
  BY <1>4, <1>5

LEMMA NothingAsked ==
    ASSUME HandlesOK, UNCHANGED adapterVars
    PROVE  HandlesOK' /\ kind' = kind /\ \A q \in Profiles : Off(q) => Off(q)'
BY DEF adapterVars, fixedVars, HandlesOK, Off, HasTunnelInfo
----------------------------------------------------------------------------
(* What a disconnect has answered for *)

Served == JobsOK /\ CallsOK /\ HandlesOK /\ PartingOK /\ DownOK

\* A new attempt has the last word.
LEMMA ServedStart ==
    ASSUME ControlAssumption, NamesAssumption, TableOK, Served,
           NEW h \in Handlers, StartConnect(h)
    PROVE  Served'
<1>0. job[h].step = "start"
  BY DEF StartConnect
<1>1. PICK p \in Profiles : p = Subject(h)
  BY <1>0, HandsFull DEF Served
<1>2. JobsOK' /\ job'[h].step # "disconnect" /\ \A k \in Handlers \ {h} : job'[k] = job[k]
  BY <1>0, NextInHand DEF Served, StartConnect
<1>3. /\ HandlesOK' /\ kind' = kind
      /\ \A q \in Profiles : Off(q) => Off(q)'
  BY NothingAsked DEF Served, StartConnect
<1>4. CASE MayStart(p)
  <2>1. PICK a \in Attempts : StartAttempt(a, p)
    BY <1>1, <1>4 DEF StartConnect
  <2>2. /\ attempt[a] = "free" /\ attempt' = [attempt EXCEPT ![a] = "connecting"]
        /\ of' = [of EXCEPT ![a] = p]
        /\ at' = [at EXCEPT ![a] = "check"] /\ on' = [on EXCEPT ![a] = p]
        /\ last' = [last EXCEPT ![p] = "connect"]
        /\ UNCHANGED <<inside, doomed, cancelled, escaped, slipped, guarded>>
    BY <1>1, <1>4, <2>1 DEF StartAttempt, Begin, StartConnect, dialVars, serviceVars
  <2>3. /\ \A g \in Goroutines \ {a} : at'[g] = at[g] /\ on'[g] = on[g]
        /\ at'[a] = "check" /\ on'[a] = p
        /\ DOMAIN at' = Goroutines /\ DOMAIN on' = Goroutines
        /\ a \in Goroutines /\ a \notin Handlers /\ a # Scheduler /\ a \notin Profiles
        /\ at[a] = "idle"
    BY <2>2, Goers DEF Served, CallsOK, AttemptOK
  <2>4. CallsOK'
    <3>1. \A k \in Handlers : HandlerOK(k)'
      BY <1>0, <1>2, <2>3, Goers DEF Served, CallsOK, HandlerOK, Subject
    <3>2. \A b \in Attempts : AttemptOK(b)'
      BY <2>2, <2>3, Goers DEF Served, CallsOK, AttemptOK, TableOK, ConnectSteps
    <3>3. inside \subseteq Goroutines \ {a}
      BY <2>3, Goers DEF Served, CallsOK
    <3>4. QED
      BY <2>2, <2>3, <3>1, <3>2, <3>3, Goers DEF Served, CallsOK, ConnectSteps
  <2>5. /\ DOMAIN last = Profiles /\ last'[p] = "connect"
        /\ \A q \in Profiles \ {p} : last'[q] = last[q]
        /\ "connect" \notin Handlers
    BY <2>2 DEF Served, DownOK, ControlAssumption
  <2>6. ASSUME NEW q \in Profiles, q # p PROVE Running(q)' \subseteq Running(q)
    BY <2>2, <2>6 DEF Running, TableOK
  <2>7. PartingOK'
    BY <1>3, <2>2, <2>3, <2>5, <2>6, Goers DEF Served, PartingOK, Parting
  <2>8. ASSUME NEW q \in Profiles, Parting(q)'
        PROVE  q # p /\ Parting(q) /\ last'[q] = last[q] /\ (Parted(q)' => Parted(q))
    BY <2>2, <2>3, <2>5, <2>8, Goers DEF Parting, Parted
  <2>9. \A g \in inside : on'[g] = on[g]
    BY <2>3, Goers DEF Served, CallsOK
  <2>10. DownOK'
    <3>1. DOMAIN last' = Profiles
      BY <2>2, <2>5
    <3>2. ASSUME NEW q \in Profiles, Parted(q)'
          PROVE  Off(q)' /\ \A g \in inside' : on'[g] = q => g \in doomed'
      <4>1. Parted(q)
        BY <2>8, <3>2 DEF Parted
      <4>2. QED
        BY <1>3, <2>2, <2>9, <4>1 DEF Served, DownOK
    <3>3. \A q \in Profiles : Guards(q)' => Guards(q)
      BY <2>2, <2>3, GuardsStill
    <3>5. \A q \in Profiles : Parting(q)' /\ last'[q] = "disconnect" => q \in slipped' \/ ~Guards(q)'
      BY <2>2, <2>8, <3>3 DEF Served, DownOK
    <3>4. QED
      BY <3>1, <3>2, <3>5 DEF DownOK
  <2>11. QED
    BY <1>2, <1>3, <2>4, <2>7, <2>10 DEF Served
<1>5. CASE ~MayStart(p)
  <2>1. UNCHANGED <<callVars, tableVars, historyVars, dialVars, serviceVars>>
    BY <1>1, <1>5 DEF StartConnect
  <2>2. CallsOK'
    BY <1>0, <1>2, <2>1, CallsStill DEF Served, callVars, tableVars, dialVars
  <2>3. PartingOK' /\ DownOK'
    BY <1>3, <2>1, QuietSteps
       DEF Served, callVars, tableVars, dialVars, historyVars, serviceVars
  <2>4. QED
    BY <1>2, <1>3, <2>2, <2>3 DEF Served
<1>6. QED
  BY <1>4, <1>5

\* A disconnect cancels what is pending before anything else.
LEMMA ServedCancel ==
    ASSUME ControlAssumption, NamesAssumption, TableOK, Served,
           NEW h \in Handlers, CancelFirst(h)
    PROVE  Served'
<1>0. job[h].step = "cancel" /\ Turn(h, "disconnect")
  BY DEF CancelFirst
<1>1. PICK p \in Profiles : p = Subject(h)
  BY <1>0, HandsFull DEF Served
<1>2. /\ JobsOK' /\ job'[h].step = "disconnect" /\ job'[h].todo = job[h].todo
      /\ \A k \in Handlers \ {h} : job'[k] = job[k]
  BY <1>0, StepInHand DEF Served
<1>3. /\ HandlesOK' /\ kind' = kind
      /\ \A q \in Profiles : Off(q) => Off(q)'
  BY NothingAsked DEF Served, CancelFirst
<1>4. /\ cancelled' = Cancels(p)
      /\ at' = [at EXCEPT ![h] = "intend"] /\ on' = [on EXCEPT ![h] = p]
      /\ UNCHANGED <<inside, doomed, attempt, of, slipped, guarded>>
      /\ escaped' = IF Orphans(p) # {} \/ (kind[p] \in Deaf /\ Running(p) # {})
                    THEN escaped \cup {p} ELSE escaped \ {p}
      /\ last' = IF on[Scheduler] = p THEN last ELSE [last EXCEPT ![p] = h]
  BY <1>1 DEF CancelFirst, CancelPending, Begin, dialVars, serviceVars
<1>5. /\ \A g \in Goroutines \ {h} : at'[g] = at[g] /\ on'[g] = on[g]
      /\ at'[h] = "intend" /\ on'[h] = p
      /\ DOMAIN at' = Goroutines /\ DOMAIN on' = Goroutines
      /\ h \in Goroutines /\ h \notin Attempts /\ h # Scheduler /\ h \notin Profiles
  BY <1>4, Goers DEF Served, CallsOK
<1>6. CallsOK'
  <2>1. ASSUME NEW k \in Handlers PROVE HandlerOK(k)'
    <3>1. CASE k = h
      BY <1>1, <1>2, <1>5, <3>1 DEF HandlerOK, Subject, DisconnectSteps
    <3>2. CASE k # h
      BY <1>2, <1>5, <3>2, Goers DEF Served, CallsOK, HandlerOK, Subject
    <3>3. QED
      BY <3>1, <3>2
  <2>2. \A b \in Attempts : AttemptOK(b)'
    BY <1>4, <1>5, Goers DEF Served, CallsOK, AttemptOK
  <2>3. inside \subseteq Goroutines \ {h}
    BY <1>5, Goers DEF Served, CallsOK
  <2>4. QED
    BY <1>4, <1>5, <2>1, <2>2, <2>3, Goers DEF Served, CallsOK, DisconnectSteps
<1>7. \A q \in Profiles : Running(q)' = Running(q)
  BY <1>4 DEF Running
<1>8. /\ DOMAIN last = Profiles /\ DOMAIN last' = Profiles
      /\ \A q \in Profiles \ {p} : last'[q] = last[q] /\ (q \in escaped' <=> q \in escaped)
      /\ last'[p] = IF on[Scheduler] = p THEN last[p] ELSE h
  BY <1>4 DEF Served, DownOK
<1>9. on'[Scheduler] = on[Scheduler]
  BY <1>5, Goers
<1>10. PartingOK'
  <2>1. ASSUME NEW q \in Profiles, on'[Scheduler] = q
        PROVE  last'[q] \notin Handlers \cup {"disconnect"}
    BY <1>8, <1>9, <2>1 DEF Served, PartingOK
  <2>2. ASSUME NEW q \in Profiles, Parting(q)', NEW a \in Running(q)'
        PROVE  a \in cancelled' /\ kind'[q] \notin Deaf
    <3>1. a \in Running(q)
      BY <1>7, <2>2
    <3>2. CASE q = p
      <4>1. Orphans(p) = {} /\ kind[p] \notin Deaf
        BY <1>4, <2>2, <3>1, <3>2 DEF Parting
      <4>2. a = entry[p] \/ a \in cancelled
        BY <3>1, <3>2, <4>1 DEF Orphans
      <4>3. a # NoAttempt
        BY <3>1 DEF Running, ControlAssumption
      <4>4. QED
        BY <1>3, <1>4, <3>2, <4>1, <4>2, <4>3 DEF Cancels
    <3>3. CASE q # p
      <4>1. Parting(q)
        BY <1>8, <2>2, <3>3 DEF Parting
      <4>2. a \in cancelled /\ kind[q] \notin Deaf
        BY <3>1, <4>1 DEF Served, PartingOK
      <4>3. QED
        BY <1>3, <1>4, <4>2 DEF Cancels
    <3>4. QED
      BY <3>2, <3>3
  <2>3. QED
    BY <2>1, <2>2 DEF PartingOK
<1>11. ASSUME NEW q \in Profiles, Parting(q)', last'[q] = "disconnect" \/ Parted(q)'
       PROVE  Parting(q) /\ last'[q] = last[q] /\ (Parted(q)' => Parted(q))
  <2>1. last'[q] # h
    BY <1>5, <1>11 DEF Parted, ControlAssumption
  <2>2. last'[q] = last[q]
    BY <1>8, <2>1
  <2>3. q # p
    BY <1>8, <1>9, <1>11, <2>1, <2>2 DEF Parting, Served, PartingOK
  <2>4. QED
    BY <1>5, <1>8, <1>11, <2>1, <2>2, <2>3, Goers DEF Parting, Parted
<1>12. DownOK'
  <2>1. \A g \in inside : on'[g] = on[g]
    BY <1>5, Goers DEF Served, CallsOK
  <2>2. ASSUME NEW q \in Profiles, Parted(q)'
        PROVE  Off(q)' /\ \A g \in inside' : on'[g] = q => g \in doomed'
    <3>1. Parted(q)
      BY <1>11, <2>2 DEF Parted
    <3>2. QED
      BY <1>3, <1>4, <2>1, <3>1 DEF Served, DownOK
  <2>5. \A q \in Profiles : Guards(q)' => Guards(q)
    BY <1>4, <1>5, GuardsStill
  <2>3. \A q \in Profiles : Parting(q)' /\ last'[q] = "disconnect" => q \in slipped' \/ ~Guards(q)'
    BY <1>4, <1>11, <2>5 DEF Served, DownOK
  <2>4. QED
    BY <1>8, <2>2, <2>3 DEF DownOK
<1>13. QED
  BY <1>2, <1>3, <1>6, <1>10, <1>12 DEF Served

\* A handler's disconnect takes the tunnel down, then releases the guard, while
\* nobody is inside a Connect that could succeed.
LEMMA ServedDisconnecting ==
    ASSUME ControlAssumption, NamesAssumption, TableOK, Served,
           NEW h \in Handlers, Disconnecting(h)
    PROVE  Served'
<1>0. job[h].step = "disconnect" /\ OtherStep(h)
  BY DEF Disconnecting
<1>1. PICK p \in Profiles : p = Subject(h)
  BY <1>0, HandsFull DEF Served
<1>2. /\ at[h] \in DisconnectSteps /\ on[h] = p
      /\ h \in Requests /\ h \in Goroutines /\ h \notin Attempts /\ h # Scheduler
      /\ h \notin Profiles /\ h \notin inside
  BY <1>0, <1>1, Goers DEF Served, CallsOK, HandlerOK
<1>3. Moves(h) /\ Effects(h) /\ UNCHANGED <<inside, doomed>>
      /\ (at[h] = "hangup" => Unheld(h, p))
  BY <1>0, <1>2, CallSteps DEF OtherStep, dialVars, Served
<1>4. /\ \A g \in Goroutines \ {h} : at'[g] = at[g] /\ on'[g] = on[g]
      /\ on'[h] = IF at'[h] = "idle" THEN NoProfile ELSE p
      /\ at'[h] \in DisconnectSteps \cup {"idle"}
      /\ at'[h] = "release" => at[h] = "hangup"
      /\ DOMAIN at' = Goroutines /\ DOMAIN on' = Goroutines
  BY <1>2, <1>3 DEF Moves, Served, CallsOK, ConnectSteps, DisconnectSteps
<1>5. /\ HandlesOK' /\ kind' = kind
      /\ \A q \in Profiles : Off(q) => Off(q)'
      /\ at'[h] = "release" => Off(p)'
      /\ \A q \in Profiles : Guards(q)' =>
            \/ Guards(q) /\ (q = p /\ at[h] = "release" => Guarding(q))
            \/ q = p /\ ~Off(q)
  BY <1>2, <1>3 DEF Effects, DisconnectSteps
<1>6. /\ UNCHANGED <<attempt, of, cancelled, escaped>>
      /\ last' = last \/ (at'[h] = "idle" /\ at[h] = "release" /\ last[p] = h
                          /\ last' = [last EXCEPT ![p] = "disconnect"])
  BY <1>1 DEF Disconnecting, tableVars
<1>7. /\ JobsOK' /\ \A k \in Handlers \ {h} : job'[k] = job[k]
      /\ IF at'[h] = "idle" THEN job'[h].step # "disconnect"
         ELSE job'[h].step = "disconnect" /\ job'[h].todo = job[h].todo
  <2>1. CASE at'[h] # "idle"
    <3>1. job' = job
      BY <2>1 DEF Disconnecting
    <3>2. QED
      BY <1>0, <2>1, <3>1 DEF Served, JobsOK
  <2>2. CASE at'[h] = "idle"
    <3>1. Turn(h, "start") \/ NextTunnel(h)
      BY <2>2 DEF Disconnecting
    <3>2. QED
      BY <1>0, <2>2, <3>1, StepInHand, NextInHand DEF Served
  <2>3. QED
    BY <2>1, <2>2
<1>8. CallsOK'
  <2>1. ASSUME NEW k \in Handlers PROVE HandlerOK(k)'
    <3>1. CASE k = h
      BY <1>1, <1>4, <1>7, <3>1 DEF HandlerOK, Subject
    <3>2. CASE k # h
      BY <1>4, <1>7, <3>2, Goers DEF Served, CallsOK, HandlerOK, Subject
    <3>3. QED
      BY <3>1, <3>2
  <2>2. \A b \in Attempts : AttemptOK(b)'
    BY <1>2, <1>4, <1>6, Goers DEF Served, CallsOK, AttemptOK
  <2>3. inside \subseteq Goroutines \ {h}
    BY <1>2, Goers DEF Served, CallsOK
  <2>4. QED
    BY <1>2, <1>3, <1>4, <2>1, <2>2, <2>3, Goers DEF Served, CallsOK
<1>9. /\ DOMAIN last = Profiles /\ DOMAIN last' = Profiles
      /\ \A q \in Profiles \ {p} : last'[q] = last[q]
      /\ on'[Scheduler] = on[Scheduler]
  BY <1>2, <1>4, <1>6, Goers DEF Served, DownOK
<1>10. ASSUME NEW q \in Profiles, Parting(q)' PROVE Parting(q)
  BY <1>6, <1>9, <1>10 DEF Parting
<1>11. PartingOK'
  <2>1. \A q \in Profiles : Running(q)' = Running(q)
    BY <1>6 DEF Running
  <2>2. ASSUME NEW q \in Profiles, on'[Scheduler] = q
        PROVE  last'[q] \notin Handlers \cup {"disconnect"}
    BY <1>6, <1>9, <2>2 DEF Served, PartingOK
  <2>3. QED
    BY <1>5, <1>6, <1>10, <2>1, <2>2 DEF Served, PartingOK
<1>12. \A g \in inside : on'[g] = on[g] /\ g # h
  BY <1>2, <1>4, Goers DEF Served, CallsOK
<1>13. ASSUME NEW q \in Profiles, Parted(q)'
       PROVE  Off(q)' /\ \A g \in inside' : on'[g] = q => g \in doomed'
  <2>1. CASE Parted(q)
    BY <1>3, <1>5, <1>12, <2>1 DEF Served, DownOK
  <2>2. CASE ~Parted(q)
    <3>1. Parting(q) /\ q = p /\ at'[h] = "release"
      <4>1. Parting(q)
        BY <1>10, <1>13 DEF Parted
      <4>2. last[q] \in Handlers /\ ~(on[last[q]] = q /\ at[last[q]] = "release")
        BY <2>2, <4>1 DEF Parted
      <4>3. last'[q] = last[q]
        BY <1>2, <1>6, <1>9, <4>2
      <4>4. on'[last[q]] = q /\ at'[last[q]] = "release"
        BY <1>13, <4>2, <4>3 DEF Parted
      <4>5. last[q] = h
        BY <1>4, <4>2, <4>4, Goers
      <4>6. QED
        BY <1>4, <4>1, <4>4, <4>5
    <3>2. \A g \in inside : on[g] # p
      BY <1>4, <1>2, <1>3, <3>1 DEF Unheld
    <3>3. QED
      BY <1>3, <1>5, <1>12, <3>1, <3>2
  <2>3. QED
    BY <2>1, <2>2
<1>14. ASSUME NEW q \in Profiles, Parting(q)', last'[q] = "disconnect"
       PROVE  q \in slipped' \/ ~Guards(q)'
  <2>0. slipped' = IF at[h] # "release" THEN slipped
                   ELSE IF Guarding(p) THEN slipped \cup {p} ELSE slipped \ {p}
    BY <1>1 DEF Disconnecting
  <2>1. CASE ~(q = p /\ at[h] = "release")
    <3>0. last[q] = "disconnect"
      BY <1>6, <1>9, <1>14, <2>1
    <3>1. Parted(q) /\ (q \in slipped \/ ~Guards(q))
      BY <1>10, <1>14, <3>0 DEF Served, DownOK, Parted, ControlAssumption
    <3>2. Off(q)
      BY <3>1 DEF Served, DownOK
    <3>3. QED
      BY <1>5, <2>0, <2>1, <3>1, <3>2
  <2>2. CASE q = p /\ at[h] = "release"
    <3>1. last[q] = h \/ last[q] = "disconnect"
      BY <1>6, <1>9, <1>14, <2>2
    <3>2. Parted(q)
      BY <1>2, <1>10, <1>14, <2>2, <3>1 DEF Parted, ControlAssumption
    <3>3. Off(q)
      BY <3>2 DEF Served, DownOK
    <3>4. QED
      BY <1>5, <2>0, <2>2, <3>3
  <2>3. QED
    BY <2>1, <2>2
<1>15. DownOK'
  BY <1>9, <1>13, <1>14 DEF DownOK
<1>16. QED
  BY <1>5, <1>7, <1>8, <1>11, <1>15 DEF Served

\* An attempt, or the scheduler, brings up no tunnel that was parted with.
LEMMA ServedService ==
    ASSUME ControlAssumption, NamesAssumption, TableOK, Served,
           NEW g \in Attempts \cup {Scheduler}, ServiceStep(g),
           UNCHANGED <<job, of, cancelled, last, escaped, slipped>>,
           g \in Attempts => /\ attempt[g] = "connecting"
                             /\ attempt' = IF at'[g] = "idle"
                                           THEN [attempt EXCEPT ![g] = "clearing"] ELSE attempt,
           g = Scheduler => attempt' = attempt
    PROVE  Served'
<1>1. at[g] # "idle" => on[g] \in Profiles
  BY DEF Served, CallsOK, AttemptOK, TableOK
<1>2. PICK p \in Profiles : p = on[g] /\ at[g] # "idle"
  BY <1>1, ServiceSteps DEF Served
<1>3. CallsOK'
  BY <1>1, CallsServed DEF Served, TableOK
<1>4. JobsOK'
  BY DEF Served, JobsOK
<1>5. g \in Requests /\ g \in Goroutines /\ g \notin Handlers
  BY Goers
<1>6. ASSUME NEW q \in Profiles, Parting(q), q = p PROVE g \in cancelled /\ kind[q] \notin Deaf
  <2>1. g # Scheduler
    BY <1>2, <1>6 DEF Served, PartingOK, Parting
  <2>2. g \in Attempts /\ g \in Running(q)
    BY <1>2, <1>6, <2>1 DEF Served, CallsOK, AttemptOK, Running
  <2>3. QED
    BY <1>6, <2>2 DEF Served, PartingOK
<1>7. \A q \in Profiles : Running(q)' \subseteq Running(q)
  BY DEF Running, TableOK
<1>8. DOMAIN last = Profiles
  BY DEF Served, DownOK
<1>9. CASE /\ at[g] = "dial" /\ inside' = inside \cup {g}
           /\ doomed' = IF g \in cancelled /\ kind[on[g]] \notin Deaf
                        THEN doomed \cup {g} ELSE doomed
           /\ UNCHANGED <<at, on, adapterVars, guarded>>
  <2>1. HandlesOK' /\ kind' = kind /\ \A q \in Profiles : Off(q) => Off(q)'
    BY <1>9, NothingAsked DEF Served
  <2>2. \A q \in Profiles : (Parting(q)' <=> Parting(q)) /\ (Parted(q)' <=> Parted(q))
    BY <1>9 DEF Parting, Parted
  <2>3. PartingOK'
    BY <1>7, <1>9, <2>1, <2>2 DEF Served, PartingOK
  <2>4. ASSUME NEW q \in Profiles, Parted(q), NEW f \in inside', on[f] = q PROVE f \in doomed'
    <3>1. CASE f = g
      BY <1>2, <1>6, <1>9, <2>4, <3>1 DEF Parted
    <3>2. CASE f # g
      BY <1>9, <2>4, <3>2 DEF Served, DownOK
    <3>3. QED
      BY <3>1, <3>2
  <2>7. \A q \in Profiles : Guards(q)' <=> Guards(q)
    BY <1>9 DEF Guards, Guarding
  <2>5. DownOK'
    BY <1>8, <1>9, <2>1, <2>2, <2>4, <2>7 DEF Served, DownOK
  <2>6. QED
    BY <1>3, <1>4, <2>1, <2>3, <2>5 DEF Served
<1>10. ASSUME Moves(g), Effects(g), inside' \subseteq inside, inside' \ doomed' \subseteq inside \ doomed,
              at[g] = "dial" /\ at'[g] = "mark" => g \in inside \ doomed
       PROVE  Served'
  <2>1. HandlesOK' /\ kind' = kind
    BY <1>10 DEF Effects
  <2>2. \A f \in Goroutines \ {g} : at'[f] = at[f] /\ on'[f] = on[f]
    BY <1>10 DEF Moves
  <2>3. on'[g] = on[g] \/ on'[g] = NoProfile
    BY <1>10 DEF Moves
  <2>4. \A q \in Profiles : (Parting(q)' <=> Parting(q)) /\ (Parted(q)' <=> Parted(q))
    BY <1>5, <2>2, Goers DEF Parting, Parted
  <2>5. \A q \in Profiles : on'[Scheduler] = q => on[Scheduler] = q
    BY <2>2, <2>3, Goers DEF NamesAssumption
  <2>6. PartingOK'
    BY <1>7, <2>1, <2>4, <2>5 DEF Served, PartingOK
  <2>7. inside \subseteq Goroutines
    BY Goers DEF Served, CallsOK
  <2>8. ASSUME NEW q \in Profiles, Parted(q)
        PROVE  Off(q)' /\ \A f \in inside' : on'[f] = q => f \in doomed'
    <3>1. Off(q) /\ \A f \in inside : on[f] = q => f \in doomed
      BY <2>8 DEF Served, DownOK
    <3>2. ~(q = p /\ at[g] = "dial" /\ at'[g] = "mark")
      BY <1>2, <1>10, <3>1
    <3>3. Off(q)'
      BY <1>2, <1>10, <3>1, <3>2 DEF Effects
    <3>4. ASSUME NEW f \in inside', on'[f] = q PROVE f \in doomed'
      <4>1. on[f] = q
        BY <1>10, <2>2, <2>3, <2>7, <3>4 DEF NamesAssumption
      <4>2. QED
        BY <1>10, <3>1, <3>4, <4>1
    <3>5. QED
      BY <3>3, <3>4
  <2>9. ASSUME NEW q \in Profiles, Parting(q), last[q] = "disconnect"
        PROVE  q \in slipped \/ ~Guards(q)'
    <3>1. Parted(q) /\ (q \in slipped \/ ~Guards(q))
      BY <2>9 DEF Served, DownOK, Parted, ControlAssumption
    <3>2. Off(q)
      BY <3>1 DEF Served, DownOK
    <3>3. QED
      BY <1>10, <3>1, <3>2 DEF Effects
  <2>10. DownOK'
    BY <1>8, <2>4, <2>8, <2>9 DEF DownOK
  <2>11. QED
    BY <1>3, <1>4, <2>1, <2>6, <2>10 DEF Served
<1>11. CASE /\ Moves(g) /\ Effects(g)
            /\ at[g] = "dial" /\ g \in inside
            /\ g \in doomed => at'[g] = "idle"
            /\ inside' = inside \ {g} /\ doomed' = doomed \ {g}
  BY <1>10, <1>11
<1>12. CASE Moves(g) /\ Effects(g) /\ at[g] # "dial" /\ UNCHANGED <<inside, doomed>>
  BY <1>10, <1>12
<1>13. QED
  BY <1>1, <1>9, <1>11, <1>12, ServiceSteps DEF Served

\* The scheduler that takes up a profile's call has the last word on it.
LEMMA ServedEnforce ==
    ASSUME ControlAssumption, NamesAssumption, TableOK, Served,
           NEW p \in Profiles, Enforce(p)
    PROVE  Served'
<1>1. PICK s \in Statuses : StatusCall(p, s)
  BY DEF Enforce
<1>2. HandlesOK' /\ kind' = kind /\ \A q \in Profiles : Off(q) => Off(q)'
  <2>1. Leaves(p, FALSE, TRUE)
    BY <1>1, StatusLeaves DEF Served
  <2>2. QED
    BY <2>1 DEF Leaves
<1>3. UNCHANGED <<job, attempt, of, cancelled, inside, doomed, escaped, slipped, guarded>>
  BY DEF Enforce, tableVars, dialVars, serviceVars
<1>4. JobsOK'
  BY <1>3 DEF Served, JobsOK
<1>5. CASE UNCHANGED <<callVars, last>>
  <2>1. CallsOK'
    BY <1>3, <1>5, CallsStill DEF Served, callVars
  <2>2. PartingOK' /\ DownOK'
    BY <1>2, <1>3, <1>5, QuietSteps DEF Served, callVars
  <2>3. QED
    BY <1>2, <1>4, <2>1, <2>2 DEF Served
<1>6. CASE /\ Begin(Scheduler, p, IF p \in plan.up THEN "check" ELSE "intend")
           /\ last' = [last EXCEPT ![p] = "schedule"]
  <2>1. PICK step \in {"check", "intend"} : Begin(Scheduler, p, step)
    BY <1>6
  <2>2. /\ at[Scheduler] \notin ConnectSteps \cup DisconnectSteps
        /\ at' = [at EXCEPT ![Scheduler] = step] /\ on' = [on EXCEPT ![Scheduler] = p]
    BY <2>1 DEF Begin, Resting, ConnectSteps, DisconnectSteps
  <2>3. /\ \A g \in Goroutines \ {Scheduler} : at'[g] = at[g] /\ on'[g] = on[g]
        /\ at'[Scheduler] = step /\ on'[Scheduler] = p
        /\ DOMAIN at' = Goroutines /\ DOMAIN on' = Goroutines
        /\ Scheduler \in Goroutines /\ Scheduler \notin Attempts
        /\ Scheduler \notin Handlers /\ Scheduler \notin Profiles
    BY <2>2, Goers DEF Served, CallsOK
  <2>4. inside \subseteq Goroutines \ {Scheduler}
    BY <2>2, Goers DEF Served, CallsOK, ConnectSteps
  <2>5. CallsOK'
    <3>1. \A k \in Handlers : HandlerOK(k)'
      BY <1>3, <2>3, Goers DEF Served, CallsOK, HandlerOK, Subject
    <3>2. \A b \in Attempts : AttemptOK(b)'
      BY <1>3, <2>3, Goers DEF Served, CallsOK, AttemptOK
    <3>3. at'[Scheduler] \in ConnectSteps \cup DisconnectSteps /\ at'[Scheduler] # "idle"
      BY <2>3 DEF ConnectSteps, DisconnectSteps
    <3>4. /\ inside' \subseteq {g \in Attempts \cup {Scheduler} : at'[g] = "dial"}
          /\ \A g, h \in inside' : on'[g] = on'[h] => g = h
      BY <1>3, <2>3, <2>4 DEF Served, CallsOK
    <3>5. QED
      BY <2>3, <3>1, <3>2, <3>3, <3>4, Goers DEF Served, CallsOK
  <2>6. /\ DOMAIN last = Profiles /\ DOMAIN last' = Profiles
        /\ last'[p] = "schedule" /\ \A q \in Profiles \ {p} : last'[q] = last[q]
    BY <1>6 DEF Served, DownOK
  <2>7. ~Parting(p)'
    BY <2>6 DEF Parting, ControlAssumption
  <2>8. ASSUME NEW q \in Profiles \ {p} PROVE Parting(q)' <=> Parting(q)
    BY <1>3, <2>6, <2>8 DEF Parting
  <2>9. PartingOK'
    <3>1. \A q \in Profiles : on'[Scheduler] = q => last'[q] \notin Handlers \cup {"disconnect"}
      BY <2>3, <2>6 DEF ControlAssumption
    <3>2. \A q \in Profiles : Running(q)' = Running(q)
      BY <1>3 DEF Running
    <3>3. QED
      BY <1>2, <1>3, <2>7, <2>8, <3>1, <3>2 DEF Served, PartingOK
  <2>10. ASSUME NEW q \in Profiles, Parted(q)' PROVE Parted(q)
    BY <2>3, <2>6, <2>7, <2>8, <2>10, Goers DEF Parted
  <2>11. DownOK'
    <3>1. ASSUME NEW q \in Profiles, Parted(q)'
          PROVE  Off(q)' /\ \A g \in inside' : on'[g] = q => g \in doomed'
      BY <1>2, <1>3, <2>3, <2>4, <2>10, <3>1 DEF Served, DownOK
    <3>4. \A q \in Profiles : Guards(q)' => Guards(q)
      BY <1>3, <2>3, GuardsStill
    <3>2. \A q \in Profiles : Parting(q)' /\ last'[q] = "disconnect" => q \in slipped' \/ ~Guards(q)'
      BY <1>3, <2>6, <2>7, <2>8, <3>4 DEF Served, DownOK
    <3>3. QED
      BY <2>6, <3>1, <3>2 DEF DownOK
  <2>12. QED
    BY <1>2, <1>4, <2>5, <2>9, <2>11 DEF Served
<1>7. QED
  BY <1>5, <1>6 DEF Enforce

\* A request arrives, or looks at its tunnel.
LEMMA ServedRequest ==
    ASSUME ControlAssumption, NamesAssumption, TableOK, Served, NEW h \in Handlers,
           Look(h) \/ \E k \in {"connect", "disconnect", "reload"}, ps \in Targets : Accept(h, k, ps)
    PROVE  Served'
<1>1. ASSUME HandlesOK' /\ kind' = kind /\ \A q \in Profiles : Off(q) => Off(q)',
             JobsOK', job[h].step # "disconnect", job'[h].step # "disconnect",
             \A k \in Handlers \ {h} : job'[k] = job[k],
             UNCHANGED <<callVars, serviceVars, tableVars, dialVars, historyVars>>
      PROVE  Served'
  <2>1. CallsOK'
    BY <1>1, CallsStill DEF Served, callVars, tableVars, dialVars
  <2>2. PartingOK' /\ DownOK'
    BY <1>1, QuietSteps DEF Served, callVars, serviceVars, tableVars, dialVars, historyVars
  <2>3. QED
    BY <1>1, <2>1, <2>2 DEF Served
<1>2. CASE Look(h)
  <2>1. job[h].step = "look"
    BY <1>2 DEF Look
  <2>2. PICK p \in Profiles : p = Subject(h)
    BY <2>1, HandsFull DEF Served
  <2>3. PICK s \in Statuses : StatusCall(p, s)
    BY <1>2, <2>2 DEF Look
  <2>4. HandlesOK' /\ kind' = kind /\ \A q \in Profiles : Off(q) => Off(q)'
    BY <2>3, StatusLeaves DEF Served, Leaves
  <2>5. job[h].kind \in {"connect", "reload"}
    BY <2>1, HandsFull DEF Served, JobsOK
  <2>6. NextTunnel(h) \/ Turn(h, "start") \/ Turn(h, "cancel")
    BY <1>2, <2>5 DEF Look
  <2>7. /\ JobsOK' /\ job'[h].step # "disconnect"
        /\ \A k \in Handlers \ {h} : job'[k] = job[k]
    BY <2>1, <2>6, NextInHand, StepInHand DEF Served
  <2>8. QED
    BY <1>1, <1>2, <2>1, <2>4, <2>7 DEF Look
<1>3. ASSUME NEW k \in {"connect", "disconnect", "reload"}, NEW ps \in Targets, Accept(h, k, ps)
      PROVE  Served'
  <2>1. HandlesOK' /\ kind' = kind /\ \A q \in Profiles : Off(q) => Off(q)'
    BY <1>3, NothingAsked DEF Served, Accept
  <2>2. PICK j : j = [kind |-> k, step |-> FirstStep(k), todo |-> ps]
    OBVIOUS
  <2>3. job' = [job EXCEPT ![h] = j] /\ job[h] = NoJob
    BY <1>3, <2>2 DEF Accept
  <2>4. FirstStep(k) \in {"look", "cancel"} /\ ps \in Seq(Profiles) \ {<<>>}
    BY DEF FirstStep, ControlAssumption
  <2>5. j \in [kind : {"connect", "disconnect", "reload"},
               step : {"look", "start", "cancel", "disconnect"},
               todo : Seq(Profiles) \ {<<>>}] /\ j.step # "disconnect"
          /\ (j.step = "look" => j.kind # "disconnect")
    BY <2>2, <2>4 DEF FirstStep
  <2>6. JobsOK' /\ job'[h] = j /\ \A g \in Handlers \ {h} : job'[g] = job[g]
    BY <2>3, <2>5 DEF Served, JobsOK
  <2>7. job[h].step # "disconnect"
    BY <2>3 DEF NoJob
  <2>8. QED
    BY <1>1, <1>3, <2>1, <2>5, <2>6, <2>7 DEF Accept
<1>4. QED
  BY <1>2, <1>3

\* An attempt that clears the table has made its call.
LEMMA ServedClear ==
    ASSUME ControlAssumption, NamesAssumption, TableOK, Served,
           NEW a \in Attempts, Clear(a)
    PROVE  Served'
<1>1. /\ attempt[a] = "clearing" /\ attempt' = [attempt EXCEPT ![a] = "free"]
      /\ of' = [of EXCEPT ![a] = NoProfile] /\ cancelled' = cancelled \ {a}
      /\ UNCHANGED <<adapterVars, at, on, inside, doomed, last, escaped, slipped, guarded, job>>
  BY DEF Clear, callVars, dialVars, serviceVars
<1>2. HandlesOK' /\ kind' = kind /\ \A q \in Profiles : Off(q) => Off(q)'
  BY <1>1, NothingAsked DEF Served
<1>3. /\ attempt'[a] = "free"
      /\ \A b \in Attempts \ {a} : attempt'[b] = attempt[b] /\ of'[b] = of[b]
  BY <1>1 DEF TableOK
<1>4. CallsOK'
  BY <1>1, <1>3, CallsStill DEF Served
<1>5. PartingOK' /\ DownOK'
  <2>1. \A b \in Attempts : attempt'[b] = "connecting" =>
           attempt[b] = "connecting" /\ of'[b] = of[b] /\ (b \in cancelled => b \in cancelled')
    BY <1>1, <1>3
  <2>2. QED
    BY <1>1, <1>2, <2>1, QuietSteps DEF Served
<1>6. QED
  BY <1>1, <1>2, <1>4, <1>5 DEF Served, JobsOK

LEMMA ServedNext ==
    ASSUME ControlAssumption, NamesAssumption, TableOK, Served, [Next]_vars
    PROVE  Served'
<1>1. ASSUME HandlesOK' /\ kind' = kind /\ \A q \in Profiles : Off(q) => Off(q)',
             UNCHANGED <<at, on, inside, doomed, last, escaped, slipped, guarded, job, attempt, of>>,
             cancelled \subseteq cancelled'
      PROVE  Served'
  <2>1. CallsOK'
    BY <1>1, CallsStill DEF Served
  <2>2. PartingOK' /\ DownOK'
    BY <1>1, QuietSteps DEF Served
  <2>3. QED
    BY <1>1, <2>1, <2>2 DEF Served, JobsOK
<1>2. ASSUME NEW h \in Handlers, Handle(h) PROVE Served'
  BY <1>2, ServedRequest, ServedStart, ServedCancel, ServedDisconnecting DEF Handle
<1>3. ASSUME NEW a \in Attempts, Connecting(a) PROVE Served'
  BY <1>3, ServedService, Goers DEF Connecting, historyVars
<1>4. ASSUME NEW a \in Attempts, Clear(a) PROVE Served'
  BY <1>4, ServedClear
<1>5. CASE Enforcing
  BY <1>5, ServedService, Goers DEF Enforcing, historyVars, tableVars
<1>6. CASE Tick \/ PassEnds \/ Close \/ Sweep
  <2>1. HandlesOK' /\ kind' = kind /\ \A q \in Profiles : Off(q) => Off(q)'
    BY <1>6, NothingAsked DEF Served, Tick, PassEnds, Close, Sweep
  <2>2. QED
    BY <1>1, <1>6, <2>1
       DEF Tick, PassEnds, Close, Sweep, Swept, callVars, dialVars, serviceVars, tableVars, historyVars
<1>7. ASSUME NEW p \in Profiles, Enforce(p) PROVE Served'
  BY <1>7, ServedEnforce
<1>8. ASSUME NEW p \in Profiles, Drop(p) PROVE Served'
  <2>1. HandlesOK' /\ kind' = kind /\ \A q \in Profiles : Off(q) => Off(q)'
    <3>1. UNCHANGED <<kind, mem, handle>> /\ up' = [up EXCEPT ![p] = FALSE]
      BY <1>8 DEF Drop, TunnelDrops, fixedVars, Bring
    <3>2. QED
      BY <3>1 DEF Served, HandlesOK, Off, HasTunnelInfo, Holding
  <2>2. QED
    BY <1>1, <1>8, <2>1 DEF Drop, callVars, dialVars, serviceVars, tableVars, historyVars
<1>9. CASE UNCHANGED vars
  <2>1. HandlesOK' /\ kind' = kind /\ \A q \in Profiles : Off(q) => Off(q)'
    BY <1>9, NothingAsked DEF Served, vars
  <2>2. QED
    BY <1>1, <1>9, <2>1 DEF vars, callVars, dialVars, serviceVars, tableVars, historyVars
<1>10. QED
  BY <1>2, <1>3, <1>4, <1>5, <1>6, <1>7, <1>8, <1>9 DEF Next
----------------------------------------------------------------------------
(* The theorems *)

LEMMA ControlInit ==
    ASSUME ControlAssumption, NamesAssumption, AdaptersAssumption, Init
    PROVE  IInv
<1> USE DEF Init
<1>1. TableOK
  BY DEF TableOK, PendingIsRunning
<1>2. CalmOK /\ SweptOK
  BY DEF CalmOK, SweptOK
<1>3. JobsOK /\ \A h \in Handlers : job[h].step = "none"
  BY DEF JobsOK, NoJob
<1>4. CallsOK
  BY <1>3, Goers DEF CallsOK, HandlerOK, AttemptOK
<1>5. HandlesOK
  BY DEF HandlesOK, AdaptersAssumption
<1>6. PartingOK
  BY Goers DEF PartingOK, Running, NamesAssumption
<1>7. DownOK
  BY DEF DownOK, Parting, Parted, ControlAssumption
<1>8. QED
  BY <1>1, <1>2, <1>3, <1>4, <1>5, <1>6, <1>7 DEF IInv

LEMMA ControlNext ==
    ASSUME ControlAssumption, NamesAssumption, IInv, [Next]_vars
    PROVE  IInv'
<1>1. TableOK' /\ CalmOK' /\ SweptOK'
  BY TablesKept DEF IInv
<1>2. Served'
  BY ServedNext DEF IInv, Served
<1>3. QED
  BY <1>1, <1>2 DEF IInv, Served

THEOREM Invariance == Spec => []IInv
<1>1. Init => IInv
  BY ControlInit, ControlAssumption, NamesAssumption, AdaptersAssumption
<1>2. IInv /\ [Next]_vars => IInv'
  BY ControlNext, ControlAssumption, NamesAssumption
<1>3. QED
  BY <1>1, <1>2, PTL DEF Spec

\* Whoever finds an entry in connectCancel finds a connect of that profile that
\* is not over and that nobody has cancelled.  (api_routes_connect.go
\* startPendingConnect, clearPendingConnect, cancelPendingConnect)
THEOREM EntriesAreLive == Spec => []PendingIsRunning
<1>1. IInv => PendingIsRunning
  BY DEF IInv, TableOK
<1>2. QED
  BY <1>1, Invariance, PTL

\* Until one of a profile's connects is cancelled at most one runs, and its
\* entry is there; when the server has closed, every connect that still runs was
\* cancelled or came too late.  (api_routes_connect.go, server.go Shutdown)
THEOREM ConnectsStayInReach == Spec => []ConnectsCanBeCancelled
<1>1. ASSUME IInv PROVE OneConnectUntilCancel
  <2>1. ASSUME NEW p \in calm PROVE Cardinality(Running(p)) <= 1 /\ Orphans(p) = {}
    <3>1. PICK e : e = entry[p]
      OBVIOUS
    <3>2. Running(p) \subseteq {e} /\ Orphans(p) = {}
      BY <1>1, <2>1, <3>1 DEF IInv, CalmOK, Running, Orphans
    <3>3. IsFiniteSet({e}) /\ Cardinality({e}) = 1
      BY FS_Singleton
    <3>4. Cardinality(Running(p)) <= Cardinality({e})
      BY <3>2, <3>3, FS_Subset
    <3>5. QED
      BY <3>2, <3>3, <3>4
  <2>2. QED
    BY <2>1 DEF OneConnectUntilCancel
<1>2. IInv => ShutdownReachesAll
  BY DEF IInv, SweptOK, ShutdownReachesAll, Running
<1>3. IInv => ConnectsCanBeCancelled
  BY <1>1, <1>2 DEF ConnectsCanBeCancelled
<1>4. QED
  BY <1>3, Invariance, PTL

\* A disconnect that has answered and that missed no attempt holds: the tunnel is
\* down, and the DNS guard released unless somebody stood between TunnelInfo and
\* OnConnect as it was, wherever the attempts under way were.
\* (api_routes_connect.go, profile_service.go Disconnect)
THEOREM DisconnectHolds == Spec => []DisconnectSticks
<1>1. ASSUME IInv, NEW p \in Profiles, last[p] = "disconnect", p \notin escaped
      PROVE  ~up[p] /\ (p \in guarded => p \in slipped)
  <2>1. Parted(p) /\ Parting(p)
    BY <1>1, ControlAssumption DEF Parted, Parting, ControlAssumption
  <2>2. QED
    BY <1>1, <2>1 DEF IInv, DownOK, Off, Guards
<1>2. IInv => DisconnectSticks
  BY <1>1 DEF DisconnectSticks
<1>3. QED
  BY <1>2, Invariance, PTL
----------------------------------------------------------------------------
(* The minutes of a day *)

LEMMA Division ==
    ASSUME NEW x \in Int, NEW d \in Nat \ {0}
    PROVE  /\ x % d \in 0..(d - 1) /\ x \div d \in Int
           /\ x = d * (x \div d) + (x % d)
  OBVIOUS

LEMMA Multiples ==
    ASSUME NEW d \in Nat \ {0}, NEW k \in Int, k >= 1
    PROVE  d * k >= d
  OBVIOUS

\* A quotient and a remainder in range are the quotient and the remainder.
LEMMA RemainderIs ==
    ASSUME NEW x \in Int, NEW d \in Nat \ {0}, NEW q \in Int, NEW r \in 0..(d - 1),
           x = d * q + r
    PROVE  x % d = r
<1>1. PICK k \in Int, s \in 0..(d - 1) : s = x % d /\ x = d * k + s
  BY Division
<1>2. k - q \in Int /\ q - k \in Int
  BY <1>1
<1>3. d * (k - q) = r - s
  BY <1>1
<1>4. d * (q - k) = s - r
  BY <1>1
<1>5. ~(k - q >= 1) /\ ~(q - k >= 1)
  BY <1>2, <1>3, <1>4, Multiples
<1>6. k = q
  BY <1>1, <1>5
<1>7. QED
  BY <1>1, <1>6

\* How far b is from a, going round.
LEMMA Distance ==
    ASSUME NEW d \in Nat \ {0}, NEW m \in Int, NEW a \in 0..(d - 1)
    PROVE  (m - a) % d = IF a <= m % d THEN (m % d) - a ELSE ((m % d) - a) + d
<1>1. PICK q \in Int, r \in 0..(d - 1) : r = m % d /\ m = d * q + r
  BY Division
<1>2. ASSUME a <= r PROVE (m - a) % d = r - a
  <2>1. m - a \in Int /\ m - a = d * q + (r - a) /\ r - a \in 0..(d - 1)
    BY <1>1, <1>2
  <2>2. QED
    BY <2>1, RemainderIs
<1>3. ASSUME r < a PROVE (m - a) % d = (r - a) + d
  <2>1. PICK k \in Int : k = q - 1
    OBVIOUS
  <2>2. PICK s \in 0..(d - 1) : s = (r - a) + d
    BY <1>3
  <2>3. d * k = d * q - d
    BY <2>1
  <2>4. m - a \in Int /\ m - a = d * k + s
    BY <1>1, <2>2, <2>3
  <2>5. QED
    BY <2>2, <2>4, RemainderIs
<1>4. QED
  BY <1>1, <1>2, <1>3

LEMMA Windows ==
    ASSUME NEW d \in Nat \ {0}, NEW m \in Int, NEW a \in 0..(d - 1), NEW b \in 0..(d - 1)
    PROVE  InWindow(a, b, m % d) <=> (m - a) % d < (b - a) % d
<1>1. PICK r \in 0..(d - 1) : r = m % d
  BY Division
<1>2. b % d = b
  <2>1. b \in Int /\ b = d * 0 + b
    OBVIOUS
  <2>2. QED
    BY <2>1, RemainderIs
<1>3. PICK x, y : x = (m - a) % d /\ y = (b - a) % d
  OBVIOUS
<1>4. x = IF a <= r THEN r - a ELSE (r - a) + d
  BY <1>1, <1>3, Distance
<1>5. y = IF a <= b THEN b - a ELSE (b - a) + d
  <2>1. y = IF a <= b % d THEN (b % d) - a ELSE ((b % d) - a) + d
    BY <1>3, Distance
  <2>2. QED
    BY <1>2, <2>1
<1>6. InWindow(a, b, r) <=> x < y
  BY <1>4, <1>5 DEF InWindow
<1>7. QED
  BY <1>1, <1>3, <1>6

\* The scheduler's clock stays among the minutes of the week.
LEMMA ClockRuns == Spec => [](now \in Nat)
<1>1. Init => now \in Nat
  <2>1. Init => now = 0
    BY Zenon DEF Init
  <2>2. QED
    BY <2>1
<1>2. now \in Nat /\ [Next]_vars => (now \in Nat)'
  <2>1. SUFFICES ASSUME now \in Nat, [Next]_vars PROVE now' \in Nat
    OBVIOUS
  <2>2. CASE Tick
    <3>1. PICK t \in {now, (now + 1) % (Week * DayLength)} : now' = t
      BY <2>2 DEF Tick
    <3>2. PICK d \in Nat \ {0} : d = Week * DayLength
      BY ControlAssumption DEF ControlAssumption
    <3>3. (now + 1) % d \in 0..(d - 1)
      BY <2>1, Division
    <3>4. QED
      BY <2>1, <3>1, <3>2, <3>3
  <2>3. CASE UNCHANGED now
    BY <2>1, <2>3
  <2>4. [Next]_vars => Tick \/ UNCHANGED now
    BY DEF Next, Handle, Accept, Look, StartConnect, CancelFirst, Disconnecting, Connecting,
           Clear, Enforcing, PassEnds, Sweep, Close, Enforce, Drop, vars, clockVars
  <2>5. QED
    BY <2>1, <2>2, <2>3, <2>4
<1>3. QED
  BY <1>1, <1>2, PTL DEF Spec

\* A rule's window is the interval from its start to its end, round the clock.
\* (scheduler.go timeWindowMatch)
THEOREM WindowsAreIntervals == Spec => []WindowIsAnInterval
<1>1. ASSUME now \in Nat PROVE WindowIsAnInterval
  <2>1. PICK d \in Nat \ {0}, m \in Int : d = DayLength /\ m = now
    BY <1>1, ControlAssumption DEF ControlAssumption
  <2>2. \A a, b \in 0..(d - 1) : InWindow(a, b, m % d) <=> (m - a) % d < (b - a) % d
    BY Windows
  <2>3. QED
    BY <2>1, <2>2, Zenon DEF WindowIsAnInterval
<1>2. QED
  BY <1>1, ClockRuns, PTL
=============================================================================
