--------------------------- MODULE AdaptersProofs ---------------------------
(***************************************************************************)
(* The adapters and the watchdog over them, for every set of profiles,     *)
(* requests, adapter types, platforms and priorities: what callers may     *)
(* believe of an adapter's answers; one watcher per profile, none after    *)
(* Stop, and at most one reconnect against the user's wish.                *)
(***************************************************************************)
EXTENDS Watchdog, AdapterContract, TLAPS

\* An adapter call and the network leave every adapter well typed.
LEMMA AdapterTypes ==
    ASSUME NEW p \in Profiles, AdaptersTypeOK,
           \/ \E s \in Statuses : StatusCall(p, s)
           \/ \E ok \in BOOLEAN : ConnectCall(p, ok) \/ DisconnectCall(p, ok)
           \/ TunnelDrops(p) \/ TunnelAppears(p)
    PROVE  AdaptersTypeOK'
<1> USE DEF AdaptersTypeOK, Remember, Hold, Bring, fixedVars, Statuses, Handles
<1>1. ASSUME NEW s \in Statuses, StatusCall(p, s) PROVE AdaptersTypeOK'
  <2>1. CASE RememberedStatus(p, s) \/ ProbedStatus(p, s)
    BY <2>1 DEF RememberedStatus, ProbedStatus, adapterVars
  <2>2. CASE WireGuardStatus(p, s)
    BY <2>2 DEF WireGuardStatus
  <2>3. CASE FortiClientStatus(p, s)
    BY <2>3 DEF FortiClientStatus
  <2>4. QED BY <1>1, <2>1, <2>2, <2>3 DEF StatusCall
<1>2. ASSUME NEW ok \in BOOLEAN, ConnectCall(p, ok) PROVE AdaptersTypeOK'
  <2>1. ASSUME NEW accepted, NEW h \in Handles, Convinced(p, accepted, h)
        PROVE  AdaptersTypeOK'
    BY <2>1 DEF Convinced
  <2>2. ASSUME NEW s \in Statuses, GivesUp(p, s) PROVE AdaptersTypeOK'
    BY <2>2 DEF GivesUp
  <2>3. CASE ConnectRefused(p) \/ UNCHANGED adapterVars
    BY <2>3 DEF ConnectRefused, adapterVars
  <2>4. CASE OpenVPNConnect(p, ok)
    BY <2>1, <2>2, <2>4 DEF OpenVPNConnect, StartFails, WaitFails
  <2>5. CASE GlobalProtectConnect(p, ok)
    BY <2>1, <2>2, <2>3, <2>5 DEF GlobalProtectConnect
  <2>6. CASE CiscoConnect(p, ok) \/ ProtonConnect(p, ok) \/ WarpConnect(p, ok)
    BY <2>1, <2>2, <2>6 DEF CiscoConnect, ProtonConnect, WarpConnect
  <2>7. CASE TailscaleConnect(p, ok) \/ WireGuardConnect(p, ok) \/ FortiClientConnect(p, ok)
    BY <2>1, <2>2, <2>7 DEF TailscaleConnect, WireGuardConnect, FortiClientConnect
  <2>8. QED BY <1>2, <2>3, <2>4, <2>5, <2>6, <2>7 DEF ConnectCall
<1>3. ASSUME NEW ok \in BOOLEAN, DisconnectCall(p, ok) PROVE AdaptersTypeOK'
  BY <1>3
  DEF DisconnectCall, OpenVPNDisconnect, ProcessStops, CommandedDisconnect, FortiClientDisconnect
<1>4. CASE TunnelDrops(p) \/ TunnelAppears(p)
  BY <1>4 DEF TunnelDrops, TunnelAppears
<1>5. QED BY <1>1, <1>2, <1>3, <1>4
----------------------------------------------------------------------------
(* What callers may believe of an adapter *)

\* LiveStatusIsTrue needs ConnectedIsHeld, because FortiClient asks the network
\* only about an interface it holds; WireGuardReconciles needs
\* ConnectingIsTransient, because a status left at "connecting" refuses.
ContractInv ==
    /\ ContractTypeOK /\ ConnectingIsTransient /\ ConnectedIsHeld
    /\ LiveStatusIsTrue /\ WireGuardReconciles

LEMMA ContractStarts == ContractInit => ContractInv
BY NothingAssumption
DEF ContractInit, AdaptersInit, ContractInv, ContractTypeOK, AdaptersTypeOK, Statuses, Handles, ConnectingIsTransient,
    ConnectedIsHeld, LiveStatusIsTrue, WireGuardReconciles, Down

\* What is true of one profile.
Sound(p) ==
    /\ mem[p] = "connecting" => kind[p] = "forticlient"
    /\ kind[p] \in Holding /\ mem[p] = "connected" => handle[p] = "held"
    /\ kind[p] \notin Remembering /\ told[p] = "connected" => up[p]
    /\ kind[p] = "wireguard" /\ Down(p) => ~up[p] /\ ~Refuses(p)

LEMMA SoundParts == (ContractInv <=> ContractTypeOK /\ \A p \in Profiles : Sound(p))
                    /\ (ContractInv <=> ContractTypeOK /\ \A p \in Profiles : Sound(p))'
BY DEF ContractInv, Sound, ConnectingIsTransient, ConnectedIsHeld, LiveStatusIsTrue,
       WireGuardReconciles, Down

\* A step of one profile leaves the others alone.
Only(p) ==
    /\ UNCHANGED fixedVars
    /\ \A q \in Profiles \ {p} : /\ mem'[q] = mem[q] /\ handle'[q] = handle[q]
                                 /\ up'[q] = up[q] /\ told'[q] = told[q]

LEMMA OthersSound ==
    ASSUME NEW p \in Profiles, Only(p), \A q \in Profiles : Sound(q), Sound(p)'
    PROVE  \A q \in Profiles : Sound(q)'
BY DEF Only, Sound, Down, Refuses, fixedVars

\* What an adapter call leaves behind.
Calls(p) ==
    \/ \E s \in Statuses : StatusCall(p, s) /\ Hear(p, s)
    \/ ConnectCall(p, TRUE) /\ Hear(p, "dialled")
    \/ ConnectCall(p, FALSE) /\ Hear(p, Nothing)
    \/ \E ok \in BOOLEAN : DisconnectCall(p, ok) /\ Hear(p, Nothing)
    \/ (TunnelDrops(p) \/ TunnelAppears(p)) /\ Hear(p, Nothing)

LEMMA ContractTypes ==
    ASSUME ContractTypeOK, NEW p \in Profiles, Calls(p)
    PROVE  ContractTypeOK'
<1>1. AdaptersTypeOK'
  BY AdapterTypes DEF Calls, ContractTypeOK
<1>2. told' \in [Profiles -> Statuses \cup {"dialled", Nothing}]
  BY DEF Calls, ContractTypeOK, Hear
<1>3. QED BY <1>1, <1>2 DEF ContractTypeOK

\* Status() tells the truth where the adapter looks at the tunnel.
LEMMA StatusStep ==
    ASSUME ContractTypeOK, NEW p \in Profiles, Sound(p), NEW s \in Statuses,
           StatusCall(p, s), Hear(p, s)
    PROVE  Only(p) /\ Sound(p)'
<1> USE DEF ContractTypeOK, AdaptersTypeOK, Only, Sound, Hear, Down, Refuses, Normalize, fixedVars,
            Statuses, Remembering, Probing, Holding
<1>1. CASE RememberedStatus(p, s)
  BY <1>1 DEF RememberedStatus, adapterVars
<1>2. CASE ProbedStatus(p, s)
  BY <1>2 DEF ProbedStatus, adapterVars, Reports
<1>3. CASE WireGuardStatus(p, s)
  BY <1>3 DEF WireGuardStatus, Remember
<1>4. CASE FortiClientStatus(p, s)
  BY <1>4 DEF FortiClientStatus, Remember, Hold
<1>5. QED BY <1>1, <1>2, <1>3, <1>4 DEF StatusCall

\* A Connect says nothing of the status, and leaves a handle where one is needed.
LEMMA ConnectStep ==
    ASSUME ContractTypeOK, NEW p \in Profiles, Sound(p), NEW ok \in BOOLEAN, ConnectCall(p, ok),
           NEW answer \in {"dialled", Nothing}, Hear(p, answer)
    PROVE  Only(p) /\ Sound(p)'
<1> USE DEF ContractTypeOK, AdaptersTypeOK, Only, Sound, Hear, Down, Refuses, fixedVars,
            Statuses, Remembering, Holding, Remember, Hold, Bring
<1>0. answer \notin Statuses
  BY NothingAssumption
<1>1. CASE ConnectRefused(p) \/ UNCHANGED adapterVars
  BY <1>0, <1>1 DEF ConnectRefused, adapterVars
<1>2. ASSUME NEW accepted, NEW h \in Handles, Convinced(p, accepted, h),
             kind[p] \in Holding => h = "held"
      PROVE  Only(p) /\ Sound(p)'
  BY <1>0, <1>2 DEF Convinced
<1>3. ASSUME NEW s \in Statuses \ {"connected"}, GivesUp(p, s),
             s = "connecting" => kind[p] = "forticlient"
      PROVE  Only(p) /\ Sound(p)'
  BY <1>0, <1>3 DEF GivesUp
<1>4. CASE OpenVPNConnect(p, ok)
  BY <1>0, <1>2, <1>3, <1>4 DEF OpenVPNConnect, StartFails, WaitFails, Handles
<1>5. CASE GlobalProtectConnect(p, ok)
  BY <1>0, <1>1, <1>2, <1>3, <1>5 DEF GlobalProtectConnect, Handles
<1>6. CASE CiscoConnect(p, ok) \/ ProtonConnect(p, ok) \/ WarpConnect(p, ok)
  BY <1>2, <1>3, <1>6 DEF CiscoConnect, ProtonConnect, WarpConnect, Handles
<1>7. CASE TailscaleConnect(p, ok) \/ WireGuardConnect(p, ok)
  BY <1>2, <1>3, <1>7 DEF TailscaleConnect, WireGuardConnect, Handles
<1>8. CASE FortiClientConnect(p, ok)
  BY <1>2, <1>3, <1>8 DEF FortiClientConnect, Handles
<1>9. QED BY <1>1, <1>4, <1>5, <1>6, <1>7, <1>8 DEF ConnectCall

LEMMA DisconnectStep ==
    ASSUME ContractTypeOK, NEW p \in Profiles, Sound(p), NEW ok \in BOOLEAN,
           DisconnectCall(p, ok), Hear(p, Nothing)
    PROVE  Only(p) /\ Sound(p)'
BY NothingAssumption
DEF ContractTypeOK, AdaptersTypeOK, Only, Sound, Hear, Down, Refuses, fixedVars, Statuses,
    Remembering, Holding, Remember, Hold, Bring, DisconnectCall, OpenVPNDisconnect,
    ProcessStops, CommandedDisconnect, FortiClientDisconnect

LEMMA NetworkStep ==
    ASSUME ContractTypeOK, NEW p \in Profiles, Sound(p), TunnelDrops(p) \/ TunnelAppears(p),
           Hear(p, Nothing)
    PROVE  Only(p) /\ Sound(p)'
BY NothingAssumption
DEF ContractTypeOK, AdaptersTypeOK, Only, Sound, Hear, Down, Refuses, fixedVars, Statuses,
    Bring, TunnelDrops, TunnelAppears
----------------------------------------------------------------------------
\* Whatever calls are made, fail and succeed in whatever order, on whichever
\* adapters, while tunnels come and go: the inductive invariant holds.
THEOREM ContractInvariance == ContractSpec => []ContractInv
<1>1. ContractInv /\ [ContractNext]_contractVars => ContractInv'
  <2> SUFFICES ASSUME ContractInv, [ContractNext]_contractVars PROVE ContractInv'
    OBVIOUS
  <2>1. ASSUME NEW p \in Profiles, Calls(p) PROVE ContractInv'
    <3>1. ContractTypeOK /\ Sound(p) /\ \A q \in Profiles : Sound(q)
      BY SoundParts
    <3>2. Only(p) /\ Sound(p)'
      BY <2>1, <3>1, StatusStep, ConnectStep, DisconnectStep, NetworkStep DEF Calls
    <3>3. ContractTypeOK'
      BY <2>1, <3>1, ContractTypes
    <3>4. QED BY <3>1, <3>2, <3>3, OthersSound, SoundParts
  <2>2. CASE UNCHANGED contractVars
    BY <2>2 DEF contractVars, adapterVars, fixedVars, ContractInv, ContractTypeOK, AdaptersTypeOK, Refuses, Down,
       ConnectingIsTransient, ConnectedIsHeld, LiveStatusIsTrue, WireGuardReconciles
  <2>3. QED BY <2>1, <2>2 DEF ContractNext, Calls
<1>2. QED BY <1>1, ContractStarts, PTL DEF ContractSpec

\* An adapter that looks at its tunnel never calls a dropped one connected.
THEOREM LiveStatusTrue == ContractSpec => []LiveStatusIsTrue
BY ContractInvariance, PTL DEF ContractInv

\* WireGuard reports down only what is down, and can then be dialled again.
THEOREM WireGuardReconciled == ContractSpec => []WireGuardReconciles
BY ContractInvariance, PTL DEF ContractInv

\* No adapter but FortiClient's is ever left "connecting" by a Connect that
\* returned, where it would refuse every further Connect.
THEOREM ConnectingEnds == ContractSpec => []ConnectingIsTransient
BY ContractInvariance, PTL DEF ContractInv

\* Whatever OpenVPN's and FortiClient's Disconnect is needed for, it has the
\* process or the interface to do it with.
THEOREM HeldWhileConnected == ContractSpec => []ConnectedIsHeld
BY ContractInvariance, PTL DEF ContractInv
----------------------------------------------------------------------------
(* The watchdog *)

\* A goroutine inside a call works on a profile.
CallsOK == \A g \in Goroutines : at[g] \notin Resting => on[g] \in Profiles

\* What OneWatcher and StoppedMeansNoWatcher rest on: the place of a watcher
\* says whether it runs, it runs for an active profile only, and the phases
\* and the context agree.
WatchersOK ==
    /\ \A p \in Profiles :
          /\ spawned[p] <= 1
          /\ watch[p] = "none" <=> spawned[p] = 0
          /\ spawned[p] = 1 => p \in active
    /\ phase = "new" => \A p \in Profiles : spawned[p] = 0
    /\ phase = "running" /\ ~cancelled => \A p \in active : spawned[p] = 1
    /\ phase \in {"stopping", "stopped"} => cancelled
    /\ phase = "stopped" => \A p \in Profiles : spawned[p] = 0

\* What AtMostOneOverrun rests on: only a profile whose disconnect was asked
\* for is overrun, and a watcher enters its backoff with nothing overrun yet.
OverrunsOK ==
    \A p \in Profiles :
        /\ overruns[p] <= 1
        /\ p \notin intended => overruns[p] = 0
        /\ watch[p] = "backoff" => overruns[p] = 0

IInv == TypeOK /\ CallsOK /\ WatchersOK /\ OverrunsOK
----------------------------------------------------------------------------
(* Types *)

Steps == ConnectSteps \cup DisconnectSteps \cup Resting

CallTypes ==
    /\ at \in [Goroutines -> Steps] /\ on \in [Goroutines -> Profiles \cup {NoProfile}]
    /\ CallsOK

\* The moves of a call keep a busy goroutine on a profile.
LEMMA CallMoves ==
    ASSUME CallTypes, NEW g \in Goroutines, NEW p \in Profiles, NEW step \in Steps,
           \/ Begin(g, p, step)
           \/ Goto(g, step) /\ (at[g] \notin Resting \/ step \in Resting)
           \/ Return(g, step) /\ step \in Resting
    PROVE  CallTypes'
BY DEF CallTypes, CallsOK, Begin, Goto, Return, Steps, Resting

WatchdogTypes ==
    /\ intended \subseteq Profiles /\ active \subseteq Profiles /\ phase \in Phases
    /\ spawned \in [Profiles -> Nat] /\ watch \in [Profiles -> WatchSteps]
    /\ overruns \in [Profiles -> Nat]

RestTypes ==
    /\ cancelled \in BOOLEAN
    /\ guarded \subseteq Profiles /\ registered \subseteq Profiles
    /\ cooling \subseteq Profiles /\ scan \in [Profiles -> SUBSET Profiles]
    /\ requests \in Nat /\ changes \in Nat

LEMMA TypeParts ==
    /\ TypeOK /\ CallsOK <=> AdaptersTypeOK /\ CallTypes /\ WatchdogTypes /\ RestTypes
    /\ (TypeOK /\ CallsOK <=> AdaptersTypeOK /\ CallTypes /\ WatchdogTypes /\ RestTypes)'
BY DEF TypeOK, CallTypes, WatchdogTypes, RestTypes, Steps

LEMMA MarkTypes ==
    ASSUME WatchdogTypes, NEW p \in Profiles,
           \/ MarkActive(p) \/ MarkIntended(p)
           \/ \E step \in WatchSteps : Move(p, step) /\ UNCHANGED overruns
    PROVE  WatchdogTypes'
BY DEF WatchdogTypes, MarkActive, MarkIntended, Move, Spawns, WatchSteps, Phases

\* A step of a call.
LEMMA CallStepTypes ==
    ASSUME TypeOK, CallsOK, NEW g \in Goroutines, Call(g)
    PROVE  TypeOK' /\ CallsOK'
<1> DEFINE p == on[g]
<1> USE TypeParts DEF Call, Rest, watchdogVars, adapterVars, fixedVars, serviceVars, counts
<1>0. p \in Profiles /\ at[g] \notin Resting
  BY DEF CallStep, Preflight, CheckStatus, Dial, Mark, Attach, Guard, Intend, HangUp,
         Release, Resting, CallTypes, CallsOK
<1>1. RestTypes'
  BY <1>0 DEF CallStep, Preflight, CheckStatus, Dial, Mark, Attach, Guard, Intend, HangUp,
         Release, RestTypes
<1>2. WatchdogTypes'
  BY <1>0, MarkTypes DEF CallStep, Preflight, CheckStatus, Dial, Mark, Attach, Guard, Intend,
         HangUp, Release, WatchdogTypes
<1>3. AdaptersTypeOK'
  BY <1>0, AdapterTypes DEF CallStep, Preflight, CheckStatus, Dial, Mark, Attach, Guard, Intend,
         HangUp, Release, AdaptersTypeOK
<1>4. CallTypes'
  BY <1>0, CallMoves DEF CallStep, Preflight, CheckStatus, Dial, Mark, Attach, Guard, Intend,
         HangUp, Release, Steps, ConnectSteps, DisconnectSteps, Resting
<1>5. QED BY <1>1, <1>2, <1>3, <1>4

\* A step of a watcher.
LEMMA WatchTypes ==
    ASSUME IInv, NEW p \in Profiles, Watch(p) \/ CoolDown(p)
    PROVE  TypeOK' /\ CallsOK'
<1> USE TypeParts DEF IInv
<1>0. p \in Goroutines
  BY DEF Goroutines
<1> DEFINE Parts == AdaptersTypeOK' /\ CallTypes' /\ WatchdogTypes' /\ RestTypes'
<1>1. ASSUME Poll(p) PROVE Parts
  <2>1. AdaptersTypeOK'
    BY <1>1, AdapterTypes DEF Poll
  <2>2. WatchdogTypes'
    BY <1>1, MarkTypes DEF Poll, WatchSteps
  <2>3. QED
    BY <1>1, <2>1, <2>2 DEF Poll, CallTypes, CallsOK, RestTypes, callVars, serviceVars,
                            counts
<1>2. ASSUME Decide(p) PROVE Parts
  <2>1. WatchdogTypes'
    BY <1>2, MarkTypes DEF Decide, WatchSteps
  <2>2. QED
    BY <1>2, <2>1 DEF Decide, AdaptersTypeOK, CallTypes, CallsOK, RestTypes, adapterVars,
                      fixedVars, callVars, serviceVars, counts
<1>3. ASSUME Wake(p) PROVE Parts
  <2>1. CallTypes'
    BY <1>3, <1>0, CallMoves DEF Wake, Steps, ConnectSteps
  <2>2. WatchdogTypes'
    BY <1>3 DEF Wake, Move, WatchdogTypes, WatchSteps
  <2>3. QED
    BY <1>3, <2>1, <2>2 DEF Wake, AdaptersTypeOK, RestTypes, adapterVars, fixedVars,
                            serviceVars, counts
<1>4. ASSUME Reconnected(p) PROVE Parts
  <2>1. CallTypes'
    BY <1>4, <1>0, CallMoves DEF Reconnected, Steps, Resting
  <2>2. WatchdogTypes'
    BY <1>4, MarkTypes DEF Reconnected, WatchSteps
  <2>3. QED
    BY <1>4, <2>1, <2>2 DEF Reconnected, AdaptersTypeOK, RestTypes, adapterVars, fixedVars,
                            serviceVars, counts
<1>5. ASSUME Leave(p) PROVE Parts
  <2>1. spawned[p] - 1 \in Nat
    BY <1>5 DEF Leave, WatchersOK, WatchdogTypes
  <2>2. WatchdogTypes'
    BY <1>5, <2>1 DEF Leave, WatchdogTypes, WatchSteps
  <2>3. QED
    BY <1>5, <2>2 DEF Leave, AdaptersTypeOK, CallTypes, CallsOK, RestTypes, adapterVars,
                      fixedVars, callVars, serviceVars, counts
<1>6. ASSUME ConsiderFailover(p) PROVE Parts
  <2>1. WatchdogTypes'
    BY <1>6, MarkTypes DEF ConsiderFailover, WatchSteps
  <2>2. FailoverTargets(p) \subseteq Profiles
    BY DEF FailoverTargets
  <2>3. QED
    BY <1>6, <2>1, <2>2 DEF ConsiderFailover, AdaptersTypeOK, CallTypes, CallsOK, RestTypes,
                            adapterVars, fixedVars, callVars, serviceVars, counts
<1>7. ASSUME NEW q \in Profiles, ScanCandidate(p, q) PROVE Parts
  <2>1. AdaptersTypeOK'
    BY <1>7, AdapterTypes DEF ScanCandidate
  <2>2. WatchdogTypes'
    BY <1>7, MarkTypes DEF ScanCandidate, WatchSteps
  <2>3. CallTypes'
    BY <1>7, <1>0, CallMoves
    DEF ScanCandidate, Steps, ConnectSteps, callVars, CallTypes, CallsOK
  <2>4. RestTypes'
    BY <1>7 DEF ScanCandidate, RestTypes, serviceVars, counts
  <2>5. QED BY <2>1, <2>2, <2>3, <2>4
<1>8. ASSUME TakenOver(p) PROVE Parts
  <2>1. CallTypes'
    BY <1>8, <1>0, CallMoves DEF TakenOver, Steps, Resting
  <2>2. WatchdogTypes'
    BY <1>8, MarkTypes DEF TakenOver, WatchSteps
  <2>3. QED
    BY <1>8, <2>1, <2>2 DEF TakenOver, AdaptersTypeOK, RestTypes, adapterVars, fixedVars,
                            serviceVars, counts
<1>9. ASSUME Adopt(p) PROVE Parts
  <2>1. WatchdogTypes'
    BY <1>9 DEF Adopt, WatchdogTypes, RestTypes, WatchSteps
  <2>2. QED
    BY <1>9, <2>1 DEF Adopt, AdaptersTypeOK, CallTypes, CallsOK, RestTypes, adapterVars,
                      fixedVars, callVars, serviceVars, counts
<1>10. ASSUME CoolDown(p) PROVE Parts
  BY <1>10 DEF CoolDown, AdaptersTypeOK, CallTypes, CallsOK, WatchdogTypes, RestTypes,
               adapterVars, fixedVars, callVars, serviceVars, counts, watchdogVars
<1>11. QED
  BY <1>1, <1>2, <1>3, <1>4, <1>5, <1>6, <1>7, <1>8, <1>9, <1>10 DEF Watch, Failover

\* Counting keeps a count a number.
LEMMA CountTypes ==
    ASSUME NEW max
    PROVE  /\ requests \in Nat /\ Within(requests, max) => requests' \in Nat
           /\ changes \in Nat /\ Within(changes, max) => changes' \in Nat
BY DEF Within

\* Every step.
LEMMA TypeStep == IInv /\ [Next]_vars => TypeOK' /\ CallsOK'
<1> SUFFICES ASSUME IInv, [Next]_vars PROVE TypeOK' /\ CallsOK'
  OBVIOUS
<1> USE DEF IInv
<1>1. CASE Start \/ Cancel \/ Stop \/ Stopped \/ UNCHANGED vars
  <2>1. WatchdogTypes'
    BY <1>1, TypeParts DEF Start, Cancel, Stop, Stopped, vars, WatchdogTypes, Phases,
                           WatchSteps, watchdogVars
  <2>2. AdaptersTypeOK' /\ CallTypes' /\ RestTypes'
    BY <1>1, TypeParts DEF Start, Cancel, Stop, Stopped, vars, AdaptersTypeOK, CallTypes,
                           CallsOK, RestTypes, adapterVars, fixedVars, callVars,
                           serviceVars, counts
  <2>3. QED BY <2>1, <2>2, TypeParts
<1>2. CASE Tunnels
  <2>1. AdaptersTypeOK'
    BY <1>2, AdapterTypes DEF Tunnels, Environment, TypeOK
  <2>2. requests' \in Nat /\ changes' \in Nat
    BY <1>2, CountTypes DEF Tunnels, TypeOK
  <2>3. QED
    BY <1>2, <2>1, <2>2 DEF Tunnels, Rest, TypeOK, CallsOK, watchdogVars, callVars, serviceVars
<1>3. CASE \E g \in Goroutines : Call(g)
  BY <1>3, CallStepTypes
<1>4. ASSUME NEW r \in Requests, Request(r) PROVE TypeOK' /\ CallsOK'
  <2>1. r \in Goroutines
    BY DEF Goroutines
  <2>2. CallTypes'
    BY <1>4, <2>1, CallMoves, TypeParts
    DEF Request, RequestConnect, RequestDisconnect, Steps, ConnectSteps, DisconnectSteps
  <2>3. requests' \in Nat /\ changes' \in Nat
    BY <1>4, CountTypes DEF Request, TypeOK
  <2>4. QED
    BY <1>4, <2>2, <2>3, TypeParts
    DEF Request, RequestConnect, RequestDisconnect, Rest, AdaptersTypeOK, WatchdogTypes,
        RestTypes, adapterVars, fixedVars, watchdogVars, serviceVars
<1>5. CASE \E p \in Profiles : Watch(p) \/ CoolDown(p)
  BY <1>5, WatchTypes
<1>6. QED BY <1>1, <1>2, <1>3, <1>4, <1>5 DEF Next
----------------------------------------------------------------------------
(* Watchers *)

\* Marking a profile active spawns the one watcher it lacked, if any.
LEMMA MarkWatchers ==
    ASSUME TypeOK, WatchersOK, NEW p \in Profiles, MarkActive(p), UNCHANGED cancelled
    PROVE  WatchersOK'
BY DEF TypeOK, WatchersOK, MarkActive, Spawns, Phases

\* A watcher that moves stays a watcher.
LEMMA MoveWatchers ==
    ASSUME TypeOK, WatchersOK, NEW p \in Profiles, watch[p] # "none",
           NEW step \in WatchSteps \ {"none"}, Move(p, step), UNCHANGED cancelled
    PROVE  WatchersOK'
BY DEF TypeOK, WatchersOK, Move

LEMMA WatchersStep == IInv /\ [Next]_vars => WatchersOK'
<1> SUFFICES ASSUME IInv, [Next]_vars PROVE WatchersOK'
  OBVIOUS
<1> USE DEF IInv
<1>1. CASE Start
  BY <1>1 DEF Start, TypeOK, WatchersOK
<1>2. CASE Cancel \/ Stop
  BY <1>2 DEF Cancel, Stop, WatchersOK, watchdogVars
<1>3. CASE Stopped
  BY <1>3 DEF Stopped, WatchersOK
<1>4. CASE Tunnels \/ UNCHANGED vars \/ (\E r \in Requests : Request(r))
           \/ (\E p \in Profiles : CoolDown(p))
  BY <1>4 DEF Tunnels, Request, RequestConnect, RequestDisconnect, CoolDown, Rest, vars,
              WatchersOK, watchdogVars
<1>5. ASSUME NEW g \in Goroutines, Call(g) PROVE WatchersOK'
  <2>1. CASE Mark(g)
    <3>1. on[g] \in Profiles
      BY <2>1 DEF Mark, CallsOK, Resting
    <3>2. QED BY <1>5, <2>1, <3>1, MarkWatchers DEF Mark, Call, Rest
  <2>2. CASE ~Mark(g)
    BY <1>5, <2>2 DEF Call, CallStep, Preflight, CheckStatus, Dial, Attach, Guard, Intend, HangUp,
       Release, MarkIntended, Rest, WatchersOK, watchdogVars
  <2>3. QED BY <2>1, <2>2
<1>6. ASSUME NEW p \in Profiles, Watch(p) PROVE WatchersOK'
  <2>1. CASE Poll(p) \/ Decide(p) \/ Wake(p) \/ Reconnected(p) \/ ConsiderFailover(p)
             \/ TakenOver(p) \/ (\E q \in Profiles : ScanCandidate(p, q))
    BY <2>1, MoveWatchers DEF Poll, Decide, Wake, Reconnected, ConsiderFailover, TakenOver,
       ScanCandidate, WatchSteps
  <2>2. CASE Leave(p)
    BY <2>2 DEF Leave, TypeOK, WatchersOK
  <2>3. CASE Adopt(p)
    BY <2>3 DEF Adopt, TypeOK, WatchersOK, Spawns
  <2>4. QED BY <1>6, <2>1, <2>2, <2>3 DEF Watch, Failover
<1>7. QED BY <1>1, <1>2, <1>3, <1>4, <1>5, <1>6 DEF Next
----------------------------------------------------------------------------
(* Overruns *)

LEMMA OverrunsStep == IInv /\ [Next]_vars => OverrunsOK'
<1> SUFFICES ASSUME IInv, [Next]_vars PROVE OverrunsOK'
  OBVIOUS
<1> USE DEF IInv
<1>1. CASE Start
  BY <1>1 DEF Start, TypeOK, OverrunsOK
<1>2. CASE Cancel \/ Stop \/ Stopped \/ Tunnels \/ UNCHANGED vars
           \/ (\E r \in Requests : Request(r)) \/ (\E p \in Profiles : CoolDown(p))
  BY <1>2 DEF Cancel, Stop, Stopped, Tunnels, Request, RequestConnect, RequestDisconnect,
              CoolDown, Rest, vars, OverrunsOK, watchdogVars
<1>3. ASSUME NEW g \in Goroutines, Call(g) PROVE OverrunsOK'
  <2>1. at[g] \notin Resting => on[g] \in Profiles
    BY DEF CallsOK
  <2>2. CASE Mark(g)
    BY <2>1, <2>2 DEF Mark, MarkActive, Spawns, TypeOK, OverrunsOK
  <2>3. CASE Intend(g)
    BY <2>1, <2>3 DEF Intend, MarkIntended, TypeOK, OverrunsOK
  <2>4. CASE ~Mark(g) /\ ~Intend(g)
    BY <1>3, <2>4 DEF Call, CallStep, Preflight, CheckStatus, Dial, Attach, Guard, HangUp,
       Release, Rest, OverrunsOK, watchdogVars
  <2>5. QED BY <2>2, <2>3, <2>4
<1>4. ASSUME NEW p \in Profiles, Watch(p) PROVE OverrunsOK'
  <2>1. CASE Poll(p) \/ Reconnected(p) \/ ConsiderFailover(p) \/ TakenOver(p)
             \/ (\E q \in Profiles : ScanCandidate(p, q))
    BY <2>1 DEF Poll, Reconnected, ConsiderFailover, TakenOver, ScanCandidate, Move,
       TypeOK, OverrunsOK
  <2>2. CASE Decide(p)
    BY <2>2 DEF Decide, Move, TypeOK, OverrunsOK
  <2>3. CASE Wake(p)
    BY <2>3 DEF Wake, Move, TypeOK, OverrunsOK
  <2>4. CASE Leave(p)
    BY <2>4 DEF Leave, TypeOK, OverrunsOK
  <2>5. CASE Adopt(p)
    BY <2>5 DEF Adopt, TypeOK, OverrunsOK, Spawns
  <2>6. QED BY <1>4, <2>1, <2>2, <2>3, <2>4, <2>5 DEF Watch, Failover
<1>5. QED BY <1>1, <1>2, <1>3, <1>4 DEF Next
----------------------------------------------------------------------------
(* The invariant and what follows from it *)

LEMMA InitIInv == Init => IInv
<1> SUFFICES ASSUME Init PROVE IInv
  OBVIOUS
<1> USE DEF Init
<1>1. TypeOK
  <2>1. AdaptersTypeOK
    BY DEF AdaptersInit, AdaptersTypeOK, Handles
  <2>2. CallTypes /\ WatchdogTypes
    BY DEF CallTypes, CallsOK, Steps, WatchdogTypes, Resting, Phases, WatchSteps
  <2>3. RestTypes
    BY DEF RestTypes
  <2>4. QED BY <2>1, <2>2, <2>3, TypeParts
<1>2. CallsOK /\ WatchersOK /\ OverrunsOK
  BY DEF CallsOK, WatchersOK, OverrunsOK, Resting
<1>3. QED BY <1>1, <1>2 DEF IInv

LEMMA StepIInv == IInv /\ [Next]_vars => IInv'
BY TypeStep, WatchersStep, OverrunsStep DEF IInv

\* The strengthening is an invariant of the specification.
THEOREM Invariance == Spec => []IInv
<1>1. IInv /\ [Next]_vars => IInv'
  BY StepIInv
<1>2. QED BY <1>1, InitIInv, PTL DEF Spec

\* Every variable keeps its type, whatever the goroutines interleave.
THEOREM TypeCorrect == Spec => []TypeOK
<1>1. IInv => TypeOK
  BY DEF IInv
<1>2. QED BY <1>1, Invariance, PTL

\* MarkActive and Start never give a profile a second watcher, and never leave
\* a profile that was connected without one.
THEOREM WatchersAreUnique == Spec => []OneWatcher
<1>1. IInv => OneWatcher
  BY DEF IInv, WatchersOK, OneWatcher
<1>2. QED BY <1>1, Invariance, PTL

\* No watcher outlives Stop, and none is spawned after it.
THEOREM NoWatcherAfterStop == Spec => []StoppedMeansNoWatcher
<1>1. IInv => StoppedMeansNoWatcher
  BY DEF IInv, WatchersOK, StoppedMeansNoWatcher
<1>2. QED BY <1>1, Invariance, PTL

\* After MarkIntended a profile's watcher reconnects it once at the most.
THEOREM OverrunsAreBounded == Spec => []AtMostOneOverrun
<1>1. IInv => AtMostOneOverrun
  BY DEF IInv, OverrunsOK, AtMostOneOverrun
<1>2. QED BY <1>1, Invariance, PTL
=============================================================================
