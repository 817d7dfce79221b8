-------------------------- MODULE KillSwitchProofs --------------------------
(***************************************************************************)
(* The kill switch's safety for every set of profiles and of goroutines,   *)
(* under failing commands: what IsEnabled says, whom Apply counts, and     *)
(* that traffic is never dropped without a tunnel let through before.      *)
(***************************************************************************)
EXTENDS KillSwitch, TLAPS

\* The mutex is held from the flush to the last command of Enable.
HolderOK == \A r \in Requests : at[r] \in {"accept", "drop"} <=> holder = r

\* A profile that was connected ever since an Apply began has been counted, or
\* is still to be asked.
ScanOK ==
    \A r \in Requests :
        /\ steady[r] \subseteq connected
        /\ at[r] = "scan" => steady[r] \cap Protected \subseteq found[r] \cup todo[r]
        /\ at[r] = "resolve" =>
              steady[r] \cap Protected \cap Named \subseteq allow[r] \cup todo[r]
        /\ allow[r] \subseteq Named
        /\ at[r] \in {"enable", "accept", "drop"} => allow[r] # {}

\* Who is about to append Drop has just let its tunnels through.
AllowedLast ==
    \A r \in Requests : at[r] = "drop" => Len(chain) > 0 /\ chain[Len(chain)] = allow[r]

IInv ==
    /\ TypeOK /\ HolderOK /\ ScanOK /\ AllowedLast
    /\ EnabledTellsTheTruth /\ SteadyTunnelsCount /\ NeverCutOff

\* The types of the variables that are not Boolean, and of those that are.
DataOK ==
    /\ connected \subseteq Profiles
    /\ at \in [Requests -> Steps]
    /\ todo \in [Requests -> SUBSET Profiles] /\ found \in [Requests -> SUBSET Profiles]
    /\ allow \in [Requests -> SUBSET Profiles] /\ steady \in [Requests -> SUBSET Profiles]
    /\ holder \in Requests \cup {Nobody}
    /\ chain \in Seq({Drop} \cup SUBSET Named)

FlagsOK == enabled \in BOOLEAN /\ failed \in BOOLEAN

LEMMA TypeParts == (TypeOK <=> DataOK /\ FlagsOK) /\ (TypeOK <=> DataOK /\ FlagsOK)'
BY DEF TypeOK, DataOK, FlagsOK

\* No rule that accepts a set of interfaces is Drop.
LEMMA DropAcceptsNothing == \A s \in SUBSET Named : s # Drop
BY KillSwitchAssumption DEF Drop

LEMMA InitIInv == Init => IInv
<1> SUFFICES ASSUME Init PROVE IInv
  OBVIOUS
<1> USE DEF Init
<1>1. FlagsOK
  BY DEF FlagsOK
<1>2. DataOK
  BY DEF DataOK, Steps
<1>3. HolderOK
  BY KillSwitchAssumption DEF HolderOK
<1>4. ScanOK /\ AllowedLast /\ SteadyTunnelsCount
  BY DEF ScanOK, AllowedLast, SteadyTunnelsCount
<1>5. NeverCutOff /\ ~Dropping
  BY DEF NeverCutOff, Dropping
<1>6. EnabledTellsTheTruth
  BY <1>5 DEF EnabledTellsTheTruth
<1>7. QED BY <1>1, <1>2, <1>3, <1>4, <1>5, <1>6, TypeParts DEF IInv
----------------------------------------------------------------------------
(* Steps that leave the firewall alone *)

Quiet == HolderOK /\ ScanOK /\ AllowedLast /\ SteadyTunnelsCount

LEMMA FirewallKept ==
    ASSUME IInv, UNCHANGED firewallVars, DataOK', Quiet'
    PROVE  IInv'
<1> USE TypeParts DEF IInv, Quiet, firewallVars
<1>1. FlagsOK'
  BY DEF FlagsOK
<1>2. EnabledTellsTheTruth' /\ NeverCutOff'
  BY DEF EnabledTellsTheTruth, NeverCutOff, Dropping
<1>3. QED BY <1>1, <1>2

\* A connect or a disconnect has been made, and an Apply begins.
LEMMA BeginStep ==
    ASSUME IInv, NEW r \in Requests, NEW now \in SUBSET Profiles, BeginApply(r, now)
    PROVE  IInv'
<1> USE TypeParts DEF IInv, Quiet, BeginApply, firewallVars
<1>1. DataOK'
  BY KillSwitchAssumption DEF DataOK, Steps
<1>2. HolderOK'
  BY DEF HolderOK, DataOK
<1>3. ScanOK' /\ SteadyTunnelsCount'
  BY DEF ScanOK, SteadyTunnelsCount, DataOK
<1>4. AllowedLast'
  BY DEF AllowedLast, DataOK
<1>5. QED BY <1>1, <1>2, <1>3, <1>4, FirewallKept

LEMMA DropsStep ==
    ASSUME IInv, NEW p \in Profiles, TunnelDrops(p)
    PROVE  IInv'
<1> USE TypeParts DEF IInv, Quiet, TunnelDrops, Track, firewallVars
<1>1. DataOK'
  BY DEF DataOK
<1>2. HolderOK' /\ AllowedLast'
  BY DEF HolderOK, AllowedLast
<1>3. ScanOK' /\ SteadyTunnelsCount'
  BY DEF ScanOK, SteadyTunnelsCount, DataOK
<1>4. QED BY <1>1, <1>2, <1>3, FirewallKept

LEMMA ApplyStep ==
    ASSUME IInv, NEW r \in Requests,
           \/ \E p \in Profiles : Ask(r, p) \/ Resolve(r, p)
           \/ Asked(r) \/ Resolved(r)
    PROVE  IInv'
<1> USE TypeParts DEF IInv, Quiet, Goto, scanVars, firewallVars
<1>1. ASSUME NEW p \in Profiles, Ask(r, p) PROVE IInv'
  <2>1. DataOK'
    BY <1>1 DEF Ask, DataOK
  <2>2. HolderOK' /\ AllowedLast'
    BY <1>1 DEF Ask, HolderOK, AllowedLast
  <2>3. ScanOK' /\ SteadyTunnelsCount'
    BY <1>1 DEF Ask, ScanOK, SteadyTunnelsCount, DataOK
  <2>4. QED BY <1>1, <2>1, <2>2, <2>3, FirewallKept DEF Ask
<1>2. ASSUME NEW p \in Profiles, Resolve(r, p) PROVE IInv'
  <2>1. DataOK'
    BY <1>2 DEF Resolve, DataOK
  <2>2. HolderOK' /\ AllowedLast'
    BY <1>2 DEF Resolve, HolderOK, AllowedLast, DataOK
  <2>3. ScanOK' /\ SteadyTunnelsCount'
    BY <1>2 DEF Resolve, ScanOK, SteadyTunnelsCount, DataOK
  <2>4. QED BY <1>2, <2>1, <2>2, <2>3, FirewallKept DEF Resolve
<1>3. CASE Asked(r)
  <2>1. DataOK'
    BY <1>3 DEF Asked, DataOK, Steps
  <2>2. HolderOK' /\ AllowedLast'
    BY <1>3 DEF Asked, HolderOK, AllowedLast, DataOK
  <2>3. ScanOK' /\ SteadyTunnelsCount'
    BY <1>3 DEF Asked, ScanOK, SteadyTunnelsCount, DataOK
  <2>4. QED BY <1>3, <2>1, <2>2, <2>3, FirewallKept DEF Asked
<1>4. CASE Resolved(r)
  <2>1. DataOK'
    BY <1>4 DEF Resolved, DataOK, Steps
  <2>2. HolderOK' /\ AllowedLast'
    BY <1>4 DEF Resolved, HolderOK, AllowedLast, DataOK
  <2>3. ScanOK' /\ SteadyTunnelsCount'
    BY <1>4 DEF Resolved, ScanOK, SteadyTunnelsCount, DataOK
  <2>4. QED BY <1>4, <2>1, <2>2, <2>3, FirewallKept DEF Resolved
<1>5. QED BY <1>1, <1>2, <1>3, <1>4
----------------------------------------------------------------------------
(* Steps of the firewall *)

\* What such a step has to say: its own goroutine moves, the chain changes.
LEMMA ScansKept ==
    ASSUME IInv, NEW r \in Requests, NEW next \in Steps, Goto(r, next),
           UNCHANGED <<connected, scanVars>>,
           \/ next = "idle"
           \/ at[r] = "enable" /\ next = "accept"
           \/ at[r] = "accept" /\ next = "drop"
    PROVE  ScanOK' /\ SteadyTunnelsCount'
BY TypeParts DEF IInv, Goto, scanVars, ScanOK, SteadyTunnelsCount, DataOK

\* Appending a rule that is not Drop cuts nobody off.
LEMMA AcceptCutsNobody ==
    ASSUME DataOK, NeverCutOff, NEW s \in SUBSET Named, chain' = Append(chain, s)
    PROVE  NeverCutOff'
BY DropAcceptsNothing DEF DataOK, NeverCutOff

\* Nor does appending Drop after a rule that lets a tunnel through.
LEMMA DropAfterTunnel ==
    ASSUME DataOK, NeverCutOff, Len(chain) > 0, chain[Len(chain)] # {},
           chain' = Append(chain, Drop)
    PROVE  NeverCutOff'
<1> DEFINE n == Len(chain)
<1>1. /\ n \in Nat /\ DOMAIN chain = 1 .. n /\ DOMAIN chain' = 1 .. (n + 1)
      /\ \A i \in 1 .. n : chain'[i] = chain[i]
      /\ chain'[n + 1] = Drop
  BY DEF DataOK
<1> HIDE DEF n
<1>2. n > 0 /\ chain[n] # {}
  BY DEF n
<1>3. ASSUME NEW i \in 1 .. (n + 1), chain'[i] = Drop, \A j \in 1 .. i - 1 : chain'[j] # Drop
      PROVE  i > 1 /\ chain'[i - 1] # {}
  <2>1. CASE i = n + 1
    BY <1>1, <1>2, <2>1
  <2>2. CASE i \in 1 .. n
    <3>1. chain[i] = Drop /\ \A j \in 1 .. i - 1 : chain[j] # Drop
      BY <1>1, <1>3, <2>2
    <3>2. i > 1 /\ chain[i - 1] # {}
      BY <1>1, <2>2, <3>1 DEF NeverCutOff
    <3>3. QED
      BY <1>1, <2>2, <3>2
  <2>3. QED
    BY <1>1, <2>1, <2>2
<1>4. QED
  BY <1>1, <1>3 DEF NeverCutOff

LEMMA EmptyChain ==
    ASSUME chain' = <<>>
    PROVE  NeverCutOff' /\ ~Dropping' /\ chain' \in Seq({Drop} \cup SUBSET Named)
BY DEF NeverCutOff, Dropping

LEMMA SameChain ==
    ASSUME chain' = chain, NeverCutOff
    PROVE  NeverCutOff'
BY DEF NeverCutOff

LEMMA DisableStep ==
    ASSUME IInv, NEW r \in Requests, Disable(r)
    PROVE  IInv'
<1> USE TypeParts DEF IInv, Disable, Unlock, Runs, FailsToRun
<1>1. chain' = <<>> \/ chain' = chain
  OBVIOUS
<1>2. DataOK'
  BY <1>1, EmptyChain DEF DataOK, Goto, Steps, scanVars
<1>3. FlagsOK'
  BY DEF FlagsOK
<1>4. HolderOK' /\ AllowedLast'
  <2>1. \A s \in Requests : at[s] \notin {"accept", "drop"}
    BY KillSwitchAssumption DEF HolderOK
  <2>2. \A s \in Requests : at'[s] \notin {"accept", "drop"}
    BY <2>1 DEF Goto, DataOK
  <2>3. QED BY <2>2, KillSwitchAssumption DEF HolderOK, AllowedLast
<1>5. ScanOK' /\ SteadyTunnelsCount'
  BY ScansKept DEF Steps
<1>6. NeverCutOff'
  BY <1>1, EmptyChain, SameChain
<1>7. EnabledTellsTheTruth'
  BY EmptyChain DEF EnabledTellsTheTruth
<1>8. QED BY <1>2, <1>3, <1>4, <1>5, <1>6, <1>7

LEMMA FlushStep ==
    ASSUME IInv, NEW r \in Requests, Flush(r)
    PROVE  IInv'
<1> USE TypeParts DEF IInv, Flush, Runs, FailsToRun
<1>1. chain' = <<>> \/ chain' = chain
  OBVIOUS
<1>2. DataOK'
  BY <1>1, EmptyChain DEF DataOK, Goto, Steps, scanVars
<1>3. FlagsOK'
  BY DEF FlagsOK
<1>4. HolderOK' /\ AllowedLast'
  <2>1. \A s \in Requests : at[s] \notin {"accept", "drop"}
    BY KillSwitchAssumption DEF HolderOK
  <2>2. \A s \in Requests : at'[s] # "drop" /\ (at'[s] = "accept" <=> s = r)
    BY <2>1 DEF Goto, DataOK
  <2>3. QED BY <2>2 DEF HolderOK, AllowedLast
<1>5. ScanOK' /\ SteadyTunnelsCount'
  BY ScansKept DEF Steps
<1>6. NeverCutOff'
  BY <1>1, EmptyChain, SameChain
<1>7. EnabledTellsTheTruth'
  BY KillSwitchAssumption DEF EnabledTellsTheTruth
<1>8. QED BY <1>2, <1>3, <1>4, <1>5, <1>6, <1>7

LEMMA AcceptStep ==
    ASSUME IInv, NEW r \in Requests, Accept(r)
    PROVE  IInv'
<1> USE TypeParts DEF IInv, Accept
<1>0. /\ holder = r /\ r # Nobody /\ allow[r] \in SUBSET Named
      /\ \A s \in Requests : s # r => at[s] \notin {"accept", "drop"}
  BY KillSwitchAssumption DEF HolderOK, ScanOK
<1>1. CASE Runs(Append(chain, allow[r])) /\ Goto(r, "drop") /\ UNCHANGED <<holder, failed>>
  <2>1. chain' = Append(chain, allow[r])
    BY <1>1 DEF Runs
  <2>2. DataOK'
    BY <1>0, <1>1, <2>1 DEF DataOK, Goto, Steps, scanVars
  <2>3. FlagsOK'
    BY <1>1 DEF FlagsOK
  <2>4. \A s \in Requests : at'[s] # "accept" /\ (at'[s] = "drop" <=> s = r)
    BY <1>0, <1>1 DEF Goto, DataOK
  <2>5. HolderOK'
    BY <1>0, <1>1, <2>4 DEF HolderOK
  <2>6. AllowedLast'
    BY <2>1, <2>4 DEF AllowedLast, DataOK, scanVars
  <2>7. ScanOK' /\ SteadyTunnelsCount'
    BY <1>1, ScansKept DEF Steps
  <2>8. NeverCutOff'
    BY <1>0, <2>1, AcceptCutsNobody
  <2>9. EnabledTellsTheTruth'
    BY <1>0, <1>1 DEF EnabledTellsTheTruth
  <2>10. QED BY <2>2, <2>3, <2>5, <2>6, <2>7, <2>8, <2>9
<1>2. CASE /\ \E part \in SUBSET allow[r] : FailsToRun(Append(chain, part))
           /\ Unlock(r, TRUE)
  <2>1. PICK part \in SUBSET Named : chain' \in {chain, Append(chain, part)}
    BY <1>0, <1>2 DEF FailsToRun
  <2>2. DataOK'
    <3>1. chain \in Seq({Drop} \cup SUBSET Named) /\ DataOK
      BY DEF DataOK
    <3>2. chain' \in Seq({Drop} \cup SUBSET Named)
      BY <2>1, <3>1
    <3>3. QED
      BY <1>2, <3>1, <3>2 DEF DataOK, Unlock, Goto, Steps, scanVars
  <2>3. FlagsOK'
    BY <1>2 DEF FlagsOK, Unlock
  <2>4. \A s \in Requests : at'[s] \notin {"accept", "drop"}
    BY <1>0, <1>2 DEF Unlock, Goto, DataOK
  <2>5. HolderOK' /\ AllowedLast'
    BY <1>2, <2>4, KillSwitchAssumption DEF HolderOK, AllowedLast, Unlock
  <2>6. ScanOK' /\ SteadyTunnelsCount'
    BY <1>2, ScansKept DEF Steps, Unlock
  <2>7. NeverCutOff'
    BY <2>1, AcceptCutsNobody, SameChain
  <2>8. EnabledTellsTheTruth'
    BY <1>2 DEF EnabledTellsTheTruth, Unlock
  <2>9. QED BY <2>2, <2>3, <2>5, <2>6, <2>7, <2>8
<1>3. QED BY <1>1, <1>2

LEMMA DropRestStep ==
    ASSUME IInv, NEW r \in Requests, DropRest(r)
    PROVE  IInv'
<1> USE TypeParts DEF IInv, DropRest
<1>1. /\ Len(chain) > 0 /\ chain[Len(chain)] # {} /\ holder = r
      /\ \A s \in Requests : s # r => at[s] \notin {"accept", "drop"}
  BY DEF AllowedLast, ScanOK, HolderOK
<1>2. chain' \in {chain, Append(chain, Drop)}
  BY DEF Runs, FailsToRun
<1>3. Goto(r, "idle") /\ holder' = Nobody
  BY DEF Unlock
<1>4. DataOK'
  <2>1. chain' \in Seq({Drop} \cup SUBSET Named)
    BY <1>2 DEF DataOK
  <2>2. QED BY <1>3, <2>1 DEF DataOK, Goto, Steps, scanVars
<1>5. FlagsOK'
  BY DEF FlagsOK, Unlock
<1>6. HolderOK' /\ AllowedLast'
  <2>1. \A s \in Requests : at'[s] \notin {"accept", "drop"}
    BY <1>1, <1>3 DEF Goto, DataOK
  <2>2. QED BY <1>3, <2>1, KillSwitchAssumption DEF HolderOK, AllowedLast
<1>7. ScanOK' /\ SteadyTunnelsCount'
  BY <1>3, ScansKept DEF Steps
<1>8. NeverCutOff'
  BY <1>1, <1>2, DropAfterTunnel, SameChain
<1>9. EnabledTellsTheTruth'
  <2>1. CASE Runs(Append(chain, Drop)) /\ enabled' = TRUE /\ Unlock(r, FALSE)
    <3>1. Dropping'
      BY <2>1 DEF Dropping, Runs, DataOK
    <3>2. QED BY <2>1, <3>1 DEF EnabledTellsTheTruth
  <2>2. CASE Unlock(r, TRUE)
    BY <2>2 DEF EnabledTellsTheTruth, Unlock
  <2>3. QED BY <2>1, <2>2
<1>10. QED BY <1>4, <1>5, <1>6, <1>7, <1>8, <1>9

LEMMA StutterStep ==
    ASSUME IInv, UNCHANGED vars
    PROVE  IInv'
<1> USE TypeParts DEF IInv, Quiet, vars, scanVars
<1>1. DataOK'
  BY DEF DataOK, firewallVars
<1>2. HolderOK' /\ ScanOK' /\ AllowedLast' /\ SteadyTunnelsCount'
  BY DEF HolderOK, ScanOK, AllowedLast, SteadyTunnelsCount, firewallVars
<1>3. QED BY <1>1, <1>2, FirewallKept
----------------------------------------------------------------------------
\* However connects, disconnects, drops, the Apply calls that follow them and
\* failing iptables commands interleave, the inductive invariant holds.
THEOREM Invariance == Spec => []IInv
<1>1. Init => IInv
  BY InitIInv
<1>2. IInv /\ [Next]_vars => IInv'
  <2> SUFFICES ASSUME IInv, [Next]_vars PROVE IInv'
    OBVIOUS
  <2>1. ASSUME NEW p \in Profiles, TunnelDrops(p) PROVE IInv'
    BY <2>1, DropsStep
  <2>2. ASSUME NEW r \in Requests, NEW p \in Profiles, Connect(r, p) PROVE IInv'
    BY <2>2, BeginStep, TypeParts DEF Connect, IInv, DataOK
  <2>3. ASSUME NEW r \in Requests, NEW p \in Profiles, Disconnect(r, p) PROVE IInv'
    BY <2>3, BeginStep, TypeParts DEF Disconnect, IInv, DataOK
  <2>4. ASSUME NEW r \in Requests,
               (\E p \in Profiles : Ask(r, p) \/ Resolve(r, p)) \/ Asked(r) \/ Resolved(r)
        PROVE IInv'
    BY <2>4, ApplyStep
  <2>5. ASSUME NEW r \in Requests, Disable(r) \/ Flush(r) \/ Accept(r) \/ DropRest(r)
        PROVE IInv'
    BY <2>5, DisableStep, FlushStep, AcceptStep, DropRestStep
  <2>6. CASE UNCHANGED vars
    BY <2>6, StutterStep
  <2>7. QED BY <2>1, <2>2, <2>3, <2>4, <2>5, <2>6 DEF Next
<1>3. QED BY <1>1, <1>2, PTL DEF Spec

\* Every variable keeps its type, and the chain holds only rules that Enable
\* appends: it accepts interfaces that have a name, or drops the rest.
THEOREM TypeCorrect == Spec => []TypeOK
BY Invariance, PTL DEF IInv

\* Between calls the answer of IsEnabled is true of the firewall, unless a
\* command of the last Enable or Disable failed.
THEOREM TruthfulWhenIdle == Spec => []EnabledTellsTheTruth
BY Invariance, PTL DEF IInv

\* An Apply never overlooks a protected tunnel that was up all along.
THEOREM SteadyTunnelsSeen == Spec => []SteadyTunnelsCount
BY Invariance, PTL DEF IInv

\* No sequence of Apply calls, however its commands fail, drops traffic with no
\* tunnel let through.
THEOREM NobodyCutOff == Spec => []NeverCutOff
BY Invariance, PTL DEF IInv
=============================================================================
