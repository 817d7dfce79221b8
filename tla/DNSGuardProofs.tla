--------------------------- MODULE DNSGuardProofs ---------------------------
(***************************************************************************)
(* The DNS guard's safety for every set of profiles, servers and contents  *)
(* of resolv.conf, under failing writes, crashes and foreign writers.      *)
(***************************************************************************)
EXTENDS DNSGuard, TLAPS

\* What the call that holds the mutex has read, and what it is restoring.
CallOK ==
    /\ step = "backup" => buffer = resolvConf
    /\ step = "put back" => buffer = resolvBackup
    /\ step = "write" => resolvBackup # NoFile
    /\ step \in {"read back", "put back", "remove"} => guarding

\* Only an Apply guards, and an active guard keeps other contents out.
GuardOK ==
    /\ guarding => resolvBackup # NoFile
    /\ guarding \/ step # "idle" => applies > 0
    /\ guarding /\ step # "remove" => resolvConf \notin Foreign

\* Where the original is, as long as nothing was applied over a managed file.
OriginalOK ==
    /\ applies = 0 => resolvConf = original
    /\ applies = 1 /\ step \in {"backup", "remove"} => resolvConf = original
    /\ applies = 1 /\ (guarding \/ step = "write") => resolvBackup = original
    /\ OneApplyLosesNothing

\* The types of the variables that are not Boolean, and of those that are.
DataOK ==
    /\ resolvConf \in Contents /\ resolvBackup \in {NoFile} \cup Contents
    /\ servers \in [Profiles -> SUBSET Servers]
    /\ step \in Steps /\ buffer \in {NoFile} \cup Contents
    /\ original \in Foreign /\ applies \in 0..2

FlagsOK == guarding \in BOOLEAN /\ failed \in BOOLEAN

IInv == TypeOK /\ CallOK /\ GuardOK /\ OriginalOK /\ ActiveServersInForce

Calls ==
    \/ \E p \in Profiles, ips \in SUBSET Servers : OnConnect(p, ips)
    \/ \E p \in Profiles : OnDisconnect(p)
    \/ ForceRestore

LEMMA TypeParts == (TypeOK <=> DataOK /\ FlagsOK) /\ (TypeOK <=> DataOK /\ FlagsOK)'
BY DEF TypeOK, DataOK, FlagsOK

LEMMA MergedIsServers == TypeOK => Merged \in SUBSET Servers
BY DEF TypeOK, Merged

\* No content another program writes is a set of the tunnels' servers.
LEMMA ForeignIsForeign == \A c \in SUBSET Servers : c \notin Foreign
BY DNSAssumption

LEMMA InitIInv == Init => IInv
<1> SUFFICES ASSUME Init PROVE IInv
  OBVIOUS
<1> USE DEF Init
<1>1. resolvConf \in Contents /\ original \in Foreign
  BY DEF Contents
<1>2. resolvBackup \in {NoFile} \cup Contents /\ buffer \in {NoFile} \cup Contents
  OBVIOUS
<1>3. servers \in [Profiles -> SUBSET Servers]
  OBVIOUS
<1>4. guarding \in BOOLEAN /\ failed \in BOOLEAN
  OBVIOUS
<1>5. step \in Steps /\ applies \in 0..2
  BY DEF Steps
<1>6. CallOK /\ GuardOK
  BY DEF CallOK, GuardOK
<1>7. OriginalOK /\ ActiveServersInForce
  BY DEF OriginalOK, OneApplyLosesNothing, ActiveServersInForce
<1>8. QED BY <1>1, <1>2, <1>3, <1>4, <1>5, <1>6, <1>7 DEF IInv, TypeOK
----------------------------------------------------------------------------
\* The first step of a call: the mutex is taken and nothing is written.
LEMMA CallsStep == IInv /\ Calls => IInv'
<1> SUFFICES ASSUME IInv, Calls PROVE IInv'
  OBVIOUS
<1> USE TypeParts DEF IInv
<1>1. step = "idle" /\ UNCHANGED <<fileVars, guarding, original>>
  BY DEF Calls, OnConnect, OnDisconnect, ForceRestore, BeginApply, BeginRestore
<1>2. servers' \in [Profiles -> SUBSET Servers]
  BY DEF DataOK, Calls, OnConnect, OnDisconnect, ForceRestore
<1> USE <1>1, <1>2 DEF Goto, Fails, Succeeds, Unlock, fileVars
<1>3. CASE BeginApply
  <2>1. FlagsOK'
    BY <1>3 DEF BeginApply, FlagsOK
  <2>2. DataOK'
    <3>1. applies' \in 0..2
      BY <1>3 DEF BeginApply, DataOK
    <3>2. step' \in Steps /\ buffer' \in {NoFile} \cup Contents
      BY <1>3 DEF BeginApply, DataOK, Steps
    <3>3. QED BY <1>3, <3>1, <3>2 DEF BeginApply, DataOK
  <2>3. CallOK'
    BY <1>3 DEF BeginApply, CallOK, GuardOK, DataOK
  <2>6. GuardOK'
    BY <1>3 DEF BeginApply, CallOK, GuardOK, DataOK
  <2>4. OriginalOK'
    BY <1>3 DEF BeginApply, OriginalOK, OneApplyLosesNothing, DataOK, GuardOK
  <2>5. ActiveServersInForce'
    BY <1>3 DEF BeginApply, ActiveServersInForce
  <2>7. QED BY <2>1, <2>2, <2>3, <2>4, <2>5, <2>6
<1>4. CASE BeginRestore
  <2>0. UNCHANGED <<resolvConf, resolvBackup, guarding, original, applies>>
    BY <1>4 DEF BeginRestore
  <2>1. CASE guarding
    <3>1. step' = "read back" /\ buffer' = NoFile /\ failed' = failed
      BY <1>4, <2>1 DEF BeginRestore
    <3>2. TypeOK'
      BY <2>0, <3>1 DEF FlagsOK, DataOK, Steps
    <3>3. CallOK' /\ GuardOK'
      BY <2>0, <2>1, <3>1 DEF CallOK, GuardOK
    <3>4. OneApplyLosesNothing'
      BY <2>0 DEF OriginalOK, OneApplyLosesNothing
    <3>5. OriginalOK'
      BY <2>0, <2>1, <3>1, <3>4 DEF OriginalOK
    <3>6. ActiveServersInForce'
      BY <3>1 DEF ActiveServersInForce
    <3>7. QED BY <3>2, <3>3, <3>5, <3>6
  <2>2. CASE ~guarding
    <3>1. step' = "idle" /\ buffer' = NoFile /\ failed' = FALSE
      BY <1>4, <2>2 DEF BeginRestore
    <3>2. TypeOK'
      BY <2>0, <3>1 DEF FlagsOK, DataOK, Steps
    <3>3. CallOK' /\ GuardOK'
      BY <2>0, <2>2, <3>1 DEF CallOK, GuardOK
    <3>4. OriginalOK' /\ ActiveServersInForce'
      BY <2>0, <2>2, <3>1 DEF OriginalOK, OneApplyLosesNothing, ActiveServersInForce, DataOK
    <3>5. QED BY <3>2, <3>3, <3>4
  <2>3. QED BY <2>1, <2>2
<1>5. QED BY <1>3, <1>4 DEF Calls, OnConnect, OnDisconnect, ForceRestore

\* A file operation, whether it works or not.
LEMMA FileStepStep == IInv /\ FileStep => IInv'
<1> SUFFICES ASSUME IInv, FileStep PROVE IInv'
  OBVIOUS
<1> USE TypeParts DEF IInv, Goto, Fails, Succeeds, Unlock, fileVars
<1>0. UNCHANGED servers => Merged' = Merged
  BY DEF Merged
<1>1. CASE Backup
  <2>0. buffer # NoFile /\ {} # NoFile
    BY <1>1, DNSAssumption DEF Backup, CallOK, DataOK, Contents
  <2>1. FlagsOK'
    BY <1>1 DEF Backup, FlagsOK
  <2>2. DataOK'
    BY <1>1, DNSAssumption DEF Backup, DataOK, Steps, Contents
  <2>3. CallOK'
    BY <1>1, <2>0 DEF Backup, CallOK
  <2>6. GuardOK'
    BY <1>1, <2>0 DEF Backup, CallOK, GuardOK
  <2>4. OriginalOK'
    BY <1>1 DEF Backup, OriginalOK, OneApplyLosesNothing, DataOK, CallOK, GuardOK
  <2>5. ActiveServersInForce'
    BY <1>1 DEF Backup, ActiveServersInForce, CallOK, GuardOK
  <2>7. QED BY <2>1, <2>2, <2>3, <2>4, <2>5, <2>6
<1>2. CASE Write
  <2>1. FlagsOK'
    BY <1>2 DEF Write, FlagsOK
  <2>2. DataOK'
    BY <1>2, MergedIsServers DEF Write, DataOK, Steps, Contents
  <2>3. CallOK'
    BY <1>2, MergedIsServers, ForeignIsForeign DEF Write, CallOK, GuardOK, DataOK
  <2>6. GuardOK'
    BY <1>2, MergedIsServers, ForeignIsForeign DEF Write, CallOK, GuardOK, DataOK
  <2>4. OriginalOK'
    BY <1>2 DEF Write, OriginalOK, OneApplyLosesNothing, DataOK, CallOK, GuardOK
  <2>5. ActiveServersInForce'
    BY <1>2, <1>0 DEF Write, ActiveServersInForce, CallOK, GuardOK
  <2>7. QED BY <2>1, <2>2, <2>3, <2>4, <2>5, <2>6
<1>3. CASE ReadBack
  <2>1. FlagsOK'
    BY <1>3 DEF ReadBack, FlagsOK
  <2>2. DataOK'
    BY <1>3 DEF ReadBack, DataOK, Steps, Contents
  <2>3. CallOK'
    BY <1>3 DEF ReadBack, CallOK, GuardOK, DataOK
  <2>6. GuardOK'
    BY <1>3 DEF ReadBack, CallOK, GuardOK, DataOK
  <2>4. OriginalOK'
    BY <1>3 DEF ReadBack, OriginalOK, OneApplyLosesNothing, DataOK, CallOK, GuardOK
  <2>5. ActiveServersInForce'
    BY <1>3 DEF ReadBack, ActiveServersInForce, CallOK, GuardOK
  <2>7. QED BY <2>1, <2>2, <2>3, <2>4, <2>5, <2>6
<1>4. CASE PutBack
  <2>1. FlagsOK'
    BY <1>4 DEF PutBack, FlagsOK
  <2>2. DataOK'
    <3>1. buffer \in Contents
      BY <1>4 DEF PutBack, DataOK, CallOK, GuardOK
    <3>2. {} \in Contents
      BY DEF Contents
    <3>3. QED BY <1>4, <3>1, <3>2 DEF PutBack, DataOK, Steps
  <2>3. CallOK'
    BY <1>4, ForeignIsForeign DEF PutBack, CallOK, GuardOK, DataOK
  <2>6. GuardOK'
    BY <1>4, ForeignIsForeign DEF PutBack, CallOK, GuardOK, DataOK
  <2>4. OriginalOK'
    BY <1>4 DEF PutBack, OriginalOK, OneApplyLosesNothing, DataOK, CallOK, GuardOK
  <2>5. ActiveServersInForce'
    BY <1>4 DEF PutBack, ActiveServersInForce, CallOK, GuardOK
  <2>7. QED BY <2>1, <2>2, <2>3, <2>4, <2>5, <2>6
<1>5. CASE Remove
  <2>1. FlagsOK'
    BY <1>5 DEF Remove, FlagsOK
  <2>2. DataOK'
    BY <1>5 DEF Remove, DataOK, Steps, Contents
  <2>3. CallOK'
    BY <1>5 DEF Remove, CallOK, GuardOK, DataOK
  <2>6. GuardOK'
    BY <1>5 DEF Remove, CallOK, GuardOK, DataOK
  <2>4. OriginalOK'
    BY <1>5 DEF Remove, OriginalOK, OneApplyLosesNothing, DataOK, CallOK, GuardOK
  <2>5. ActiveServersInForce'
    BY <1>5 DEF Remove, ActiveServersInForce, CallOK, GuardOK
  <2>7. QED BY <2>1, <2>2, <2>3, <2>4, <2>5, <2>6
<1>6. QED BY <1>1, <1>2, <1>3, <1>4, <1>5 DEF FileStep

\* A crash, and a write of somebody else's.
LEMMA OutsideStep == IInv /\ (Crash \/ ForeignWrite) => IInv'
<1> SUFFICES ASSUME IInv, Crash \/ ForeignWrite PROVE IInv'
  OBVIOUS
<1> USE TypeParts DEF IInv, Unlock, fileVars
<1>1. CASE Crash
  <2>1. FlagsOK'
    BY <1>1 DEF Crash, FlagsOK
  <2>2. DataOK'
    BY <1>1 DEF Crash, DataOK, Steps, Contents
  <2>3. CallOK'
    BY <1>1 DEF Crash, CallOK, GuardOK, DataOK
  <2>6. GuardOK'
    BY <1>1 DEF Crash, CallOK, GuardOK, DataOK
  <2>4. OriginalOK'
    <3>1. resolvConf' = resolvConf \/ step \in {"write", "put back"}
      BY <1>1 DEF Crash
    <3>2. resolvBackup' = resolvBackup \/ step = "backup"
      BY <1>1 DEF Crash
    <3>3. step' = "idle" /\ ~guarding' /\ UNCHANGED <<original, applies>>
      BY <1>1 DEF Crash
    <3>4. step # "idle" => applies # 0
      BY DEF GuardOK, DataOK
    <3>5. applies = 0 => resolvConf' = original
      BY <3>1, <3>4 DEF OriginalOK
    <3>6. applies = 1 => original \in {resolvConf', resolvBackup'}
      <4>0. applies = 1 => original \in {resolvConf, resolvBackup}
        BY DEF OriginalOK, OneApplyLosesNothing, DataOK
      <4>1. CASE step = "backup"
        BY <3>1, <4>1 DEF OriginalOK
      <4>2. CASE step \in {"write", "put back"}
        BY <3>2, <4>2 DEF OriginalOK, CallOK
      <4>3. CASE step \notin {"backup", "write", "put back"}
        BY <3>1, <3>2, <4>0, <4>3
      <4>4. QED BY <4>1, <4>2, <4>3
    <3>7. QED
      BY <3>3, <3>5, <3>6 DEF OriginalOK, OneApplyLosesNothing, DataOK
  <2>5. ActiveServersInForce'
    BY <1>1 DEF Crash, ActiveServersInForce, CallOK, GuardOK
  <2>7. QED BY <2>1, <2>2, <2>3, <2>4, <2>5, <2>6
<1>2. CASE ForeignWrite
  <2>1. FlagsOK'
    BY <1>2 DEF ForeignWrite, FlagsOK
  <2>2. DataOK'
    BY <1>2 DEF ForeignWrite, DataOK, Steps, Contents
  <2>3. CallOK'
    BY <1>2 DEF ForeignWrite, CallOK, GuardOK, DataOK
  <2>6. GuardOK'
    BY <1>2 DEF ForeignWrite, CallOK, GuardOK, DataOK
  <2>4. OriginalOK'
    BY <1>2 DEF ForeignWrite, OriginalOK, OneApplyLosesNothing, DataOK, CallOK, GuardOK
  <2>5. ActiveServersInForce'
    BY <1>2 DEF ForeignWrite, ActiveServersInForce, CallOK, GuardOK
  <2>7. QED BY <2>1, <2>2, <2>3, <2>4, <2>5, <2>6
<1>3. QED BY <1>1, <1>2

LEMMA StutterStep == IInv /\ UNCHANGED vars => IInv'
<1> SUFFICES ASSUME IInv, UNCHANGED vars PROVE IInv'
  OBVIOUS
<1> USE TypeParts DEF IInv, vars, fileVars
<1>1. FlagsOK' /\ DataOK'
  BY DEF FlagsOK, DataOK
<1>2. CallOK' /\ GuardOK'
  BY DEF CallOK, GuardOK
<1>3. OriginalOK'
  BY DEF OriginalOK, OneApplyLosesNothing
<1>4. ActiveServersInForce'
  BY DEF ActiveServersInForce, Merged
<1>5. QED BY <1>1, <1>2, <1>3, <1>4
----------------------------------------------------------------------------
\* The strengthening is an invariant of the specification.
THEOREM Invariance == Spec => []IInv
<1>1. IInv /\ [Next]_vars => IInv'
  BY CallsStep, FileStepStep, OutsideStep, StutterStep DEF Next, Calls
<1>2. QED BY <1>1, InitIInv, PTL DEF Spec

\* The two files and the manager's memory keep their types through every failure.
THEOREM TypeCorrect == Spec => []TypeOK
<1>1. IInv => TypeOK
  BY DEF IInv
<1>2. QED BY <1>1, Invariance, PTL

\* Whatever fails, the guard is active only over a backup.
THEOREM BackupIsThere == Spec => []GuardHasBackup
<1>1. IInv => GuardHasBackup
  BY DEF IInv, GuardOK, GuardHasBackup
<1>2. QED BY <1>1, Invariance, PTL

\* Until Apply runs over a managed file the original is in one of the two files,
\* between any two file operations and after any crash.
THEOREM OriginalSurvives == Spec => []OneApplyLosesNothing
<1>1. IInv => OneApplyLosesNothing
  BY DEF IInv, OriginalOK
<1>2. QED BY <1>1, Invariance, PTL

\* Between calls that succeeded an active guard enforces the merged servers.
THEOREM ServersEnforced == Spec => []ActiveServersInForce
<1>1. IInv => ActiveServersInForce
  BY DEF IInv
<1>2. QED BY <1>1, Invariance, PTL
=============================================================================
