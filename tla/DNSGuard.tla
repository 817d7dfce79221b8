------------------------------ MODULE DNSGuard ------------------------------
(***************************************************************************)
(* DNSManager (internal/monitor/dnsmanager.go) over the Linux DNS guard    *)
(* (internal/security/dnsguard_unix.go).  DNSManager.mu is held from the   *)
(* first to the last line of OnConnect, OnDisconnect and ForceRestore, so  *)
(* one call is under way at a time; but each of its file operations is a   *)
(* step of its own, that may fail or be the last one before the process    *)
(* dies.  os.WriteFile truncates before it writes.                         *)
(***************************************************************************)
EXTENDS Naturals

CONSTANTS
    Profiles,
    Servers,     \* DNS servers the tunnels hand out
    Foreign,     \* the sets of servers other programs put in resolv.conf
    NoFile,      \* what is read from a file that does not exist
    Faults       \* which of FaultKinds may happen

FaultKinds == {"io", "crash", "foreign"}

\* A resolv.conf written by somebody else lists servers, none of them a tunnel's;
\* NoFile is no content.
ASSUME DNSAssumption == /\ Faults \subseteq FaultKinds
                        /\ \A c \in Foreign : c # {} /\ c \cap Servers = {}
                        /\ \A c \in Foreign \cup SUBSET Servers : c # NoFile

VARIABLES
    resolvConf,    \* /etc/resolv.conf
    resolvBackup,  \* /etc/resolv.conf.kongtrol.bak
    servers,       \* DNSManager.active: {} for a profile that is not in it
    guarding,      \* unixDNSGuard.active
    step,          \* next file operation of the call that holds the mutex
    buffer,        \* what that call read last
    original,      \* history: the last content another program wrote
    failed,        \* history: the last call ended in an error
    applies        \* history: Apply calls since nothing was guarded (0..2)

fileVars == <<resolvConf, resolvBackup>>
vars == <<fileVars, servers, guarding, step, buffer, original, failed, applies>>

\* A file is the set of name servers it lists; {} is a file cut to nothing.
Contents == Foreign \cup SUBSET Servers

Steps == {"idle", "backup", "write", "read back", "put back", "remove"}

TypeOK ==
    /\ resolvConf \in Contents
    /\ resolvBackup \in {NoFile} \cup Contents
    /\ servers \in [Profiles -> SUBSET Servers]
    /\ guarding \in BOOLEAN
    /\ step \in Steps
    /\ buffer \in {NoFile} \cup Contents
    /\ original \in Foreign
    /\ failed \in BOOLEAN /\ applies \in 0..2

Init ==
    /\ resolvConf \in Foreign /\ resolvBackup = NoFile
    /\ servers = [p \in Profiles |-> {}]
    /\ guarding = FALSE /\ step = "idle" /\ buffer = NoFile
    /\ original = resolvConf /\ failed = FALSE /\ applies = 0

Active == {p \in Profiles : servers[p] # {}}

Merged == UNION {servers[p] : p \in Profiles}
----------------------------------------------------------------------------
Unlock(err) == step' = "idle" /\ buffer' = NoFile /\ failed' = err

Goto(next, content) == step' = next /\ buffer' = content /\ UNCHANGED failed

Succeeds == Unlock(FALSE)
Fails    == "io" \in Faults /\ Unlock(TRUE)

\* Apply starts by reading resolv.conf.
BeginApply ==
    /\ Goto("backup", resolvConf) \/ Fails
    /\ applies' = IF applies < 2 THEN applies + 1 ELSE applies
    /\ UNCHANGED <<fileVars, guarding, original>>

\* The manager restores only what is guarded.
BeginRestore ==
    /\ IF guarding THEN Goto("read back", NoFile) ELSE Succeeds
    /\ UNCHANGED <<fileVars, guarding, original, applies>>

OnConnect(p, ips) ==
    /\ step = "idle" /\ ips # {}
    /\ servers' = [servers EXCEPT ![p] = ips]
    /\ BeginApply

\* Mutant: the servers of a profile that left stay in resolv.conf.
OnDisconnectStale(p) ==
    /\ step = "idle"
    /\ servers' = [servers EXCEPT ![p] = {}]
    /\ IF Active \subseteq {p} THEN BeginRestore
       ELSE Succeeds /\ UNCHANGED <<fileVars, guarding, original, applies>>

OnDisconnect(p) ==
    /\ step = "idle"
    /\ servers' = [servers EXCEPT ![p] = {}]
    /\ IF Active \subseteq {p} THEN BeginRestore ELSE BeginApply

ForceRestore ==
    /\ step = "idle"
    /\ servers' = [p \in Profiles |-> {}]
    /\ BeginRestore
----------------------------------------------------------------------------
(* The file operations of Apply and of Restore.  A failed write leaves the  *)
(* file alone or empty, and ends the call with an error.                    *)

Backup ==
    /\ step = "backup"
    /\ \/ resolvBackup' = buffer /\ Goto("write", NoFile)
       \/ resolvBackup' \in {resolvBackup, {}} /\ Fails
    /\ UNCHANGED <<resolvConf, servers, guarding, original, applies>>

Write ==
    /\ step = "write"
    /\ \/ resolvConf' = Merged /\ guarding' = TRUE /\ Succeeds
       \/ resolvConf' \in {resolvConf, {}} /\ UNCHANGED guarding /\ Fails
    /\ UNCHANGED <<resolvBackup, servers, original, applies>>

\* Mutant: the backup is removed as soon as it is read.
ReadBackAndRemove ==
    /\ step = "read back"
    /\ \/ resolvBackup # NoFile /\ Goto("put back", resolvBackup) /\ resolvBackup' = NoFile
       \/ resolvBackup = NoFile /\ Unlock(TRUE) /\ UNCHANGED resolvBackup
    /\ UNCHANGED <<resolvConf, servers, guarding, original, applies>>

ReadBack ==
    /\ step = "read back"
    /\ \/ resolvBackup # NoFile /\ Goto("put back", resolvBackup)
       \/ resolvBackup = NoFile /\ Unlock(TRUE)
       \/ Fails
    /\ UNCHANGED <<fileVars, servers, guarding, original, applies>>

PutBack ==
    /\ step = "put back"
    /\ \/ resolvConf' = buffer /\ Goto("remove", NoFile)
       \/ resolvConf' \in {resolvConf, {}} /\ Fails
    /\ UNCHANGED <<resolvBackup, servers, guarding, original, applies>>

\* Mutant: the guard still counts as active when its backup is gone.
RemoveStillGuarding ==
    /\ step = "remove"
    /\ resolvBackup' = NoFile
    /\ Succeeds
    /\ UNCHANGED <<resolvConf, servers, guarding, original, applies>>

\* os.Remove's error is ignored: the guard is inactive either way.
Remove ==
    /\ step = "remove"
    /\ resolvBackup' \in {NoFile} \cup IF "io" \in Faults THEN {resolvBackup} ELSE {}
    /\ guarding' = FALSE
    /\ applies' = IF resolvConf = original THEN 0 ELSE applies
    /\ Succeeds
    /\ UNCHANGED <<resolvConf, servers, original>>
----------------------------------------------------------------------------
\* The process dies, in the middle of a write too, and another one is started:
\* nothing looks for a backup its predecessor left.
Crash ==
    /\ "crash" \in Faults
    /\ resolvConf' \in {resolvConf} \cup IF step \in {"write", "put back"} THEN {{}} ELSE {}
    /\ resolvBackup' \in {resolvBackup} \cup IF step = "backup" THEN {{}} ELSE {}
    /\ servers' = [p \in Profiles |-> {}]
    /\ guarding' = FALSE
    /\ Unlock(TRUE)
    /\ UNCHANGED <<original, applies>>

\* A DHCP client or the administrator rewrites a file that is not guarded.
ForeignWrite ==
    /\ "foreign" \in Faults
    /\ step = "idle" /\ resolvConf \in Foreign
    /\ resolvConf' \in Foreign /\ original' = resolvConf' /\ applies' = 0
    /\ UNCHANGED <<resolvBackup, servers, guarding, step, buffer, failed>>

FileStep == Backup \/ Write \/ ReadBack \/ PutBack \/ Remove

Next ==
    \/ \E p \in Profiles, ips \in SUBSET Servers : OnConnect(p, ips)
    \/ \E p \in Profiles : OnDisconnect(p)
    \/ ForceRestore \/ FileStep \/ Crash \/ ForeignWrite

Spec == Init /\ [][Next]_vars

----------------------------------------------------------------------------
(* Properties *)

\* The guard never believes itself active without a backup to go back to,
\* whatever write failed and whichever call came next.
GuardHasBackup == guarding => resolvBackup # NoFile

\* A single Apply, and the Restore after it, lose nothing: between any two file
\* operations, after a failed one and after a crash, what the system had in
\* resolv.conf is in one of the two files.
OneApplyLosesNothing == applies <= 1 => original \in {resolvConf, resolvBackup}

\* Between calls that succeeded an active guard enforces the servers of all
\* active profiles and of nobody else.
ActiveServersInForce == guarding /\ step = "idle" /\ ~failed => resolvConf = Merged
=============================================================================
