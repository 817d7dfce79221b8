-------------------------------- MODULE APIToken --------------------------------
(***************************************************************************)
(* The capability that local API clients share with the daemon:            *)
(* LoadOrCreateAPIToken (src/internal/config/control.go), called once by   *)
(* every command that loads the configuration, each in a process of its    *)
(* own.                                                                    *)
(*                                                                         *)
(* A token is the process that generated it.  The file is created empty,   *)
(* under O_EXCL, and written afterwards; a creator whose write, sync or    *)
(* close fails removes it.                                                 *)
(***************************************************************************)
EXTENDS Naturals

CONSTANTS
    Procs,      \* processes
    NoFile,     \* there is no token file
    Invalid,    \* the file holds no token: empty, or cut short
    NoToken,    \* a process without a token
    MaxTries    \* reads of a process that lost the creation (10 in the code)

ASSUME TokenAssumption ==
    /\ Procs \intersect {NoFile, Invalid, NoToken} = {}
    /\ NoFile # Invalid

VARIABLES
    tokenFile,  \* ~/.kongtrol/api-token
    token,      \* apiToken of each process
    tokenAt,    \* where each process is in LoadOrCreateAPIToken
    tries,      \* reads made after a lost creation
    withdrawn   \* creators that removed a file which held their token (history)

tokenVars == <<tokenFile, token, tokenAt, tries, withdrawn>>

Stages == {"read", "create", "wait", "write", "sync", "undo", "done", "failed", "dead"}

InitToken ==
    /\ tokenFile = NoFile
    /\ token = [p \in Procs |-> NoToken]
    /\ tokenAt = [p \in Procs |-> "read"]
    /\ tries = [p \in Procs |-> 0]
    /\ withdrawn = {}

Goes(p, from, to) ==
    /\ tokenAt[p] = from
    /\ tokenAt' = [tokenAt EXCEPT ![p] = to]

Holds(p, t) == token' = [token EXCEPT ![p] = t]

(* readAPIToken finds a token, or something that is none, or no file.      *)
ReadToken(p) ==
    /\ \/ /\ tokenFile \in Procs
          /\ Goes(p, "read", "done")
          /\ Holds(p, tokenFile)
       \/ /\ tokenFile = Invalid
          /\ Goes(p, "read", "failed")
          /\ UNCHANGED token
       \/ /\ tokenFile = NoFile
          /\ Goes(p, "read", "create")
          /\ UNCHANGED token
    /\ UNCHANGED <<tokenFile, tries, withdrawn>>

(* A bug: the file is opened without O_EXCL, and truncated.                *)
TruncateToken(p) ==
    /\ Goes(p, "create", "write")
    /\ tokenFile' = Invalid
    /\ UNCHANGED <<token, tries, withdrawn>>

(* The file is created if it is still not there; otherwise somebody else   *)
(* is creating it.                                                         *)
CreateToken(p) ==
    /\ \/ /\ tokenFile = NoFile
          /\ Goes(p, "create", "write")
          /\ tokenFile' = Invalid
       \/ /\ tokenFile # NoFile
          /\ Goes(p, "create", "wait")
          /\ UNCHANGED tokenFile
       \/ /\ Goes(p, "create", "failed")
          /\ UNCHANGED tokenFile
    /\ UNCHANGED <<token, tries, withdrawn>>

(* The loser reads again, every ten milliseconds, a number of times.       *)
WaitForToken(p) ==
    /\ \/ /\ tokenFile \in Procs
          /\ Goes(p, "wait", "done")
          /\ Holds(p, tokenFile)
          /\ UNCHANGED tries
       \/ /\ tokenFile \notin Procs
          /\ Goes(p, "wait", IF tries[p] + 1 = MaxTries THEN "failed" ELSE "wait")
          /\ tries' = [tries EXCEPT ![p] = @ + 1]
          /\ UNCHANGED token
    /\ UNCHANGED <<tokenFile, withdrawn>>

WriteToken(p) ==
    /\ \/ /\ Goes(p, "write", "sync")
          /\ tokenFile' = p
       \/ /\ Goes(p, "write", "undo")
          /\ UNCHANGED tokenFile
    /\ UNCHANGED <<token, tries, withdrawn>>

(* Sync and Close.                                                         *)
SyncToken(p) ==
    /\ \/ /\ Goes(p, "sync", "done")
          /\ Holds(p, p)
       \/ /\ Goes(p, "sync", "undo")
          /\ UNCHANGED token
    /\ UNCHANGED <<tokenFile, tries, withdrawn>>

UndoToken(p) ==
    /\ Goes(p, "undo", "failed")
    /\ tokenFile' = NoFile
    /\ withdrawn' = IF tokenFile = p THEN withdrawn \union {p} ELSE withdrawn
    /\ UNCHANGED <<token, tries>>

(* The process is killed anywhere before its end.                          *)
DieCreating(p) ==
    /\ tokenAt[p] \in {"create", "wait", "write", "sync", "undo"}
    /\ tokenAt' = [tokenAt EXCEPT ![p] = "dead"]
    /\ UNCHANGED <<tokenFile, token, tries, withdrawn>>

TokenStep(p) ==
    \/ ReadToken(p) \/ CreateToken(p) \/ WaitForToken(p)
    \/ WriteToken(p) \/ SyncToken(p) \/ UndoToken(p) \/ DieCreating(p)

--------------------------------------------------------------------------------
(* Every process that has a token has the one in the file, so that each    *)
(* client's requests are accepted by the daemon and by every later one,    *)
(* unless the token's creator took it back after others had read it        *)
(* (control.go:51-79).                                                     *)
OneToken ==
    \A p \in Procs : token[p] # NoToken => token[p] \in withdrawn \union {tokenFile}
================================================================================
