-------------------------------- MODULE AuditLog --------------------------------
(***************************************************************************)
(* The audit log: its writers in several processes                         *)
(* (src/internal/security/audit.go), a `logs --follow`                     *)
(* (src/cmd/kongtrol/logs_cmd.go, audit_reader.go), and a `doctor --fix`,  *)
(* which creates today's file when it finds none                           *)
(* (src/cmd/kongtrol/doctor.go).                                           *)
(*                                                                         *)
(* A day has one file, shared by all writers.  A writer takes the date,   *)
(* opens that day's file, lists the files there are and removes those that *)
(* are neither its date's nor the day's before: with the date it took when *)
(* it began, however late it is by then.  An event is a number; its fields *)
(* and its signature are left out.                                         *)
(***************************************************************************)
EXTENDS Naturals, Sequences, SequencesExt

CONSTANTS
    Writers,    \* processes that write
    LastDay,    \* the last day, counting from 0 (bound)
    MaxEvents,  \* events ever written (bound)
    Missing,    \* there is no such file
    Closed      \* a logger without a file

ASSUME AuditAssumption ==
    /\ LastDay \in Nat
    /\ Missing \notin Seq(Nat)
    /\ Closed \notin Nat

Days == 0 .. LastDay

VARIABLES
    today,      \* the date, the same for every process
    logFile,    \* of each day: Missing, or the events in the file
    opened,     \* the day of the file each logger holds
    logging,    \* where each writer is
    inLog,      \* writers that are in Log, with an event
    clock,      \* the date each writer works with
    doomed,     \* days whose files a writer has listed and is about to remove
    unlinked,   \* writers whose open file has been removed
    logged,     \* events Log has confirmed, as pairs of the day and the event
    erased,     \* events that were in a file doctor emptied (history)
    overrun,    \* days whose file a writer with an older date removed (history)
    fixing,     \* the day for which doctor found no file, or Closed
    follower,   \* where `logs --follow` is: off, read or following
    offsets,    \* what it has read of each day's file, in events
    printed     \* what it has printed since, for each day

loggerVars == <<opened, logging, inLog, clock, doomed, unlinked>>
logVars == <<today, logFile, loggerVars, logged, erased, overrun, fixing>>
followVars == <<follower, offsets, printed>>
auditVars == <<logVars, followVars>>

InitAudit ==
    /\ today = 0
    /\ logFile = [d \in Days |-> Missing]
    /\ opened = [w \in Writers |-> Closed]
    /\ logging = [w \in Writers |-> "off"]
    /\ inLog = {}
    /\ clock = [w \in Writers |-> 0]
    /\ doomed = [w \in Writers |-> {}]
    /\ unlinked = {}
    /\ logged = {}
    /\ erased = {}
    /\ overrun = {}
    /\ fixing = Closed
    /\ follower = "off"
    /\ offsets = [d \in Days |-> 0]
    /\ printed = [d \in Days |-> <<>>]

Content(d) == IF logFile[d] = Missing THEN <<>> ELSE logFile[d]

--------------------------------------------------------------------------------
Turns(w, stage) == logging' = [logging EXCEPT ![w] = stage]

(* NewAuditLogger takes the date and opens that day's file.                *)
StartLogger(w) ==
    /\ logging[w] = "off"
    /\ clock' = [clock EXCEPT ![w] = today]
    /\ Turns(w, "open")
    /\ UNCHANGED <<today, logFile, opened, inLog, doomed, unlinked, logged, erased, overrun,
                   fixing, followVars>>

(* Log takes the date too, and opens the day's file unless it is open.     *)
StartLog(w) ==
    /\ logging[w] = "ready"
    /\ Cardinality(logged) < MaxEvents
    /\ clock' = [clock EXCEPT ![w] = today]
    /\ inLog' = inLog \union {w}
    /\ Turns(w, IF opened[w] = today THEN "write" ELSE "open")
    /\ UNCHANGED <<today, logFile, opened, doomed, unlinked, logged, erased, overrun, fixing,
                   followVars>>

(* Opening the file creates it, if need be.                                *)
OpenDay(w) ==
    /\ logging[w] = "open"
    /\ logFile' = [logFile EXCEPT ![clock[w]] = Content(clock[w])]
    /\ opened' = [opened EXCEPT ![w] = clock[w]]
    /\ unlinked' = unlinked \ {w}
    /\ Turns(w, "list")
    /\ UNCHANGED <<today, inLog, clock, doomed, logged, erased, overrun, fixing, followVars>>

(* It cannot be opened: there is no logger, or the event is dropped and    *)
(* the file that was open is closed.                                       *)
OpenFails(w) ==
    /\ logging[w] = "open"
    /\ opened' = [opened EXCEPT ![w] = Closed]
    /\ inLog' = inLog \ {w}
    /\ unlinked' = unlinked \ {w}
    /\ Turns(w, IF w \in inLog THEN "ready" ELSE "off")
    /\ UNCHANGED <<today, logFile, clock, doomed, logged, erased, overrun, fixing, followVars>>

(* A bug: only the date's own file is kept.                                *)
KeptToday(d, date) == d = date

(* pruneOldFiles keeps the date's and the day's before, and no other.      *)
Kept(d, date) == d = date \/ d + 1 = date

ListOld(w) ==
    /\ logging[w] = "list"
    /\ doomed' = [doomed EXCEPT ![w] = {d \in Days : logFile[d] # Missing /\ ~Kept(d, clock[w])}]
    /\ Turns(w, "prune")
    /\ UNCHANGED <<today, logFile, opened, inLog, clock, unlinked, logged, erased, overrun, fixing,
                   followVars>>

(* Whoever has a removed file open goes on writing to it, for nobody.      *)
RemoveOld(w, d) ==
    /\ logging[w] = "prune" /\ d \in doomed[w]
    /\ logFile' = [logFile EXCEPT ![d] = Missing]
    /\ doomed' = [doomed EXCEPT ![w] = @ \ {d}]
    /\ unlinked' = unlinked \union {v \in Writers : opened[v] = d}
    /\ overrun' = IF d > clock[w] THEN overrun \union {d} ELSE overrun
    /\ UNCHANGED <<today, opened, logging, inLog, clock, logged, erased, fixing, followVars>>

(* The logger is made; or Log, having rotated, writes its event.           *)
Pruned(w) ==
    /\ logging[w] = "prune" /\ doomed[w] = {}
    /\ Turns(w, IF w \in inLog THEN "write" ELSE "ready")
    /\ UNCHANGED <<today, logFile, opened, inLog, clock, doomed, unlinked, logged, erased, overrun,
                   fixing, followVars>>

(* The event goes to the end of the file that is open, confirmed also when *)
(* that file has no name any more.                                         *)
WriteLog(w) ==
    LET event == Cardinality(logged) + 1
    IN  /\ logging[w] = "write"
        /\ logFile' = IF w \in unlinked THEN logFile
                      ELSE [logFile EXCEPT ![opened[w]] = Append(@, event)]
        /\ logged' = logged \union {<<opened[w], event>>}
        /\ inLog' = inLog \ {w}
        /\ Turns(w, "ready")
        /\ UNCHANGED <<today, opened, clock, doomed, unlinked, erased, overrun, fixing, followVars>>

Midnight ==
    /\ today < LastDay
    /\ today' = today + 1
    /\ UNCHANGED <<logFile, loggerVars, logged, erased, overrun, fixing, followVars>>

--------------------------------------------------------------------------------
(* applyDoctorFixes: it looks for today's file, and creates it with a      *)
(* write that truncates what has appeared meanwhile.                       *)
DoctorLooks ==
    /\ fixing = Closed
    /\ logFile[today] = Missing
    /\ fixing' = today
    /\ UNCHANGED <<today, logFile, loggerVars, logged, erased, overrun, followVars>>

DoctorWrites ==
    /\ fixing # Closed
    /\ logFile' = [logFile EXCEPT ![fixing] = <<>>]
    /\ erased' = erased \union {<<fixing, e>> : e \in ToSet(Content(fixing))}
    /\ fixing' = Closed
    /\ UNCHANGED <<today, loggerVars, logged, overrun, followVars>>

--------------------------------------------------------------------------------
(* `logs --follow` prints what is there, then takes the files' sizes and   *)
(* follows; what is written in between is never printed.                   *)
LogsRead ==
    /\ follower = "off"
    /\ follower' = "read"
    /\ UNCHANGED <<logVars, offsets, printed>>

Active == {d \in Days : d = today \/ d + 1 = today}

LogsFollow ==
    /\ follower = "read"
    /\ follower' = "following"
    /\ offsets' = [d \in Days |-> IF d \in Active THEN Len(Content(d)) ELSE 0]
    /\ UNCHANGED <<logVars, printed>>

(* A bug: a poll prints the whole file.                                    *)
FromTheStart(d) == 0

(* A file that has shrunk is read from its beginning.                      *)
From(d) == IF Len(Content(d)) < offsets[d] THEN 0 ELSE offsets[d]

(* checkActivePaths, after an event of the file system or five seconds:    *)
(* both files are polled, the offsets of older ones forgotten.             *)
Poll ==
    /\ follower = "following"
    /\ printed' = [d \in Days |->
         IF d \in Active /\ logFile[d] # Missing
         THEN printed[d] \o SubSeq(Content(d), From(d) + 1, Len(Content(d)))
         ELSE printed[d]]
    /\ offsets' = [d \in Days |->
         IF d \notin Active THEN 0
         ELSE IF logFile[d] = Missing THEN offsets[d] ELSE Len(Content(d))]
    /\ UNCHANGED <<logVars, follower>>

--------------------------------------------------------------------------------
(* What Log has confirmed today or yesterday is in that day's file,        *)
(* whichever process rotated or pruned, and however late (audit.go:67-95,  *)
(* 122-157): unless doctor emptied the file, or a writer that still had an *)
(* earlier date removed it.                                                *)
ConfirmedIsKept ==
    \A e \in logged \ erased :
        e[1] + 1 >= today /\ e[1] \notin overrun => e[2] \in ToSet(Content(e[1]))

(* A follower prints the events of the files it follows once each, in the  *)
(* order in which they were written and without a gap: what it has printed *)
(* ends what it has read (logs_cmd.go:176-236), unless doctor emptied the  *)
(* file under it or a writer with an earlier date removed it.              *)
FollowedInOrder ==
    follower = "following" =>
        \A d \in Active :
            \/ d \in overrun \/ \E e \in erased : e[1] = d
            \/ IsSuffix(printed[d], SubSeq(Content(d), 1, offsets[d]))
================================================================================
