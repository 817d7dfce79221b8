--------------------------- MODULE OpenVPNManagement ---------------------------
(***************************************************************************)
(* The OpenVPN adapter as its processes and its management channel make    *)
(* it: src/internal/vpn/openvpn (process.go, management.go, and the parts  *)
(* of adapter.go that wait for CONNECTED and ask for the tunnel's data).   *)
(*                                                                         *)
(* Module VpnAdapters keeps of all this only what a finished call leaves   *)
(* behind; here a call is its steps.  The daemon asks `state` over a       *)
(* socket and reads ONE line per question, while the process answers with  *)
(* two (the state and END), after up to two lines for the credentials: the *)
(* line that is read belongs to an older question, and the lag grows with  *)
(* every poll.  The process is external: it moves between its states, and  *)
(* dies, when it likes.  parseState's result is all that is kept of a      *)
(* line: CONNECTED, EXITING (or AUTH_FAILED), and "other" for every other  *)
(* state, for END and for an acknowledgement.                              *)
(*                                                                         *)
(* The adapter's mutex is held by Connect from its first step to its last  *)
(* (at # "idle"), and shared by those who ask (asker # Nobody).            *)
(***************************************************************************)
EXTENDS Naturals, Sequences

CONSTANTS
    Launches,   \* the OpenVPN processes that may be launched, as 1..n (bound)
    MaxAnswers, \* lines asked for and not read yet (bound)
    Nobody      \* no asker

NoProc == 0
Askers == {"connect", "collector"}

ASSUME ManagementAssumption ==
    /\ Launches \subseteq Nat \ {NoProc}
    /\ Nobody \notin Askers

VARIABLES
    status,     \* a.status
    at,         \* where Connect is: idle, banner, auth or waiting
    proc,       \* a.proc: the process the adapter holds
    phase,      \* of every process: its state, "unborn" or "gone"
    reaped,     \* processes whose exit stop() has collected
    asker,      \* who is inside State(), holding the channel's mutex
    asked,      \* questions the held process has not answered yet
    answers,    \* lines in the channel, oldest first
    wasUp,      \* the newest process has been CONNECTED (history)
    unheld      \* processes left running when SendAuth failed (history)

chanVars == <<asker, asked, answers>>
procVars == <<proc, phase, reaped, wasUp, unheld>>
mgmtVars == <<status, at, procVars, chanVars>>

Running == {p \in Launches : phase[p] \notin {"unborn", "gone"}}

InitManagement ==
    /\ status = "disconnected"
    /\ at = "idle"
    /\ proc = NoProc
    /\ phase = [p \in Launches |-> "unborn"]
    /\ reaped = {}
    /\ asker = Nobody
    /\ asked = 0
    /\ answers = <<>>
    /\ wasUp = FALSE
    /\ unheld = {}

--------------------------------------------------------------------------------
(* Connect, up to the loop that waits.                                     *)

Unborn == {p \in Launches : phase[p] = "unborn"}
Newest == CHOOSE p \in Launches \ Unborn : \A q \in Launches \ Unborn : q <= p

(* Launching takes the lock, for which nobody may be asking; it is refused *)
(* when connected, and the command itself may fail.                        *)
Launch ==
    /\ at = "idle"
    /\ asker = Nobody
    /\ status \notin {"connected", "connecting"}
    /\ \/ /\ status' = "error"
          /\ UNCHANGED <<at, procVars>>
       \/ \E p \in Unborn :
            /\ \A q \in Unborn : p <= q
            /\ phase' = [phase EXCEPT ![p] = "other"]
            /\ status' = "connecting"
            /\ at' = "banner"
            /\ wasUp' = FALSE
            /\ UNCHANGED <<proc, reaped, unheld>>
    /\ UNCHANGED chanVars

Killed(p) == phase' = [phase EXCEPT ![p] = "gone"]

(* A bug: the reader of the process before is kept.                        *)
SameChannel == UNCHANGED chanVars

(* A new connection to the channel reads from a new buffer.                *)
FreshChannel ==
    /\ asked' = 0
    /\ answers' = <<>>
    /\ UNCHANGED asker

(* waitForMgmt and newMgmtClient: the banner comes, or after 15 seconds    *)
(* the process is killed.                                                  *)
Banner ==
    /\ at = "banner"
    /\ \/ /\ Newest \in Running
          /\ at' = "auth"
          /\ FreshChannel
          /\ UNCHANGED <<status, procVars>>
       \/ /\ Killed(Newest)
          /\ status' = "error"
          /\ at' = "idle"
          /\ UNCHANGED <<proc, reaped, wasUp, unheld, chanVars>>

(* SendAuth: without credentials nothing is sent; with them the process    *)
(* acknowledges each of the two commands by a line nobody reads; when the  *)
(* channel breaks, start() returns an error and leaves the process alone.  *)
SendAuth ==
    /\ at = "auth"
    /\ \/ /\ proc' = Newest
          /\ at' = "waiting"
          /\ \/ UNCHANGED answers
             \/ answers' = <<"other", "other">>
          /\ UNCHANGED <<status, unheld>>
       \/ /\ unheld' = unheld \union {Newest}
          /\ status' = "error"
          /\ at' = "idle"
          /\ UNCHANGED <<proc, answers>>
    /\ UNCHANGED <<phase, reaped, wasUp, asker, asked>>

--------------------------------------------------------------------------------
(* State(): send, then read one line.                                      *)

(* Connect asks on its ticks; TunnelInfo asks for the collector, under the *)
(* lock that Connect and Disconnect take alone.  (Its other callers, the   *)
(* health check and the kill switch, are left out: they take a line as     *)
(* the collector does.)  After a stop() the channel is closed and a        *)
(* question ends in an error at once.                                      *)
MayAsk(who) ==
    /\ asker = Nobody
    /\ proc \notin reaped \union {NoProc}
    /\ 2 * asked + Len(answers) + 2 <= MaxAnswers
    /\ IF who = "connect" THEN at = "waiting" ELSE at = "idle"

Ask(who) ==
    /\ MayAsk(who)
    /\ asker' = who
    /\ asked' = asked + 1
    /\ UNCHANGED <<status, at, procVars, answers>>

(* The process answers: the state it is in now, and END.                   *)
Answer ==
    /\ asked > 0
    /\ proc \in Running
    /\ asked' = asked - 1
    /\ answers' = answers \o <<phase[proc], "other">>
    /\ UNCHANGED <<status, at, procVars, asker>>

(* readLine returns a line, or the deadline of ten seconds passes.         *)
Heard(line) ==
    /\ asker' = Nobody
    /\ \/ /\ answers # <<>>
          /\ line = Head(answers)
          /\ answers' = Tail(answers)
       \/ /\ answers = <<>>
          /\ line = "error"
          /\ UNCHANGED answers
    /\ UNCHANGED asked

Lines == {"CONNECTED", "EXITING", "other", "error"}

(* A bug: the process of a connection that failed is forgotten.            *)
ForgetFailed ==
    /\ proc' = NoProc
    /\ status' = "error"
    /\ at' = "idle"
    /\ UNCHANGED <<phase, reaped, wasUp, unheld>>

(* stop() after a failed wait: SIGTERM, the channel closed, the process    *)
(* waited for and if need be killed; its error is ignored.                 *)
StopFailed ==
    /\ Killed(proc)
    /\ reaped' = reaped \union {proc}
    /\ proc' = NoProc
    /\ status' = "error"
    /\ at' = "idle"
    /\ UNCHANGED <<wasUp, unheld>>

(* waitConnected's reading of one answer.                                  *)
ConnectHears ==
    /\ asker = "connect"
    /\ \E line \in Lines :
         /\ Heard(line)
         /\ \/ /\ line = "CONNECTED"
               /\ status' = "connected"
               /\ at' = "idle"
               /\ UNCHANGED procVars
            \/ /\ line = "EXITING"
               /\ StopFailed
            \/ /\ line \in {"other", "error"}
               /\ UNCHANGED <<status, at, procVars>>

(* The context is done or the minute is over; seen between two questions.  *)
GiveUp ==
    /\ at = "waiting"
    /\ asker = Nobody
    /\ StopFailed
    /\ UNCHANGED chanVars

(* Disconnect: stop() reports the exit code of the process; a second stop  *)
(* of the same process always fails, for its exit was collected before.    *)
Disconnect ==
    /\ at = "idle"
    /\ asker = Nobody
    /\ \/ /\ proc = NoProc
          /\ status' = "disconnected"
          /\ UNCHANGED procVars
       \/ /\ proc \notin reaped \union {NoProc}
          /\ Killed(proc)
          /\ reaped' = reaped \union {proc}
          /\ proc' = NoProc
          /\ status' = "disconnected"
          /\ UNCHANGED <<wasUp, unheld>>
       \/ /\ proc # NoProc
          /\ Killed(proc)
          /\ reaped' = reaped \union {proc}
          /\ status' = "error"
          /\ UNCHANGED <<proc, wasUp, unheld>>
    /\ UNCHANGED <<at, chanVars>>

(* The process on its own.                                                 *)
Moves ==
    {<<"other", "CONNECTED">>, <<"CONNECTED", "other">>, <<"other", "EXITING">>,
     <<"CONNECTED", "EXITING">>, <<"other", "gone">>, <<"CONNECTED", "gone">>,
     <<"EXITING", "gone">>}

ProcessMoves ==
    /\ \E p \in Running, m \in Moves :
         /\ phase[p] = m[1]
         /\ phase' = [phase EXCEPT ![p] = m[2]]
         /\ wasUp' = (wasUp \/ (p = Newest /\ m[2] = "CONNECTED"))
    /\ UNCHANGED <<status, at, proc, reaped, unheld, chanVars>>

(* The steps that no module above this one refines.                        *)
ManagementStep ==
    \/ Launch \/ Banner \/ SendAuth
    \/ Ask("connect")
    \/ Answer \/ ConnectHears \/ GiveUp \/ Disconnect \/ ProcessMoves

--------------------------------------------------------------------------------
(* Connect says "connected" only of a process that has been CONNECTED: the *)
(* line may be old (the tunnel may have dropped since), it is never one of *)
(* another process (management.go:47, adapter.go:136).                     *)
NoInvention == status = "connected" => wasUp /\ proc = Newest

(* Every path out of Connect stops the process it launched or holds it; a  *)
(* process that runs unheld is one whose credentials could not be sent     *)
(* (process.go:65).                                                        *)
HeldOrUnsent == at = "idle" => Running \ {proc} \subseteq unheld
================================================================================
