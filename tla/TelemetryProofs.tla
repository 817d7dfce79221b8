--------------------------- MODULE TelemetryProofs ---------------------------
(***************************************************************************)
(* The OpenVPN process, its channel and the event stream, for any number   *)
(* of launches and any length of the channel: what Connect says, what it   *)
(* leaves running, what a viewer misses, and who acts on its keys.         *)
(***************************************************************************)
EXTENDS Telemetry, TLAPS

Phases == {"unborn", "other", "CONNECTED", "EXITING", "gone"}

Born == Launches \ Unborn

\* The processes are launched in their order.
BirthsOK ==
    /\ phase \in [Launches -> Phases]
    /\ \A p \in Born, q \in Unborn : p < q
    /\ Born # {} => Newest \in Born /\ \A q \in Born : q <= Newest

\* Who holds what where Connect is: the processes that run are the newest, held
\* while it is waited for and after, and those whose credentials were not sent.
HoldingOK ==
    /\ proc \in Born \union {NoProc}
    /\ at \in {"idle", "banner", "auth", "waiting"}
    /\ at = "idle" => /\ Running \ {proc} \subseteq unheld
                      /\ status # "connecting"
                      /\ status # "connected" => proc \notin Running
    /\ at # "idle" => /\ Newest \in Born
                      /\ status = "connecting"
    /\ at \in {"banner", "auth"} => Running \ {Newest} \subseteq unheld /\ proc \notin Running
    /\ at = "waiting" => proc = Newest /\ Running \ {proc} \subseteq unheld

\* "CONNECTED" is read from the held process's channel only, and only after it
\* was.
ChannelOK ==
    /\ asker \in Askers \union {Nobody}
    /\ asker = "connect" => at = "waiting"
    /\ asker = "collector" => at = "idle"
    /\ Born # {} /\ phase[Newest] = "CONNECTED" => wasUp
    /\ answers \in Seq({"CONNECTED", "EXITING", "other", "gone"})
    /\ at \in {"auth", "waiting"} =>
          \A i \in DOMAIN answers : answers[i] = "CONNECTED" => wasUp

ManagementInv == BirthsOK /\ HoldingOK /\ ChannelOK /\ NoInvention

\* What the stream and the viewer know.
StreamInv ==
    /\ stream # "closed" => subscribed
    /\ stream \in {"writing", "open"} /\ frame # metrics => signal

ViewerInv ==
    /\ job \in [action : Actions \union {"none", "connect"}, remote : BOOLEAN]
    /\ job # NoJob => job.remote
    /\ ~dialled
----------------------------------------------------------------------------
(* The viewer *)

\* Whatever becomes of the daemon between a key and its action, the viewer acts
\* through the daemon or not at all.  (up_tui.go runTUIProfileAction)
THEOREM ViewersOnlyAsk == Spec => []ViewerNeverDials
<1>1. Init => ViewerInv
  BY DEF Init, ViewerInv, NoJob
<1>2. ViewerInv /\ [Next]_vars => ViewerInv'
  <2> SUFFICES ASSUME ViewerInv, [Next]_vars PROVE ViewerInv'
    OBVIOUS
  <2>1. ASSUME NEW action \in Actions, Key(action) PROVE ViewerInv'
    BY <2>1 DEF Key, ViewerInv, NoJob
  <2>2. CASE JobRuns
    <3>1. job.remote /\ ~dialled' /\ (job' = NoJob \/ job' = [job EXCEPT !.action = "connect"])
      BY <2>2 DEF JobRuns, GoesToDaemon, ViewerInv
    <3>2. CASE job' = NoJob
      BY <3>1, <3>2 DEF ViewerInv, NoJob
    <3>3. CASE job' = [job EXCEPT !.action = "connect"]
      <4>1. job' = [action |-> "connect", remote |-> job.remote]
        BY <3>3 DEF ViewerInv
      <4>2. QED
        BY <3>1, <4>1 DEF ViewerInv
    <3>4. QED
      BY <3>1, <3>2, <3>3
  <2>3. CASE UNCHANGED <<job, dialled>>
    BY <2>3 DEF ViewerInv
  <2>4. QED
    BY <2>1, <2>2, <2>3
    DEF Next, Manage, Collect, CollectBegins, CollectStatus, CollectNothing, CollectAsks,
        CollectHears, CollectEnds, StreamOpens, StreamWakes, StreamSnapshots, StreamWrites,
        StreamDrops, viewerVars, vars
<1>3. QED
  BY <1>1, <1>2, PTL DEF Spec, ViewerInv, ViewerNeverDials
----------------------------------------------------------------------------
(* The stream *)

\* No change of the metrics waits for the heartbeat.  (ws.go handleWebSocket,
\* collector.go notifyChange)
THEOREM ChangesAreNotified == Spec => []NoLostChange
<1>1. Init => StreamInv
  BY DEF Init, StreamInv
<1>2. StreamInv /\ [Next]_vars => StreamInv'
  <2> SUFFICES ASSUME StreamInv, [Next]_vars PROVE StreamInv'
    OBVIOUS
  <2>1. CASE CollectEnds
    BY <2>1 DEF CollectEnds, Notified, Changed, StreamInv
  <2>2. CASE StreamOpens \/ StreamWakes \/ StreamSnapshots \/ StreamWrites \/ StreamDrops
    BY <2>2 DEF StreamOpens, StreamWakes, StreamSnapshots, StreamWrites, StreamDrops, StreamInv,
                collectorVars
  <2>3. CASE UNCHANGED <<streamVars, metrics>>
    BY <2>3 DEF streamVars, StreamInv
  <2>4. QED
    BY <2>1, <2>2, <2>3
    DEF Next, Manage, Collect, CollectBegins, CollectStatus, CollectNothing, CollectAsks,
        CollectHears, Key, JobRuns, collectorVars, streamVars, vars
<1>3. StreamInv => NoLostChange
  BY DEF StreamInv, NoLostChange
<1>4. QED
  BY <1>1, <1>2, <1>3, PTL DEF Spec
----------------------------------------------------------------------------
(* The process and its channel *)

\* Nothing about the processes' births changes while none is launched.
LEMMA NoBirth ==
    ASSUME BirthsOK, phase' \in [Launches -> Phases], Unborn' = Unborn
    PROVE  BirthsOK' /\ Newest' = Newest /\ Born' = Born
BY DEF BirthsOK, Born, Newest

LEMMA Dies ==
    ASSUME BirthsOK, NEW p \in Born, Killed(p)
    PROVE  /\ BirthsOK' /\ Newest' = Newest /\ Born' = Born
           /\ Running' = Running \ {p}
           /\ Born # {} => (phase'[Newest] = "CONNECTED" => phase[Newest] = "CONNECTED")
<1>1. p \in Launches /\ phase' = [phase EXCEPT ![p] = "gone"] /\ phase[p] # "unborn"
  BY DEF Killed, Born, Unborn
<1>2. phase' \in [Launches -> Phases] /\ Unborn' = Unborn
  BY <1>1 DEF BirthsOK, Phases, Unborn
<1>3. Running' = Running \ {p}
  BY <1>1 DEF BirthsOK, Running
<1>4. Born # {} => Newest \in Launches
  BY DEF BirthsOK, Born
<1>5. QED
  BY <1>1, <1>2, <1>3, <1>4, NoBirth DEF BirthsOK

\* The newest process is the one with the greatest number.
LEMMA NewestIs ==
    ASSUME NEW S, S \subseteq Nat, NEW p \in S, \A q \in S : q <= p
    PROVE  (CHOOSE x \in S : \A q \in S : q <= x) = p
<1> DEFINE x == CHOOSE x \in S : \A q \in S : q <= x
<1>1. x \in S /\ \A q \in S : q <= x
  BY Zenon
<1> HIDE DEF x
<1>2. x = p
  BY <1>1
<1>3. QED
  BY <1>2, Zenon DEF x

LEMMA LaunchInv == ManagementInv /\ Launch => ManagementInv'
<1> SUFFICES ASSUME ManagementInv, Launch PROVE ManagementInv'
  OBVIOUS
<1>1. CASE UNCHANGED procVars /\ status' = "error" /\ at' = at
  <2>1. BirthsOK' /\ Newest' = Newest /\ Born' = Born /\ Running' = Running
    BY <1>1, NoBirth DEF ManagementInv, BirthsOK, Unborn, Running, procVars
  <2>2. QED
    BY <1>1, <2>1 DEF Launch, ManagementInv, HoldingOK, ChannelOK, NoInvention, procVars, chanVars
<1>2. ASSUME NEW p \in Unborn, \A q \in Unborn : p <= q,
             phase' = [phase EXCEPT ![p] = "other"],
             status' = "connecting", at' = "banner", wasUp' = FALSE,
             UNCHANGED <<proc, reaped, unheld>>
      PROVE  ManagementInv'
  <2>1. p \in Launches /\ p \in Nat /\ Launches \subseteq Nat
    BY ManagementAssumption DEF Unborn
  <2>2. phase' \in [Launches -> Phases] /\ Unborn' = Unborn \ {p}
    BY <1>2, <2>1 DEF ManagementInv, BirthsOK, Phases, Unborn
  <2>3. Born' = Born \union {p} /\ Running' = Running \union {p}
    BY <1>2, <2>1, <2>2 DEF Born, Running, ManagementInv, BirthsOK, Unborn
  <2>4. \A q \in Born' : q <= p
    BY <1>2, <2>1, <2>3 DEF ManagementInv, BirthsOK, Born, Unborn
  <2>5. Newest' = p
    <3>1. Newest' = CHOOSE x \in Born' : \A q \in Born' : q <= x
      BY DEF Newest, Born
    <3>2. p \in Born' /\ Born' \subseteq Nat
      BY <2>1, <2>3 DEF Born
    <3>3. QED
      BY <2>4, <3>1, <3>2, NewestIs
  <2>6. BirthsOK'
    BY <1>2, <2>1, <2>2, <2>3, <2>4, <2>5 DEF ManagementInv, BirthsOK, Unborn, Born
  <2>7. HoldingOK'
    <3>1. proc \notin Running /\ Running \subseteq unheld
      BY DEF Launch, ManagementInv, HoldingOK
    <3>2. proc # p
      BY <2>1, ManagementAssumption DEF ManagementInv, HoldingOK, Born
    <3>3. QED
      BY <1>2, <2>1, <2>3, <2>5, <3>1, <3>2 DEF Launch, ManagementInv, HoldingOK
  <2>8. ChannelOK'
    <3>1. asker' = Nobody /\ answers' = answers
      BY DEF Launch, chanVars
    <3>2. phase'[p] = "other"
      BY <1>2, <2>1 DEF ManagementInv, BirthsOK
    <3>3. QED
      BY <1>2, <2>5, <3>1, <3>2, ManagementAssumption DEF ManagementInv, ChannelOK, Askers
  <2>9. QED
    BY <1>2, <2>6, <2>7, <2>8 DEF ManagementInv, NoInvention
<1>3. QED
  BY <1>1, <1>2 DEF Launch

LEMMA BannerInv == ManagementInv /\ Banner => ManagementInv'
<1> SUFFICES ASSUME ManagementInv, Banner PROVE ManagementInv'
  OBVIOUS
<1>1. CASE at' = "auth" /\ FreshChannel /\ UNCHANGED <<status, procVars>>
  <2>1. BirthsOK' /\ Newest' = Newest /\ Born' = Born /\ Running' = Running
    BY <1>1, NoBirth DEF ManagementInv, BirthsOK, Unborn, Running, procVars
  <2>2. HoldingOK'
    BY <1>1, <2>1 DEF Banner, ManagementInv, HoldingOK, procVars
  <2>3. answers' = << >> /\ answers' \in Seq({"CONNECTED", "EXITING", "other", "gone"})
    BY <1>1 DEF FreshChannel
  <2>4. ChannelOK'
    BY <1>1, <2>1, <2>3 DEF Banner, FreshChannel, ManagementInv, HoldingOK, ChannelOK, procVars
  <2>5. QED
    BY <1>1, <2>1, <2>2, <2>4 DEF ManagementInv, NoInvention, procVars
<1>2. CASE /\ Killed(Newest) /\ status' = "error" /\ at' = "idle"
           /\ UNCHANGED <<proc, reaped, wasUp, unheld, chanVars>>
  <2>1. Newest \in Born
    BY DEF Banner, ManagementInv, HoldingOK
  <2>2. BirthsOK' /\ Newest' = Newest /\ Born' = Born /\ Running' = Running \ {Newest}
        /\ (phase'[Newest] = "CONNECTED" => phase[Newest] = "CONNECTED")
    BY <1>2, <2>1, Dies DEF ManagementInv
  <2>3. QED
    BY <1>2, <2>1, <2>2 DEF Banner, ManagementInv, HoldingOK, ChannelOK, NoInvention, chanVars
<1>3. QED
  BY <1>1, <1>2 DEF Banner

LEMMA SendAuthInv == ManagementInv /\ SendAuth => ManagementInv'
<1> SUFFICES ASSUME ManagementInv, SendAuth PROVE ManagementInv'
  OBVIOUS
<1>1. UNCHANGED <<phase, wasUp, asker>> /\ at = "auth"
  BY DEF SendAuth
<1>2. BirthsOK' /\ Newest' = Newest /\ Born' = Born /\ Running' = Running
  BY <1>1, NoBirth DEF ManagementInv, BirthsOK, Unborn, Running
<1>3. answers' = answers \/ answers' = <<"other", "other">>
  BY DEF SendAuth
<1>4. /\ answers' \in Seq({"CONNECTED", "EXITING", "other", "gone"})
      /\ \A i \in DOMAIN answers' : answers'[i] = "CONNECTED" => wasUp
  <2>1. CASE answers' = answers
    BY <1>1, <2>1 DEF ManagementInv, ChannelOK
  <2>2. CASE answers' = <<"other", "other">>
    BY <2>2
  <2>3. QED
    BY <1>3, <2>1, <2>2
<1>5. HoldingOK'
  BY <1>1, <1>2 DEF SendAuth, ManagementInv, HoldingOK, Born
<1>6. ChannelOK'
  BY <1>1, <1>2, <1>4 DEF ManagementInv, ChannelOK
<1>7. NoInvention'
  BY <1>1 DEF SendAuth, ManagementInv, HoldingOK, NoInvention
<1>8. QED
  BY <1>2, <1>5, <1>6, <1>7 DEF ManagementInv

LEMMA AskInv ==
    ASSUME ManagementInv, NEW who \in Askers, Ask(who)
    PROVE  ManagementInv'
<1>1. UNCHANGED <<status, at, procVars, answers>> /\ asker' = who
      /\ (who = "connect" => at = "waiting") /\ (who = "collector" => at = "idle")
  BY DEF Ask, MayAsk, Askers
<1>2. BirthsOK' /\ Newest' = Newest /\ Born' = Born /\ Running' = Running
  BY <1>1, NoBirth DEF ManagementInv, BirthsOK, Unborn, Running, procVars
<1>3. QED
  BY <1>1, <1>2 DEF ManagementInv, HoldingOK, ChannelOK, NoInvention, procVars

LEMMA AnswerInv == ManagementInv /\ Answer => ManagementInv'
<1> SUFFICES ASSUME ManagementInv, Answer PROVE ManagementInv'
  OBVIOUS
<1>1. UNCHANGED <<status, at, procVars, asker>> /\ proc \in Running
      /\ answers' = answers \o <<phase[proc], "other">>
  BY DEF Answer
<1>2. BirthsOK' /\ Newest' = Newest /\ Born' = Born /\ Running' = Running
  BY <1>1, NoBirth DEF ManagementInv, BirthsOK, Unborn, Running, procVars
<1>3. phase[proc] \in {"CONNECTED", "EXITING", "other", "gone"}
  BY <1>1 DEF ManagementInv, BirthsOK, Running, Phases
<1>4. at \in {"auth", "waiting"} => (phase[proc] = "CONNECTED" => wasUp)
  BY <1>1 DEF ManagementInv, HoldingOK, ChannelOK
<1>5. answers' \in Seq({"CONNECTED", "EXITING", "other", "gone"})
  BY <1>1, <1>3 DEF ManagementInv, ChannelOK
<1>6. \A i \in DOMAIN answers' :
         answers'[i] = "CONNECTED" =>
             phase[proc] = "CONNECTED" \/ \E j \in DOMAIN answers : answers[j] = "CONNECTED"
  BY <1>1, <1>3 DEF ManagementInv, ChannelOK
<1>7. ChannelOK'
  BY <1>1, <1>2, <1>4, <1>5, <1>6 DEF ManagementInv, ChannelOK, procVars
<1>8. QED
  BY <1>1, <1>2, <1>7 DEF ManagementInv, HoldingOK, NoInvention, procVars

\* What State() returns was in the channel, or is an error.
LEMMA HeardLines ==
    ASSUME ManagementInv, NEW line \in Lines, Heard(line)
    PROVE  /\ answers' \in Seq({"CONNECTED", "EXITING", "other", "gone"})
           /\ \A i \in DOMAIN answers' : \E j \in DOMAIN answers : answers'[i] = answers[j]
           /\ line = "CONNECTED" => \E j \in DOMAIN answers : answers[j] = "CONNECTED"
           /\ asker' = Nobody
<1>1. CASE answers # << >> /\ line = Head(answers) /\ answers' = Tail(answers)
  <2>1. answers \in Seq({"CONNECTED", "EXITING", "other", "gone"}) /\ Len(answers) > 0
    BY <1>1 DEF ManagementInv, ChannelOK
  <2>2. \A i \in DOMAIN answers' : i + 1 \in DOMAIN answers /\ answers'[i] = answers[i + 1]
    BY <1>1, <2>1
  <2>3. line = answers[1] /\ 1 \in DOMAIN answers
    BY <1>1, <2>1
  <2>4. QED
    BY <1>1, <2>1, <2>2, <2>3 DEF Heard
<1>2. CASE line = "error" /\ UNCHANGED answers
  BY <1>2 DEF Heard, ManagementInv, ChannelOK
<1>3. QED
  BY <1>1, <1>2 DEF Heard

\* The end of the process that is held, and of nothing else.
LEMMA HeldDies ==
    ASSUME ManagementInv, proc \in Born, Killed(proc), UNCHANGED <<wasUp, unheld>>,
           at' = "idle", at \in {"idle", "waiting"}, status' \in {"error", "disconnected"},
           proc' \in {proc, NoProc}, asker' = Nobody,
           answers' \in Seq({"CONNECTED", "EXITING", "other", "gone"})
    PROVE  ManagementInv'
<1>1. BirthsOK' /\ Newest' = Newest /\ Born' = Born /\ Running' = Running \ {proc}
      /\ (phase'[Newest] = "CONNECTED" => phase[Newest] = "CONNECTED")
  BY Dies DEF ManagementInv
<1>2. HoldingOK'
  <2>1. NoProc \notin Running
    BY ManagementAssumption DEF Running
  <2>2. Running \ {proc} \subseteq unheld
    BY DEF ManagementInv, HoldingOK
  <2>3. QED
    BY <1>1, <2>1, <2>2 DEF HoldingOK
<1>3. ChannelOK'
  BY <1>1, ManagementAssumption DEF ManagementInv, ChannelOK, Askers
<1>4. QED
  BY <1>1, <1>2, <1>3 DEF ManagementInv, NoInvention

LEMMA DisconnectInv == ManagementInv /\ Disconnect => ManagementInv'
<1> SUFFICES ASSUME ManagementInv, Disconnect PROVE ManagementInv'
  OBVIOUS
<1>1. at = "idle" /\ asker = Nobody /\ UNCHANGED <<at, chanVars>>
  BY DEF Disconnect
<1>2. answers' \in Seq({"CONNECTED", "EXITING", "other", "gone"}) /\ asker' = Nobody
  BY <1>1 DEF ManagementInv, ChannelOK, chanVars
<1>3. CASE proc = NoProc /\ status' = "disconnected" /\ UNCHANGED procVars
  <2>1. BirthsOK' /\ Newest' = Newest /\ Born' = Born /\ Running' = Running
    BY <1>3, NoBirth DEF ManagementInv, BirthsOK, Unborn, Running, procVars
  <2>2. NoProc \notin Running
    BY ManagementAssumption DEF Running
  <2>3. QED
    BY <1>1, <1>2, <1>3, <2>1, <2>2
    DEF ManagementInv, HoldingOK, ChannelOK, NoInvention, procVars, chanVars
<1>4. CASE proc # NoProc /\ Killed(proc) /\ status' \in {"error", "disconnected"}
           /\ proc' \in {proc, NoProc} /\ UNCHANGED <<wasUp, unheld>>
  <2>1. proc \in Born
    BY <1>4 DEF ManagementInv, HoldingOK
  <2>2. QED
    BY <1>1, <1>2, <1>4, <2>1, HeldDies
<1>5. QED
  BY <1>3, <1>4 DEF Disconnect

LEMMA StopInv ==
    ASSUME ManagementInv, StopFailed, at = "waiting", asker' = Nobody,
           answers' \in Seq({"CONNECTED", "EXITING", "other", "gone"})
    PROVE  ManagementInv'
<1>1. proc \in Born
  BY DEF ManagementInv, HoldingOK
<1>2. QED
  BY <1>1, HeldDies DEF StopFailed

LEMMA ConnectHearsInv == ManagementInv /\ ConnectHears => ManagementInv'
<1> SUFFICES ASSUME ManagementInv, NEW line \in Lines, ConnectHears, Heard(line),
                    \/ line = "CONNECTED" /\ status' = "connected" /\ at' = "idle"
                       /\ UNCHANGED procVars
                    \/ StopFailed
                    \/ UNCHANGED <<status, at, procVars>>
             PROVE  ManagementInv'
  BY DEF ConnectHears
<1>1. at = "waiting" /\ asker' = Nobody
  BY DEF ConnectHears, Heard, ManagementInv, ChannelOK
<1>2. /\ answers' \in Seq({"CONNECTED", "EXITING", "other", "gone"})
      /\ \A i \in DOMAIN answers' : \E j \in DOMAIN answers : answers'[i] = answers[j]
      /\ line = "CONNECTED" => wasUp
  BY <1>1, HeardLines DEF ManagementInv, ChannelOK
<1>3. CASE StopFailed
  BY <1>1, <1>2, <1>3, StopInv
<1>4. ASSUME UNCHANGED procVars
      PROVE  BirthsOK' /\ Newest' = Newest /\ Born' = Born /\ Running' = Running
  BY <1>4, NoBirth DEF ManagementInv, BirthsOK, Unborn, Running, procVars
<1>5. CASE line = "CONNECTED" /\ status' = "connected" /\ at' = "idle" /\ UNCHANGED procVars
  BY <1>1, <1>2, <1>4, <1>5, ManagementAssumption
  DEF ManagementInv, HoldingOK, ChannelOK, NoInvention, procVars, Askers
<1>6. CASE UNCHANGED <<status, at, procVars>>
  BY <1>1, <1>2, <1>4, <1>6, ManagementAssumption
  DEF ManagementInv, HoldingOK, ChannelOK, NoInvention, procVars, Askers
<1>7. QED
  BY <1>3, <1>5, <1>6

LEMMA ProcessMovesInv == ManagementInv /\ ProcessMoves => ManagementInv'
<1> SUFFICES ASSUME ManagementInv, NEW p \in Running, NEW m \in Moves,
                    phase[p] = m[1], phase' = [phase EXCEPT ![p] = m[2]],
                    wasUp' = (wasUp \/ (p = Newest /\ m[2] = "CONNECTED")),
                    UNCHANGED <<status, at, proc, reaped, unheld, chanVars>>
             PROVE  ManagementInv'
  BY DEF ProcessMoves
<1>1. p \in Launches /\ p \in Born
  BY DEF Running, Born, Unborn
<1>2. m[2] \in Phases \ {"unborn"}
  BY DEF Moves, Phases
<1>3. phase' \in [Launches -> Phases] /\ Unborn' = Unborn
  BY <1>1, <1>2 DEF ManagementInv, BirthsOK, Born, Unborn
<1>4. BirthsOK' /\ Newest' = Newest /\ Born' = Born
  BY <1>3, NoBirth DEF ManagementInv
<1>5. Running' \subseteq Running
  BY <1>1 DEF ManagementInv, BirthsOK, Running
<1>6. HoldingOK'
  BY <1>4, <1>5 DEF ManagementInv, HoldingOK
<1>7. wasUp => wasUp'
  OBVIOUS
<1>8. Born # {} /\ phase'[Newest] = "CONNECTED" => wasUp'
  <2>1. CASE p = Newest
    BY <1>1, <2>1 DEF ManagementInv, BirthsOK
  <2>2. CASE p # Newest
    <3>1. Born # {} => phase'[Newest] = phase[Newest]
      BY <1>1, <2>2 DEF ManagementInv, BirthsOK, Born
    <3>2. QED
      BY <1>7, <3>1 DEF ManagementInv, ChannelOK
  <2>3. QED
    BY <2>1, <2>2
<1>9. ChannelOK'
  BY <1>4, <1>7, <1>8 DEF ManagementInv, ChannelOK, chanVars
<1>10. QED
  BY <1>4, <1>6, <1>7, <1>9 DEF ManagementInv, NoInvention

LEMMA ManagementStepInv == ManagementInv /\ [Next]_vars => ManagementInv'
<1> SUFFICES ASSUME ManagementInv, [Next]_vars PROVE ManagementInv'
  OBVIOUS
<1>1. CASE UNCHANGED mgmtVars
  <2>1. BirthsOK' /\ Newest' = Newest /\ Born' = Born /\ Running' = Running
    BY <1>1, NoBirth DEF ManagementInv, BirthsOK, Unborn, Running, mgmtVars, procVars
  <2>2. QED
    BY <1>1, <2>1 DEF ManagementInv, HoldingOK, ChannelOK, NoInvention, mgmtVars, procVars, chanVars
<1>2. CASE ManagementStep
  <2>1. CASE GiveUp
    BY <2>1, StopInv DEF GiveUp, ManagementInv, ChannelOK, chanVars
  <2>2. CASE Ask("connect")
    BY <2>2, AskInv DEF Askers
  <2>3. QED
    BY <1>2, <2>1, <2>2, LaunchInv, BannerInv, SendAuthInv, AnswerInv, ConnectHearsInv,
       DisconnectInv, ProcessMovesInv DEF ManagementStep
<1>3. CASE CollectAsks
  BY <1>3, AskInv DEF CollectAsks, Askers
<1>4. CASE CollectHears
  <2>1. PICK line \in Lines : Heard(line)
    BY <1>4 DEF CollectHears
  <2>2. UNCHANGED <<status, at, procVars>> /\ asker' = Nobody /\ at = "idle"
    BY <1>4, <2>1 DEF CollectHears, Heard, ManagementInv, ChannelOK
  <2>3. BirthsOK' /\ Newest' = Newest /\ Born' = Born /\ Running' = Running
    BY <2>2, NoBirth DEF ManagementInv, BirthsOK, Unborn, Running, procVars
  <2>4. answers' \in Seq({"CONNECTED", "EXITING", "other", "gone"})
    BY <2>1, HeardLines
  <2>5. QED
    BY <2>2, <2>3, <2>4, ManagementAssumption
    DEF ManagementInv, HoldingOK, ChannelOK, NoInvention, procVars, Askers
<1>5. QED
  BY <1>1, <1>2, <1>3, <1>4, DisconnectInv
  DEF Next, Manage, Collect, CollectBegins, CollectStatus, CollectNothing, CollectEnds,
      StreamOpens, StreamWakes, StreamSnapshots, StreamWrites, StreamDrops, Key, JobRuns, vars

LEMMA ManagementInit == Init => ManagementInv
<1> SUFFICES ASSUME InitManagement PROVE ManagementInv
  BY DEF Init
<1>1. Born = {} /\ Running = {} /\ phase \in [Launches -> Phases]
  BY DEF InitManagement, Born, Unborn, Running, Phases
<1>2. answers = << >> /\ answers \in Seq({"CONNECTED", "EXITING", "other", "gone"})
  BY DEF InitManagement
<1>3. BirthsOK
  BY <1>1 DEF BirthsOK
<1>4. QED
  BY <1>1, <1>2, <1>3, ManagementAssumption
  DEF InitManagement, ManagementInv, HoldingOK, ChannelOK, NoInvention, Askers

\* "connected" is never said of a process that has not been up.
\* (adapter.go waitConnected, management.go State)
THEOREM ConnectedWasUp == Spec => []NoInvention
<1>1. ManagementInv => NoInvention
  BY DEF ManagementInv
<1>2. QED
  BY <1>1, ManagementInit, ManagementStepInv, PTL DEF Spec

\* Only a process whose credentials could not be sent runs unheld.
\* (process.go start, adapter.go Connect)
THEOREM ProcessesAreHeld == Spec => []HeldOrUnsent
<1>1. ManagementInv => HeldOrUnsent
  BY DEF ManagementInv, HoldingOK, HeldOrUnsent
<1>2. QED
  BY <1>1, ManagementInit, ManagementStepInv, PTL DEF Spec
=============================================================================
