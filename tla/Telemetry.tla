------------------------------- MODULE Telemetry -------------------------------
(***************************************************************************)
(* What the daemon tells about a tunnel, and to whom: the metrics          *)
(* collector (src/internal/monitor/collector.go), the event stream         *)
(* (src/internal/api/ws.go), and the viewer at its other end, `kongtrol    *)
(* status --watch` (src/cmd/kongtrol/up_tui.go, up_tui_remote.go), whose   *)
(* keys ask the daemon to act (daemon_client.go).                          *)
(*                                                                         *)
(* One profile, the OpenVPN adapter of module OpenVPNManagement, one       *)
(* viewer.  A collection holds the collector's mutex over its calls to the *)
(* adapter; a snapshot waits for that mutex.  Byte counts, latency and     *)
(* the history of a profile are left out: no frame is sent on their        *)
(* account.                                                                *)
(***************************************************************************)
EXTENDS OpenVPNManagement

CONSTANTS
    Actions,    \* the keys that are pressed: connect, disconnect, reconnect
    NoMetrics   \* before the first collection, and before the first frame

VARIABLES
    pass,       \* the collection: "idle", "begun", "asking" or "ending"
    sample,     \* the metrics it is building
    metrics,    \* c.metrics[name]: the status, and whether TunnelInfo said up
    subscribed, \* the stream's channel is among c.subs
    signal,     \* a notification waits in it
    stream,     \* the stream's handler: "closed", "sending", "writing", "open"
    frame,      \* the last snapshot made for the viewer
    base,       \* m.apiBase: the viewer knows a daemon
    job,        \* the action under way and whether it goes to the daemon;
                \* m.busy until the message of its end
    dialled     \* the viewer drove an adapter of its own (history)

collectorVars == <<pass, sample, metrics>>
streamVars == <<subscribed, signal, stream, frame>>
viewerVars == <<base, job, dialled>>
vars == <<mgmtVars, collectorVars, streamVars, viewerVars>>

NoJob == [action |-> "none", remote |-> FALSE]

Init ==
    /\ InitManagement
    /\ pass = "idle"
    /\ sample = NoMetrics
    /\ metrics = NoMetrics
    /\ subscribed = FALSE
    /\ signal = FALSE
    /\ stream = "closed"
    /\ frame = NoMetrics
    /\ base = FALSE
    /\ job = NoJob
    /\ dialled = FALSE

--------------------------------------------------------------------------------
(* Collector.collect                                                       *)

(* The mutex is taken, and the adapter's status read as soon as no Connect *)
(* holds the adapter's own.                                                *)
CollectBegins ==
    /\ pass = "idle"
    /\ pass' = "begun"
    /\ UNCHANGED <<mgmtVars, sample, metrics, streamVars, viewerVars>>

CollectStatus ==
    /\ pass = "begun"
    /\ at = "idle"
    /\ sample' = [status |-> status, up |-> FALSE]
    /\ pass' = "asking"
    /\ UNCHANGED <<mgmtVars, metrics, streamVars, viewerVars>>

(* TunnelInfo without a process, or over a closed channel.                 *)
CollectNothing ==
    /\ pass = "asking"
    /\ at = "idle"
    /\ asker # "collector"
    /\ proc \in reaped \union {NoProc}
    /\ pass' = "ending"
    /\ UNCHANGED <<mgmtVars, sample, metrics, streamVars, viewerVars>>

CollectAsks ==
    /\ pass = "asking"
    /\ Ask("collector")
    /\ UNCHANGED <<collectorVars, streamVars, viewerVars>>

CollectHears ==
    /\ asker = "collector"
    /\ \E line \in Lines :
         /\ Heard(line)
         /\ sample' = [sample EXCEPT !.up = line = "CONNECTED"]
    /\ pass' = "ending"
    /\ UNCHANGED <<status, at, procVars, metrics, streamVars, viewerVars>>

(* The comparison with the metrics before.  An OpenVPN tunnel that is up   *)
(* has the time of the question as its ConnectedAt, so it always differs.  *)
Changed == metrics = NoMetrics \/ metrics # sample \/ sample.up

(* A bug: the channel has no place, so only a handler that waits gets it.  *)
NotifiedUnbuffered == stream = "open" /\ Changed

(* notifyChange: a send that does not block into a channel of one place.   *)
Notified == subscribed /\ Changed

CollectEnds ==
    /\ pass = "ending"
    /\ metrics' = sample
    /\ signal' = (signal \/ Notified)
    /\ sample' = NoMetrics
    /\ pass' = "idle"
    /\ UNCHANGED <<mgmtVars, subscribed, stream, frame, viewerVars>>

--------------------------------------------------------------------------------
(* handleWebSocket and streamRemoteTunnels                                 *)

(* The viewer's probe and dial succeed; the handler subscribes before its  *)
(* first snapshot.                                                         *)
StreamOpens ==
    /\ stream = "closed"
    /\ stream' = "sending"
    /\ subscribed' = TRUE
    /\ signal' = FALSE
    /\ UNCHANGED <<mgmtVars, collectorVars, frame, viewerVars>>

(* The ticker or a notification wakes the handler.                         *)
StreamWakes ==
    /\ stream = "open"
    /\ stream' = "sending"
    /\ signal' \in {FALSE, signal}
    /\ UNCHANGED <<mgmtVars, collectorVars, subscribed, frame, viewerVars>>

(* send(): the snapshot waits for a collection to end, and is written      *)
(* while the next one may run.                                             *)
StreamSnapshots ==
    /\ stream = "sending"
    /\ pass = "idle"
    /\ stream' = "writing"
    /\ frame' = metrics
    /\ UNCHANGED <<mgmtVars, collectorVars, subscribed, signal, viewerVars>>

(* The viewer learns of the daemon with every frame.                       *)
StreamWrites ==
    /\ stream = "writing"
    /\ stream' = "open"
    /\ base' = TRUE
    /\ UNCHANGED <<mgmtVars, collectorVars, subscribed, signal, frame, job, dialled>>

(* The connection drops: the handler unsubscribes, the viewer forgets the  *)
(* daemon and keeps its last frame.                                        *)
StreamDrops ==
    /\ stream # "closed"
    /\ stream' = "closed"
    /\ subscribed' = FALSE
    /\ signal' = FALSE
    /\ base' = FALSE
    /\ UNCHANGED <<mgmtVars, collectorVars, frame, job, dialled>>

--------------------------------------------------------------------------------
(* upModel.Update and runTUIProfileAction in a viewer                      *)

(* A key starts an action unless one is under way or no daemon is known;   *)
(* whether it goes to the daemon is decided here.                          *)
Key(action) ==
    /\ job = NoJob
    /\ base
    /\ job' = [action |-> action, remote |-> base]
    /\ UNCHANGED <<mgmtVars, collectorVars, streamVars, base, dialled>>

(* A bug: the model is asked again when the job runs.                      *)
AsksAgain == base

(* Whether a job that runs now goes to the daemon.                         *)
GoesToDaemon == job.remote

(* A request is refused or lost, or accepted: the disconnect is made       *)
(* before the answer; a connect is made some time later by the daemon, as  *)
(* any other Launch; a reconnect is one after the other.                   *)
JobRuns ==
    /\ job # NoJob
    /\ IF GoesToDaemon
       THEN \/ /\ job.action \in {"disconnect", "reconnect"}
               /\ Disconnect
               /\ job' = IF job.action = "reconnect"
                         THEN [job EXCEPT !.action = "connect"] ELSE NoJob
            \/ UNCHANGED mgmtVars /\ job' = NoJob
       ELSE UNCHANGED mgmtVars /\ job' = NoJob
    /\ dialled' = (dialled \/ ~GoesToDaemon)
    /\ UNCHANGED <<collectorVars, streamVars, base>>

--------------------------------------------------------------------------------
Manage ==
    /\ ManagementStep
    /\ UNCHANGED <<collectorVars, streamVars, viewerVars>>

Collect ==
    \/ CollectBegins \/ CollectStatus \/ CollectNothing
    \/ CollectAsks \/ CollectHears \/ CollectEnds

Next ==
    \/ Manage
    \/ Collect
    \/ StreamOpens \/ StreamWakes \/ StreamSnapshots \/ StreamWrites \/ StreamDrops
    \/ \E action \in Actions : Key(action)
    \/ JobRuns

Spec == Init /\ [][Next]_vars

--------------------------------------------------------------------------------
(* A stream that waits has shown the viewer what the collector knows, or   *)
(* a notification waits for it: a change between two frames is never left  *)
(* to the heartbeat (ws.go:23-28, collector.go:97-112).                    *)
NoLostChange ==
    stream = "open" /\ pass = "idle" /\ frame # metrics => signal

(* A viewer never drives an adapter of its own process, whatever becomes   *)
(* of the daemon between the key and the action (up_tui.go:511-541).       *)
ViewerNeverDials == ~dialled
================================================================================
