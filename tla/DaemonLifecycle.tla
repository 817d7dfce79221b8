--------------------------- MODULE DaemonLifecycle ---------------------------
(***************************************************************************)
(* The processes of `kongtrol up` and `kongtrol down` on one machine, and  *)
(* what they leave on it: the PID file, the port of the control API, the   *)
(* tunnels, resolv.conf, the kill switch's rules and the block in the      *)
(* hosts file (module SplitDNS).                                           *)
(*                                                                         *)
(* `up` connects its profiles one by one, then starts its services, each   *)
(* with a deferred call that stops it; the deferred calls run in reverse   *)
(* order when it leaves, and those that were not reached do not run.       *)
(* `down` is a process of its own: it takes the tunnels down itself and    *)
(* then has the daemon stopped, over the API or by a kill.                 *)
(*                                                                         *)
(* The adapters are of the kind that asks the system (WireGuard's): every  *)
(* process sees every tunnel.  A resolv.conf call is one step here, and an *)
(* applyKill two, what it finds connected and what it makes of it; modules *)
(* KillSwitch and DNSGuard have what is inside.                            *)
(***************************************************************************)
EXTENDS SplitDNS, FiniteSets

CONSTANTS
    Downs,       \* processes of `kongtrol down --all`
    Profiles,
    Protected,   \* profiles the kill switch is on for
    Guarded,     \* profiles that bring DNS servers
    Nobody,      \* no process
    MaxEvents    \* bound: drops, signals, kills, syncs, edits, API connects

ASSUME LifecycleAssumption == /\ Nobody \notin Daemons
                              /\ Protected \cup Guarded \subseteq Profiles

VARIABLES
    stage,      \* per daemon: how far `up` is
    left,       \* per daemon: profiles of its command line still to be connected
    dial,       \* per daemon and profile: who is connecting it, and how far
    wanted,     \* per daemon: profiles its watchdog keeps up
    cancelled,  \* daemons whose context has ended
    guarding,   \* daemons whose DNS guard is active
    pidfile,    \* ~/.kongtrol/run/kongtrol.pid
    port,       \* who listens on the API's port
    tunnels,    \* tunnels that are up
    resolv,     \* resolv.conf and its backup: "original", "tunnel", or "none"
    blocking,   \* the kill switch's rules are there
    errand,     \* per `down`: how far it is
    victim,     \* per `down`: the process it read from the PID file
    down,       \* per `down` and profile: how far its goroutine is
    events,     \* how much of the bound is used
    newest,     \* history: the daemon that wrote the PID file last
    stripped,   \* history: daemons whose PID file a `down` removed for another's
    raced,      \* history: daemons that wrote the PID file between the read and the
                \* remove of another one that was leaving
    late,       \* history: a connect ended after its daemon's cleanup, or never did
    spoilt,     \* history: a daemon was killed, or guarded DNS twice
    early,      \* history: daemons that left before all profiles were connected
    redialled,  \* history: profiles connected again since a `down` took them down
    outdated    \* history: a `down` switched the rules on for a tunnel that had gone

daemonVars  == <<stage, left, dial, wanted, cancelled, guarding>>
machineVars == <<pidfile, port, tunnels, resolv, blocking>>
downVars    == <<errand, victim, down>>
historyVars == <<newest, stripped, raced, late, spoilt, early, redialled, outdated>>
vars == <<daemonVars, machineVars, downVars, events, historyVars, hostsVars>>

NoDial == [by |-> "none", at |-> "dial"]

\* Where a daemon has stopped its services, and cleans up.
Leaving == {"kill", "dns", "pid", "unlink"}

Init ==
    /\ HostsInit
    /\ stage = [u \in Daemons |-> "off"]
    /\ left = [u \in Daemons |-> Profiles]
    /\ dial = [u \in Daemons |-> [p \in Profiles |-> NoDial]]
    /\ wanted = [u \in Daemons |-> {}]
    /\ cancelled = {} /\ guarding = {}
    /\ pidfile = Nobody /\ port = Nobody
    /\ tunnels = {} /\ blocking = FALSE
    /\ resolv = [file |-> "original", backup |-> "none"]
    /\ errand = [d \in Downs |-> "off"]
    /\ victim = [d \in Downs |-> Nobody]
    /\ down = [d \in Downs |-> [p \in Profiles |-> "todo"]]
    /\ events = 0
    /\ newest = Nobody /\ stripped = {} /\ raced = {}
    /\ late = FALSE /\ spoilt = FALSE /\ early = {} /\ redialled = {} /\ outdated = FALSE

Alive(u)   == stage[u] \notin {"off", "gone"}
Goto(u, s) == stage' = [stage EXCEPT ![u] = s]
Happens    == events < MaxEvents /\ events' = events + 1

Dialling(u) == {p \in Profiles : dial[u][p].by # "none"}

\* KillSwitchService.Apply, in whatever process: the adapters are asked first,
\* and a tunnel found connected may be gone when its interface is looked up.
Switching == {"enable", "disable", "keep"}
Decisions == IF tunnels \cap Protected = {} THEN {"disable"} ELSE {"enable", "keep"}

\* Enable or Disable, later, whatever is connected by then.
ApplyKill(x) == blocking' = IF x = "keep" THEN blocking ELSE x = "enable"
----------------------------------------------------------------------------
(* Connects of a daemon: of its command line, its watchdog or its API *)

BeginDial(u, p, by) ==
    /\ dial[u][p].by = "none"
    /\ dial' = [dial EXCEPT ![u][p] = [by |-> by, at |-> "dial"]]

\* The profiles that a `down` has seen go.
Taken(d) == {p \in Profiles : down[d][p] \notin {"todo", "failed"}}
Gone == UNION {Taken(d) : d \in Downs}

\* The tunnel comes up, whether or not the context has ended meanwhile.
TunnelUp(u, p) ==
    /\ dial[u][p].by # "none" /\ dial[u][p].at = "dial"
    /\ tunnels' = tunnels \cup {p}
    /\ wanted' = [wanted EXCEPT ![u] = @ \cup {p}]
    /\ dial' = [dial EXCEPT ![u][p].at = "attach"]
    /\ redialled' = redialled \cup ({p} \cap Gone)
    /\ UNCHANGED <<stage, left, cancelled, guarding, pidfile, port, resolv, blocking, downVars,
                   events, newest, stripped, raced, late, spoilt, early, outdated, hostsVars>>

\* DNSManager.OnConnect.  The guard copies resolv.conf first.
Attach(u, p) ==
    /\ dial[u][p].at = "attach"
    /\ dial' = [dial EXCEPT ![u][p].at = "scan"]
    /\ IF p \in Guarded
       THEN /\ resolv' = [file |-> "tunnel", backup |-> resolv.file]
            /\ guarding' = guarding \cup {u}
            /\ spoilt' = (spoilt \/ resolv.file = "tunnel")
       ELSE UNCHANGED <<resolv, guarding, spoilt>>
    /\ late' = (late \/ stage[u] \in Leaving)
    /\ UNCHANGED <<stage, left, wanted, cancelled, pidfile, port, tunnels, blocking, downVars,
                   events, newest, stripped, raced, early, redialled, outdated, hostsVars>>

\* applyKill, up to the decision.
Scan(u, p) ==
    /\ dial[u][p].at = "scan"
    /\ \E x \in Decisions : dial' = [dial EXCEPT ![u][p].at = x]
    /\ UNCHANGED <<stage, left, wanted, cancelled, guarding, machineVars, downVars, events,
                   historyVars, hostsVars>>

Connected(u, p) ==
    /\ dial[u][p].at \in Switching
    /\ ApplyKill(dial[u][p].at)
    /\ dial' = [dial EXCEPT ![u][p] = NoDial]
    /\ left' = IF dial[u][p].by = "loop" THEN [left EXCEPT ![u] = @ \ {p}] ELSE left
    /\ late' = (late \/ stage[u] \in Leaving)
    /\ UNCHANGED <<stage, wanted, cancelled, guarding, pidfile, port, tunnels, resolv, downVars,
                   events, newest, stripped, raced, spoilt, early, redialled, outdated, hostsVars>>

\* The first profile that cannot be connected ends the command.
DialFails(u, p) ==
    /\ dial[u][p].by # "none" /\ dial[u][p].at = "dial"
    /\ dial' = [dial EXCEPT ![u][p] = NoDial]
    /\ IF dial[u][p].by = "loop" /\ stage[u] = "connect"
       THEN Goto(u, "dns") /\ early' = early \cup {u}
       ELSE UNCHANGED <<stage, early>>
    /\ UNCHANGED <<left, wanted, cancelled, guarding, machineVars, downVars, events, newest,
                   stripped, raced, late, spoilt, redialled, outdated, hostsVars>>

\* The watcher of a profile whose tunnel is not there.
Redial(u, p) ==
    /\ stage[u] \in {"serve", "api", "hosts", "watchdog"} /\ u \notin cancelled
    /\ p \in wanted[u] \ tunnels
    /\ BeginDial(u, p, "watchdog")
    /\ UNCHANGED <<stage, left, wanted, cancelled, guarding, machineVars, downVars, events,
                   historyVars, hostsVars>>

\* A request to the API; its goroutine is nobody's to wait for.
ConnectRequest(u, p) ==
    /\ port = u /\ stage[u] = "serve"
    /\ p \notin tunnels
    /\ Happens
    /\ BeginDial(u, p, "api")
    /\ UNCHANGED <<stage, left, wanted, cancelled, guarding, machineVars, downVars,
                   historyVars, hostsVars>>
----------------------------------------------------------------------------
(* kongtrol up *)

\* writePIDFile, whose errors nobody sees.
Start(u) ==
    /\ stage[u] = "off"
    /\ Goto(u, "connect")
    /\ \/ /\ pidfile' = u /\ newest' = u
          /\ raced' = raced \cup {v \in {u} : \E w \in Daemons : stage[w] = "unlink"}
       \/ UNCHANGED <<pidfile, newest, raced>>
    /\ UNCHANGED <<left, dial, wanted, cancelled, guarding, port, tunnels, resolv, blocking,
                   downVars, events, stripped, late, spoilt, early, redialled, outdated, hostsVars>>

DialNext(u) ==
    /\ stage[u] = "connect" /\ Dialling(u) = {}
    /\ \E p \in left[u] : BeginDial(u, p, "loop")
    /\ UNCHANGED <<stage, left, wanted, cancelled, guarding, machineVars, downVars, events,
                   historyVars, hostsVars>>

\* Ctrl+C: the loop leaves its connect to itself.
AbandonDial(u) ==
    /\ stage[u] = "connect" /\ u \in cancelled /\ Dialling(u) # {}
    /\ Goto(u, "dns")
    /\ early' = early \cup {u}
    /\ UNCHANGED <<left, dial, wanted, cancelled, guarding, machineVars, downVars, events,
                   newest, stripped, raced, late, spoilt, redialled, outdated, hostsVars>>

\* All are up: applyKill once more, up to the decision.
ScanAll(u) ==
    /\ stage[u] = "connect" /\ left[u] = {} /\ Dialling(u) = {}
    /\ \E x \in Decisions : Goto(u, x)
    /\ UNCHANGED <<left, dial, wanted, cancelled, guarding, machineVars, downVars, events,
                   historyVars, hostsVars>>

\* The services start, and the API if its port is free.
Serve(u) ==
    /\ stage[u] \in Switching
    /\ Goto(u, "serve")
    /\ ApplyKill(stage[u])
    /\ port' = IF port = Nobody THEN u ELSE port
    /\ UNCHANGED <<left, dial, wanted, cancelled, guarding, pidfile, tunnels, resolv, downVars,
                   events, historyVars, hostsVars>>

Sync(u) ==
    /\ stage[u] = "serve"
    /\ Happens
    /\ SyncBegins(u)
    /\ UNCHANGED <<daemonVars, machineVars, downVars, historyVars>>

\* Ctrl+C, SIGTERM, or the terminal's quit key.
Signal(u) ==
    /\ Alive(u) /\ u \notin cancelled
    /\ Happens
    /\ cancelled' = cancelled \cup {u}
    /\ UNCHANGED <<stage, left, dial, wanted, guarding, machineVars, downVars, historyVars, hostsVars>>

\* The deferred calls, the last one first.
CloseAPI(u) ==
    /\ stage[u] = "serve" /\ u \in cancelled
    /\ Goto(u, "hosts")
    /\ port' = IF port = u THEN Nobody ELSE port
    /\ StopBegins(u)
    /\ UNCHANGED <<left, dial, wanted, cancelled, guarding, pidfile, tunnels, resolv, blocking,
                   downVars, events, historyVars>>

StopServices(u) ==
    /\ stage[u] = "hosts" /\ ~Writing(u, "stop")
    /\ Goto(u, "watchdog")
    /\ UNCHANGED <<left, dial, wanted, cancelled, guarding, machineVars, downVars, events,
                   historyVars, hostsVars>>

\* Watchdog.Stop waits for its watchers.
StopWatchdog(u) ==
    /\ stage[u] = "watchdog"
    /\ \A p \in Profiles : dial[u][p].by # "watchdog"
    /\ Goto(u, "kill")
    /\ UNCHANGED <<left, dial, wanted, cancelled, guarding, machineVars, downVars, events,
                   historyVars, hostsVars>>

DisableKill(u) ==
    /\ stage[u] = "kill"
    /\ Goto(u, "dns")
    /\ blocking' = FALSE
    /\ UNCHANGED <<left, dial, wanted, cancelled, guarding, pidfile, port, tunnels, resolv,
                   downVars, events, historyVars, hostsVars>>

Restores(u) == u \in guarding /\ resolv.backup # "none"

ForceRestore(u) ==
    /\ stage[u] = "dns"
    /\ Goto(u, "pid")
    /\ IF Restores(u)
       THEN /\ resolv' = [file |-> resolv.backup, backup |-> "none"]
            /\ guarding' = guarding \ {u}
       ELSE UNCHANGED <<resolv, guarding>>
    /\ UNCHANGED <<left, dial, wanted, cancelled, pidfile, port, tunnels, blocking, downVars,
                   events, historyVars, hostsVars>>

\* Mutant: whatever the file says.
RemovesAny(u) == TRUE

\* removePIDFile: only if it is still ours ...
RemovesPID(u) == pidfile = u

CheckPID(u) ==
    /\ stage[u] = "pid" /\ RemovesPID(u)
    /\ Goto(u, "unlink")
    /\ UNCHANGED <<left, dial, wanted, cancelled, guarding, machineVars, downVars, events,
                   historyVars, hostsVars>>

\* ... when it was read.  The process takes the goroutines that are still at work
\* with it.
Exit(u) ==
    /\ \/ stage[u] = "unlink" /\ pidfile' = Nobody
       \/ stage[u] = "pid" /\ ~RemovesPID(u) /\ UNCHANGED pidfile
    /\ Goto(u, "gone")
    /\ late' = (late \/ Dialling(u) # {})
    /\ dial' = [dial EXCEPT ![u] = [p \in Profiles |-> NoDial]]
    /\ WritersEnd(u)
    /\ UNCHANGED <<left, wanted, cancelled, guarding, port, tunnels, resolv, blocking, downVars,
                   events, newest, stripped, raced, spoilt, early, redialled, outdated>>

\* The daemon is killed, by itself or by a `down`.
Dies(u) ==
    /\ Goto(u, "gone")
    /\ port' = IF port = u THEN Nobody ELSE port
    /\ dial' = [dial EXCEPT ![u] = [p \in Profiles |-> NoDial]]
    /\ spoilt' = TRUE
    /\ WritersEnd(u)
    /\ UNCHANGED <<left, wanted, cancelled, guarding, pidfile, tunnels, resolv, blocking>>
----------------------------------------------------------------------------
(* kongtrol down --all *)

Step(d, s) == errand' = [errand EXCEPT ![d] = s]

Reaches(d, p, x) == down' = [down EXCEPT ![d][p] = x]

\* A goroutine for each profile, all at once: adapter.Disconnect, ...
TakeDown(d, p) ==
    /\ down[d][p] = "todo"
    /\ Reaches(d, p, "scan")
    /\ tunnels' = tunnels \ {p}
    /\ redialled' = redialled \cup {q \in {p} : \E u \in Daemons : dial[u][q].by # "none"}
    /\ UNCHANGED <<daemonVars, pidfile, port, resolv, blocking, errand, victim, events, newest,
                   stripped, raced, late, spoilt, early, outdated, hostsVars>>

\* ... with whose failure it ends, ...
StaysUp(d, p) ==
    /\ down[d][p] = "todo"
    /\ Reaches(d, p, "failed")
    /\ UNCHANGED <<daemonVars, machineVars, errand, victim, events, historyVars, hostsVars>>

\* ... and then this process's applyKill, which nothing keeps apart from another
\* goroutine's disconnect.
ScanDown(d, p) ==
    /\ down[d][p] = "scan"
    /\ \E x \in Decisions : Reaches(d, p, x)
    /\ UNCHANGED <<daemonVars, machineVars, errand, victim, events, historyVars, hostsVars>>

SwitchDown(d, p) ==
    /\ down[d][p] \in Switching
    /\ ApplyKill(down[d][p])
    /\ outdated' = (outdated \/ (down[d][p] = "enable" /\ tunnels \cap Protected = {}))
    /\ Reaches(d, p, "done")
    /\ UNCHANGED <<daemonVars, pidfile, port, tunnels, resolv, errand, victim, events, newest,
                   stripped, raced, late, spoilt, early, redialled, hostsVars>>

ReadPID(d) ==
    /\ errand[d] = "off" /\ \A p \in Profiles : down[d][p] \in {"done", "failed"}
    /\ victim' = [victim EXCEPT ![d] = pidfile]
    /\ Step(d, IF pidfile = Nobody THEN "done" ELSE "ask")
    /\ UNCHANGED <<daemonVars, machineVars, down, events, historyVars, hostsVars>>

\* Whoever listens on the port is asked to shut down, if it answers.
AskShutdown(d) ==
    /\ errand[d] = "ask"
    /\ \/ /\ port # Nobody
          /\ cancelled' = cancelled \cup {port}
          /\ Step(d, "wait")
       \/ Step(d, "kill") /\ UNCHANGED cancelled
    /\ UNCHANGED <<stage, left, dial, wanted, guarding, machineVars, victim, down, events,
                   historyVars, hostsVars>>

\* Mutant: who has been asked is taken to have left.
TakenForGone(d) == TRUE

PIDFileGone(d) == pidfile = Nobody

\* waitForPIDFileGone, ten seconds.
Waited(d) ==
    /\ errand[d] = "wait"
    /\ Step(d, IF PIDFileGone(d) THEN "done" ELSE "kill")
    /\ UNCHANGED <<daemonVars, machineVars, victim, down, events, historyVars, hostsVars>>

\* A process that is gone cannot be killed: the PID file stays.
HardKill(d) ==
    /\ errand[d] = "kill"
    /\ IF Alive(victim[d]) THEN Dies(victim[d]) /\ Step(d, "remove")
       ELSE Step(d, "done") /\ UNCHANGED <<daemonVars, machineVars, hostsVars, spoilt>>
    /\ UNCHANGED <<victim, down, events, newest, stripped, raced, late, early, redialled, outdated>>

\* os.Remove, whatever the file says by now.
RemovePID(d) ==
    /\ errand[d] = "remove"
    /\ pidfile' = Nobody
    /\ stripped' = stripped \cup ({pidfile} \ {victim[d], Nobody})
    /\ Step(d, "done")
    /\ UNCHANGED <<daemonVars, port, tunnels, resolv, blocking, victim, down, events, newest,
                   raced, late, spoilt, early, redialled, outdated, hostsVars>>

DownStep(d) == \/ \E p \in Profiles : \/ TakeDown(d, p) \/ StaysUp(d, p)
                                       \/ ScanDown(d, p) \/ SwitchDown(d, p)
               \/ ReadPID(d) \/ AskShutdown(d) \/ Waited(d) \/ HardKill(d) \/ RemovePID(d)
----------------------------------------------------------------------------
(* The world around *)

Drop(p) ==
    /\ p \in tunnels
    /\ Happens
    /\ tunnels' = tunnels \ {p}
    /\ UNCHANGED <<daemonVars, pidfile, port, resolv, blocking, downVars, historyVars, hostsVars>>

Killed(u) ==
    /\ Alive(u)
    /\ Happens
    /\ Dies(u)
    /\ UNCHANGED <<downVars, newest, stripped, raced, late, early, redialled, outdated>>

Edit == /\ Happens
        /\ UserEdits
        /\ UNCHANGED <<daemonVars, machineVars, downVars, historyVars>>

Writes(u, w) == Write(u, w) /\ UNCHANGED <<daemonVars, machineVars, downVars, events, historyVars>>

Up(u) ==
    \/ Start(u) \/ DialNext(u) \/ AbandonDial(u) \/ ScanAll(u) \/ Serve(u) \/ Sync(u)
    \/ Signal(u) \/ CloseAPI(u) \/ StopServices(u) \/ StopWatchdog(u) \/ DisableKill(u)
    \/ ForceRestore(u) \/ CheckPID(u) \/ Exit(u)
    \/ \E p \in Profiles : \/ TunnelUp(u, p) \/ Attach(u, p) \/ Scan(u, p) \/ Connected(u, p)
                           \/ DialFails(u, p)
                           \/ Redial(u, p) \/ ConnectRequest(u, p)
    \/ \E w \in Writers : Writes(u, w)
    \/ Killed(u)

Next ==
    \/ \E u \in Daemons : Up(u)
    \/ \E d \in Downs : DownStep(d)
    \/ \E p \in Profiles : Drop(p)
    \/ Edit

Spec == Init /\ [][Next]_vars
----------------------------------------------------------------------------
(* Properties *)

Deserted == \A u \in Daemons : ~Alive(u)

\* A `down` is at it, or has taken down some of the profiles and not the others.
HalfDown ==
    \E d \in Downs :
        \/ Taken(d) \notin {{}, Profiles}
        \/ \E p \in Profiles : down[d][p] \in {"scan"} \cup Switching

\* When the last daemon has left by its own choice, it has given the machine
\* back: resolv.conf as it was, no rule that blocks, and a hosts file with the
\* user's last lines and no block.  Excepted are the ways out that this program
\* leaves open: a daemon that was killed or guarded DNS twice; a connect that
\* outlived the cleanup; for the kill switch a daemon that left before all its
\* profiles were up, a `down` that is at it or could not take all profiles down,
\* and one of whose goroutines one switched the rules on for a tunnel that
\* another had just taken down; and for the hosts file a sync that Stop did not
\* wait for, writers and edits that overlap, or a write that failed.
ExitCleansUp ==
    Deserted /\ ~spoilt /\ ~late =>
        /\ resolv = [file |-> "original", backup |-> "none"]
        /\ early = {} /\ redialled = {} /\ ~HalfDown /\ ~outdated => ~blocking
        /\ ~torn /\ crossed = {} => hosts = [lines |-> written, block |-> FALSE]

\* The daemon that wrote the PID file last is in it for as long as it runs: no
\* `down` misses it, and no other daemon's exit takes its name away.  Only a
\* `down` that has just killed another one does, and a daemon that had read its
\* own name there before this one wrote.  (removePIDFile)
NewestIsKnown ==
    newest # Nobody /\ Alive(newest) => pidfile = newest \/ newest \in stripped \cup raced

\* When `down` has finished, the daemon it found in the PID file does not run
\* any more, although it asks whoever has the port, and takes the PID file's
\* absence for the daemon's.  Not so if a newer daemon took the PID file over
\* meanwhile, or somebody else removed it: a second `down`, or a daemon that was
\* leaving when this one wrote it.  (stopDaemon)
DownStopsTheDaemon ==
    \A d \in Downs :
        LET u == victim[d]
        IN  errand[d] = "done" /\ u # Nobody /\ u = newest /\ u \notin stripped \cup raced => ~Alive(u)
=============================================================================
