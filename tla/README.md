# A TLA+ model of vpn-kongtrol

vpn-kongtrol is a daemon and command line that runs several VPN tunnels of
different vendors side by side: it connects and disconnects profiles, watches
them and reconnects them, fails over between them, routes domains through them,
guards the system's DNS configuration and blocks traffic that would leave a
tunnel.  This directory holds TLA+ modules that model the daemon, its control
API and the processes around it, the TLC configurations that check them, and
theorems about them that TLAPS proves.

Paths below are relative to the repository.  `PROJECT.json` maps every
definition to the lines it translates.

## 1. Inventory

### Components

| Component | State | Operations | Modelled in |
|---|---|---|---|
| VPN adapters, `internal/vpn/*` (8 types) | `a.status`; OpenVPN's `a.proc`, FortiClient's `a.tunnelIface` | `Status`, `Connect`, `Disconnect`, `TunnelInfo` under the adapter's own mutex | `VpnAdapters`, `AdapterContract` |
| OpenVPN process and management channel, `internal/vpn/openvpn` | processes, a socket whose answers queue up | start, credentials, `State`, the wait for CONNECTED, stop | `OpenVPNManagement` |
| Profile service, `internal/app/profile_service.go` | none of its own | `Connect`, `Disconnect`: preflight, adapter, watchdog, DNS, resolver, kill switch | `ProfileService` |
| Watchdog, `internal/monitor/watchdog.go` | `intended`, `active`, `ctx`, one goroutine per active profile, failover order and cooldown | `MarkIntended`, `MarkActive`, `Start`, `Stop`, `watch`, `tryFailover` | `Watchdog` |
| DNS manager and guard, `internal/monitor/dnsmanager.go`, `internal/security/dnsguard_unix.go` | servers per profile, `active` flag, `/etc/resolv.conf` and its backup | `OnConnect`, `OnDisconnect`, `ForceRestore`; `Apply`, `Restore` | `DNSGuard` |
| Kill switch, `internal/app/killswitch_service.go`, `internal/security/killswitch_linux.go` | `enabled`, the OUTPUT chain | `Apply`; `Enable`, `Disable` | `KillSwitch` |
| Control API and scheduler, `internal/api`, `internal/monitor/scheduler.go` | pending connects per profile | connect, cancel, disconnect, groups, restarts in place, shutdown; the schedule's pass | `ControlAPI` |
| Configuration behind the API, `internal/api/handlers_*.go`, `internal/config` | `kongtrol.yaml`, keychain, engine, services, two flags, `configMu` | every request that edits or reloads it | `ConfigStore`, `ConfigHandlers`, `ConfigRegister` |
| Policy engine, `internal/policy` | the ordered rules | `ResolveIP`, `ResolveDomain`, `ResolveFlow`, `/resolve`, the table of routes | `PolicyEngine` |
| Policy resolver, `internal/monitor/policyresolver.go`; Linux routes | profiles' objects, addresses seen, `wg`'s allowed IPs, routes | register, unregister, loop, pass | `PolicyResolver` |
| Split DNS, `internal/monitor/splitdns.go` | a block of the hosts file | `Start`, `sync`, `Stop` | `SplitDNS` |
| Daemon, `cmd/kongtrol/cmd_up.go`, `cmd_down.go`, `daemon_*.go` | PID file, port, what is left on the machine | `up` with its deferred cleanup, `down --all` | `DaemonLifecycle` |
| Collector, event stream, viewer: `collector.go`, `ws.go`, `up_tui*.go` | metrics, subscribers, the viewer's last frame | collect, notify, send; a key and its action | `Telemetry` |
| Files of the user: token, preferences, audit log | three files | create; update; log, rotate, prune, follow | `APIToken`, `Preferences`, `AuditLog`, composed in `UserFiles` |
| Wizard, `cmd/kongtrol/wizard*.go` | the YAML document it edits | the walk and the menu, step by step | `Wizard` |
| Leak test, FortiClient's windows, other commands, tray, dashboard, translations, kill switch and DNS guard of macOS and Windows | little or none | probes, dialogues, rendering | not modelled |

### How they interact

A user's request (an API handler, the `up` loop, the scheduler) calls
`ProfileService.Connect` or `.Disconnect` on a goroutine of its own.  The call
goes through the adapter, the watchdog, the DNS manager, the resolver and the
kill switch one after the other; each of them has its own mutex, and **no lock
spans a call**, so calls of different goroutines interleave between any two of
those steps.  The watchdog's watchers are callers too.  The API adds a table of
pending connects, which serialises the starts and not the calls, and `configMu`,
which serialises the requests that edit the configuration as far as their paths
give them away: not those under `/tunnels`, nor the update of a group that is
named `connect` or `disconnect`.  Observers (the collector, the kill switch, the
health check) take the adapters' mutexes, and the event stream takes the
collector's.

Outside the daemon there are other processes: a second `up`, `down`, the
commands that edit preferences, the viewer, `logs --follow`, `doctor`, `init`.
They share files, with a lock only inside one process.  Tunnels go up and down,
and other programs rewrite `resolv.conf` and the hosts file, without telling
anybody.

### What is hard, and what makes each part correct

* **Adapters.** Eight different answers to "what is remembered, and what is
  true?"  Correct: an adapter that looks at its tunnel does not lie about it,
  leaves no half-finished state behind a failed call, and never forgets what it
  needs to take a tunnel down.
* **OpenVPN's channel.** Every question is answered by two lines and one is
  read. Correct: "connected" is never invented, and no process runs that nobody
  holds.
* **Watchdog and profile service.** Watchers are spawned from three places and
  by any goroutine; `intended` is read long before it is acted on; Stop waits
  for goroutines in the middle of several nested calls.  Correct: one watcher
  per profile, none after Stop, a drop is repaired, the user is obeyed.
* **DNS guard.** File operations that can fail or be cut short by a crash.
  Correct: the user's servers are always in one of the two files, and the
  tunnels' servers are in force while guarded.
* **Kill switch.** A decision put together from unsynchronised reads, then
  commands of which each may fail.  Correct: the flag tells the truth, no
  decision goes against a tunnel that was up all along.
* **Control API.** Pending connects that are cancelled, replaced and cleared by
  different goroutines.  Correct: an entry means a connect that runs and can be
  cancelled; a disconnect has the last word.
* **Configuration.** File, keychain, engine, services and flags are written one
  after another and each write may fail; some requests take no mutex, and the
  callback that tells the daemon is nobody's critical section.  Correct:
  requests are atomic, memory follows the file, credentials follow both.
* **Policy resolver.** Passes of up to 25 seconds over objects that may have
  left the table.  Correct: what was resolved stays reachable, routes go with
  their profile.
* **Daemon.** A cleanup that depends on how far `up` got, beside a `down` whose
  goroutines run at once, a second daemon and a kill.  Correct: the machine is
  given back, `down` stops whom it found.
* **User's files.** Correct: one token, confirmed edits and events are kept, a
  follower skips and repeats nothing, the wizard writes what it showed and what
  can be loaded.

`PROJECT.json` lists these as hazards, each at its line with the properties that
catch it; a note says where a property has to except what the code really does.

## 2. Modules

```
VpnAdapters ── AdapterContract ── MCAdapters        PolicyEngine ── ConfigHandlers
  │                  └── AdaptersProofs                                │
  │                         │                       ConfigRegister ⇐ ConfigStore ── MCConfig
  │                         │                        (refined by)      └── ConfigStoreProofs
ProfileService ─┬─ Watchdog ┘                       PolicyResolver ── MCHost, DaemonProofs
                │     ├── MCWatchdog                SplitDNS ── DaemonLifecycle ── MCHost, MCLifecycle
                │     └── MCWatchdogLive                             └── DaemonProofs
                └─ ControlAPI ── MCControl          OpenVPNManagement ── Telemetry ── MCTelemetry
                        └── ControlAPIProofs                                └── TelemetryProofs
DNSGuard ── MCDNSGuard, DNSGuardProofs              APIToken, Preferences, AuditLog, Wizard
KillSwitch ── MCKillSwitch, KillSwitchProofs          └── UserFiles ── MCUserFiles, UserFilesProofs
```

### VpnAdapters

Per profile: `kind` (its adapter type), `mem` (`a.status`), `handle` (OpenVPN's
process: none, held, or reaped by a failed stop; FortiClient's interface) and
`up`, whether the tunnel exists, which no line of the program assigns.  The
operators `StatusCall(p, s)`, `ConnectCall(p, ok)` and `DisconnectCall(p, ok)`
are one call each, a disjunction over the adapter types.  Every method holds the
adapter's mutex from its first to its last line, so nobody sees the middle of a
call and one action is faithful; a call that takes minutes takes effect at its
end, and what the network did meanwhile happens before it.

The four ways of `Status()` are operators of their own: remembered (OpenVPN,
AnyConnect, ProtonVPN, GlobalProtect), probed but not written back (WARP,
Tailscale), reconciled in both directions (WireGuard), and FortiClient's, which
drops and adopts.  Each `Connect` is an operator with the adapter's own early
returns, its own idea of an answer that means "connected", and what it leaves
behind when it fails.  `Reports(b)` is what a vendor's client says of a tunnel
that is up or down; `CiscoAccepts` and `ProtonAccepts` are the sets of such
answers that those adapters take for success.

### AdapterContract

Calls any adapter in any order and remembers in `told` what the last call
answered, until something happens.  Its properties say what callers may believe.

### ProfileService

The two calls as programs: `at[g]` is the next step of goroutine `g`, `on[g]`
its profile.  `Connect` is check, dial, mark, attach, guard (`TunnelInfo` is
asked in attach, for some adapters by an external command, and `OnConnect`
called in guard, whatever has happened in between); `Disconnect` is intend,
hangup, release.  The steps are cut where a mutex is released.  `MarkIntended`
and `MarkActive` are here because these calls make them.  The DNS manager and
the policy resolver appear as the sets `guarded` and `registered`; `DNSGuard`
and `KillSwitch` open up what this module leaves closed.

### Watchdog

Composes the above: `watch[p]` is where the watcher of `p` stands (poll, decide,
backoff, reconnect, failover, takeover, adopt) and `spawned[p]` counts watchers,
so that a second one shows.  A watcher's own connect is a call of the goroutine
named after its profile.  The failover order is an operator on priorities:
`Preferred` leaves equal priorities in either order, which is weaker than the
code's tie-break by name.  `overruns` is a history variable: reconnects that the
watcher of a profile began since the user asked to disconnect.  `requests` and
`changes` count what the constants `MaxRequests` and `MaxChanges` bound; a bound
of 0 is no bound.

### DNSGuard

`DNSManager` over `unixDNSGuard` on Linux.  The manager's mutex makes a call
sequential, but every file operation is an action, may fail (a failed write
leaves the file alone, or truncated), and may be the last before a crash.  A
file's content is the set of servers it lists.  `original`, `failed` and
`applies` are history variables; the first is what another program wrote last.

### KillSwitch

Several goroutines run `Apply`: a scan that asks one adapter at a time, then the
resolution of interfaces, then one iptables command after the other under the
switch's mutex.  `chain` is the OUTPUT chain as a sequence of the interface sets
it accepts, and `Drop`.  `steady` is a history variable: the profiles connected
ever since a goroutine's Apply began.

### OpenVPNManagement and Telemetry

`phase[p]` is what process `p` is doing, `proc` the one the adapter holds, `at`
where Connect stands, `answers` the lines on their way, `asker` who waits for
one.  A question puts two lines into the queue and takes one out; Connect and
the collector both ask.  `Telemetry` adds the collector's pass (its mutex, the
comparison with the metrics before), a stream with its channel of one place, and
a viewer whose actions go where its key found the daemon.  `wasUp` and `unheld`
are history variables.

### ControlAPI

Composes `ProfileService` with handlers, attempts (the goroutines a handler
leaves behind) and the scheduler.  `entry[p]` is `connectCancel`; `cancelled`
are the attempts whose context has ended, which only some adapters look at
(`Deaf` are the others).  A restart in place is a disconnect followed by a
start. A group is a sequence of profiles that a handler goes through.  Shutdown
sweeps the entries, then closes, with its handlers done or after five seconds
without them.  History variables name what the properties except: `escaped`,
`slipped` (somebody was about to call `OnConnect` when the last disconnect
called `OnDisconnect`), `late`, `calm`.

### ConfigRegister, ConfigStore, ConfigHandlers, PolicyEngine

`ConfigRegister` is the abstract specification: one register, to which accepted
requests are applied whole, one after another; and, for what the code does not
serialise, values `old` to which a request may be applied after they have been
replaced.  `ConfigStore` implements it with a file, the keychain, failures of
every write, crashes, restarts and edits by hand.  `seen`, what a request that
may write last loaded or wrote, is the register; `old` is what those requests
have in hand that another one without `configMu` has overtaken.

`Locks` is `isConfigMutation`, with both its exemptions: `Slips(o)` are the
requests that look like a group's connect.  `Load` is the file through
`config.Load`: `Loaded` expands variables (`RulesWithVars`, `ModesWithVars` say
which rules and modes contain one, and what it holds) and fills in an empty
mode, and it is the result that is validated, edited and saved.  After the write
come the engine (`StoreEngine`) and the callback into the daemon, which is three
steps: the daemon's configuration, the kill switch's service and the profiles'
service, each of the latter made from whatever the first is by then.

`ConfigHandlers` says what each handler makes of a configuration (`Apply`),
including which names it compares up to case.  `PolicyEngine` is the engine and
its three ways to answer: `ExplainTarget` for `explain`; `HandleResolve` for
`/resolve`, which first takes the text through `Normalized` (a scheme, a path, a
port, a final dot and capitals go; `Normal` lists the texts of which something
else is left); and `HandleListRoutes` for the table of routes, which calls the
default route the system's and takes what the resolver lists before it asks
`MatchStaticPolicy`.  The modules are bound together by the fact that every
reachable configuration gives the engine that is asked.

History variables name what requests without `configMu` may spoil: `stale`
(memory set from an older file), `overtaken` (requests), `unsure` (credentials).

### PolicyResolver

Each registered profile has an object; a pass holds an object and not a table
entry, so it may outlive the registration.  A pass looks domains up in any
order, may run out of its budget after any of them, calls `wg set` only if it
has found something new, and sets the routes.  `allowed` and `routes` are the
kernel's.  History: `astray`, `beside`, `unsettled`.

### SplitDNS and DaemonLifecycle

`SplitDNS` has the writers of the hosts file (each daemon's sync and its Stop),
cut into read, truncate and write, and an editor that saves between them.  Its
history variable `torn` is set where one of them meets another in the middle of
a write, be it that it reads a file that is truncated. `DaemonLifecycle` runs
`up` and `down` over it: `stage[u]` is how far `up` is, `dial[u][p]` who is
connecting a profile and how far, `errand[d]` how far a `down` is, and
`down[d][p]` how far its goroutine for one profile.  The deferred calls are the
stages after `serve` in reverse order of their starting; a failed dial jumps
past those that were not reached.  `removePIDFile` is two steps, the comparison
and the remove, and so is every application of the kill switch, in the daemon as
in `down`: what it finds connected, and what it makes of it later.  A goroutine
of `down --all` is three: the adapter's Disconnect, the scan, the switch.  The
DNS guard is one step each here.  History: `raced` (a daemon wrote its PID
between the read and the remove of one that was leaving), `stripped` (a `down`
removed its entry for another's), `outdated` (a `down` switched the rules on for
a tunnel that had gone), `redialled`, `early`, `late`, `spoilt`.

### APIToken, Preferences, AuditLog, Wizard, UserFiles

One module per file.  `UserFiles` composes them: a process gets its token, opens
the log, and works.  Its variable `scene` picks one of three sub-systems that
share no state (edits, events, set-up) at the beginning of a behaviour, so that
their products are not enumerated.  In `Preferences` a field's value is the
editor that changed it last; in `AuditLog` a day's file is a sequence of event
numbers, and a writer works with the date it took (`clock`): it opens that day's
file, lists the files, and removes those that are neither that day's nor the
day's before, later ones too (`overrun`); whoever has a removed file open goes
on writing to it.  In `Wizard` an entry of the document has the name, whether it
has credentials, and whether the wizard has made it, and `Quit` and `Escape` may
end any form.

## 3. Runs

| Run | Shows | Distinct states |
|---|---|---|
| `watchdog` | `OneWatcher`, `StoppedMeansNoWatcher`, `AtMostOneOverrun` with two profiles failing over to each other and a user's goroutine | 870 000 |
| `watchdog_live` | `DropIsRetried`, `StopReturns` for one profile whose adapter's commands end, no bounds | 11 000 |
| `adapters` | `LiveStatusIsTrue`, `WireGuardReconciles`, `ConnectingIsTransient`, `ConnectedIsHeld` for all eight adapters on three platforms | 466 |
| `dns` | `GuardHasBackup`, `OneApplyLosesNothing`, `ActiveServersInForce` with I/O errors, crashes and foreign writes | 5 050 |
| `killswitch` | `EnabledTellsTheTruth`, `SteadyTunnelsCount`, `NeverCutOff` with two goroutines and failing commands | 309 000 |
| `config` | `MemoryFollowsFile`, `RunningIsValid`, `CredentialsBacked`, `RejectedLeavesNoTrace`, `AnswersAgree`, and that the store implements `ConfigRegister` (`Atomic`), with and without `configMu` | 168 000 |
| `control` | `PendingIsRunning`, `ConnectsCanBeCancelled`, `DisconnectSticks`, `WindowIsAnInterval` | 1 025 000 |
| `host` | `ExitCleansUp` with one daemon and a concurrent `down --all` over two protected profiles; `RoutesGoWithProfile`, `NothingForgotten` | 2 170 000 |
| `lifecycle` | `NewestIsKnown`, `DownStopsTheDaemon` with two daemons and a `down` | 1 680 000 |
| `telemetry` | `NoInvention`, `HeldOrUnsent`, `NoLostChange`, `ViewerNeverDials` | 5 680 000 |
| `userfiles` | `OneToken`, `RequestsKeepEdits`, `ConfirmedIsKept`, `FollowedInOrder`, `SavedLoads`, `ReviewShowsAll` | 1 949 000 |
| `user_disconnect` | `IntendedIsLeftAlone` is violated | |

Several properties have an exception, kept in a history variable: the code has a
way to break the plain sentence.  The exception is there to show that it is the
only way; section 4 lists those that a document or comment denies.

### Bounds

* `MCWatchdog`: two profiles (failover needs a source and a target), one
  goroutine for requests besides the two watchers, `MaxRequests` = 2 requests
  and `MaxChanges` = 1 change of the network in a behaviour.  Two requests are a
  connect and the disconnect that races the watcher; one change is the drop that
  starts everything.  WireGuard is the adapter because its `Status()` sees drops
  and lets `Connect` repair them.  Watchers' own calls are not bounded.  The
  theorems of section 5 hold without these bounds.
* `MCWatchdogLive`: one profile and no bounds; a bound would end behaviours and
  make the liveness properties hold or fail for the wrong reason.
* `MCAdapters`: one profile.  Adapters share no state, so more profiles add
  nothing but products.  The run is unbounded.
* `MCDNSGuard`: two profiles with any subset of two servers, two foreign
  contents, so that a foreign write can be told from the one before.  `applies`
  saturates at 2, which is all the properties ask.
* `MCKillSwitch`: one protected profile whose adapter names its interface, one
  that does not, two goroutines.  `MaxRules` = 3: a flush fails only while the
  chain is shorter, so that two Enables can pile up and the chain stays finite.
* `MCConfig`: two requests in flight out of twenty-two operations with at least
  one of every handler: one that holds `configMu` beside a tunnel's reload or an
  update of the group `connect`, which do not, or one that waits.  Names differ
  in case only, rules nest and tie, a policy's name and a mode are variables, a
  mode is empty.  `MaxEvents` = 3: a request, one that overtakes it, and an edit
  or a crash between.  A request without `configMu` overlaps with every other
  and weighs two (`Weight`), so that two of them do not meet; the theorems have
  no such bound.  Addresses have two bits, so that networks of three lengths
  nest. The texts for `/resolve` include one with a scheme, one in capitals, an
  address with its port and a lone slash.
* `MCControl`: two handlers and two attempts, so that an older attempt can clear
  a newer one's entry; a target of one profile and a group of two in which the
  profile comes second; one adapter that looks at its context and one that does
  not.  `MaxEvents` = 3: connect, disconnect, and a third request, drop or tick.
  Days of three minutes, a window over midnight; `WindowIsAnInterval` ranges
  over all windows of such a day.
* `MCHost`: two scenes that share no state, of which a behaviour has one.
  `processes`: one daemon and one `down`, two profiles, both protected, one with
  DNS: the second is what a goroutine of `down` can still find up.  `MaxEvents`
  = 1 of drops, signals, kills, syncs, edits and API connects; dials, their
  failures, the watchdog's redials, every step of the cleanup and of `down` are
  not bounded.  `resolver`: one profile, two objects (it registers again while a
  pass is in the first), the loop and one caller; two domains of which one has
  the server's own address among its answers and one an IPv6 address.  Three
  calls, two changes of the interface, two rounds of the loop.
* `MCLifecycle`: two daemons, one `down`, one profile that is protected and
  brings DNS, `MaxEvents` = 1: the daemon that leaves, the one that starts while
  it does, and the `down` that finds either.
* `MCTelemetry`: two launches (the old process and the new one), a queue of four
  lines (two questions ahead), one viewer.
* `MCUserFiles`: the daemon with two requests and two commands; three days;
  three events, so that a day's file can be pruned while a writer has it open;
  the wizard with two names that differ in case, from five first files.

`CHECK_DEADLOCK FALSE` is set where the system really may stop: after Stop and
the last request (`watchdog`), and where a behaviour's bounded events are used
up and every process has done its work (the runs from `config` on).

### Fairness

`Watchdog!Fairness` has weak fairness for every goroutine's next step (the Go
scheduler runs what can run), for every watcher's step (ticker and timer fire),
and for the end of `wg.Wait`.  A step that waits for an adapter is fair only if
the adapters' commands end (`CallsReturn`): of all adapters only WireGuard runs
its commands under a timeout (`cmdTimeout`, `wireguard/util.go:13`); those of
the other seven may hang, and a watcher, or Stop, with them.  All profiles have
to be of that kind, as a watcher also asks those it might fail over to.  The run
has WireGuard's adapter, and the two properties say so.  Leaving
is strongly fair: `select` chooses at random among the cases that are ready, so
a watcher that comes back to its select again and again, with the context done,
takes `ctx.Done()` in the end.  Requests, drops, Start, Cancel and Stop are not
fair: nobody has to make them.  The other modules state safety only.

## 4. Disagreements between code and documents

`user_disconnect` is a run: a disconnect that falls into the watcher's backoff
is undone when the backoff ends (`watchdog.go:282`; the comment at `:168`).  The
others are told in `PROJECT.json` as findings, with the line that says
otherwise. They were met while modelling; a model that has them states its
properties with the exception.

* Adapters: WARP and Tailscale report a drop and then refuse the reconnect
  (`cloudflarewarp/adapter.go:47`); AnyConnect's `Disconnected` contains
  `connected` (`ciscoanyconnect/cli.go:61`); `Status` waits for `Connect`.
* Guards: the second Apply backs up the guard's own file
  (`dnsguard_unix.go:101`); after a protected tunnel dropped, the next Apply
  disables the switch (`killswitch_service.go:43`).
* Watchdog: the backoff's product overflows at the 33rd failure
  (`watchdog.go:438`).
* Calls: the commands of seven adapters have no timeout
  (`tailscale/util.go:11`); a Disconnect that fits between a Connect's
  `TunnelInfo` and its `OnConnect` leaves DNS guarded for a tunnel that is down
  (`profile_service.go:156`).
* API: the deferred clear removes another attempt's entry
  (`handlers_tunnels.go:182`); a connect accepted while Shutdown sweeps is not
  cancelled (`server.go:309`); the security flags survive a reload.
* Configuration: a tunnel's reload (`server.go:298`) and the update of a group
  named `connect` or `disconnect` (`server.go:301`) are outside `configMu`; what
  was validated before it was saved may not be what the next load makes of it
  (`loader.go:49`).
* Processes: an exiting daemon removes the PID file that a new one has just
  written (`daemon_lifecycle.go:38`); `down --all` may leave traffic blocked
  with no tunnel up (`cmd_down.go:92`).
* Policies: `/resolve` goes by priority where the comment promises the longest
  network, and normalises its target where `explain` only trims it
  (`engine.go:106`); `matchGlob` knows one star; IPv6 routes are not flushed; a
  static range may hold the server's address.
* Telemetry: every collection notifies while OpenVPN is up (`adapter.go:126`);
  rendering waits for the adapters.
* Files: a writer whose date is yesterday's removes today's log
  (`audit.go:151`); `doctor` may truncate one; `logs --follow` misses what is
  written between its read and its offsets; split DNS writes after Stop.
* Wizard: the review misses policies of a step left with Esc and features that
  were un-ticked; a name may be given twice.

## 5. Proofs

All theorems hold for every value of the constants, under the assumptions named
in the modules.  These say that names of different sorts differ, that adapter
types and platforms are registered ones, that priorities, bounds and times are
natural numbers, that foreign content of `resolv.conf` lists no tunnel's
servers, that an operation has a handler and brings credentials that exist, that
the first configuration has its fields and can be loaded, that a policy's ranges
are networks and no variable's value contains another variable, that a mode
which is valid is not a variable, that an application that is asked about has a
name, that `/resolve`'s normalisation leaves addresses and the empty text alone,
that a configuration found by the wizard could be loaded, and that requests name
profiles there are.  TLC evaluates each of them in the runs.

| Module | Argument |
|---|---|
| `AdaptersProofs` | `AdapterTypes`: each of the calls and each change of the network preserves the adapters' type invariant.  `ContractInv` says of each adapter type what its memory is worth: a probed or reconciled "connected" that was just told is true, a WireGuard that told "down" does not remember connected, a holding adapter that remembers connected holds.  Each call re-establishes it, each change of the network erases what was told.  For the watchdog neither `OneWatcher` nor `AtMostOneOverrun` is inductive: the invariant ties `spawned[p]` to `watch[p]` (a watcher is somewhere exactly when it is counted, once), to `active` and to `phase`, and the overruns to where the watcher stands; an overrun exists only if the user asked, and the watcher cannot reach its backoff again while the mark is set. |
| `DNSGuardProofs` | The invariant says what each file holds at each step: between backup and write the backup equals `resolv.conf`; from put back to remove the buffer equals the backup; and while at most one Apply has happened the original is in the file that the next operation does not touch. |
| `KillSwitchProofs` | The holder of the mutex is the only goroutine in the middle of the commands; while it is there the chain ends in what it has added so far; a steady profile is either still to be asked or already found.  Together these give the three properties for any number of goroutines. |
| `ControlAPIProofs` | `TableOK`, `CalmOK` and `SweptOK` follow the pending connects.  `DisconnectSticks` is about steps of adapters, calls and attempts together, and needs the rest: where each goroutine stands in its call and over which profile (`CallsOK`), that an adapter holds what it takes to bring its tunnel down (`HandlesOK`), and that after the last disconnect of a profile every attempt still under way was cancelled and listens (`PartingOK`), so that from the release on nobody brings the tunnel up, and nobody but who stood at `guard` then calls `OnConnect` (`DownOK`).  `WindowIsAnInterval` is arithmetic about days that wrap around. |
| `ConfigStoreProofs` | Requests exclude or overtake each other (`IInv`): of two requests that may write, either one waits for the other's mutex, or one of them slips past it and each finds the other `Beside` it; so who is about to write has in hand what its operation makes of the register, or has been overtaken.  The file is `seen` or an edit of it by hand; what was validated can be loaded unless a policy in it is expanded.  `StoreIsAtomic` maps the write to `Perform` or to a late one, the load to `Notice` or a stutter, every other step to a stutter.  Memory (`MemoryInv`): which piece is behind the file, and who is on the way to tell it; a service is made from the daemon's configuration, so it is behind only while that is, or while somebody is still to come by.  Keychain (`KeychainInv`): a request in flight can undo what it has set, forgets only what the file does not list any more, and until it has written its traces are in its backup; who slips past the mutex neither brings nor forgets credentials, and what it lists again is counted in `unsure`.  Both rest on what each handler leaves alone in a configuration (`MadeOf`), shown handler by handler.  Answers: the file, every copy and the engine hold only rules of the assumed shape (`RulesInv`), expanded or not, in whatever order; the scan of `resolveIPMatch` has, after k rules, the `Best` of the first k, which gives `LongestPrefixWins`; the table of routes, asked about a single address, looks for the same network; and when all rules that claim a normalised target have one profile, every way to look for one of them ends with that profile. |
| `UserFilesProofs` | Token: while a creator is between creating and the end of writing it is the only one, and what the file holds follows from where it is.  Preferences: a request that has loaded has the mutex, and what differs from its copy by then was changed by commands.  Audit log: a writer's list holds no file of its own date or the day before, so a file of today or yesterday goes only by a writer whose date is older still, which `overrun` records; who has a file open has that file or is `unlinked`; what the follower has printed is the end of what it has read, because a file only grows until doctor empties it or such a writer removes it.  Wizard: the names that the wizard believes to be known are those of the document, at every form and on every way out of it. |
| `TelemetryProofs` | The processes are born in order; what runs is the newest, held, or listed in `unheld`; a line CONNECTED in the queue belongs to a process that was up.  The stream: whoever has subscribed and has sent an older frame has a notification.  The viewer: a job was decided when its key was pressed. |
| `DaemonProofs` | Resolver (`ResolverInv`): over a profile that is out of the table and not astray nobody passes; a pass that has no other beside it is alone over its profile; so the list it made is still all that was seen when it sets it, and what has been found and is not allowed yet has a pass on the way to allow it.  Daemon (`LifecycleInv`): who is in the PID file, or was found there by a `down`, has been started, a `down` removes the file only for a daemon that has left, and one that is about to remove its own entry is the newest, or the newest wrote while it was (`PIDFileOK`); a guarded `resolv.conf` belongs to the one daemon that guards, at a stage from which it still gets to ForceRestore (`GuardOK`); rules that block have a daemon before its Disable, or a `down` that has a profile still to take down or a goroutine that will find all of them gone (`BlockOK`); the user's lines are in the hosts file and in all copies of it, or with the one writer that has emptied it (`LinesOK`); a block has a daemon that serves it or is taking it out (`BlockLineOK`). |

Three of these proofs failed first, and what failed was the model or the
property:

* A sync that reads the hosts file just after another writer has truncated it
  carries an empty copy and writes that back later, with nobody in the middle of
  a write by then.  `SplitDNS` did not count this as `torn`, and a run of two
  daemons, which could not reach it within its bounds, did not show it.
* Each disconnect of a `down` applies the kill switch to what is still up.  If
  the daemon has already disabled it, a `down` that has taken down one protected
  profile and not the other blocks traffic with nobody left to give it back but
  itself; and as its goroutines run at once, one that found another's tunnel up
  may enable the switch after all are down.  `ExitCleansUp` excepts a `down`
  that is half done and a switch of that kind (`outdated`); the run has two
  protected profiles.
* A rule that names destinations matches no flow without a target
  (`rules.go:112`), which `MatchesFlow` had left to the matching of the domain.
  After that `handleResolve` still asks `ResolveDomain` about the empty target
  of a question for an application: a rule with an empty domain, which the
  loader accepts, answers for any application.  `explain` answers an empty
  target with nothing.  `AnswersAgree` now names that answer, and the run's edit
  by hand brings such a rule.

**Only model-checked:** the liveness properties (temporal reasoning under
fairness and ENABLED are beyond this prover), and the violated property.  Every
other property of a passing run is a theorem.  The library's induction takes an
operator as a parameter, which no installed prover can instantiate.  What needs
induction up to a bound (the scan of the engine's rules, the policies that a
deletion keeps, the entry that the wizard replaces) takes the least
counterexample instead, from the library's well-founded order of finite sets:
`LeastNatural` in `UserFilesProofs` and `ConfigStoreProofs`, and `Upwards` made
of it.  What the follower has printed is argued by indices.

## 6. What is left out, and why

* The length of backoffs, timeouts and intervals: a timer fires some time.
* The wait for an adapter's mutex, except OpenVPN's in `Telemetry`: calls are
  atomic.
* `Reconnect`: no code but tests calls it.
* Detection of VPN clients, authentication assistance, vendors' command lines,
  GUIs, HTTP, rendering, translations and logging.
* The macOS and Windows kill switches and the Windows DNS guard: the Linux ones
  were chosen because they keep their state in files and chains that a failure
  can leave half-way.
* `$` in names of profiles and in network ranges: variables are expanded in
  whole policies and in the kill switch's mode, which is enough to tell what is
  validated from what is loaded.
* `/resolve` with the name of a policy or a profile as its target, which no
  address or domain of the model is.
* More than one text of a domain: a target is what is left after trimming, a
  domain's capitals are a text of their own for `Normalized` only.
* Composition across the modules listed side by side in section 2: the watchdog
  does not run in `ControlAPI`, in `DaemonLifecycle` the DNS guard is one step
  and the kill switch two, and the configuration that `ConfigStore` publishes
  does not reach `ProfileService`. Each pair was too large for TLC at bounds
  where anything happens.
* The steps inside `WriteFileAtomic`: the rename makes the replacement one step.

## 7. Plan

What remains, in this order:

1. **Abstract specifications**: the DNS guard as a switch between the user's and
   the tunnels' servers; the PID file as a register of the newest daemon.
2. **Liveness** of `ControlAPI` (every pending connect ends) under the fairness
   of the Go scheduler.
3. The arithmetic of `backoff` as an operator with wrap-around, once a property
   can say what it should be.
