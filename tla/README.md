# A verification of Site Sentinel

Site Sentinel is a daemon that watches web sites (Go) and a desktop panel that shows what it found
(QML). These modules model the daemon and the two parts of the desktop side that decide
something: TLC checks them on small instances, and TLAPS proves the safety
properties that hold for every value of the constants. Paths below are relative to the repository.

## 1. The system

| Component | State it keeps | Operations | What makes it correct |
|---|---|---|---|
| One site's record, `monitor/state.go` | `SiteState`: last answers of four tiers, `Up`, `Probed`, `Fails`, `StateSince`, what changed | `applyReach`, `applyDNS`, `applyTLS`, `applyDomain`; the readings `Down`, `Severity`, `Reason`, `CertDaysLeft`, the alert lists | the readings tell the truth after any mix of answers and failures, and agree with each other |
| Monitor, `monitor/monitor.go` | `state` (a map under an RWMutex), `round` (local fault and since when), the cached RDAP bootstrap, `state.json` | `Run` (four tickers), `Refresh`, four rounds, `Forget`, `Prune`, save and load | no record of a watched site is lost; a removal and an edit reach memory and disk however rounds and saves overlap; every refresh ends |
| Alert evaluation, `alerts/eval.go`, `catalogue.go` | `State` of one trigger: baseline, readiness, entries seen, when it went away | `Evaluate` for six operators over the catalogue's paths | a watch rings for exactly the events it is for, and is over when it says so |
| Alert engine, `alerts/engine.go` | the armed triggers and `triggers.json`, under one mutex | a pass: fold, deliver, record, save; `Arm`, `Edit`, `Disarm` | no alarm, answer or learned state is lost between a pass, the requests in the middle of it and a restart |
| Alert delivery, `alerts/deliver.go`, `desktop.go` | none | choose a channel, retry a blocked agent, fall back, time out | an answer names someone who was told, in bounded time |
| File store, `store/store.go` | the files of the config directory | `Write` (temporary, fsync, rename), `Read`, `Sweep` | a file is replaced whole or not at all, through failed calls, exits and losses of power |
| Site store and API server, `sites/sites.go`, `api/server.go` | the list of sites, handed out by pointer; `sites.json` | `mutate` with `Add`, `Edit`, `Remove` and the settings; `Reload`; the dashboard | memory and file agree; a reload loses nothing; a reader sees whole sites |
| Daemon, `cmd/sentinel/daemon.go` | none of its own | start: sweep, load, prune, listen; stop | a restart continues from what was saved |
| Probes, `check/` | none | HTTP, DNS, TLS and RDAP queries; `Up`, `Transport`, `LocalFault` | a verdict on answers |
| MCP server, `mcpserver/` | none | tools over the same store and engine; a site is named, not numbered | a change hits the site that was meant |
| Command line, `cmd/sentinel/`, `client/` | none | one HTTP request each, two where a site is named | the same |
| Shell service, `Service.qml` | the daemon's process, the restart counter, why it last died | probe for the helper, start, restart up to a ceiling, give up | a daemon that died comes back, one that was stopped does not, and giving up names the cause |
| Panel, `Panel.qml` | the last dashboard, one fetch and one command under way, a queued fetch | poll, send a command, drop a removed row, stop hanging helpers | no fetch asked for is lost; a row goes when its site is gone and not before |
| Views, `DashboardView.qml` and others | - | layout and forms | - |

**How they interact.** The daemon is one process. `Run` is a goroutine that answers the tickers;
every `POST /api/refresh` and every added site starts a goroutine that runs all four tiers
(`api/server.go:496`); the alert engine has a goroutine with a ticker of its own; each HTTP request
and MCP call has one. They share the server's store (`Server.mu`), the monitor's records
(`Monitor.mu`) and the triggers (`Engine.mu`). No lock is held over network I/O or a delivery, and
none of the three covers another: a save of the monitor reads the server's store, then its own
records, then writes, and each is a critical section of its own. The engine reads the monitor's
snapshot; the server tells the monitor to forget a removed site; each of `sites.json`, `state.json`
and `triggers.json` is replaced separately. The desktop side runs on one event loop: the service owns the
daemon's process, the panel talks to it through helper processes, and their exits, outputs and timers
arrive in any order. Delivery talks to `herdr` and `notify-send`, which it kills at a timeout.

**What is hard.** Rounds of one tier overlap each other, a removal and an edit; a round works on
the sites as they were when it began; saves land in any order; a minute passes between an alarm and
the record of its delivery, and a killed command may have done its work; a site named by a tool is
looked up under one lock and changed under another; a reload reads the file outside the lock; readers iterate a list that a
removal shifts under them; the process can end between any two writes; a second daemon started by
mistake sweeps and saves in the same directory before it finds the port taken. The record itself is
sequential but its meaning is spread over fields: `Down` is rebuilt from three of them, and the
colour, the reason and the alert lists decide the same question by conditions of their own.
`PROJECT.json` lists every such point under "hazards", with its line and the properties about it.

## 2. The modules

| Module | Models | Instance |
|---|---|---|
| `SiteState` | the record of a site and its readings, as operators | |
| `SiteHistory` | one record under any history of answers, failures and waiting | `MCSiteHistory` |
| `SiteHistoryProofs` | theorems about `SiteHistory` | |
| `Monitor` | the goroutines around the records, the store and `state.json` | `MCMonitor` |
| `MonitorProofs` | theorems about `Monitor` | |
| `Evaluate` | `Evaluate` of one trigger against one sample, as operators | |
| `Watch` | one armed watch, from sample to sample | `MCWatch` |
| `WatchProofs` | theorems about `Watch` | |
| `Engine` | passes, deliveries, requests, `triggers.json`, restarts | `MCEngine` |
| `EngineProofs` | theorems about `Engine` | |
| `Handover` | abstract: what the engine relies on when it hands an alarm over | |
| `Delivery` | channel, retries, timeouts and fallback of one alarm after another | `MCDelivery` |
| `DeliveryProofs` | theorems about `Delivery`, the refinement among them | |
| `AtomicFile` | abstract: what the store package promises of a file | |
| `FileStore` | temporary file, fsync, rename, sweep, two daemons, losses of power | `MCFileStore` |
| `FileStoreProofs` | theorems about `FileStore`, the refinement among them | |
| `SiteStore` | `mutate`, `Reload`, readers of the list of sites, changes of a site by name | `MCSiteStore` |
| `SiteStoreProofs` | theorems about `SiteStore` | |
| `Supervisor` | the shell service and the daemon's process | `MCSupervisor` |
| `Panel` | the panel, its helper processes and the sites it shows | `MCPanel` |
| `DesktopProofs` | theorems about `Supervisor` and `Panel` | |

`SiteHistory` and `Monitor` both extend `SiteState`: the first checks the readings over long histories
of one record, the second the interleavings around the same `apply*` operators. `Watch` and `Engine`
extend `Evaluate` in the same way. `FileStore` implements `AtomicFile`; the other modules treat a
write of a file as one step that happens or fails, which is what that refinement licenses. `Delivery`
implements `Handover` in the same way, and `Engine` delivers in one step that succeeds or fails.
Definitions named "Variant" beside an operation are plausible mistakes in it ("mutants" in
`PROJECT.json`): each property is known to fail under one of them.

### SiteState and SiteHistory
A record keeps, of `monitor.SiteState`, what a reading depends on. Times are small integers, a day
is `Day` ticks, `WholeDays` truncates towards zero as `int(hours/24)` does (`state.go:104`). `Fails`
is capped at `FailCap`, one past which no reading tells it apart. The actions are the four rounds
(one answer each) and `Wait`. `misses`, `onset` and `wasUp` are what an observer of the probes alone
would write down; `DownIsTwoInARow` and `SinceIsOnset` compare the record with them. `ReadingsAgree` has
three parts: a coloured row has a reason and conversely (`ColourHasReason`), the colours of an answering
site and the alert lists see the same problems (`ColourMatchesLists`), and waiting alone never improves a
colour, at any later instant of the history (`WaitingNeverHeals`). The first two relate three independent
readings and need `CertUrgent <= CertWarn`, which no handler enforces (`sites/sites.go:182`): both state it
as a premise. `TypeOK` is proved, not run.

### Monitor
A thread (`Run`, or a worker for a request) has a queue of jobs and a place in the first: `BeginRound`
takes the sites as they are, `ReachRound` folds all answers in at once, the serial tiers one site per
step; a save is `saveKnown`, `saveCopy`, `saveWrite`, the three critical sections of `state.go:373-395`.
`Restart` is `load` and `Prune`. Probes touch nothing shared, so an answer is chosen in the step that
folds it in. The server's side of a change (store and `saved`, which is `sites.json`) is one step here; `SiteStore`
has it in detail. A refresh is two: `Refresh` reads `saved`, or fails to, and `Swap` puts what it read in place
later, over what was changed in between (`api/server.go:495`), with the rounds behind it. `restored` is history: the
sites that such a reload put back after their removal. A ticker that is ready may still be taken once the context is done; `Leave` is the other
choice of that `select`. That the fault flag and its clock go together, in memory, on disk and in what a thread is
about to write, is part of `TypeOK` (`Fault`). After `Stop`, Run's probes fail in the client, as they do under a cancelled
context, and what is in progress runs on. All times are the instant `Now`.

### Evaluate and Watch
A sample is which sites are watched, down, or have a certificate problem, and the local-fault flag.
One path of each sort stands for the others of that sort. `Watch` has one trigger: `Pass` folds a sample,
`Asleep` is a pass with monitoring off, `Record` the outcome of the delivery. The history variables
(`last`, `backed`, `left`, `rungAt`, `failed`) are computed from the samples, never from the trigger.

### Engine
A request holds the engine's lock through its save and is one step; a pass is `Wake`, `FoldAll`,
`Deliver`, `Record` (per alarm) and `SavePass`, with requests and `Restart` between any two. Each trigger
carries its revision, so that an alarm can be traced to the terms that rang it. `early` is history: the
triggers whose fire count a request wrote to the file while their alarm was still waiting. A crash then
loses the alarm, and `AlarmsTried` says that nothing else does: without such a save the file never counts
an alarm that was not tried.

### Handover and Delivery
`Handover` says that an answer naming a channel means its party was told, and that nobody is told after the
answer. `Delivery` has the switch over the target, attempts of `herdr`, the pause between them, the deadline
(`clock > BlockedRetry`, looked at after a failed attempt only), the fallback to `notify-send`, and
the end of the process. The clock is in units of 5 s: `BlockedRetry` 12, `RetryEvery` 1, `HerdrTimeout` 3,
`NotifyTimeout` 2, the code's 60, 5, 15 and 10 s. The bound on `clock` is not a cap but a
claim, part of `TypeOK`: `Longest` is what a delivery takes at most. A killed command may have worked,
so `told` may grow when the answer is an error. An agent that stays free takes a prompt in time (`herdr`
is external); one that is busy, or comes and goes, may refuse it or hang. For the target `repo` the
code never finds an agent, since no entry of the catalogue carries a `path`; `ListAgents` models that.

### AtomicFile and FileStore
An inode stands for a file and, as temporary names are never reused, for its name. `shown` is the set
of inodes the name may stand for after a loss of power, since a rename may not have reached the disk;
an inode that was not synced may lose its data. A reader that opened the file keeps its inode; a file that is
not there (`Missing`) is told from a read that fails (`ReadFails`). A writer goes through `Create`, `Fill`, `Sync`, `Close`,
`Rename`; `Fail` sends it to the deferred `Remove`. A daemon that starts first reads its sites, or writes them on a
first run (`Start`, stage "load", one call at a time), then sweeps (`Sweep`, `SweepOne`, `Swept`), and then has all its
goroutines; the sweep takes the temporaries of another daemon's writes too, upon which their rename fails. The
refinement maps `Rename` to `Commit`, `Remove` and a failed create to `Abort`, `ReadAll` to `Return`, `ReadFails` to
`Refuse`, `Missing` to `Missing`, `Exit` to `Die`, and the other steps of a writer or a sweep to a stutter.

### SiteStore
The store is an object on a heap with a backing array and a length. `mutate` changes the current object
in place: `Remove` is `slices.DeleteFunc`, one element per `Shift`, then the length (`Cut`). `Swap` puts a
freshly loaded object in place. No two sites of a file have the same id (`Contents`): ids are minted, and an
editor that gives one twice is left out. A reader gets the pointer under the lock, then the slice header, then
one element per step, without it. A racing read gives a whole element, old or new: tearing inside one
would only make `ReadsWhole` fail sooner. `rows` are the monitor's records; a reader may be a round, which
puts what it read there when it ends (`Record`: its answers and its save are `Monitor`'s). Records outlive
edits and removals in that way. `Forget` follows a removal after the lock is released.

A call by name is `Tool` (the MCP tools: `Copy` the records, read the list, match the records of sites
that are listed, then the list alone) or `Command` (the command line: the list, then a second request),
and `Resolve` leaves it in "wait" with an id, upon which `Edit` or `RemoveSite` is its change under a
lock of its own. The command line is a process of its own: a restart ends the requests of the daemon, and leaves a
command that waits with its answer as it is (`Outlives`), for the next daemon to get its change. The filter of `Snapshot` and that of `rows` are one look at the list. One name stands for id, host,
address and label: which of them matched makes no difference to what can happen afterwards. `bore` is
history: the listed sites that had the name since the call began. Tools and commands that add a site,
or arm, edit and disarm a watch, are the requests `Add` here and `Arm`, `Edit`, `Disarm` of `Engine`.

### Supervisor
One action per handler and timer of `Service.qml`. The exit of the daemon (`DaemonExited`) and the end of
its stderr (`StreamFinished`) are two events in either order; `Respawn` waits for both, its back-off
being seconds. `Reasons` is what `failureLine` can make of stderr. The daemon is what the service sees of it:
it listens, fails to because the port is taken (`other`) or there is no helper, fails later, or stops
cleanly. That a helper that is gone ends a start (`StartFails`) rests on Quickshell reporting an exit for a program it cannot
execute, as it does for one that ran; Qt's `QProcess` by itself reports an error and no `finished` then. Were no exit reported, nothing would
arm a respawn until the next toggle: `EndsUp` would not hold once the helper was taken away, and `GaveUpSaysWhy` and
`CleanStaysDown` would speak of fewer steps. `Toggle` is the component destroyed and made again, with the old daemon perhaps still on the port.
`why` and `ended` are history: the last reason given, and how the daemon last ended.

### Panel
A helper process is asked, answered and handled in three steps, so that a status can be older than what
the panel did since. Exit and output of one helper are handled in one step: for the fetch they
write different fields, except that a failure with no snapshot reports a missing helper. `hangs` is a
helper stopped by the watchdog after the daemon did what it was asked. `due` (a command ended and
nothing was asked since) and `misled` (see section 4) are history. `up` and `helper` stand for the service and the
file system; `Supervisor` has them in detail. The look for the helper fails when the helper is gone or when the look itself
hung and was killed (`HelperProbeExited`). What opens a terminal, a new token or a build, is no command of the panel's.

## 3. What is checked

| Run | Asks | Bounds |
|---|---|---|
| `site_history` | do the readings of one record stay true and consistent? | `Horizon` 6 ticks of half a day; windows of 2 and 1 days |
| `monitor` | is a record ever lost, the fault clock ever inconsistent? | 2 sites, 2 workers beside Run, tiers reach (saves) and dns (does not), 2 requests, 1 fault |
| `monitor_live` | do removals, edits and refreshes take effect in the end? | 2 sites, 1 worker, tiers tls and domain, 2 requests, 1 fault |
| `watch` | does each operator ring for its events only? | 2 sites, 8 instants, every operator, both sides of a bound, one-shot and standing |
| `engine` | is an alarm, an answer or learned state ever lost? | 1 site, 2 triggers, 4 passes, 2 requests, 2 faults |
| `delivery` | was whoever an answer names told, an agent given its minute, the pass its end? | the code's timeouts, any number of alarms |
| `file_store` | is a file ever torn, an answer of a write or a read ever wrong, a temporary forgotten? | 2 daemons, 2 writers, 1 reader, 2 temporaries, 2 faults |
| `site_store` | do memory and file drift, a reload lose sites, a reader see what it should not, a call by name hit another site? | 2 threads, 3 sites, edits to 2 addresses; 3 jobs, 2 faults, 4 of both together |
| `supervisor` | does the service come to rest as it should, and say why? | 2 restarts allowed, 4 ends, hangs or toggles, 2 changes of the helper |
| `watch_fault` | does a local fault ring nothing? (violated) | 1 kind of watch on the outages |
| `site_store_torn` | does every reader read whole sites? (violated) | 2 jobs |
| `panel` | is a fetch lost, a row dropped without cause or left standing? | 2 sites, 2 clicks, 1 change by others, 1 coming or going of daemon or helper |

**Why the bounds are enough.** `MaxPasses`, `MaxRequests`, `MaxFaults`, `MaxJobs`, `MaxEvents`, `MaxWrites`, `Horizon`, and
`MaxBuilds`, `MaxEnds`, `MaxAsks`, `MaxChanges`, `MaxFlips` of the desktop side are the only caps. In `site_history`, date 2 expires inside the history and date 7 crosses the
warning and then the urgent window, each with half-days on both sides of every boundary; four
misses in a row and a recovery fit with room to spare. In `monitor`, two requests between any two steps
of Run and of each other are every race of three goroutines over a record, a removal inside a reload among them; the
code of the serial tiers differs in the `apply*` they call and in the sites they want, so one of them stands for all. The second
request of `monitor_live` adds a removal during an edit and conversely, and its domain tier the round that gives up for want of
the bootstrap map. `watch` has time for an alarm, a return by the full margin, a
second alarm, and an expiry in the middle; two sites make arrivals simultaneous and a filter partial.
`engine` has passes enough to set a baseline, ring, recover and ring again with a request and an end of the
process inside. `file_store` has two writes under way at once, one of them swept, one replacing the other
across a loss of power. `site_store` has a change on each side of a reload's read and its swap, a
reader over each, and a call by name with two changes, or a change and a round, between look-up and change;
four jobs and faults together are every such race of three with one fault beside it. `delivery` runs with
the code's own proportions and no cap. `supervisor` can use up its restarts with an end to spare for a toggle, a hung probe or a
daemon that holds the port; `maxRestarts` is 5 in the code and 2 here, where the first, a middle and the last
restart already differ. `panel` has a command and one more while it runs, a status in flight from before each,
and polls without bound; `maxTries` is 22 in the code, and only running out or not is told apart.

**Deadlock** is checked in the two Monitor runs, in `delivery` and in `panel`: there is always a tick, a step or a restart. The other
models end at their bounds and say so (`CHECK_DEADLOCK FALSE`).

**Symmetry** is used for the threads of `site_store` and the workers of `monitor` only, which check no liveness and nothing that tells
them apart. Sites and triggers are ordered in the code.

**Fairness.** Safety runs assume none. `monitor_live` assumes weak fairness of every thread's step (probes
are bounded by client timeouts, no lock is held for long), strong fairness of each ticker (a ticker that
fired stays ready in its channel, and `select` picks among the ready at random, so while Run keeps coming
back to its `select` no tier is passed over for ever) and weak fairness of the start after a stop (the
desktop session starts the daemon). Faults and requests are not fair. `engine` assumes weak fairness of the
pass: its ticker fires, and a delivery is bounded by the deadlines of `deliver.go`. `supervisor` assumes weak
fairness of each handler and timer and of a start's outcome; ends, hangs and the other daemon are not fair.
`panel` assumes weak fairness of timers, handlers and helpers (a watchdog stops those that hang), and that
a daemon that keeps answering is not missed by every fetch for ever (strong fairness of a successful one).

## 4. Where code and comments part

Two runs each check one sentence of the repository that the code does not keep; TLC prints the steps.

- `watch_fault`: "If every site fails at the same instant at the transport layer, that is recorded as a local fault
  and alerts nothing" (`README.md:29-30`). The fault empties `downList`, so `disappears`
  watches ring when it begins and `appears` watches ring for the old outages when it ends.
- `site_store_torn`: "mutating in place would be a data race" (`api/server.go:60`), which `mutate` does: a
  reader can miss a site that stays, or meet a blank one.

Seen while modelling, and not the subject of a run:

- "Filtering here is what makes the removal stick whichever path created the record"
  (`monitor/state.go:365`): a save that read the store before a removal can write the removed site's record
  after the removal's own save. `RemovalSticks` shows that a later save always takes it out again.
- A refresh reads `sites.json` before a removal and swaps what it read in after it (`api/server.go:495`): the removed
  site is watched again, to the next reload or, once another change is saved, for good, and if the swap comes before the removal's `Forget`, the record of that
  listed site is dropped and made anew by the next round. `WatchedNotForgotten` holds with that exception (`restored`).
- "OpAges fires for an entry whose timestamp is older than a span" (`alerts/alerts.go:37`): entries carry
  timestamps as text (`alerts/catalogue.go:203`), `agedOnly` wants a `time.Time`, so it never fires. `Evaluate`
  models what the code does (`FieldKind`).
- `Duplicate` (`alerts/alerts.go:356`) compares bounds by pointer, so two watches with a bound are never found
  alike; modelled in `Engine`.
- The panel must not drop a row before the daemon confirms its removal (`Panel.qml:277-280`), but `removeSite`
  notes the id before `control` refuses a second command, and the success of the command under way then
  drops the row. It comes back with the next status. `RowGoesForCause` holds with that exception (`misled`).
- `lastChecked` (`Panel.qml:232`) reads a field the dashboard's answer does not have, so the refresh button always
  waits until its 22 tries run out.
- A reason that arrives after the last allowed failure says "gave up" while that respawn is still pending
  (`Service.qml:138`), and nothing clears it when the daemon then comes up.
- With no snapshot yet, a daemon that is merely down is shown as a missing helper (`Panel.qml:485`) until the
  probe's next answer.
- `CertDaysLeft` "is negative once the certificate has expired" (`monitor/state.go:98`): it is 0 for the
  first day after. Severity and the lists ask `CertExpired` first and are not affected.
- The record of a delivery goes to whatever trigger has the id (`alerts/engine.go:105`), an edited one
  included: a failure under the old terms marks the new ones.
- A failure to reach a named agent is dropped once the desktop fallback succeeded, though the comment there
  has it recorded either way (`alerts/deliver.go:95-100`).
- `blockedRetry` is 60 s, but the deadline is looked at after an attempt: the last one may end after
  80 s, and a pass may wait 90 s for one alarm (`DeliveryTypes`).
- A `herdr` killed at its timeout may have delivered its prompt: the agent is then told again, or the
  person as well. `Handover` allows it.
- No entry of the catalogue has a `path`, so an alarm for a repository's agent always goes to the desktop.
- The MCP edit of a watch answers an error, for an expiry it cannot parse say, and keeps what it changed before it
  (`mcpserver/alerts.go`, `apply`); the HTTP edit of a bound leaves the other bound standing
  (`api/server.go:423-445`), the MCP one clears it; the command line's `arm` has neither `-rearm` nor
  `-hold`, which "armIn mirrors the command line's flags field for field" implies.
- The tools look among the monitor's records first, which an edit leaves behind until the next round: after
  an edit of site 1 from u1 to u3 and an `Add` of u1, `sentinel_remove_site u1` removes site 1.
  `ToolHitsNamed` counts the record as a name for that reason.
- A site added through MCP is first probed at the next tick; one added over HTTP at once.
- A standing `crosses above 0` on a count with a re-arm margin of 1 never re-arms: the count would have to
  reach -1.
- `Edit` of a site does not ask whether the new address is watched already; `Add` does.
- A request whose save failed answers with an error and stays in force in memory (`api/server.go:169`,
  `alerts/engine.go:152`); the next successful save writes it.
- `AcknowledgeChanges` (`monitor/state.go:288`) has no caller.
- The local fault flag is only cleared by a round with sites in it.

## 5. What is proved

Each module of proofs stands beside the one it is about (`DesktopProofs` beside two), and says in its head what has to be added to
the properties to make them inductive. Every theorem is for all values of the constants that satisfy
the assumptions named here; the bounds on requests, faults and passes are any natural numbers.

**SiteHistory** (any addresses, servers, dates and horizon; assumes `SiteStateAssumption`: windows and a day are
positive and the cap of `Fails` is past the limit, and `SiteHistoryAssumption`: dates are times and the history
has an instant). `SiteHistoryTypes`, `SiteHistoryDown` (`DownIsTwoInARow`), `SiteHistorySince` (`SinceIsOnset`),
`SiteHistoryReadings` (`ReadingsAgree`) and `SiteHistoryRenewal` (`WarningNeedsRenewal`). `Down` is rebuilt from
`Up`, `Probed` and `Fails`, so neither of the first two properties is inductive; `Tied` says what each field
means to an observer of the probes: `Fails` is the misses since the last healthy probe, `Up` holds iff one
was healthy and there were not two misses since, `StateSince` is unset until one was, and from the second miss
on it is the moment of that miss. `ReachFolds` says what a probe does to these four fields and `OthersFold` that the
other tiers leave them alone. The readings need one more part, `Explained`: a chain that did not verify left an
error, without which a red row would have no reason. That waiting never improves a colour rests on `DaysLeftShrink`:
whole days left, truncated towards zero, only shrink as the clock moves on, whatever the length of a day.

**Monitor** (any sites, workers, tiers, answers, requests and crashes; assumes `MonitorAssumption`: sites, answers
and tiers are of the code's kinds and Run is no worker). `MonitorTypes` and `MonitorForgets` (`WatchedNotForgotten`). Types
alone do not show that no watched site loses its record, as `Forget` drops whatever id its thread carries.
`Removing` adds that a thread has at most a removal in front, and that its id was handed out and has left the
store, or was put back by a reload (`restored`); ids are never handed out twice, so no site added later is meant by it. `Steady`, which the
argument is about, is the store without the sites put back.

**Watch** (any sites, watches, samples, horizon; assumes `SitesAssumption`: sites are a finite set of
numbers, `StampAssumption`, `WatchAssumption`: watches and worlds are well formed).
`WatchTypes`, `CrossingsAreRung` (`CrossingsRing`), `ReturnsAreRung` (`ReturnsRing`), `ArrivalsAreRung` (`ArrivalsRing`) and
`OneShotsAreOver` (`DeliveredIsOver`). A property compares the trigger with the history variables, so by itself
it is not inductive; `Agrees` says how the two go together between passes: the trigger is primed iff a
sample was folded, its number is the last sample's, it is ready iff a sample was clearly back since the
last alarm, and its count is zero iff it never rang. `Returns` adds for a text that the trigger knows the last
value, is armed until it first rings, remembers when the value left, and is armed again only while the value
has been away for the hold; `Arrivals` that the entries a list remembers are the last sample's. `IInv` is their
conjunction with `TypeOK`, preserved by every action, one lemma per operator (`CrossingFolds`, ...) saying what an
evaluation does to a state; the action properties follow from it. A one-shot on a list rings for one entry, the
first: `FirstSite` is why there is one.

**Engine** (any finite number of triggers at the start, any samples, passes, requests and failures; assumes
`EngineAssumption`: ids are numbers, watches and samples well formed, no watch is armed already expired).
`EngineTypes`, `EngineAtRest` (`AtRestPersisted`), `EngineTriesAlarms` (`AlarmsTried`), `EngineAnswers` (`AnswersStick`), `EngineBaselines`
(`BaselineFirst`) and `EngineOneShots` (`OneShotOver`). A restart makes the memory what the file was and a save makes the
file what the memory was, so every part of the invariant is said of both: what a client was told (`Keeps`), how
many alarms a fire count stands for (`Counted`: the tried ones in the file, these and the waiting ones in
memory), what a baseline was learned from (`Baselines`), and that a recorded one-shot is over (`Over`). What holds
these together is `Newest`: nothing recorded for a watch names a revision still to come, so an edit in the
middle of a delivery starts with nothing on its account. `Alone` says that a one-shot's alarm waits by itself.

**Delivery** (any four timeouts; assumes `DeliveryAssumption`: they are positive). `DeliveryTypes`,
`DeliveryFallback` (`FallsBackForCause`) and `DeliveryImplements`, the refinement. The invariant is
`IInv == TypeOK /\ InTime /\ Missed`: every call and pause is within its own timeout and began early enough
for the whole to be within `Longest` (`InTime`), and the agent's longest time free is bounded by where in an
attempt or a pause it began (`Missed`), which is why a free agent that is tried twice cannot be
missed.

**FileStore** (any number of daemons, goroutines, contents and faults; assumes `FileStoreAssumption`: every
goroutine belongs to a daemon, and the marks for "no data", "torn" and "failed" are not data). `FileStoreTypes`
(no two writers share a temporary), `FileStoreLitter`, and `FileStoreImplements`, the refinement. The invariant
is `IInv == TypeOK /\ Whole`: every inode the name stands for or may stand for after a loss of power, and every
inode a reader has open, holds data, whole and synced (`Fit`), and a write has got as far as its place
says (`Ready`). `Ready` is what makes `Rename` put a fit inode in place: without the fsync `Ready` fails at the
rename, and TLC shows the torn file (mutant `SyncSkipped`). `FitStays` then says no step changes the
contents of a fit inode, from which each step maps to one of `AtomicFile` or to a stutter (`StepIsPromised`).

**SiteStore** (any threads, sites, requests, reloads and edits by hand; assumes `SiteStoreAssumption`: ids are
positive and a file has each at most once, addresses are not the marks for "none" and "blank", and
no thread is called "free"). `SiteStoreTypes`, `SiteStoreDrift` (`DriftHasCause`), `SiteStoreReaders` (`QuietReadsWhole`),
`SiteStoreNamed` (`ToolHitsNamed`) and `SiteStoreReloads` (`ReloadKeepsSites`). `Slices` is the shape of the array at each step of
`slices.DeleteFunc`: sites with ids of their own except at the gap, blank cells behind the length. `Quiet` is what
an undisturbed reader has read and has still to read, which an `Add` keeps true as it writes behind the reader's
length or into a new array. `Loads` says that what a reload holds was in the file since it began, and is the
file's last contents unless it was overtaken; `Resting` what a thread that does nothing, or survived a restart, still has; `Borne` that whatever a call by name could still resolve to,
in the list, the records or its copy of them, bore the name since the call began.

**Supervisor** (any ceiling, any number of ends, hangs, toggles and builds). `SupervisorTypes`,
`SupervisorGaveUp` (`GaveUpSaysWhy`) and `SupervisorCleanStays` (`CleanStaysDown`). The invariant adds to `TypeOK` who can still
start a daemon: a probe only before the first one (`Probing`), a respawn only after a failure that
was handled (`Respawning`), and neither before both events of the last end are handled (`Ending`); and
the way of the reason: the one last given is heard, or about to be (`Heard`), and once the exit is handled
and no reason is to come, a service at its ceiling has said it (`Message`).

**Panel** (any sites, clicks, polls, changes and tries; assumes that the bounds are numbers and the
mark for "no id" is none). `PanelTypes`, `PanelKeepsAsk`
(`AskIsKept`) and `PanelRowsGoForCause` (`RowGoesForCause`). `AskIsKept` is inductive once nothing is queued behind a fetch
that does not run. For the other, the exit of a command has only `pendingRemoval` and a success to go by; `Waiting` says
that the id it holds is that of the removal under way, or the removal was refused.

**Left to TLC.** Everything under fairness (`RemovalSticks`, `EditReachesRow`, `WorkEnds`, `PassEnds`, `EndsUp`, `RemovedRowGoes`), as
liveness and `ENABLED` are out of the prover's reach. No module uses a RECURSIVE operator.

## 6. What is not modelled

Network I/O of the probes (their answers are inputs), formatting and text of alarms and reasons, the bearer
token and input validation, the panel's views, cursor, lists of alerts and
staleness probe, demo data, the tools and commands that only read or print, and `sentinel purge`, which
deletes the directory under a daemon that may be running. A second daemon is in `FileStore` (its sweep and its
writes) but not around the records: its prune and its save before it finds the port taken need `Monitor`
twice on one file. Concurrent access to the map
`Round.Last` (`monitor/state.go:386`) could end the process, which `Crash` covers. Two overlapping rounds may
count one blip twice (`api/server.go:496`): a property about it needs the time each probe was made.

## 7. Plan

Done: `SiteState`, `SiteHistory`, `Monitor`, `Evaluate`, `Watch`, `Engine`, `Handover`, `Delivery`, `AtomicFile`, `FileStore`,
`SiteStore` with the calls by name, `Supervisor`, `Panel`; proofs for all of them.

Next to model:

1. `Daemon`: start-up and shut-down order, and a second daemon that prunes and saves before it finds the
   port taken; composes the promise of `FileStore` with the load and prune of `Monitor` and `Engine`.
2. Probe times in `Monitor`, for overlapping rounds and answers applied out of order, and a property of what
   the rounds of a stopping daemon may leave in the file.

Abstract specifications worth stating: a list of sites that changes atomically (implemented by `SiteStore`
where nothing is removed), a journal of watches (implemented by `Engine`).

Theorems: the two abstract specifications above, step by step.
