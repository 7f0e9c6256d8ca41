# Hora in TLA+

Hora is a self-hosted uptime monitor: it probes monitors, records every check
in SQLite, confirms outages against an anti-flap threshold and other nodes,
groups the alerts of one cascade, tells people through notification channels
and shows a status page. This project models what decides what a person is
told or shown, and what keeps the data that says so: from a check through the
alert path to a delivered notification, and from the rows of the database
through roll-ups, caches and audiences to a page.

- [The system](#the-system): its parts, their state, what is hard
- [The modules](#the-modules): which module models which part, and how
- [The runs](#the-runs): what TLC checks, bounds, fairness
- [The proofs](#the-proofs): what TLAPS proves, from what, along which argument
- [Disagreements with the documentation](#disagreements-with-the-documentation)
- [What is abstracted and what is left out](#what-is-abstracted-and-what-is-left-out)
- [Plan](#plan)

Paths are relative to `crates/hora-core/src/` unless they start with `crates/`
or `docs/`.

## The system

One process (`crates/hora/src/serve.rs`) runs a Tokio runtime with these tasks.

| Part | State it keeps | Operations | What makes it correct |
|---|---|---|---|
| **Monitor loop** `scheduler.rs` `run`, one task per monitor | the task's `AlertState` (level, two counters, burn flags, local-only mark), the id of the open incident | tick: probe or judge, close the incident on an up check, mute, burn rate, down / degraded / recovery reaction; `confirm_down`, `reconfirm_local_down` | one incident and one announcement per outage, whatever is aborted, dies or fails; alerts and memory of them move together |
| **Supervisor** `supervisor.rs` | the running tasks, an `AlertCell` per monitor and peer, the last configuration text | start, reload with debounce, reconcile (abort, spawn, forget), reap panicked tasks, shutdown | exactly the configured tasks run, with the state of their predecessors |
| **Alert coalescer** `coalesce.rs`, one task | the queue of downs, covers (deadlines of causes), folded ids, local-only routing | receive a message, flush at the next deadline, drain at shutdown, dispatch | one notification per cascade; a recovery goes to whoever heard the down |
| **Incidents** `db/incidents.rs` | rows with start, end, cause, routing column | open, close, find the open one, routing, history queries, marks cache | a truthful history; restarts resume from it |
| **Peer mesh** `mesh/` | per-peer `AlertState`, the last view of each peer | watch a peer's heartbeats, quorum verdict, confirm a down with peers, send heartbeats, report `/healthz`, poll vantages | no false down behind a partition; a real one announced; only a witness quiets a down |
| **Probes** `probe/`, `connect.rs`, `exec.rs`, `http.rs` | none | http, dns, icmp, tcp, exec, with retries, redirects, both families, one deadline | an outcome is earned; headers and tokens stay at their origin; nothing is left running |
| **Heartbeats, checks** `heartbeat.rs`, `db/checks.rs` | rows per (monitor, second) | judge a push monitor against an interval or cron; insert a check, a push, a miss | a push wins over a miss of the same second; a late job is noticed, an early one counts once |
| **Retention** `db/retention.rs`, `maintenance.rs` | raw checks, hourly and daily aggregates, histograms, orphan marks | roll up, fill, prune in slices under a time budget; delete orphans after a grace | nothing is deleted before it is rolled up, nothing configured is swept |
| **History caches** `db/window.rs`, `db/aggregates.rs` | closed parts of windows, bars, sparklines | read through, extend, take away | no check twice or missed at a seam |
| **Figures** `slo.rs`, `report.rs`, `tune.rs`, `histogram.rs` | none | status, burn rates, budget, monthly report, advice, percentiles | whoever reads the same checks comes to the same |
| **Compaction** `db/compact.rs` | two lock files, a copy of the database | vacuum into, verify, swap | a crash at any rename leaves one whole database; no writer during a swap |
| **Dispatcher** `crates/hora-notify/src/lib.rs` | per-channel failure streaks | dispatch to routed channels, report a failing channel on the others | a failing channel is reported once per streak |
| **Backends** `crates/hora-notify/src/` | one counter | word, cut to size, send, retry | a notification arrives with everything the event says |
| **Watchers** `cert.rs`, `release.rs`, `updates.rs`, `digest.rs` | what was already warned of or sent | poll, warn or send once | nothing goes untold, nothing is told twice |
| **Operator's records** `announce.rs`, `silence.rs`, `timeline.rs` | announcements, silences, markers | validate, write, prune, merge | what was accepted holds until it expires or is cleared |
| **Status page and web** `crates/hora-web/` | snapshot, memo of views, flood slots | build in the background, derive a view per audience, push alerts, accept writes | current pages, of the configuration in force, that show each audience its own |
| **Configuration** `config/`, `topology.rs` | none | read, check each monitor and the whole, resolve | what is accepted means what it says; dependencies have no cycle |
| **`hora top`** `crates/hora/src/top/` | the dashboard's selection, fetches in flight | keys, ticks, fetches, writes | the screen is the server's, a write is the one meant |

How they interact. A monitor loop awaits its probe, the database, the peers'
answers, then sends an `AlertMsg` on an unbounded channel to the coalescer (no
`.await`). The coalescer awaits each dispatch before it reads on. A peer watch,
a watcher and a pushed alert dispatch themselves, without the coalescer. The
supervisor aborts a task at whatever `.await` it is suspended at and hands its
`AlertCell` to the next one. The pages read the database and the snapshot the
refresher last built; a write asks for a build and waits for it. A crash keeps
only SQLite; a graceful shutdown lets every loop finish its tick, then drains
the coalescer.

What is hard. (1) Every `.await` of a loop is a point where it can be aborted
or the process can die, with the incident, the cell and the alert at different
stages. (2) A restart rebuilds the loop from one incident row and the coalescer
from nothing. (3) In a cascade the dependents confirm before, while or after
their cause waits in the queue, and a recovery may race the deadline of its
own down. (4) Local-only downs are quiet, asked about again, and may escalate.
(5) Mutes and degradations stop a tick half-way through its state changes.
(6) Witnesses answer about different moments. (7) Roll-ups, prunes, late commits
and the reads of a page are statements of different tasks in any order, and any
of them may fail. (8) A build, a reload and a write overlap, and a memo may hold
what a reload has hidden. (9) Dispatches of several events share the streaks of
their channels. `PROJECT.json` lists each hazard at its line, with the
properties that would catch it going wrong.

## The modules

| Module | Models | Extends |
|---|---|---|
| `AlertState` | the anti-flap machine, `scheduler.rs` 22–118: pure operators | |
| `AlertMessages` | `AlertMsg` and the channel, `coalesce.rs` 37–76 | |
| `MonitorLoop` | `run` of every monitor, its `.await` points, incidents, cells, aborts and crashes | `AlertState`, `AlertMessages` |
| `AlertLedger` | **abstract**: what the loops promise the coalescer, one entry and one message per step | `AlertMessages` |
| `MonitorAlerts` | the loops with a coalescer that only reads; the refinement of `AlertLedger` | `MonitorLoop` |
| `Coalescer` | `coalesce.rs`: the pure `Coalescer` and the task that drives it | `AlertMessages` |
| `AlertPath` | `AlertLedger` + `Coalescer`: who hears what | both |
| `AlertPipeline` | `MonitorLoop` + `Coalescer` with graceful restarts | both |
| `PeerWatch` | `mesh/peer.rs` `spawn_watch`, `announce_verdict`, `confirm_down` | `AlertState` |
| `Supervisor` | `supervisor.rs`: `Fleet`, `reconcile`, the reload loop, the watcher | |
| `History` | probes' rows, roll-ups, prunes, orphan sweeps: `db/retention.rs`, `maintenance.rs` | |
| `HistoryReads` | the report's and the page's reads and their caches: `db/window.rs`, `db/aggregates.rs` | `History` |
| `StatusPage` | the refresher, the views and their memo, the writes, the incident-log cache: `crates/hora-web/src/snapshot.rs`, `cache.rs` | |
| `CertWatch`, `ReleaseWatch`, `DigestWatch`, `Heartbeat`, `Vantage` | one background task each: `cert.rs`, `release.rs` and `updates.rs`, `digest.rs`, `heartbeat.rs` with `db/checks.rs`, `mesh/vantage.rs` | |
| `Background` | the five, one per behaviour | all five |
| `Dispatcher` | flights over channels, streaks, the watchdog: `crates/hora-notify/src/lib.rs` | |
| `PushedAlerts` | the alert endpoint and its anti-flood window: `crates/hora-web/src/flood.rs` | `Dispatcher` |
| `Compaction` | `db/compact.rs` and the lock files | |
| `ConnectRace`, `ExecProbe`, `Probes` | the connect race of a TCP probe; a plugin's process group; requests, redirects, families and retries (`connect.rs`, `exec.rs`, `probe/`, `http.rs`) | |
| `PeerConfirm` | the question to the peers about a monitor that is down: `mesh/confirm.rs` | |
| `Topology`, `Configuration` | `topology.rs`; `config/` with its checks and defaults | |
| `Audiences` | who a request is and what each page or answer holds for it: `auth.rs`, `visibility.rs`, `summary/` | |
| `Annotations` | announcements, silences, markers, the timeline | |
| `Figures` | statuses, burn rates, report, advice, histograms | |
| `Deliveries` | a notification on its way through a backend: the event put into words, the words cut to what the channel's API takes, sent and retried: `crates/hora-notify/src/message.rs`, `util.rs` and the backends | |
| `Dashboard` | `hora top` | |
| `MCAlertPath`, `MCSupervisor`, `MCHistory`, `MCStatusPage`, `MCOnDemand` | the instances TLC explores: graphs, configurations, inputs | |
| `MonitorAlertsProofs`, `AlertPathProofs`, `PeerWatchProofs`, `SupervisorProofs`, `HistoryProofs`, `StatusPageProofs`, `BackgroundProofs`, `OnDemandProofs` | the theorems about `MonitorAlerts`, `AlertPath`, `PeerWatch`, `Supervisor`, `History`, `StatusPage`, `Background`, and the modules `MCOnDemand` composes; `StatusPageProofs` holds those about `Audiences` and `Dashboard` too | what they are about |

**Monitor loop.** `pc[m]` names the `.await` at which the task of `m` is
suspended; an action is the code from one `.await` to the next. `idle` is the
top of the loop, `close` the update of the incident on an up check, `burn` the
reads of `evaluate_burn`, `record` the insert of the incident, `ask` and
`reask` the questions to the peers, `route` the routing column, `announce` the
end of `confirm_down`, `tell` the dispatch of a degradation, `attach` and
`seed` the start of a task. Awaits that only read, or write rows no decision
here reads (the check itself, `down_context`), are part of the action they
lead to: an abort there is an abort at the point before. `state`,
`open_incident` and `tick` die with the task, `cell` with the process,
`incidents` with neither. The reactions (`ReactDown`, `ReactDegraded`,
`ReactUp`) are shared by the three actions that can end in them, a tick, a
close and a burn evaluation, as the code falls through to them.

`Statement(ok)` is a statement whose error is logged: the code goes on with
what it has, and so does the action. `Abort` and `Crash` choose whether the
statement the task was waiting for is executed.

**Coalescer.** `coalescer` holds the queue, the deadlines, the folded ids and
the routing; times are relative to now and stop at the last value a comparison
tells apart. The driver is a program counter over the loop of the task
(read or sleep, handle, flush, dispatch), so that a message can arrive and a
deadline pass while a notification is on its way. `Upstreams` is the transitive
closure the code computes from the configuration at each message. `heard[m]`,
a history variable, is which audiences (usual channels, quiet channels) have
heard of the present outage of `m`.

**Ledger.** The loops' side of that interface is `AlertLedger`: an entry per
monitor (`unknown`, `healthy`, `degraded`, `local`, `down`), and exactly one
message with each change that has one. `MonitorAlerts!KeepsLedger` maps the
entry to the alert cell, which is the claim of the comment on `AlertCell`: an
abort never separates an alert from the state that remembers it. The coalescer
is then checked against every behaviour of the ledger instead of every
behaviour of the loops, which is what makes three monitors feasible.

**Peer watch.** A watch is `idle`, `polling` its witnesses or `telling` the
channels. Each witness answers in its own time with the view it has at that
moment (`up`, `not up`, `unreachable`), which may change at any time; the
verdict is drawn when all have answered. With quorum off, or no witness, the
round is empty and the verdict is `confirmed`. A dispatch either reached the
channels or not when it is interrupted, and the level is saved after it.

**Supervisor.** `sup` is where `supervise` is; an action is the code up to the
next read of the file or of the shutdown signal, as the file and its watcher
do not wait for it: `Start` spawns the first tasks, `Remember` reads the text
later ones are compared with, `Watch` installs the watcher, `Receive`, `Settle`
and `Reload` are the debounced reload, `Check` and `Reap` the liveness check.
A text is a value and `Parsed` what `config::parse` makes of it, `Invalid`
included. A task is its spec, whether it lives, whether its receiver has
already seen the shutdown signal, and a bit that flips at each spawn, which
tells a task from its successor. An alert cell is absent, empty or seeded. One
`Fleet` is modelled: peers are reconciled by the same code from the same
configuration, right after the monitors and with no `.await` in between.

**History.** One action is one SQL statement, and what stands between two is
whatever the rest of the daemon does: a probe commits a check stamped up to
`CommitDelay` ago, a reload changes the configured set, a shutdown stops the
maintenance task, a crash takes the process. `raw`, `hourly` and `daily` are the
three tables, a bucket a count with the number of samples of its histogram;
`job` is the tick of the maintenance task, with the statement it is at;
`recorded`, `wiped` and `missing` are history variables. `Fails` is a statement
that returns an error: the code logs it and goes on. Time is in units; `Hour`,
`Day` and the retentions are the code's, scaled down, with the order between them
kept by `HistoryAssumption`.

**History reads.** `HistoryReads` adds the readers: the report (`daily_all`: hours,
days and live tail in separate statements), the 24 h figures (`WindowCache`), the
bars (`DailyCache`) and the sparklines (`SparklineCache`), whose closed parts are
kept from one read to the next. The reference is the set of all checks ever
committed.

**Status page.** A configuration has a text and a version, as two reloads of one
text are two `Arc`s. The refresher takes a generation, builds and publishes it;
`Request` derives a view for an audience from the published build and the
request's own configuration, through the memo; an operator's write asks for a
build and waits for one begun after it. `dirty` leaves out builds that would read
what the last one read. Three scenes, one per behaviour (incidents, writes,
requests), give each kind of event room.

**Background tasks.** The five share the database and the notifier but no row
and no state, so each initial state of `Background` picks the task that moves: a
property of one task is one of its own behaviours. Each module chooses what a
statement, a delivery or a lookup does, and where the process dies.

**On demand.** In the same way `MCOnDemand` composes what a daemon or a command
does when asked. `PushedAlerts` goes through `Dispatcher`, whose flights interleave
at each delivery, with reloads that rebuild the channels between two of them. In
`Compaction` a step is one call on the file system, and the process may die
before any. `ExecProbe` holds a process group through its timeout, the grace of
its output and the drop of its future. `PeerConfirm` gives each peer its probe, the
network its losses and both ends their deadlines. `Topology` is Kahn's algorithm
and the walk, a step each. `Configuration` reads one table at a time, then the
file. `Probes` follows one attempt per family through redirects and retries.
`Audiences` derives each answer from the builds and rules, field by field, with the
banners of planned maintenance; that these name private monitors to everyone is
stated apart, in `PrivateIsAbsent` (see "Met while modelling"). `Annotations` types
a line at a door, validates it against clock and tables, writes it later; its
timeline is read a table at a time between writes, and `steady`, a history variable,
keeps the moments that stood since it was asked for and that the limit of their
table did not leave out. `Figures` receives checks one at a time next to the loop's
state machine. `Deliveries` keeps of a text what it says, its length and the sort of
its characters (plain, four bytes wide, or escaped by markup), and cuts it by the
limits of each backend as they stand in the code. `Dashboard` interleaves keys,
timers, fetches and a server that changes.

## The runs

`tlc -workers 2 -config <cfg> <module>` in this directory. Distinct states
are of one complete exploration. A property that a theorem states may have no run
of its own: see [the proofs](#the-proofs).

### Passing runs

**loops** (`MonitorAlerts.cfg`, 40 345 states). One monitor with an SLO,
degraded alerts on, threshold 2, one failed statement, one abort, one crash.
Monitors share nothing in the loops but the inbox, so one is enough for what
these properties say of each; threshold 2 is the least at which a counter is
neither reset nor sufficient; one of each interruption lets any two of them
meet in one outage.
- `NoLeakedIncident`: an open incident no task will close costs a failed
  statement. Aborts between the insert and the assignment, and the
  re-attachment after them, are what could break it.
- `KeepsLedger`: the refinement of `AlertLedger`.
- `LastingIsAnnounced`: a lasting down or recovery is announced, for good, and as
  long as a down is local-only the peers are asked again and again. Stated for no
  crash from some point on and an outcome that stays.

**path** (`MCAlertPath.cfg`, 118 186 states). A chain of three monitors, every
message order the ledger allows, deadlines served up to one second late, quiet
channels configured, a process that may start in the middle of announced
outages. Three monitors are the least with a transitive cause, and with two
downs queued behind a third (`swap_remove` moves the last one). Window 1 and a
memory of 3 make "before", "at" and "after" each deadline distinct.
- `OutagesAreHeard`: with nothing in flight or queued about a monitor, its
  audiences know exactly what was decided; and no alert waits for ever, even
  while upstreams flap.
- `RecoveryReachesWhoeverHeard`, `OneDownPerOutage`: the head of
  `coalesce.rs`.

**ungrouped** (`Ungrouped.cfg`, 14 304 states). `group_window_secs = 0` and
degraded alerts on: `AnnouncedIsHeard`. The one run in which degradations go
through the path, and the boundary at which nothing may be queued.

**pipeline** (`AlertPipeline.cfg`, 755 714 states). Loops and coalescer
themselves for a monitor and its dependent, with one graceful restart:
`RootIsHeard`, the routing of an outage that is never folded, through the
incident column and back. Threshold 1 because the counters are the subject of
*loops*.

**peer_watch** (`PeerWatch.cfg`, 71 397 states). Two witnesses, so that they can
disagree, one abort and one crash, threshold 2, a grace of one second and a
tick per second.
- `VouchedIsNotDown`: a peer that one asked witness always sees up is never
  announced down.
- `EndsAreTold`: a peer gone for good, disowned by a witness and vouched for by
  none, is announced down, also after partitions, isolations and crashes; the end
  of an announced outage is announced, within one life of the watch.

**supervisor** (`MCSupervisor.cfg`, 374 006 states). Two monitors, so that one
can change while the other must not notice; a text that changes one, one that
removes it, one that is refused, and a file that may be missing; two edits,
which lets the second meet the debounce, the read or the reload of the first;
one panic; a channel of two signals instead of eight, so that it can be full.
Deadlock is not checked: after a shutdown the system stops.
- `RunsWhatIsConfigured`: exactly the configured tasks, with a cell each.
- `RequestsTakeEffect`: an edit of a watched file takes effect, though signals
  are drained and dropped, and every monitor is running again; a shutdown ends,
  also for a task spawned after the signal.

**history** (`MCHistory.cfg`, 2 439 822 states). One monitor: no statement of the
task compares two. An hour of 2 units, a day of 4, raw rows kept for 4, daily
buckets for 8, a grace of 4, a clock up to 9: one day's rows pass through all
three tables and out of the last. Two checks, which meet in an hour, in a day or in
neither; a commit up to one unit after its stamp, a slice that can run out of
time, two reloads, and failures of six statements (the three prunes, and the
sweep; the roll-ups are [disagreement 1](#met-while-modelling)). The readers stay
idle. Deadlock is not checked here or in *reads*: at `MaxTime` the clock stops.
- `NothingIsLost`: a check is in the raw rows, its hour or its day for a year.
- `SweptIsLongGone`: a sweep deletes an id's history only if every sweep for a
  grace found it missing.

**reads** (`MCHistoryReads.cfg`, 2 321 340 states). Two reads of any kind while two
checks are probed, rolled up and pruned, with nothing failing: a retention of 6,
daily buckets for 12, a window of 4, sparkline buckets of 2, bars over 8. Two
reads are the least at which the second extends what the first kept.
- `ReadsAreExact`: every check of the span is counted once, no other is.

**status_page** (`MCStatusPage.cfg`, 811 040 states). Two requests at once, up to
two reloads in a scene, two incidents, two writes, one fault (a build that
panics, a statement that fails, a wait that times out).
- `WriteIsShown`, `ViewIsOfItsConfig`: when a write returns its page shows it; a
  view is of its request's own configuration, whatever the memo holds.
- `OutageIsShown`, `EveryoneIsAnswered`: liveness of both sides.

**background** (`MCBackground.cfg`, 646 801 states). Each task with two or three of
what it watches and one or two faults.
- `CertificatesAreWatched`: neither an expiry nor a key that is not the pinned one
  goes untold.
- `VerdictIsEarned`: on time means every run that lapsed was answered, late that
  one was not; a push keeps its second.
- `ViewIsRecent`: what a page shows of a vantage is recent and of a peer that is
  there.
- `NewsIsTold`: a release, and what happened since the last digest, is told in the
  end.

**on_demand** (`MCOnDemand.cfg`, 1 928 862 states, one work per behaviour).
Deadlock is not checked: each work ends.

| Work | States | Bounds | Property |
|---|---|---|---|
| dispatches | 306 695 (with pushes) | two channels, one of which a reload adds or removes, three flights, a threshold of 2 and no watchdog | `AlarmsAreRight`: a failing channel is reported once per streak, at the threshold |
| pushes | | one key and requests without, a window of 2, a clock of 2, one fault, one reload | `OnePerWindow`: repeats of one key page once |
| compaction | 187 612 | 2 commits, 3 tries, 2 faults | `CommitsSurvive`: no acknowledged commit is lost |
| connect | 38 881 | up to three addresses of two families, a lookup of any length, a delay of 2, a timeout of 6 | `WorkingAddressWins`: one delay per address ahead in the alternation at most |
| exec | 1 458 | a timeout of 2, a grace of 1, a pipe of 1, an output of 3 | `NothingIsLeftRunning` |
| confirm | 101 900 | two peers, deadlines of 2, one change of what they see | `QuietedOnlyByAWitness` |
| topology | 28 290 | every graph of two or three monitors, which may name an id nobody has | `DependenciesAreOrdered` |
| config | 14 419 | files of one table, or whole files, that differ in up to two parts | `AcceptedMeansWhatItSays` |
| probe | 206 819 | one redirect, one retry, a timeout of 2 | `OutcomeIsEarned`, `SecretsStayHome` |
| pages | 353 113 | four sites, one of them without maintenance and one with some for all, a scan of 5, a log of 1, two news | `AudiencesSeeTheirOwn`: cards, logs and annotations by what the tokens entitle to, badges by what is shown, a group's banners by what its page shows |
| annotations | 388 657 | a day of 3 minutes, 4 minutes, 2 lines, 2 outages | `AnnotationsAreKept`, `TimelineIsWhole` |
| figures | 41 308 | 7 checks, thresholds 1 to 3, a day of 2, a month of 4; histograms of 4 samples | `ChecksAreReadAlike`, `FiguresAreHonest` |
| deliveries | 66 190 | the code's limits, texts of three sorts, a fixed phrase of 10, 3 attempts, two flights | `NoticesArriveWhole` |
| dashboard | 193 520 | three lists of monitors, one reload, two writes | `ScreenIsTrue` |

### Runs that end in a violation

**skipped_run** (`SkippedRun.cfg`): `NoRunIsSkipped`, a sentence of a comment: see
[below](#disagreements-with-the-documentation).

### Fairness

- Loops: `WF(Step(m))`, since the runtime polls a task that is ready and every
  request and statement has a deadline (client timeouts, SQLite's busy
  timeout). `SF(Step(m) /\ pc'[m] = "reask")`: `reask_due` compares with a
  clock that always advances, so a loop that keeps ticking over a local-only
  down comes due again and again; the clock itself is not modelled.
- Coalescer: `WF(Drives)`, `WF(Advances)`: the task runs and time passes.
- Peer watch: `WF(Work)`, `WF(Advance)`, for the same reasons (witness polls
  have `WITNESS_TIMEOUT`).
- Supervisor: `WF(Supervise)`, `WF(Finish(m))`, `WF(Notify)`: the runtime and
  the watcher's thread run. `SF(Receive)`, `SF(Check)`: `select!` picks among its
  ready branches at random, so a branch that is ready again and again is taken.
- Background: `WF` of each task's own steps and of the digest's clock. `SF(Look)`,
  `SF(LookUpdates)`, `SF(Ages)`: between two passes the module may take either
  one or let the stored answers grow old; the code's loops and the clock take each
  of them again and again.
- Status page: `WF(Refresh)`, `WF(Ask \/ Shown \/ Answer)`, `WF(Request(r))`: the
  refresher and the handlers are tasks of the runtime.
- History, its reads and everything on demand: none.
- Nothing is assumed of outcomes, mutes, peers, witnesses, aborts, crashes or
  failing statements; liveness is conditional on what stays true instead.

## The proofs

`tlapm <module>` in this directory, eight modules of proofs. They assume only the
named assumptions on the constants, which TLC evaluates on the runs: a threshold
of at least 1, bounds that are natural numbers, a retention that outlasts the
lag of its roll-up, inputs that are records of the fields the code parses, and the like. Sets of monitors, channels, witnesses,
commands, keys and files are arbitrary, and may be infinite unless the code needs
them finite (the graph of `Topology`).

| Theorem | States |
|---|---|
| `LoopInvariant`, `TypeCorrect` | `LoopInv`, `LoopTypeOK` are invariants of the loops |
| `IncidentsAreHeld` | `[]NoLeakedIncident` |
| `CellFollowsTask` | `[]CellIsLastSettled`: the cell never holds half a tick |
| `RecordedFirst` | `DownIsRecordedFirst`: the incident is open before the alert is sent |
| `Refinement` | `KeepsLedger`: the loops implement `AlertLedger` |
| `RoutesInvariant`, `LooseInvariant` | `RoutesInv` (without `alert_on_degraded`, which is the default) and `LooseInv` (with or without) are invariants of the alert path |
| `RecoveryGoesToWhoeverHeard` | `RecoveryReachesWhoeverHeard`, without `alert_on_degraded` |
| `OutagesAreToldOnce` | `OneDownPerOutage`, without `alert_on_degraded` |
| `SettledOutagesAreHeard` | `[]SettledIsHeard`, without `alert_on_degraded` |
| `AnnouncedOutagesAreHeard` | `[]AnnouncedIsHeard` |
| `WatchInvariant`, `WatchTypeCorrect` | `WatchInv`, `PeerTypeOK` are invariants of a watch |
| `VouchedNeverDown` | `VouchedIsNotDown` |
| `RepeatsArePaidFor` | `[]RepeatsAreInterruptions`: each repeated down is paid for by an abort or a crash of its own |
| `FleetInvariant`, `SupervisorTypeCorrect` | `FleetInv`, `SupervisorTypeOK` are invariants of the supervisor |
| `FleetIsConfigured` | `[]RunsWhatIsConfigured` |
| `TouchesOnlyChanged` | `UnchangedKeepsRunning`: a reload or a liveness check interrupts no task whose spec is unchanged |
| `StatesOutliveTasks` | `StateOutlivesTasks`: a cell is lost only with its id |
| `HistoryInvariant`, `SweepInvariant` | `HistoryInv`, `SweepInv` are invariants of the history |
| `ChecksAreKept` | `[]NothingIsLost`, if no tick prunes on the strength of a roll-up that failed |
| `SweptAreMarked` | `SweptIsLongGone` |
| `WritesInvariant`, `WritesAreShown` | `[]WriteIsShown` |
| `ViewsInvariant`, `ViewsAreOfTheirConfig` | `[]ViewIsOfItsConfig` |
| `DispatchInvariant`, `AlarmsInOrder` | `[]AlarmsAreRight`, from `DispatchInv` under dispatches of any origin |
| `FloodInvariant`, `RepeatsPageOnce` | `[]OnePerWindow` |
| `CompactionInvariant`, `EveryCommitSurvives` | `[]CommitsSurvive` |
| `OriginalStaysInPlace`, `WalFollowsItsFile` | the database is at its path at every moment, `--keep`'s renames apart; no WAL lies beside a file it was not written for |
| `ExecInvariant`, `NothingOutlivesItsProbe` | `[]NothingIsLeftRunning` |
| `ChattyIsNotLate` | a plugin that ends by itself is judged by its exit code, however much it writes |
| `ConfirmInvariant`, `WitnessQuiets` | `[]QuietedOnlyByAWitness` |
| `TopologyInvariant`, `DependenciesInOrder` | `[]DependenciesAreOrdered` |
| `AcceptedHasNoCycle` | every set of monitors of an accepted graph has one that depends on none of the set |
| `ProbesInvariant`, `OutcomesAreEarned` | `[]OutcomeIsEarned` |
| `HeadersStayHome` | `[]SecretsStayHome` |
| `VantageInvariant`, `ViewsAreRecent` | `[]ViewIsRecent` |
| `HeartbeatInvariant`, `VerdictsAreEarned` | `[]VerdictIsEarned` |
| `RoguesAreReported` | the pin's half of `CertificatesAreWatched` |
| `NoticesArriveWholeHolds` | `[]NoticesArriveWhole` |
| `AcceptedMeansWhatItSaysHolds` | `[]AcceptedMeansWhatItSays` |
| `AnnotationsAreKeptHolds`, `TimelineIsWholeHolds` | `[]AnnotationsAreKept`, `[]TimelineIsWhole` |
| `WorkingAddressWinsHolds` | `[]WorkingAddressWins` |
| `AudiencesSeeTheirOwnHolds` | `[]AudiencesSeeTheirOwn`, which leaves the names on maintenance banners aside |
| `ScreenIsTrueHolds` | `ScreenIsTrue` |

**Loops.** None of the invariants is inductive: what an `.await` may assume of
the level and of the incident was established by the guard before it. `LoopInv`
adds `AwaitInv`, one conjunct per such fact: a task about to record or ask has
not announced the down; a task about to route holds an incident that is open; a
task that asks again has a local-only down; a task at `announce` holds its
incident or a statement failed. Interruptions take a task to `attach`, where
nothing but the bound on the incidents is assumed. `Stopped` and `Tells`
summarise where a tick may end and what it tells, so that the actions `Tick`,
`Close` and `Burn`, which share the reactions, share their proof. `Refinement`
then follows action by action from `LoopInv`; `RecordedFirst` from the fact that
no other action than `Announce` appends a down (`StepTellsNoDown`), and that an
appended message determines its sender.

**Alert path.** The ledger runs ahead of the coalescer by the unread messages, the
channels lag behind it by the outbox and the queue. `Course` says how the messages
of a monitor lead from the entry they start from (`e[0]`) to the entry of the ledger,
one entry per message; `Known` says, per entry, what the machine's routing, its queue
and folds, and the audiences once the outbox is empty (`Told`) must be. `RoutesInv`
puts the two together for every monitor, with `Tidy` (a monitor is queued once, and
queued or folded) and `IsNews` (what is in the outbox is news to whom it is for), from
which both properties of a dispatch follow. An announcement extends the course
(`CourseAppend`), a message read shortens it (`CourseTail`) and moves what is known
of its monitor only (`HandleKeeps`), a dispatch moves from the outbox to the channels
what `Told` counts anyway (`DispatchKeeps`). A flush is a recursive function over the
length of the queue: `FlushIs` shows, without induction, that its result is one of
the machines its turns keep to (`Released`), by a minimal counterexample among the numbers
of turns. With `alert_on_degraded`, a degradation moves the ledger without a message
and `Known` is false (a second down is queued beside the first, an audience is told
twice: that is what `EndIsHeardByAll` is violated by); `LooseInv` is what remains,
the lower bound on who heard that `AnnouncedIsHeard` needs.

**Peer watch.** `WatchInv` says the cell's level is the task's, and adds a debt:
one when the channels know of a down that the cell does not. An interruption
leaves at most one behind and pays one; a repeated down needs one and settles
it. `VouchedNeverDown` is an invariant under a hypothesis that always holds:
while the witness's view is up, its answer is none or up, so the verdict is a
partition and no down is on its way.

**Supervisor.** `FleetInv` says that the fleet fits the configuration from the
first reconcile to the shutdown, and that before it no task exists.
`ReconcileFits` is the lemma the three reconciles share: whatever tasks it
starts from, a reconcile with a configuration makes the fleet fit it.
`TouchesOnlyChanged` needs the invariant: a reload compares specs with specs of
tasks, and only because a task's spec is the one in force does that compare two
configurations.

**History.** What must not happen is one thing, a statement that deletes a row or
a bucket whose next summary is not there; why it does not is spread over a
whole tick and over what was committed before it. `HistoryInv` says, of the clock
(`ClockHolds`), that a check waits for its commit no longer than `CommitDelay`; of
the tables (`BucketsArePast`, `RowsAreRolled`), which hours and days are closed
and that a row that may be pruned is in its hour; of the tick (`TickHolds`), what
the statements before the present one have made sure of. `Shrinks` is the lemma
that the statements which only delete share. The roll-ups keep the buckets whole
(`RollUpKeeps`, `RollDaysKeeps`), a commit is too young for a closed bucket
(`CommitKeeps`). The proviso of `ChecksAreKept` is
`PrunesFollowRollUps == [][~(Fails /\ ReliedOn)]_history`: without it the invariant is
false, see [disagreement 1](#met-while-modelling); every other statement may fail
at any time, and the process may die at any time. `SweepInv` says that a mark is as
old as the sweeps that found its id missing without a break (`MarksAreEarned`), and
that the sweep under way compares marks with its own start. Lemmas on `\div`
(`SpansNest`: an hour is in one day) come first; the quotients stay hidden after
them, which keeps the arithmetic linear.

**Dispatches and pushes.** `AlarmsInOrder` is proved of `AnySpec`, where the flights
may come from anywhere, and `PushSpec` implements that. `DispatchInv` says of each
channel that its health is what its history says (`Right`): the streak counted, the
alarm latched once and only at the threshold, a recovery noticed. `FloodInv` says
that the slot of a key stands, with the end of its window, as long as no request of
another key has pruned it; `OneOpens` then says that two requests that open one
window are the same.

**Compaction.** Who holds which lock (`LocksHold`), whose WAL lies where
(`WalHolds`) and what the copy contains (`CopyHolds`) at each program counter of each
command; that a commit survives follows. `WalFollowsItsFile` is what makes a
rename safe.

**Exec, confirm.** `ExecInv` says that the group is held from the spawn to the end
(`GroupIsHeld`) and that a group whose leader ended is only waited for within the
grace. `ConfirmInv` says where an answer comes from (`AnswerIsTheirs`), through
losses and late answers.

**Topology.** No theorem by induction over an operator is available to these provers,
so minimal counterexamples stand in for induction: `MinimalSubset`, for a finite set
with a property, gives a subset with the property whose proper subsets have it
not, because the strict subsets of a finite set are well-founded; `UpstreamIsClosed`,
`UpstreamIsLeast` and `LoopIsAKnot` say what the transitive closure is, and
`StuckIsCyclic` that what Kahn's algorithm cannot sort has a cycle.
`TopologyInv` follows the queue: what is sorted, what is untied, what is left.

**Status page.** `WritesInv` numbers the builds: the generation published is never
ahead of the one served, a build holds at least the writes committed when it began,
and a write waits for a generation no build had begun when it was committed; at the
answer the three give `WriteIsShown`. `ViewsInv` is about names: a version stands for
one configuration among the present one, those the requests took and those the views
were derived under. A request may outlive many reloads, so the invariant ranges over
all of them, and a memo may hold views of several versions at once.

**Probes.** `ProbesInv` says of each attempt that it is spoilt by nothing while it is
under way, that it is at a server the redirects may lead to (`KeepsHome`), and that
once over its outcome is up exactly if what it met was what was asked. From an https
start every hop is https; the client's hops are at its origin; the headers
are put on at the send, from where the attempt is.

**Background.** These theorems are about `Background`'s own specification.
`VantageInv` relates what is kept of a peer to what it answered last and to the
rounds since; `HeartbeatInv` relates a row to the pushes and misses that made it,
and the deadline to when the monitor was first watched; `CronDueIsRight` is the
judgement itself, for any set of runs. `CertInv` says that a stored key was either
the pinned one or reported.

**Deliveries.** The limits are facts about texts: lemmas say what a cut text measures
(`Truncate`), what `Fit` leaves of a title and of lines, and what a backend's
rendering adds, escapes included; so every backend's request is within its API's
limits for every event, and what it shows is the beginning of what the event says, with
only its last piece cut and nothing cut that would have fitted.
`DeliveryInv` adds the state: where each flight is (`FlightInv`), and that the service
stores no more than was sent and, where the service knows transactions, that no two
notifications share one (`TransactionInv`), without which one notification could be
taken for a retry of another.

**Configuration.** `ConfigInv` says that each table read so far passed the rules, and
that its monitor and its warnings are what it comes to. `TablesAreRead` takes from it
what a table that passed satisfies; `DroppedIsSaid` goes through the settings of each
kind of monitor, `FitIsBuilt` through the rules of a table that fits. What the file as
a whole promises (rows, confirmations, tokens, objectives) is at its last check.

**Operator's records.** `AnnotationInv` says of each table what put its rows there
(`PinsInv`, `MarksInv`, `OutagesInv`, `MutesInv`) and of the door at work
(`DeskInv`) what the validation established that still holds when the write comes:
the clock moved in between, and rows may have gone. The timeline needs an order of the
moments: `InOrder` and `LatestIsWhole` say, with a count of positions instead of an
induction, that the first `ShowLimit` of a sorted sequence are the newest. `TimelineInv`
then follows the reader: what it has of the tables read, and what stands in the others,
contain every steady moment.

**Audiences.** An answer is a filter of a sequence: `AtPlaces` states a filter as a
strictly growing choice of places, which is what order and limits follow from without an
induction. `Entitled` says what the tokens of a request give; the answer to each kind of
page is shown to hold, field by field, only that (`Honest`), under the configuration
the request goes by. Banners of maintenance are not among those fields: the code gives
them to every audience, and only the page of a group is shown to announce no more than
what touches it (`HearsItsOwn`). `AudienceInv` adds that only an answered request has
an answer.

**Connect.** The queue is what alternating the families makes of the resolver's list;
`Ahead` counts, in each family, what the promise allows before an address, and a lemma
says that this is its place in the queue (`OutBefore`), for any list. `RaceInv` follows
places: the queue holds what comes out after those begun (`QueueInv`), an attempt that
will be accepted is not given up while the race runs (`KeptInv`), and the address at a
place began, or will begin, after at most as many delays as there are places before it
(`BegunInTime`, `NextIsInTime`), counted from the answer of the lookup, which may take any
part of the timeout. `EndsInv` is what a race that ended without a connection says of
the addresses it had.

**Dashboard.** `StepsAre` reduces the keys, the timers and the answers to five kinds of
steps on tasks, results and writes. `VersionsInv`: there is at most one fetch of the
summary, so what it brings is never older than what is shown. `MeantInv`: the writes
done are some of those handed over, in their order, the one under way is the last of
them and not done yet. `SparkIsOfTheSelected` is inductive by itself.

Only model-checked: liveness and anything with ENABLED (outside this prover);
`ReadsAreExact`, `ChecksAreReadAlike` and `FiguresAreHonest` (what a fold or a recursive
definition computes of rows, checks and samples, which needs induction over data); and,
so far, the pipeline's `RootIsHeard`.

## Disagreements with the documentation

**skipped_run**. A heartbeat slightly early for a run counts for that run, with an
allowance "capped at half the gap between runs so a frequent schedule can never skip a
real run this way" (`heartbeat.rs:141`). The code takes half of the gap that follows the
run (`heartbeat.rs:155`). On a schedule whose gaps differ, the allowance before a
long gap reaches past the middle of a short one: the heartbeat of one run counts for
the next as well, which is then never judged missed. TLC exhibits it with runs at
1, 3 and 7 and a grace of 2.

### Met while modelling

Seven have a property in their module that TLC violates under the constants given:

| The text | The code | Where TLC shows it |
|---|---|---|
| Hora "sends the recovery only if it sent the down" (`docs/src/content/docs/concepts.md:169`) | which downs were folded is lost in a restart; the incident resumes as announced (`scheduler.rs:78`) and its recovery is sent | `NoUnannouncedRecovery`, `AlertPipeline` with `QuietChannel = FALSE` |
| "A recovery goes to whoever received a down" (`coalesce.rs:22`) | a local-only down after a degradation overwrites the routing of the usual one (`coalesce.rs:135`) | `EndIsHeardByAll`, `MCAlertPath` with one monitor, `Window = 1` and `AlertOnDegraded` |
| "On SIGHUP or a change to the config file, the file is re-read and the running monitor tasks are reconciled" (`supervisor.rs:4`) | the text a reload compares with is read after the configuration was loaded (`supervisor.rs:202`): an edit in between counts as applied, and SIGHUP finds it unchanged | `HangupReloads`, `MCSupervisor` with one id, `Capacity = 1`, `MaxEdits = 1`, `MaxPanics = 0` |
| "an abort … can at worst repeat an alert whose delivery it interrupted, never lose one" (`scheduler.rs:128`) | a peer's event is dispatched before its level is saved (`mesh/peer.rs:306`): a recovery delivered as the watch is aborted loses the next down | `DownIsToldAfterAborts`, `PeerWatch` with one witness, `MaxCrashes = 0` |
| "Its alert state survives a config edit or a restart: no repeated down, no lost recovery." (`docs/src/content/docs/guides/peers.md:63`) | a peer has no incident to resume from (`mesh/peer.rs:268`): a restart during its outage loses the recovery | `RecoveryIsToldAfterRestarts`, `PeerWatch` with one crash |
| "Every confirmed down/up transition is recorded automatically" (`docs/src/content/docs/guides/incidents.md:6`) | an up tick that is muted, or only degraded, closes the incident and leaves the level Down (`scheduler.rs:307`, `311`); the next outage is not new and gets no record | `OutageIsRecorded`, `MonitorAlerts` without faults, SLOs or degraded alerts |
| "Without the token, a private monitor is absent everywhere: page, API, badges, history and feed." (`docs/src/content/docs/guides/status-page.md:98`) | the banners of planned maintenance name the monitors a window covers, whoever they are (`crates/hora-web/src/summary/mod.rs:448`), and are cloned into the view of every audience (`summary/mod.rs:378`) | `PrivateIsAbsent`, `MCOnDemand` as it is |

The others, by subject. History:
1. a daily downsample (or an hourly roll-up) that fails does not stop the tick: the
   prunes after it delete what is not summed up yet, though the comment says that "only
   hours already rolled up into a *complete* daily bucket are dropped"
   (`db/retention.rs:285`);
2. `retention_days = 0` is accepted; with a retention of about a day the 24 h cache
   may miss that rows it counted are pruned;
3. an orphan wipe that runs out of time has deleted the mark already: what is left
   waits for a fresh grace;
4. an id restored and removed again between two sweeps keeps its old mark;
5. an incident id can be reused (`0006_incidents.sql:3` without AUTOINCREMENT), while the
   log's cache reads `WHERE id > ?`; `annotate last` may then mean another;
6. `hora compact --keep` dies between its renames: no database is at its path;
7. `hora backup` takes neither lock; an old WAL may lie beside the new file until
   the sidecars are removed (`db/compact.rs:342`). Power loss is not modelled.

Alerts and channels:

8. a pushed alert that was lost still coalesces its repeats (`flood.rs:23`); and a
   request of another key, stamped after a window closed, prunes a slot that a request
   stamped just before, and held up on its way to the mutex, would have found open:
   the exception `OnePerWindow` states;
9. a dispatch in flight puts back the health of a channel a reload removed
   (`crates/hora-notify/src/lib.rs:294`); the watchdog's alert is latched also when its own
   delivery failed;
10. a key is stored apart from the pin it was judged against; a crash in between and a
   change of the pin let a key that does not match pass without a word;
11. a digest is sent again after a crash between dispatch and store; a failed read of
   `digest_last_sent` is taken for a first run and drops a digest that is due
   (`digest.rs:21`);
12. a release is told again after a crash between dispatch and mark; a failed upsert
   after the project changed marks the old project's row;
13. what `retain_monitors` leaves in the queue: the down of a monitor removed while it
   waited is still sent; with degraded alerts a monitor can have two downs queued
   (`coalesce.rs:148`);
14. the `select!` of the coalescer may take the shutdown before messages already
   sent, which are then lost (`coalesce.rs:328`);
15. a crash between the insert of an incident and its alert loses the down: the
   restart takes it for announced (`scheduler.rs:241`); one between the routing
   column of a confirmation and its alert tells the restarted coalescer that the usual
   channels heard it (`scheduler.rs:558`);
16. a partition that turns into an isolation and back is reported twice, and its end is
   not reported (`mesh/peer.rs:376`; `scheduler.rs:31` says "reported once");
17. a line that a backend drops whole leaves no ellipsis; where the limit is in bytes, a
   cut headline may be followed by a bare character; FreeMobile's limits add up to more
   than its three parts.

Peers and probes:

18. the poller keeps views by a peer's display name, which need not be unique;
19. both ends of a peer's probe have the same deadline, so the answer "timed out at this
   vantage" always comes too late;
20. a plugin's helper that called `setsid` and holds the pipes, or a pid that was used
   again, is out of the group's reach (`exec.rs:109`); a drop during the grace kills by an
   id whose leader was already reaped;
21. an expected TXT value with a comma in another order, or a value with a trailing dot,
   never matches; a dns target with a port or a path is accepted though the message
   says it "must be a hostname"; the target of a push monitor is dropped without a warning.

Figures and pages:

22. `round_up_nice` rounds 1840 ms to 1900, where its comment says 2000 (`tune.rs:185`);
   `tune.rs` counts an alert for each run of failures though, with degraded alerts, a
   degraded check between two leaves the loop's level Down;
23. the report's window counts days from `covered_end - start` while what is consumed
   counts minutes; `fmt::basis_points` rounds, so that "SLO met" may stand beside a
   budget consumed by half a basis point more;
24. a monitor whose down stands announced is shown as degraded after one slow check
   with degraded alerts, or after a reload that raises its threshold;
25. a group's page announces a window that touches it with every monitor the window
   covers, those of other groups included; it filters its incidents from the whole
   page's three; the wrong bearer with the right `?token=` is the operator but no
   group's viewer; a group's token opens the group's page and not its incidents' pages;
26. a monitor's page lists the incidents that started within its span, so an older one
   still open is not there; the timeline reads the newest 500 by start, so the recovery
   of an older one is missed, and of one second the down comes first;
27. `hora top` shows the sparkline of a monitor that disappeared until the next answer;
   a refresh ignores the cooldown of a 429, and may be swallowed by a fetch that began
   before a write;
28. a reload calls `config::parse` (`supervisor.rs:249`), which does not read the images
   that `load_from` reads (`config/mod.rs:542`): the `[page]` logo is gone after any
   reload, though the status page guide says to "save the config to reload it"
   (`docs/src/content/docs/guides/status-page.md:209`), and saving the same text is
   skipped as unchanged.

## What is abstracted and what is left out

- **The configuration is fixed outside `Supervisor`.** In the modules of the
  alert path `retain_monitors` is the identity, and an edit is an abort that
  changes nothing else. `History`, `StatusPage`, `Dispatcher` and `Vantage` have reloads
  of their own.
- **The supervisor's notifiers** are rebuilt with each configuration it applies;
  probe clients, which a bad proxy can refuse, are always found; `tx.send` always
  succeeds, as the supervisor holds a receiver. The aborted task is gone at once
  (see below). `serve` waits five seconds for the shutdown that `StopCompletes`
  is about. `supervise` awaits the coalescer after its fleets: that part of a shutdown
  is in `Coalescer`.
- **An abandoned statement runs before the next task starts, or never.** sqlx
  runs statements on connection workers, one of which might execute it later:
  a real possibility the model excludes (`supervisor.rs:68`).
- **`abort()` takes effect at once**, as it does at the next `.await`; the code
  in between is part of the action that precedes it.
- **Counters saturate at the threshold**, as only comparisons with it matter.
  The threshold is at least 1, as `max(1)` makes it.
- **In the alert path a channel hears what is dispatched to it.** Whether it is
  delivered is `Dispatcher`'s question, in which words and after how many tries
  `Deliveries`'; quiet channels are configured or not (`QuietChannel`).
- **Inputs**: the outcome of a probe, whether a mute applies, the burn
  windows, the peers' answer about a down. They are chosen freely at each tick.
- **The pipeline restarts gracefully**, with nothing under way. A crash anywhere
  is in *loops* and in *peer_watch*; in the pipeline it would lose unread
  messages, which the design accepts.
- **Bounds**: `MaxFailures`, `MaxAborts`, `MaxCrashes` (interruptions),
  `MaxInbox` (unread messages), `MaxLate` (how late a deadline is served),
  `Window` and `CauseMemory` in abstract seconds. The theorems hold for every
  value of the bounds they mention.

- **Independent parts are explored apart.** `Background` and `MCOnDemand` pick the task
  or the work that moves in the initial state: none reads what another writes.
- **Scaled constants.** Hours, days, retentions, limits of lists, bits of a histogram are
  small numbers in the order of the real ones; where a proof needs the order it is an
  assumption.
- **A histogram is the number of its samples** in `History`, its buckets in `Figures`.

Not modelled, and why: HTML, SVG, Atom and the wording of pages, reports and messages
(strings made of what the modules hold, without state); TLS handshakes, STARTTLS, the
proxy tunnel, RDAP and the protocols of the probes (network I/O, whose results are
inputs); TOML and durations (parsers of a library, or of a field that has a syntax);
`import`, `doctor` and the rest of the command line (one-shot, without state of their own);
the redaction of secrets in logs (strings).

## Plan

What is left, in this order:

1. A proof of the pipeline's `RootIsHeard`, from the invariants of the loops and of the
   alert path.
2. `HoursAreComplete` and `DaysAreComplete` of `History`: a bucket counts all of its checks.
3. `Supervisor` composed with `Coalescer`: `retain_monitors`, so that a removed id leaves
   nothing behind and a re-added one starts afresh.
