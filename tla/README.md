# windows-system-monitor in TLA+

This directory models the program in `../src`: a Windows service that collects
system metrics, writes them to PostgreSQL, keeps them in a local spool while
PostgreSQL is away, and serves a dashboard. The models are checked with TLC on
small instances and the central results are proved with TLAPS for every value of
the constants. Line numbers refer to the files under `src/go/`.

## 1. Inventory

One executable, `system-monitor.exe` (`cmd/monitor/main.go`), runs in several
modes. As installed, two scheduled tasks run it at boot: the collector loop and
the dashboard (`--serve`); Windows restarts a task that dies and starts no second
instance of it. A daily task runs `--retention`.

| Component | State it keeps | Operations |
|---|---|---|
| Scheduler, `main.go` `runLoop` 170-263 | `lastRun`, `slowBusy`, the semaphore `sem`, `done`, goroutines | tick, start a collector inline or in a goroutine, stop on a signal |
| Write path, `internal/db/db.go` 110-206 | none of its own: the pool and the spool | `InsertBatch`, `InsertHeartbeat`, `ReplayPending` |
| Spool, `internal/spool/spool.go` | SQLite table `batches(id, ..., size_bytes)`, `maxBytes` | `New`, `Enqueue`, `Replay`, `Status`, `Close` |
| Modes, `main.go` 24-168, 308-356 | HTTP server, pool, spool | `runLoop`, `runServe` or both with their shutdown; `runOnce`, `runDry` |
| Retention, `db.go` 297-369, `main.go` 358-395 | rows of the ten retained tables | count (dry run), delete in batches |
| Schema, `db.go` 208-294, `schema.sql` | database and schema | `EnsureSchema`, `InitDatabase` |
| Heartbeat, `db.go` 195-206, `schema.sql` 266-333 | `monitor.heartbeat`, `v_last_heartbeat` | one row per collector run |
| Configuration, `internal/config/config.go` | `Settings`, read once | `Load`: environment, `config.toml`, defaults |
| Dashboard queries, `internal/dashboard/queries.go` | none | windowed and differenced queries |
| Power, `internal/dashboard/power.go` | none | source choice, carry-forward, energy integration |
| Handlers, `internal/dashboard/handler.go` | none | check of the window, ten seconds, status |
| Page, `internal/dashboard/static/app.js` | selection (also in localStorage), timer, `_updating` | updates, tabs, switches, selects |
| Collectors, `internal/collectors` | none between runs | read the system, return rows |
| lhm-dump, installer, scripts | none | sensor dump, deployment |

How they interact. The loop ticks every second: it first calls `ReplayPending`,
then walks the collectors in random (map) order and runs those that are due.
Fast collectors run inline; `services` and `processes` run in goroutines, which
call `InsertBatch` concurrently with the loop's own inserts and with its Replay.
`InsertBatch` copies into PostgreSQL and, on any error, enqueues into the spool;
every collector run ends with a heartbeat row that takes the same way. The
dashboard process opens the same spool file, but only reads its status; that it
is the same file depends on both finding the same `config.toml`. A `--once` run
may enqueue into it while the service runs. The page asks the handlers on a timer
it sets again after each update; each answer is one or more queries over the rows
the collectors wrote, late and repeated ones included.

What is hard. PostgreSQL may go away at any statement, and may commit a COPY
whose answer is lost; the process may be killed between any two statements;
goroutines enqueue and evict while Replay works on a snapshot it read outside its
transaction; SQLite ids are reused; one failed write rolls back the deletes of
earlier ones; the goroutine clears its busy flag before it frees the semaphore;
a stop closes pools and spool under runs and requests in flight; rows come late,
twice or between two queries; the page's callbacks of several generations overlap.
`PROJECT.json` lists these hazards with their lines and the properties on them.

What makes each component correct:

- write path and spool: no batch reported stored or buffered is lost other than
  by the size limit; batches leave oldest first; an Enqueue restores the limit and
  evicts no more than it must; what is buffered is sent once PostgreSQL is back;
- scheduler: every collector with an interval runs, a slow one never twice at a
  time and never in the way of the others; a signal ends the loop;
- heartbeat: the view shows the latest run; retention: what it reports is what
  it deleted, and a run leaves nothing it found old;
- modes: a signal ends the process and cuts no statement in the middle;
- configuration: one precedence, usable values, one spool for both processes;
- queries and power: nothing shown that did not happen (traffic, rates, covered
  time), and the parts of an energy sum to the whole;
- page: one timer while it is wanted, and in the end what is selected.

## 2. Modules

| Module | Contents |
|---|---|
| `WritePath` | `InsertBatch` and `Replay` of all goroutines over the spool table, PostgreSQL and restarts; the properties |
| `BatchQueue` | abstract: an at-least-once queue emptied from its oldest |
| `WritePathRefinement` | the mapping from `WritePath` to `BatchQueue` |
| `WritePathProofs` | the theorems about `WritePath` |
| `Scheduler` | `runLoop` with its goroutines, semaphore and signal; the properties |
| `SchedulerProofs` | the theorems about `Scheduler` and `Lifecycle` |
| `Heartbeat` | composes `WritePath` with the times heartbeat rows get and the view over them |
| `HeartbeatProofs` | the theorems about `Heartbeat` |
| `Retention` | `RunRetention` of several processes over the rows of its tables |
| `RetentionProofs` | the theorems about `Retention` |
| `Lifecycle` | composes `Scheduler` with the writes of its goroutines, `Store.Close` and `runServe` |
| `Config` | `config.Load`: directories, files, environment and the rules per kind of key |
| `ConfigProofs` | the theorems about `Config` |
| `Samples` | the clock, the window and the buckets the queries share |
| `Counters` | `QDiskIO`, `QNet`, `QNetLatest` over rows of growing counters |
| `Power` | `QPower`: the two queries, the series and its integral |
| `Telemetry` | composes `Counters` and `Power` |
| `TelemetryProofs` | the theorems about `Counters` and `Power` |
| `SumLemmas` | what a sum over a finite set is, for the proofs |
| `Handlers` | what a handler answers, as far as the page can tell |
| `Page` | the page between its user and `Handlers` |
| `PageProofs` | the theorems about `Page` |
| `MC...` | values of the constants for TLC |

Operators whose comment says "Mutant" are faulty variants of the operator below
them, each a plausible bug, that a property is known to reject (the pairs are
under `mutants` in `PROJECT.json`). No specification uses them.

### WritePath

The state is the committed table (`batches`, a function from row id to batch),
the limit of the running process (`cap`), for each goroutine where it stands
(`pc`) and what it inserts (`cur`), Replay's entries (`snap`) and the ids its open
transaction has deleted (`done`), the copies of each batch in PostgreSQL
(`copies`, counted to two), and the status `InsertBatch` returned (`report`).
`evicted`, `excess` (the last eviction stopped short, or the limit was lowered since)
and `faults` are history.

| Code | Actions |
|---|---|
| `InsertBatch` 132-161, `validate`, `insertRemote` | `RejectInvalid`, `StartInsert`, `CopyStored`, `CopyFails`, `CopyAnswerLost` |
| `Enqueue` 59-106 | `Enqueue` (one SQLite transaction that locks from its INSERT to its COMMIT), `EnqueueFails` |
| `Replay` 110-166 with `ReplayPending`'s writer | `ReplayRead`, `ReplayWrite`, `ReplayWriteFails`, `ReplayAnswerLost`, `ReplayDelete`, `ReplayDeleteFails`, `ReplayCommit` |
| process end and start, `New` 23-44 | `Restart` |
| PostgreSQL | `PgUp`, `PgDown` (external) |

A batch is an identity with a size and, as constants, what can be wrong with it:
`Invalid` (a name `validate` refuses), `Poison` (an SQL error from `InsertBatch`),
`Unencodable` (JSON refuses it), `Unreplayable` (PostgreSQL refuses it from Replay).
The last two are what is kept of the way of a cell through the spool: `Enqueue`
writes JSON (spool.go:60), Replay reads numbers, strings and objects back (147-153,
178-211), so that a `time.Time` returns as an RFC 3339 string. Whether COPY takes that
for a `timestamptz` is the driver's affair, which is not in this repository; a batch
may be in `Poison`, in `Unreplayable`, in both or in neither. Replay's transaction
holds SQLite's write lock from its first DELETE; a writer that meets it waits (its
step is not enabled) or fails with SQLITE_BUSY, whichever the driver's timeout
makes of it. Any statement may also fail with another error (a full disk), once per
fault: `EnqueueFails`, `ReplayDeleteFails`, and within `Enqueue`, whose eviction loop
such an error ends (a failing SELECT or DELETE by `break`, a failing SUM because it
leaves `total` at 0) while COMMIT and success follow, so that more rows stay than fit
(`Tails`). The empty batch (`"empty"`) has no effect and is not an input. An
entry whose JSON does not decode is skipped by Replay; `Enqueue` writes none, so
the branch is left out. One process replays: the task scheduler starts one
collector process. Other processes that only enqueue (`--once`) are goroutines of
the model.

### Scheduler

`elapsed[c]` is `now.Sub(lastRun[c])` at the tick being handled, capped at the
interval, which keeps the state finite without stopping time. A pass is `Tick`,
one of `Skip`, `RunFast`, `StartSlow` per collector in any order, `EndPass`.
`StartSlow` marks the collector busy and `Acquire` is the send on `sem`; `Finish`
and `Release` are the two halves of the goroutine's deferred function. Intervals
are looked up by name as the code does (`IntervalOf`).

### Heartbeat

Each batch is the heartbeat row of one run (`CollectorOf`), inserted by the loop
or, for a slow collector, by a goroutine (`InsertHeartbeat`). All the rest is
`WritePath`'s own actions: where one of them copies a row into PostgreSQL, `Stamp`
gives that row the largest time so far, since `monitor.heartbeat.ts` defaults to
`now()` and no caller supplies it. `shown[c]` is the row `v_last_heartbeat` then
returns for `c`; `run` numbers the runs in the order they ended. That a slow
collector does not overlap itself (`NotRunning`) is `Scheduler`'s
`OneRunPerCollector`. A row written twice counts as one row with the later time,
which is all the view can tell.

### Retention

A row is an identity in a table, and `state[r]` says whether it is inserted, past
its table's interval (`old`) or deleted. A run (`Run`) is one process with
`--retention` or a dry run. It walks the tables in any order (`StartTable`,
`Count`); a DELETE is `Select`, its subselect of at most `BatchLimit` old rows, and
`Delete`, which deletes what is still there of them, as PostgreSQL does under READ
COMMITTED when another transaction deleted a row it waited for. `DeleteFails` and
`CountFails` are failing statements, `Deadline` the five minutes. A DELETE commits by
itself, so one whose run saw an error, because the answer was lost or the deadline
came, may have deleted its rows or do so later: `StrayDelete` of a member of `stray`.
Such rows are in no total (`unanswered`, history). The collector
inserts rows (`InsertRow`), also old ones from the spool, and rows grow old. `due`
is history: what was old when the run began. Which rows the subselect picks is
open, as LIMIT without ORDER BY leaves it. The sleep between batches is left out:
it changes nothing but the time. `config.Load` leaves no interval blank and names
valid tables, so the loop's two checks skip nothing.

### Lifecycle

Extends `Scheduler`; its `Stop` becomes the end of the process and is preceded by
what `main`, `runLoop`'s deferred `Close` and `runServe` do. A slow run has two
writes (`left`: its batch and its heartbeat); `Connect` takes a connection of the
pool or, once the pool is closing, is refused, and `CopyEnds` gives it back.
`Return`, `CloseStorePool` (which waits for the connections, as `pgxpool` does)
and `CloseStoreSpool` are the store's side; `ShutdownStarts`, `ListenFails` and
`ClosePool` the dashboard's: `ListenAndServe` returns when `Shutdown` begins, so
the deferred closes run while requests are served. `ProcessEnds` is `wg.Wait`. In
`serve = "off"` the process is `--collect` alone. What becomes of the rows of a
refused write is `WritePath`'s; a fast collector's writes are within its step.

### Config

The state is the environment, the `config.toml` of every directory and what each
process loaded. `Start` is `Load`, from any directory; the operator edits between
starts. A value is a kind (unset, blank, not parseable, a number or text) and a
number, so `Settings` is one rule per kind of key: `IntSetting` (`intOr`,
`int64Or` and what `Load` does with their 0), `SecondsSetting` and
`IntervalSetting` (with `time.Duration`'s wrap-around), `TextSetting`, and one
each for the keys with rules of their own. `BaseDir` and `FindConfigFile` search
different places, and only the latter minds whether a file decodes.

### Samples, Counters, Power, Telemetry

A query is an operator on the rows of its table. `Counters`: a `Pass` reads the
growing counters and its batch is stored, buffered, both or neither, which is what
`WritePath` allows; `Replay` stores a buffered batch late; a reboot sets the
counters back. `Lag`, `Delta`, `Valid` and `QDeltas` are the SQL of `QDiskIO`
(`queries.go` 363) and `QNet`, with one column for bytes, one for operations and
one for times. `Power`: `ReadSensors` and `ReadGPU` are the two queries of one
request, between which passes go on; `Canonical` is the loop over a map;
`CPU`, `GPU`, `Util` carry values forward; `Integrate` is one iteration of
`integratePower`, first for the measured, then for the estimated series;
`Periods` is `periodTotals`. Floating-point numbers are integers here, with
divisions rounded down. `Aux` and `GPUModel` may be negative: `Load` checks the
environment's watts, and takes those of `config.toml` as they are.

### Handlers and Page

JavaScript runs an event handler or a callback up to its next `await`: each such
stretch is an action. `update` is the run of `updateCurrent` that holds
`_updating`, with its question; `direct` an updater that a select's `onchange`
started past that flag; `armed` the timers that will fire, `named` whether `S.timer`
is one of them; `awaited` and `headers` the callbacks of `schedule` waiting in
`updateCurrent` and `loadHeader`. `shown` keeps of an answer only the window it was
asked for. Tabs differ in how their updater fails (`Settled`), whether it reads
`S.win` again after its first answer (`Chained`) and whether it has a select. The
first answer of a chained updater also fills its select, once (`types`,
`dataset.ready`): with types if the sensors table has a row with a value (`sensed`),
else with nothing, and then no history is asked for, neither now nor later.
`StatusOf` is `wrap`; a query over its ten seconds, or a page that stops waiting,
is an error like any other.

## 3. Runs

| Run | Instance | Shows |
|---|---|---|
| `write_path_faults` | 4 batches of sizes 1, 1, 2, 3; limit 2 or 3, perhaps another after a restart; window 2; loop and one goroutine; 1 fault; 74 s | all safety properties and the refinement |
| `write_path_threads` | 6 batches, one of each bad kind; limit 2; 3 goroutines; symmetric slow ones; 1 fault; 81 s | no loss, nothing stored twice that was not buffered, and the refinement with contention and a Replay stuck at its head |
| `scheduler_loop` | `Lifecycle`: both slow collectors and a fast one, gaps of up to 1 s, one request | the loop's safety and liveness, and the stop, in the whole process |
| `heartbeat_order` | one run of a fast and two of a slow collector, three goroutines; limit 2; window 2; 1 fault | the view is right unless an older row was buffered; a Replay ends at the newest; what is buffered is sent once PostgreSQL stays up |
| `retention_runs` | 3 rows of one table, batches of 2, two runs (dry or not), 1 fault | the totals reported are the rows deleted with an answer; an undisturbed run leaves nothing it found old; every run ends |
| `config_start` | 4 directories, two processes, 2 edits; one key of each kind with 9 values, or the place of the files | usable values, the precedence, one spool |
| `telemetry` | window of 5 s in buckets of 2; 3 passes of counters, 4 of sensors and GPU; days of 2 s | nothing is shown that did not happen and, without gaps and resets, nothing that did is left out; the parts of an energy add up |
| `page_auto` | one tab of each kind, all windows, 3 events of the user, 1 outage | one timer that never dies, no refused window, the selection in the end, but with a select filled too early |
| `poison_batch`, `net_io_never_runs`, `heartbeat_view`, `retention_overlap` | see findings | violated |

Bounds. `MaxFaults` bounds lost acknowledgements, errors of SQLite other than
SQLITE_BUSY, and restarts; outages are not bounded. `copies` stops at two because no
property tells two from three. Four batches at a limit of three let an Enqueue evict
several rows, a full-size batch evict everything, a snapshot go stale under
eviction, and an emptied table reuse id 1; a restart at a limit of two finds a spool
above it; a window of two lets the second write of a Replay fail after the first
succeeded. Two slow collectors and a semaphore of two are the code's own numbers.
`MaxGap` in `scheduler_loop` equals the smaller interval and is below the larger, so
a tick may find something due, overdue or nothing; one request suffices for
`StopCutsNoQuery`, which is proved for any number. Two runs of retention and three
rows at batches of two are the least with which one run can pick a row the other is
deleting and still leave a row behind, and with which a lone run needs a full batch
and a short one. One table suffices: the loop carries nothing from a table to the
next, and `UndisturbedRunCleansUp` is proved for any number of them. Two edits let a
variable meet a value of the file, or a file move; `Half` and `Second` are small, so
that one of the values overflows a duration as 10^10 seconds do in 64 bits. The keys
do not influence one another (except the GPU model's two), so one kind at a time is
enough. Three passes give two differences, so a row that comes late can split one;
steps of one and three seconds around intervals of one make gaps within and beyond
the limit, and both buckets with two rows and buckets with none. Four readings fill
a window of five seconds with carried values and a gap, and days of two seconds put
a midnight into it. With a window of five, three rows with a gap beyond the limit
between two of them all lie in the window, which a window of four does not allow and
`TotalsAreComplete` needs to exclude. Three events are enough to switch the box off
and on, or hide and show the page, during an update, and to change the window
besides.

Fairness. `WritePath`: every goroutine inside `InsertBatch` goes on, and the
ticker keeps calling Replay. Nothing forces a collector to return rows or
PostgreSQL to answer: `BufferedIsResent` is conditional on PostgreSQL staying up.
`Scheduler` and `Lifecycle`: the loop and the goroutines go on and collectors
return (weak fairness); time passes and `select`, which chooses at random among
ready cases, takes a closed `done` in the end (strong fairness); a COPY or a query
ends, or its connection does, and deferred calls run (weak fairness). Nothing
forces the signal or a request.
`Retention`: PostgreSQL answers every statement, or the deadline ends it.
`Page`: timers fire, and each request is answered or aborted after its ten seconds
(weak fairness). The user and the server are not fair. `Config` and `Telemetry`
have safety properties only; `telemetry` does not check for deadlock, because its
behaviours end at their bounds.

## 4. Findings

Each is a run that TLC refutes with a short trace of what the code does.

- `poison_batch`: "os dados ficam em pending_batches.sqlite3 e são reenviados"
  (README.md:42). SQL errors are buffered too (db.go:152), and such a batch stops
  every Replay at the same place. Batches before it in the window are written
  again on every tick; those behind it wait until eviction.
- `net_io_never_runs`: README.md:174 gives net_io an interval of 10 s. The
  configuration stores it as `network`, the loop looks up `net_io`, finds zero
  and skips it. `--once` is not affected.
- `heartbeat_view`: "último status por host" (schema.sql:330). A heartbeat buffered
  in an outage is stored after the next run's, with the later time, and the view
  shows the older run's status although nothing is pending.
- `retention_overlap`: "RunRetention deletes rows older than the configured
  intervals" (db.go:304). Of two runs at once, one may delete fewer rows than a
  batch because the other deleted some of those it picked; it takes the table for
  finished, and old rows stay although both return no error.

Seen while modelling, and not made a run:

- `New` "opens (or creates) the spool database at path, enforcing maxBytes total"
  (spool.go:22). It evicts nothing, so a process restarted with a smaller limit runs
  above it until its next Enqueue; and an Enqueue whose eviction loop an SQLite error
  ends (spool.go:89-96) commits above it and reports the batch as buffered.
  `SpoolWithinCap` excepts exactly these two (`excess`).
- "Medido é subtotal dos componentes instrumentados; estimado representa o modelo
  calibrável do sistema" (app.js:32). `Load` takes a negative `aux_baseline_w` or GPU
  watts from `config.toml` (config.go:292, 315-321), though not from the environment,
  and then the measured energy is above the estimated. `SubtotalIfPartsNonnegative`
  has it as its premise.
- "Histórico das séries mais recentes do tipo selecionado" (app.js:34). The sensors
  tab opened before any sensor has a value fills its select with nothing and sets
  `dataset.ready` (app.js:234); no type is ever selected and no history asked for
  until the page is loaded again. `SelectionIsShownIfListed` excepts it.
- Replay's deletes share one transaction (spool.go:137), so a batch written before
  a failure stays and is written again, beside "deleting each on success"
  (spool.go:108). `BatchQueue` allows it: at least once.
- "Precedence: env var > config.toml > default" (config.go:200): an explicit 0 of
  the file for `aux_baseline_w` or `batch_sleep` gives the default (config.go:292,
  411). `EnvironmentBeatsFile` excepts it.
- With the automatic update off, a window selected during an update is never shown
  (app.js:117). `SelectionIsShownIfListed` is about the automatic update.
- An interface named Wi-Fi wins over the one the user selects, on every update
  (app.js:258).
- A device or interface select that had no options once stays empty when the same
  ones return: `setOptions` clears it but keeps `dataset.values` (app.js:175, 177). The
  panel shows the first of them.
- `settle` makes a failure an empty answer, so that a panel says "sem dados na
  janela" when PostgreSQL did not answer (app.js:143, 151).
- The differences of `QDiskIO` and `QNet` are PARTITION BY device (queries.go:363,
  425): two hosts with devices of one name in one database get their rows mixed.
  The model has one host, as the installation has (`CountersAssumption`).

## 5. Proofs

`WritePathProofs`, for any batches and sizes, any set of limits, any window and
any number of goroutines, from `BatchAssumption` and `ProcessAssumption`:

- `TypeCorrect`, `NothingIsLost`, `SnapshotIsNotReused`, `NothingIsSpooledTwice`,
  `ReplayDeletesWhatItWrote`;
- `EvictionIsMinimal`;
- `SpoolIsAQueue`: `WritePath` implements `BatchQueue`;
- `LimitHolds`: the spool is above the limit in force only from an eviction that an
  SQLite error ended, or a restart with a smaller limit, to the next Enqueue whose
  eviction runs to its end (`excess`). There it may be
  above it (section 4);
- `ReplayIsAllOrNothing`: a row leaves the spool at the limit, or with every row its
  Replay read, all of them in PostgreSQL. So a Replay that commits leaves nothing of
  its window behind, and one that fails takes nothing out;
- `UnreplayableStopsReplay`: what a buffered batch PostgreSQL refuses from Replay
  makes of that. It leaves only at the limit, even if the rows are in PostgreSQL
  already because only the answer of `InsertBatch`'s COPY was lost, and while it is
  in the window of a Replay so does every other row, those before it too: the
  finding `poison_batch` for any sizes and any window;
- `EnqueueBringsWithinLimit`: that an Enqueue whose statements all succeed brings the
  spool within the limit then in force, whatever it was before and however many rows
  that takes.

The argument. `NoSilentLoss` says three things: a batch reported stored is in
PostgreSQL exactly once; one reported buffered is in the spool, in PostgreSQL or was
dropped at the limit; and only such a batch is there twice. It is not inductive, and
its parts are proved one after the other. That nothing is lost (`NotLost`) fails to
be so because a COMMIT removes rows by id. It needs that what is deleted was written
(`ReplayInv`, first two conjuncts) and that the ids still name what was read
(`SnapshotIdsNotReused`). The latter needs that a new row's id is above every id of
the snapshot, although SQLite only puts it above every id of the table: so
`ReplayInv` says that no snapshot id lies above the whole table. Enqueue keeps this
because it never evicts the row it inserts, which is the lemma `SurvivorsFit`: a
batch no larger than the limit fits alone, so eviction stops at it at the latest;
one that an error ends stops earlier (`EnqueueOutcome`: what is left is the newest
rows, without a gap). That no batch is invalid matters too, since Replay deletes an
invalid batch without writing it. `Bounded` (the ids have an upper bound) makes
`NextId` defined. TLC checks `ReplayInv` as an invariant.

How often a batch is in PostgreSQL (`CopiesInv`) rests on the refinement's
invariant, `FrontInv` below: a batch that a goroutine is about to copy has no report
and is not in the spool, so nobody has copied it, and what Replay copies was
reported buffered. `ReplayIsAllOrNothing` is an action property of the same
invariant: COMMIT is enabled only when every id read is deleted in the transaction,
and what is deleted was written.

`SpoolIsAQueue` maps each step: a COPY, of a goroutine or of Replay, is `Send` (or
nothing new), Enqueue with its eviction is `Put`, COMMIT is `Ack`, all else
stutters. It needs `FrontInv`: a batch held by a goroutine has no report yet, an
evicted batch does not come back, and what Replay read is the front of the table up
to what was evicted since, so that COMMIT acknowledges the oldest. That a row Replay
sends is not yet acknowledged is why the mapping asks whether a batch left the table,
not whether it was deleted in the open transaction.

`SchedulerProofs`, for any collectors and intervals and at most `SemCap` slow
collectors: `LoopTypeCorrect`, `OneRunAtATime`, `LoopNeverWaits`. The semaphore
holds one element per active run and one per goroutine still releasing
(`LoopInv`); the collector about to start is not active, so at least one place is
free of active runs. Besides, of what a pass starts:

- `PassRunsAllDue`: when a pass ends, no fast collector is due, however late the tick
  was and however long the pass waited for the semaphore (`PassInv`: one the pass has
  gone by is not due any more, since time advances only at the next tick);
- `OnlyScheduledRun`: what runs has an interval under its own name, and so
  `NetIONeverRuns`, for any process that has none under the name net_io: the finding
  `net_io_never_runs` for any intervals and any length of time.

Of `Lifecycle`, for any collectors and requests: every step of the process is
one of `Scheduler` or leaves its variables alone (`LifecycleIsScheduler`), so the
theorems above hold of it; and `StopCutsNothing`. The invariant (`ClosedInv`): a
closed pool has all its connections back, and the process ends only with both
closed.

`HeartbeatProofs`, from the above and `HeartbeatAssumption`: every behaviour of
`Heartbeat` is one of `WritePath` (`HeartbeatsAreBatches`), so no heartbeat is lost
and the spool is a queue of them; and `LastRunIsShown`, for any collectors and
goroutines. The invariant: only a collector's last run is being inserted, everything
in Replay's snapshot was buffered, and runs have distinct numbers; so an older row
can be stored late only from the spool. And `ReplayEndsAtNewestRun`: the ids of the
spool follow the order of a collector's runs, since only a last run is enqueued;
Replay takes the ids in order; and what a goroutine stores meanwhile is a last run
(`OrderInv`).

`RetentionProofs`, for any rows, tables, runs and batch limit:
`RetentionTypeCorrect`, and `UndisturbedRunCleansUp`: a run that meets no fault and
beside which no other deletes leaves no row that was old when it began. Both
premises are needed: a DELETE that fails ends its table's loop (db.go:343) and
`RunRetention` still returns no error, and `retention_overlap` is the other case. The
invariant (`RunInv`): a row of `due` is deleted or in a table still ahead, and a
statement that picked fewer rows than a batch picked all that were left. A step
of another run either leaves the rows alone or, being a DELETE, ends the premise.
`ReportedIsDeleted`: two runs may pick the same rows, but a row leaves once, in one
statement, and that statement counts exactly the rows that leave, or its run saw an
error and they are `unanswered` (`TotalsInv`). The rows such a statement picked are old
or deleted (`StrayOld`), so what it deletes later was counted by nobody. `UndisturbedRunCleansUp`
needs that without a fault there is no such statement (`NothingStray`).

`ConfigProofs`, from `ConfigAssumption`, for any tree of directories, any
processes, values and edits: `ConfigTypeCorrect`, `ConfigOneSpool`, `ConfigUsable`,
`ConfigPrecedence`. The invariant says that what a process runs with came from
`Load` of some environment and files; the rest is a lemma per kind of key. That
`Half` is above the largest default in nanoseconds is what `ConfigUsable` needs of
the width of an integer.

`TelemetryProofs`, from the assumptions of `Samples`, `Counters` and `Power`, about
every behaviour of `Telemetry`: a behaviour follows the counters or the power
estimate, each with an invariant of its own, while the other part rests
(`TelemetryInv`).

Of `Power`, for any rows, sensors, intervals, window and bucket size:

- `CoverageIsNotCountedTwice`. The invariant (`IInv`): every row of an answer lies
  in its bucket and in the window of its query; buckets are taken in ascending
  order, so the points' times ascend; and what is covered so far is less than the
  time from the edge of the window to the last point;
- `CPUWattsAreOfOneSource`, in any order in which the map of sources is visited:
  every row has one value, and the canonical source was chosen from the answer the
  request works on (`SourceOK`);
- `PeriodsAddUpToTotal`: watts are numbers (`WattsOK`), every interval falls on a
  day of the calendar, and one addition goes to the total and to that day (`DaysOK`);
  the days of weeks and months are a partition of all days. That the calendar is
  long enough for the readings is `CalendarAssumption`;
- `MeasuredIsPartOfEstimated`, if the baseline and the GPU's watts are not negative
  (`PartsNonnegative`, a premise of the property and no assumption of the module; all
  the others hold without it). The two integrals are made one after the other, over
  points that exist in different buckets, so nothing can be said of the two loops
  together. The invariant (`SharesOK`) gives each a closed form: the energy of a day
  is the sum over the buckets of what the interval that ends at a bucket's point
  adds. Two points in a row with a measured value also have an estimated one, not
  below it (`EstimateIsMore`), so the sums compare bucket by bucket.

Of `Counters`, for any devices, passes, resets, gaps, late and repeated rows. All
rest on `RowsOK`: ids tell arrivals apart, an arrival has at most one row of a
device, and rows of one device and instant agree.

- `TotalIsWithinActivity`: there is a quantity that rises with time, ends at what
  the device has done, and grows between two rows at least as much as the counter
  does (`ActivityOK`; the counter itself will not do, a reset lowers it). The valid
  intervals of a device do not overlap, so their sum is within its growth
  (`SumOfIntervals`);
- `TotalIsComplete`, the other direction: while no counter was set back, and no two
  neighbouring rows of the window are more than three intervals apart, a total is at
  least what the device did between any two of its rows there, although rows are
  late, missing or there twice. The first row of each instant has the last row of
  the instant before it as its predecessor (`LagExists`), the difference to it is
  valid and is shown (`ShownIsComplete`), and the differences up to a row sum to the
  whole growth by induction over the instants (`TotalsFromRising`);
- `RateIsWithinPeak`: between any two rows a counter grows by at most the peak for
  each second (`PeakOK`), which the intervals of a bucket add up to;
- `DuplicatesDoNotShow`: an interval may begin with any row of an instant and ends
  with the first of a later one, so the first rows alone give the same intervals;
- `ReplayOnlyCompletes`: while no counter was set back they only rise (`RisingOK`),
  and an arrival divides at most one interval of each device, into two that are
  valid and add up to it;
- `LatestRowIsNeverOlder`.

`SumLemmas` is what these need of sums: that the community modules' fold over a
finite set has one result, whatever order its CHOOSE takes the elements in, and so
that a sum takes any element out, is monotone, splits over a partition. The
library's induction theorems cannot be instantiated here, so induction is by a
least counterexample from the well-foundedness of <, with sets in place of
predicates.

`PageProofs`, from `PageAssumption`, for any tabs, windows and number of events:
`TimerIsOne`, `AutoLives`, `PageAsksNothingBad`. The invariant joins the two
properties of the timer, which need each other (`AutoNeverDies` because a
callback in flight is what re-arms, `OneTimer` because `schedule` first clears the
timer it names), and that all that is asked was selected from the page's own
options. That these are windows the handlers know is an assumption on constants,
which TLC checks with the lists of `index.html` and `handler.go`.

Only model-checked: liveness (`BufferedIsResent`, `DueCollectorStarts`,
`SignalStopsLoop`, `RunsEnd`, `SelectionIsShownIfListed`), which the installed provers do
not reach. Every other property of the passing runs is a theorem.

## 6. Plan

In this order:

1. Models: `--once` beside the service as a second process on the spool;
   `/api/ready` and `/api/status` with the page that shows them.
2. Proofs: those of the new modules, first that a second process on the spool keeps
   `ReplayInv`. The safety behind the liveness properties is proved
   (`ReplayIsAllOrNothing` for `BufferedIsResent`, `PassRunsAllDue` for
   `DueCollectorStarts`); they themselves stay with TLC.

Not modelled:

- schema initialisation: one script of CREATE ... IF NOT EXISTS statements run by
  hand, where what can go wrong is PostgreSQL's DDL;
- `--once` and `--dry-run`, which run every collector in turn and exit (an Enqueue
  from `--once` is one of `WritePath`'s goroutines);
- the collectors, `lhm-dump` and the parsers between them: each reads the operating
  system once and returns rows, without state; their rows are inputs here;
- the queries that return rows or an average per bucket, and `/api/ready`,
  `/api/status`, `/api/health`: no state and nothing to interleave;
- the statistics per power source, charts, formatting and layout;
- the installer and the task scripts.
