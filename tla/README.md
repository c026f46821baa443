# Verification of Batteries Query Services

TLA+ modules, TLC configurations and TLAPS proofs for the collector, the monitor,
the replay protocol between them, and the programs beside them. Paths below are
relative to the repository; `service.py`, `storage.py` and the like are the
monitor's.

## 1. The system

| Part | Code | State it keeps | Operations |
|---|---|---|---|
| Replay buffer | `src/batteries_query_service/buffer.py` | SQLite: rows (`sequence` AUTOINCREMENT, JSON), `stream_id` | `initialize`, `append`, `read_after`, `prune_older_than_hours` |
| Poll cycle | `src/batteries_query_service/poller.py`, `api.py` | states per battery, inverter state, `_latest_sequence`, `_last_completed_at` | `run`, `poll_once`, `snapshot`, `health`; `GET /api/readings`, `GET /api/readings/history` |
| Drivers | `ecoworthy.py`, `pylontech.py`, `megarevo.py`, `renogy_x.py`, `solarman_v5.py` | one connection per read | read and decode registers, in chunks with retries |
| Metrics | `metrics.py` of the collector | Prometheus gauges | set from each reading or error |
| Register discovery | `register_discovery.py`, `inverter_probe.py` | results of one run | `map`, `snapshot`, `compare` |
| Archive path | `monitor/src/battery_monitor/service.py`, `collector.py` | `_latest_snapshot`, `_history_supported`, `last_backfill_error`, the pause flag | `run`, `poll_once`, `_backfill`, `persist_once`, `prune_once`, `force_cycle`, `connection_state` |
| Retention store | `monitor/src/battery_monitor/storage.py` | SQLite: `readings`, `inverter_readings`, `daily_energy`, `tou_energy`, `solar_peaks`, `monitor_metadata` | inserts, markers, roll-ups, pruning, purge, queries |
| Admin | `admin.py`, `api.py` of the monitor | sessions, settings in `monitor_metadata` | login, settings, forced poll, pause, purge |
| Tariff, savings, weather, rack state | `tariff.py`, `savings.py`, `weather.py`, `rack_state.py` | cached forecast, rack file | arithmetic, caching |
| Dashboard | `static/app.js` and the flow modules | refresh timers, DOM | polls the monitor's API |
| Kiosk | `kiosk/kiosk.py` | availability counter, browser process | probes and restarts |
| Deployment | `deploy/auto-deploy.sh` | `seen` and `deployed` commit files, lock | fetch, fast-forward, deploy, verify |

How they interact: the poller reads batteries and inverter in turn, publishes
their states in memory and, every sample interval, appends one snapshot to the
buffer and prunes it. The monitor asks over HTTP: each cycle of its loop fetches
the live readings, replays from history whatever it has not archived yet, page
by page, and on the log interval writes the live snapshot unless replay has
brought it already. How far a stream has been archived is the *marker*
`collector_sequence:<stream>`. An administrator may start a second cycle beside
the loop, or purge the archive. Either side may restart at any point.

What makes this hard: both processes suspend at every thread call, the rows and
the marker are separate transactions, a label reaches the monitor by two ways
(live and history), every call may fail, and the two files live on machines that
restart independently. `PROJECT.json` lists the hazards line by line.

What makes each part correct:

- *Replay buffer*: sequences are in the order of captures, none used twice;
  paging by `has_more` delivers all that is buffered.
- *Poll cycle*: the label on live readings belongs to a sample no newer than they are.
- *Archive path*: no sample still on offer is skipped; a marker names a row the
  archive has had; what arrives is what was sampled; every sample arrives.
- *Retention store*: rows are not replaced; roll-ups agree with the rows they were built from.
- *Drivers*: a value shown as a pack's or a register's is that one's, whatever
  replies are late, damaged or missing; a failed detail costs that detail only.
- *Register discovery*: what is called readable was read; nothing not settled is
  dropped from the report; the changed setting is among the candidates.
- *State of the collector*: what is called online is live; an outage is announced.
- *Savings, views, rack*: energy is counted once, where and when it was used; a
  rack is never fuller than its packs; every pack has its card.
- *Admin*: a change of settings touches its own fields; what is shown can be saved.
- *Kiosk*: the page on the screen is the right one; three failed probes, no fewer,
  give the dashboard up; delays are bounded.

## 2. Modules

| Module | Models | Extends |
|---|---|---|
| `SnapshotBuffer` | the collector: sampling half of `poll_once`, the buffer, both HTTP views | |
| `MonitorService` | the monitor's archive path and the store tables it uses | `SnapshotBuffer` (its views) |
| `ReplayPipeline` | both processes interleaved, fairness, the end-to-end properties | `MonitorService` |
| `SampleArchive` | the abstract specification: a window of samples, an archive, a cursor | |
| `ReplayInvariants` | the inductive invariants | `ReplayPipeline` |
| `Tariff` | periods, off-peak days and observed holidays of `tariff.py`, as operators | |
| `TariffCalendar` | the tariff followed day by day | `Tariff` |
| `EnergyRollups` | the tables the store derives from inverter readings | `Tariff` |
| `PylontechReplies` | the payload parsers of `pylontech.py`, as operators on bytes | |
| `PackBus` | the battery half of `poll_once` on one adapter, with both battery drivers | `PylontechReplies` |
| `InverterPoll` | `_poll_inverter` with the R8KLNA driver over serial or logger | |
| `Metrics` | the gauges of `metrics.py` | |
| `LiveState` | `connection_state` and `collector_reachable` over polls, pauses, outages | |
| `AdminConfig` | `AdminSettings` and overlapping `PUT /api/admin/config` | |
| `RackInventory` | the list of batteries, the environment's or an admin's, and `rack_details` | |
| `RackSoc` | the rack's state of charge, live and in the power history | |
| `IntervalViews` | the bars of the Hour and Date views | |
| `Savings` | the savings windows and both bills | |
| `RegisterMap` | `map_readable_blocks` | |
| `RegisterSnapshot` | `collect_snapshot` and the comparison of two | |
| `Kiosk` | the kiosk supervisor | |
| `PythonNone` | Python's `None` | |
| `MCEnergyRollups` | instances of `EnergyRollups` | `EnergyRollups` |
| `MCCollectorPoll` | packs, inverter and gauges, for TLC | `PackBus`, `InverterPoll`, `Metrics` |
| `MCPages` | what pages show, for TLC | `Savings`, `IntervalViews`, `RackSoc`, `RackInventory` |
| `MCMonitorState` | state of the collector and settings, for TLC | `LiveState`, `AdminConfig` |
| `MCPrograms` | the programs beside the services, for TLC | `RegisterMap`, `RegisterSnapshot`, `Kiosk` |
| `FoldTheorems` | lemmas about folds and sums over finite sets, and about the least natural | the community modules |
| `ReplayProofs` | theorems about the collector's buffer and the replay | `ReplayInvariants` |
| `PagesProofs` | theorems about bills, bars, the rack's figure and its cards | `MCPages`, `FoldTheorems` |
| `ProgramsProofs` | theorems about the map, the snapshots and the kiosk | `MCPrograms`, `FoldTheorems` |
| other `*Proofs` | the theorems | the module they are about |

### SnapshotBuffer

A completed poll is a *capture*, numbered from 1: all of the readings of one
cycle as one value. The table is `stream`, `oldest`, `newest` and `captureOf`;
AUTOINCREMENT leaves no holes and the prune that follows an append never reaches
the row just written, because retention is at least an hour. `poll_once` is
split where it awaits a thread: the poll (`PollThenSample`, `PollOnly`), the
commit of the row (`Append`), the return of its sequence to the poller
(`AppendReturns`), the prune. Between commit and return, history serves a row
that live readings do not mention. `RestartCollector` may happen anywhere, and
`BufferModes` are the values `BQS_BUFFER_ENABLED` takes over the restarts; with
it off, history answers 404 and readings carry no stream. `ReplaceBuffer` is a
restart on an empty data directory.

`Readings` and `ReadAfter` are the two views. Each is one step: `snapshot()`
holds the poller's lock and awaits nothing inside, `read_after` computes page
and look-ahead under the buffer's lock.

### MonitorService

Tasks are the coroutines that run the archive path; `local[t]` are their local
variables and `pc[t]` names the await they stand at:

| `pc` | stands at | leaves by |
|---|---|---|
| `idle` | between cycles | `FetchSnapshot`, `FetchSnapshotFails` |
| `fetched` | the reply of `fetch_snapshot` | `Receive` |
| `marker` | `get_metadata` in `_backfill` | `ReadMarker` |
| `loop` | the `while` and the call of `fetch_history` | `FetchPage`, `EndBackfill` |
| `gone`, `paged` | the reply of `fetch_history` | `HistoryGone`, `ReceivePage` |
| `insert`, `mark` | `insert_snapshots`, `set_metadata` | `InsertPage`, `InsertPageFails`, `MarkPage` |
| `backfilled` | after the last page | `EndBackfill` |
| `check`, `decide` | `get_metadata` in `persist_once`, its reply | `CheckMarker`, `Decide` |
| `write`, `writeMark` | `insert_snapshot`, `set_metadata` | `WriteLive`, `WriteLiveFails`, `MarkLive` |

`BackfillFails` and `PersistFails` are the exception handlers, for a call that
raised before it changed anything. A call that raises half way leaves its rows in
the open transaction of the shared connection: `InsertPageFails` and
`WriteLiveFails` choose, when the failure happens, how many of them a later
commit will bring in. The four memory variables shared between the tasks are
read where the code reads them: `persist_once` takes `_latest_snapshot` before
its first await, which may be another task's by then.

The archive holds one row per label and capture where the code has one per
battery: all of a snapshot's rows are inserted by one call and share its label.
Rows without a sequence are only counted, in `loose`. `erased` is a history
variable: labels that retention or a purge deleted.

### ReplayPipeline and SampleArchive

`ReplayPipeline` interleaves the two sides. `SampleArchive` says what replay is
for: the cursor of the current stream never stands past a sample on offer that
is neither kept nor deleted after it was kept. The refinement mapping reads the
archive's labels as `kept` and the markers as `cursor`.

### Tariff and EnergyRollups

`Tariff` works on proleptic Gregorian ordinals, as Python's `date` does; its
operators carry the names of the functions of `tariff.py`.

`EnergyRollups` is the rest of the store: `rows` are the times of
`inverter_readings`, and three tables are built from them. `tou` is the split of
a tariff-local day over the periods, rebuilt as a whole from the day's rows and
the last counter within six hours before it; `peaks` and `daily` are raised by
each insert, `peaks` per tariff day and `daily` per UTC day. `sample` fixes what
is read at each time, so that a late or repeated insert brings the same content.
Each operation holds the store's lock and is one action: `InsertSnapshots` (a
live reading or a page), the same call raising while it stores samples
(`InsertFails`) or in the roll-up pass (`RollupFails`), `PruneOlder`, `PurgeAll`
and one slice of each backfill. `Init` is what `initialize()` leaves of an
archive that an earlier version wrote: rows, no roll-ups, and peaks or not.

Two history variables name what the properties leave out: `pending`, rows of a
call that raised and was not repeated, and `partial`, days of which a peak was
deleted, or never measured, while readings remain.

### PylontechReplies, PackBus, InverterPoll, Metrics

`PackBus` is one poll over an adapter: `turn` is the pack, `query` the command it
was last sent. `Transact` is what both drivers do for a request: empty the input
buffer, which may miss what is still on its way, send, and wait; the reply may
come in time, damaged, with a refusal, or later, when another request waits.
`TakeReply`, `LeaveOut` and `FailPack` are the reply that is trusted and parses, the
optional command done without, and the pack in error for a reply. `PortRaises` is the
pack in error because the serial port raised, at its opening or at any of the five
requests: `_query_optional` catches `TimeoutError` and `ProtocolError` only, and what
`serial` raises otherwise passes it. `PylontechReplies` parses
payloads byte by byte, since whether a late reply is mistaken for another depends
on where its fields would lie; every parser of the five commands is an operator,
with its length checks (`...Fits`). The Eco-worthy driver has one query.

`InverterPoll` cuts the driver's real blocks into its real chunks, and keeps per
chunk the reply that was taken: which registers it truly held is history, as a
Modbus reply does not say so. `Parse` is the core-telemetry and range check,
`KeepReading` the reading that is carried over a failed poll. `Metrics` has one
gauge of each kind: always set, set when there is a value, numbered.

### LiveState, AdminConfig, RackInventory

A tick of `LiveState` is a unit of time that interval, timeout and thresholds are
multiples of. `flight` holds the fetches that the
loop and a forced poll await; an answer is taken (`TakeAnswer`, `TakeRefusal`) later
than it was given, and possibly after a newer one. Ages saturate at `Old`, beyond
which no property tells them apart. The collector's clock is `Skew` ahead. `past` is
history: for how long the link has been down, the collector well, the loop unpaused,
and whether somebody paused since the last answer.

`AdminConfig` splits a PUT where its thread touches the database: `Read` (with
validation; `RefusePut`), `Write`, `AnswerPut`. One field stands for each kind of
limit, scaled down. `RackInventory` has `Save` for a list sent by the panel, and
`Inventory`, the set of the cards of `rack_details`, as an operator over the saved
list, the profiles of the environment and the collector's batteries.

### RackSoc, IntervalViews, Savings

Each is a small store and the query over it. `RackSoc` compares the live weighting
with the SQL of `battery_by_pack`, as fractions; the rows an average is taken of are
picked from the bucket by their place. `IntervalViews` lets a counter run,
restart once, and be read or not in each slot; `Intervals`, `Measured` and `Points` are
the common table expressions of `_energy_interval_history`. `Savings` records days
and rolls them up late (`RollUpDay`); `Windows`, `TierPlan` and the bills follow
`savings_energy` and `build_savings_payload`.

### RegisterMap, RegisterSnapshot, Kiosk

`RegisterMap` takes one read of the device, retries included, as a step; the device
is a function from addresses to pages, and a read is answered when it stays on one.
`pc` is `scan` (the strides), `walk` and `bisect` (the edges of a block).
`RegisterSnapshot` reads its chunks sample by sample, splits refused ones, and
compares two snapshots around a change on the inverter's panel. `lostHere` is history:
chunks that the snapshot being taken has lost.

`Kiosk` is the supervisor's loop in ticks of two seconds: a round is `Watch`, `Launch`,
`LaunchFails` or `ManagerFails`, and `Supervised` is what it decides before it comes to
launching a browser.

### Compositions for TLC

`MCCollectorPoll`, `MCPages`, `MCMonitorState` and `MCPrograms` each put several modules
into one run. Their parts run in different places or read different data and share no
state that a property speaks of, so a first variable picks the part a behaviour is of
and the others stay at rest; the states are the sum of the parts', not the product.
A property of a part that does not hold of a part at rest, or would only be slow there, is stated under
that choice (`MapEnds == program = "map" => SweepEnds`). Parts that do interact are
composed in `ReplayPipeline`.

What one part promises is one property of a run, the conjunction of the properties named
in the part's module: `BlocksAddUp`, for one, is `YearIsItsMonths` and
`EveryKwhHasABlock`. `PROJECT.json` has a mutant for each conjunct.

Definitions whose comment begins with "Faulty" or "Mutant" are variants of the
definition after them with a plausible mistake. No specification uses them: they
are there to show that each property notices a mistake of its kind.

## 3. Runs

| Run | Bounds | Question |
|---|---|---|
| `replay_loop` | 2 streams, 3 rows, 4 polls, pages of 2 | Does the loop alone leave no gap, keep rows faithful and in order, and back its markers? Are labels right whatever fails or restarts? |
| `replay_arrive` | 1 stream, 2 rows, 4 polls, pages of 1 | Does every sample arrive, is every step one of the abstract archive, and does paging deliver the buffer? |
| `replay_force` | 1 stream, 2 rows, 3 polls, two tasks, buffer on and off, 1 page of 1 | What still holds with a forced cycle beside the loop, while history comes and goes and a backfill is cut short? |
| `energy_rollups` | readings before and after a midnight, 32 courses of counter and power, pages of 2 | Do roll-ups, peaks and daily counters agree with the readings, and does the backfill reach every day? |
| `collector_poll` | 3 packs, 2 polls, 2 replies on the wire; 2 inverter polls of 7 chunks, 1 late reply, 1 retry | Are readings their pack's and their registers', and of one poll? |
| `programs` | 7 addresses on 2 pages, 2 nested ranges, 14 reads, 2 lost ones; 7 registers, 3 splits, 2 samples a side, 1 lost chunk; 4 faults around the kiosk | Does the sweep report what it found, and end? Is the setting found? Does the screen follow the monitor? |
| `pages` | 5 days in 3 months over a change of season; 6 slots with a restart anywhere; 3 packs, 6 kinds of reading; 3 battery ids on 2 addresses | Is energy billed once and at its rate, are the bars right, is the rack's figure between its packs', has every battery its card? |
| `monitor_state` | 2 tasks, thresholds 4 and 5, clocks 1 apart, 2 events; 2 overlapping requests | Is online true, is an outage announced, is a recovery noticed? Do changes of settings keep to their fields? |
| `gap_by_forced_cycle` | two tasks | violation: the marker passes rows never archived |
| `duplicate_after_restart` | 1 stream, 2 rows | violation: a capture without sequence is archived again and again |
| `holiday_over_new_year` | 2021 and 2022 | violation: December 31, 2021 has on-peak hours |
| `detail_costs_the_pack` | 1 pack, 2 polls | violation: an empty serial number takes the pack offline |

A passing run takes between some seconds and about two minutes with two workers.

Why the bounds are enough for the interesting cases: three rows with pages of
two make a backfill of one page and a partial one, and a failure within a page;
`MaxPages` stands for the code's 100 pages. In `replay_loop` two pages hold the whole
buffer, because `NoGap` needs that; in `replay_force` one page of one row does not, so
that backfills are cut short with rows missing. The view of `replay_force`
(`WithoutErased`) leaves out the history `erased`, which no step and none of its
properties reads: it merges states without cutting a behaviour off. Two streams let a
marker, a page and a label belong to different ones; one poll more than rows lets a
label lag behind the readings that carry it. `PollsToSpare` and the guards with `MaxSeq`, `MaxPolls` and `MaxStreams` are
the only bounds in the replay models; they stop the collector, never the monitor,
so none of these runs may deadlock.

`energy_rollups` has one reading within the seed's lookback and two after
midnight, in two tariff days and two UTC days, with cutoffs at midnight and
between the readings; the counter may rise, dip, restart or be missing at each.
Both days' last hours fall in different periods, and the second day is the
observed Independence Day of 2026.

Fairness of `ReplayPipeline` (`FairSpec`): the poller and the monitor's loop are `while not stopped`
loops with every I/O call under an exception handler, so their steps are weakly
fair. The single calls are strongly fair: each is retried every cycle and may
fail any number of times, not for ever. Restarts of the monitor eventually
cease: one that restarts for ever before its first page archives nothing.
Retention, purges, collector restarts and the forced cycle are not fair.
`SamplesArrive` needs all of this; deadlock freedom of the runs does not.

Fairness of `EnergyRollups`: `run()` calls the backfill every hour and a slice
rebuilds at least one day, so `BackfillTou` is weakly fair. A roll-up that raises
for ever (a full disk) makes the newest day come up again each time, so
`FairSpec` assumes that it stops raising at some time.

Fairness of `Programs`: a sweep is a loop that only stops at its end (`WF` of its
steps), and so is the supervisor's (`WF` of `Round`, a round that neither fails to
launch nor to start the window manager; both are bounded by `MaxFaults`). Outages,
recoveries and exits are not fair: `ScreenFollowsMonitor` assumes that the monitor
stays up, or away.

Bounds of the other runs. Three packs of which one is switched off, with two replies
under way, let a reply come two requests late and cross a pack's end; the chunks of
the inverter are the code's own, since the property is about their sizes. Two of the
five commands are refused by the firmware of `collector_poll`, and the serial number may
come empty. In the snapshots, the first of three chunks holds a register that does not
answer and costs two of the three splits, the second lies across two pages, has the
setting in it and costs the third, and the last is refused whole. Seven
addresses with a stride of two and reads of three give blocks narrower and wider
than both, edges on either side of a probe, and a second range inside the first. Two
lost reads exhaust the retry of one read. A budget of 14 reads ends some sweeps and
not others. Six slots of which a window takes four leave two for the seed, with a
restart inside it, at its beginning, or not at all. Thresholds of four and five
polls leave room between stale and offline for a late answer. Commands, sweeps,
windows and polls end; `collector_poll`, `programs` and `pages` therefore run
without a deadlock check. The kiosk's probe interval, backoff and minute of
stability are the code's.

### What the violation runs show

The first two check the sentence of `README.md:214`: the monitor "requests every missing
sequence and inserts it idempotently ... without ... duplicating rows".

- *Forced cycle.* `POST /api/admin/poll` runs the archive path in a second
  coroutine. While one task is replaying up to sequence 1, the other has fetched
  2 into the shared cache; the first one's `persist_once` takes that newer
  snapshot and sets the marker to its sequence. Rows in between are in the
  buffer and not asked for again.
- *Restart.* Until the first append of a new collector process, readings have no
  sequence. `run()` persists the cached snapshot again after a failed poll, and
  nothing recognises it: the unique index has no sequence to compare.
- *Holiday.* `is_off_peak_day` looks a day up among the observed holidays of the
  day's own year. New Year's Day 2022, a Saturday, is observed on December 31,
  2021, in the set of another year.
- *Empty serial number.* "The analog values are the reading; everything else is extra
  detail that must not take the pack offline when a firmware leaves it out"
  (`pylontech.py:622`). An empty reply to 0x93 is a valid frame, and
  `parse_serial_number` raises on it: it is called without `_optional`
  (`pylontech.py:599`), so the pack is in error. `collector_poll` checks what holds: no
  other detail does that, whatever reply to it is late, garbled or refused. A port that
  raises is told apart from both (`at = "port"`).

The page limit is another way to a gap: a backfill that stops at 100 pages
ends without an error, and `persist_once` then writes the live sequence as
marker. The rows left are never asked for again. With the default page size of 500 rows,
24 hours of one sample a minute need three pages, so the default configuration cannot
get there; with `BQM_BACKFILL_PAGE_SIZE=1`, which `config.py:147` allows, 100 pages are
100 rows of the 1440, and after an outage of two hours rows are lost. `LimitIsForExcess`
says that this is the only way: a backfill that its limit cuts short has passed as many
rows as that many full pages hold. `replay_force` checks it where backfills are cut
short, and it is proved for any page size and number of pages. `NoGap` and the theorems
that rest on it need `BufferFits`, that the buffer never holds `MaxPages` full pages
(50000 rows by default); they do not speak of a configuration where it may.

### Other disagreements met while modelling

Places where the code does not do what a comment or a document says. The models
follow the code, and no run claims the sentence.

- `buffer.py:26` of the collector: with WAL and `synchronous=NORMAL` a power cut may
  take back the last commits, the AUTOINCREMENT counter with them. Their sequences are
  given out again, and the monitor ignores the new samples as known.
- `storage.py:499`: the month and year views compare each row with the row before it,
  where their "Python twin" `_counter_rise` (`storage.py:1893`) keeps the last good
  counter. Counters 10, missing, 11 are 11 kWh of roll-up and 21 in the month view.
- `register_discovery.py:423`: "Whatever it did not reach is reported as unscanned"
  (`:283`), but a walk the budget cuts short leaves the addresses between the last
  proven register and the next probe in none of the lists. `BlocksAreAccountedFor` does
  not speak of sweeps that the budget ended.
- `register_discovery.py:412`: `_edge_up` and `_edge_down` read from the register after
  the edge, so a page that begins just where such a read begins is walked into, and the
  block reported as readable spans both. "A read spanning the join was refused" (`:327`)
  holds only of joins that were found by a probe of their own.
- `register_discovery.py:401`: an edge walk that loses a read "reports the rest as
  unverified" (`:408`), but it reports one `edge_read`. With a `--chunk-size` below the
  stride less one, registers between there and the next probe are in none of the lists.
- `register_discovery.py:310`: a block was walked to the end of its range only. When
  an overlapping range goes further, a probe inside the block skips what lies past that
  end. `programs` sweeps ranges that are nested, where this cannot happen.
- `service.py:364`: after a 404 from history the monitor writes live readings, and the
  marker follows them; what the collector buffered meanwhile is skipped when history
  comes back. `NoGap` is claimed with the buffer always on.
- `ecoworthy.py:216`: a reply's address is not compared with the one asked, so a late
  reply is stored under the next pack's id. `collector_poll` has Pylontech packs.
- `megarevo.py:127`: two blocks of 14 registers follow each other, and a late reply to
  the first is taken for the second: status `ok`, home load from other registers.
  `TelemetryIsOwn` covers the registers of all other chunks.
- `storage.py:761`: the retained window begins in mid-day; that day earns its share of the
  first block while its grid draw is left out.
- `storage.py:1976`: the Date view takes a counter one digit below the last for a
  restart and shows the whole day in that hour; "a glitch ... adds nothing"
  (`:1879`) is true of the roll-ups only.
- `storage.py:837`: the seed counts as adjacent however old it is, so the first
  five-minute bar after an outage shows all that was used in it.
- `storage.py:1978`: a counter that restarts within an hour loses what was used before
  it in that hour. `WholeHoursAddUp` is about restarts between buckets.
- `storage.py:608`: the power history has no fallback to the rated capacity, which the
  live figure has (`rack_state.py:46`); `README.md:142` calls it the same rule. The runs
  have a pack with a rating only, whose two figures may differ; both lie between the
  packs'.
- `api.py:539`: a PUT of the settings writes back all that it read, so one that overlaps
  another takes it back. `WritesOnlyItsFields` speaks of requests that no other write
  came between.
- `service.py:235`: after a long pause a single failed poll makes the collector
  offline, since the last contact aged meanwhile.
- `config.py:157`: `BQM_RETENTION_DAYS` has no upper limit, and `admin.py:218` returns
  it as it is, so above 3650 the panel shows a number of days that it cannot save.
- `config.py:260`: a profile whose battery is not reported takes the battery at its
  address, which is then on two cards (rack-2 and rack-4 of the default inventory).
- `admin.py:256`: saving the panel loses the form factors of
  `BQM_BATTERY_FORM_FACTORS`.
- `admin.py:351`: NaN passes the limits of the three float settings.
- `metrics.py:256`: after a failed poll the number of failed ranges, "in the latest
  inverter poll" (`:103`), is that of an earlier one.

## 4. Proofs

All theorems hold for every value of the constants that satisfies their
assumptions (`MaxStreams`, `MaxSeq`, `MaxPolls`, `PageSize`, `MaxPages`, `Gap` and
`Timeout` positive, `Loop` among `Tasks`, `NoSnapshot` not a snapshot, `None` neither
number nor reading, thresholds in the order `config.py` enforces, readings at finitely
many times given as naturals, with counters and powers that are naturals or missing; a
sweep has a range, ranges run upwards, and a snapshot takes at least two samples;
months have days, and a step of `Stride` days from the first of a month lands in the
next one; what is used, charged and reported is a natural or missing, of finitely many
packs; the environment names at least one battery).

| Theorem | For | Says |
|---|---|---|
| `HistoryStaysClose`, `LabelsAreReached`, `LabelsKeepStep`, `SequencesAreOrdered` | the collector | `HistoryOneAhead`, `LabelNotAhead`, both as `LabelsInStep`, `SamplesInOrder` |
| `PagesDeliverTheBuffer` | the collector, any cursor | `PagesCoverBuffer` |
| `TypeCorrect` | any tasks, any buffer modes | `TypeOK` |
| `MarkersBacked` | any tasks, any buffer modes | `MarkerBacked` |
| `ContentKept` | any tasks, any buffer modes | `RowsKeepContent` |
| `NothingIsOlder` | any tasks, any buffer modes | `NeverOlder` |
| `OnlyTheExcessIsLeft` | any tasks and modes, page size and number of pages | `LimitIsForExcess` |
| `PagesReachTheLiveSequence` | any tasks and modes, `[]BufferFits` | `PagesReach`: the pages left reach the sequence asked for, in the current stream |
| `ReplayLeavesNoGap`, `ReplayIsFaithful` | one task, buffer on, `[]BufferFits` | `NoGap`, `Faithful` |
| `ReplayRefines` | one task, buffer on, `[]BufferFits` | `ReplayPipeline` implements `SampleArchive` |
| `StateTypesCorrect` | any coroutines and requests | `StateTypeOK` |
| `NothingWrongIsSaid` | any interval, timeout, thresholds, clocks | `ConnectionIsTrue` |
| `LastingChangesAreNoticed` | one poll within `OfflineAfter`, two within `StaleAfter` | `ChangesAreNoticed` |
| `PanelIsRight` | the environment's values within the panel's limits, no NaN sent | `PanelShowsWhatHolds` |
| `ChangesKeepOtherFields` | any overlapping requests | `WritesOnlyItsFields` |
| `PollTypesCorrect` | any packs, payloads, transport, retries, powers | `PollTypeOK` |
| `InverterTypeCorrect`, `StatusIsTrue` | any transport, retries and bound on the wire | `InverterTypeOK`, `StatusTellsThePoll` |
| `RegistersAreTheirs` | the same, for the chunks the driver really reads | `RegistersAreTheirOwn` |
| `PacksAreThemselves` | Pylontech, `AnswersTellApart` | `PacksAreShownAsTheyAre` |
| `GaugesAgree` | any powers and order of readings | `GridGaugesAgree` |
| `RollupTypesCorrect` | any readings, cutoffs, page size and clock shift | `TypeOK` of `EnergyRollups` |
| `RollupsAreTheCounter` | the same | `RollupIsTheCounter` |
| `MaximaAreCovered` | the same | `MaximaCover` |
| `HolidaysAreOffPeak` | any year and day | a fixed holiday has no on-peak hours on the day it is observed, but New Year's Day on a Saturday |
| `MapTellsWhatIsThere` | any pages, losses and budget; nested ranges, a stride of 2 or ranges apart, `Stride <= EdgeRead + 1` | `MapIsTrueAndComplete` |
| `SettingIsAmongCandidates` | any ranges, pages, telemetry, losses, number of samples and splits | `RefusalHidesNoNeighbour`, `SettingIsFound` |
| `SnapshotsDropNothing` | the same, for ranges that share no register | `SnapshotsFindTheSetting` |
| `ProgramsAreTyped` | any ranges, budgets and faults | `ProgramTypeOK` |
| `ScreenIsRight`, `PatienceIsThree` | any refresh and number of faults | `ScreenMatches`, `GivenUpAfterThree` |
| `PagesAreTyped` | any months, tariff, window, packs and inventory | `PageTypeOK` |
| `BillsHold` | any months and seasons, rates, riders and uses, whatever is rolled up | `BillsAreOfTheEnergyUsed` |
| `BlocksHold` | the same | `BlocksAddUp` |
| `BarsHold` | any course of the counter, slots missed and window; `StartsAt > PerHour` | `BarsAddUp` |
| `RackHolds` | any packs and readings that agree with themselves (`Agrees`) | `RackIsItsPacks` |
| `CardsHold` | any list saved, any batteries; `BaseIdsDiffer` | `CardsAreTheBatteries` |

The hypotheses are what the findings, and counterexamples of TLC, show to be needed.
`Alone` is `Tasks = {Loop}` and a buffer that stays enabled. `BufferFits` is the page
limit of section 3. `LastingChangesAreNoticed` asks that `Gap + Timeout` (5 s and 5 s by
default) is below the 120 s of `OfflineAfter`, and twice that below the 30 s of
`StaleAfter`: `config.py` orders interval and thresholds but does not relate the timeout
to either. `BaseWithinLimits` and `NoNaNSent` exclude two of the disagreements above.
`BaseIdsDiffer` says that the ids in `BQM_BATTERY_IDS` differ, which `config.py:331`
reads without a look and `admin.py:392` refuses in a list that is saved. `Agrees` says
of a pack with a capacity that its state of charge is what it holds of what it can hold:
the rack's figure is made of ampere-hours, so without it the figure may lie outside
those the packs report. `StartsAt > PerHour` says that at the inverter's midnight the
counter stands higher than it rises within a bucket of the Date view; a counter that
restarts from less is overtaken before the next reading, and its restart not seen.

The argument for the replay, from the inside out (`ReplayInvariants`):

1. `TypeInv` adds to the types what a program counter says about the locals: a
   task past the identity check has a labelled snapshot, a page in hand has a
   stream, pages are counted below the limit. Without it not even the types are
   inductive, since `markers[snap.stream]` would be applied outside its domain.
2. `BackedInv` follows a label from the buffer through `Readings`, the page and
   the locals into the marker: every label anywhere has been *stored* (is of the
   current stream up to `newest`, or of an earlier one), and at `mark` and
   `writeMark` the row about to be named is in the archive, or was until it was
   erased. `MarkerBacked` alone is not inductive: the marker takes its value
   from a local variable.
3. `LoopInv` is the heart. `Cursor` says that all that is buffered up to the
   backfill's cursor is accounted for, that its page continues where the cursor
   stands and that a page without successor reaches the live sequence.
   `Settled` says that outside replay and without a recorded error the cached
   snapshot is at or below the marker; so `persist_once` of the loop either
   returns early or stays away because `last_backfill_error` is set, and a live
   write happens only for a stream that is no longer current or without a label.
   `NoGap` and `Faithful` are conjuncts of it.
4. `OneRowPerLabel` makes `RowsKeepContent` a statement about single rows.
5. `PagesReadInv` says that every page before the last is full, so that the cursor has
   moved, from where the backfill began (`begun`, history), by as many rows as there were
   full pages: all that `LimitIsForExcess` says; `PagesLeftInv` that the pages left hold the
   rows up to the live sequence. The rows cannot outrun them: the sequence asked for is
   fixed when the backfill starts, and pruning only shortens the way.
6. `RecentInv` follows the capture of a label from the readings into a task: a label's
   row in the buffer never shows a later poll than the readings that carry it, which is
   why a live write brings nothing older than history (`NeverOlder`).
7. The refinement shows each action to be one of `Sample`, `Expire`, `Renew`,
   `Keep`, `Move`, `Forget` or a stutter; `Move` of the marker is where
   `LoopInv` is used.

`PagesDeliverTheBuffer` is about a recursive function over the rows left. No induction
theorem of the library can be used here, since each takes an operator as parameter;
`LeastNatural` gets the same from well-foundedness: if some number of rows were read
wrongly there would be a least one, and a page takes at least one row off it.

`MonitorStateProofs` has two invariants, one for each part; the parts share no variable.
For the connection state the difficulty is time: an answer may be taken long after it
was given, from another coroutine than the loop. `TicksLeft` is the number of ticks after
which the loop has an answer (or a refusal) at the latest, and every tick takes one from
it. `ContactInv`, `OutageInv` and `WellInv` each say that the age of an event and the
ticks left stay within a limit together: the age grows by what the ticks left lose.
`OnlineInv` says that every reading, at the collector, under way or shown, is at least
as old as the last poll in which all batteries answered, if it says that they did. None
of the four properties is inductive: they speak of what is shown, and that was under
way before. For the settings the invariant says of each request that what it is about to
write holds its patch, and that as long as no other write came between (`fresh`) the
rest is what is stored.

`CollectorPollProofs` has an invariant for each part of the poll. For the inverter's
status the chunks before the one being read are cut into those taken and those given up
(`ChunksSettled`): "ok" is served when none was given up, and by then all were taken.
That registers are their own rests on lengths: every reply taken answers something that
was asked for and is as long as its chunk (`OwnInv`), and of the seven chunks and the
probe only one is as long as each of those that hold telemetry (60, 23 and 48 registers).
The proof computes the chunks from the driver's blocks (`ChunksAre`), so that a change to
a block or to `chunk_size` which breaks this breaks the proof. For the packs the
invariant follows a reply from the adapter into what is kept of a pack (`OwnKept`) and
into what is served (`Shown`). `AnswersTellApart` says that an answer to another command
is shorter than analog values of as many cells as its third byte says; `TooShortForAnalog`
shows that the analog parser then refuses it. The captured payloads are such, and so is an
empty one (`CapturedTellApart`); that it costs a pack its reading when it answers 0x93 is
what `OnlyTheSerialNumberCostsThePack` leaves out.
`NoneAssumption`, `PayloadAssumption` and `GaugeAssumption` say that `None` is neither a
number, nor a reading, nor a reply.

`EnergyRollupsProofs` proves what is true of the derived tables whatever is read, and
however live inserts, replayed pages, failures, retention, purges and backfills follow
each other. `RollupInv` relates each table to the rows:

1. `Exact`: a roll-up is the split of the day's rows, measured against one of its
   seeds, unless readings *with a counter* wait to be inserted again. `RollupExact`
   speaks of any reading that waits and is not inductive: `insert_snapshots` rebuilds
   only days it has a counter for, so a reading without one may stop being pending and
   leave its day as it was. `SameSplit` says that this does no harm, because a split
   passes over such readings.
2. `PeaksCover` and `DailyCover` are the two maxima, `PeakFits` and `DailyFits` what
   their rows are: a lit reading of the day, a time of the UTC day. Without these
   `prune_older_than_days`, which deletes a peak by its time and a counter by its day,
   could take a maximum of readings that stay.
3. A step keeps a day's roll-up (`RollKept`) or rebuilds it (`RollRebuilt`). A failed call
   keeps what it did not rebuild, because its readings are pending; retention keeps a
   roll-up only of a day that begins at or after the cutoff, all of whose rows stay.
4. `RollupIsTheCounter` follows with `SplitIsTheRise`: as long as the counter does not
   restart, what a split is measured against is the highest counter so far, and its
   periods sum to what that rose (`CreditedSoFar`). A glitch changes neither.
5. The days by which the splits are made: `HolidaysAreOffPeak` places the first of a year
   (`YearsFollow`, leap years included) and its holidays (`HolidaysWithin`), so that only
   the year after can have a holiday observed in this one.

Splits and maxima are folds over the readings of a page or a day. `FoldTheorems` gives
what is needed of them, for every set: a fold over a set is the operator applied to the
fold without the element picked last (`FoldStep`), and what a single element preserves,
all do (`FoldInduction`). Both are proved by the least size at which they would fail.

`ProgramsProofs` has an invariant for each program. That of the map (`SweepInv`) follows
the sweep through a range. `WalkOK` and `BisectOK` say where a walk stands: from edge to
edge every register has been read, and in a bisection the page ends between the best
read and the shortest refused one, so that the search stops at its last register.
`IslandsOK` says of a block already recorded that its edges are settled, by a refused
read or as a doubt. `Swept` is the heart: of the part of a range below the probe, every
page at least a stride wide and every page with a recorded register has been reported
(`RangeSoFar`), which what was read alone does not give. Of its hypotheses TLC shows
each to be needed. With `Stride > EdgeRead + 1` what a lost read leaves in doubt ends
below the next probe, and registers between are in no list; a later range that only
overlaps an earlier one skips the blocks walked in it, and so does one within it, if the
stride is above two. With the program's defaults (stride 8, reads of 60, one range, or
ranges that do not overlap) all hold.

That of the snapshots (`SnapInv`) keeps the chunks in the queue, the samples and the
baseline true of the device (`SnapTruth`), the registers read, refused, lost and queued a
partition of the ranges (`SnapParts`), and says of the samples of a snapshot that has
lost no chunk that they are of the one course (`SnapCourse`). The last is why a setting read in one sample is in
all of them: what a sample comes to follows from the chunks it starts with, because the
inverter's pages do not move and splits are counted anew. `LeadsTo` states this without
counting steps: a point leads to an end if it is in every set that has the end and,
with a point, the one before it; an end other than the first would give two such sets
that exclude each other (`CourseEnds`). That the ranges are cut into chunks without
overlap or gap is arithmetic (`ChunkStarts`) and an induction over the ranges
(`AllChunksAre`, with `FlattenIs` for the recursion in `FlattenSeq`). `SampledApart` is
needed by one conjunct: given twice on the command line, a register is read twice. What
`map` prints for `--range` shares none.

`PagesProofs` has four invariants, for inputs that share nothing (`PagesInv`). Little of
what it proves is about steps: the pages are computed from scratch, and the properties
say that two ways of computing agree.

1. *Bills* (`SavingsInv`: a day that was read has half a day behind it, and a roll-up
   holds no more than its day used). The tariff splits the energy by season and period,
   the bill by period and season, and the property by day: `OwnSeason` exchanges the
   sums. `RidersOut` shows that both bills of a window grow by the rider times the same
   energy, which leaves the saving between them as it was.
2. *Blocks.* The plan of a window is a recursion over days, from the window's first to
   the first of the next month and so on to its end. `ChainExists` shows that such a
   recursion defines a function, and `FromTheLast` is the induction from the last day
   down to any; with them `PlanOf` says that the plan holds the roll-ups of each month
   in the window, once. That the stride, which overshoots, neither passes a month nor
   stays in one is `NextMonthIs` and `NextMonthSplits`, from the lengths of the months.
3. *Bars* (`ViewsInv`: what was stored is the counter at that time, which is what was used
   since it last restarted). The buckets of a window are a grid (`GridIs`), each with
   the last reading in it (`SourceOf`, the seed standing for the bucket before the
   first), so that a bar is the rise between two readings. `BarsLow` bounds it by the
   two buckets; `HoursAddUp` adds up the bars of a window read throughout, one bucket
   after the other, with the restart at the edge of a bucket where the counter is its
   own rise.
4. *Rack* (`RackInv`, the types). A weighted mean lies between the least and the
   greatest of what it weighs (`SumsBounded`, for sums over any finite set of packs); in
   the history each pack's averages are sums of the same kind over its rows, six times
   which, for at most three rows, are whole numbers.
5. *Cards* (`InventoryInv`: ids are unique among the saved rows and among the batteries).
   A battery that no profile stands for gets a card of its own, and one that a profile
   stands for by its id has it; a profile whose battery is missing may show another's,
   but shows it as it is.

For the kiosk the invariant adds that the counter of failures counts
the last probes (`FailuresHeard`), and the proof shows of each round that the browser it
would leave with the wrong page is stopped by `Supervised` before anything is launched.
`KioskTypeInv` adds the types of the other variables, which the bounds on its times need.

## 5. Model-checked only

Liveness (`SamplesArrive`, `ArchiveFillsIn`, `MapEnds`, `KioskFollowsMonitor`) is out of
the prover's reach. `ArchiveFillsIn` is the only property of `EnergyRollups` not proved.
Of `Tariff` the observance of the fixed holidays is proved (`HolidaysAreOffPeak`: the day
that `holiday_over_new_year` finds is the only kind of day on which it fails), the seasons
and windows are not: they are tables, which the runs evaluate.

All invariants and action properties of the passing runs are proved, but for the
hypotheses in section 4. The inductions over data that these need (over the size of a set, the rows of a buffer, the days of a plan)
are each proved from well-foundedness for the set of numbers or days in question, since
the library's induction theorems take an operator that the provers cannot instantiate.

## 6. Assumptions and what is left out

Replay and store:

- Stored JSON is not corrupted: `read_after` drops rows it cannot parse, and the
  branches of `_backfill` for an empty page above the cursor and for a sequence
  that does not advance cannot be reached without that.
- A snapshot inserts all of its battery rows or none of them.
- What SQLite has committed stays, also over a power cut.
- The machine clocks do not step so far that an age-based prune deletes the
  newest row.
- In the replay modules a paused loop is a loop that takes no step; `resume`
  continues it. A 404 comes only from a collector without buffer, and the readings'
  contents are one value.
- In `EnergyRollups` a sample has the same content each time it arrives, the three
  counters are one (they go through the same code), there is one inverter, and no
  clock change falls into the days modelled. The six-decimal rounding is left out.
- `RollupExact` accepts any reading of the lookback as the seed of a day. A late
  reading of the evening before does not rebuild the day after it; replay delivers
  in order, so this takes history that returns after live writes.

The other parts:

- `PackBus`: checksums are right or wrong, framing is not modelled, and the
  registers of an Eco-worthy reply are one value. `collector_poll` has Pylontech packs.
- `InverterPoll`: a chunk's registers are one value (good, all undefined, out of
  range); scaling is left out.
- `LiveState`: the archive work between two polls fits into the poll interval; of the
  numbers only the thresholds' order (`config.py` enforces it) and a timeout of at least
  a tick are assumed.
- `AdminConfig`: one field of each kind, limits scaled down; the cut of names to 120
  characters is left out. The run has a `BQM_RETENTION_DAYS` within the panel's limit.
- `RackInventory`: names, models and IP addresses of batteries are left out.
- `RackSoc`: averages over at most three readings, no rounding.
- `IntervalViews`: one inverter, one counter, one restart.
- `Savings`: whole kWh and prices; tax, rounding to cents, and the shares and
  averages of the payload are left out; viewer and tariff share a time zone.
- `RegisterMap`, `RegisterSnapshot`: the device answers by pages and does not change
  during a sweep; a lost read says nothing.
- `Kiosk`: what a page loads once shown, and the waiting page's server, are left out.

Not modelled:

- sessions and logins (signed cookies and a table of failures that nothing else uses);
- weather, static files, the dashboard: cached I/O and drawing over the API;
- the store's read-only queries besides those named above, its events, statistics,
  exports, backup and schema upgrades;
- parsing of configuration, byte framing and checksums: functions of one input with
  tests of their own;
- host statistics, `pylontech_probe.py`, entry points: they keep no state;
- `deploy/`: shell around git and docker, whose steps are those of other programs.
