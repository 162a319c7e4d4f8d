# whz-lora: a verification development

`whz-lora` measures LoRaWAN reception in buildings. A Raspberry Pi carries a gateway, ChirpStack
and the *Feldtest-Cockpit*, a FastAPI application with which operators place devices, run
measurements (fixed, or timed sweeps over spreading factors) and read the results. This directory
holds TLA+ models of the cockpit, the TLC configurations that check them, and TLAPS proofs.

Paths below are relative to the repository; `db.py`, `main.py`, ... are in `cockpit/app/`.

## 1. The system

### Processes

| process | runs | where |
|---|---|---|
| event loop | every `async def` handler (none of them awaits between database calls), the sweep loop | `main.py` |
| thread pool | the plain `def` handlers: `start_run`, `relocate`, `set_phase`, `enqueue_downlink`, device registration | `main.py` |
| ingest thread | one MQTT event at a time: uplinks, acks, joins, txacks, gateway frames; QoS 0, clean session | `ingest.py` |
| ChirpStack | device profiles, downlink queues, acks | external, reached by gRPC (10 s timeout) and MQTT |
| browser pages | request sequences of the operator | `static/js/` |

They share one SQLite connection behind an `RLock` (`Database`), and `CampaignState` with a lock of
its own. A `Database` method is atomic with respect to the others; a handler that calls several is
not. The container is restarted by Docker (`restart: unless-stopped`).

### Components, their state and what makes them correct

| component | state | operations | correct when | module |
|---|---|---|---|---|
| field workflow | tables `placement`, `run`, `event` | start, stop, relocate, gateway move (guarded, forced), the tick's writes | one open placement per node; one running run per device, on its placements; runs end once; the log accounts for the rows | `Workflow`, `FieldLog` |
| sweep scheduler | `segment_index`, `segment_started_at`, `planned_seconds`; device profile | tick: advance or finish | never early, late by a bounded amount, ends; profile and row agree | `Sweep` |
| downlink test and recording | `packets`, CSV file, `dl_counts`; ChirpStack's queue | uplink, trigger, enqueue, ack | acked ≤ sent; an ack counts for its test; tests neither pile up nor get stuck; every packet is in the file | `DownlinkTest` |
| migration and durability | columns, `user_version`, backfilled events, the WAL | open an old database, kill, power loss | applied once, completely, before requests are served | `Migration` |
| RF environment log | `rf_frame`, `rf_stat`, live coexistence counters, known DevAddrs | classify, record, trim | the log is bounded and has the newest rows; counters and tables agree; what is called foreign is | `RfLog` |
| live events, SSE | subscribers, their bounded queues | subscribe, broadcast, deliver, disconnect | order without gaps; a full queue costs only its oldest | `LiveBus` |
| survey on the page | a throttle, a fetch in flight, a call that waits | message, tick, fetch, answer | what is shown never goes back and catches up | `LivePage` |
| live state | device metrics, campaign CSV, phase label | process events, `set_phase` | ratios are ratios; the label is the profile | the label only: `DeviceControl` |
| ChirpStack client | token cache; remote devices, tenant, application, profiles, downlinks | renew, provision, register, switch, enqueue, time out | rejections have a cause; edits survive; nothing happens twice | `ChirpStack`, `DeviceControl` |
| photos | `photo`, files, previews | upload, preview | limit per placement; a row has its photo; a preview is its photo's | `Photos` |
| event pages | `event`, the page's rows and cursor | fetch a page, append, start over | no event twice, none missing | `EventPage` |
| statistics | series of a run | pure functions of the rows | a packet counts for the segment it was measured in, up to the drift | the part that meets the clock: `Sweep` |
| floor plans | one file, marker positions | upload, place | a position belongs to its plan | not modelled |
| WireGuard failover | endpoint port, handshake age | cron job | does not flip a port that works | not modelled |

Not modelled at all: byte-level parsing in `lorawan.py` (stateless), rendering in the page,
deployment configuration and host set-up, documents, CAD and codecs. `PROJECT.json` lists every
component with its reason, and under `hazards` each place where the code is hard to test, with the
properties that cover it or a note why none does.

## 2. Plan

The order of work, all of it done:

1. `Workflow` + `FieldLog`, the core: the tables that are the measurement's evidence.
2. `DownlinkTest`, `Sweep`, `Migration`, `RfLog`, `LiveBus` with `LivePage` on top, `EventPage`.
3. `ChirpStack` with `DeviceControl` on top, `Photos`; the statistics' segments and expected times as
   operators in `Sweep`, related to what the tick did.
4. Proofs for each module, so that every safety property of a passing run has a theorem (section 6).

Left for whoever goes on: a composition of `Sweep`, `DownlinkTest` and ChirpStack's queue for one
device (their product does not fit a run, so it would start from the abstract promises); the campaign
CSV and the live metrics, if a property of them is ever relied on. `wg-endpoint-failover.sh` is not planned: what it does over time lies in WireGuard and
the mobile network, of which the repository says nothing.

## 3. The modules

**Workflow.** One action per database call of a handler. `task[t]` is the program counter of pool
thread `t`; `loop` that of the event loop. `get_active_run`/`get_active_placement` have no
`ORDER BY`, so with several rows any may be the answer. A method commits its rows first and records
its events in a second commit; `unlogged` holds the events in between, and while it is not empty
the `RLock` is held. `start_run` writes the CSV header after the commit, which may raise: the row
stays, the event is never recorded. `Restart` forgets the threads, the loop and `unlogged`.
`SingleOperator` is the environment of `sheet.js`: one page that awaits its answers, uses
`/api/relocate` when the device has a running run and `/api/placement` then `/api/run/start` when it
has none, and moves the gateway only by `/api/gateway/move(/force)`. Time is left out: a tick may
find any sweep due.

**FieldLog** is the abstract promise to readers of the tables: a run opens once, in order of its
number, and ends once and for good as done or aborted; a forced move aborts all open runs or none; a
node is in one place. `Workflow` implements it (`ImplementsFieldLog`) under the mapping of `run` to
its statuses and of `placement` to each node's open row.

**Sweep.** One device against a clock: `loop` is asleep until `wake`, or between the profile switch
and the write, with the clock reading it decided on. Each run has the SFs of its own request (`sfs`, one of
`Schedules`) and its own `planned_seconds`. `Bounds` are the nominal segment boundaries; they are the
same for all runs of an instance, although each request may have its own lengths: no time of one run
depends on the lengths of another, and the only thing that two runs share, the profile, is about SFs.
`Late` bounds how long the event loop keeps a due tick waiting and `Grpc` a profile switch; the clock
is wall-clock time that does not jump. Relocate and start run in threads, stop only between ticks.
`FiledUnder` and `CreditedTime` are the run statistics' segment of a packet and expected time of a
segment: both go by nominal bounds, whatever the tick does.

**DownlinkTest.** One device: the ingest thread between its calls (`ingest`), the run rows, and
ChirpStack's queue, which delivers in order and publishes an ack for each confirmed downlink. The
uplink, the trigger and the gRPC enqueue are three steps between which runs start, stop and advance.
`alone` remembers that there has been one run only, no other confirmed downlink and no failure: what
the comments promise of an ack holds exactly as long, which is a sweep after its own send-interval
downlink has been answered.

**Migration.** `wal` is the sequence of committed states since the last checkpoint; a kill keeps
it, a power loss keeps a prefix (WAL with `synchronous = NORMAL`). `ALTER TABLE` and
`PRAGMA user_version` commit on their own; the backfill is one transaction.

**RfLog.** A frame passes two sections of `CampaignState`'s lock, one `Database` method and a
broadcast; `ingest` says which of them is next, with the frame's class. The senders are own devices, whose
DevAddr changes with every join, and strangers. `known` is what the cockpit has learnt from join
events and from the fetch at start-up, either of which may miss a device's current session (`missed`). Only
the insert may fail in a living process, not the trimming after it. What `get_rf_environment` makes of
the rows is an aggregation under one lock, and not modelled.

**LiveBus.** A publisher (`_broadcast`) copies the subscriber list, then schedules one callback per
subscriber; `ready` is the event loop's queue of them, `queue[c]` the bounded queue of a connection.
A connection is open, gone (broken, but the generator has not noticed) or off. A message is its
publisher and its number.

**LivePage** extends it by the ingest thread's writes and by one page (`rf.js`, `sse.js`). The survey
is a version number; a fetch is answered with the version at the time the server handles it, and
answers come in any order. The 3 s of the throttle and the 30 s of the ticker may be any time.
A page of which a message was lost is served by the ticker. The page's other uses of the stream
(nodes, devices) are not in it.

**EventPage.** The log, `list_events` as a query by cursor and filter, and the page, which appends
whatever answer comes (`events.js`). `tangled` remembers that loads have overlapped: the properties of
the rows hold without, and only `NewestAppears` with it.

**Photos.** One placement. An upload is `reading` between the count its file name is derived from and
the rest of the handler, which has no `await`: file and row in one step (`Store`), or file and
`add_photo`'s refusal (`Refuse`), or a file only (`Break`: full disk, death). Previews are made on the
first request and kept by file times, which `Tick` lets be equal or not. `twice` remembers which
uploads held one number at once, `shown` what a browser that keeps answers has seen.

**ChirpStack.** The gRPC client. `call[t]` is the function thread `t` is in and the remote call that is
next; `Steps` is the control flow of the functions as a relation (function, remote call, answer, next
call). A remote call is answered, fails without effect, is rejected for its token (and the function
starts over once), or times out; then ChirpStack may still do it, at any later time (`late`). What
ChirpStack stores is `server`, marked external, with the answers the client relies on. A token is a
record of what became of it: whether ChirpStack accepts it, whether it was handed out with more than
the margin left, whether something excuses a rejection.

**DeviceControl** extends it by the callers: the start-up (ten attempts; tenant, application, profiles),
device registration, a single switch, a downlink, and `set_phase`, which lists the devices, switches them
one by one and writes the label last. `settled` and `alone` remember whether another writer of
profiles has come between.

Definitions whose comment begins with *Bug* are used by no specification. Each is a plausible slip
at that place in the code; the list `mutants` of `PROJECT.json` names the property that rejects it.

## 4. The runs

| run | bounds | shows |
|---|---|---|
| `workflow_concurrent` | 1 device, 2 threads, 2 runs, 3 placements | whatever the interleaving: one open placement per node, and `FieldLog` is implemented |
| `workflow_single_operator` | 2 devices, 1 thread, 2 runs, 3 placements, 2 segments | with one operator: one running run per device, measuring where its row says; the log accounts for every run row, stale ticks and crashes included |
| `two_runs_of_one_device` | smallest instance | finding, below |
| `sweep_schedule` | 3 unequal segments, the last shorter than the poll interval; plans below, at and above their sum; crashes, gRPC failures, `/api/phase` | no segment and no end is early, and the sweep ends |
| `sweep_drift` | 2 segments, 2 sweeps, each in one of two orders of SFs, no crash | lateness is bounded; what the last segment loses; what the statistics file elsewhere; the profile is the segment's, but for a first segment after a switch that a stopped run left behind |
| `downlink_test` | 2 runs, 5 packets in all, queue of 3, K = 2, two segments; other downlinks, crashes, gRPC and MQTT failures | acked ≤ sent; the file covers the counter; cadence; while `alone`, acks are the test's own; no piling up; every test is resolved |
| `migration_killed` | 2 old runs (one still running), 2 new, 2 columns, 6 commits between checkpoints | requests meet a migrated database; backfilled rows are complete; no event without its row |
| `rf_log` | a device with 2 joins, a stranger, retention 2, trimming every 2 inserts, 4 frames per process, one restart | the log is bounded and keeps its newest rows; counters and tables agree but for the frame in hand and for what failed; data of an own device is foreign only in a session whose DevAddr was missed |
| `live_page` | 2 publishers, 2 connections, queues of 1, 2 messages, 1 failure | no reader misses or reorders a message but by overflow; no trigger is lost; the survey on the page never goes back, and catches up |
| `event_page` | 5 events of 2 kinds, pages of 2, 2 requests in flight | pages fit together while events are recorded; the newest event appears |
| `photos` | 4 uploads (interchangeable), 2 formats, limit 2, clock 0..2 | the limit holds however uploads overlap; rows have their photo, or that of an upload that shared its name; previews show their photo |
| `device_control` | 2 threads (interchangeable), 1 device, 2 profiles, 1 fault, 2 attempts, 1 downlink | rejections have a cause; an edit is lost only to a switch it overlaps; nothing is queued or provisioned twice; the label is the profile after an undisturbed `set_phase` |

*Why the bounds are enough.* A race in `Workflow` is between two requests, or a request and the
loop, over one device or the gateway: two threads and one device have all of them, two devices add
what one operator's requests for one device do to the other's. Two runs let one be stale while the
other is current, three placements let a node be moved while a run holds the old place. A sweep's
three segments have a first, a middle and a last one; the poll interval is shorter than some
segments and longer than others. Two runs and a queue of three suffice for a late ack of the
run before, with a downlink of neither in between; five packets give a run two tests with K = 2. With retention 2 and
trimming every 2 inserts, four frames trim twice in one process, and dying before a trimming that is
due reaches the bound. In `live_page` two messages overflow a queue of one, whoever publishes them,
and a second connection opens while callbacks for the first are under way. Five events and pages of
two give a full last page, a partial one and a third page, under either filter. Four uploads overlap in threes while one has been stored, and with a limit of two, pass it. In
`device_control` a race is between two callers of one device or kind, or a caller and what a timed-out
request of its own left behind; calls for different devices commute but inside `set_phase`, where
a second device only repeats the loop (the proofs of section 6 have any number). One fault, at any point,
is a restart, a time-out, a clock jump or a revocation; it is the largest instance (5 million states,
about 100 s).

Every bound is a CONSTANT that appears as a guard; nothing else is cut off.

*Deadlock.* The runs that set `CHECK_DEADLOCK FALSE` stop only because a bound is used up.

*Fairness.* `Sweep!FairSpec`: the clock runs, the sweep task is scheduled again and again (asyncio
runs a ready task; its exceptions are caught), a started request finishes its switch (gRPC has a
timeout), and Docker restarts the container. `DownlinkTest!FairSpec`: the ingest thread finishes the
event it has, and ChirpStack resolves every queued confirmed downlink, if only with a NACK after its
last retry. `LivePage!FairSpec`: the page's ticker runs (`setInterval`), the server handles a request
it got, and a request is answered or fails; messages and connections are owed nothing.

## 5. Findings

Runs with expectation `violation` check what a comment or document of the repository says of the
code and find a counterexample; `PROJECT.json` quotes the line.

* `two_runs_of_one_device`: two start requests in flight, or a start and a relocate, give a device two
  running runs.

Further divergences that the models make visible, without a run of their own:

* `scheduler.py:118` has a finished run frozen at `ended_at`; `stop_run` updates by id without a look at
  the status (`db.py:871`), so a tick ends a run that a relocate ended already, and moves `ended_at`.
* `db.py:1121` makes an unrelated confirmed downlink's ack a no-op; while a test is pending, any
  confirmed downlink's ack counts for it, that of the sweep start's send-interval downlink included.
* `main.py:1148` calls photos immutable and lets browsers keep a preview for a year; two overlapping
  uploads get one file name (`main.py:1026`), and the preview of the first changes with the second.
* `main.py:911` keeps the label when some devices fail, so as not to mislabel; the devices that were
  switched are then measured under the old label, as are all after a restart, which sets it to `adr`
  (`state.py:205`), and those that a sweep or `start_run` switches on its own.
* `state.py:431` keeps acked/sent accurate over NACKs; acks of downlinks that were never counted as
  sent (the downlink test's own) count all the same.
* A recording that is stopped and started within one second truncates its file (`state.py:319`).
* `main.py:212` gives up after ten attempts, and nothing tries again until the next start (`degraded`).
* `_resolve_map_position` files a position under the plan that is current on the server, which need not
  be the plan the page showed (`main.py:668`).
* `main.py:1501` has `gateway_move` refuse while any run is running; a start, or a relocate, that inserts
  between its check (`main.py:1507`) and its placement leaves a run with the old place of the gateway.
* `db.py:316` says that restarting cannot repeat a migration, "e.g. the backfill"; the backfill is
  committed before its version (`db.py:448`, `db.py:452`), and a kill in between repeats it.
* `events.js:53` starts over from page 1, but a load that is under way is appended all the same: a
  page twice, or one of the filter before (`tangled` in `EventPage`).
* `sse.js:70` takes the join's row for recorded when the message comes; `ingest.py:177` broadcasts
  it before the row is written. A `nack` has no case in `sse.js`, so its row does not show (`sse.js:65`).
* Answers of `loadNodes` may overtake one another, and no reconnect of the stream loads the nodes
  again, although `app.js:38` counts on each message for it.

* `severity.js:29` takes a device's active run for the run of its current placement "by
  construction"; `/api/placement` does not look at the running runs (`Place` is enabled), and a start
  inserts with the placement it read before.
* A test of the run before that is still queued is not pending for the new run: its late ack clears
  the new run's `pending_sf`, and a second test follows the first (`db.py:1071` "never pile up").
* A failed gRPC enqueue leaves `pending_sf` set, so the run has no further tests (`EnqueueFails`).
* The tick switches the profile before it writes the segment (`TickSwitch`, `TickAdvance`), although
  `main.py:1331` has the state committed by then.
* `main.py:1358` switches a starting sweep "to the first segment's SF profile". The switch runs in a pool
  thread, after the insert (`main.py:1423`), and a stop does not wait for it: when a second sweep, with
  another first SF, is started before it is through, it may come last, and the second one is measured at the
  first SF of the first until its next segment (`StartSwitch`; the exception of `ProfileMatchesSegment`). A
  relocate in place of the second start leaves the new fixed run there for good. The send interval that
  the start enqueues (`main.py:1373`) can be late in the same way.
* `db.py:35` and `db.py:1239` call the RF log bounded by `RF_FRAME_RETENTION_MAX`. It exceeds it by
  up to 499 rows, and by up to 500 more for each restart since (`RetentionBounded` is the bound that holds).
* A device's first join-request is filed as a foreign vendor's (`state.py:606` asks for a known
  DevAddr, not for a registered device) and stays in the survey.
* Between a segment's nominal end and the tick that advances it, `liveRunProgress` in `run.js` shows
  the next segment, whatever the server says.

## 6. What is proved

All theorems are of the specifications as they stand, for every value of the constants that
satisfies the module's named assumption (finite schedules, natural bounds); none assumes fairness.
Those that hold under a further condition on the constants name it in their `ASSUME`. Every safety
property that a passing run checks has a theorem; the run shows it on a small instance and lets one see
that its mutants break it, the theorem shows it for all.

* `WorkflowProofs`: `TypeCorrect`, `OnePlacementPerNode`, `AbortedForGood`. The inductive invariant
  adds to the types what each program counter holds (a thread that is about to insert has ids of
  placements), that ids from `nextPlacement` and `nextRun` on are unused, and that while the loop is
  in a tick no forced move can be under way: an aborted run is in no snapshot.
  `LogIsComplete` needs no single operator. It is an account per run and type of event: what the log has
  seen, and what is still to be recorded by the method that wrote the row, make together what is due,
  which is at most one; what is due of a row's states is lost only with a request that died.
  `OneRunPerDevice` and `RunsStayOnTheirPlacements` hold under `SingleOperator = TRUE`. The strengthening
  ties the program counter of the one busy thread to the rows: from its check to its insert no run of its
  device is running and the placements it read are open.
  `Refinement`: every step of `Workflow` is a step of `FieldLog` or stutters.
* `SweepProofs`: `SegmentsNeverEarly`, `SweepsNeverEarly`, `BoundedDrift`, `SweepsEndOnTime`,
  `StatisticsFollow`, from an invariant that bounds, in each state of the loop, the age of the reading it decided on and the
  lateness of the segment, by `Poll + Late + Grpc` per segment. `LastSegmentIsMeasured` adds that a run
  its schedule has ended is never the one the tick has in hand; `ProfileIsTheSegments` (`~Phases`,
  `~Failures` and a switch shorter than the first segment) that the profile follows the segment of
  the run the tick or a start is about to switch, whatever stops and relocates come between. A start's switch
  that is still due belongs to the running run, or to one that has ended and was started less than `Grpc` before;
  none is due once a run has left its first segment (`NoneStarting`).
* `DownlinkTestProofs`: `AckedNeverExceedsSent`, `CsvHasEveryPacket`; a row-wise invariant in which a
  pending test counts as not yet acknowledged. `AcksAreAttributed`, `TestsDoNotPileUp`: while nothing
  disturbs a first run, its one test is with the ingest thread, or all of ChirpStack's queue, or its
  answer is in hand, and an acknowledgement in hand is one more than was counted (`Lonely`).
  `TestsKeepTheirCadence` holds for all runs: each test is paid for by K packets of its run, but for one,
  which a run that is started between the two database calls of an uplink gets for the packets of the
  run before it.
* `RfLogProofs`: `RetentionHolds`, `NewestRowsKept`, `CountersAlwaysAgree`, `SurveyOnlyForeign`. The
  strengthening for the retention counts the inserts since the last trimming as the remainder of this
  process's count and a full period for each process before; that for the survey follows a frame from
  its classification to its row, which a join in between does not change: a device whose last join event
  is handled is known by its current session, or that session is among the missed ones.
* `LivePageProofs`: `QuietPageIsFresh`, `SurveyOnlyAdvances`. The invariant has two parts. Of the
  bus: no message, scheduled, queued or to be scheduled, announces a version that is not written. Of the
  page: one fetch is in flight exactly while `loading`, and what the page was last told of is shown, on
  its way, or will be fetched by the timer or the call that waits. `NothingIsSkipped` follows the messages
  of one publisher to one client through their whole way, client's queue, then callbacks in order,
  then the fan-out that has not reached it: on it are consecutive numbers up to the last one published,
  and a step takes the head away (delivered, or dropped as the oldest), moves a message on, or adds the next number
  at the end (lemmas `HeadLeaves`, `CallbackRuns`, `CallbackScheduled`, `NextPublished`).
* `EventLogProofs`, of `Migration`: `TypeCorrect`, `ServesOnlyMigrated`, `BackfillIsComplete`,
  `EventsKeepTheirRows`. Since a power loss may make any committed state since the last checkpoint
  the current one, what is claimed of the database is claimed of every state in `wal`; what
  is claimed of the current one alone is what each phase of `init_schema` relies on, and that an event
  that is still to be recorded has its row, and is not there yet.
  Of `EventPage`: `PagesHoldEvents`, `PagesAlwaysFit`, `NewestAlwaysAppears`. A listing is
  the one descending sequence of a set (`ListingLists`, `OnlyListing`); the rows and an answer are each a
  stretch of the log with the truth about what lies below it, two stretches that meet at a cursor
  join to one (`StretchesJoin`), and recording an event changes no stretch (`StretchesStay`). For the newest event, which
  holds however loads overlap, the load the page has started over with is either answered or in flight.
* `PhotosProofs`: `TypeCorrect`, `PhotosStayBounded`, `RowsKeepPhotos`, `PreviewsAreTrue`. A number that a
  row has is held only by uploads that have met its own, so only those can write its file; of a row
  without such a rival the file and the preview stay as they were, whatever the file times say and
  whatever orphans there are.
* `DeviceControlProofs`: `TypeCorrect`, `RejectionsExplained`, `EditsAreKept`, `NothingDoneTwice`,
  `LabelIsRight`. Each has an invariant of
  its own over the shape of a call (which function a remote call belongs to, and on what). Tokens: every
  token in use is good, or excused, or was handed out early enough to outlast its request. Edits: an `Update`
  that is about to be sent, or is late, carries the device's name, or the name is written off. Downlinks:
  what is queued, asked for and delayed together never exceeds the calls of `enqueue_downlink`. Kinds:
  a `Create` that is under way has found none, and only the start-up makes one. Labels: what an
  undisturbed `set_phase` has not switched yet is still ahead of it.

The type invariants are proved (by theorems of their own or as part of `Invariance` and of the inductive
invariants), so no run checks them.

*Induction over data.* The library's induction theorems take an operator as a parameter and cannot be
instantiated here. So a sorted sequence is defined by the rank of its elements (`Listing` in `EventPage`), and
what there is to know of it follows from facts about cardinalities and injections.

*Only model-checked:* liveness (`SweepEnds`, `PendingIsResolved`, `SurveyCatchesUp`), which is beyond the
prover, and the counterexample of `two_runs_of_one_device`.

## 7. Assumptions and omissions

SQLite writes succeed; the clock does not jump, but in `ChirpStack`; ChirpStack acknowledges downlinks
in order. A gRPC call that times out may take effect late only in `ChirpStack` and `DeviceControl`; in
`Sweep` and `DownlinkTest` a call that fails had no effect. A request handler takes less time than the
margin by which tokens are renewed (300 s); with an API key instead of a login nothing ages, which is
the case in which `Age` is never taken. `Migration` leaves out placements and packets, which the backfill
does not read. Payloads, notes, names and positions are left out everywhere but for the device's
name in ChirpStack: no property depends on them.

Not modelled, and why: the campaign CSV and the live metrics (shown, never stored, and read by nothing);
txacks (they change only such metrics); floor plans (one file replaced as a whole, a position
that refers to it); what a power loss does to photo files (nothing syncs them, and no code looks);
`lorawan.py` (stateless decoding, covered by unit tests); history lists and averages (pure functions of the
rows); `wg-endpoint-failover.sh` (section 2); deployment, host set-up, documents, CAD and codecs.
