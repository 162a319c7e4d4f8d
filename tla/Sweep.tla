--------------------------------- MODULE Sweep ---------------------------------
(***************************************************************************)
(* A timed SF sweep of one device (cockpit/app/scheduler.py, and its glue  *)
(* in main.py): the background tick that advances a run from one SF        *)
(* segment to the next and ends it, against the clock.                     *)
(*                                                                         *)
(* The tick sleeps `Poll` seconds, decides on a clock reading `loop.now`,  *)
(* switches the device's ChirpStack profile by gRPC (which takes up to     *)
(* `Grpc` seconds and may fail), and only then writes the new segment,     *)
(* with the reading it decided on.  Request threads start, relocate and    *)
(* switch the profile beside it; the process may die and come back.        *)
(* `Late` bounds how long the event loop keeps a due tick waiting: the     *)
(* lateness of the program is an assumption of the bounds below, as is a   *)
(* clock that does not jump.  Each run has the SFs of its own request; the *)
(* lengths of the segments are those of `Bounds` in all of them.           *)
(***************************************************************************)
EXTENDS Integers

CONSTANTS
  N,         \* segments of a schedule
  Schedules, \* the SFs, segment by segment, that a start request may ask for
  Bounds,    \* the nominal offset at which each segment begins, and the last one ends
  Plans,     \* values of planned_seconds; on default the sum of the segments
  Poll,      \* POLL_INTERVAL_SECONDS
  Grpc,      \* longest duration of a profile switch
  Late,      \* longest delay of a due tick
  MaxRuns,   \* bound: sweeps started
  Horizon,   \* bound: no start, crash or downtime after this time
  MaxTime,   \* bound: the clock
  Phases,    \* TRUE: POST /api/phase is used during the sweep
  Failures   \* TRUE: gRPC calls fail and the process dies

ASSUME SweepAssumption ==
  /\ N \in Nat \ {0}
  /\ Schedules \subseteq [1..N -> Nat \ {0}]
  /\ Bounds \in [1..(N + 1) -> Nat] /\ Bounds[1] = 0
  /\ \A i, j \in 1..(N + 1) : i <= j => Bounds[i] <= Bounds[j]
  /\ Plans \subseteq Nat
  /\ Poll \in Nat \ {0} /\ Grpc \in Nat /\ Late \in Nat
  /\ MaxRuns \in Nat /\ Horizon \in Nat /\ MaxTime \in Nat
  /\ Phases \in BOOLEAN /\ Failures \in BOOLEAN

RunIds == 1..MaxRuns
None   == 0           \* no run; a profile that is none of the sweep's

Seconds(i) == Bounds[i + 1] - Bounds[i]

RunRow == [status: {"absent", "running", "done"}, reason: {"none", "operator", "schedule"},
           sfs: [1..N -> Nat], planned: Nat,
           started: Nat, seg: 1..N, segStarted: Nat, ended: Nat]

VARIABLES
  now,       \* the clock
  run,       \* id -> row
  fixed,     \* a run without schedule, from a relocate, is running
  profile,   \* the SF of the device's ChirpStack profile, external
  starting,  \* runs whose start_run has still to switch the profile
  loop,      \* the sweep task: [at, wake, run, now]
  up,        \* the process runs
  crashed    \* history: it has died

vars == <<now, run, fixed, profile, starting, loop, up, crashed>>

Profiles == {sfs[i] : sfs \in Schedules, i \in 1..N} \cup {None}

TypeOK ==
  /\ now \in Nat
  /\ run \in [RunIds -> RunRow]
  /\ fixed \in BOOLEAN
  /\ profile \in Nat
  /\ starting \subseteq RunIds
  /\ loop \in [at: {"asleep", "switch", "write"}, wake: Nat, run: RunIds \cup {None}, now: Nat]
  /\ loop.at # "asleep" => loop.run \in RunIds
  /\ up \in BOOLEAN /\ crashed \in BOOLEAN

NoRow == [status |-> "absent", reason |-> "none", sfs |-> [i \in 1..N |-> None], planned |-> 0,
          started |-> 0, seg |-> 1, segStarted |-> 0, ended |-> 0]
Asleep(wake) == [at |-> "asleep", wake |-> wake, run |-> None, now |-> 0]

Init ==
  /\ now = 0
  /\ run = [r \in RunIds |-> NoRow]
  /\ fixed = FALSE
  /\ profile = None
  /\ starting = {}
  /\ loop = Asleep(Poll)
  /\ up = TRUE /\ crashed = FALSE

Running == {r \in RunIds : run[r].status = "running"}

-----------------------------------------------------------------------------
(***************************************************************************)
(* The decision of evaluate_run_schedule, at clock reading t.              *)
(***************************************************************************)
PlanElapsed(t, row) == t - row.started >= row.planned

(* Bug: measured from the start of the run. *)
SegmentElapsedOfRun(t, row) == t - row.started >= Seconds(row.seg)

SegmentElapsed(t, row) == t - row.segStarted >= Seconds(row.seg)

(* Bugs: planned_seconds is not looked at; any segment is the last one;    *)
(* the last segment's time is not waited for; the plan ends only a run     *)
(* that is in its last segment.                                            *)
FinishedBySegmentsOnly(t, row) == SegmentElapsed(t, row) /\ row.seg = N
FinishedAnySegment(t, row)     == PlanElapsed(t, row) \/ SegmentElapsed(t, row)
FinishedAtLastSegment(t, row)  == PlanElapsed(t, row) \/ row.seg = N
FinishedInLastSegment(t, row)  == PlanElapsed(t, row) /\ row.seg = N

(* The plan comes first: it ends the run whatever the segment. *)
Finished(t, row)   == PlanElapsed(t, row) \/ (SegmentElapsed(t, row) /\ row.seg = N)
AdvanceDue(t, row) == ~PlanElapsed(t, row) /\ SegmentElapsed(t, row) /\ row.seg < N

-----------------------------------------------------------------------------
(***************************************************************************)
(* The tick.                                                               *)
(***************************************************************************)
Awake == up /\ loop.at = "asleep" /\ now >= loop.wake

(* Bug: two sleeps to a tick. *)
SleepTwice == loop' = Asleep(now + 2 * Poll)

(* asyncio.sleep counts from the end of the tick. *)
Sleep == loop' = Asleep(now + Poll)

TickNothing ==
  /\ Awake
  /\ \A r \in Running : ~Finished(now, run[r]) /\ ~AdvanceDue(now, run[r])
  /\ Sleep
  /\ UNCHANGED <<now, run, fixed, profile, starting, up, crashed>>

Ended(row, reason) == [row EXCEPT !.status = "done", !.reason = reason, !.ended = now]

TickDone(r) ==
  /\ Awake
  /\ r \in Running /\ Finished(now, run[r])
  /\ run' = [run EXCEPT ![r] = Ended(@, "schedule")]
  /\ Sleep
  /\ UNCHANGED <<now, fixed, profile, starting, up, crashed>>

TickDecide(r) ==
  /\ Awake
  /\ r \in Running /\ AdvanceDue(now, run[r])
  /\ loop' = [loop EXCEPT !.at = "switch", !.run = r, !.now = now]
  /\ UNCHANGED <<now, run, fixed, profile, starting, up, crashed>>

(* _switch_device_profile_best_effort: a failure is logged, never retried. *)
SwitchTo(sf) == profile' = sf \/ (Failures /\ profile' = profile)

(* Bug: the profile of the segment that is over. *)
TickSwitchToSame ==
  /\ up /\ loop.at = "switch"
  /\ SwitchTo(run[loop.run].sfs[run[loop.run].seg])
  /\ loop' = [loop EXCEPT !.at = "write"]
  /\ UNCHANGED <<now, run, fixed, starting, up, crashed>>

(* The next segment counts from the row the tick has read; nobody else     *)
(* writes it.                                                              *)
TickSwitch ==
  /\ up /\ loop.at = "switch"
  /\ SwitchTo(run[loop.run].sfs[run[loop.run].seg + 1])
  /\ loop' = [loop EXCEPT !.at = "write"]
  /\ UNCHANGED <<now, run, fixed, starting, up, crashed>>

(* advance_run_segment: by id, even if the run was ended meanwhile. *)
TickAdvance ==
  /\ up /\ loop.at = "write"
  /\ run' = [run EXCEPT ![loop.run].seg = @ + 1, ![loop.run].segStarted = loop.now]
  /\ Sleep
  /\ UNCHANGED <<now, fixed, profile, starting, up, crashed>>

-----------------------------------------------------------------------------
(***************************************************************************)
(* The requests.                                                           *)
(***************************************************************************)
(* start_run with a schedule inserts the run, then switches the profile.   *)
StartSweep(r, sfs, planned) ==
  /\ up /\ now <= Horizon
  /\ Running = {} /\ ~fixed
  /\ run[r].status = "absent" /\ \A q \in RunIds : q < r => run[q].status # "absent"
  /\ run' = [run EXCEPT ![r] = [status |-> "running", reason |-> "none", sfs |-> sfs, planned |-> planned,
                                started |-> now, seg |-> 1, segStarted |-> now, ended |-> 0]]
  /\ starting' = starting \cup {r}
  /\ UNCHANGED <<now, fixed, profile, loop, up, crashed>>

(* To the first SF of the request, even if the run was ended meanwhile and *)
(* another one has been started.                                           *)
StartSwitch(r) ==
  /\ up /\ r \in starting
  /\ SwitchTo(run[r].sfs[1])
  /\ starting' = starting \ {r}
  /\ UNCHANGED <<now, run, fixed, loop, up, crashed>>

(* stop_run is an async handler: never in the middle of a tick. *)
Stop ==
  /\ up /\ loop.at = "asleep"
  /\ Running # {} \/ fixed
  /\ run' = [r \in RunIds |-> IF r \in Running THEN Ended(run[r], "operator") ELSE run[r]]
  /\ fixed' = FALSE
  /\ UNCHANGED <<now, profile, starting, loop, up, crashed>>

(* relocate runs in a thread of its own; its new run has no schedule. *)
Relocate ==
  /\ up
  /\ run' = [r \in RunIds |-> IF r \in Running THEN Ended(run[r], "operator") ELSE run[r]]
  /\ fixed' = TRUE
  /\ UNCHANGED <<now, profile, starting, loop, up, crashed>>

(* POST /api/phase switches every device, whatever it is doing. *)
SetPhase ==
  /\ up /\ Phases
  /\ profile' \in Profiles
  /\ UNCHANGED <<now, run, fixed, starting, loop, up, crashed>>

-----------------------------------------------------------------------------
Crash ==
  /\ Failures /\ up /\ now <= Horizon
  /\ up' = FALSE /\ crashed' = TRUE
  /\ loop' = Asleep(0) /\ starting' = {}
  /\ UNCHANGED <<now, run, fixed, profile>>

(* The rows are in SQLite; the tick goes on with what they say. *)
Restart ==
  /\ ~up
  /\ up' = TRUE
  /\ loop' = Asleep(now + Poll)
  /\ UNCHANGED <<now, run, fixed, profile, starting, crashed>>

(* Time passes, but not beyond what the program does in time. *)
Pass ==
  /\ now < MaxTime
  /\ up /\ loop.at = "asleep" => now < loop.wake + Late
  /\ up /\ loop.at # "asleep" => now < loop.now + Grpc
  /\ \A r \in starting : now < run[r].started + Grpc
  /\ ~up => now <= Horizon
  /\ now' = now + 1
  /\ UNCHANGED <<run, fixed, profile, starting, loop, up, crashed>>

Tick == \/ TickNothing
        \/ \E r \in RunIds : TickDone(r) \/ TickDecide(r)
        \/ TickSwitch \/ TickAdvance

Request == \/ \E r \in RunIds :
                \/ StartSwitch(r)
                \/ \E sfs \in Schedules, planned \in Plans : StartSweep(r, sfs, planned)
           \/ Stop \/ Relocate \/ SetPhase

Next == Tick \/ Request \/ Crash \/ Restart \/ Pass

Spec == Init /\ [][Next]_vars

(* The clock runs, the sweep task is scheduled, and the container is       *)
(* restarted ("restart: unless-stopped").                                  *)
FairSpec == Spec /\ WF_vars(Tick) /\ WF_vars(Pass) /\ WF_vars(Restart)
                 /\ WF_vars(\E r \in RunIds : StartSwitch(r))

-----------------------------------------------------------------------------
(***************************************************************************)
(* The statistics, for an offset t from the start of a run.                *)
(***************************************************************************)
(* Bug: bounds that belong to the segment before. *)
FiledUnderClosedAbove(t) ==
  IF \E i \in 1..N : Bounds[i] < t /\ t <= Bounds[i + 1]
  THEN CHOOSE i \in 1..N : Bounds[i] < t /\ t <= Bounds[i + 1]
  ELSE N

(* The segment that a packet is counted for; from the last on, the last. *)
FiledUnder(t) ==
  IF \E i \in 1..N : Bounds[i] <= t /\ t < Bounds[i + 1]
  THEN CHOOSE i \in 1..N : Bounds[i] <= t /\ t < Bounds[i + 1]
  ELSE N

(* The part of a segment in which packets are expected. *)
CreditedTime(t, i) ==
  IF t <= Bounds[i] THEN 0 ELSE (IF t < Bounds[i + 1] THEN t ELSE Bounds[i + 1]) - Bounds[i]

-----------------------------------------------------------------------------
(***************************************************************************)
(* Properties.                                                             *)
(***************************************************************************)
MaxGap == Poll + Late + Grpc      \* from one decision of the tick to the next

(* A segment never begins before its nominal time, across ticks, failures  *)
(* and restarts; so _segment_index_for_offset never files a packet under a *)
(* segment that the device has left.                                       *)
NeverAheadOfPlan ==
  \A r \in RunIds : run[r].status # "absent" =>
    /\ run[r].started + Bounds[run[r].seg] <= run[r].segStarted
    /\ run[r].segStarted <= now

(* A run that ends by its schedule has lasted for its planned_seconds, or  *)
(* for all of its segments: no restart and no late tick shortens it.       *)
NeverDoneEarly ==
  \A r \in RunIds : run[r].reason = "schedule" =>
    \/ run[r].ended - run[r].started >= run[r].planned
    \/ run[r].ended - run[r].started >= Bounds[N + 1]

(* Drift: each segment begins late by at most one gap between decisions    *)
(* per segment before it, and is left after at most one gap and a switch   *)
(* too many, unless the process was down.                                  *)
DriftBounded ==
  ~crashed => \A r \in Running :
    /\ run[r].segStarted - run[r].started <= Bounds[run[r].seg] + (run[r].seg - 1) * MaxGap
    /\ now - run[r].segStarted <= Seconds(run[r].seg) + MaxGap + Grpc

(* What the last segment loses: when the plan is the sum of the segments,  *)
(* it is cut short by the drift of the others, and by no more; if it is    *)
(* shorter than that, it may not be measured at all.                       *)
LastSegmentMeasured ==
  ~crashed /\ (N - 1) * MaxGap < Seconds(N) => \A r \in RunIds :
    (run[r].reason = "schedule" /\ run[r].planned >= Bounds[N + 1]) =>
      /\ run[r].seg = N
      /\ run[r].ended - run[r].segStarted >= Seconds(N) - (N - 1) * MaxGap

(* A sweep is over at most one gap after its planned_seconds.              *)
EndsOnTime ==
  ~crashed => \A r \in Running : now - run[r].started <= run[r].planned + MaxGap

(* The statistics file by nominal bounds what is measured in segments that *)
(* begin and end late: a packet of now counts for the segment the run is   *)
(* in or, as far as that one has outlived its bounds by the drift, for a   *)
(* later one, never for an earlier one; and the time a packet is expected  *)
(* in differs from the time the run has been in its segment by no more     *)
(* than the drift.                                                         *)
StatsFollowTheSweep ==
  \A r \in Running :
    LET t == now - run[r].started
        s == run[r].seg IN
    /\ FiledUnder(t) >= s
    /\ ~crashed => /\ FiledUnder(t) > s => t <= Bounds[s + 1] + s * MaxGap + Grpc
                   /\ CreditedTime(t, s) - (now - run[r].segStarted) <= (s - 1) * MaxGap
                   /\ (now - run[r].segStarted) - CreditedTime(t, s) <= MaxGap + Grpc

(* The sweeps whose start may still have been switching the profile when   *)
(* that of r came: ended since, and started less than a switch before it.  *)
StartedJustBefore(r) ==
  {q \in RunIds : run[q].status = "done" /\ run[r].started <= run[q].started + Grpc}

(* Between two ticks the profile is the one of the run's segment, once     *)
(* start_run has switched it, provided every switch succeeds, nobody uses  *)
(* POST /api/phase, and segments are longer than a switch takes; but in    *)
(* its first segment, a run that was started less than a switch after one  *)
(* that was then stopped may be measured at the first SF of that one,      *)
(* whose switch came last.  The next segment puts it right.                *)
ProfileMatchesSegment ==
  loop.at = "asleep" => \A r \in Running \ starting :
    \/ profile = run[r].sfs[run[r].seg]
    \/ run[r].seg = 1 /\ \E q \in StartedJustBefore(r) : profile = run[q].sfs[1]

(* A sweep that is running ends, whatever calls fail and however often the *)
(* process dies.                                                           *)
SweepEnds == \A r \in RunIds : run[r].status = "running" ~> run[r].status = "done"
=============================================================================
