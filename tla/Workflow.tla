------------------------------- MODULE Workflow -------------------------------
(***************************************************************************)
(* The field-measurement workflow of the cockpit: placements, runs and the *)
(* durable event log in SQLite (cockpit/app/db.py), and the HTTP handlers  *)
(* and the sweep tick that write them (cockpit/app/main.py).               *)
(*                                                                         *)
(* Who runs concurrently:                                                  *)
(*   - `Threads`: FastAPI's thread pool, which runs the plain `def`        *)
(*     handlers start_run and relocate.  `task[t]` is the handler that     *)
(*     thread t is in, and where;                                          *)
(*   - the asyncio event loop, which runs the `async def` handlers         *)
(*     create_placement, stop_run, gateway_move, gateway_move_force, and   *)
(*     the sweep tick.  None of these awaits between its database calls,   *)
(*     so the loop is in one of them at a time: `loop`.                    *)
(* A Database method holds the RLock to its end: it is one step, except    *)
(* that it commits first and records its event after, so a crash may fall  *)
(* in between.  `unlogged` holds the events a method has still to record;  *)
(* while it is not empty the lock is held and nobody else can call in.     *)
(* Time is abstracted to the order of the steps: Sweep.tla models it.      *)
(***************************************************************************)
EXTENDS Naturals, Sequences, FiniteSets

CONSTANTS
  Devices,        \* device nodes
  Gateway,        \* the one gateway node
  Threads,        \* thread-pool workers, i.e. requests that can be in flight
  MaxRuns,        \* bound: run rows ever inserted
  MaxPlacements,  \* bound: placement rows ever inserted
  Segments,       \* number of SF segments of a sweep's schedule
  SingleOperator  \* TRUE: one browser tab, which awaits each answer, and
                  \* which places a device only when it has no running run
                  \* (sheet.js); FALSE: any client, any number of them

ASSUME WorkflowAssumption ==
  /\ Gateway \notin Devices
  /\ MaxRuns \in Nat /\ MaxPlacements \in Nat
  /\ Segments \in Nat \ {0}
  /\ SingleOperator \in BOOLEAN

Nodes        == Devices \cup {Gateway}
RunIds       == 1..MaxRuns
PlacementIds == 1..MaxPlacements
None         == 0           \* SQL NULL for an id; also the log of events without a run

RunStatus  == {"absent", "running", "done", "aborted"}
RunRow == [dev: Nodes, dpl: PlacementIds \cup {None}, gpl: PlacementIds \cup {None},
           sweep: BOOLEAN, seg: Nat, status: RunStatus, ended: Nat]
EventTypes == {"run_started", "run_stopped", "segment_changed", "relocated", "gateway_moved"}

VARIABLES
  placement,      \* id -> [node, open]; open stands for ended_at IS NULL
  nextPlacement,  \* the next AUTOINCREMENT id
  run,            \* id -> row; `ended` counts the writes of ended_at, 0 is NULL
  nextRun,
  log,            \* run id (or None) -> its events, in order of event.id
  unlogged,       \* events of the Database method that holds the lock
  lost,           \* history: runs of which a crash or a failed CSV write lost an event
  task,           \* thread -> the handler it executes
  loop            \* what the event loop executes

db   == <<placement, nextPlacement, run, nextRun>>
vars == <<placement, nextPlacement, run, nextRun, log, unlogged, lost, task, loop>>

Idle == [at |-> "idle", dev |-> Gateway, dpl |-> None, gpl |-> None, run |-> None]
TaskSteps == {"idle", "start.device", "start.gateway", "start.insert",
              "relocate.stop", "relocate.place", "relocate.insert", "relocate.event"}
LoopSteps == {"idle", "move.place", "force.place", "move.event", "tick"}
Snapshot  == [run: RunIds, seg: Nat]    \* what the tick keeps of a row

TypeOK ==
  /\ placement \in [PlacementIds -> [node: Nodes, open: BOOLEAN]]
  /\ nextPlacement \in 1..(MaxPlacements + 1)
  /\ run \in [RunIds -> RunRow]
  /\ nextRun \in 1..(MaxRuns + 1)
  /\ log \in [RunIds \cup {None} -> Seq(EventTypes)]
  /\ unlogged \subseteq [run: RunIds, type: EventTypes]
  /\ lost \subseteq RunIds
  /\ task \in [Threads -> [at: TaskSteps, dev: Nodes, dpl: PlacementIds \cup {None},
                           gpl: PlacementIds \cup {None}, run: RunIds \cup {None}]]
  /\ loop \in [at: LoopSteps, todo: SUBSET Snapshot]
  /\ \A r \in RunIds : r < nextRun => run[r].dpl # None /\ run[r].gpl # None   \* NOT NULL

NoRow == [dev |-> Gateway, dpl |-> None, gpl |-> None, sweep |-> FALSE, seg |-> 0,
          status |-> "absent", ended |-> 0]

Init ==
  /\ placement = [p \in PlacementIds |-> [node |-> Gateway, open |-> FALSE]]
  /\ nextPlacement = 1
  /\ run = [r \in RunIds |-> NoRow]
  /\ nextRun = 1
  /\ log = [r \in RunIds \cup {None} |-> <<>>]
  /\ unlogged = {}
  /\ lost = {}
  /\ task = [t \in Threads |-> Idle]
  /\ loop = [at |-> "idle", todo |-> {}]

-----------------------------------------------------------------------------
(***************************************************************************)
(* The Database methods.                                                   *)
(***************************************************************************)
(* Bug: the lock is released at the commit, before the events. *)
LockFreeAtCommit == TRUE

LockFree == unlogged = {}

(* The rows get_active_placement and get_active_run select from.  Neither  *)
(* query has an ORDER BY, so with several rows the answer is any of them.  *)
Running           == {r \in RunIds : run[r].status = "running"}
RunningOf(d)      == {r \in Running : run[r].dev = d}
FetchOne(rows)    == IF rows = {} THEN {None} ELSE rows
OpenPlacements(n) == {p \in PlacementIds : placement[p].node = n /\ placement[p].open}

(* Bug: the open placement is not closed. *)
CreatePlacementBeside(n) ==
  /\ nextPlacement <= MaxPlacements
  /\ placement' = [placement EXCEPT ![nextPlacement] = [node |-> n, open |-> TRUE]]
  /\ nextPlacement' = nextPlacement + 1

(* create_placement: close the node's open placement, open a new one. *)
CreatePlacement(n) ==
  /\ nextPlacement <= MaxPlacements
  /\ placement' = [p \in PlacementIds |->
       IF p = nextPlacement THEN [node |-> n, open |-> TRUE]
       ELSE IF placement[p].node = n THEN [placement[p] EXCEPT !.open = FALSE]
       ELSE placement[p]]
  /\ nextPlacement' = nextPlacement + 1

(* record_event called on its own, under its own acquisition of the lock. *)
RecordEvent(r, type) == log' = [log EXCEPT ![r] = Append(@, type)]

(* The UPDATE of stop_run: by id alone, whatever the status of the row. *)
Stopped(row, status) == [row EXCEPT !.status = status, !.ended = @ + 1]

StopRun(r) ==
  /\ run' = [run EXCEPT ![r] = Stopped(@, "done")]
  /\ unlogged' = {[run |-> r, type |-> "run_stopped"]}

(* Bug: only the sweeps are aborted. *)
AbortRunningSweeps ==
  LET sweeps == {r \in Running : run[r].sweep} IN
  /\ run' = [r \in RunIds |-> IF r \in sweeps THEN Stopped(run[r], "aborted") ELSE run[r]]
  /\ unlogged' = {[run |-> r, type |-> "run_stopped"] : r \in sweeps}

(* abort_running_runs: one commit for all the running runs. *)
AbortRunningRuns ==
  /\ run' = [r \in RunIds |->
       IF r \in Running THEN Stopped(run[r], "aborted") ELSE run[r]]
  /\ unlogged' = {[run |-> r, type |-> "run_stopped"] : r \in Running}

(* advance_run_segment: again by id alone. *)
AdvanceRunSegment(r, seg) ==
  /\ run' = [run EXCEPT ![r].seg = seg]
  /\ unlogged' = {[run |-> r, type |-> "segment_changed"]}

(* start_run inserts without looking for a running run of the device.  It  *)
(* commits, then writes the CSV header -- which may fail and raise, and    *)
(* then no event is recorded -- and then records run_started.              *)
InsertRun(dev, dpl, gpl, sweep, csvWritten) ==
  /\ nextRun <= MaxRuns
  /\ run' = [run EXCEPT ![nextRun] =
       [dev |-> dev, dpl |-> dpl, gpl |-> gpl, sweep |-> sweep, seg |-> 0,
        status |-> "running", ended |-> 0]]
  /\ nextRun' = nextRun + 1
  /\ unlogged' = IF csvWritten THEN {[run |-> nextRun, type |-> "run_started"]} ELSE {}
  /\ lost' = IF csvWritten THEN lost ELSE lost \cup {nextRun}

(* The end of a Database method: its events are recorded, the lock goes. *)
LogAndUnlock ==
  /\ ~LockFree
  /\ \E e \in unlogged : /\ RecordEvent(e.run, e.type)
                         /\ unlogged' = unlogged \ {e}
  /\ UNCHANGED <<db, lost, task, loop>>

-----------------------------------------------------------------------------
(***************************************************************************)
(* POST /api/run/start, in the thread pool: four database calls with the   *)
(* lock released between them.                                             *)
(***************************************************************************)
Busy(t) == task[t] # Idle
MayRequest == SingleOperator => (\A t \in Threads : ~Busy(t)) /\ loop.at \in {"idle", "tick"}
Goto(t, step) == task' = [task EXCEPT ![t].at = step]

(* Bug: no get_active_run. *)
StartUnchecked(t, d) ==
  /\ ~Busy(t) /\ MayRequest /\ LockFree
  /\ task' = [task EXCEPT ![t] = [Idle EXCEPT !.at = "start.device", !.dev = d]]
  /\ UNCHANGED <<db, log, unlogged, lost, loop>>

(* get_active_run: 409 "a run is already active for this device". *)
StartCheck(t, d) ==
  /\ ~Busy(t) /\ MayRequest /\ LockFree
  /\ RunningOf(d) = {}
  /\ task' = [task EXCEPT ![t] = [Idle EXCEPT !.at = "start.device", !.dev = d]]
  /\ UNCHANGED <<db, log, unlogged, lost, loop>>

(* _resolve_run_placements: two reads. *)
StartReadDevice(t) ==
  /\ task[t].at = "start.device" /\ LockFree
  /\ \E p \in FetchOne(OpenPlacements(task[t].dev)) :
       task' = [task EXCEPT ![t].at = "start.gateway", ![t].dpl = p]
  /\ UNCHANGED <<db, log, unlogged, lost, loop>>

StartReadGateway(t) ==
  /\ task[t].at = "start.gateway" /\ LockFree
  /\ \E p \in FetchOne(OpenPlacements(Gateway)) :
       task' = [task EXCEPT ![t] =
                 IF p = None \/ task[t].dpl = None THEN Idle      \* 409, missing placements
                 ELSE [@ EXCEPT !.at = "start.insert", !.gpl = p]]
  /\ UNCHANGED <<db, log, unlogged, lost, loop>>

StartInsert(t) ==
  /\ task[t].at = "start.insert" /\ LockFree
  /\ \E sweep, csvWritten \in BOOLEAN :
       InsertRun(task[t].dev, task[t].dpl, task[t].gpl, sweep, csvWritten)
  /\ task' = [task EXCEPT ![t] = Idle]
  /\ UNCHANGED <<placement, nextPlacement, log, loop>>

(***************************************************************************)
(* POST /api/relocate, in the thread pool.                                 *)
(***************************************************************************)
(* 409 when the gateway has no placement. *)
RelocateCheck(t, d) ==
  /\ ~Busy(t) /\ MayRequest /\ LockFree
  /\ \E g \in OpenPlacements(Gateway) :
       task' = [task EXCEPT ![t] = [Idle EXCEPT !.at = "relocate.stop", !.dev = d, !.gpl = g]]
  /\ UNCHANGED <<db, log, unlogged, lost, loop>>

(* stop_active_run_for_device: the read and the update under one lock. *)
RelocateStop(t) ==
  /\ task[t].at = "relocate.stop" /\ LockFree
  /\ \/ \E r \in RunningOf(task[t].dev) : StopRun(r)
     \/ RunningOf(task[t].dev) = {} /\ UNCHANGED <<run, unlogged>>
  /\ Goto(t, "relocate.place")
  /\ UNCHANGED <<placement, nextPlacement, nextRun, log, lost, loop>>

RelocatePlace(t) ==
  /\ task[t].at = "relocate.place" /\ LockFree
  /\ CreatePlacement(task[t].dev)
  /\ task' = [task EXCEPT ![t].at = "relocate.insert", ![t].dpl = nextPlacement]
  /\ UNCHANGED <<run, nextRun, log, unlogged, lost, loop>>

(* The new run is a fixed one: relocate passes no schedule. *)
RelocateInsert(t) ==
  /\ task[t].at = "relocate.insert" /\ LockFree
  /\ \E csvWritten \in BOOLEAN :
       /\ InsertRun(task[t].dev, task[t].dpl, task[t].gpl, FALSE, csvWritten)
       /\ task' = [task EXCEPT ![t] =
            IF csvWritten THEN [@ EXCEPT !.at = "relocate.event", !.run = nextRun] ELSE Idle]
  /\ UNCHANGED <<placement, nextPlacement, log, loop>>

RelocateEvent(t) ==
  /\ task[t].at = "relocate.event" /\ LockFree
  /\ RecordEvent(task[t].run, "relocated")
  /\ task' = [task EXCEPT ![t] = Idle]
  /\ UNCHANGED <<db, unlogged, lost, loop>>

-----------------------------------------------------------------------------
(***************************************************************************)
(* The async handlers, on the event loop.                                  *)
(***************************************************************************)
OnLoop(from)  == loop.at = from /\ LockFree
LoopTo(step)  == loop' = [at |-> step, todo |-> {}]
Requested     == OnLoop("idle") /\ MayRequest

(* POST /api/placement: any node, the gateway included, at any time.  The  *)
(* cockpit's own page sends it only for a device without a running run.    *)
Place(n) ==
  /\ Requested
  /\ SingleOperator => n # Gateway /\ RunningOf(n) = {}
  /\ CreatePlacement(n)
  /\ UNCHANGED <<run, nextRun, log, unlogged, lost, task, loop>>

(* POST /api/run/stop; 404 when nothing runs. *)
StopRequest(d) ==
  /\ Requested
  /\ \E r \in RunningOf(d) : StopRun(r)
  /\ UNCHANGED <<placement, nextPlacement, nextRun, log, lost, task, loop>>

(* Bug: no look at the running runs. *)
MoveUnchecked ==
  /\ Requested
  /\ LoopTo("move.place")
  /\ UNCHANGED <<db, log, unlogged, lost, task>>

(* POST /api/gateway/move: 409 while list_running_runs is not empty. *)
MoveCheck ==
  /\ Requested
  /\ Running = {}
  /\ LoopTo("move.place")
  /\ UNCHANGED <<db, log, unlogged, lost, task>>

(* POST /api/gateway/move/force. *)
ForceAbort ==
  /\ Requested
  /\ AbortRunningRuns
  /\ LoopTo("force.place")
  /\ UNCHANGED <<placement, nextPlacement, nextRun, log, lost, task>>

(* Both then create the placement and record the event. *)
MovePlace ==
  /\ OnLoop("move.place") \/ OnLoop("force.place")
  /\ CreatePlacement(Gateway)
  /\ LoopTo("move.event")
  /\ UNCHANGED <<run, nextRun, log, unlogged, lost, task>>

MoveEvent ==
  /\ OnLoop("move.event")
  /\ RecordEvent(None, "gateway_moved")
  /\ LoopTo("idle")
  /\ UNCHANGED <<db, unlogged, lost, task>>

-----------------------------------------------------------------------------
(***************************************************************************)
(* The sweep tick, on the event loop: it reads all the running runs once,  *)
(* then decides on the rows it read and writes by run id.  Between the     *)
(* read and a write, gRPC calls of many seconds may lie.                   *)
(***************************************************************************)
TickSnapshot ==
  /\ OnLoop("idle")
  /\ loop' = [at |-> "tick",
              todo |-> {[run |-> r, seg |-> run[r].seg] : r \in {q \in Running : run[q].sweep}}]
  /\ UNCHANGED <<db, log, unlogged, lost, task>>

(* The rows are taken in order of their id. *)
TickHeads == {s \in loop.todo : \A other \in loop.todo : s.run <= other.run}
TickPast(s) == loop' = [loop EXCEPT !.todo = @ \ {s}]

(* Not due yet, or an exception: caught, and the tick goes on. *)
TickSkip ==
  /\ OnLoop("tick")
  /\ \E s \in TickHeads : TickPast(s)
  /\ UNCHANGED <<db, log, unlogged, lost, task>>

TickAdvance ==
  /\ OnLoop("tick")
  /\ \E s \in TickHeads : /\ s.seg + 1 < Segments
                          /\ AdvanceRunSegment(s.run, s.seg + 1)
                          /\ TickPast(s)
  /\ UNCHANGED <<placement, nextPlacement, nextRun, log, lost, task>>

TickDone ==
  /\ OnLoop("tick")
  /\ \E s \in TickHeads : StopRun(s.run) /\ TickPast(s)
  /\ UNCHANGED <<placement, nextPlacement, nextRun, log, lost, task>>

TickEnd ==
  /\ OnLoop("tick") /\ loop.todo = {}
  /\ LoopTo("idle")
  /\ UNCHANGED <<db, log, unlogged, lost, task>>

(* The process dies and is started again: SQLite keeps what was committed. *)
Restart ==
  /\ unlogged' = {}
  /\ lost' = lost \cup {e.run : e \in unlogged}
  /\ task' = [t \in Threads |-> Idle]
  /\ LoopTo("idle")
  /\ UNCHANGED <<db, log>>

-----------------------------------------------------------------------------
StartHandler(t) ==
  \/ \E d \in Devices : StartCheck(t, d)
  \/ StartReadDevice(t) \/ StartReadGateway(t) \/ StartInsert(t)

RelocateHandler(t) ==
  \/ \E d \in Devices : RelocateCheck(t, d)
  \/ RelocateStop(t) \/ RelocatePlace(t) \/ RelocateInsert(t) \/ RelocateEvent(t)

LoopHandler ==
  \/ \E n \in Nodes : Place(n)
  \/ \E d \in Devices : StopRequest(d)
  \/ MoveCheck \/ ForceAbort \/ MovePlace \/ MoveEvent

Tick == TickSnapshot \/ TickSkip \/ TickAdvance \/ TickDone \/ TickEnd

Next ==
  \/ \E t \in Threads : StartHandler(t) \/ RelocateHandler(t)
  \/ LoopHandler
  \/ Tick
  \/ LogAndUnlock
  \/ Restart

Spec == Init /\ [][Next]_vars

-----------------------------------------------------------------------------
(***************************************************************************)
(* Properties.                                                             *)
(***************************************************************************)

(* "A node's physical location over time, only one active per node": two   *)
(* requests placing the same node never leave two rows with ended_at NULL, *)
(* so get_active_placement's fetchone has at most one row to choose.       *)
OnePlacementOpen ==
  \A p, q \in PlacementIds :
    placement[p].open /\ placement[q].open /\ placement[p].node = placement[q].node => p = q

(* A run aborted by a forced gateway move is never touched again: not by a *)
(* tick that read it while it was running (the tick and the handler share  *)
(* the event loop), nor by a relocate or a stop that is on its way.        *)
AbortedStaysAborted ==
  [][\A r \in RunIds : run[r].status = "aborted" => run'[r] = run[r]]_vars

Occurrences(r, type) ==
  Cardinality({i \in DOMAIN log[r] : log[r][i] = type})
    + (IF [run |-> r, type |-> type] \in unlogged THEN 1 ELSE 0)

(* The event log accounts for every change of a run row, in order, however *)
(* the handlers and the tick interleave: run_started first and once, one   *)
(* run_stopped for every write of ended_at, one segment_changed for every  *)
(* advance.  Only a crash between a commit and its event, or a CSV header  *)
(* that cannot be written, makes a run an exception.                       *)
LogAccountsForRuns ==
  \A r \in RunIds \ lost :
    /\ Occurrences(r, "run_started") = (IF run[r].status = "absent" THEN 0 ELSE 1)
    /\ Occurrences(r, "run_stopped") = run[r].ended
    /\ Occurrences(r, "segment_changed") = run[r].seg
    /\ log[r] # <<>> => log[r][1] = "run_started"

IdIn(rows) == CHOOSE id \in rows : TRUE
Here == [n \in Nodes |-> IF OpenPlacements(n) = {} THEN None ELSE IdIn(OpenPlacements(n))]

Field == INSTANCE FieldLog WITH status <- [r \in RunIds |-> run[r].status], here <- Here

(* The workflow implements the field log: a run that is over is over, an   *)
(* aborted run does not become a done one, a forced move aborts all the    *)
(* running runs in one step, a node is in one place.                       *)
ImplementsFieldLog == Field!FieldSpec

(* A device has at most one running run: what start_run's 409 "a run is    *)
(* already active for this device" (main.py:1396) is there for.  It holds  *)
(* for a single operator, not for two requests in flight.                  *)
OneRunningRun == \A q, r \in Running : run[q].dev = run[r].dev => q = r

(* A running run measures between the two places its row names: neither    *)
(* the device nor the gateway has been placed anew since it began.         *)
RunsMeasureWhereTheyAre ==
  \A r \in Running :
    /\ run[r].dpl \in OpenPlacements(run[r].dev)
    /\ run[r].gpl \in OpenPlacements(Gateway)
=============================================================================
