---------------------------- MODULE WorkflowProofs ----------------------------
(***************************************************************************)
(* What Workflow.tla guarantees for every number of devices, threads,      *)
(* runs, placements and segments, and for every client.                    *)
(***************************************************************************)
EXTENDS Workflow, FiniteSetTheorems, TLAPS

(* A handler that is about to insert a run has found both placements. *)
TasksHoldPlacements ==
  \A t \in Threads :
    /\ task[t].at = "start.insert" => task[t].dpl # None /\ task[t].gpl # None
    /\ task[t].at \in {"relocate.stop", "relocate.place", "relocate.insert"} => task[t].gpl # None
    /\ task[t].at = "relocate.insert" => task[t].dpl # None

(* The ids are handed out in order, and the next one is free. *)
FreshPlacements == \A p \in PlacementIds : p >= nextPlacement => ~placement[p].open
FreshRuns == \A r \in RunIds : run[r].status = "absent" <=> r >= nextRun

(* Only a tick has rows to go through, and none of them was aborted since: *)
(* a forced move does not run while the loop is in a tick.                 *)
TicksOwnRuns ==
  /\ loop.at # "tick" => loop.todo = {}
  /\ \A s \in loop.todo : run[s.run].status \in {"running", "done"}

Inv ==
  /\ TypeOK /\ TasksHoldPlacements
  /\ FreshPlacements /\ OnePlacementOpen
  /\ FreshRuns /\ TicksOwnRuns

-----------------------------------------------------------------------------
LEMMA InitInv == Init => Inv
  <1> SUFFICES ASSUME Init PROVE Inv
    OBVIOUS
  <1> USE WorkflowAssumption DEF Init, Nodes, RunIds, PlacementIds, None
  <1>1. TypeOK
    <2>1. placement \in [PlacementIds -> [node: Nodes, open: BOOLEAN]]
      OBVIOUS
    <2>2. run \in [RunIds -> RunRow]
      BY DEF NoRow, RunRow, RunStatus
    <2>3. task \in [Threads -> [at: TaskSteps, dev: Nodes, dpl: PlacementIds \cup {None},
                               gpl: PlacementIds \cup {None}, run: RunIds \cup {None}]]
      BY DEF Idle, TaskSteps
    <2>4. loop \in [at: LoopSteps, todo: SUBSET Snapshot]
      BY DEF LoopSteps
    <2>5. log \in [RunIds \cup {None} -> Seq(EventTypes)]
      OBVIOUS
    <2>6. /\ nextPlacement \in 1..(MaxPlacements + 1) /\ nextRun \in 1..(MaxRuns + 1)
          /\ \A r \in RunIds : ~(r < nextRun)
      OBVIOUS
    <2> QED
      BY <2>1, <2>2, <2>3, <2>4, <2>5, <2>6 DEF TypeOK
  <1>2. TasksHoldPlacements
    BY DEF TasksHoldPlacements, Idle
  <1>3. FreshPlacements /\ OnePlacementOpen
    BY DEF FreshPlacements, OnePlacementOpen
  <1>4. FreshRuns /\ TicksOwnRuns
    BY DEF FreshRuns, TicksOwnRuns, NoRow
  <1> QED
    BY <1>1, <1>2, <1>3, <1>4 DEF Inv

-----------------------------------------------------------------------------
(* The placement table is written by create_placement alone, and not       *)
(* together with the run table.                                            *)
LEMMA PlacementWriters ==
  ASSUME TypeOK, [Next]_vars
  PROVE  \/ UNCHANGED <<placement, nextPlacement>>
         \/ UNCHANGED <<run, nextRun>> /\ \E n \in Nodes : CreatePlacement(n)
  <1>1. ASSUME NEW t \in Threads, StartHandler(t)
        PROVE  UNCHANGED <<placement, nextPlacement>>
    BY <1>1 DEF StartHandler, StartCheck, StartReadDevice, StartReadGateway, StartInsert, db
  <1>2. ASSUME NEW t \in Threads, RelocateHandler(t)
        PROVE  \/ UNCHANGED <<placement, nextPlacement>>
               \/ UNCHANGED <<run, nextRun>> /\ \E n \in Nodes : CreatePlacement(n)
    <2>1. CASE RelocatePlace(t)
      BY <2>1 DEF RelocatePlace, TypeOK
    <2>2. CASE ~RelocatePlace(t)
      BY <1>2, <2>2 DEF RelocateHandler, RelocateCheck, RelocateStop, RelocateInsert,
                        RelocateEvent, db
    <2> QED
      BY <2>1, <2>2
  <1>3. ASSUME LoopHandler
        PROVE  \/ UNCHANGED <<placement, nextPlacement>>
               \/ UNCHANGED <<run, nextRun>> /\ \E n \in Nodes : CreatePlacement(n)
    BY <1>3 DEF LoopHandler, Place, StopRequest, MoveCheck, ForceAbort, MovePlace, MoveEvent,
                db, Nodes
  <1>4. ASSUME Tick \/ LogAndUnlock \/ Restart \/ UNCHANGED vars
        PROVE  UNCHANGED <<placement, nextPlacement>>
    BY <1>4 DEF Tick, TickSnapshot, TickSkip, TickAdvance, TickDone, TickEnd, LogAndUnlock,
                Restart, db, vars
  <1> QED
    BY <1>1, <1>2, <1>3, <1>4 DEF Next

LEMMA PlacementStep ==
  ASSUME Inv, [Next]_vars
  PROVE  FreshPlacements' /\ OnePlacementOpen'
  <1> USE DEF Inv, FreshPlacements, OnePlacementOpen
  <1>1. CASE UNCHANGED <<placement, nextPlacement>>
    BY <1>1
  <1>2. ASSUME NEW n \in Nodes, CreatePlacement(n)
        PROVE  FreshPlacements' /\ OnePlacementOpen'
    <2>1. /\ nextPlacement \in Nat /\ nextPlacement' = nextPlacement + 1
          /\ PlacementIds \subseteq Nat
      BY <1>2, WorkflowAssumption DEF CreatePlacement, TypeOK, PlacementIds
    <2>2. \A p \in PlacementIds : placement[p] \in [node: Nodes, open: BOOLEAN]
      BY DEF TypeOK
    <2>3. ASSUME NEW p \in PlacementIds
          PROVE  /\ placement'[p].node = IF p = nextPlacement THEN n ELSE placement[p].node
                 /\ placement'[p].open <=> \/ p = nextPlacement
                                           \/ placement[p].open /\ placement[p].node # n
      <3>1. placement'[p] = IF p = nextPlacement THEN [node |-> n, open |-> TRUE]
                            ELSE IF placement[p].node = n THEN [placement[p] EXCEPT !.open = FALSE]
                                 ELSE placement[p]
        BY <1>2 DEF CreatePlacement
      <3>2. CASE p = nextPlacement
        <4>1. placement'[p].node = n /\ placement'[p].open = TRUE
          BY <3>1, <3>2
        <4> QED
          BY <3>2, <4>1
      <3>3. CASE p # nextPlacement /\ placement[p].node = n
        BY <3>1, <3>3, <2>2
      <3>4. CASE p # nextPlacement /\ placement[p].node # n
        BY <3>1, <3>4
      <3> QED
        BY <3>2, <3>3, <3>4
    <2>4. FreshPlacements'
      <3>1. \A p \in PlacementIds :
              p >= nextPlacement' => p # nextPlacement /\ p >= nextPlacement
        BY <2>1
      <3> QED
        BY <3>1, <2>3, Zenon
    <2>5. OnePlacementOpen'
      BY <2>1, <2>3
    <2> QED
      BY <2>4, <2>5
  <1> QED
    BY <1>1, <1>2, PlacementWriters

(* After create_placement the node has exactly its new placement open. *)
LEMMA PlacementsAfter ==
  ASSUME Inv, NEW n \in Nodes, CreatePlacement(n)
  PROVE  /\ OpenPlacements(n)' = {nextPlacement}
         /\ \A m \in Nodes : m # n => OpenPlacements(m)' = OpenPlacements(m)
  <1>1. /\ nextPlacement \in PlacementIds
        /\ placement' = [p \in PlacementIds |->
             IF p = nextPlacement THEN [node |-> n, open |-> TRUE]
             ELSE IF placement[p].node = n THEN [placement[p] EXCEPT !.open = FALSE]
             ELSE placement[p]]
    BY WorkflowAssumption DEF CreatePlacement, Inv, TypeOK, PlacementIds
  <1>2. /\ placement'[nextPlacement].node = n
        /\ placement'[nextPlacement].open = TRUE
    BY <1>1
  <1>3. ASSUME NEW p \in PlacementIds, p # nextPlacement, placement[p].node = n
        PROVE  placement'[p].node = n /\ placement'[p].open = FALSE
    BY <1>1, <1>3 DEF Inv, TypeOK
  <1>4. ASSUME NEW p \in PlacementIds, p # nextPlacement, placement[p].node # n
        PROVE  placement'[p] = placement[p]
    BY <1>1, <1>4
  <1>5. ~placement[nextPlacement].open
    BY <1>1 DEF Inv, FreshPlacements, TypeOK
  <1>6. OpenPlacements(n)' = {nextPlacement}
    BY <1>1, <1>2, <1>3, <1>4 DEF OpenPlacements
  <1>7. ASSUME NEW m \in Nodes, m # n PROVE OpenPlacements(m)' = OpenPlacements(m)
    BY <1>1, <1>2, <1>3, <1>4, <1>5, <1>7, Zenon DEF OpenPlacements
  <1> QED
    BY <1>6, <1>7

-----------------------------------------------------------------------------
(***************************************************************************)
(* The run table: a running run is stopped, a run that the tick has read   *)
(* is stopped or advanced, all the running runs are aborted, or the next   *)
(* row is inserted.                                                        *)
(***************************************************************************)
TickWrites ==
  /\ loop.at = "tick" /\ nextRun' = nextRun
  /\ \E s \in loop.todo : \/ StopRun(s.run)
                          \/ AdvanceRunSegment(s.run, s.seg + 1) /\ TickPast(s)

StopsRunning == nextRun' = nextRun /\ \E r \in Running : StopRun(r)

AbortsRunning == /\ AbortRunningRuns /\ nextRun' = nextRun
                 /\ loop.at = "idle" /\ loop'.todo = {}

Inserts ==
  \E dev \in Nodes, dpl, gpl \in PlacementIds, sweep, csvWritten \in BOOLEAN :
    InsertRun(dev, dpl, gpl, sweep, csvWritten)

LEMMA RunWriters ==
  ASSUME Inv, [Next]_vars
  PROVE  UNCHANGED <<run, nextRun>> \/ TickWrites \/ StopsRunning \/ AbortsRunning \/ Inserts
  <1> DEFINE Goal == UNCHANGED <<run, nextRun>> \/ TickWrites \/ StopsRunning
                     \/ AbortsRunning \/ Inserts
  <1>1. ASSUME NEW t \in Threads, StartHandler(t) PROVE Goal
    <2>1. CASE StartInsert(t)
      <3>1. /\ task[t].dev \in Nodes
            /\ task[t].dpl \in PlacementIds /\ task[t].gpl \in PlacementIds
        BY <2>1 DEF StartInsert, Inv, TypeOK, TasksHoldPlacements
      <3> QED
        BY <2>1, <3>1 DEF StartInsert, Inserts
    <2>2. CASE ~StartInsert(t)
      BY <1>1, <2>2 DEF StartHandler, StartCheck, StartReadDevice, StartReadGateway, db
    <2> QED
      BY <2>1, <2>2
  <1>2. ASSUME NEW t \in Threads, RelocateHandler(t) PROVE Goal
    <2>1. CASE RelocateInsert(t)
      <3>1. /\ task[t].dev \in Nodes
            /\ task[t].dpl \in PlacementIds /\ task[t].gpl \in PlacementIds
        BY <2>1 DEF RelocateInsert, Inv, TypeOK, TasksHoldPlacements
      <3> QED
        BY <2>1, <3>1 DEF RelocateInsert, Inserts
    <2>2. CASE RelocateStop(t)
      BY <2>2 DEF RelocateStop, RunningOf, StopsRunning
    <2>3. CASE ~RelocateInsert(t) /\ ~RelocateStop(t)
      BY <1>2, <2>3 DEF RelocateHandler, RelocateCheck, RelocatePlace, RelocateEvent, db
    <2> QED
      BY <2>1, <2>2, <2>3
  <1>3. ASSUME LoopHandler PROVE Goal
    <2>1. ASSUME NEW d \in Devices, StopRequest(d) PROVE Goal
      BY <2>1 DEF StopRequest, RunningOf, StopsRunning
    <2>2. CASE ForceAbort
      BY <2>2 DEF ForceAbort, Requested, OnLoop, LoopTo, AbortsRunning
    <2> QED
      BY <1>3, <2>1, <2>2 DEF LoopHandler, Place, MoveCheck, MovePlace, MoveEvent, db
  <1>4. ASSUME Tick PROVE Goal
    BY <1>4 DEF Tick, TickSnapshot, TickSkip, TickAdvance, TickDone, TickEnd, TickHeads,
                OnLoop, TickWrites, db
  <1>5. ASSUME LogAndUnlock \/ Restart \/ UNCHANGED vars PROVE Goal
    BY <1>5 DEF LogAndUnlock, Restart, db, vars
  <1> QED
    BY <1>1, <1>2, <1>3, <1>4, <1>5 DEF Next

(* Only the tick's own read adds to what it goes through. *)
LEMMA LoopWriters ==
  ASSUME TypeOK, [Next]_vars
  PROVE  \/ TickSnapshot
         \/ loop' = loop
         \/ loop.at = "tick" /\ loop'.at = "tick" /\ loop'.todo \subseteq loop.todo
         \/ loop'.todo = {}
  <1> DEFINE Goal == \/ TickSnapshot
                     \/ loop' = loop
                     \/ loop.at = "tick" /\ loop'.at = "tick" /\ loop'.todo \subseteq loop.todo
                     \/ loop'.todo = {}
  <1>1. ASSUME NEW t \in Threads, StartHandler(t) \/ RelocateHandler(t) PROVE Goal
    BY <1>1 DEF StartHandler, StartCheck, StartReadDevice, StartReadGateway, StartInsert,
                RelocateHandler, RelocateCheck, RelocateStop, RelocatePlace, RelocateInsert,
                RelocateEvent
  <1>2. ASSUME LoopHandler PROVE Goal
    BY <1>2 DEF LoopHandler, Place, StopRequest, MoveCheck, ForceAbort, MovePlace, MoveEvent,
                LoopTo
  <1>3. ASSUME Tick PROVE Goal
    <2>1. ASSUME NEW s, OnLoop("tick"), TickPast(s)
          PROVE  loop.at = "tick" /\ loop'.at = "tick" /\ loop'.todo \subseteq loop.todo
      <3>1. loop'.at = loop.at /\ loop'.todo = loop.todo \ {s}
        BY <2>1 DEF TickPast, TypeOK
      <3> QED
        BY <2>1, <3>1 DEF OnLoop
    <2> QED
      BY <1>3, <2>1 DEF Tick, TickSkip, TickAdvance, TickDone, TickEnd, LoopTo
  <1>4. ASSUME LogAndUnlock \/ Restart \/ UNCHANGED vars PROVE Goal
    BY <1>4 DEF LogAndUnlock, Restart, LoopTo, vars
  <1> QED
    BY <1>1, <1>2, <1>3, <1>4 DEF Next

(* A run's status: what one step may do to it. *)
LEMMA StatusStep ==
  ASSUME Inv, [Next]_vars
  PROVE  /\ \/ nextRun' = nextRun
            \/ nextRun' = nextRun + 1 /\ nextRun \in RunIds /\ run'[nextRun].status = "running"
         /\ \A r \in RunIds :
              \/ run'[r].status = run[r].status
              \/ run[r].status = "running" /\ run'[r].status = "done"
              \/ /\ run[r].status = "running" /\ run'[r].status = "aborted"
                 /\ loop.at = "idle" /\ loop'.todo = {}
              \/ r = nextRun /\ nextRun' = nextRun + 1
  <1>1. run \in [RunIds -> RunRow]
    BY DEF Inv, TypeOK
  <1>2. CASE UNCHANGED <<run, nextRun>>
    BY <1>2
  <1>3. CASE TickWrites
    <2>1. PICK s \in loop.todo : StopRun(s.run) \/ AdvanceRunSegment(s.run, s.seg + 1)
      BY <1>3 DEF TickWrites
    <2>2. s.run \in RunIds /\ run[s.run].status \in {"running", "done"}
      BY <1>3 DEF TickWrites, Inv, TypeOK, TicksOwnRuns, Snapshot
    <2>3. CASE StopRun(s.run)
      BY <1>1, <1>3, <2>2, <2>3 DEF TickWrites, StopRun, Stopped, RunRow
    <2>4. CASE AdvanceRunSegment(s.run, s.seg + 1)
      BY <1>1, <1>3, <2>2, <2>4 DEF TickWrites, AdvanceRunSegment, RunRow
    <2> QED
      BY <2>1, <2>3, <2>4
  <1>4. CASE StopsRunning
    BY <1>1, <1>4 DEF StopsRunning, StopRun, Stopped, Running, RunRow
  <1>5. CASE AbortsRunning
    <2>1. ASSUME NEW r \in RunIds
          PROVE  run'[r].status = IF r \in Running THEN "aborted" ELSE run[r].status
      BY <1>1, <1>5 DEF AbortsRunning, AbortRunningRuns, Stopped, RunRow
    <2> QED
      BY <1>5, <2>1 DEF AbortsRunning, Running
  <1>6. CASE Inserts
    <2>1. /\ nextRun \in RunIds /\ nextRun' = nextRun + 1 /\ run'[nextRun].status = "running"
          /\ \A r \in RunIds : r # nextRun => run'[r] = run[r]
      BY <1>1, <1>6, WorkflowAssumption DEF Inserts, InsertRun, Inv, TypeOK, RunIds
    <2> QED
      BY <2>1
  <1> QED
    BY <1>2, <1>3, <1>4, <1>5, <1>6, RunWriters

LEMMA RunStep ==
  ASSUME Inv, [Next]_vars
  PROVE  FreshRuns' /\ TicksOwnRuns'
  <1>1. nextRun \in Nat /\ RunIds \subseteq Nat
    BY WorkflowAssumption DEF Inv, TypeOK, RunIds
  <1>2. FreshRuns'
    <2> SUFFICES ASSUME NEW r \in RunIds
                 PROVE  run'[r].status = "absent" <=> r >= nextRun'
      BY DEF FreshRuns
    <2>1. run[r].status = "absent" <=> r >= nextRun
      BY DEF Inv, FreshRuns
    <2> QED
      BY <1>1, <2>1, StatusStep
  <1>3. TicksOwnRuns'
    <2>1. /\ loop.at # "tick" => loop.todo = {}
          /\ \A s \in loop.todo : s.run \in RunIds /\ run[s.run].status \in {"running", "done"}
      BY DEF Inv, TicksOwnRuns, TypeOK, Snapshot
    <2>2. CASE TickSnapshot
      BY <2>2 DEF TickSnapshot, TicksOwnRuns, Running, db
    <2>3. CASE loop'.todo = {}
      BY <2>3 DEF TicksOwnRuns
    <2>4. CASE /\ loop'.todo \subseteq loop.todo /\ loop'.todo # {}
               /\ loop' = loop \/ (loop.at = "tick" /\ loop'.at = "tick")
      <3>1. ASSUME NEW s \in loop.todo
            PROVE  run'[s.run].status \in {"running", "done"}
        <4>1. run[s.run].status # "absent"
          BY <2>1
        <4>2. s.run # nextRun
          BY <1>1, <2>1, <4>1 DEF Inv, FreshRuns
        <4> QED
          BY <2>1, <2>4, <4>2, StatusStep
      <3>2. loop'.at = "tick"
        BY <2>1, <2>4
      <3> QED
        BY <2>4, <3>1, <3>2 DEF TicksOwnRuns
    <2> QED
      BY <2>1, <2>2, <2>3, <2>4, LoopWriters DEF Inv
  <1> QED
    BY <1>2, <1>3

-----------------------------------------------------------------------------
(***************************************************************************)
(* Type correctness, table by table.                                       *)
(***************************************************************************)
PlacementType == /\ placement \in [PlacementIds -> [node: Nodes, open: BOOLEAN]]
                 /\ nextPlacement \in 1..(MaxPlacements + 1)
RunType == /\ run \in [RunIds -> RunRow]
           /\ nextRun \in 1..(MaxRuns + 1)
           /\ \A r \in RunIds : r < nextRun => run[r].dpl # None /\ run[r].gpl # None
EventType == [run: RunIds, type: EventTypes]
TaskType == [at: TaskSteps, dev: Nodes, dpl: PlacementIds \cup {None},
             gpl: PlacementIds \cup {None}, run: RunIds \cup {None}]

LEMMA PlacementTypeStep == ASSUME Inv, [Next]_vars PROVE PlacementType'
  <1> USE DEF Inv, TypeOK, PlacementType
  <1>1. CASE UNCHANGED <<placement, nextPlacement>>
    BY <1>1
  <1>2. ASSUME NEW n \in Nodes, CreatePlacement(n) PROVE PlacementType'
    <2>1. nextPlacement' \in 1..(MaxPlacements + 1)
      BY <1>2, WorkflowAssumption DEF CreatePlacement
    <2>2. \A p \in PlacementIds :
            [placement[p] EXCEPT !.open = FALSE] \in [node: Nodes, open: BOOLEAN]
      OBVIOUS
    <2>3. placement' \in [PlacementIds -> [node: Nodes, open: BOOLEAN]]
      BY <1>2, <2>2 DEF CreatePlacement
    <2> QED
      BY <2>1, <2>3
  <1> QED
    BY <1>1, <1>2, PlacementWriters

LEMMA RunTypeStep == ASSUME Inv, [Next]_vars PROVE RunType'
  <1>1. run \in [RunIds -> RunRow] /\ nextRun \in 1..(MaxRuns + 1)
    BY DEF Inv, TypeOK
  <1>2. \A r \in RunIds : r < nextRun => run[r].dpl # None /\ run[r].gpl # None
    BY DEF Inv, TypeOK
  <1>3. ASSUME NEW row \in RunRow, NEW status \in RunStatus
        PROVE  Stopped(row, status) \in RunRow /\ Stopped(row, status).dpl = row.dpl
               /\ Stopped(row, status).gpl = row.gpl
    <2> DEFINE ended == [row EXCEPT !.status = status]
    <2>1. ended \in RunRow /\ ended.dpl = row.dpl /\ ended.gpl = row.gpl
      BY <1>3 DEF RunRow
    <2>2. Stopped(row, status) = [ended EXCEPT !.ended = @ + 1]
      BY DEF Stopped
    <2> HIDE DEF ended
    <2>3. ended.ended + 1 \in Nat
      BY <2>1 DEF RunRow
    <2>4. [ended EXCEPT !.ended = @ + 1] \in RunRow
      BY <2>1, <2>3 DEF RunRow
    <2>5. /\ [ended EXCEPT !.ended = @ + 1].dpl = ended.dpl
          /\ [ended EXCEPT !.ended = @ + 1].gpl = ended.gpl
      BY <2>1 DEF RunRow
    <2> QED
      BY <2>1, <2>2, <2>4, <2>5
  <1>4. CASE UNCHANGED <<run, nextRun>>
    BY <1>1, <1>2, <1>4 DEF RunType
  <1>5. ASSUME NEW r \in RunIds, StopRun(r), nextRun' = nextRun PROVE RunType'
    BY <1>1, <1>2, <1>3, <1>5 DEF StopRun, RunType, RunStatus
  <1>6. CASE TickWrites
    <2>1. PICK s \in loop.todo : StopRun(s.run) \/ AdvanceRunSegment(s.run, s.seg + 1)
      BY <1>6 DEF TickWrites
    <2>2. s.run \in RunIds /\ s.seg \in Nat
      BY DEF Inv, TypeOK, Snapshot
    <2>3. CASE AdvanceRunSegment(s.run, s.seg + 1)
      <3>1. run' = [run EXCEPT ![s.run] = [run[s.run] EXCEPT !.seg = s.seg + 1]]
        BY <2>3 DEF AdvanceRunSegment
      <3>2. /\ [run[s.run] EXCEPT !.seg = s.seg + 1] \in RunRow
            /\ [run[s.run] EXCEPT !.seg = s.seg + 1].dpl = run[s.run].dpl
            /\ [run[s.run] EXCEPT !.seg = s.seg + 1].gpl = run[s.run].gpl
        BY <1>1, <2>2 DEF RunRow
      <3> QED
        BY <1>1, <1>2, <1>6, <2>2, <3>1, <3>2 DEF TickWrites, RunType
    <2> QED
      BY <1>5, <1>6, <2>1, <2>2, <2>3 DEF TickWrites
  <1>7. CASE StopsRunning
    BY <1>5, <1>7 DEF StopsRunning, Running
  <1>8. CASE AbortsRunning
    BY <1>1, <1>2, <1>3, <1>8 DEF AbortsRunning, AbortRunningRuns, RunType, RunStatus
  <1>9. CASE Inserts
    <2>1. PICK dev \in Nodes, dpl \in PlacementIds, gpl \in PlacementIds,
               sweep \in BOOLEAN, csvWritten \in BOOLEAN :
                 InsertRun(dev, dpl, gpl, sweep, csvWritten)
      BY <1>9 DEF Inserts
    <2> DEFINE row == [dev |-> dev, dpl |-> dpl, gpl |-> gpl, sweep |-> sweep, seg |-> 0,
                       status |-> "running", ended |-> 0]
    <2>2. row \in RunRow /\ row.dpl # None /\ row.gpl # None
      BY DEF RunRow, RunStatus, PlacementIds, None
    <2> HIDE DEF row
    <2>3. run' = [run EXCEPT ![nextRun] = row] /\ nextRun' = nextRun + 1 /\ nextRun <= MaxRuns
      BY <2>1 DEF InsertRun, row
    <2> QED
      BY <1>1, <1>2, <2>2, <2>3, WorkflowAssumption DEF RunType, RunIds
  <1> QED
    BY <1>4, <1>6, <1>7, <1>8, <1>9, RunWriters

(* The thread pool: besides starting and ending, a handler moves from one  *)
(* of its steps to another, and a placement it read is a real one.         *)
LEMMA TaskStep ==
  ASSUME Inv, [Next]_vars
  PROVE  task' \in [Threads -> TaskType] /\ TasksHoldPlacements'
  <1> DEFINE Goal == task' \in [Threads -> TaskType] /\ TasksHoldPlacements'
  <1>1. task \in [Threads -> TaskType] /\ TasksHoldPlacements
    BY DEF Inv, TypeOK, TaskType
  <1>2. CASE task' = task
    BY <1>1, <1>2 DEF TasksHoldPlacements
  <1>3. Idle \in TaskType /\ Idle.at = "idle"
    BY DEF Idle, TaskType, TaskSteps, Nodes
  <1>4. /\ nextPlacement <= MaxPlacements => nextPlacement \in PlacementIds /\ nextPlacement # None
        /\ nextRun <= MaxRuns => nextRun \in RunIds
        /\ \A n \in Nodes : \A p \in OpenPlacements(n) : p \in PlacementIds /\ p # None
    BY WorkflowAssumption DEF Inv, TypeOK, PlacementIds, RunIds, None, OpenPlacements
  <1>5. ASSUME NEW t \in Threads, NEW new \in TaskType, task' = [task EXCEPT ![t] = new],
               new.at = "start.insert" => new.dpl # None /\ new.gpl # None,
               new.at \in {"relocate.stop", "relocate.place", "relocate.insert"} => new.gpl # None,
               new.at = "relocate.insert" => new.dpl # None
        PROVE  Goal
    BY <1>1, <1>5 DEF TasksHoldPlacements
  <1>6. ASSUME NEW t \in Threads, task' = [task EXCEPT ![t] = Idle] PROVE Goal
    BY <1>3, <1>5, <1>6
  <1>7. ASSUME NEW t \in Threads, StartHandler(t) PROVE Goal
    <2>1. ASSUME NEW d \in Devices, StartCheck(t, d) PROVE Goal
      <3> DEFINE new == [Idle EXCEPT !.at = "start.device", !.dev = d]
      <3>1. new \in TaskType /\ new.at = "start.device"
        BY DEF Idle, TaskType, TaskSteps, Nodes
      <3>2. task' = [task EXCEPT ![t] = new]
        BY <2>1 DEF StartCheck
      <3> QED
        BY <1>5, <3>1, <3>2
    <2>2. CASE StartReadDevice(t)
      <3>1. PICK p \in FetchOne(OpenPlacements(task[t].dev)) :
              task' = [task EXCEPT ![t].at = "start.gateway", ![t].dpl = p]
        BY <2>2 DEF StartReadDevice
      <3> DEFINE new == [task[t] EXCEPT !.at = "start.gateway", !.dpl = p]
      <3>2. p \in PlacementIds \cup {None}
        BY DEF FetchOne, OpenPlacements
      <3>3. new \in TaskType /\ new.at = "start.gateway"
        BY <1>1, <3>2 DEF TaskType, TaskSteps
      <3>4. task' = [task EXCEPT ![t] = new]
        BY <1>1, <3>1
      <3> QED
        BY <1>5, <3>3, <3>4
    <2>3. CASE StartReadGateway(t)
      <3>1. PICK p \in FetchOne(OpenPlacements(Gateway)) :
              task' = [task EXCEPT ![t] =
                        IF p = None \/ task[t].dpl = None THEN Idle
                        ELSE [task[t] EXCEPT !.at = "start.insert", !.gpl = p]]
        BY <1>1, <2>3 DEF StartReadGateway
      <3> DEFINE new == [task[t] EXCEPT !.at = "start.insert", !.gpl = p]
      <3>2. p \in PlacementIds \cup {None}
        BY DEF FetchOne, OpenPlacements
      <3>3. /\ new \in TaskType
            /\ new.at = "start.insert" /\ new.dpl = task[t].dpl /\ new.gpl = p
        BY <1>1, <3>2 DEF TaskType, TaskSteps
      <3> HIDE DEF new
      <3>4. CASE p = None \/ task[t].dpl = None
        BY <1>6, <3>1, <3>4
      <3>5. CASE p # None /\ task[t].dpl # None
        <4>1. task' = [task EXCEPT ![t] = new]
          BY <3>1, <3>5 DEF new
        <4> QED
          BY <1>5, <3>3, <3>5, <4>1
      <3> QED
        BY <3>4, <3>5
    <2>4. CASE StartInsert(t)
      BY <1>6, <2>4 DEF StartInsert
    <2> QED
      BY <1>7, <2>1, <2>2, <2>3, <2>4 DEF StartHandler
  <1>8. ASSUME NEW t \in Threads, RelocateHandler(t) PROVE Goal
    <2>1. ASSUME NEW d \in Devices, RelocateCheck(t, d) PROVE Goal
      <3>1. PICK g \in OpenPlacements(Gateway) :
              task' = [task EXCEPT ![t] = [Idle EXCEPT !.at = "relocate.stop", !.dev = d, !.gpl = g]]
        BY <2>1 DEF RelocateCheck
      <3> DEFINE new == [Idle EXCEPT !.at = "relocate.stop", !.dev = d, !.gpl = g]
      <3>2. g \in PlacementIds /\ g # None
        BY <1>4 DEF Nodes
      <3>3. new \in TaskType /\ new.at = "relocate.stop" /\ new.gpl = g
        BY <3>2 DEF Idle, TaskType, TaskSteps, Nodes
      <3> QED
        BY <1>5, <3>1, <3>2, <3>3
    <2>2. CASE RelocateStop(t)
      <3> DEFINE new == [task[t] EXCEPT !.at = "relocate.place"]
      <3>1. /\ task' = [task EXCEPT ![t] = new]
            /\ task[t].at = "relocate.stop"
        BY <1>1, <2>2 DEF RelocateStop, Goto
      <3>2. new \in TaskType /\ new.at = "relocate.place" /\ new.gpl = task[t].gpl
        BY <1>1 DEF TaskType, TaskSteps
      <3>3. task[t].gpl # None
        BY <1>1, <3>1 DEF TasksHoldPlacements
      <3> QED
        BY <1>5, <3>1, <3>2, <3>3
    <2>3. CASE RelocatePlace(t)
      <3> DEFINE new == [task[t] EXCEPT !.at = "relocate.insert", !.dpl = nextPlacement]
      <3>1. /\ task' = [task EXCEPT ![t] = new]
            /\ task[t].at = "relocate.place" /\ nextPlacement <= MaxPlacements
        BY <1>1, <2>3 DEF RelocatePlace, CreatePlacement
      <3>2. /\ new \in TaskType /\ new.at = "relocate.insert"
            /\ new.gpl = task[t].gpl /\ new.dpl = nextPlacement
        BY <1>1, <1>4, <3>1 DEF TaskType, TaskSteps
      <3>3. task[t].gpl # None
        BY <1>1, <3>1 DEF TasksHoldPlacements
      <3> QED
        BY <1>4, <1>5, <3>1, <3>2, <3>3
    <2>4. CASE RelocateInsert(t)
      <3> DEFINE new == [task[t] EXCEPT !.at = "relocate.event", !.run = nextRun]
      <3>1. /\ task' = [task EXCEPT ![t] = new] \/ task' = [task EXCEPT ![t] = Idle]
            /\ nextRun <= MaxRuns
        BY <1>1, <2>4 DEF RelocateInsert, InsertRun
      <3>2. new \in TaskType /\ new.at = "relocate.event"
        BY <1>1, <1>4, <3>1 DEF TaskType, TaskSteps
      <3> QED
        BY <1>5, <1>6, <3>1, <3>2
    <2>5. CASE RelocateEvent(t)
      BY <1>6, <2>5 DEF RelocateEvent
    <2> QED
      BY <1>8, <2>1, <2>2, <2>3, <2>4, <2>5 DEF RelocateHandler
  <1>9. CASE Restart
    BY <1>3, <1>9 DEF Restart, TasksHoldPlacements
  <1>10. CASE LoopHandler \/ Tick \/ LogAndUnlock \/ UNCHANGED vars
    BY <1>2, <1>10 DEF LoopHandler, Place, StopRequest, MoveCheck, ForceAbort, MovePlace,
         MoveEvent, Tick, TickSnapshot, TickSkip, TickAdvance, TickDone, TickEnd, LogAndUnlock, vars
  <1> QED
    BY <1>7, <1>8, <1>9, <1>10 DEF Next

LEMMA LogTypeStep ==
  ASSUME Inv, [Next]_vars
  PROVE  log' \in [RunIds \cup {None} -> Seq(EventTypes)]
  <1>1. ASSUME NEW r \in RunIds \cup {None}, NEW type \in EventTypes, RecordEvent(r, type)
        PROVE  log' \in [RunIds \cup {None} -> Seq(EventTypes)]
    BY <1>1 DEF RecordEvent, Inv, TypeOK
  <1>2. ASSUME NEW t \in Threads, RelocateEvent(t)
        PROVE  log' \in [RunIds \cup {None} -> Seq(EventTypes)]
    BY <1>1, <1>2 DEF RelocateEvent, EventTypes, Inv, TypeOK
  <1>3. CASE MoveEvent
    BY <1>1, <1>3 DEF MoveEvent, EventTypes
  <1>4. CASE LogAndUnlock
    BY <1>1, <1>4 DEF LogAndUnlock, Inv, TypeOK
  <1>5. CASE log' = log
    BY <1>5 DEF Inv, TypeOK
  <1> QED
    BY <1>2, <1>3, <1>4, <1>5 DEF Next, StartHandler, StartCheck, StartReadDevice,
       StartReadGateway, StartInsert, RelocateHandler, RelocateCheck, RelocateStop, RelocatePlace,
       RelocateInsert, LoopHandler, Place, StopRequest, MoveCheck, ForceAbort, MovePlace, Tick,
       TickSnapshot, TickSkip, TickAdvance, TickDone, TickEnd, Restart, vars

LEMMA UnloggedTypeStep ==
  ASSUME Inv, [Next]_vars
  PROVE  unlogged' \subseteq EventType /\ lost' \subseteq RunIds
  <1> DEFINE Goal == unlogged' \subseteq EventType /\ lost' \subseteq RunIds
  <1>1. unlogged \subseteq EventType /\ lost \subseteq RunIds
    BY DEF Inv, TypeOK, EventType
  <1>2. ASSUME NEW r \in RunIds, NEW type \in EventTypes
        PROVE  [run |-> r, type |-> type] \in EventType
    BY DEF EventType
  <1>3. ASSUME NEW r \in RunIds, StopRun(r), lost' = lost PROVE Goal
    BY <1>1, <1>2, <1>3 DEF StopRun, EventTypes
  <1>4. ASSUME NEW dev, NEW dpl, NEW gpl, NEW sweep, NEW csvWritten,
               InsertRun(dev, dpl, gpl, sweep, csvWritten)
        PROVE  Goal
    <2>1. nextRun \in RunIds
      BY <1>4, WorkflowAssumption DEF InsertRun, Inv, TypeOK, RunIds
    <2>2. [run |-> nextRun, type |-> "run_started"] \in EventType
      BY <1>2, <2>1 DEF EventTypes
    <2> QED
      BY <1>1, <1>4, <2>1, <2>2 DEF InsertRun
  <1>5. ASSUME NEW t \in Threads, StartHandler(t) PROVE Goal
    BY <1>1, <1>4, <1>5 DEF StartHandler, StartCheck, StartReadDevice, StartReadGateway, StartInsert
  <1>6. ASSUME NEW t \in Threads, RelocateHandler(t) PROVE Goal
    BY <1>1, <1>3, <1>4, <1>6 DEF RelocateHandler, RelocateCheck, RelocateStop, RelocatePlace,
       RelocateInsert, RelocateEvent, RunningOf, Running
  <1>7. CASE LoopHandler
    <2>1. CASE ForceAbort
      BY <1>1, <1>2, <2>1 DEF ForceAbort, AbortRunningRuns, Running, EventTypes
    <2> QED
      BY <1>1, <1>3, <1>7, <2>1 DEF LoopHandler, Place, StopRequest, MoveCheck, MovePlace,
         MoveEvent, RunningOf, Running
  <1>8. CASE Tick
    <2>1. \A s \in TickHeads : s.run \in RunIds
      BY DEF TickHeads, Inv, TypeOK, Snapshot
    <2>2. ASSUME NEW s \in TickHeads, AdvanceRunSegment(s.run, s.seg + 1), lost' = lost PROVE Goal
      BY <1>1, <1>2, <2>1, <2>2 DEF AdvanceRunSegment, EventTypes
    <2> QED
      BY <1>1, <1>3, <1>8, <2>1, <2>2 DEF Tick, TickSnapshot, TickSkip, TickAdvance, TickDone, TickEnd
  <1>9. CASE LogAndUnlock \/ UNCHANGED vars
    BY <1>1, <1>9 DEF LogAndUnlock, vars
  <1>10. CASE Restart
    <2>1. \A e \in EventType : e.run \in RunIds
      BY DEF EventType
    <2> QED
      BY <1>1, <1>10, <2>1 DEF Restart
  <1> QED
    BY <1>5, <1>6, <1>7, <1>8, <1>9, <1>10 DEF Next

LEMMA LoopTypeStep ==
  ASSUME Inv, [Next]_vars
  PROVE  loop' \in [at: LoopSteps, todo: SUBSET Snapshot]
  <1>1. loop \in [at: LoopSteps, todo: SUBSET Snapshot]
    BY DEF Inv, TypeOK
  <1>2. ASSUME NEW step \in LoopSteps, LoopTo(step)
        PROVE  loop' \in [at: LoopSteps, todo: SUBSET Snapshot]
    BY <1>2 DEF LoopTo
  <1>3. CASE loop' = loop
    BY <1>1, <1>3
  <1>4. CASE TickSnapshot
    <2>1. \A r \in Running : r \in RunIds /\ run[r].seg \in Nat
      BY DEF Running, Inv, TypeOK, RunRow
    <2>2. {[run |-> r, seg |-> run[r].seg] : r \in {q \in Running : run[q].sweep}} \subseteq Snapshot
      BY <2>1 DEF Snapshot
    <2> QED
      BY <1>4, <2>2 DEF TickSnapshot, LoopSteps
  <1>5. ASSUME NEW s, TickPast(s)
        PROVE  loop' \in [at: LoopSteps, todo: SUBSET Snapshot]
    BY <1>1, <1>5 DEF TickPast
  <1>6. ASSUME NEW t \in Threads, StartHandler(t) \/ RelocateHandler(t)
        PROVE  loop' = loop
    BY <1>6 DEF StartHandler, StartCheck, StartReadDevice, StartReadGateway, StartInsert,
       RelocateHandler, RelocateCheck, RelocateStop, RelocatePlace, RelocateInsert, RelocateEvent
  <1>7. CASE LoopHandler
    BY <1>2, <1>3, <1>7 DEF LoopHandler, Place, StopRequest, MoveCheck, ForceAbort, MovePlace,
       MoveEvent, LoopSteps
  <1>8. CASE Tick
    BY <1>2, <1>4, <1>5, <1>8 DEF Tick, TickSkip, TickAdvance, TickDone, TickEnd, LoopSteps
  <1>9. CASE LogAndUnlock \/ Restart \/ UNCHANGED vars
    BY <1>2, <1>3, <1>9 DEF LogAndUnlock, Restart, vars, LoopSteps
  <1> QED
    BY <1>3, <1>6, <1>7, <1>8, <1>9 DEF Next

LEMMA InvStep == Inv /\ [Next]_vars => Inv'
  <1> SUFFICES ASSUME Inv, [Next]_vars PROVE Inv'
    OBVIOUS
  <1>1. TypeOK'
    BY PlacementTypeStep, RunTypeStep, TaskStep, LogTypeStep, UnloggedTypeStep, LoopTypeStep
       DEF TypeOK, PlacementType, RunType, EventType, TaskType
  <1> QED
    BY <1>1, TaskStep, PlacementStep, RunStep DEF Inv

(* Every reachable state satisfies the inductive invariant. *)
THEOREM Invariance == Spec => []Inv
  BY InitInv, InvStep, PTL DEF Spec

(***************************************************************************)
(* Every column of every row keeps its type, and every inserted run row    *)
(* names a device placement and a gateway placement (NOT NULL), for every  *)
(* number of threads, devices, runs and segments.                          *)
(***************************************************************************)
THEOREM TypeCorrect == Spec => []TypeOK
  BY Invariance, PTL DEF Inv

(***************************************************************************)
(* A node never has two open placements, whatever create_placement calls   *)
(* of however many requests interleave.                                    *)
(***************************************************************************)
THEOREM OnePlacementPerNode == Spec => []OnePlacementOpen
  BY Invariance, PTL DEF Inv

(***************************************************************************)
(* A run that a forced gateway move aborted is never written again: no     *)
(* tick still holds it, no request stops it, no id is used twice.          *)
(***************************************************************************)
THEOREM AbortedForGood == Spec => AbortedStaysAborted
  <1> DEFINE Kept == \A r \in RunIds : run[r].status = "aborted" => run'[r] = run[r]
  <1>1. Inv /\ [Next]_vars => [Kept]_vars
    <2> SUFFICES ASSUME Inv, [Next]_vars, NEW r \in RunIds, run[r].status = "aborted"
                 PROVE  run'[r] = run[r]
      OBVIOUS
    <2>1. run \in [RunIds -> RunRow]
      BY DEF Inv, TypeOK
    <2>2. CASE UNCHANGED <<run, nextRun>>
      BY <2>2
    <2>3. CASE TickWrites
      <3>1. PICK s \in loop.todo : StopRun(s.run) \/ AdvanceRunSegment(s.run, s.seg + 1)
        BY <2>3 DEF TickWrites
      <3>2. s.run \in RunIds /\ s.run # r
        BY DEF Inv, TypeOK, TicksOwnRuns, Snapshot
      <3> QED
        BY <2>1, <3>1, <3>2 DEF StopRun, AdvanceRunSegment
    <2>4. CASE StopsRunning
      BY <2>1, <2>4 DEF StopsRunning, StopRun, Running
    <2>5. CASE AbortsRunning
      BY <2>1, <2>5 DEF AbortsRunning, AbortRunningRuns, Running
    <2>6. CASE Inserts
      <3>1. r # nextRun
        BY WorkflowAssumption DEF Inv, FreshRuns, TypeOK, RunIds
      <3> QED
        BY <2>1, <2>6, <3>1 DEF Inserts, InsertRun
    <2> QED
      BY <2>2, <2>3, <2>4, <2>5, <2>6, RunWriters
  <1> QED
    BY <1>1, Invariance, PTL DEF Spec, AbortedStaysAborted

-----------------------------------------------------------------------------
(***************************************************************************)
(* The event log.  What it holds of a run, plus what the method with the   *)
(* lock has still to record, is what the row says.  For that: an id that   *)
(* is not given out has no history, what the tick has kept of a row is     *)
(* still true, the first event still to be recorded of a run without any   *)
(* is its start, and a relocate notes its event for a run that exists.     *)
(***************************************************************************)
Logged   == {"run_started", "run_stopped", "segment_changed"}
Times(s, type) == Cardinality({i \in DOMAIN s : s[i] = type})
Seen(r, type)  == Times(log[r], type)
Still(r, type) == IF [run |-> r, type |-> type] \in unlogged THEN 1 ELSE 0
Due(row, type) == IF type = "run_started" THEN IF row.status = "absent" THEN 0 ELSE 1
                  ELSE IF type = "run_stopped" THEN row.ended ELSE row.seg

Accounted == \A r \in RunIds \ lost : /\ \A type \in Logged : Seen(r, type) + Still(r, type) = Due(run[r], type)
                                      /\ log[r] # <<>> => log[r][1] = "run_started"
NoHistory == \A r \in RunIds : run[r].status = "absent" => run[r].ended = 0 /\ run[r].seg = 0
TicksKnowSegments == \A s \in loop.todo : s.seg = run[s.run].seg
StartsFirst ==
  \A r \in RunIds \ lost : log[r] = <<>> => \A e \in unlogged : e.run = r => e.type = "run_started"
RelocatesRuns ==
  \A t \in Threads : task[t].at = "relocate.event" /\ task[t].run \in RunIds
                       => run[task[t].run].status # "absent"

LogInv == Accounted /\ NoHistory /\ TicksKnowSegments /\ StartsFirst /\ RelocatesRuns

LEMMA AccountedIs == Accounted <=> LogAccountsForRuns
  BY DEF Accounted, LogAccountsForRuns, Occurrences, Seen, Times, Still, Due, Logged

LEMMA LogInit == Init => LogInv
  <1> SUFFICES ASSUME Init PROVE LogInv
    OBVIOUS
  <1>1. /\ unlogged = {} /\ loop.todo = {} /\ \A t \in Threads : task[t].at = "idle"
        /\ \A r \in RunIds : log[r] = <<>> /\ run[r] = NoRow
    BY DEF Init, Idle
  <1>2. ASSUME NEW r \in RunIds, NEW type \in Logged
        PROVE  Seen(r, type) = 0
    <2>1. {i \in DOMAIN log[r] : log[r][i] = type} = {}
      BY <1>1
    <2> QED
      BY <2>1, FS_EmptySet DEF Seen, Times
  <1>3. \A type \in Logged : Due(NoRow, type) = 0
    BY DEF Due, NoRow, Logged
  <1>4. Accounted
    BY <1>1, <1>2, <1>3 DEF Accounted, Still
  <1>5. NoHistory /\ TicksKnowSegments /\ StartsFirst /\ RelocatesRuns
    BY <1>1 DEF NoHistory, TicksKnowSegments, StartsFirst, RelocatesRuns, NoRow
  <1> QED
    BY <1>4, <1>5 DEF LogInv

-----------------------------------------------------------------------------
(* One event more in the log counts once. *)
LEMMA SeenAppend ==
  ASSUME NEW s \in Seq(EventTypes), NEW e \in EventTypes, NEW type
  PROVE  /\ Times(s, type) \in Nat
         /\ Times(Append(s, e), type) = Times(s, type) + (IF e = type THEN 1 ELSE 0)
  <1>1. DOMAIN s = 1..Len(s) /\ Len(s) \in Nat
    OBVIOUS
  <1>2. /\ DOMAIN Append(s, e) = (1..Len(s)) \cup {Len(s) + 1} /\ Len(s) + 1 \notin 1..Len(s)
        /\ Append(s, e)[Len(s) + 1] = e /\ \A i \in 1..Len(s) : Append(s, e)[i] = s[i]
    BY <1>1
  <1>3. PICK old \in SUBSET (1..Len(s)) : old = {i \in DOMAIN s : s[i] = type}
    BY <1>1
  <1>4. IsFiniteSet(1..Len(s))
    BY <1>1, FS_Interval
  <1>5. IsFiniteSet(old)
    BY <1>4, FS_Subset
  <1>6. PICK n \in Nat : n = Cardinality(old)
    BY <1>5, FS_CardinalityType
  <1>7. PICK new : new = {i \in DOMAIN Append(s, e) : Append(s, e)[i] = type}
    OBVIOUS
  <1>8. Cardinality(new) = n + (IF e = type THEN 1 ELSE 0)
    <2>1. CASE e = type
      <3>1. new = old \cup {Len(s) + 1} /\ Len(s) + 1 \notin old
        BY <1>1, <1>2, <1>3, <1>7, <2>1
      <3> QED
        BY <1>5, <1>6, <2>1, <3>1, FS_AddElement
    <2>2. CASE e # type
      <3>1. new = old
        BY <1>1, <1>2, <1>3, <1>7, <2>2
      <3> QED
        BY <1>6, <2>2, <3>1
    <2> QED
      BY <2>1, <2>2
  <1> QED
    BY <1>3, <1>6, <1>7, <1>8 DEF Times

LEMMA SeenType ==
  ASSUME Inv, NEW r \in RunIds, NEW type
  PROVE  Seen(r, type) \in Nat
  <1>1. log[r] \in Seq(EventTypes)
    BY DEF Inv, TypeOK
  <1>2. "relocated" \in EventTypes
    BY DEF EventTypes
  <1> QED
    BY <1>1, <1>2, SeenAppend DEF Seen

LEMMA SeenStep ==
  ASSUME Inv, NEW q \in RunIds \cup {None}, NEW e \in EventTypes, RecordEvent(q, e),
         NEW r \in RunIds, NEW type
  PROVE  Times(log'[r], type)
           = Seen(r, type) + (IF q = r /\ e = type THEN 1 ELSE 0)
  <1>1. log[r] \in Seq(EventTypes) /\ log' = [log EXCEPT ![q] = Append(@, e)]
        /\ log \in [RunIds \cup {None} -> Seq(EventTypes)]
    BY DEF Inv, TypeOK, RecordEvent
  <1>2. CASE q = r
    <2>1. log'[r] = Append(log[r], e)
      BY <1>1, <1>2
    <2> QED
      BY <1>1, <1>2, <2>1, SeenAppend DEF Seen
  <1>3. CASE q # r
    <2>1. log'[r] = log[r]
      BY <1>1, <1>3
    <2>2. Seen(r, type) \in Nat
      BY SeenType
    <2> QED
      BY <1>3, <2>1, <2>2 DEF Seen
  <1> QED
    BY <1>2, <1>3

(* With the lock free, a run that is there and has lost nothing has begun. *)
LEMMA Begun ==
  ASSUME Inv, LogInv, LockFree, NEW r \in RunIds \ lost, run[r].status # "absent"
  PROVE  log[r] # <<>>
  <1>1. Seen(r, "run_started") + 0 = 1
    BY DEF LogInv, Accounted, Logged, Still, Due, LockFree
  <1>2. CASE log[r] = <<>>
    <2>1. {i \in DOMAIN log[r] : log[r][i] = "run_started"} = {}
      BY <1>2
    <2>2. Seen(r, "run_started") = 0
      BY <2>1, FS_EmptySet DEF Seen, Times
    <2> QED
      BY <1>1, <2>2
  <1> QED
    BY <1>2

-----------------------------------------------------------------------------
(***************************************************************************)
(* What a step does to the log and the rows.                               *)
(***************************************************************************)
Quiet  == UNCHANGED <<run, nextRun, log, unlogged, lost>>
Writes == LockFree /\ UNCHANGED <<log, lost>> /\ (TickWrites \/ StopsRunning \/ AbortsRunning)
Begins == LockFree /\ UNCHANGED log /\ Inserts
Notes  == /\ LockFree /\ UNCHANGED <<run, nextRun, unlogged, lost>>
          /\ \E r \in RunIds \cup {None}, type \in {"relocated", "gateway_moved"} :
               RecordEvent(r, type) /\ (r \in RunIds => run[r].status # "absent")

LEMMA LogWriters ==
  ASSUME Inv, LogInv, [Next]_vars
  PROVE  Quiet \/ Writes \/ Begins \/ Notes \/ LogAndUnlock \/ Restart
  <1> DEFINE Goal == Quiet \/ Writes \/ Begins \/ Notes \/ LogAndUnlock \/ Restart
  <1>1. ASSUME NEW t \in Threads, StartHandler(t) PROVE Goal
    <2>1. CASE StartInsert(t)
      <3>1. /\ task[t].dev \in Nodes
            /\ task[t].dpl \in PlacementIds /\ task[t].gpl \in PlacementIds
        BY <2>1 DEF StartInsert, Inv, TypeOK, TasksHoldPlacements
      <3> QED
        BY <2>1, <3>1 DEF StartInsert, Inserts, Begins
    <2>2. CASE ~StartInsert(t)
      BY <1>1, <2>2 DEF StartHandler, StartCheck, StartReadDevice, StartReadGateway, db, Quiet
    <2> QED
      BY <2>1, <2>2
  <1>2. ASSUME NEW t \in Threads, RelocateHandler(t) PROVE Goal
    <2>1. CASE RelocateInsert(t)
      <3>1. /\ task[t].dev \in Nodes
            /\ task[t].dpl \in PlacementIds /\ task[t].gpl \in PlacementIds
        BY <2>1 DEF RelocateInsert, Inv, TypeOK, TasksHoldPlacements
      <3> QED
        BY <2>1, <3>1 DEF RelocateInsert, Inserts, Begins
    <2>2. CASE RelocateStop(t)
      BY <2>2 DEF RelocateStop, RunningOf, StopsRunning, Quiet, Writes
    <2>3. CASE RelocateEvent(t)
      <3>1. /\ task[t].run \in RunIds \cup {None} /\ task[t].at = "relocate.event"
            /\ task[t].run \in RunIds => run[task[t].run].status # "absent"
        BY <2>3 DEF RelocateEvent, Inv, TypeOK, LogInv, RelocatesRuns
      <3> QED
        BY <2>3, <3>1 DEF RelocateEvent, Notes, db
    <2>4. CASE ~RelocateInsert(t) /\ ~RelocateStop(t) /\ ~RelocateEvent(t)
      BY <1>2, <2>4 DEF RelocateHandler, RelocateCheck, RelocatePlace, db, Quiet
    <2> QED
      BY <2>1, <2>2, <2>3, <2>4
  <1>3. ASSUME LoopHandler PROVE Goal
    <2>1. ASSUME NEW d \in Devices, StopRequest(d) PROVE Goal
      BY <2>1 DEF StopRequest, Requested, OnLoop, RunningOf, StopsRunning, Writes
    <2>2. CASE ForceAbort
      BY <2>2 DEF ForceAbort, Requested, OnLoop, LoopTo, AbortsRunning, Writes
    <2>3. CASE MoveEvent
      <3>1. None \notin RunIds
        BY DEF None, RunIds
      <3> QED
        BY <2>3, <3>1 DEF MoveEvent, OnLoop, Notes, db
    <2> QED
      BY <1>3, <2>1, <2>2, <2>3 DEF LoopHandler, Place, MoveCheck, MovePlace, db, Quiet
  <1>4. ASSUME Tick PROVE Goal
    BY <1>4 DEF Tick, TickSnapshot, TickSkip, TickAdvance, TickDone, TickEnd, TickHeads,
                OnLoop, TickWrites, Writes, Quiet, db
  <1>5. CASE UNCHANGED vars
    BY <1>5 DEF vars, Quiet
  <1> QED
    BY <1>1, <1>2, <1>3, <1>4, <1>5 DEF Next

(* A row changes by exactly the events that are still to be recorded. *)
Follows(r) ==
  /\ \A type \in Logged : Due(run'[r], type) = Due(run[r], type)
       + (IF [run |-> r, type |-> type] \in unlogged' THEN 1 ELSE 0)
  /\ (\E e \in unlogged' : e.run = r) => run[r].status # "absent"
  /\ run'[r].status = "absent" <=> run[r].status = "absent"
  /\ run[r].status = "absent" => run'[r] = run[r]

LEMMA StoppedRow ==
  ASSUME NEW row \in RunRow, NEW status \in {"done", "aborted"}
  PROVE  /\ Stopped(row, status).status = status
         /\ Stopped(row, status).ended = row.ended + 1
         /\ Stopped(row, status).seg = row.seg
  <1> DEFINE ended == [row EXCEPT !.status = status]
  <1>1. ended \in [dev: Nodes, dpl: PlacementIds \cup {None}, gpl: PlacementIds \cup {None},
                   sweep: BOOLEAN, seg: Nat, status: {"done", "aborted"}, ended: Nat]
        /\ ended.status = status /\ ended.seg = row.seg /\ ended.ended = row.ended
    BY DEF RunRow
  <1>2. Stopped(row, status) = [ended EXCEPT !.ended = @ + 1]
    BY DEF Stopped
  <1> HIDE DEF ended
  <1> QED
    BY <1>1, <1>2

LEMMA StopFollows ==
  ASSUME Inv, NEW r \in RunIds, NEW stopped \in SUBSET RunIds, NEW status \in {"done", "aborted"},
         \A q \in stopped : run[q].status # "absent",
         run'[r] = IF r \in stopped THEN Stopped(run[r], status) ELSE run[r],
         unlogged' = {[run |-> q, type |-> "run_stopped"] : q \in stopped}
  PROVE  Follows(r)
  <1>1. run[r] \in RunRow /\ run[r].ended \in Nat /\ run[r].seg \in Nat
    BY DEF Inv, TypeOK, RunRow
  <1>2. CASE r \in stopped
    <2>1. run'[r].status = status /\ run'[r].ended = run[r].ended + 1 /\ run'[r].seg = run[r].seg
      BY <1>1, <1>2, StoppedRow
    <2>2. \A type \in Logged : [run |-> r, type |-> type] \in unlogged' <=> type = "run_stopped"
      BY <1>2
    <2> QED
      BY <1>1, <1>2, <2>1, <2>2 DEF Follows, Due, Logged
  <1>3. CASE r \notin stopped
    <2>1. \A e \in unlogged' : e.run # r
      BY <1>3
    <2>2. \A type \in Logged : [run |-> r, type |-> type] \notin unlogged'
      BY <2>1
    <2>3. \A type \in Logged : Due(run[r], type) \in Nat
      BY <1>1 DEF Due, Logged
    <2> QED
      BY <1>3, <2>1, <2>2, <2>3 DEF Follows
  <1> QED
    BY <1>2, <1>3

LEMMA AdvanceFollows ==
  ASSUME Inv, NEW r \in RunIds, NEW q \in RunIds, run[q].status # "absent",
         AdvanceRunSegment(q, run[q].seg + 1)
  PROVE  Follows(r)
  <1>1. run \in [RunIds -> RunRow] /\ run[r] \in RunRow /\ run[r].ended \in Nat /\ run[r].seg \in Nat
    BY DEF Inv, TypeOK, RunRow
  <1>2. CASE r = q
    <2>1. run'[r] = [run[r] EXCEPT !.seg = run[r].seg + 1]
      BY <1>1, <1>2 DEF AdvanceRunSegment
    <2>2. /\ run'[r].status = run[r].status /\ run'[r].ended = run[r].ended
          /\ run'[r].seg = run[r].seg + 1
      BY <1>1, <2>1 DEF RunRow
    <2>3. \A type \in Logged : [run |-> r, type |-> type] \in unlogged' <=> type = "segment_changed"
      BY <1>2 DEF AdvanceRunSegment
    <2> QED
      BY <1>1, <1>2, <2>2, <2>3 DEF Follows, Due, Logged
  <1>3. CASE r # q
    <2>1. run'[r] = run[r] /\ \A e \in unlogged' : e.run # r
      BY <1>1, <1>3 DEF AdvanceRunSegment
    <2>2. \A type \in Logged : [run |-> r, type |-> type] \notin unlogged'
      BY <2>1
    <2>3. \A type \in Logged : Due(run[r], type) \in Nat
      BY <1>1 DEF Due, Logged
    <2> QED
      BY <2>1, <2>2, <2>3 DEF Follows
  <1> QED
    BY <1>2, <1>3

LEMMA WritesFollow ==
  ASSUME Inv, LogInv, Writes, NEW r \in RunIds
  PROVE  Follows(r)
  <1>1. run \in [RunIds -> RunRow]
    BY DEF Inv, TypeOK
  <1>2. ASSUME NEW q \in RunIds, run[q].status # "absent", StopRun(q) PROVE Follows(r)
    <2>1. PICK stopped \in SUBSET RunIds : stopped = {q}
      OBVIOUS
    <2>2. run'[r] = IF r \in stopped THEN Stopped(run[r], "done") ELSE run[r]
      BY <1>1, <1>2, <2>1 DEF StopRun
    <2>3. unlogged' = {[run |-> p, type |-> "run_stopped"] : p \in stopped}
      BY <1>2, <2>1 DEF StopRun
    <2>4. \A p \in stopped : run[p].status # "absent"
      BY <1>2, <2>1
    <2> QED
      BY <2>2, <2>3, <2>4, StopFollows
  <1>3. CASE TickWrites
    <2>1. PICK s \in loop.todo : StopRun(s.run) \/ AdvanceRunSegment(s.run, s.seg + 1)
      BY <1>3 DEF TickWrites
    <2>2. /\ s.run \in RunIds /\ run[s.run].status # "absent" /\ s.seg = run[s.run].seg
      BY DEF Inv, TypeOK, TicksOwnRuns, Snapshot, LogInv, TicksKnowSegments
    <2> QED
      BY <1>2, <2>1, <2>2, AdvanceFollows
  <1>4. CASE StopsRunning
    BY <1>2, <1>4 DEF StopsRunning, Running
  <1>5. CASE AbortsRunning
    <2>1. /\ Running \in SUBSET RunIds /\ \A q \in Running : run[q].status # "absent"
          /\ run'[r] = IF r \in Running THEN Stopped(run[r], "aborted") ELSE run[r]
          /\ unlogged' = {[run |-> q, type |-> "run_stopped"] : q \in Running}
      BY <1>5 DEF AbortsRunning, AbortRunningRuns, Running
    <2> HIDE DEF Running
    <2> QED
      BY <2>1, StopFollows
  <1> QED
    BY <1>3, <1>4, <1>5 DEF Writes

-----------------------------------------------------------------------------
LEMMA AccountedStep ==
  ASSUME Inv, LogInv, [Next]_vars
  PROVE  Accounted' /\ NoHistory' /\ StartsFirst'
  <1> DEFINE Goal == Accounted' /\ NoHistory' /\ StartsFirst'
  <1>t. \A r \in RunIds : run[r].ended \in Nat /\ run[r].seg \in Nat
    BY DEF Inv, TypeOK, RunRow
  <1>a. \A r \in RunIds \ lost : /\ \A type \in Logged : Seen(r, type) + Still(r, type) = Due(run[r], type)
                                 /\ log[r] # <<>> => log[r][1] = "run_started"
    BY DEF LogInv, Accounted
  <1>1. CASE Quiet
    BY <1>1 DEF Quiet, LogInv, Accounted, NoHistory, StartsFirst, Seen, Still
  <1>2. CASE Writes
    <2>1. unlogged = {} /\ UNCHANGED <<log, lost>>
      BY <1>2 DEF Writes, LockFree
    <2>2. ASSUME NEW r \in RunIds \ lost, NEW type \in Logged
          PROVE  Seen(r, type) + (IF [run |-> r, type |-> type] \in unlogged' THEN 1 ELSE 0)
                   = Due(run'[r], type)
      <3>1. Seen(r, type) \in Nat /\ Seen(r, type) + 0 = Due(run[r], type)
        BY <1>a, <2>1, SeenType DEF Still
      <3> QED
        BY <1>2, <3>1, WritesFollow DEF Follows
    <2>3. Accounted'
      BY <1>a, <2>1, <2>2 DEF Accounted, Seen, Still
    <2>4. NoHistory'
      <3>1. \A r \in RunIds : run'[r].status = "absent" => run[r].status = "absent" /\ run'[r] = run[r]
        BY <1>2, WritesFollow DEF Follows
      <3> QED
        BY <3>1 DEF NoHistory, LogInv
    <2>5. StartsFirst'
      <3> SUFFICES ASSUME NEW r \in RunIds \ lost, NEW e \in unlogged', e.run = r, log[r] = <<>>
                   PROVE  FALSE
        BY <2>1 DEF StartsFirst
      <3>1. run[r].status # "absent"
        BY <1>2, WritesFollow DEF Follows
      <3> QED
        BY <2>1, <3>1, Begun DEF LockFree
    <2> QED
      BY <2>3, <2>4, <2>5
  <1>3. CASE Begins
    <2>1. PICK csvWritten \in BOOLEAN :
            /\ nextRun \in RunIds /\ nextRun' = nextRun + 1
            /\ \A r \in RunIds : r # nextRun => run'[r] = run[r]
            /\ run'[nextRun].status = "running" /\ run'[nextRun].ended = 0 /\ run'[nextRun].seg = 0
            /\ unlogged' = IF csvWritten THEN {[run |-> nextRun, type |-> "run_started"]} ELSE {}
            /\ lost' = IF csvWritten THEN lost ELSE lost \cup {nextRun}
            /\ unlogged = {} /\ UNCHANGED log
      <3>1. run \in [RunIds -> RunRow] /\ nextRun \in 1..(MaxRuns + 1)
        BY DEF Inv, TypeOK
      <3>2. PICK dev \in Nodes, dpl \in PlacementIds, gpl \in PlacementIds,
                 sweep \in BOOLEAN, csvWritten \in BOOLEAN :
              InsertRun(dev, dpl, gpl, sweep, csvWritten)
        BY <1>3 DEF Begins, Inserts
      <3>3. nextRun \in RunIds
        BY <3>1, <3>2, WorkflowAssumption DEF InsertRun, RunIds
      <3> QED
        BY <1>3, <3>1, <3>2, <3>3 DEF Begins, LockFree, InsertRun
    <2>2. run[nextRun].status = "absent"
      BY <2>1 DEF Inv, FreshRuns, TypeOK
    <2>3. ASSUME NEW r \in RunIds \ lost', NEW type \in Logged
          PROVE  Seen(r, type) + (IF [run |-> r, type |-> type] \in unlogged' THEN 1 ELSE 0)
                   = Due(run'[r], type)
      <3>1. r \in RunIds \ lost
        BY <2>1, <2>3
      <3>2. Seen(r, type) \in Nat /\ Seen(r, type) + 0 = Due(run[r], type)
        BY <1>a, <2>1, <3>1, SeenType DEF Still
      <3>3. CASE r = nextRun
        <4>1. csvWritten /\ ([run |-> r, type |-> type] \in unlogged' <=> type = "run_started")
          BY <2>1, <2>3, <3>3
        <4>2. Due(run[r], type) = 0
          BY <2>2, <3>3 DEF LogInv, NoHistory, Due
        <4>3. Due(run'[r], type) = IF type = "run_started" THEN 1 ELSE 0
          BY <2>1, <3>3 DEF Due
        <4> QED
          BY <3>2, <4>1, <4>2, <4>3
      <3>4. CASE r # nextRun
        <4>1. [run |-> r, type |-> type] \notin unlogged' /\ run'[r] = run[r]
          BY <2>1, <3>4
        <4> QED
          BY <3>2, <4>1
      <3> QED
        BY <3>3, <3>4
    <2>4. lost \subseteq lost'
      BY <2>1
    <2>5. Accounted'
      BY <1>a, <2>1, <2>3, <2>4 DEF Accounted, Seen, Still
    <2>6. NoHistory'
      BY <2>1 DEF NoHistory, LogInv
    <2>7. StartsFirst'
      BY <2>1 DEF StartsFirst
    <2> QED
      BY <2>5, <2>6, <2>7
  <1>4. CASE Notes
    <2>1. PICK q \in RunIds \cup {None}, type \in {"relocated", "gateway_moved"} :
            RecordEvent(q, type) /\ (q \in RunIds => run[q].status # "absent")
      BY <1>4 DEF Notes
    <2>2. unlogged = {} /\ UNCHANGED <<run, unlogged, lost>> /\ type \in EventTypes
      BY <1>4 DEF Notes, LockFree, EventTypes
    <2>3. \A r \in RunIds, t \in Logged :
            Times(log'[r], t) = Seen(r, t)
      <3> SUFFICES ASSUME NEW r \in RunIds, NEW t \in Logged
                   PROVE  Times(log'[r], t) = Seen(r, t)
        OBVIOUS
      <3>1. t # type
        BY DEF Logged
      <3> QED
        BY <2>1, <2>2, <3>1, SeenStep, SeenType
    <2>4. \A r \in RunIds \ lost : log'[r] # <<>> => log'[r][1] = "run_started"
      <3> SUFFICES ASSUME NEW r \in RunIds \ lost, log'[r] # <<>> PROVE log'[r][1] = "run_started"
        OBVIOUS
      <3>1. log[r] \in Seq(EventTypes) /\ log \in [RunIds \cup {None} -> Seq(EventTypes)]
        BY DEF Inv, TypeOK
      <3>2. CASE q = r
        <4>1. log[r] # <<>> /\ log[r][1] = "run_started"
          BY <1>a, <2>1, <2>2, <3>2, Begun DEF LockFree
        <4>2. log'[r] = Append(log[r], type)
          BY <2>1, <3>1, <3>2 DEF RecordEvent
        <4> QED
          BY <2>2, <3>1, <4>1, <4>2
      <3>3. CASE q # r
        BY <1>a, <2>1, <3>1, <3>3 DEF RecordEvent
      <3> QED
        BY <3>2, <3>3
    <2>5. Accounted'
      BY <1>a, <2>2, <2>3, <2>4 DEF Accounted, Seen, Still
    <2>6. NoHistory' /\ StartsFirst'
      BY <2>2 DEF NoHistory, StartsFirst, LogInv
    <2> QED
      BY <2>5, <2>6
  <1>5. CASE LogAndUnlock
    <2>1. PICK e \in unlogged : RecordEvent(e.run, e.type) /\ unlogged' = unlogged \ {e}
      BY <1>5 DEF LogAndUnlock
    <2>2. /\ UNCHANGED <<run, lost>> /\ e.run \in RunIds /\ e.type \in EventTypes
          /\ e = [run |-> e.run, type |-> e.type]
      BY <1>5 DEF LogAndUnlock, db, Inv, TypeOK
    <2>3. ASSUME NEW r \in RunIds, NEW t \in Logged
          PROVE  Times(log'[r], t)
                   + (IF [run |-> r, type |-> t] \in unlogged' THEN 1 ELSE 0) = Seen(r, t) + Still(r, t)
      <3>1. Seen(r, t) \in Nat
        BY SeenType
      <3>2. Times(log'[r], t)
              = Seen(r, t) + (IF e.run = r /\ e.type = t THEN 1 ELSE 0)
        BY <2>1, <2>2, SeenStep
      <3>3. CASE e.run = r /\ e.type = t
        <4>1. [run |-> r, type |-> t] \in unlogged /\ [run |-> r, type |-> t] \notin unlogged'
          BY <2>1, <2>2, <3>3
        <4> QED
          BY <3>1, <3>2, <3>3, <4>1 DEF Still
      <3>4. CASE ~(e.run = r /\ e.type = t)
        <4>1. [run |-> r, type |-> t] \in unlogged' <=> [run |-> r, type |-> t] \in unlogged
          BY <2>1, <2>2, <3>4
        <4> QED
          BY <3>1, <3>2, <3>4, <4>1 DEF Still
      <3> QED
        BY <3>3, <3>4
    <2>4. \A r \in RunIds \ lost :
            /\ log'[r] # <<>> => log'[r][1] = "run_started"
            /\ log'[r] = <<>> => log[r] = <<>>
      <3> SUFFICES ASSUME NEW r \in RunIds \ lost
                   PROVE  /\ log'[r] # <<>> => log'[r][1] = "run_started"
                          /\ log'[r] = <<>> => log[r] = <<>>
        OBVIOUS
      <3>1. log[r] \in Seq(EventTypes) /\ log \in [RunIds \cup {None} -> Seq(EventTypes)]
        BY DEF Inv, TypeOK
      <3>2. CASE e.run = r
        <4>1. log'[r] = Append(log[r], e.type)
          BY <2>1, <3>1, <3>2 DEF RecordEvent
        <4>2. CASE log[r] = <<>>
          <5>1. e.type = "run_started"
            BY <3>2, <4>2 DEF LogInv, StartsFirst
          <5> QED
            BY <4>1, <4>2, <5>1
        <4>3. CASE log[r] # <<>>
          BY <1>a, <2>2, <3>1, <4>1, <4>3
        <4> QED
          BY <4>2, <4>3
      <3>3. CASE e.run # r
        BY <1>a, <2>1, <3>1, <3>3 DEF RecordEvent
      <3> QED
        BY <3>2, <3>3
    <2>5. Accounted'
      BY <1>a, <2>2, <2>3, <2>4 DEF Accounted, Seen, Still
    <2>6. NoHistory'
      BY <2>2 DEF NoHistory, LogInv
    <2>7. StartsFirst'
      BY <2>1, <2>2, <2>4 DEF StartsFirst, LogInv
    <2> QED
      BY <2>5, <2>6, <2>7
  <1>6. CASE Restart
    <2>1. /\ unlogged' = {} /\ UNCHANGED <<run, log>> /\ lost \subseteq lost'
          /\ \A e \in unlogged : e.run \in lost'
      BY <1>6 DEF Restart, db
    <2>2. ASSUME NEW r \in RunIds \ lost', NEW t \in Logged PROVE Still(r, t) = 0
      BY <2>1, <2>2 DEF Still
    <2>3. Accounted'
      BY <1>a, <2>1, <2>2 DEF Accounted, Seen, Still
    <2>4. NoHistory' /\ StartsFirst'
      BY <2>1 DEF NoHistory, StartsFirst, LogInv
    <2> QED
      BY <2>3, <2>4
  <1> QED
    BY <1>1, <1>2, <1>3, <1>4, <1>5, <1>6, LogWriters

(* What the tick has kept stays true: nobody else writes segments, and a   *)
(* run is in its list once.                                                *)
LEMMA SegmentsKnown ==
  ASSUME Inv, LogInv, [Next]_vars
  PROVE  TicksKnowSegments'
  <1>1. /\ run \in [RunIds -> RunRow]
        /\ \A s \in loop.todo : /\ s \in Snapshot /\ s.run \in RunIds /\ s.seg = run[s.run].seg
                                /\ run[s.run].status # "absent"
    BY DEF Inv, TypeOK, TicksOwnRuns, Snapshot, LogInv, TicksKnowSegments
  <1>2. CASE TickSnapshot
    BY <1>2 DEF TickSnapshot, db, TicksKnowSegments
  <1>3. ASSUME NEW s \in loop.todo, AdvanceRunSegment(s.run, s.seg + 1), TickPast(s)
        PROVE  TicksKnowSegments'
    <2>1. loop'.todo = loop.todo \ {s}
      BY <1>3 DEF TickPast, Inv, TypeOK
    <2>2. ASSUME NEW u \in loop'.todo PROVE u.seg = run'[u.run].seg
      <3>1. u \in loop.todo /\ u # s
        BY <2>1
      <3>2. u.run # s.run
        BY <1>1, <3>1 DEF Snapshot
      <3> QED
        BY <1>1, <1>3, <3>1, <3>2 DEF AdvanceRunSegment
    <2> QED
      BY <2>2 DEF TicksKnowSegments
  <1>4. CASE loop'.todo = {}
    BY <1>4 DEF TicksKnowSegments
  <1>5. CASE loop'.todo \subseteq loop.todo
    <2>0. ASSUME NEW q \in RunIds, StopRun(q), NEW s \in loop.todo
          PROVE  run'[s.run].seg = run[s.run].seg
      BY <1>1, <2>0, StoppedRow DEF StopRun
    <2>a. ASSUME \A s \in loop.todo : run'[s.run].seg = run[s.run].seg
          PROVE  TicksKnowSegments'
      BY <1>1, <1>5, <2>a DEF TicksKnowSegments
    <2>1. CASE StopsRunning
      BY <2>0, <2>1, <2>a DEF StopsRunning, Running
    <2>2. CASE AbortsRunning
      BY <1>1, <2>2, <2>a, StoppedRow DEF AbortsRunning, AbortRunningRuns
    <2>3. CASE Inserts
      <3>1. \A s \in loop.todo : s.run # nextRun
        BY <1>1 DEF Inv, FreshRuns, TypeOK, RunIds
      <3> QED
        BY <1>1, <2>3, <2>a, <3>1 DEF Inserts, InsertRun
    <2>4. CASE TickWrites
      BY <1>1, <1>3, <2>0, <2>4, <2>a DEF TickWrites
    <2>5. CASE UNCHANGED <<run, nextRun>>
      BY <2>5, <2>a
    <2> QED
      BY <2>1, <2>2, <2>3, <2>4, <2>5, RunWriters
  <1> QED
    BY <1>2, <1>4, <1>5, LoopWriters DEF Inv

(* A relocate comes to its event by way of its insert. *)
LEMMA RelocatesStep ==
  ASSUME Inv, LogInv, [Next]_vars
  PROVE  RelocatesRuns'
  <1>1. \A r \in RunIds : run[r].status # "absent" => run'[r].status # "absent"
    BY StatusStep, WorkflowAssumption DEF Inv, FreshRuns, TypeOK, RunIds
  <1>2. task \in [Threads -> TaskType]
    BY DEF Inv, TypeOK, TaskType
  <1>3. ASSUME NEW u \in Threads, task'[u].at = "relocate.event"
        PROVE  \/ task[u].at = "relocate.event" /\ task'[u].run = task[u].run
               \/ task'[u].run = nextRun /\ nextRun' = nextRun + 1
    <2> DEFINE Goal == \/ task[u].at = "relocate.event" /\ task'[u].run = task[u].run
                       \/ task'[u].run = nextRun /\ nextRun' = nextRun + 1
    <2>1. ASSUME NEW t \in Threads, NEW new, task' = [task EXCEPT ![t] = new],
                 new.at = "relocate.event" => new.run = nextRun /\ nextRun' = nextRun + 1
          PROVE  Goal
      BY <1>2, <1>3, <2>1
    <2>2. Idle.at = "idle"
      BY DEF Idle
    <2>3. ASSUME NEW t \in Threads, StartHandler(t) PROVE Goal
      <3>1. ASSUME NEW d \in Devices, StartCheck(t, d) PROVE Goal
        BY <2>1, <3>1 DEF StartCheck, Idle
      <3>2. CASE StartReadDevice(t)
        <4>1. PICK p : task' = [task EXCEPT ![t] = [task[t] EXCEPT !.at = "start.gateway", !.dpl = p]]
          BY <1>2, <3>2 DEF StartReadDevice
        <4>2. [task[t] EXCEPT !.at = "start.gateway", !.dpl = p].at = "start.gateway"
          BY <1>2 DEF TaskType
        <4> QED
          BY <2>1, <4>1, <4>2
      <3>3. CASE StartReadGateway(t)
        <4>1. PICK p : \/ task' = [task EXCEPT ![t] = Idle]
                       \/ task' = [task EXCEPT ![t] = [task[t] EXCEPT !.at = "start.insert", !.gpl = p]]
          BY <1>2, <3>3 DEF StartReadGateway
        <4>2. [task[t] EXCEPT !.at = "start.insert", !.gpl = p].at = "start.insert"
          BY <1>2 DEF TaskType
        <4> QED
          BY <2>1, <2>2, <4>1, <4>2
      <3>4. CASE StartInsert(t)
        BY <2>1, <2>2, <3>4 DEF StartInsert
      <3> QED
        BY <2>3, <3>1, <3>2, <3>3, <3>4 DEF StartHandler
    <2>4. ASSUME NEW t \in Threads, RelocateHandler(t) PROVE Goal
      <3>1. ASSUME NEW d \in Devices, RelocateCheck(t, d) PROVE Goal
        BY <2>1, <3>1 DEF RelocateCheck, Idle
      <3>2. CASE RelocateStop(t)
        <4>1. [task[t] EXCEPT !.at = "relocate.place"].at = "relocate.place"
          BY <1>2 DEF TaskType
        <4> QED
          BY <1>2, <2>1, <3>2, <4>1 DEF RelocateStop, Goto
      <3>3. CASE RelocatePlace(t)
        <4>1. [task[t] EXCEPT !.at = "relocate.insert", !.dpl = nextPlacement].at = "relocate.insert"
          BY <1>2 DEF TaskType
        <4> QED
          BY <1>2, <2>1, <3>3, <4>1 DEF RelocatePlace
      <3>4. CASE RelocateInsert(t)
        <4> DEFINE new == [task[t] EXCEPT !.at = "relocate.event", !.run = nextRun]
        <4>1. new.run = nextRun
          BY <1>2 DEF TaskType
        <4>2. /\ nextRun' = nextRun + 1
              /\ task' = [task EXCEPT ![t] = new] \/ task' = [task EXCEPT ![t] = Idle]
          BY <1>2, <3>4 DEF RelocateInsert, InsertRun
        <4> QED
          BY <2>1, <2>2, <4>1, <4>2
      <3>5. CASE RelocateEvent(t)
        BY <2>1, <2>2, <3>5 DEF RelocateEvent
      <3> QED
        BY <2>4, <3>1, <3>2, <3>3, <3>4, <3>5 DEF RelocateHandler
    <2>5. CASE Restart
      BY <1>3, <2>2, <2>5 DEF Restart
    <2>6. CASE LoopHandler \/ Tick \/ LogAndUnlock \/ UNCHANGED vars
      BY <1>3, <2>6 DEF LoopHandler, Place, StopRequest, MoveCheck, ForceAbort, MovePlace,
         MoveEvent, Tick, TickSnapshot, TickSkip, TickAdvance, TickDone, TickEnd, LogAndUnlock, vars
    <2> QED
      BY <2>3, <2>4, <2>5, <2>6 DEF Next
  <1> SUFFICES ASSUME NEW u \in Threads, task'[u].at = "relocate.event", task'[u].run \in RunIds
               PROVE  run'[task'[u].run].status # "absent"
    BY DEF RelocatesRuns
  <1>4. CASE task[u].at = "relocate.event" /\ task'[u].run = task[u].run
    BY <1>1, <1>4 DEF LogInv, RelocatesRuns
  <1>5. CASE task'[u].run = nextRun /\ nextRun' = nextRun + 1
    <2>1. nextRun \in Nat
      BY WorkflowAssumption DEF Inv, TypeOK
    <2> QED
      BY <1>5, <2>1, StatusStep
  <1> QED
    BY <1>3, <1>4, <1>5

LEMMA LogInvStep == Inv /\ LogInv /\ [Next]_vars => LogInv'
  BY AccountedStep, SegmentsKnown, RelocatesStep DEF LogInv

THEOREM LogInvariance == Spec => []LogInv
  BY Invariance, LogInit, LogInvStep, PTL DEF Spec

(***************************************************************************)
(* The event log accounts for every change of every run row, in order,     *)
(* whatever threads, handlers and ticks interleave, and for every run of   *)
(* which no crash between a commit and its event, and no failed CSV        *)
(* header, has taken an event away.                                        *)
(***************************************************************************)
THEOREM LogIsComplete == Spec => []LogAccountsForRuns
  BY LogInvariance, AccountedIs, PTL DEF LogInv

-----------------------------------------------------------------------------
(***************************************************************************)
(* With one operator who waits for each answer, as the cockpit's own page  *)
(* does, the four-call handlers are safe although nothing locks them: for  *)
(* every number of devices, runs and segments, no device has two running   *)
(* runs and every running run measures where its row says.                 *)
(***************************************************************************)

(* What a handler knows while it is under way, nobody else being so. *)
Ready(k) ==
  /\ k.dev \in Devices
  /\ k.at \in {"start.device", "start.gateway", "start.insert",
               "relocate.place", "relocate.insert"} => RunningOf(k.dev) = {}
  /\ k.at = "start.gateway" /\ k.dpl # None => k.dpl \in OpenPlacements(k.dev)
  /\ k.at \in {"start.insert", "relocate.insert"} => k.dpl \in OpenPlacements(k.dev)
  /\ k.at \in {"start.insert", "relocate.stop", "relocate.place", "relocate.insert"}
       => k.gpl \in OpenPlacements(Gateway)

OneAtATime == \A t \in Threads : Busy(t) => /\ loop.at \in {"idle", "tick"}
                                            /\ \A u \in Threads : Busy(u) => u = t
HandlersReady == \A t \in Threads : Busy(t) => Ready(task[t])
MovesNothingRunning == loop.at \in {"move.place", "force.place"} => Running = {}

SInv == /\ Inv /\ OneAtATime /\ HandlersReady /\ MovesNothingRunning
        /\ OneRunningRun /\ RunsMeasureWhereTheyAre

-----------------------------------------------------------------------------
(***************************************************************************)
(* What a step may do to the two sets of rows the handlers look at.        *)
(***************************************************************************)
SamePlaces == UNCHANGED placement
NoNewRun   == \A r \in RunIds : run'[r].status = "running" =>
                /\ run[r].status = "running" /\ run'[r].dev = run[r].dev
                /\ run'[r].dpl = run[r].dpl /\ run'[r].gpl = run[r].gpl

LEMMA StopIsNoNewRun ==
  ASSUME Inv, NEW r \in RunIds, StopRun(r) PROVE NoNewRun
  BY DEF Inv, TypeOK, StopRun, Stopped, NoNewRun, RunRow

LEMMA AdvanceIsNoNewRun ==
  ASSUME Inv, NEW r \in RunIds, NEW seg, AdvanceRunSegment(r, seg) PROVE NoNewRun
  BY DEF Inv, TypeOK, AdvanceRunSegment, NoNewRun, RunRow

LEMMA AbortIsNoNewRun ==
  ASSUME Inv, AbortRunningRuns PROVE NoNewRun /\ Running' = {}
  <1>1. ASSUME NEW r \in RunIds PROVE run'[r].status # "running"
    <2>1. run'[r] = IF run[r].status = "running" THEN [run[r] EXCEPT !.status = "aborted", !.ended = @ + 1]
                    ELSE run[r]
      BY DEF AbortRunningRuns, Running, Stopped
    <2> QED
      BY <2>1 DEF Inv, TypeOK, RunRow
  <1> QED
    BY <1>1 DEF NoNewRun, Running

LEMMA SameRunsIsNoNewRun == UNCHANGED run => NoNewRun
  BY DEF NoNewRun

(* Steps that neither place nor start: everything a handler knew stands. *)
LEMMA ReadyStands ==
  ASSUME SamePlaces, NoNewRun, NEW k, Ready(k) PROVE Ready(k)'
  <1>1. \A n : OpenPlacements(n)' = OpenPlacements(n)
    BY DEF SamePlaces, OpenPlacements
  <1>2. \A d : RunningOf(d)' \subseteq RunningOf(d)
    BY DEF NoNewRun, RunningOf, Running
  <1> QED
    BY <1>1, <1>2 DEF Ready

LEMMA RunsStand ==
  ASSUME SamePlaces, NoNewRun, OneRunningRun, RunsMeasureWhereTheyAre
  PROVE  OneRunningRun' /\ RunsMeasureWhereTheyAre' /\ Running' \subseteq Running
  <1>1. \A n : OpenPlacements(n)' = OpenPlacements(n)
    BY DEF SamePlaces, OpenPlacements
  <1>2. \A r \in Running' : /\ r \in Running /\ run'[r].dev = run[r].dev
                            /\ run'[r].dpl = run[r].dpl /\ run'[r].gpl = run[r].gpl
    BY DEF NoNewRun, Running
  <1>3. OneRunningRun'
    BY <1>2 DEF OneRunningRun
  <1>4. RunsMeasureWhereTheyAre'
    BY <1>1, <1>2 DEF RunsMeasureWhereTheyAre
  <1> QED
    BY <1>2, <1>3, <1>4

(* The same for the handlers of the other threads: there are none. *)
LEMMA OthersIdle ==
  ASSUME SInv, NEW t \in Threads, Busy(t), NEW new, task' = [task EXCEPT ![t] = new],
         new = Idle \/ Ready(new)', UNCHANGED loop
  PROVE  OneAtATime' /\ HandlersReady'
  <1>1. \A u \in Threads : u # t => ~Busy(u)' /\ (Busy(u)' <=> Busy(u))
    BY DEF SInv, Inv, TypeOK, OneAtATime, Busy
  <1>2. task'[t] = new
    BY DEF SInv, Inv, TypeOK
  <1>3. HandlersReady'
    BY <1>1, <1>2 DEF HandlersReady, Busy
  <1>4. OneAtATime'
    BY <1>1 DEF SInv, OneAtATime
  <1> QED
    BY <1>3, <1>4

(* The one way in which the set of running runs grows. *)
LEMMA InsertStep ==
  ASSUME SInv, NEW k \in TaskType, NEW sweep \in BOOLEAN, NEW csvWritten,
         InsertRun(k.dev, k.dpl, k.gpl, sweep, csvWritten), SamePlaces,
         Ready(k), k.at \in {"start.insert", "relocate.insert"}
  PROVE  OneRunningRun' /\ RunsMeasureWhereTheyAre'
  <1>1. \A n : OpenPlacements(n)' = OpenPlacements(n)
    BY DEF SamePlaces, OpenPlacements
  <1>2. /\ run \in [RunIds -> RunRow] /\ nextRun \in RunIds
        /\ run' = [run EXCEPT ![nextRun] =
             [dev |-> k.dev, dpl |-> k.dpl, gpl |-> k.gpl, sweep |-> sweep, seg |-> 0,
              status |-> "running", ended |-> 0]]
    BY WorkflowAssumption DEF InsertRun, SInv, Inv, TypeOK, RunIds
  <1>3. /\ run'[nextRun].dev = k.dev /\ run'[nextRun].dpl = k.dpl /\ run'[nextRun].gpl = k.gpl
        /\ \A r \in RunIds : r # nextRun => run'[r] = run[r]
    BY <1>2
  <1>4. \A r \in Running' : r # nextRun => r \in Running /\ run'[r] = run[r] /\ run[r].dev # k.dev
    BY <1>3 DEF Running, Ready, RunningOf
  <1>5. OneRunningRun'
    BY <1>3, <1>4 DEF SInv, OneRunningRun
  <1>6. RunsMeasureWhereTheyAre'
    BY <1>1, <1>3, <1>4 DEF SInv, RunsMeasureWhereTheyAre, Ready
  <1> QED
    BY <1>5, <1>6

-----------------------------------------------------------------------------
LEMMA StartStep ==
  ASSUME SInv, SingleOperator, NEW t \in Threads, StartHandler(t) PROVE SInv'
  <1>1. Inv'
    BY InvStep DEF SInv, Next
  <1>2. loop' = loop /\ SamePlaces
    BY DEF StartHandler, StartCheck, StartReadDevice, StartReadGateway, StartInsert, db, SamePlaces
  <1>3. ASSUME UNCHANGED run
        PROVE  OneRunningRun' /\ RunsMeasureWhereTheyAre' /\ MovesNothingRunning'
    <2>1. NoNewRun
      BY <1>3, SameRunsIsNoNewRun
    <2> QED
      BY <1>2, <2>1, RunsStand DEF SInv, MovesNothingRunning
  <1>4. task \in [Threads -> TaskType]
    BY DEF SInv, Inv, TypeOK, TaskType
  <1>5. ASSUME NEW d \in Devices, StartCheck(t, d) PROVE SInv'
    <2> DEFINE new == [Idle EXCEPT !.at = "start.device", !.dev = d]
    <2>1. /\ task' = [task EXCEPT ![t] = new] /\ UNCHANGED <<run, loop>>
          /\ RunningOf(d) = {} /\ loop.at \in {"idle", "tick"}
          /\ \A u \in Threads : ~Busy(u)
      BY <1>5 DEF StartCheck, MayRequest, db
    <2>2. new.dev = d /\ new.at = "start.device"
      BY DEF Idle
    <2>3. Ready(new)
      BY <2>1, <2>2 DEF Ready
    <2>4. Ready(new)'
      BY <1>2, <2>1, <2>3, SameRunsIsNoNewRun, ReadyStands
    <2>5. task'[t] = new /\ \A u \in Threads : u # t => task'[u] = Idle
      BY <1>4, <2>1 DEF Busy
    <2>6. HandlersReady' /\ OneAtATime'
      BY <2>1, <2>4, <2>5 DEF HandlersReady, OneAtATime, Busy
    <2> QED
      BY <1>1, <1>3, <2>1, <2>6 DEF SInv
  <1>6. CASE StartReadDevice(t)
    <2>1. PICK p \in FetchOne(OpenPlacements(task[t].dev)) :
            task' = [task EXCEPT ![t].at = "start.gateway", ![t].dpl = p]
      BY <1>6 DEF StartReadDevice
    <2>0. PICK new : new = [task[t] EXCEPT !.at = "start.gateway", !.dpl = p]
      OBVIOUS
    <2>2. task' = [task EXCEPT ![t] = new] /\ UNCHANGED run /\ task[t].at = "start.device"
      BY <1>4, <1>6, <2>0, <2>1 DEF StartReadDevice, db
    <2>3. Busy(t) /\ Ready(task[t])
      BY <2>2 DEF SInv, HandlersReady, Busy, Idle
    <2>4. new.at = "start.gateway" /\ new.dpl = p /\ new.dev = task[t].dev
      BY <1>4, <2>0 DEF TaskType
    <2>5. p # None => p \in OpenPlacements(new.dev)
      BY <2>4 DEF FetchOne
    <2>6. Ready(new)
      BY <2>2, <2>3, <2>4, <2>5 DEF Ready
    <2>7. Ready(new)'
      BY <1>2, <2>2, <2>6, SameRunsIsNoNewRun, ReadyStands
    <2> QED
      BY <1>1, <1>2, <1>3, <2>2, <2>3, <2>7, OthersIdle DEF SInv
  <1>7. CASE StartReadGateway(t)
    <2>1. PICK p \in FetchOne(OpenPlacements(Gateway)) :
            task' = [task EXCEPT ![t] =
                      IF p = None \/ task[t].dpl = None THEN Idle
                      ELSE [task[t] EXCEPT !.at = "start.insert", !.gpl = p]]
      BY <1>4, <1>7 DEF StartReadGateway
    <2>0. PICK new : new = IF p = None \/ task[t].dpl = None THEN Idle
                           ELSE [task[t] EXCEPT !.at = "start.insert", !.gpl = p]
      OBVIOUS
    <2>2. task' = [task EXCEPT ![t] = new] /\ UNCHANGED run /\ task[t].at = "start.gateway"
      BY <1>7, <2>0, <2>1 DEF StartReadGateway, db
    <2>3. Busy(t) /\ Ready(task[t])
      BY <2>2 DEF SInv, HandlersReady, Busy, Idle
    <2>4. new # Idle => /\ new.at = "start.insert" /\ new.dpl = task[t].dpl /\ new.gpl = p
                        /\ new.dev = task[t].dev /\ p # None /\ new.dpl # None
      BY <1>4, <2>0 DEF TaskType
    <2>5. p # None => p \in OpenPlacements(Gateway)
      BY DEF FetchOne
    <2>6. new # Idle => Ready(new)
      BY <2>2, <2>3, <2>4, <2>5 DEF Ready
    <2>7. new # Idle => Ready(new)'
      BY <1>2, <2>2, <2>6, SameRunsIsNoNewRun, ReadyStands
    <2> QED
      BY <1>1, <1>2, <1>3, <2>2, <2>3, <2>7, OthersIdle DEF SInv
  <1>8. CASE StartInsert(t)
    <2>1. PICK sweep \in BOOLEAN, csvWritten \in BOOLEAN :
            InsertRun(task[t].dev, task[t].dpl, task[t].gpl, sweep, csvWritten)
      BY <1>8 DEF StartInsert
    <2>2. task' = [task EXCEPT ![t] = Idle] /\ task[t].at = "start.insert"
      BY <1>8 DEF StartInsert
    <2>3. Busy(t) /\ Ready(task[t])
      BY <2>2 DEF SInv, HandlersReady, Busy, Idle
    <2>4. OneRunningRun' /\ RunsMeasureWhereTheyAre'
      BY <1>2, <1>4, <2>1, <2>2, <2>3, InsertStep
    <2>5. MovesNothingRunning'
      BY <1>2, <2>3 DEF SInv, OneAtATime, MovesNothingRunning
    <2> QED
      BY <1>1, <1>2, <2>2, <2>3, <2>4, <2>5, OthersIdle DEF SInv
  <1> QED
    BY <1>5, <1>6, <1>7, <1>8 DEF StartHandler

LEMMA RelocateStep ==
  ASSUME SInv, SingleOperator, NEW t \in Threads, RelocateHandler(t) PROVE SInv'
  <1>1. Inv'
    BY InvStep DEF SInv, Next
  <1>2. loop' = loop
    BY DEF RelocateHandler, RelocateCheck, RelocateStop, RelocatePlace, RelocateInsert,
           RelocateEvent
  <1>3. ASSUME SamePlaces, NoNewRun
        PROVE  OneRunningRun' /\ RunsMeasureWhereTheyAre' /\ MovesNothingRunning'
    BY <1>2, <1>3, RunsStand DEF SInv, MovesNothingRunning
  <1>4. task \in [Threads -> TaskType]
    BY DEF SInv, Inv, TypeOK, TaskType
  <1>5. ASSUME NEW d \in Devices, RelocateCheck(t, d) PROVE SInv'
    <2>1. PICK g \in OpenPlacements(Gateway) :
            task' = [task EXCEPT ![t] = [Idle EXCEPT !.at = "relocate.stop", !.dev = d, !.gpl = g]]
      BY <1>5 DEF RelocateCheck
    <2>2. PICK new : new = [Idle EXCEPT !.at = "relocate.stop", !.dev = d, !.gpl = g]
      OBVIOUS
    <2>3. /\ task' = [task EXCEPT ![t] = new] /\ UNCHANGED <<placement, run>>
          /\ loop.at \in {"idle", "tick"}
          /\ \A u \in Threads : ~Busy(u)
      BY <1>5, <2>1, <2>2 DEF RelocateCheck, MayRequest, db
    <2>4. new.dev = d /\ new.at = "relocate.stop" /\ new.gpl = g
      BY <2>2 DEF Idle
    <2>5. Ready(new)
      BY <2>4 DEF Ready
    <2>6. SamePlaces /\ NoNewRun
      BY <2>3, SameRunsIsNoNewRun DEF SamePlaces
    <2>7. Ready(new)'
      BY <2>5, <2>6, ReadyStands
    <2>8. task'[t] = new /\ \A u \in Threads : u # t => task'[u] = Idle
      BY <1>4, <2>3 DEF Busy
    <2>9. HandlersReady' /\ OneAtATime'
      BY <1>2, <2>3, <2>7, <2>8 DEF HandlersReady, OneAtATime, Busy
    <2> QED
      BY <1>1, <1>3, <2>6, <2>9 DEF SInv
  <1>6. CASE RelocateStop(t)
    <2>1. PICK new : new = [task[t] EXCEPT !.at = "relocate.place"]
      OBVIOUS
    <2>2. /\ task' = [task EXCEPT ![t] = new] /\ task[t].at = "relocate.stop"
          /\ SamePlaces
      BY <1>6, <2>1 DEF RelocateStop, Goto, SamePlaces
    <2>3. Busy(t) /\ Ready(task[t])
      BY <2>2 DEF SInv, HandlersReady, Busy, Idle
    <2>4. new.at = "relocate.place" /\ new.dev = task[t].dev /\ new.gpl = task[t].gpl
      BY <1>4, <2>1 DEF TaskType
    <2>5. NoNewRun /\ RunningOf(new.dev)' = {}
      <3>1. CASE RunningOf(task[t].dev) = {} /\ UNCHANGED run
        BY <2>4, <3>1, SameRunsIsNoNewRun DEF RunningOf, Running
      <3>2. ASSUME NEW r \in RunningOf(task[t].dev), StopRun(r)
            PROVE  NoNewRun /\ RunningOf(new.dev)' = {}
        <4>1. r \in RunIds /\ r \in Running /\ run[r].dev = task[t].dev
          BY DEF RunningOf, Running
        <4>2. NoNewRun /\ run'[r].status = "done"
          BY <3>2, <4>1, StopIsNoNewRun DEF SInv, Inv, TypeOK, RunRow, StopRun, Stopped
        <4>3. \A q \in RunningOf(new.dev)' : q \in Running /\ run[q].dev = task[t].dev /\ q # r
          BY <2>4, <4>2 DEF NoNewRun, RunningOf, Running
        <4> QED
          BY <4>1, <4>2, <4>3 DEF SInv, OneRunningRun
      <3> QED
        BY <1>6, <3>1, <3>2 DEF RelocateStop
    <2>6. Ready(new)'
      <3>1. OpenPlacements(Gateway)' = OpenPlacements(Gateway)
        BY <2>2 DEF SamePlaces, OpenPlacements
      <3> QED
        BY <2>2, <2>3, <2>4, <2>5, <3>1 DEF Ready
    <2> QED
      BY <1>1, <1>2, <1>3, <2>2, <2>3, <2>5, <2>6, OthersIdle DEF SInv
  <1>7. CASE RelocatePlace(t)
    <2>1. PICK new : new = [task[t] EXCEPT !.at = "relocate.insert", !.dpl = nextPlacement]
      OBVIOUS
    <2>2. /\ task' = [task EXCEPT ![t] = new] /\ task[t].at = "relocate.place"
          /\ UNCHANGED run /\ CreatePlacement(task[t].dev)
      BY <1>4, <1>7, <2>1 DEF RelocatePlace
    <2>3. Busy(t) /\ Ready(task[t])
      BY <2>2 DEF SInv, HandlersReady, Busy, Idle
    <2>4. /\ new.at = "relocate.insert" /\ new.dpl = nextPlacement
          /\ new.dev = task[t].dev /\ new.gpl = task[t].gpl
      BY <1>4, <2>1 DEF TaskType
    <2>5. task[t].dev \in Nodes /\ Gateway \in Nodes /\ Gateway # task[t].dev
      BY <2>3, WorkflowAssumption DEF Ready, Nodes
    <2>d. PICK d \in Nodes : d = task[t].dev
      BY <2>5
    <2>6. /\ OpenPlacements(d)' = {nextPlacement}
          /\ \A m \in Nodes : m # d => OpenPlacements(m)' = OpenPlacements(m)
      BY <2>2, <2>d, PlacementsAfter DEF SInv
    <2>7. RunningOf(task[t].dev) = {} /\ Running' = Running
      BY <2>2, <2>3 DEF Ready, Running
    <2>8. Ready(new)'
      <3>1. RunningOf(new.dev)' = {}
        BY <2>2, <2>4, <2>7 DEF RunningOf, Running
      <3> QED
        BY <2>2, <2>3, <2>4, <2>5, <2>d, <2>6, <3>1 DEF Ready
    <2>9. OneRunningRun' /\ RunsMeasureWhereTheyAre'
      <3>1. \A r \in Running : run[r].dev # task[t].dev /\ run[r].dev \in Nodes
        BY <2>7 DEF RunningOf, Running, SInv, Inv, TypeOK, RunRow
      <3> QED
        BY <2>2, <2>5, <2>d, <2>6, <2>7, <3>1 DEF SInv, OneRunningRun, RunsMeasureWhereTheyAre
    <2>10. MovesNothingRunning'
      BY <1>2, <2>7 DEF SInv, MovesNothingRunning
    <2> QED
      BY <1>1, <1>2, <2>2, <2>3, <2>8, <2>9, <2>10, OthersIdle DEF SInv
  <1>8. CASE RelocateInsert(t)
    <2>1. PICK csvWritten \in BOOLEAN :
            InsertRun(task[t].dev, task[t].dpl, task[t].gpl, FALSE, csvWritten)
      BY <1>8 DEF RelocateInsert
    <2>3. /\ task[t].at = "relocate.insert" /\ SamePlaces
          /\ \E written \in BOOLEAN :
               /\ InsertRun(task[t].dev, task[t].dpl, task[t].gpl, FALSE, written)
               /\ task' = [task EXCEPT ![t] =
                    IF written THEN [task[t] EXCEPT !.at = "relocate.event", !.run = nextRun]
                    ELSE Idle]
      BY <1>4, <1>8 DEF RelocateInsert, SamePlaces
    <2>4. Busy(t) /\ Ready(task[t])
      BY <2>3 DEF SInv, HandlersReady, Busy, Idle
    <2>5. OneRunningRun' /\ RunsMeasureWhereTheyAre'
      BY <1>4, <2>1, <2>3, <2>4, InsertStep
    <2>6. PICK after : /\ task' = [task EXCEPT ![t] = after]
                       /\ after # Idle => after.at = "relocate.event" /\ after.dev = task[t].dev
      <3>1. LET moved == [task[t] EXCEPT !.at = "relocate.event", !.run = nextRun]
            IN  moved.at = "relocate.event" /\ moved.dev = task[t].dev
        BY <1>4 DEF TaskType
      <3> QED
        BY <2>3, <3>1
    <2>7. after # Idle => Ready(after)'
      BY <2>4, <2>6 DEF Ready
    <2>8. MovesNothingRunning'
      BY <1>2, <2>4 DEF SInv, OneAtATime, MovesNothingRunning
    <2> QED
      BY <1>1, <1>2, <2>4, <2>5, <2>6, <2>7, <2>8, OthersIdle DEF SInv
  <1>9. CASE RelocateEvent(t)
    <2>1. task' = [task EXCEPT ![t] = Idle] /\ task[t].at = "relocate.event"
          /\ SamePlaces /\ NoNewRun
      BY <1>9, SameRunsIsNoNewRun DEF RelocateEvent, SamePlaces, db
    <2>2. Busy(t)
      BY <2>1 DEF Busy, Idle
    <2> QED
      BY <1>1, <1>2, <1>3, <2>1, <2>2, OthersIdle DEF SInv
  <1> QED
    BY <1>5, <1>6, <1>7, <1>8, <1>9 DEF RelocateHandler

(* The event loop: placing, moving, aborting, and the tick. *)
LEMMA LoopStep ==
  ASSUME SInv, SingleOperator, LoopHandler PROVE SInv'
  <1>1. Inv'
    BY InvStep DEF SInv, Next
  <1>2. UNCHANGED task
    BY DEF LoopHandler, Place, StopRequest, MoveCheck, ForceAbort, MovePlace, MoveEvent
  <1>3. ASSUME SamePlaces, NoNewRun
        PROVE  /\ OneRunningRun' /\ RunsMeasureWhereTheyAre' /\ Running' \subseteq Running
               /\ HandlersReady'
    <2>1. ASSUME NEW t \in Threads, NEW k, k = task[t], Busy(t) PROVE Ready(k)'
      BY <1>3, <2>1, ReadyStands DEF SInv, HandlersReady
    <2>2. HandlersReady'
      BY <1>2, <2>1 DEF HandlersReady, Busy
    <2> QED
      BY <1>3, <2>2, RunsStand DEF SInv
  <1>4. ASSUME \A t \in Threads : ~Busy(t)
        PROVE  OneAtATime' /\ HandlersReady'
    BY <1>2, <1>4 DEF OneAtATime, HandlersReady, Busy
  <1>5. Requested \/ MovePlace \/ MoveEvent => \A t \in Threads : ~Busy(t)
    BY DEF Requested, MayRequest, MovePlace, MoveEvent, OnLoop, SInv, OneAtATime
  <1>6. ASSUME NEW n \in Nodes, CreatePlacement(n), UNCHANGED run, \A t \in Threads : ~Busy(t),
               RunningOf(n) = {}, n = Gateway => Running = {}
        PROVE  OneRunningRun' /\ RunsMeasureWhereTheyAre' /\ Running' = Running
    <2>1. /\ OpenPlacements(n)' = {nextPlacement}
          /\ \A m \in Nodes : m # n => OpenPlacements(m)' = OpenPlacements(m)
      BY <1>6, PlacementsAfter DEF SInv
    <2>2. Running' = Running
      BY <1>6 DEF Running
    <2>3. \A r \in Running : run[r].dev # n /\ run[r].dev \in Nodes
      BY <1>6 DEF RunningOf, Running, SInv, Inv, TypeOK, RunRow
    <2> QED
      BY <1>6, <2>1, <2>2, <2>3 DEF SInv, OneRunningRun, RunsMeasureWhereTheyAre, Nodes
  <1>7. ASSUME NEW n \in Nodes, Place(n) PROVE SInv'
    <2>1. /\ loop' = loop /\ UNCHANGED run /\ CreatePlacement(n) /\ loop.at = "idle"
          /\ n # Gateway /\ RunningOf(n) = {} /\ \A t \in Threads : ~Busy(t)
      BY <1>5, <1>7 DEF Place, Requested, OnLoop
    <2> QED
      BY <1>1, <1>4, <1>6, <2>1 DEF SInv, MovesNothingRunning
  <1>8. ASSUME NEW d \in Devices, StopRequest(d) PROVE SInv'
    <2>1. PICK r \in RunningOf(d) : StopRun(r)
      BY <1>8 DEF StopRequest
    <2>2. NoNewRun
      BY <2>1, StopIsNoNewRun DEF SInv, RunningOf, Running
    <2>3. SamePlaces /\ loop' = loop /\ loop.at = "idle" /\ \A t \in Threads : ~Busy(t)
      BY <1>5, <1>8 DEF StopRequest, Requested, OnLoop, SamePlaces
    <2> QED
      BY <1>1, <1>3, <1>4, <2>2, <2>3 DEF SInv, MovesNothingRunning
  <1>9. CASE MoveCheck
    <2>1. /\ SamePlaces /\ NoNewRun /\ Running = {} /\ \A t \in Threads : ~Busy(t)
      BY <1>5, <1>9, SameRunsIsNoNewRun DEF MoveCheck, SamePlaces, db
    <2> QED
      BY <1>1, <1>3, <1>4, <2>1 DEF SInv, MovesNothingRunning
  <1>10. CASE ForceAbort
    <2>1. /\ SamePlaces /\ \A t \in Threads : ~Busy(t)
      BY <1>5, <1>10 DEF ForceAbort, SamePlaces
    <2>2. NoNewRun /\ Running' = {}
      BY <1>10, AbortIsNoNewRun DEF ForceAbort, SInv
    <2> QED
      BY <1>1, <1>3, <1>4, <2>1, <2>2 DEF SInv, MovesNothingRunning
  <1>11. CASE MovePlace
    <2>1. /\ CreatePlacement(Gateway) /\ UNCHANGED run /\ Running = {} /\ loop'.at = "move.event"
          /\ \A t \in Threads : ~Busy(t)
      BY <1>5, <1>11 DEF MovePlace, OnLoop, LoopTo, SInv, MovesNothingRunning
    <2>2. Gateway \in Nodes /\ RunningOf(Gateway) = {}
      BY <2>1 DEF Nodes, RunningOf
    <2> QED
      BY <1>1, <1>4, <1>6, <2>1, <2>2 DEF SInv, MovesNothingRunning
  <1>12. CASE MoveEvent
    <2>1. /\ SamePlaces /\ NoNewRun /\ loop'.at = "idle" /\ \A t \in Threads : ~Busy(t)
      BY <1>5, <1>12, SameRunsIsNoNewRun DEF MoveEvent, SamePlaces, LoopTo, db
    <2> QED
      BY <1>1, <1>3, <1>4, <2>1 DEF SInv, MovesNothingRunning
  <1> QED
    BY <1>7, <1>8, <1>9, <1>10, <1>11, <1>12 DEF LoopHandler

LEMMA TickStep ==
  ASSUME SInv, Tick PROVE SInv'
  <1>1. Inv'
    BY InvStep DEF SInv, Next
  <1>2. /\ UNCHANGED task /\ SamePlaces
        /\ loop.at \in {"idle", "tick"} /\ loop'.at \in {"idle", "tick"}
    <2>1. UNCHANGED task /\ SamePlaces /\ loop.at \in {"idle", "tick"}
      BY DEF Tick, TickSnapshot, TickSkip, TickAdvance, TickDone, TickEnd, OnLoop, SamePlaces, db
    <2>2. CASE TickSnapshot \/ TickEnd
      BY <2>1, <2>2 DEF TickSnapshot, TickEnd, LoopTo
    <2>3. ASSUME NEW s, TickPast(s) PROVE loop'.at = loop.at
      BY <2>3 DEF TickPast, SInv, Inv, TypeOK
    <2> QED
      BY <2>1, <2>2, <2>3 DEF Tick, TickSkip, TickAdvance, TickDone
  <1>3. NoNewRun
    <2>1. \A s \in TickHeads : s.run \in RunIds
      BY DEF TickHeads, SInv, Inv, TypeOK, Snapshot
    <2>2. CASE UNCHANGED run
      BY <2>2, SameRunsIsNoNewRun
    <2>3. ASSUME NEW s \in TickHeads, StopRun(s.run) PROVE NoNewRun
      BY <2>1, <2>3, StopIsNoNewRun DEF SInv
    <2>4. ASSUME NEW s \in TickHeads, AdvanceRunSegment(s.run, s.seg + 1) PROVE NoNewRun
      BY <2>1, <2>4, AdvanceIsNoNewRun DEF SInv
    <2> QED
      BY <2>2, <2>3, <2>4 DEF Tick, TickSnapshot, TickSkip, TickAdvance, TickDone, TickEnd, db
  <1>4. ASSUME NEW t \in Threads, NEW k, k = task[t], Busy(t) PROVE Ready(k)'
    BY <1>2, <1>3, <1>4, ReadyStands DEF SInv, HandlersReady
  <1>5. HandlersReady'
    BY <1>2, <1>4 DEF HandlersReady, Busy
  <1>6. OneAtATime' /\ MovesNothingRunning'
    BY <1>2 DEF SInv, OneAtATime, MovesNothingRunning, Busy
  <1> QED
    BY <1>1, <1>2, <1>3, <1>5, <1>6, RunsStand DEF SInv

LEMMA RestStep ==
  ASSUME SInv, LogAndUnlock \/ Restart \/ UNCHANGED vars PROVE SInv'
  <1>1. Inv'
    BY InvStep DEF SInv, Next
  <1>2. SamePlaces /\ NoNewRun
    BY SameRunsIsNoNewRun DEF LogAndUnlock, Restart, vars, db, SamePlaces
  <1>3. OneRunningRun' /\ RunsMeasureWhereTheyAre' /\ Running' \subseteq Running
    BY <1>2, RunsStand DEF SInv
  <1>4. CASE Restart
    <2>1. (\A t \in Threads : ~Busy(t)') /\ loop'.at = "idle"
      BY <1>4 DEF Restart, Busy, LoopTo
    <2> QED
      BY <1>1, <1>3, <2>1 DEF SInv, OneAtATime, HandlersReady, MovesNothingRunning
  <1>5. CASE UNCHANGED <<task, loop>>
    <2>1. ASSUME NEW t \in Threads, NEW k, k = task[t], Busy(t) PROVE Ready(k)'
      BY <1>2, <2>1, ReadyStands DEF SInv, HandlersReady
    <2>2. HandlersReady'
      BY <1>5, <2>1 DEF HandlersReady, Busy
    <2>3. OneAtATime' /\ MovesNothingRunning'
      BY <1>3, <1>5 DEF SInv, OneAtATime, MovesNothingRunning, Busy
    <2> QED
      BY <1>1, <1>3, <2>2, <2>3 DEF SInv
  <1> QED
    BY <1>4, <1>5 DEF LogAndUnlock, vars

LEMMA SInvInit == Init => SInv
  <1> SUFFICES ASSUME Init PROVE SInv
    OBVIOUS
  <1>1. Running = {} /\ \A t \in Threads : ~Busy(t)
    BY DEF Init, Running, NoRow, Busy
  <1> QED
    BY <1>1, InitInv DEF SInv, OneAtATime, HandlersReady, MovesNothingRunning, OneRunningRun,
       RunsMeasureWhereTheyAre

LEMMA SInvStep == ASSUME SingleOperator PROVE SInv /\ [Next]_vars => SInv'
  BY StartStep, RelocateStep, LoopStep, TickStep, RestStep DEF Next

(***************************************************************************)
(* One operator at a time: a device never has two running runs, although   *)
(* start_run checks and inserts under separate acquisitions of the lock.   *)
(***************************************************************************)
THEOREM OneRunPerDevice == ASSUME SingleOperator PROVE Spec => []OneRunningRun
  BY SInvInit, SInvStep, PTL DEF Spec, SInv

(***************************************************************************)
(* One operator at a time: a running run's row names the current placement *)
(* of its device and of the gateway, for as long as it runs, so that its   *)
(* packets are accounted to the places where they were measured.           *)
(***************************************************************************)
THEOREM RunsStayOnTheirPlacements ==
  ASSUME SingleOperator PROVE Spec => []RunsMeasureWhereTheyAre
  BY SInvInit, SInvStep, PTL DEF Spec, SInv

-----------------------------------------------------------------------------
(***************************************************************************)
(* Every step of the workflow is a step of FieldLog.tla or leaves it       *)
(* unchanged, for every instance: the tables are read through              *)
(*   status[r] = the status column of run r,                               *)
(*   here[n]   = the id of n's open placement, 0 if there is none.         *)
(***************************************************************************)

Status == [r \in RunIds |-> run[r].status]

LEMMA InitRefines == Init => Field!FieldInit
  <1> SUFFICES ASSUME Init PROVE Field!FieldInit
    OBVIOUS
  <1>1. \A n \in Nodes : OpenPlacements(n) = {}
    BY DEF Init, OpenPlacements
  <1>2. Here = [n \in Nodes |-> 0]
    BY <1>1 DEF Here, None
  <1>3. Status = [r \in RunIds |-> "absent"]
    BY DEF Init, NoRow, Status
  <1> QED
    BY <1>2, <1>3 DEF Field!FieldInit, Status

LEMMA SameHere == UNCHANGED placement => Here' = Here
  BY DEF Here, OpenPlacements

(* create_placement is Put: the new id is above every id in use. *)
LEMMA PlacementRefines ==
  ASSUME Inv, NEW n \in Nodes, CreatePlacement(n), UNCHANGED run
  PROVE  Field!Put(n, nextPlacement) /\ nextPlacement \in PlacementIds
  <1>1. /\ OpenPlacements(n)' = {nextPlacement}
        /\ \A m \in Nodes : m # n => OpenPlacements(m)' = OpenPlacements(m)
    BY PlacementsAfter
  <1>2. nextPlacement \in PlacementIds /\ PlacementIds \subseteq Nat
    BY WorkflowAssumption DEF CreatePlacement, Inv, TypeOK, PlacementIds
  <1>3. Here' = [Here EXCEPT ![n] = nextPlacement]
    <2>1. IdIn({nextPlacement}) = nextPlacement
      BY DEF IdIn
    <2>2. \A m \in Nodes : Here'[m] = IF m = n THEN nextPlacement ELSE Here[m]
      BY <1>1, <2>1 DEF Here
    <2> QED
      BY <2>2 DEF Here
  <1>4. ASSUME NEW m \in Nodes PROVE Here[m] < nextPlacement
    <2>1. Here[m] = 0 \/ Here[m] \in OpenPlacements(m)
      BY DEF Here, None, IdIn
    <2>2. \A p \in OpenPlacements(m) : p < nextPlacement
      BY <1>2 DEF OpenPlacements, Inv, FreshPlacements
    <2> QED
      BY <1>2, <2>1, <2>2 DEF PlacementIds
  <1> QED
    BY <1>2, <1>3, <1>4 DEF Field!Put

(* A write of the run table opens the next run, finishes one, aborts them  *)
(* all, or does not touch a status.                                        *)
LEMMA RunRefines ==
  ASSUME Inv, [Next]_vars, UNCHANGED placement
  PROVE  [Field!FieldNext]_(Field!fieldVars)
  <1>1. Here' = Here
    BY SameHere
  <1>2. run \in [RunIds -> RunRow]
    BY DEF Inv, TypeOK
  <1>3. ASSUME NEW r \in RunIds, StopRun(r), run[r].status \in {"running", "done"}
        PROVE  [Field!FieldNext]_(Field!fieldVars)
    <2>1. Status' = [Status EXCEPT ![r] = "done"]
      BY <1>2, <1>3 DEF StopRun, Stopped, Status, RunRow
    <2>2. CASE run[r].status = "running"
      BY <1>1, <2>1, <2>2 DEF Field!FieldNext, Field!Finish, Status
    <2>3. CASE run[r].status = "done"
      <3>1. Status' = Status
        BY <2>1, <2>3 DEF Status
      <3> QED
        BY <1>1, <3>1 DEF Field!fieldVars, Status
    <2> QED
      BY <1>3, <2>2, <2>3
  <1>4. CASE UNCHANGED <<run, nextRun>>
    BY <1>1, <1>4 DEF Field!fieldVars
  <1>5. CASE TickWrites
    <2>1. PICK s \in loop.todo : StopRun(s.run) \/ AdvanceRunSegment(s.run, s.seg + 1)
      BY <1>5 DEF TickWrites
    <2>2. s.run \in RunIds /\ run[s.run].status \in {"running", "done"}
      BY DEF Inv, TypeOK, TicksOwnRuns, Snapshot
    <2>3. CASE AdvanceRunSegment(s.run, s.seg + 1)
      <3>1. Status' = Status
        BY <1>2, <2>2, <2>3 DEF AdvanceRunSegment, Status, RunRow
      <3> QED
        BY <1>1, <3>1 DEF Field!fieldVars, Status
    <2> QED
      BY <1>3, <2>1, <2>2, <2>3
  <1>6. CASE StopsRunning
    BY <1>3, <1>6 DEF StopsRunning, Running
  <1>7. CASE AbortsRunning
    <2>1. Status' = [r \in RunIds |-> IF Status[r] = "running" THEN "aborted" ELSE Status[r]]
      BY <1>2, <1>7 DEF AbortsRunning, AbortRunningRuns, Stopped, Running, Status, RunRow
    <2> QED
      BY <1>1, <2>1 DEF Field!FieldNext, Field!AbortAll, Status
  <1>8. CASE Inserts
    <2>1. nextRun \in RunIds /\ RunIds \subseteq Nat
      BY <1>8, WorkflowAssumption DEF Inserts, InsertRun, Inv, TypeOK, RunIds
    <2>2. PICK new \in RunIds : new = nextRun
      BY <2>1
    <2>3. Status' = [Status EXCEPT ![new] = "running"]
      <3>1. \A r \in RunIds : run'[r].status = IF r = new THEN "running" ELSE run[r].status
        BY <1>2, <1>8, <2>2 DEF Inserts, InsertRun
      <3> QED
        BY <3>1 DEF Status
    <2>4. Status[new] = "absent" /\ \A q \in RunIds : q < new => Status[q] # "absent"
      BY <2>1, <2>2 DEF Inv, FreshRuns, Status
    <2>5. Field!Open(new)
      BY <1>1, <2>1, <2>3, <2>4 DEF Field!Open, Status
    <2> QED
      BY <2>5 DEF Field!FieldNext
  <1> QED
    BY <1>4, <1>5, <1>6, <1>7, <1>8, RunWriters

LEMMA StepRefines == Inv /\ [Next]_vars => [Field!FieldNext]_(Field!fieldVars)
  <1> SUFFICES ASSUME Inv, [Next]_vars PROVE [Field!FieldNext]_(Field!fieldVars)
    OBVIOUS
  <1>1. CASE UNCHANGED <<placement, nextPlacement>>
    BY <1>1, RunRefines
  <1>2. CASE UNCHANGED <<run, nextRun>> /\ \E n \in Nodes : CreatePlacement(n)
    BY <1>2, PlacementRefines DEF Field!FieldNext
  <1> QED
    BY <1>1, <1>2, PlacementWriters DEF Inv

(***************************************************************************)
(* The workflow implements the field log: whatever handlers, ticks and     *)
(* restarts interleave, its readers see runs opened once in order and      *)
(* closed once, all-or-nothing aborts, and one place per node.             *)
(***************************************************************************)
THEOREM Refinement == Spec => ImplementsFieldLog
  BY InitRefines, StepRefines, Invariance, PTL DEF Spec, ImplementsFieldLog, Field!FieldSpec
=============================================================================
