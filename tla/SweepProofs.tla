------------------------------ MODULE SweepProofs ------------------------------
(***************************************************************************)
(* The timing of a sweep, for every schedule, plan and poll interval: no   *)
(* segment begins early, no sweep ends early, and while the process lives  *)
(* no segment and no sweep is late by more than its share of gaps between  *)
(* two decisions of the tick.                                              *)
(***************************************************************************)
EXTENDS Sweep, TLAPS

Due(row)  == row.segStarted + Seconds(row.seg)
PlannedEnd(row) == row.started + row.planned

(* The tick, while it switches and writes, has decided on a segment that   *)
(* was over at its reading of the clock; nobody else writes that row.      *)
DecisionStands ==
  loop.at # "asleep" =>
    /\ run[loop.run].status # "absent"
    /\ run[loop.run].seg < N
    /\ Due(run[loop.run]) <= loop.now
    /\ loop.now <= now

Inv == /\ TypeOK /\ DecisionStands /\ NeverAheadOfPlan /\ NeverDoneEarly
       /\ loop.at # "asleep" => up

(* The schedules, as the provers need them. *)
LEMMA NType == N \in Nat \ {0} /\ \A sfs \in Schedules : sfs \in [1..N -> Nat]
  BY SweepAssumption

(* The length of a segment is a natural number, and segments are back to   *)
(* back.                                                                   *)
LEMMA SecondsType ==
  ASSUME NEW i \in 1..N
  PROVE  Seconds(i) \in Nat /\ Bounds[i] \in Nat /\ Bounds[i + 1] \in Nat
         /\ Bounds[i] + Seconds(i) = Bounds[i + 1]
  BY SweepAssumption, NType DEF Seconds

LEMMA InitInv == Init => Inv
<1> SUFFICES ASSUME Init PROVE Inv  OBVIOUS
<1>1. NoRow \in RunRow
  BY NType DEF NoRow, RunRow, None
<1>2. TypeOK
  BY <1>1, SweepAssumption DEF Init, TypeOK, Asleep, RunIds, None
<1>3. NeverAheadOfPlan /\ NeverDoneEarly
  BY DEF Init, NeverAheadOfPlan, NeverDoneEarly, NoRow
<1> QED  BY <1>2, <1>3 DEF Inv, Init, DecisionStands, Asleep

(* A row that changes its status, its reason and its end only.             *)
LEMMA EndedType ==
  ASSUME NEW row \in RunRow, NEW reason \in {"operator", "schedule"}, now \in Nat
  PROVE  /\ Ended(row, reason) \in RunRow
         /\ Ended(row, reason).status = "done" /\ Ended(row, reason).reason = reason
         /\ Ended(row, reason).ended = now
         /\ Ended(row, reason).seg = row.seg /\ Ended(row, reason).segStarted = row.segStarted
         /\ Ended(row, reason).started = row.started /\ Ended(row, reason).planned = row.planned
         /\ Ended(row, reason).sfs = row.sfs
  BY DEF Ended, RunRow

(* What Inv says of a row, and that it stands while the row does not       *)
(* change: time only goes on.                                              *)
RowInv(row, t) ==
  /\ row.status # "absent" =>
       row.started + Bounds[row.seg] <= row.segStarted /\ row.segStarted <= t
  /\ row.reason = "schedule" =>
       \/ row.ended - row.started >= row.planned
       \/ row.ended - row.started >= Bounds[N + 1]

LEMMA RowInvs ==
  /\ (NeverAheadOfPlan /\ NeverDoneEarly) <=> \A r \in RunIds : RowInv(run[r], now)
  /\ (NeverAheadOfPlan /\ NeverDoneEarly)' <=> \A r \in RunIds : RowInv(run'[r], now')
  BY DEF NeverAheadOfPlan, NeverDoneEarly, RowInv

LEMMA RowInvLater ==
  ASSUME NEW row \in RunRow, NEW t \in Nat, NEW u \in Nat, t <= u, RowInv(row, t)
  PROVE  RowInv(row, u)
  BY NType, SecondsType DEF RowInv, RunRow

(* A run that the operator ends keeps its row's times. *)
LEMMA RowInvOperator ==
  ASSUME NEW row \in RunRow, now \in Nat, RowInv(row, now), row.status = "running"
  PROVE  RowInv(Ended(row, "operator"), now)
  BY EndedType DEF RowInv

(* A run that its schedule ends: the plan or the last segment is over. *)
LEMMA RowInvSchedule ==
  ASSUME NEW row \in RunRow, now \in Nat, RowInv(row, now), row.status = "running",
         Finished(now, row)
  PROVE  RowInv(Ended(row, "schedule"), now)
<1> DEFINE new == Ended(row, "schedule")
<1>1. /\ new.reason = "schedule" /\ new.ended = now /\ new.seg = row.seg
      /\ new.segStarted = row.segStarted /\ new.started = row.started
      /\ new.planned = row.planned
  BY EndedType
<1>2. row.started \in Nat /\ row.planned \in Nat /\ row.segStarted \in Nat /\ row.seg \in 1..N
  BY DEF RunRow
<1>3. row.started + Bounds[row.seg] <= row.segStarted /\ row.segStarted <= now
  BY DEF RowInv
<1>4. \/ now - row.started >= row.planned
      \/ now - row.started >= Bounds[N + 1]
  <2>1. CASE PlanElapsed(now, row)
    BY <2>1, <1>2 DEF PlanElapsed
  <2>2. CASE SegmentElapsed(now, row) /\ row.seg = N
    <3>1. Bounds[N] + Seconds(N) = Bounds[N + 1] /\ Bounds[N] \in Nat /\ Seconds(N) \in Nat
      BY SecondsType, NType
    <3>2. now - row.segStarted >= Seconds(N)
      BY <2>2 DEF SegmentElapsed
    <3> QED  BY <3>1, <3>2, <1>2, <1>3, <2>2
  <2> QED  BY <2>1, <2>2 DEF Finished
<1> QED  BY <1>1, <1>3, <1>4 DEF RowInv

(* The tick's write: the next segment begins at the tick's reading. *)
Advanced(row, t) == [row EXCEPT !.seg = @ + 1, !.segStarted = t]

LEMMA AdvancedRow ==
  ASSUME NEW row \in RunRow, NEW t \in Nat, now \in Nat, RowInv(row, now),
         row.status # "absent", row.seg < N, Due(row) <= t, t <= now
  PROVE  Advanced(row, t) \in RunRow /\ RowInv(Advanced(row, t), now)
<1> DEFINE new == Advanced(row, t)
<1>1. row.seg \in 1..N /\ row.seg + 1 \in 1..N
  BY NType DEF RunRow
<1>2. /\ new \in RunRow /\ new.seg = row.seg + 1 /\ new.segStarted = t
      /\ new.status = row.status /\ new.reason = row.reason /\ new.started = row.started
      /\ new.planned = row.planned /\ new.ended = row.ended
  BY <1>1 DEF RunRow, Advanced
<1>3. new.started + Bounds[new.seg] <= new.segStarted
  <2>1. Bounds[row.seg] + Seconds(row.seg) = Bounds[row.seg + 1]
        /\ Bounds[row.seg] \in Nat /\ Seconds(row.seg) \in Nat
    BY <1>1, SecondsType
  <2>2. row.started + Bounds[row.seg] <= row.segStarted
        /\ row.segStarted + Seconds(row.seg) <= t
    BY DEF RowInv, Due
  <2>3. row.started \in Nat /\ row.segStarted \in Nat
    BY DEF RunRow
  <2> QED  BY <2>1, <2>2, <2>3, <1>2
<1> QED  BY <1>2, <1>3 DEF RowInv

-----------------------------------------------------------------------------
(* The rows, the clock or the decision stay as they are in most steps. *)
LEMMA SameRows ==
  ASSUME Inv, UNCHANGED <<now, run>>
  PROVE  NeverAheadOfPlan' /\ NeverDoneEarly'
  BY RowInvs DEF Inv

LEMMA SwitchType ==
  ASSUME TypeOK, NEW r \in RunIds, NEW i \in 1..N, SwitchTo(run[r].sfs[i])
  PROVE  profile' \in Nat
<1>1. run[r] \in RunRow /\ profile \in Nat
  BY DEF TypeOK
<1>2. run[r].sfs \in [1..N -> Nat]
  BY <1>1 DEF RunRow
<1>3. run[r].sfs[i] \in Nat
  BY <1>2
<1> QED BY <1>1, <1>3 DEF SwitchTo

LEMMA ProfilesType == Profiles \subseteq Nat
<1> SUFFICES ASSUME NEW p \in Profiles PROVE p \in Nat
  OBVIOUS
<1>1. CASE p = None
  BY <1>1 DEF None
<1>2. ASSUME NEW sfs \in Schedules, NEW i \in 1..N, p = sfs[i]  PROVE p \in Nat
  <2>1. sfs \in [1..N -> Nat]
    BY NType
  <2> QED BY <1>2, <2>1
<1> QED BY <1>1, <1>2 DEF Profiles

LEMMA TickInv ==
  ASSUME Inv, Tick
  PROVE  Inv'
<1> USE DEF Inv
<1>0. /\ now \in Nat /\ run \in [RunIds -> RunRow] /\ Poll \in Nat
      /\ \A r \in RunIds : RowInv(run[r], now)
  BY RowInvs, SweepAssumption DEF TypeOK
<1>1. CASE TickNothing
  BY <1>1, <1>0, SameRows DEF TickNothing, Awake, Sleep, Asleep, TypeOK, DecisionStands, None
<1>2. ASSUME NEW r \in RunIds, TickDone(r) PROVE Inv'
  <2>0. run[r] \in RunRow /\ run[r].status = "running" /\ Finished(now, run[r])
        /\ run' = [run EXCEPT ![r] = Ended(@, "schedule")] /\ now' = now
    BY <1>2, <1>0 DEF TickDone, Running
  <2>1. \A q \in RunIds : run'[q] \in RunRow /\ RowInv(run'[q], now')
    <3>1. ASSUME NEW q \in RunIds PROVE run'[q] \in RunRow /\ RowInv(run'[q], now')
      <4>1. CASE q = r
        BY <4>1, <2>0, <1>0, EndedType, RowInvSchedule
      <4>2. CASE q # r
        BY <4>2, <2>0, <1>0
      <4> QED  BY <4>1, <4>2
    <3> QED  BY <3>1
  <2>2. run' \in [RunIds -> RunRow]
    BY <1>0, <2>0, <2>1
  <2>3. TypeOK' /\ DecisionStands' /\ (loop'.at # "asleep" => up')
    BY <1>2, <1>0, <2>2 DEF TickDone, Sleep, Asleep, TypeOK, DecisionStands, None
  <2> QED  BY <2>1, <2>3, RowInvs
<1>3. ASSUME NEW r \in RunIds, TickDecide(r) PROVE Inv'
  <2>1. run[r] \in RunRow /\ run[r].status = "running" /\ AdvanceDue(now, run[r])
    BY <1>3, <1>0 DEF TickDecide, Running
  <2>2. Due(run[r]) <= now /\ run[r].seg < N
    <3>1. Seconds(run[r].seg) \in Nat /\ run[r].segStarted \in Nat
      BY <2>1, SecondsType DEF RunRow
    <3> QED  BY <2>1, <3>1, <1>0 DEF AdvanceDue, SegmentElapsed, Due
  <2>3. loop' = [loop EXCEPT !.at = "switch", !.run = r, !.now = now]
    BY <1>3 DEF TickDecide
  <2>4. loop'.at = "switch" /\ loop'.run = r /\ loop'.now = now
    BY <2>3 DEF TypeOK
  <2>5. DecisionStands' /\ up'
    BY <1>3, <2>1, <2>2, <2>4, <1>0 DEF TickDecide, Awake, DecisionStands, Due, Seconds
  <2>6. TypeOK'
    BY <1>3, <2>3, <1>0 DEF TickDecide, TypeOK, None
  <2> QED  BY <1>3, <2>5, <2>6, SameRows DEF TickDecide
<1>4. CASE TickSwitch
  <2>1. loop.run \in RunIds /\ run[loop.run] \in RunRow /\ run[loop.run].seg < N
    BY <1>4, <1>0 DEF TickSwitch, TypeOK, DecisionStands
  <2>2. run[loop.run].seg + 1 \in 1..N
    BY <2>1, NType DEF RunRow
  <2>3. profile' \in Nat
    BY <1>4, <2>1, <2>2, SwitchType DEF TickSwitch
  <2>4. loop' = [loop EXCEPT !.at = "write"] /\ UNCHANGED <<now, run, up>>
    BY <1>4 DEF TickSwitch
  <2>5. TypeOK'
    BY <1>4, <2>3, <2>1 DEF TickSwitch, TypeOK
  <2>6. DecisionStands' /\ up'
    BY <1>4, <2>4 DEF TickSwitch, TypeOK, DecisionStands, Due, Seconds
  <2> QED  BY <2>4, <2>5, <2>6, SameRows
<1>5. CASE TickAdvance
  <2>1. /\ loop.run \in RunIds /\ run[loop.run] \in RunRow /\ run[loop.run].seg < N
        /\ run[loop.run].status # "absent" /\ loop.now \in Nat
        /\ Due(run[loop.run]) <= loop.now /\ loop.now <= now
    BY <1>5, <1>0 DEF TickAdvance, TypeOK, DecisionStands
  <2>2. run' = [run EXCEPT ![loop.run] = Advanced(@, loop.now)] /\ now' = now
    BY <1>5, <1>0, <2>1 DEF TickAdvance, Advanced
  <2>3. \A q \in RunIds : run'[q] \in RunRow /\ RowInv(run'[q], now')
    <3>1. ASSUME NEW q \in RunIds PROVE run'[q] \in RunRow /\ RowInv(run'[q], now')
      <4>1. CASE q = loop.run
        BY <4>1, <2>1, <2>2, <1>0, AdvancedRow
      <4>2. CASE q # loop.run
        BY <4>2, <2>2, <1>0
      <4> QED  BY <4>1, <4>2
    <3> QED  BY <3>1
  <2>4. run' \in [RunIds -> RunRow]
    BY <1>0, <2>2, <2>3
  <2>5. TypeOK' /\ DecisionStands' /\ (loop'.at # "asleep" => up')
    BY <1>5, <1>0, <2>4 DEF TickAdvance, Sleep, Asleep, TypeOK, DecisionStands, None
  <2> QED  BY <2>3, <2>5, RowInvs
<1> QED  BY <1>1, <1>2, <1>3, <1>4, <1>5 DEF Tick

(* Stop and Relocate end every running run. *)
LEMMA EndRunning ==
  ASSUME Inv, now' = now,
         run' = [r \in RunIds |-> IF r \in Running THEN Ended(run[r], "operator") ELSE run[r]]
  PROVE  /\ run' \in [RunIds -> RunRow]
         /\ NeverAheadOfPlan' /\ NeverDoneEarly'
         /\ \A r \in RunIds : /\ run'[r].seg = run[r].seg /\ run'[r].segStarted = run[r].segStarted
                              /\ run[r].status # "absent" => run'[r].status # "absent"
<1>0. /\ now \in Nat /\ run \in [RunIds -> RunRow]
      /\ \A r \in RunIds : RowInv(run[r], now)
  BY RowInvs DEF Inv, TypeOK
<1>1. ASSUME NEW r \in RunIds
      PROVE  /\ run'[r] \in RunRow /\ RowInv(run'[r], now')
             /\ run'[r].seg = run[r].seg /\ run'[r].segStarted = run[r].segStarted
             /\ run[r].status # "absent" => run'[r].status # "absent"
  <2>1. CASE r \in Running
    <3>1. run'[r] = Ended(run[r], "operator") /\ run[r].status = "running"
      BY <2>1 DEF Running
    <3>2. run[r] \in RunRow /\ RowInv(run[r], now)
      BY <1>0
    <3> QED  BY <3>1, <3>2, <1>0, EndedType, RowInvOperator
  <2>2. CASE r \notin Running
    BY <2>2, <1>0
  <2> QED  BY <2>1, <2>2
<1> QED  BY <1>1, RowInvs

LEMMA StartSweepInv ==
  ASSUME Inv, NEW r \in RunIds, NEW sfs \in Schedules, NEW planned \in Plans,
         StartSweep(r, sfs, planned)
  PROVE  Inv'
<1> USE DEF Inv
<1>0. /\ now \in Nat /\ run \in [RunIds -> RunRow]
      /\ \A q \in RunIds : RowInv(run[q], now)
  BY RowInvs DEF TypeOK
<1> DEFINE new == [status |-> "running", reason |-> "none", sfs |-> sfs, planned |-> planned,
                  started |-> now, seg |-> 1, segStarted |-> now, ended |-> 0]
<1>1. /\ new \in RunRow /\ new.started = now /\ new.segStarted = now /\ new.seg = 1
      /\ new.reason = "none"
  BY <1>0, NType, SweepAssumption DEF RunRow
<1>2. RowInv(new, now)
  BY <1>0, <1>1, SweepAssumption DEF RowInv
<1>3. run' = [run EXCEPT ![r] = new] /\ now' = now /\ run[r].status = "absent"
  BY DEF StartSweep
<1> HIDE DEF new
<1>4. \A q \in RunIds : run'[q] \in RunRow /\ RowInv(run'[q], now')
  BY <1>0, <1>1, <1>2, <1>3
<1>5. run' \in [RunIds -> RunRow]
  BY <1>0, <1>3, <1>4
<1>6. TypeOK'
  BY <1>5 DEF StartSweep, TypeOK
<1>7. DecisionStands' /\ (loop'.at # "asleep" => up')
  <2>1. loop' = loop /\ up'
    BY DEF StartSweep
  <2>2. loop.at # "asleep" => loop.run \in RunIds /\ loop.run # r
    BY <1>3 DEF DecisionStands, TypeOK
  <2> QED  BY <2>1, <2>2, <1>0, <1>3 DEF DecisionStands, Due, Seconds
<1> QED  BY <1>4, <1>6, <1>7, RowInvs

LEMMA RequestInv ==
  ASSUME Inv, Request
  PROVE  Inv'
<1> USE DEF Inv
<1>1. ASSUME NEW r \in RunIds, StartSwitch(r) PROVE Inv'
  <2>1. profile' \in Nat
    BY <1>1, NType, SwitchType DEF StartSwitch
  <2> QED  BY <1>1, <2>1, SameRows DEF StartSwitch, TypeOK, DecisionStands, Due, Seconds
<1>2. CASE Stop \/ Relocate
  <2>1. /\ run' = [r \in RunIds |-> IF r \in Running THEN Ended(run[r], "operator") ELSE run[r]]
        /\ UNCHANGED <<now, profile, starting, loop, up, crashed>> /\ fixed' \in BOOLEAN
    BY <1>2 DEF Stop, Relocate
  <2>2. TypeOK'
    BY <2>1, EndRunning DEF TypeOK
  <2>3. DecisionStands'
    BY <2>1, EndRunning DEF DecisionStands, TypeOK, Due, Seconds
  <2> QED  BY <2>1, <2>2, <2>3, EndRunning
<1>3. CASE SetPhase
  BY <1>3, SameRows, ProfilesType DEF SetPhase, TypeOK, DecisionStands, Due, Seconds
<1> QED  BY <1>1, <1>2, <1>3, StartSweepInv DEF Request

LEMMA StepInv == Inv /\ [Next]_vars => Inv'
<1> SUFFICES ASSUME Inv, [Next]_vars PROVE Inv'  OBVIOUS
<1> USE DEF Inv
<1>1. CASE Tick  BY <1>1, TickInv
<1>2. CASE Request  BY <1>2, RequestInv
<1>3. CASE Crash
  BY <1>3, SameRows DEF Crash, Asleep, TypeOK, DecisionStands, None
<1>4. CASE Restart
  BY <1>4, SameRows, SweepAssumption DEF Restart, Asleep, TypeOK, DecisionStands, None
<1>5. CASE Pass
  <2>1. now \in Nat /\ now' = now + 1 /\ run' = run /\ run \in [RunIds -> RunRow]
    BY <1>5 DEF Pass, TypeOK
  <2>2. \A r \in RunIds : RowInv(run'[r], now')
    BY <2>1, RowInvs, RowInvLater
  <2>3. TypeOK'
    BY <1>5, <2>1 DEF Pass, TypeOK
  <2>4. DecisionStands' /\ (loop'.at # "asleep" => up')
    BY <1>5, <2>1 DEF Pass, TypeOK, DecisionStands, Due, Seconds
  <2> QED  BY <2>2, <2>3, <2>4, RowInvs
<1>6. CASE UNCHANGED vars
  BY <1>6, SameRows DEF vars, TypeOK, DecisionStands, Due, Seconds, Running
<1> QED  BY <1>1, <1>2, <1>3, <1>4, <1>5, <1>6 DEF Next

THEOREM Invariance == Spec => []Inv
  BY InitInv, StepInv, PTL DEF Spec

(* Rows keep their types, and the tick never counts past the last segment, *)
(* although it writes by an index it read before the profile switch.       *)
THEOREM TypeCorrect == Spec => []TypeOK
  BY Invariance, PTL DEF Inv

(* A segment never begins before its nominal time: the packets of a        *)
(* segment are never filed under one that the device has left.             *)
THEOREM SegmentsNeverEarly == Spec => []NeverAheadOfPlan
  BY Invariance, PTL DEF Inv

(* No sweep that ended by its schedule was shorter than its plan, or than  *)
(* its segments together, whatever crashed, failed or came late.           *)
THEOREM SweepsNeverEarly == Spec => []NeverDoneEarly
  BY Invariance, PTL DEF Inv

-----------------------------------------------------------------------------
(***************************************************************************)
(* Punctuality, as long as the process lives.                              *)
(***************************************************************************)
(* The tick is neither late for its wake-up nor busy for longer than a     *)
(* switch, and only one run is there for it.                               *)
TickOnTime ==
  /\ up
  /\ \A q, r \in Running : q = r
  /\ loop.at = "asleep" => loop.wake <= now + Poll /\ now <= loop.wake + Late
  /\ loop.at # "asleep" => now <= loop.now + Grpc

(* The next decision on a running run comes in time: the wake-up is near   *)
(* the end of its segment and the end of its plan, and a decision that has *)
(* been made was made before both, unless it is the one to leave the       *)
(* segment.                                                                *)
RunOnTime(r) ==
  /\ run[r].segStarted - run[r].started <= Bounds[run[r].seg] + (run[r].seg - 1) * MaxGap
  /\ loop.at = "asleep" => /\ loop.wake <= PlannedEnd(run[r]) + Grpc + Poll
                           /\ loop.wake <= Due(run[r]) + Grpc + Poll
  /\ loop.at # "asleep" => /\ loop.now <= PlannedEnd(run[r])
                           /\ loop.now <= Due(run[r]) + (IF loop.run = r THEN MaxGap ELSE 0)

Punctual == ~crashed => TickOnTime /\ \A r \in Running : RunOnTime(r)

LEMMA InitPunctual == Init => Punctual
  BY SweepAssumption DEF Init, Punctual, TickOnTime, Running, NoRow, Asleep

(* What a running run's row holds, in numbers. *)
LEMMA Numbers ==
  ASSUME Inv, NEW r \in Running
  PROVE  /\ r \in RunIds /\ run[r] \in RunRow /\ run[r].status = "running"
         /\ run[r].started \in Nat /\ run[r].segStarted \in Nat /\ run[r].planned \in Nat
         /\ run[r].seg \in 1..N /\ Seconds(run[r].seg) \in Nat /\ Bounds[run[r].seg] \in Nat
         /\ Due(run[r]) \in Nat /\ PlannedEnd(run[r]) \in Nat
         /\ run[r].segStarted <= Due(run[r]) /\ run[r].started <= PlannedEnd(run[r])
<1>1. r \in RunIds /\ run[r] \in RunRow /\ run[r].status = "running"
  BY DEF Inv, TypeOK, Running
<1>2. /\ run[r].started \in Nat /\ run[r].segStarted \in Nat /\ run[r].planned \in Nat
      /\ run[r].seg \in 1..N
  BY <1>1 DEF RunRow
<1>3. Seconds(run[r].seg) \in Nat /\ Bounds[run[r].seg] \in Nat
  BY <1>2, SecondsType
<1> QED  BY <1>1, <1>2, <1>3 DEF Due, PlannedEnd

LEMMA TickPunctual ==
  ASSUME Inv, Punctual, ~crashed, Tick
  PROVE  TickOnTime' /\ \A r \in Running' : RunOnTime(r)'
<1>0. /\ TickOnTime /\ \A r \in Running : RunOnTime(r)
      /\ now \in Nat /\ loop.wake \in Nat /\ loop.now \in Nat
      /\ Poll \in Nat /\ Grpc \in Nat /\ Late \in Nat /\ MaxGap \in Nat /\ up
      /\ MaxGap = Poll + Late + Grpc
  BY SweepAssumption DEF Punctual, Inv, TypeOK, MaxGap, TickOnTime
<1>1. CASE TickNothing
  <2>1. /\ UNCHANGED <<now, run, up>> /\ loop'.at = "asleep" /\ loop'.wake = now + Poll
        /\ Running' = Running
    BY <1>1 DEF TickNothing, Sleep, Asleep, Running
  <2>2. TickOnTime'
    BY <2>1, <1>0 DEF TickOnTime
  <2>3. ASSUME NEW r \in Running PROVE RunOnTime(r)'
    <3>1. now < PlannedEnd(run[r]) /\ now < Due(run[r])
      <4>1. run[r].seg \in 1..N /\ N \in Nat
        BY Numbers, NType
      <4>2. ~PlanElapsed(now, run[r]) /\ ~SegmentElapsed(now, run[r])
        BY <1>1, <4>1 DEF TickNothing, Finished, AdvanceDue
      <4> QED  BY <4>2, <1>0, Numbers DEF PlanElapsed, SegmentElapsed, Due, PlannedEnd
    <3>2. Due(run[r])' = Due(run[r]) /\ PlannedEnd(run[r])' = PlannedEnd(run[r])
      BY <2>1 DEF Due, PlannedEnd, Seconds
    <3>3. run[r].segStarted - run[r].started <= Bounds[run[r].seg] + (run[r].seg - 1) * MaxGap
      BY <1>0 DEF RunOnTime
    <3> QED  BY <3>1, <3>2, <3>3, <2>1, <1>0, Numbers DEF RunOnTime, MaxGap
  <2> QED  BY <2>1, <2>2, <2>3
<1>2. ASSUME NEW r \in RunIds, TickDone(r) PROVE TickOnTime' /\ Running' = {}
  <2>1. Running = {r}
    BY <1>0, <1>2 DEF TickDone, TickOnTime
  <2>2. run' = [run EXCEPT ![r] = Ended(@, "schedule")] /\ run \in [RunIds -> RunRow]
    BY <1>2 DEF TickDone, Inv, TypeOK
  <2>3. run'[r].status = "done"
    BY <2>2, <1>0, EndedType
  <2>4. Running' = {}
    BY <2>1, <2>2, <2>3 DEF Running
  <2> QED  BY <2>4, <1>2, <1>0 DEF TickDone, Sleep, Asleep, TickOnTime
<1>3. ASSUME NEW r \in RunIds, TickDecide(r) PROVE TickOnTime' /\ \A q \in Running' : RunOnTime(q)'
  <2>1. /\ UNCHANGED <<now, run, up>> /\ Running' = Running
        /\ loop'.at = "switch" /\ loop'.run = r /\ loop'.now = now
    BY <1>3 DEF TickDecide, Running, Inv, TypeOK
  <2>2. TickOnTime'
    BY <2>1, <1>0 DEF TickOnTime
  <2>3. r \in Running /\ Running = {r}
    BY <1>3, <1>0 DEF TickDecide, TickOnTime
  <2>4. now <= PlannedEnd(run[r])
    BY <1>3, <2>3, <1>0, Numbers DEF TickDecide, AdvanceDue, PlanElapsed, PlannedEnd
  <2>5. now <= Due(run[r]) + MaxGap
    <3>1. loop.at = "asleep" /\ now <= loop.wake + Late /\ loop.wake <= Due(run[r]) + Grpc + Poll
      BY <1>3, <1>0, <2>3 DEF TickDecide, Awake, TickOnTime, RunOnTime
    <3> QED  BY <3>1, <2>3, <1>0, Numbers
  <2>6. Due(run[r])' = Due(run[r]) /\ PlannedEnd(run[r])' = PlannedEnd(run[r])
    BY <2>1 DEF Due, PlannedEnd, Seconds
  <2>7. run[r].segStarted - run[r].started <= Bounds[run[r].seg] + (run[r].seg - 1) * MaxGap
    BY <1>0, <2>3 DEF RunOnTime
  <2>8. RunOnTime(r)'
    BY <2>1, <2>4, <2>5, <2>6, <2>7 DEF RunOnTime, MaxGap
  <2> QED  BY <2>1, <2>2, <2>3, <2>8
<1>4. CASE TickSwitch
  <2>1. /\ UNCHANGED <<now, run, up>> /\ Running' = Running /\ loop.at = "switch"
        /\ loop'.at = "write" /\ loop'.run = loop.run /\ loop'.now = loop.now
    BY <1>4 DEF TickSwitch, Running, Inv, TypeOK
  <2>2. TickOnTime'
    BY <2>1, <1>0 DEF TickOnTime
  <2>3. ASSUME NEW r \in Running PROVE RunOnTime(r)'
    BY <2>1, <1>0 DEF RunOnTime, Due, PlannedEnd, Seconds, MaxGap
  <2> QED  BY <2>1, <2>2, <2>3
<1>5. CASE TickAdvance
  <2>0. /\ loop.at = "write" /\ loop.run \in RunIds /\ run[loop.run] \in RunRow
        /\ run[loop.run].seg < N /\ run \in [RunIds -> RunRow] /\ loop.now <= now
    BY <1>5 DEF TickAdvance, Inv, DecisionStands, TypeOK
  <2>1. /\ now' = now /\ up' = up /\ loop'.at = "asleep" /\ loop'.wake = now + Poll
        /\ run' = [run EXCEPT ![loop.run] = Advanced(@, loop.now)]
    BY <1>5, <2>0 DEF TickAdvance, Sleep, Asleep, Advanced
  <2>2. Running' = Running
    BY <2>0, <2>1 DEF Running, Advanced, RunRow
  <2>3. TickOnTime'
    BY <2>1, <2>2, <1>0 DEF TickOnTime
  <2>4. now <= loop.now + Grpc
    BY <1>0, <2>0 DEF TickOnTime
  <2>5. ASSUME NEW r \in Running, r # loop.run PROVE RunOnTime(r)'
    <3>1. run'[r] = run[r]
      BY <2>0, <2>1, <2>5
    <3>2. loop.now <= PlannedEnd(run[r]) /\ loop.now <= Due(run[r])
          /\ run[r].segStarted - run[r].started <= Bounds[run[r].seg] + (run[r].seg - 1) * MaxGap
      BY <1>0, <2>0, <2>5, Numbers DEF RunOnTime
    <3> QED  BY <3>1, <3>2, <2>1, <2>4, <1>0, Numbers DEF RunOnTime, Due, PlannedEnd, Seconds, MaxGap
  <2>6. ASSUME NEW r \in Running, r = loop.run PROVE RunOnTime(r)'
    <3> DEFINE old == run[r]
               new == Advanced(old, loop.now)
    <3>1. run'[r] = new /\ loop' \in [at: {"asleep"}, wake: Nat, run: {None}, now: {0}]
      BY <2>0, <2>1, <2>6, <1>5, <1>0 DEF TickAdvance, Sleep, Asleep
    <3>2. /\ new.started = old.started /\ new.planned = old.planned /\ new.seg = old.seg + 1
          /\ new.segStarted = loop.now
      BY <2>0, <2>6 DEF Advanced, RunRow
    <3>3. /\ old.started \in Nat /\ old.segStarted \in Nat /\ old.planned \in Nat /\ old.seg \in 1..N
          /\ old.seg + 1 \in 1..N
      <4>1. old.seg < N
        BY <2>0, <2>6
      <4>2. /\ old.started \in Nat /\ old.segStarted \in Nat /\ old.planned \in Nat
            /\ old.seg \in 1..N
        BY Numbers
      <4> HIDE DEF old
      <4> QED  BY <4>1, <4>2, NType
    <3>4. /\ loop.now <= old.started + old.planned
          /\ loop.now <= old.segStarted + Seconds(old.seg) + MaxGap
          /\ old.segStarted - old.started <= Bounds[old.seg] + (old.seg - 1) * MaxGap
      BY <1>0, <2>0, <2>6 DEF RunOnTime, Due, PlannedEnd
    <3>5. Bounds[old.seg] + Seconds(old.seg) = Bounds[old.seg + 1] /\ Seconds(old.seg + 1) \in Nat
          /\ Bounds[old.seg] \in Nat /\ Seconds(old.seg) \in Nat
      BY <3>3, SecondsType
    <3>6. (old.seg - 1) * MaxGap + MaxGap = (new.seg - 1) * MaxGap
      BY <3>2, <3>3, <1>0
    <3>7. (old.seg - 1) * MaxGap \in Int /\ (new.seg - 1) * MaxGap \in Int
      BY <3>2, <3>3, <1>0
    <3> HIDE DEF new, old
    <3>8. new.segStarted - new.started <= Bounds[new.seg] + (new.seg - 1) * MaxGap
      BY <3>2, <3>3, <3>4, <3>5, <3>6, <3>7, <1>0
    <3>9. loop'.wake <= new.started + new.planned + Grpc + Poll
          /\ loop'.wake <= new.segStarted + Seconds(new.seg) + Grpc + Poll
      BY <2>1, <2>4, <3>2, <3>3, <3>4, <3>5, <1>0
    <3> QED  BY <3>1, <3>8, <3>9, <2>1 DEF RunOnTime, Due, PlannedEnd, Seconds, MaxGap
  <2>7. \A r \in Running' : RunOnTime(r)'
    BY <2>2, <2>5, <2>6
  <2> QED  BY <2>3, <2>7
<1> QED  BY <1>1, <1>2, <1>3, <1>4, <1>5 DEF Tick

LEMMA RequestPunctual ==
  ASSUME Inv, Punctual, ~crashed, Request
  PROVE  TickOnTime' /\ \A r \in Running' : RunOnTime(r)'
<1>0. /\ TickOnTime /\ \A r \in Running : RunOnTime(r)
      /\ now \in Nat /\ loop.wake \in Nat /\ loop.now \in Nat
      /\ Poll \in Nat /\ Grpc \in Nat /\ Late \in Nat /\ MaxGap \in Nat /\ up
      /\ run \in [RunIds -> RunRow]
  BY SweepAssumption DEF Punctual, Inv, TypeOK, MaxGap, TickOnTime
<1>1. UNCHANGED <<now, loop, up>>
  BY DEF Request, StartSwitch, StartSweep, Stop, Relocate, SetPhase
<1>2. ASSUME UNCHANGED run PROVE TickOnTime' /\ \A r \in Running' : RunOnTime(r)'
  BY <1>0, <1>1, <1>2 DEF TickOnTime, RunOnTime, Running, Due, PlannedEnd, Seconds, MaxGap
<1>3. CASE Stop \/ Relocate
  <2>1. run' = [r \in RunIds |-> IF r \in Running THEN Ended(run[r], "operator") ELSE run[r]]
    BY <1>3 DEF Stop, Relocate
  <2>2. ASSUME NEW r \in RunIds PROVE run'[r].status # "running"
    <3>1. CASE r \in Running
      BY <3>1, <2>1, <1>0, EndedType
    <3>2. CASE r \notin Running
      BY <3>2, <2>1 DEF Running
    <3> QED  BY <3>1, <3>2
  <2>3. Running' = {}
    BY <2>2 DEF Running
  <2> QED  BY <2>3, <1>0, <1>1 DEF TickOnTime
<1>4. ASSUME NEW r \in RunIds, NEW sfs \in Schedules, NEW planned \in Plans,
             StartSweep(r, sfs, planned)
      PROVE  TickOnTime' /\ \A q \in Running' : RunOnTime(q)'
  <2> DEFINE new == run'[r]
  <2>1. /\ Running = {} /\ run[r].status = "absent"
        /\ new.status = "running" /\ new.started = now /\ new.segStarted = now
        /\ new.seg = 1 /\ new.planned = planned /\ planned \in Nat
        /\ \A q \in RunIds : q # r => run'[q] = run[q]
    BY <1>4, <1>0, SweepAssumption DEF StartSweep
  <2>2. Running' = {r}
    BY <2>1 DEF Running
  <2>3. TickOnTime'
    BY <2>2, <1>0, <1>1 DEF TickOnTime
  <2>4. Bounds[1] = 0 /\ Seconds(1) \in Nat /\ (1 - 1) * MaxGap = 0
    BY <1>0, SweepAssumption, SecondsType, NType
  <2>5. loop.at = "asleep" => loop.wake <= now + Poll
    BY <1>0 DEF TickOnTime
  <2>6. loop.at # "asleep" => loop.now <= now /\ loop.run # r
    BY <2>1 DEF Inv, DecisionStands
  <2>7. RunOnTime(r)'
    <3> HIDE DEF new
    <3>1. new.segStarted - new.started <= Bounds[new.seg] + (new.seg - 1) * MaxGap
      BY <2>1, <2>4, <1>0
    <3>2. Seconds(new.seg) \in Nat
      BY <2>1, <2>4
    <3> QED  BY <3>1, <3>2, <2>1, <2>5, <2>6, <1>0, <1>1
             DEF RunOnTime, Due, PlannedEnd, Seconds, MaxGap, new
  <2> QED  BY <2>2, <2>3, <2>7
<1>5. ASSUME NEW r \in RunIds, StartSwitch(r)
      PROVE  TickOnTime' /\ \A q \in Running' : RunOnTime(q)'
  BY <1>5, <1>2 DEF StartSwitch
<1>6. CASE SetPhase
  BY <1>6, <1>2 DEF SetPhase
<1> QED  BY <1>3, <1>4, <1>5, <1>6 DEF Request

LEMMA PassPunctual ==
  ASSUME Inv, Punctual, ~crashed, Pass
  PROVE  TickOnTime' /\ \A r \in Running' : RunOnTime(r)'
<1>0. /\ TickOnTime /\ \A r \in Running : RunOnTime(r)
      /\ now \in Nat /\ loop.wake \in Nat /\ loop.now \in Nat
      /\ Poll \in Nat /\ Grpc \in Nat /\ Late \in Nat /\ up
  BY SweepAssumption DEF Punctual, Inv, TypeOK, TickOnTime
<1>1. UNCHANGED <<run, loop, up>> /\ now' = now + 1 /\ Running' = Running
  BY DEF Pass, Running
<1>2. TickOnTime'
  BY <1>0, <1>1 DEF Pass, TickOnTime
<1>3. ASSUME NEW r \in Running PROVE RunOnTime(r)'
  BY <1>0, <1>1 DEF RunOnTime, Due, PlannedEnd, Seconds, MaxGap
<1> QED  BY <1>1, <1>2, <1>3

LEMMA StepPunctual == Inv /\ Punctual /\ [Next]_vars => Punctual'
<1> SUFFICES ASSUME Inv, Punctual, [Next]_vars, ~crashed' PROVE TickOnTime' /\ \A r \in Running' : RunOnTime(r)'
  BY DEF Punctual
<1>1. CASE UNCHANGED vars
  BY <1>1 DEF vars, Punctual, TickOnTime, RunOnTime, Running, Due, PlannedEnd, Seconds, MaxGap
<1>2. CASE Next
  <2>1. ~crashed /\ ~Crash
    <3>1. ~Crash
      BY DEF Crash
    <3>2. Tick => UNCHANGED crashed
      BY DEF Tick, TickNothing, TickDone, TickDecide, TickSwitch, TickAdvance
    <3>3. Request \/ Restart \/ Pass => UNCHANGED crashed
      BY DEF Request, StartSwitch, StartSweep, Stop, Relocate, SetPhase, Restart, Pass
    <3> QED  BY <1>2, <3>1, <3>2, <3>3 DEF Next
  <2>2. ~Restart
    BY <2>1 DEF Punctual, TickOnTime, Restart
  <2> QED  BY <1>2, <2>1, <2>2, TickPunctual, RequestPunctual, PassPunctual DEF Next
<1> QED  BY <1>1, <1>2

LEMMA Punctuality == Spec => [](Inv /\ Punctual)
  BY InitInv, StepInv, InitPunctual, StepPunctual, PTL DEF Spec

(* A running run that is punctual has drifted by its share of gaps. *)
LEMMA DriftIsBounded == Inv /\ Punctual => DriftBounded
<1> SUFFICES ASSUME Inv, Punctual, ~crashed, NEW r \in Running
             PROVE  /\ run[r].segStarted - run[r].started <= Bounds[run[r].seg] + (run[r].seg - 1) * MaxGap
                    /\ now - run[r].segStarted <= Seconds(run[r].seg) + MaxGap + Grpc
  BY DEF DriftBounded
<1>0. /\ TickOnTime /\ RunOnTime(r)
      /\ now \in Nat /\ loop.wake \in Nat /\ loop.now \in Nat
      /\ Poll \in Nat /\ Grpc \in Nat /\ Late \in Nat /\ MaxGap = Poll + Late + Grpc
  BY SweepAssumption DEF Punctual, Inv, TypeOK, TickOnTime, MaxGap
<1>1. CASE loop.at = "asleep"
  BY <1>0, <1>1, Numbers DEF TickOnTime, RunOnTime, Due
<1>2. CASE loop.at # "asleep"
  BY <1>0, <1>2, Numbers DEF TickOnTime, RunOnTime, Due
<1> QED  BY <1>1, <1>2

(* While the process lives, a segment begins at most one gap late for each *)
(* segment before it: the drift of a sweep is bounded by its length.       *)
THEOREM BoundedDrift == Spec => []DriftBounded
  BY DriftIsBounded, Punctuality, PTL

(* While the process lives, a sweep is over at most one gap after its plan. *)
THEOREM SweepsEndOnTime == Spec => []EndsOnTime
<1>1. Inv /\ Punctual => EndsOnTime
  <2> SUFFICES ASSUME Inv, Punctual, ~crashed, NEW r \in Running
               PROVE  now - run[r].started <= run[r].planned + MaxGap
    BY DEF EndsOnTime
  <2>0. /\ TickOnTime /\ RunOnTime(r)
        /\ now \in Nat /\ loop.wake \in Nat /\ loop.now \in Nat
        /\ Poll \in Nat /\ Grpc \in Nat /\ Late \in Nat /\ MaxGap = Poll + Late + Grpc
    BY SweepAssumption DEF Punctual, Inv, TypeOK, TickOnTime, MaxGap
  <2>1. CASE loop.at = "asleep"
    BY <2>0, <2>1, Numbers DEF TickOnTime, RunOnTime, PlannedEnd
  <2>2. CASE loop.at # "asleep"
    BY <2>0, <2>2, Numbers DEF TickOnTime, RunOnTime, PlannedEnd
  <2> QED  BY <2>1, <2>2
<1> QED  BY <1>1, Punctuality, PTL

-----------------------------------------------------------------------------
(***************************************************************************)
(* The statistics.                                                         *)
(***************************************************************************)
(* From the nominal begin of a segment on, nothing is filed before it, and *)
(* until its nominal end nothing after it.                                 *)
LEMMA FiledWithin ==
  ASSUME NEW t \in Nat, NEW s \in 1..N, Bounds[s] <= t
  PROVE  /\ FiledUnder(t) \in s..N
         /\ t < Bounds[s + 1] => FiledUnder(t) = s
<1>0. N \in Nat /\ \A i, j \in 1..(N + 1) : i <= j => Bounds[i] <= Bounds[j]
  BY SweepAssumption, NType
<1>1. ASSUME NEW i \in 1..N, Bounds[i] <= t, t < Bounds[i + 1]
      PROVE  i >= s /\ (t < Bounds[s + 1] => i = s)
  <2>1. Bounds[i] \in Nat /\ Bounds[i + 1] \in Nat /\ Bounds[s] \in Nat /\ Bounds[s + 1] \in Nat
    BY SecondsType
  <2>2. i + 1 <= s => Bounds[i + 1] <= Bounds[s]
    BY <1>0
  <2>3. s + 1 <= i => Bounds[s + 1] <= Bounds[i]
    BY <1>0
  <2> QED  BY <1>0, <1>1, <2>1, <2>2, <2>3
<1>2. CASE \E i \in 1..N : Bounds[i] <= t /\ t < Bounds[i + 1]
  <2> DEFINE f == CHOOSE i \in 1..N : Bounds[i] <= t /\ t < Bounds[i + 1]
  <2>1. f \in 1..N /\ Bounds[f] <= t /\ t < Bounds[f + 1]
    BY <1>2
  <2>2. FiledUnder(t) = f
    BY <1>2 DEF FiledUnder
  <2> HIDE DEF f
  <2>3. f >= s /\ (t < Bounds[s + 1] => f = s)
    BY <2>1, <1>1
  <2> QED  BY <1>0, <2>1, <2>2, <2>3
<1>3. CASE ~\E i \in 1..N : Bounds[i] <= t /\ t < Bounds[i + 1]
  <2>1. FiledUnder(t) = N
    BY <1>3 DEF FiledUnder
  <2>2. ~(t < Bounds[s + 1])
    BY <1>3
  <2> QED  BY <1>0, <2>1, <2>2
<1> QED  BY <1>2, <1>3

LEMMA OneGapMore ==
  ASSUME NEW s \in Nat, NEW g \in Nat
  PROVE  (s - 1) * g \in Int /\ s * g = (s - 1) * g + g
OBVIOUS

(* Packets are filed, and expected, by nominal bounds: never under a       *)
(* segment that the run has left, and off by no more than the drift.       *)
THEOREM StatisticsFollow == Spec => []StatsFollowTheSweep
<1>1. Inv /\ Punctual => StatsFollowTheSweep
  <2> SUFFICES ASSUME Inv, Punctual, NEW r \in Running
               PROVE  LET t == now - run[r].started
                          s == run[r].seg IN
                      /\ FiledUnder(t) >= s
                      /\ ~crashed => /\ FiledUnder(t) > s => t <= Bounds[s + 1] + s * MaxGap + Grpc
                                     /\ CreditedTime(t, s) - (now - run[r].segStarted) <= (s - 1) * MaxGap
                                     /\ (now - run[r].segStarted) - CreditedTime(t, s) <= MaxGap + Grpc
    BY DEF StatsFollowTheSweep
  <2> DEFINE t == now - run[r].started
             s == run[r].seg
             drift == (s - 1) * MaxGap
  <2>1. /\ now \in Nat /\ run[r].started \in Nat /\ run[r].segStarted \in Nat /\ s \in 1..N
        /\ Bounds[s] \in Nat /\ Bounds[s + 1] \in Nat /\ Bounds[s] + Seconds(s) = Bounds[s + 1]
        /\ Seconds(s) \in Nat
    BY Numbers, SecondsType DEF Inv, TypeOK
  <2>2. run[r].started + Bounds[s] <= run[r].segStarted /\ run[r].segStarted <= now
    BY Numbers DEF Inv, NeverAheadOfPlan
  <2>3. t \in Nat /\ Bounds[s] <= t
    BY <2>1, <2>2
  <2>4. FiledUnder(t) \in s..N /\ (t < Bounds[s + 1] => FiledUnder(t) = s)
    BY <2>1, <2>3, FiledWithin
  <2>5. ASSUME ~crashed
        PROVE  /\ FiledUnder(t) > s => t <= Bounds[s + 1] + s * MaxGap + Grpc
               /\ CreditedTime(t, s) - (now - run[r].segStarted) <= drift
               /\ (now - run[r].segStarted) - CreditedTime(t, s) <= MaxGap + Grpc
    <3>1. /\ run[r].segStarted - run[r].started <= Bounds[s] + drift
          /\ now - run[r].segStarted <= Seconds(s) + MaxGap + Grpc
      BY <2>5, DriftIsBounded DEF DriftBounded
    <3>g. MaxGap \in Nat /\ Grpc \in Nat
      BY SweepAssumption DEF MaxGap
    <3>s. s \in Nat
      BY <2>1, NType
    <3>2. drift \in Int /\ s * MaxGap = drift + MaxGap
      BY <3>g, <3>s, OneGapMore
    <3>3. CreditedTime(t, s) = (IF t < Bounds[s + 1] THEN t ELSE Bounds[s + 1]) - Bounds[s]
      BY <2>1, <2>3 DEF CreditedTime
    <3> HIDE DEF drift
    <3> QED  BY <2>1, <2>2, <2>3, <3>g, <3>1, <3>2, <3>3
  <2> QED  BY <2>1, <2>4, <2>5
<1> QED  BY <1>1, Punctuality, PTL
-----------------------------------------------------------------------------
(***************************************************************************)
(* The last segment.                                                       *)
(***************************************************************************)
Measured(row) ==
  row.reason = "schedule" /\ row.planned >= Bounds[N + 1] =>
    /\ row.seg = N
    /\ row.ended - row.segStarted >= Seconds(N) - (N - 1) * MaxGap

LongLastSegment == (N - 1) * MaxGap < Seconds(N)

(* A run that its schedule has ended is not the one the tick has in hand.  *)
LastMeasured ==
  /\ \A r \in Running : run[r].reason # "schedule"
  /\ loop.at # "asleep" => run[loop.run].reason # "schedule"
  /\ ~crashed /\ LongLastSegment => \A r \in RunIds : Measured(run[r])

(* What a step does to a row. *)
LEMMA RowMoves ==
  ASSUME Inv, [Next]_vars, NEW r \in RunIds
  PROVE  \/ run'[r] = run[r]
         \/ TickDone(r)
         \/ r \in Running /\ run'[r] = Ended(run[r], "operator")
         \/ loop.at = "write" /\ r = loop.run /\ run'[r] = Advanced(run[r], loop.now)
         \/ run'[r].status = "running" /\ run'[r].reason = "none" /\ run[r].status = "absent"
<1>0. run \in [RunIds -> RunRow]
  BY DEF Inv, TypeOK
<1>1. CASE TickNothing \/ (\E q \in RunIds : TickDecide(q) \/ StartSwitch(q)) \/ TickSwitch \/ SetPhase
             \/ Crash \/ Restart \/ Pass \/ UNCHANGED vars
  BY <1>1 DEF TickNothing, TickDecide, StartSwitch, TickSwitch, SetPhase, Crash, Restart, Pass, vars
<1>2. ASSUME NEW q \in RunIds, TickDone(q)  PROVE run'[r] = run[r] \/ TickDone(r)
  BY <1>0, <1>2 DEF TickDone
<1>3. CASE TickAdvance
  BY <1>0, <1>3 DEF TickAdvance, Advanced
<1>4. CASE Stop \/ Relocate
  BY <1>0, <1>4 DEF Stop, Relocate
<1>5. ASSUME NEW q \in RunIds, NEW sfs \in Schedules, NEW planned \in Plans,
             StartSweep(q, sfs, planned)
      PROVE  run'[r] = run[r] \/ (run'[r].status = "running" /\ run'[r].reason = "none" /\ run[r].status = "absent")
  BY <1>0, <1>5 DEF StartSweep
<1> QED BY <1>1, <1>2, <1>3, <1>4, <1>5 DEF Next, Tick, Request

(* When the plan is the sum of the segments, a punctual tick ends the run  *)
(* in the last one.                                                        *)
LEMMA DoneMeasured ==
  ASSUME Inv, Punctual, ~crashed, LongLastSegment, NEW r \in RunIds, TickDone(r)
  PROVE  Measured(run'[r])
<1> DEFINE row == run[r]
           drift == (row.seg - 1) * MaxGap
           all   == (N - 1) * MaxGap
<1>1. r \in Running /\ loop.at = "asleep"
  BY DEF TickDone, Awake
<1>2. /\ row.started \in Nat /\ row.segStarted \in Nat /\ row.planned \in Nat /\ row.seg \in 1..N
      /\ Due(row) = row.segStarted + Seconds(row.seg)
  BY <1>1, Numbers DEF Due
<1>3. /\ Seconds(row.seg) \in Nat /\ Bounds[row.seg] \in Nat /\ Bounds[row.seg + 1] \in Nat
      /\ Bounds[row.seg] + Seconds(row.seg) = Bounds[row.seg + 1]
      /\ Seconds(N) \in Nat /\ Bounds[N] \in Nat /\ Bounds[N + 1] \in Nat
      /\ Bounds[N] + Seconds(N) = Bounds[N + 1]
  <2>1. N \in 1..N
    BY NType
  <2>2. row.seg \in 1..N
    BY <1>2
  <2> HIDE DEF row
  <2> QED BY <2>1, <2>2, SecondsType
<1>4. /\ now \in Nat /\ MaxGap \in Nat
      /\ row.segStarted - row.started <= Bounds[row.seg] + drift
      /\ now <= Due(row) + MaxGap
  <2>1. /\ TickOnTime /\ RunOnTime(r)
        /\ now \in Nat /\ loop.wake \in Nat /\ Poll \in Nat /\ Grpc \in Nat /\ Late \in Nat
        /\ MaxGap = Poll + Late + Grpc
    BY <1>1, SweepAssumption DEF Punctual, Inv, TypeOK, MaxGap
  <2> QED BY <1>1, <1>2, <1>3, <2>1 DEF TickOnTime, RunOnTime
<1>5. PlanElapsed(now, row) \/ (SegmentElapsed(now, row) /\ row.seg = N)
  BY DEF TickDone, Finished
<1>6. /\ run'[r].planned = row.planned /\ run'[r].seg = row.seg /\ run'[r].segStarted = row.segStarted
      /\ run'[r].ended = now
  <2>1. run'[r] = Ended(row, "schedule") /\ row \in RunRow /\ now \in Nat
    BY DEF TickDone, Inv, TypeOK
  <2> QED BY <2>1, EndedType
<1>7. drift \in Nat /\ all \in Nat /\ drift + MaxGap = row.seg * MaxGap
  <2>1. row.seg - 1 \in Nat /\ N - 1 \in Nat /\ row.seg \in Nat
    BY <1>2, NType
  <2>2. \A k \in Nat : k * MaxGap \in Nat
    BY <1>4
  <2>3. drift + MaxGap = row.seg * MaxGap
    BY <1>4, <2>1, OneGapMore
  <2> QED BY <2>1, <2>2, <2>3
<1>8. row.seg < N => drift + MaxGap <= all /\ Bounds[row.seg + 1] <= Bounds[N]
  <2>1. row.seg < N => row.seg + 1 <= N /\ row.seg + 1 \in 1..(N + 1) /\ N \in 1..(N + 1)
    BY <1>2, NType
  <2>2. ASSUME row.seg < N  PROVE drift + MaxGap <= all
    <3>1. PICK k \in Nat : N - 1 = row.seg + k
      <4>1. N - 1 - row.seg \in Nat /\ N - 1 = row.seg + (N - 1 - row.seg)
        BY <1>2, <2>2, NType
      <4> QED BY <4>1
    <3>2. all = row.seg * MaxGap + k * MaxGap
      BY <1>2, <1>4, <3>1
    <3>3. k * MaxGap \in Nat
      BY <1>4
    <3> HIDE DEF all, drift
    <3> QED BY <1>2, <1>4, <1>7, <3>2, <3>3
  <2> QED BY <2>1, <2>2, SweepAssumption
<1>9. all < Seconds(N)
  BY DEF LongLastSegment
<1> HIDE DEF row, drift, all
<1>10. ASSUME row.planned >= Bounds[N + 1]
       PROVE  row.seg = N /\ now - row.segStarted >= Seconds(N) - all
  <2>1. CASE row.seg < N
    <3>1. now - row.started >= row.planned
      BY <1>5, <2>1, <1>2, NType DEF PlanElapsed
    <3> QED BY <1>2, <1>3, <1>4, <1>7, <1>8, <1>9, <1>10, <2>1, <3>1
  <2>2. CASE row.seg = N /\ PlanElapsed(now, row)
    <3>1. drift = all
      BY <2>2 DEF drift, all
    <3> QED BY <1>2, <1>3, <1>4, <1>7, <1>10, <2>2, <3>1 DEF PlanElapsed
  <2>3. CASE row.seg = N /\ SegmentElapsed(now, row)
    BY <1>2, <1>3, <1>4, <1>7, <2>3 DEF SegmentElapsed
  <2> QED BY <1>2, <1>5, <2>1, <2>2, <2>3, NType
<1> QED BY <1>6, <1>10 DEF Measured, all

LEMMA MeasuredInit == Init => LastMeasured
  BY DEF Init, LastMeasured, Measured, NoRow, Running, Asleep

LEMMA MeasuredNext == Inv /\ Punctual /\ LastMeasured /\ [Next]_vars => LastMeasured'
<1> SUFFICES ASSUME Inv, Punctual, LastMeasured, [Next]_vars PROVE LastMeasured'
  OBVIOUS
<1>0. run \in [RunIds -> RunRow] /\ now \in Nat /\ (loop.at # "asleep" => loop.run \in RunIds)
  BY DEF Inv, TypeOK
<1>1. \A r \in RunIds :
        /\ r \in Running => Ended(run[r], "operator").reason = "operator"
        /\ Ended(run[r], "operator").status = "done" /\ Ended(run[r], "schedule").status = "done"
        /\ Advanced(run[r], loop.now).status = run[r].status /\ Advanced(run[r], loop.now).reason = run[r].reason
  BY <1>0, EndedType DEF Advanced, RunRow
<1>2. ASSUME NEW r \in Running'  PROVE run'[r].reason # "schedule"
  <2>1. r \in RunIds /\ run'[r].status = "running"
    BY <1>2 DEF Running
  <2>2. ~TickDone(r)
    BY <1>0, <1>1, <2>1 DEF TickDone
  <2> QED BY <1>1, <2>1, <2>2, RowMoves DEF LastMeasured, Running
<1>3. ASSUME loop'.at # "asleep"  PROVE run'[loop'.run].reason # "schedule"
  <2>1. CASE \E r \in RunIds : TickDecide(r)
    <3>1. PICK r \in RunIds : TickDecide(r)
      BY <2>1
    <3>2. loop'.run = r /\ run' = run /\ r \in Running
      BY <3>1 DEF TickDecide, Inv, TypeOK
    <3> QED BY <3>2 DEF LastMeasured
  <2>2. CASE ~\E r \in RunIds : TickDecide(r)
    <3>1. loop'.run = loop.run /\ loop.at # "asleep" /\ ~\E r \in RunIds : TickDone(r)
      BY <1>3, <2>2 DEF Next, Tick, TickNothing, TickDone, TickSwitch, TickAdvance, Sleep, Asleep, Request,
         StartSwitch, StartSweep, Stop, Relocate, SetPhase, Crash, Restart, Pass, vars, Awake, Inv, TypeOK
    <3>2. loop.run \in RunIds /\ run[loop.run].reason # "schedule"
      BY <1>0, <3>1 DEF LastMeasured
    <3> QED BY <1>1, <3>1, <3>2, RowMoves
  <2> QED BY <2>1, <2>2
<1>4. ASSUME ~crashed', LongLastSegment, NEW r \in RunIds  PROVE Measured(run'[r])
  <2>1. ~crashed
    BY <1>4 DEF Next, Tick, TickNothing, TickDone, TickDecide, TickSwitch, TickAdvance, Request,
       StartSwitch, StartSweep, Stop, Relocate, SetPhase, Crash, Restart, Pass, vars
  <2>2. CASE run'[r].reason = "schedule" /\ ~TickDone(r)
    <3>1. run'[r] = run[r]
      BY <1>0, <1>1, <2>2, RowMoves DEF LastMeasured
    <3> QED BY <1>4, <2>1, <3>1 DEF LastMeasured
  <2>3. CASE TickDone(r)
    BY <1>4, <2>1, <2>3, DoneMeasured
  <2>4. CASE run'[r].reason # "schedule"
    BY <2>4 DEF Measured
  <2> QED BY <2>2, <2>3, <2>4
<1> QED BY <1>2, <1>3, <1>4 DEF LastMeasured, LongLastSegment, MaxGap, Seconds, Measured

(* A sweep whose plan is the sum of its segments ends in the last one, and *)
(* what that one has lost is the drift of the others.                      *)
THEOREM LastSegmentIsMeasured == Spec => []LastSegmentMeasured
<1>1. LastMeasured => LastSegmentMeasured
  BY DEF LastMeasured, LastSegmentMeasured, LongLastSegment, Measured
<1> QED BY InitInv, StepInv, InitPunctual, StepPunctual, MeasuredInit, MeasuredNext, <1>1, PTL DEF Spec
-----------------------------------------------------------------------------
(***************************************************************************)
(* The profile.                                                            *)
(***************************************************************************)
SwitchesSucceed == ~Phases /\ ~Failures /\ Grpc < Seconds(1)

(* A switch of start_run is over before its run, or any later one, leaves  *)
(* its first segment; and no sweep starts while the tick is at work.       *)
SwitchesInTime ==
  /\ up /\ \A q, r \in Running : q = r
  /\ \A q \in starting : /\ run[q].status # "absent" /\ now <= run[q].started + Grpc
                         /\ \A r \in Running : run[q].started <= run[r].started
  /\ loop.at # "asleep" => (Running \subseteq {loop.run}) /\ (fixed \/ Running # {})

(* Either it is right, or a sweep started just before has come last.       *)
Overtaken(r) == run[r].seg = 1 /\ \E q \in StartedJustBefore(r) : profile = run[q].sfs[1]

(* The profile is that of the segment, or of the one about to be written.  *)
ProfileFollows ==
  \A r \in Running :
    /\ loop.at = "asleep" /\ r \notin starting => profile = run[r].sfs[run[r].seg] \/ Overtaken(r)
    /\ loop.at = "write" => profile = run[r].sfs[run[r].seg + 1]

LEMMA ProfileInit == Init => SwitchesInTime /\ ProfileFollows
  BY DEF Init, SwitchesInTime, ProfileFollows, Running, NoRow, Asleep

(* After the first segment, and while the tick decides, no switch is due.  *)
LEMMA NoneStarting ==
  ASSUME Inv, SwitchesSucceed, SwitchesInTime, NEW r \in Running,
         run[r].seg > 1 \/ (loop.at # "asleep" /\ loop.run = r)
  PROVE  starting = {}
<1> SUFFICES ASSUME NEW q \in starting PROVE FALSE  OBVIOUS
<1>1. /\ now \in Nat /\ run[r].started \in Nat /\ run[r].segStarted \in Nat /\ run[r].seg \in 1..N
      /\ run[q].started \in Nat /\ Grpc \in Nat /\ r \in RunIds
  BY Numbers, SweepAssumption DEF Inv, TypeOK, RunRow
<1>2. now <= run[q].started + Grpc /\ run[q].started <= run[r].started
  BY DEF SwitchesInTime
<1>3. 1 \in 1..N /\ Bounds[1] = 0 /\ N \in Nat
  BY NType, SweepAssumption
<1>4. Bounds[2] = Seconds(1) /\ Seconds(1) \in Nat
  <2>1. Bounds[1] + Seconds(1) = Bounds[1 + 1] /\ Seconds(1) \in Nat /\ Bounds[1 + 1] \in Nat
    BY <1>3, SecondsType
  <2> QED BY <1>3, <2>1
<1>5. /\ Bounds[run[r].seg] \in Nat /\ Bounds[run[r].seg + 1] \in Nat /\ Seconds(run[r].seg) \in Nat
      /\ Bounds[run[r].seg] + Seconds(run[r].seg) = Bounds[run[r].seg + 1]
  BY <1>1, SecondsType
<1>6. run[r].started + Bounds[run[r].seg] <= run[r].segStarted /\ run[r].segStarted <= now
  BY <1>1, Numbers DEF Inv, NeverAheadOfPlan
<1>7. CASE run[r].seg > 1
  <2>1. 2 \in 1..(N + 1) /\ run[r].seg \in 1..(N + 1) /\ 2 <= run[r].seg
    BY <1>1, <1>3, <1>7
  <2>2. Bounds[2] <= Bounds[run[r].seg]
    BY <2>1, SweepAssumption
  <2> QED BY <1>1, <1>2, <1>4, <1>5, <1>6, <2>2 DEF SwitchesSucceed
<1>8. CASE loop.at # "asleep" /\ loop.run = r
  <2>1. 2 \in 1..(N + 1) /\ run[r].seg + 1 \in 1..(N + 1) /\ 2 <= run[r].seg + 1
    BY <1>1, <1>3
  <2>2. Bounds[2] <= Bounds[run[r].seg + 1]
    BY <2>1, SweepAssumption
  <2>3. run[r].segStarted + Seconds(run[r].seg) <= loop.now /\ loop.now <= now /\ loop.now \in Nat
    BY <1>8 DEF Inv, DecisionStands, Due, TypeOK
  <2> QED BY <1>1, <1>2, <1>4, <1>5, <1>6, <2>2, <2>3 DEF SwitchesSucceed
<1> QED BY <1>7, <1>8

LEMMA InTimeNext ==
  ASSUME Inv, SwitchesSucceed, SwitchesInTime, [Next]_vars
  PROVE  SwitchesInTime'
<1>0. /\ run \in [RunIds -> RunRow] /\ now \in Nat /\ Grpc \in Nat /\ starting \subseteq RunIds
      /\ \A r \in RunIds : run[r].started \in Nat
      /\ loop.at # "asleep" => loop.run \in RunIds
      /\ Plans \subseteq Nat
  BY SweepAssumption DEF Inv, TypeOK, RunRow
<1>1. ~Crash /\ ~Restart /\ ~SetPhase
  BY DEF SwitchesSucceed, SwitchesInTime, Crash, Restart, SetPhase
<1>2. CASE TickNothing \/ UNCHANGED vars
  <2>1. UNCHANGED <<now, run, fixed, starting, up>> /\ (loop' = loop \/ loop'.at = "asleep")
    BY <1>2 DEF TickNothing, vars, Sleep, Asleep
  <2>2. Running' = Running
    BY <2>1 DEF Running
  <2> QED BY <2>1, <2>2 DEF SwitchesInTime
<1>3. ASSUME NEW r \in RunIds, TickDecide(r)  PROVE SwitchesInTime'
  <2>1. /\ UNCHANGED <<now, run, fixed, starting, up>> /\ Running' = Running /\ r \in Running
        /\ loop'.at = "switch" /\ loop'.run = r
    BY <1>3 DEF TickDecide, Running, Inv, TypeOK
  <2> QED BY <2>1 DEF SwitchesInTime
<1>4. CASE TickSwitch
  <2>1. /\ UNCHANGED <<now, run, fixed, starting, up>> /\ Running' = Running
        /\ loop.at = "switch" /\ loop'.at = "write" /\ loop'.run = loop.run
    BY <1>4 DEF TickSwitch, Running, Inv, TypeOK
  <2> QED BY <2>1 DEF SwitchesInTime
<1>5. ASSUME /\ \A r \in RunIds : /\ run'[r].status = run[r].status \/ run'[r].status = "done"
                                  /\ run'[r].started = run[r].started
                                  /\ run[r].status = "absent" => run'[r].status = "absent"
             /\ now' = now /\ starting' \subseteq starting /\ up' = up
             /\ loop'.at = "asleep" \/ (loop' = loop /\ (fixed' \/ (fixed' = fixed /\ Running' = Running)))
      PROVE  SwitchesInTime'
  <2>1. Running' \subseteq Running /\ Running \subseteq RunIds
    BY <1>5 DEF Running
  <2>2. ASSUME NEW q \in starting'
        PROVE  /\ run'[q].status # "absent" /\ now' <= run'[q].started + Grpc
               /\ \A r \in Running' : run'[q].started <= run'[r].started
    <3>1. q \in starting /\ q \in RunIds
      BY <1>0, <1>5, <2>2
    <3> QED BY <1>5, <2>1, <3>1 DEF SwitchesInTime
  <2> QED BY <1>5, <2>1, <2>2 DEF SwitchesInTime
<1>6. \A r \in RunIds, reason \in {"operator", "schedule"} :
        /\ Ended(run[r], reason).status = "done" /\ Ended(run[r], reason).started = run[r].started
        /\ Advanced(run[r], loop.now).status = run[r].status
        /\ Advanced(run[r], loop.now).started = run[r].started
  BY <1>0, EndedType DEF Advanced, RunRow
<1>7. ASSUME NEW r \in RunIds, TickDone(r)  PROVE SwitchesInTime'
  BY <1>0, <1>5, <1>6, <1>7 DEF TickDone, Sleep, Asleep, Running
<1>8. CASE TickAdvance
  <2>1. run' = [run EXCEPT ![loop.run] = Advanced(run[loop.run], loop.now)] /\ loop.run \in RunIds
    BY <1>0, <1>8 DEF TickAdvance, Advanced
  <2> QED BY <1>0, <1>5, <1>6, <1>8, <2>1 DEF TickAdvance, Sleep, Asleep
<1>9. CASE Stop \/ Relocate
  BY <1>0, <1>5, <1>6, <1>9 DEF Stop, Relocate, Running
<1>10. ASSUME NEW r \in RunIds, StartSwitch(r)  PROVE SwitchesInTime'
  BY <1>5, <1>10 DEF StartSwitch, Running
<1>11. ASSUME NEW r \in RunIds, NEW sfs \in Schedules, NEW planned \in Plans,
              StartSweep(r, sfs, planned)
       PROVE  SwitchesInTime'
  <2>1. /\ Running = {} /\ ~fixed /\ run[r].status = "absent"
        /\ run'[r].status = "running" /\ run'[r].started = now
        /\ \A q \in RunIds : q # r => run'[q] = run[q]
        /\ starting' = starting \cup {r} /\ UNCHANGED <<now, loop, up, fixed>>
    BY <1>0, <1>11 DEF StartSweep
  <2>2. Running' = {r} /\ loop.at = "asleep"
    BY <2>1 DEF Running, SwitchesInTime
  <2>3. r \notin starting
    BY <2>1 DEF SwitchesInTime
  <2>4. \A q \in RunIds : run[q].status # "absent" => run[q].started <= now
    <3>1. ASSUME NEW q \in RunIds, run[q].status # "absent"  PROVE run[q].started <= now
      <4>1. /\ run[q].seg \in 1..N /\ run[q].segStarted \in Nat
            /\ run[q].started + Bounds[run[q].seg] <= run[q].segStarted /\ run[q].segStarted <= now
        BY <1>0, <3>1 DEF Inv, NeverAheadOfPlan, RunRow
      <4>2. Bounds[run[q].seg] \in Nat
        BY <4>1, SecondsType
      <4> QED BY <1>0, <4>1, <4>2
    <3> QED BY <3>1
  <2>5. ASSUME NEW q \in starting'
        PROVE  run'[q].status # "absent" /\ now <= run'[q].started + Grpc /\ run'[q].started <= run'[r].started
    BY <1>0, <2>1, <2>3, <2>4, <2>5 DEF SwitchesInTime
  <2> QED BY <2>1, <2>2, <2>5 DEF SwitchesInTime
<1>12. CASE Pass
  <2>1. UNCHANGED <<run, fixed, starting, loop, up>> /\ now' = now + 1 /\ Running' = Running
        /\ \A r \in starting : now < run[r].started + Grpc
    BY <1>12 DEF Pass, Running
  <2> QED BY <1>0, <2>1 DEF SwitchesInTime
<1> QED BY <1>1, <1>2, <1>3, <1>4, <1>7, <1>8, <1>9, <1>10, <1>11, <1>12 DEF Next, Tick, Request

LEMMA FollowsNext ==
  ASSUME Inv, SwitchesSucceed, SwitchesInTime, ProfileFollows, [Next]_vars
  PROVE  ProfileFollows'
<1>0. /\ run \in [RunIds -> RunRow] /\ starting \subseteq RunIds
      /\ loop.at # "asleep" => loop.run \in RunIds
      /\ \A sf : SwitchTo(sf) => profile' = sf
  BY DEF Inv, TypeOK, SwitchesSucceed, SwitchTo
<1>1. ~Crash /\ ~Restart /\ ~SetPhase
  BY DEF SwitchesSucceed, SwitchesInTime, Crash, Restart, SetPhase
<1>2. ASSUME UNCHANGED <<run, profile, starting>>, loop'.at = loop.at \/ (loop'.at = "switch")
      PROVE  ProfileFollows'
  BY <1>2 DEF ProfileFollows, Running, Overtaken, StartedJustBefore
<1>3. CASE TickNothing
  BY <1>3 DEF TickNothing, Awake, Sleep, Asleep, ProfileFollows, Running, Overtaken, StartedJustBefore
<1>4. CASE Pass \/ UNCHANGED vars \/ \E r \in RunIds : TickDecide(r)
  BY <1>2, <1>4 DEF Pass, vars, TickDecide, Inv, TypeOK
<1>5. CASE TickSwitch
  <2>1. /\ profile' = run[loop.run].sfs[run[loop.run].seg + 1] /\ UNCHANGED <<run, starting>>
        /\ Running' = Running /\ loop.at = "switch" /\ loop'.at = "write"
    BY <1>0, <1>5 DEF TickSwitch, Running, Inv, TypeOK
  <2> QED BY <2>1 DEF ProfileFollows, SwitchesInTime
<1>6. CASE TickAdvance
  <2>1. /\ run' = [run EXCEPT ![loop.run] = Advanced(run[loop.run], loop.now)] /\ loop.run \in RunIds
        /\ UNCHANGED <<profile, starting>> /\ loop.at = "write" /\ loop'.at = "asleep"
    BY <1>0, <1>6 DEF TickAdvance, Sleep, Asleep, Advanced
  <2>2. /\ Advanced(run[loop.run], loop.now).seg = run[loop.run].seg + 1
        /\ Advanced(run[loop.run], loop.now).status = run[loop.run].status
        /\ Advanced(run[loop.run], loop.now).sfs = run[loop.run].sfs
    BY <1>0, <2>1 DEF Advanced, RunRow
  <2>3. Running' = Running
    BY <1>0, <2>1, <2>2 DEF Running
  <2> QED BY <1>0, <2>1, <2>2, <2>3 DEF ProfileFollows, SwitchesInTime
<1>7. \A r \in RunIds, reason \in {"operator", "schedule"} : Ended(run[r], reason).status = "done"
  BY <1>0, EndedType DEF Inv, TypeOK
<1>8. ASSUME NEW r \in RunIds, TickDone(r)  PROVE ProfileFollows'
  <2>1. Running' = {}
    <3>1. Running' \subseteq Running \ {r} /\ r \in Running
      BY <1>0, <1>7, <1>8 DEF TickDone, Running
    <3> QED BY <3>1 DEF SwitchesInTime
  <2> QED BY <2>1 DEF ProfileFollows
<1>9. CASE Stop \/ Relocate
  <2>1. Running' = {}
    BY <1>0, <1>7, <1>9 DEF Stop, Relocate, Running
  <2> QED BY <2>1 DEF ProfileFollows
<1>10. ASSUME NEW q \in RunIds, StartSwitch(q)  PROVE ProfileFollows'
  <2>1. /\ profile' = run[q].sfs[1] /\ UNCHANGED <<run, loop>> /\ Running' = Running
        /\ q \in starting /\ starting' = starting \ {q}
    BY <1>0, <1>10 DEF StartSwitch, Running
  <2>2. ASSUME NEW r \in Running
        PROVE  run[r].seg = 1 /\ loop.at = "asleep" /\ (q = r \/ q \in StartedJustBefore(r))
    <3>1. ~(run[r].seg > 1 \/ (loop.at # "asleep" /\ loop.run = r))
      BY <2>1, NoneStarting
    <3>2. run[r].seg \in 1..N /\ N \in Nat
      BY Numbers, NType
    <3>3. loop.at # "asleep" => loop.run = r
      BY DEF SwitchesInTime
    <3>4. ASSUME q # r  PROVE q \in StartedJustBefore(r)
      <4>1. run[q].status = "done"
        <5>1. run[q].status \in {"absent", "running", "done"}
          BY <1>0 DEF RunRow
        <5> QED BY <2>1, <3>4, <5>1 DEF SwitchesInTime, Running
      <4>2. /\ now \in Nat /\ Grpc \in Nat /\ run[q].started \in Nat
            /\ run[r].started \in Nat /\ run[r].segStarted \in Nat
        BY <1>0, Numbers, SweepAssumption DEF Inv, TypeOK, RunRow
      <4>3. run[r].started <= now /\ now <= run[q].started + Grpc
        <5>1. /\ run[r].started + Bounds[run[r].seg] <= run[r].segStarted
              /\ run[r].segStarted <= now
          BY Numbers DEF Inv, NeverAheadOfPlan
        <5>2. Bounds[run[r].seg] \in Nat
          BY <3>2, SecondsType
        <5>3. now <= run[q].started + Grpc
          BY <2>1 DEF SwitchesInTime
        <5> QED BY <4>2, <5>1, <5>2, <5>3
      <4> QED BY <4>1, <4>2, <4>3 DEF StartedJustBefore
    <3> QED BY <3>1, <3>2, <3>3, <3>4
  <2>3. ASSUME NEW r \in Running
        PROVE  profile' = run'[r].sfs[run'[r].seg] \/ Overtaken(r)'
    BY <2>1, <2>2 DEF Overtaken, StartedJustBefore
  <2> QED BY <2>1, <2>2, <2>3 DEF ProfileFollows
<1>11. ASSUME NEW r \in RunIds, NEW sfs \in Schedules, NEW planned \in Plans,
              StartSweep(r, sfs, planned)
       PROVE  ProfileFollows'
  <2>1. /\ Running = {} /\ ~fixed /\ \A q \in RunIds : q # r => run'[q] = run[q]
        /\ r \in starting' /\ UNCHANGED loop
    BY <1>0, <1>11 DEF StartSweep
  <2>2. loop.at = "asleep" /\ Running' \subseteq {r}
    BY <2>1 DEF Running, SwitchesInTime
  <2> QED BY <2>1, <2>2 DEF ProfileFollows
<1> QED BY <1>1, <1>3, <1>4, <1>5, <1>6, <1>8, <1>9, <1>10, <1>11 DEF Next, Tick, Request

(* When every switch succeeds, nobody uses POST /api/phase, and a switch   *)
(* takes less time than the first segment, a device is measured at the SF  *)
(* that its row says, whatever stops and relocates come between; but for   *)
(* the first segment of a run that followed a stopped one within the time  *)
(* of a switch, which may be measured at the first SF of that one.         *)
THEOREM ProfileIsTheSegments ==
  ASSUME ~Phases, ~Failures, Grpc < Seconds(1)
  PROVE  Spec => []ProfileMatchesSegment
<1>0. SwitchesSucceed
  BY DEF SwitchesSucceed
<1>1. Inv /\ SwitchesInTime /\ ProfileFollows /\ [Next]_vars => SwitchesInTime' /\ ProfileFollows'
  BY <1>0, InTimeNext, FollowsNext
<1>2. ProfileFollows => ProfileMatchesSegment
  BY DEF ProfileFollows, ProfileMatchesSegment, Overtaken
<1> QED BY InitInv, StepInv, ProfileInit, <1>1, <1>2, PTL DEF Spec
=============================================================================
