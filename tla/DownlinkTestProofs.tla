-------------------------- MODULE DownlinkTestProofs --------------------------
(***************************************************************************)
(* The counters of the downlink test, for every schedule, every K, every   *)
(* number of runs and any other downlinks, failures and crashes, and their *)
(* cadence; and, for a first run that nothing disturbs, what its acks are  *)
(* acks of.                                                                *)
(***************************************************************************)
EXTENDS DownlinkTest, FiniteSetTheorems, TLAPS

Inv == TypeOK /\ AckedWithinSent /\ CsvCoversPackets

(* What the counters say of one row: the two invariants, row by row. *)
Sound(row, undisturbed) ==
  /\ \A sf \in SFs : row.acked[sf] + (IF row.pending_sf = sf THEN 1 ELSE 0) <= row.sent[sf]
  /\ LET firstDue == IF row.packets > 0 THEN 1 ELSE 0 IN
     /\ row.packets <= row.csv /\ row.firstUplinks <= firstDue
     /\ undisturbed => row.packets = row.csv /\ row.firstUplinks = firstDue

LEMMA RowByRow == AckedWithinSent /\ CsvCoversPackets <=> \A r \in RunIds : Sound(run[r], alone)
  BY DEF AckedWithinSent, CsvCoversPackets, Sound

LEMMA ScheduleSFs ==
  /\ \A i \in 1..Len(Schedule) : Schedule[i] \in SFs
  /\ SFs \subseteq Nat \ {0} /\ None \notin SFs
  /\ 1 \in 1..Len(Schedule)
  <1>1. DOMAIN Schedule = 1..Len(Schedule) /\ Len(Schedule) \in Nat
    BY DownlinkTestAssumption
  <1>2. \A i \in 1..Len(Schedule) : Schedule[i] \in Nat \ {0}
    BY DownlinkTestAssumption
  <1>3. Len(Schedule) # 0
    BY DownlinkTestAssumption
  <1> QED
    BY <1>1, <1>2, <1>3 DEF SFs, Range, None

LEMMA InitInv == Init => Inv
  <1> SUFFICES ASSUME Init PROVE Inv
    OBVIOUS
  <1>1. Zero \in [SFs -> Nat]
    BY DEF Zero
  <1> DEFINE row == [status |-> "absent", seg |-> 1, packets |-> 0, csv |-> 0, firstUplinks |-> 0,
                     pending_sf |-> None, sent |-> Zero, acked |-> Zero]
  <1>2. row \in RunRow
    BY <1>1, ScheduleSFs DEF RunRow
  <1>3. Sound(row, TRUE)
    BY ScheduleSFs DEF Sound, Zero
  <1>4. run = [r \in RunIds |-> row]
    BY DEF Init
  <1> HIDE DEF row
  <1>5. TypeOK
    BY <1>1, <1>2, <1>4, DownlinkTestAssumption DEF Init, TypeOK, Idle, Other, Downlink
  <1> QED
    <2>1. \A r \in RunIds : run[r] = row /\ alone = TRUE
      BY <1>4 DEF Init
    <2> QED
      BY <1>3, <1>5, <2>1, RowByRow DEF Inv

(* One row is written at a time. *)
LEMMA RowWritten ==
  ASSUME Inv, NEW r \in RunIds, NEW new \in RunRow, run' = [run EXCEPT ![r] = new],
         NEW stays \in BOOLEAN, Sound(new, stays), stays => alone
  PROVE  run' \in [RunIds -> RunRow] /\ \A q \in RunIds : Sound(run'[q], stays)
  BY RowByRow DEF Inv, TypeOK, Sound

(* The two updates that touch pending_sf. *)
WithSent(row, sent, sf) == [row EXCEPT !.sent = sent, !.pending_sf = sf]
WithAcked(row, acked)   == [row EXCEPT !.pending_sf = None, !.acked = acked]

LEMMA SentSet ==
  ASSUME NEW row \in RunRow, NEW sent \in [SFs -> Nat], NEW sf \in SFs,
         NEW new, new = WithSent(row, sent, sf)
  PROVE  /\ new \in RunRow /\ new.sent = sent /\ new.pending_sf = sf /\ new.acked = row.acked
         /\ new.csv = row.csv /\ new.packets = row.packets /\ new.firstUplinks = row.firstUplinks
  <1> DEFINE a == [row EXCEPT !.sent = sent]
  <1>1. a \in RunRow /\ a.sent = sent /\ a.acked = row.acked
    BY DEF RunRow
  <1>2. a.csv = row.csv /\ a.packets = row.packets /\ a.firstUplinks = row.firstUplinks
    BY DEF RunRow
  <1>3. new = [a EXCEPT !.pending_sf = sf]
    BY DEF a, WithSent
  <1> HIDE DEF a
  <1>4. new \in RunRow /\ new.sent = sent /\ new.pending_sf = sf /\ new.acked = row.acked
    BY <1>1, <1>3 DEF RunRow
  <1>5. new.csv = row.csv /\ new.packets = row.packets /\ new.firstUplinks = row.firstUplinks
    BY <1>1, <1>2, <1>3 DEF RunRow
  <1> QED
    BY <1>4, <1>5

LEMMA AckedSet ==
  ASSUME NEW row \in RunRow, NEW acked \in [SFs -> Nat],
         NEW new, new = WithAcked(row, acked)
  PROVE  /\ new \in RunRow /\ new.sent = row.sent /\ new.pending_sf = None /\ new.acked = acked
         /\ new.csv = row.csv /\ new.packets = row.packets /\ new.firstUplinks = row.firstUplinks
  <1> DEFINE a == [row EXCEPT !.pending_sf = None]
  <1>1. a \in RunRow /\ a.sent = row.sent /\ a.pending_sf = None
    BY DEF RunRow
  <1>2. a.csv = row.csv /\ a.packets = row.packets /\ a.firstUplinks = row.firstUplinks
    BY DEF RunRow
  <1>3. new = [a EXCEPT !.acked = acked]
    BY DEF a, WithAcked
  <1> HIDE DEF a
  <1>4. new \in RunRow /\ new.sent = row.sent /\ new.pending_sf = None /\ new.acked = acked
    BY <1>1, <1>3 DEF RunRow
  <1>5. new.csv = row.csv /\ new.packets = row.packets /\ new.firstUplinks = row.firstUplinks
    BY <1>1, <1>2, <1>3 DEF RunRow
  <1> QED
    BY <1>4, <1>5

(* What disturbs a run disturbs it for good. *)
LEMMA AloneStep ==
  ASSUME Inv, [Next]_vars
  PROVE  \E stays \in BOOLEAN : stays = alone' /\ (stays => alone)
  BY DEF Inv, TypeOK, Next, Uplink, RecordUplink, DieInRecordUplink, DieBeforeFirstUplink, Test,
     TriggerTest, NoTest, EnqueueTest, EnqueueFails, Resolution, Resolve, ResolveUnseen, Ack,
     RecordAck, IgnoreAck, Operator, StartRun, AdvanceSegment, StopRun, EnqueueOther, Restart, vars

LEMMA RunStep ==
  ASSUME Inv, [Next]_vars
  PROVE  run' \in [RunIds -> RunRow] /\ alone' \in BOOLEAN /\ \A r \in RunIds : Sound(run'[r], alone')
  <1>0. PICK stays \in BOOLEAN : stays = alone' /\ (stays => alone)
    BY AloneStep
  <1> DEFINE Goal == run' \in [RunIds -> RunRow] /\ \A r \in RunIds : Sound(run'[r], stays)
  <1>1. /\ run \in [RunIds -> RunRow]
        /\ \A r \in RunIds : Sound(run[r], alone)
    BY RowByRow DEF Inv, TypeOK
  <1>r. \A r \in RunIds : run[r] \in RunRow
    BY <1>1
  <1>2. CASE run' = run
    BY <1>0, <1>1, <1>2 DEF Sound
  <1>3. ASSUME NEW r \in RunIds, RecordUplink(r) PROVE Goal
    <2>0. run[r].csv \in Nat /\ run[r].packets \in Nat /\ run[r].firstUplinks \in Nat
      BY <1>1 DEF RunRow
    <2>1. PICK csv \in Nat, packets \in Nat, firstUplinks \in Nat :
            /\ csv = run[r].csv + 1 /\ packets = run[r].packets + 1
            /\ firstUplinks = IF run[r].packets = 0 THEN run[r].firstUplinks + 1
                              ELSE run[r].firstUplinks
      BY <2>0
    <2>2. PICK a : a = [run[r] EXCEPT !.csv = csv]
      OBVIOUS
    <2>3. /\ a \in RunRow /\ a.csv = csv /\ a.firstUplinks = run[r].firstUplinks
          /\ a.acked = run[r].acked /\ a.sent = run[r].sent /\ a.pending_sf = run[r].pending_sf
      BY <1>r, <2>2 DEF RunRow
    <2>4. PICK b : b = [a EXCEPT !.packets = packets]
      OBVIOUS
    <2>5. /\ b \in RunRow /\ b.csv = csv /\ b.packets = packets
          /\ b.acked = run[r].acked /\ b.sent = run[r].sent /\ b.pending_sf = run[r].pending_sf
      BY <2>3, <2>4 DEF RunRow
    <2>6. PICK new : new = [b EXCEPT !.firstUplinks = firstUplinks]
      OBVIOUS
    <2>7. /\ new \in RunRow
          /\ new.csv = csv /\ new.packets = packets /\ new.firstUplinks = firstUplinks
          /\ new.acked = run[r].acked /\ new.sent = run[r].sent /\ new.pending_sf = run[r].pending_sf
      BY <2>5, <2>6 DEF RunRow
    <2>8. run' = [run EXCEPT ![r] = new]
      BY <1>1, <1>3, <2>1, <2>2, <2>4, <2>6 DEF RecordUplink
    <2>9. Sound(new, stays)
      BY <1>0, <1>1, <2>1, <2>7 DEF Sound, RunRow
    <2> QED
      BY <1>0, <2>7, <2>8, <2>9, RowWritten
  <1>4. ASSUME NEW r \in RunIds, DieInRecordUplink(r) PROVE Goal
    <2>1. PICK csv \in Nat : csv = run[r].csv + 1
      BY <1>1 DEF RunRow
    <2>2. PICK new : new = [run[r] EXCEPT !.csv = csv]
      OBVIOUS
    <2>3. run' = [run EXCEPT ![r] = new] /\ ~stays
      BY <1>0, <1>1, <1>4, <2>1, <2>2 DEF DieInRecordUplink
    <2>4. /\ new \in RunRow /\ new.csv = csv /\ new.packets = run[r].packets
          /\ new.firstUplinks = run[r].firstUplinks
          /\ new.acked = run[r].acked /\ new.sent = run[r].sent /\ new.pending_sf = run[r].pending_sf
      BY <1>1, <2>2 DEF RunRow
    <2>5. Sound(new, stays)
      BY <1>0, <1>1, <2>1, <2>3, <2>4 DEF Sound, RunRow
    <2> QED
      BY <1>0, <2>3, <2>4, <2>5, RowWritten
  <1>8. ASSUME NEW r \in RunIds, DieBeforeFirstUplink(r) PROVE Goal
    <2>1. PICK csv \in Nat : csv = run[r].csv + 1
      BY <1>1 DEF RunRow
    <2>2. PICK a : a = [run[r] EXCEPT !.csv = csv]
      OBVIOUS
    <2>3. /\ a \in RunRow /\ a.csv = csv /\ a.firstUplinks = run[r].firstUplinks
          /\ a.acked = run[r].acked /\ a.sent = run[r].sent /\ a.pending_sf = run[r].pending_sf
      BY <1>r, <2>2 DEF RunRow
    <2>4. PICK new : new = [a EXCEPT !.packets = 1]
      OBVIOUS
    <2>5. /\ new \in RunRow /\ new.csv = csv /\ new.packets = 1
          /\ new.firstUplinks = run[r].firstUplinks
          /\ new.acked = run[r].acked /\ new.sent = run[r].sent /\ new.pending_sf = run[r].pending_sf
      BY <2>3, <2>4 DEF RunRow
    <2>6. run' = [run EXCEPT ![r] = new] /\ run[r].packets = 0 /\ ~stays
      <3>1. run[r].packets = 0 /\ ~stays
        BY <1>0, <1>8 DEF DieBeforeFirstUplink
      <3>2. PICK packets : packets = run[r].packets + 1 /\ packets = 1
        BY <3>1
      <3>3. run' = [run EXCEPT ![r] = [[run[r] EXCEPT !.csv = csv] EXCEPT !.packets = packets]]
        BY <1>1, <1>8, <2>1, <3>2 DEF DieBeforeFirstUplink
      <3> QED
        BY <2>2, <2>4, <3>1, <3>2, <3>3
    <2>7. Sound(new, stays)
      BY <1>0, <1>1, <2>1, <2>5, <2>6 DEF Sound, RunRow
    <2> QED
      BY <1>0, <2>5, <2>6, <2>7, RowWritten
  <1>5. ASSUME NEW r \in RunIds, TriggerTest(r) PROVE Goal
    <2>1. PICK sf \in SFs : sf = Schedule[run[r].seg]
      BY <1>1, ScheduleSFs DEF RunRow
    <2>a. run[r].sent \in [SFs -> Nat]
      BY <1>1 DEF RunRow
    <2>b. run[r].sent[sf] + 1 \in Nat
      BY <2>a
    <2>2. PICK sent \in [SFs -> Nat] : sent = [run[r].sent EXCEPT ![sf] = @ + 1]
      BY <2>a, <2>b
    <2>3. PICK new : new = WithSent(run[r], sent, sf)
      OBVIOUS
    <2>4. run' = [run EXCEPT ![r] = new] /\ run[r].pending_sf = None
      BY <1>1, <1>5, <2>1, <2>2, <2>3 DEF TriggerTest, MayTrigger, WithSent
    <2>5. /\ new \in RunRow /\ new.sent = sent /\ new.pending_sf = sf /\ new.acked = run[r].acked
          /\ new.csv = run[r].csv /\ new.packets = run[r].packets
          /\ new.firstUplinks = run[r].firstUplinks
      BY <1>r, <2>3, SentSet
    <2>6. Sound(new, stays)
      BY <1>0, <1>1, <2>2, <2>4, <2>5, ScheduleSFs DEF Sound, RunRow
    <2> QED
      BY <1>0, <2>4, <2>5, <2>6, RowWritten
  <1>6. ASSUME NEW r \in RunIds, RecordAck(r) PROVE Goal
    <2>1. PICK sf \in SFs : sf = run[r].pending_sf
      BY <1>1, <1>6 DEF RecordAck, RunRow
    <2>a. run[r].acked \in [SFs -> Nat]
      BY <1>1 DEF RunRow
    <2>b. run[r].acked[sf] + 1 \in Nat
      BY <2>a
    <2>2. PICK acked \in [SFs -> Nat] :
            acked = [run[r].acked EXCEPT ![sf] = IF ingest.at = "ack" THEN @ + 1 ELSE @]
      BY <2>a, <2>b
    <2>3. PICK new : new = WithAcked(run[r], acked)
      OBVIOUS
    <2>4. run' = [run EXCEPT ![r] = new]
      BY <1>1, <1>6, <2>1, <2>2, <2>3 DEF RecordAck, AckedSf, WithAcked
    <2>5. /\ new \in RunRow /\ new.sent = run[r].sent /\ new.pending_sf = None /\ new.acked = acked
          /\ new.csv = run[r].csv /\ new.packets = run[r].packets
          /\ new.firstUplinks = run[r].firstUplinks
      BY <1>r, <2>3, AckedSet
    <2>6. Sound(new, stays)
      BY <1>0, <1>1, <2>1, <2>2, <2>5, ScheduleSFs DEF Sound, RunRow
    <2> QED
      BY <1>0, <2>4, <2>5, <2>6, RowWritten
  <1>7. ASSUME NEW r \in RunIds, StartRun(r) \/ AdvanceSegment(r) \/ StopRun(r) PROVE Goal
    <2>1. PICK new \in RunRow : /\ run' = [run EXCEPT ![r] = new]
                                /\ new.csv = run[r].csv /\ new.packets = run[r].packets
                                /\ new.firstUplinks = run[r].firstUplinks
                                /\ new.sent = run[r].sent /\ new.acked = run[r].acked
                                /\ new.pending_sf = run[r].pending_sf
      <3>1. CASE AdvanceSegment(r)
        <4> DEFINE new == [run[r] EXCEPT !.seg = @ + 1]
        <4>1. run' = [run EXCEPT ![r] = new] /\ run[r].seg + 1 \in 1..Len(Schedule)
          BY <1>1, <3>1, DownlinkTestAssumption DEF AdvanceSegment, RunRow
        <4>2. new \in RunRow
          BY <1>1, <4>1 DEF RunRow
        <4> QED
          BY <1>1, <4>1, <4>2 DEF RunRow
      <3>2. ASSUME NEW status \in {"running", "done"}, run' = [run EXCEPT ![r].status = status]
            PROVE  \E new \in RunRow : /\ run' = [run EXCEPT ![r] = new]
                                       /\ new.csv = run[r].csv /\ new.packets = run[r].packets
                                       /\ new.firstUplinks = run[r].firstUplinks
                                       /\ new.sent = run[r].sent /\ new.acked = run[r].acked
                                       /\ new.pending_sf = run[r].pending_sf
        <4> DEFINE new == [run[r] EXCEPT !.status = status]
        <4>1. run' = [run EXCEPT ![r] = new] /\ new \in RunRow
          BY <1>1, <3>2 DEF RunRow
        <4> QED
          BY <1>1, <4>1 DEF RunRow
      <3> QED
        BY <1>7, <3>1, <3>2 DEF StartRun, StopRun
    <2>2. Sound(new, stays)
      BY <1>0, <1>1, <2>1 DEF Sound
    <2> QED
      BY <1>0, <2>1, <2>2, RowWritten
  <1> QED
    BY <1>0, <1>2, <1>3, <1>4, <1>5, <1>6, <1>7, <1>8 DEF Next, Uplink, Test, Resolution, Ack, Operator,
       NoTest, EnqueueTest, EnqueueFails, Resolve, ResolveUnseen, IgnoreAck, EnqueueOther, Restart, vars

IngestType == [at: {"idle", "trigger", "enqueue", "ack", "nack"}, count: Nat, dl: Downlink]

LEMMA IngestStep ==
  ASSUME Inv, [Next]_vars
  PROVE  ingest' \in IngestType
  <1> DEFINE Goal == ingest' \in IngestType
  <1>1. ingest \in IngestType /\ run \in [RunIds -> RunRow]
    BY DEF Inv, TypeOK, IngestType
  <1>2. Idle \in IngestType /\ Other \in Downlink
    BY DEF Idle, Other, IngestType, Downlink
  <1>3. CASE ingest' = Idle \/ ingest' = ingest
    BY <1>1, <1>2, <1>3
  <1>4. ASSUME NEW r \in RunIds, RecordUplink(r) PROVE Goal
    <2>1. run[r].packets \in Nat
      BY <1>1 DEF RunRow
    <2>2. run[r].packets + 1 \in Nat
      BY <2>1
    <2>3. ingest' = [at |-> "trigger", count |-> run[r].packets + 1, dl |-> Other]
      BY <1>4 DEF RecordUplink, Idle
    <2> QED
      BY <1>2, <2>2, <2>3 DEF IngestType
  <1>5. ASSUME NEW r \in RunIds, TriggerTest(r) PROVE Goal
    <2>1. PICK sf \in SFs : sf = Schedule[run[r].seg]
      BY <1>1, ScheduleSFs DEF RunRow
    <2>2. ingest' = [at |-> "enqueue", count |-> 0, dl |-> [run |-> r, sf |-> sf]]
      BY <1>5, <2>1 DEF TriggerTest, Idle
    <2> QED
      BY <2>2 DEF IngestType, Downlink
  <1>6. ASSUME NEW acknowledged \in BOOLEAN, Resolve(acknowledged) PROVE Goal
    <2>1. PICK at \in {"ack", "nack"} : ingest' = [at |-> at, count |-> 0, dl |-> Other]
      BY <1>6 DEF Resolve, Idle
    <2> QED
      BY <1>2, <2>1 DEF IngestType
  <1> QED
    BY <1>3, <1>4, <1>5, <1>6 DEF Next, Uplink, Test, Resolution, Ack, Operator, DieInRecordUplink, DieBeforeFirstUplink,
       NoTest, EnqueueTest, EnqueueFails, ResolveUnseen, RecordAck, IgnoreAck, StartRun, AdvanceSegment,
       StopRun, EnqueueOther, Restart, vars

QueueType == queue \in Seq(Downlink) /\ Len(queue) <= MaxQueue /\ answered \in [RunIds -> [SFs -> Nat]]

LEMMA QueueStep ==
  ASSUME Inv, [Next]_vars
  PROVE  QueueType'
  <1>1. queue \in Seq(Downlink) /\ Len(queue) <= MaxQueue /\ answered \in [RunIds -> [SFs -> Nat]]
    BY DEF Inv, TypeOK
  <1>2. CASE UNCHANGED <<queue, answered>>
    BY <1>1, <1>2 DEF QueueType
  <1>3. ASSUME NEW dl \in Downlink, Len(queue) < MaxQueue, queue' = Append(queue, dl),
               UNCHANGED answered
        PROVE  QueueType'
    BY <1>1, <1>3, DownlinkTestAssumption DEF QueueType
  <1>4. ASSUME NEW acknowledged \in BOOLEAN, queue # <<>>, queue' = Tail(queue),
               Answered(Head(queue), acknowledged)
        PROVE  QueueType'
    <2>1. queue' \in Seq(Downlink) /\ Len(queue') <= MaxQueue
      BY <1>1, <1>4, DownlinkTestAssumption
    <2>2. PICK dl \in Downlink : dl = Head(queue)
      BY <1>1, <1>4
    <2>3. CASE dl.run \in RunIds /\ dl.sf \in SFs
      <3>1. answered[dl.run][dl.sf] + 1 \in Nat
        BY <1>1, <2>3
      <3>2. [answered EXCEPT ![dl.run][dl.sf] = @ + 1] \in [RunIds -> [SFs -> Nat]]
        BY <1>1, <2>3, <3>1
      <3> QED
        BY <1>1, <1>4, <2>1, <2>2, <3>2 DEF QueueType, Answered
    <2>4. CASE dl.run \notin RunIds \/ dl.sf \notin SFs
      <3>1. [answered EXCEPT ![dl.run][dl.sf] = @ + 1] \in [RunIds -> [SFs -> Nat]]
        BY <1>1, <2>4
      <3> QED
        BY <1>1, <1>4, <2>1, <2>2, <3>1 DEF QueueType, Answered
    <2> QED
      BY <2>3, <2>4
  <1>5. CASE EnqueueTest
    BY <1>3, <1>5 DEF EnqueueTest, Inv, TypeOK
  <1>6. CASE EnqueueOther
    BY <1>3, <1>6 DEF EnqueueOther, Other, Downlink
  <1>7. CASE Resolution
    BY <1>4, <1>7 DEF Resolution, Resolve, ResolveUnseen
  <1> QED
    BY <1>2, <1>5, <1>6, <1>7 DEF Next, Uplink, RecordUplink, DieInRecordUplink, DieBeforeFirstUplink, Test, TriggerTest,
       NoTest, EnqueueFails, Ack, RecordAck, IgnoreAck, Operator, StartRun, AdvanceSegment, StopRun,
       Restart, vars

LEMMA InvStep == Inv /\ [Next]_vars => Inv'
  <1> SUFFICES ASSUME Inv, [Next]_vars PROVE Inv'
    OBVIOUS
  <1>1. AckedWithinSent' /\ CsvCoversPackets'
    BY RunStep DEF AckedWithinSent, CsvCoversPackets, Sound
  <1>2. TypeOK'
    BY RunStep, IngestStep, QueueStep DEF TypeOK, IngestType, QueueType
  <1> QED
    BY <1>1, <1>2 DEF Inv

LEMMA Invariance == Spec => []Inv
  BY InitInv, InvStep, PTL DEF Spec

(***************************************************************************)
(* One test at a time, while nothing else is sent and nothing fails: it is *)
(* with the ingest thread, or in ChirpStack's queue, or its answer is in   *)
(* hand -- and an answer in hand that acknowledges it is not yet counted.  *)
(***************************************************************************)
Test1(sf) == [run |-> 1, sf |-> sf]

UnderTest(sf) ==
  \/ queue = <<>> /\ ingest.at = "enqueue" /\ ingest.dl = Test1(sf)
  \/ queue = <<Test1(sf)>> /\ ingest.at \in {"idle", "trigger"}
  \/ queue = <<>> /\ ingest.at = "nack"
  \/ queue = <<>> /\ ingest.at = "ack" /\ run[1].acked[sf] + 1 <= answered[1][sf]

OneTest ==
  /\ run[1].status = "absent" => run[1].pending_sf = None
  /\ run[1].status # "done" =>
       \/ run[1].pending_sf = None /\ queue = <<>> /\ ingest.at \in {"idle", "trigger"}
       \/ run[1].pending_sf \in SFs /\ UnderTest(run[1].pending_sf)

Lonely ==
  /\ \A r \in RunIds \ {1} : run[r].status = "absent" /\ run[r].acked = Zero
  /\ 1 \in RunIds => OneTest /\ \A sf \in SFs : run[1].acked[sf] <= answered[1][sf]

(* What most steps leave alone in every row. *)
SameRows == \A q \in RunIds : /\ run'[q].pending_sf = run[q].pending_sf
                              /\ run'[q].acked = run[q].acked

LEMMA Recording ==
  ASSUME Inv, NEW r \in RunIds, RecordUplink(r)
  PROVE  SameRows /\ \A q \in RunIds : run'[q].status = run[q].status
  BY DEF Inv, TypeOK, RunRow, RecordUplink, SameRows

LEMMA Advancing ==
  ASSUME Inv, NEW r \in RunIds, AdvanceSegment(r)
  PROVE  SameRows /\ \A q \in RunIds : run'[q].status = run[q].status
  BY DEF Inv, TypeOK, RunRow, AdvanceSegment, SameRows

LEMMA Starting ==
  ASSUME Inv, NEW r \in RunIds, StartRun(r), alone'
  PROVE  /\ SameRows /\ r = 1 /\ run[1].status = "absent" /\ run'[1].status = "running"
         /\ \A q \in RunIds \ {1} : run'[q].status = run[q].status
  <1>1. run \in [RunIds -> RunRow] /\ r = 1 /\ run[r].status = "absent"
    <2>1. \A q \in RunIds : q >= 1
      BY DEF RunIds
    <2> QED
      BY DEF Inv, TypeOK, StartRun
  <1>2. PICK new : new = [run[r] EXCEPT !.status = "running"]
    OBVIOUS
  <1>3. /\ new.pending_sf = run[r].pending_sf /\ new.acked = run[r].acked /\ new.status = "running"
    BY <1>1, <1>2 DEF RunRow
  <1>4. run' = [run EXCEPT ![r] = new]
    BY <1>2 DEF StartRun
  <1> QED
    BY <1>1, <1>3, <1>4 DEF SameRows

LEMMA Stopping ==
  ASSUME Inv, NEW r \in RunIds, StopRun(r)
  PROVE  /\ SameRows /\ r \in Active /\ run'[r].status = "done"
         /\ \A q \in RunIds \ {r} : run'[q].status = run[q].status
  BY DEF Inv, TypeOK, RunRow, StopRun, SameRows

(* Answers only add to what the device acknowledged. *)
LEMMA AnsweredGrows ==
  ASSUME Inv, NEW acknowledged \in BOOLEAN, Resolve(acknowledged)
  PROVE  \A r \in RunIds, sf \in SFs :
           /\ answered'[r][sf] \in Nat /\ answered[r][sf] <= answered'[r][sf]
           /\ acknowledged /\ Head(queue) = [run |-> r, sf |-> sf]
                => answered'[r][sf] = answered[r][sf] + 1
  <1>1. answered \in [RunIds -> [SFs -> Nat]] /\ queue # <<>> /\ Answered(Head(queue), acknowledged)
    BY DEF Inv, TypeOK, Resolve
  <1>2. PICK dl : dl = Head(queue)
    OBVIOUS
  <1>3. CASE answered' = answered /\ ~(acknowledged /\ dl # Other)
    <2>1. \A r \in RunIds : r # None
      BY DEF RunIds, None
    <2>2. \A r \in RunIds, sf \in SFs : acknowledged => dl # [run |-> r, sf |-> sf]
      BY <1>3, <2>1 DEF Other
    <2>3. \A r \in RunIds, sf \in SFs : answered[r][sf] \in Nat /\ answered'[r][sf] = answered[r][sf]
      BY <1>1, <1>3
    <2>4. \A r \in RunIds, sf \in SFs : answered'[r][sf] \in Nat /\ answered[r][sf] <= answered'[r][sf]
      BY <2>3
    <2> QED
      BY <1>2, <2>2, <2>4, Zenon
  <1>4. CASE answered' = [answered EXCEPT ![dl.run][dl.sf] = @ + 1]
    <2> SUFFICES ASSUME NEW r \in RunIds, NEW sf \in SFs
                 PROVE  /\ answered'[r][sf] \in Nat /\ answered[r][sf] <= answered'[r][sf]
                        /\ acknowledged /\ dl = [run |-> r, sf |-> sf]
                             => answered'[r][sf] = answered[r][sf] + 1
      BY <1>2
    <2>1. CASE dl.run = r /\ dl.sf = sf
      BY <1>1, <1>4, <2>1
    <2>2. CASE ~(dl.run = r /\ dl.sf = sf)
      BY <1>1, <1>4, <2>2
    <2> QED
      BY <2>1, <2>2
  <1> QED
    BY <1>1, <1>2, <1>3, <1>4 DEF Answered

LEMMA LonelyStep ==
  ASSUME Inv, Lonely, alone, [Next]_vars, alone'
  PROVE  Lonely'
  <1>1. /\ run \in [RunIds -> RunRow] /\ ingest \in IngestType /\ queue \in Seq(Downlink)
        /\ answered \in [RunIds -> [SFs -> Nat]]
    BY DEF Inv, TypeOK, IngestType
  <1>2. \A r \in Active : r = 1
    BY DEF Active, Lonely
  <1>3. CASE UNCHANGED vars
    BY <1>3 DEF vars, Lonely, OneTest, UnderTest
  <1>4. ASSUME NEW r \in RunIds, RecordUplink(r) PROVE Lonely'
    <2>1. ingest.at = "idle" /\ ingest'.at = "trigger" /\ UNCHANGED <<queue, answered>>
      BY <1>4 DEF RecordUplink, Idle
    <2> QED
      BY <1>4, <2>1, Recording DEF Lonely, OneTest, UnderTest, SameRows
  <1>5. ASSUME NEW r \in RunIds, AdvanceSegment(r) PROVE Lonely'
    <2>1. UNCHANGED <<ingest, queue, answered>>
      BY <1>5 DEF AdvanceSegment
    <2> QED
      BY <1>5, <2>1, Advancing DEF Lonely, OneTest, UnderTest, SameRows
  <1>6. ASSUME NEW r \in RunIds, StartRun(r) PROVE Lonely'
    <2>1. UNCHANGED <<ingest, queue, answered>>
      BY <1>6 DEF StartRun
    <2> QED
      BY <1>6, <2>1, Starting DEF Lonely, OneTest, UnderTest, SameRows
  <1>7. ASSUME NEW r \in RunIds, StopRun(r) PROVE Lonely'
    <2>1. UNCHANGED <<ingest, queue, answered>>
      BY <1>7 DEF StopRun
    <2> QED
      BY <1>2, <1>7, <2>1, Stopping DEF Lonely, OneTest, UnderTest, SameRows
  <1>8. ASSUME NEW r \in RunIds, TriggerTest(r) PROVE Lonely'
    <2>1. PICK sf \in SFs : sf = Schedule[run[r].seg]
      BY <1>1, ScheduleSFs DEF RunRow
    <2>2. /\ r = 1 /\ run[1].pending_sf = None /\ ingest.at = "trigger" /\ run[1].status = "running"
          /\ UNCHANGED <<queue, answered>>
      BY <1>2, <1>8 DEF TriggerTest, MayTrigger, Active
    <2>3. run'[1].pending_sf = sf /\ run'[1].acked = run[1].acked /\ run'[1].status = "running"
      BY <1>1, <1>8, <2>1, <2>2 DEF TriggerTest, RunRow
    <2>4. \A q \in RunIds \ {1} : run'[q] = run[q]
      BY <1>1, <1>8, <2>2 DEF TriggerTest
    <2>5. ingest'.at = "enqueue" /\ ingest'.dl = Test1(sf)
      BY <1>8, <2>1, <2>2 DEF TriggerTest, Idle, Test1
    <2> QED
      BY <2>2, <2>3, <2>4, <2>5, ScheduleSFs DEF Lonely, OneTest, UnderTest
  <1>9. CASE NoTest
    BY <1>9 DEF NoTest, Idle, Lonely, OneTest, UnderTest
  <1>10. CASE EnqueueTest
    <2>1. /\ ingest.at = "enqueue" /\ queue' = Append(queue, ingest.dl) /\ ingest'.at = "idle"
          /\ UNCHANGED <<run, answered>>
      BY <1>10 DEF EnqueueTest, Idle
    <2>2. ASSUME NEW sf \in SFs, queue = <<>>, ingest.dl = Test1(sf) PROVE queue' = <<Test1(sf)>>
      BY <2>1, <2>2
    <2> QED
      BY <2>1, <2>2 DEF Lonely, OneTest, UnderTest
  <1>11. ASSUME NEW acknowledged \in BOOLEAN, Resolve(acknowledged) PROVE Lonely'
    <2>1. /\ ingest.at = "idle" /\ queue # <<>> /\ queue' = Tail(queue) /\ UNCHANGED run
          /\ ingest'.at = IF acknowledged THEN "ack" ELSE "nack"
      BY <1>11 DEF Resolve, Idle
    <2>2. \A sf \in SFs : 1 \in RunIds => run'[1].acked[sf] <= answered'[1][sf]
      <3> SUFFICES ASSUME NEW sf \in SFs, 1 \in RunIds PROVE run'[1].acked[sf] <= answered'[1][sf]
        OBVIOUS
      <3>1. run[1].acked[sf] \in Nat /\ answered[1][sf] \in Nat
        BY <1>1 DEF RunRow
      <3>2. answered'[1][sf] \in Nat /\ answered[1][sf] <= answered'[1][sf]
        BY <1>11, AnsweredGrows
      <3> QED
        BY <2>1, <3>1, <3>2 DEF Lonely
    <2>3. ASSUME 1 \in RunIds, run[1].status # "done" PROVE OneTest'
      <3>1. PICK sf \in SFs : run[1].pending_sf = sf /\ queue = <<Test1(sf)>>
        BY <2>1, <2>3 DEF Lonely, OneTest, UnderTest
      <3>a. run[1].status # "absent"
        BY <2>3, <3>1, ScheduleSFs DEF Lonely, OneTest
      <3>2. queue' = <<>> /\ Head(queue) = Test1(sf)
        BY <2>1, <3>1
      <3>3. run[1].acked[sf] \in Nat /\ answered[1][sf] \in Nat
        BY <1>1, <2>3 DEF RunRow
      <3>4. acknowledged => run'[1].acked[sf] + 1 <= answered'[1][sf]
        <4>1. acknowledged => answered'[1][sf] = answered[1][sf] + 1
          BY <1>11, <2>3, <3>2, AnsweredGrows DEF Test1
        <4> QED
          BY <2>1, <2>3, <3>3, <4>1 DEF Lonely
      <3> QED
        BY <2>1, <3>1, <3>a, <3>2, <3>4 DEF OneTest, UnderTest
    <2>4. 1 \in RunIds => OneTest'
      BY <2>1, <2>3 DEF OneTest
    <2> QED
      BY <2>1, <2>2, <2>4 DEF Lonely
  <1>12. ASSUME NEW r \in RunIds, RecordAck(r) PROVE Lonely'
    <2>1. /\ r = 1 /\ run[1].status = "running" /\ run[1].pending_sf # None
          /\ ingest.at \in {"ack", "nack"} /\ ingest'.at = "idle" /\ UNCHANGED <<queue, answered>>
      BY <1>2, <1>12 DEF RecordAck, Active, Idle
    <2>2. PICK sf \in SFs : /\ sf = run[1].pending_sf /\ queue = <<>>
                            /\ ingest.at = "ack" => run[1].acked[sf] + 1 <= answered[1][sf]
      BY <2>1 DEF Lonely, OneTest, UnderTest
    <2>3. PICK got : got = IF ingest.at = "ack" THEN run[1].acked[sf] + 1 ELSE run[1].acked[sf]
      OBVIOUS
    <2>4. /\ run'[1].pending_sf = None
          /\ run'[1].acked = [run[1].acked EXCEPT ![sf] = got]
      <3>1. run[1].acked \in [SFs -> Nat] /\ run[1] \in RunRow
        BY <1>1, <1>12, <2>1 DEF RunRow
      <3>2. run' = [run EXCEPT ![1] = WithAcked(run[1], [run[1].acked EXCEPT ![sf] = got])]
        BY <1>1, <1>12, <2>1, <2>2, <2>3 DEF RecordAck, AckedSf, WithAcked
      <3> QED
        BY <1>1, <2>1, <3>2 DEF WithAcked, RunRow
    <2>5. \A q \in RunIds \ {1} : run'[q] = run[q]
      BY <1>1, <1>12, <2>1 DEF RecordAck
    <2>6. \A s \in SFs : run'[1].acked[s] <= answered'[1][s]
      <3> SUFFICES ASSUME NEW s \in SFs PROVE run'[1].acked[s] <= answered[1][s]
        BY <2>1
      <3>0. run[1].acked \in [SFs -> Nat]
        BY <1>1, <1>12, <2>1 DEF RunRow
      <3>1. run[1].acked \in [SFs -> Nat] /\ run[1].acked[s] <= answered[1][s]
        BY <2>1, <3>0 DEF Lonely
      <3>2. CASE s = sf
        BY <2>2, <2>3, <2>4, <3>1, <3>2
      <3>3. CASE s # sf
        BY <2>4, <3>1, <3>3
      <3> QED
        BY <3>2, <3>3
    <2> QED
      BY <2>1, <2>2, <2>4, <2>5, <2>6 DEF Lonely, OneTest
  <1>13. CASE IgnoreAck
    <2>1. /\ ingest.at \in {"ack", "nack"} /\ ingest'.at = "idle" /\ UNCHANGED <<run, queue, answered>>
      BY <1>13 DEF IgnoreAck, Idle
    <2>2. ASSUME 1 \in RunIds PROVE run[1].status = "done" \/ run[1].status = "absent"
      <3>1. run[1].status \in {"absent", "running", "done"}
        BY <1>1, <2>2 DEF RunRow
      <3>2. CASE run[1].status = "running"
        BY <1>13, <2>1, <2>2, <3>2, ScheduleSFs DEF IgnoreAck, Active, Lonely, OneTest, UnderTest
      <3> QED
        BY <3>1, <3>2
    <2> QED
      BY <2>1, <2>2 DEF Lonely, OneTest, UnderTest
  <1> QED
    BY <1>3, <1>4, <1>5, <1>6, <1>7, <1>8, <1>9, <1>10, <1>11, <1>12, <1>13
    DEF Next, Uplink, Test, Resolution, Ack, Operator, DieInRecordUplink, DieBeforeFirstUplink,
        EnqueueFails, ResolveUnseen, EnqueueOther, Restart

LEMMA LonelyInvariance == Spec => [](alone => Lonely)
  <1>1. Init => Lonely
    <2> SUFFICES ASSUME Init PROVE Lonely
      OBVIOUS
    <2>1. \A r \in RunIds : run[r].status = "absent" /\ run[r].acked = Zero /\ run[r].pending_sf = None
      BY DEF Init
    <2>2. queue = <<>> /\ ingest.at = "idle" /\ \A r \in RunIds : answered[r] = Zero
      BY DEF Init, Idle
    <2>3. \A sf \in SFs : Zero[sf] <= Zero[sf]
      BY DEF Zero
    <2> QED
      BY <2>1, <2>2, <2>3 DEF Lonely, OneTest
  <1>2. Inv /\ (alone => Lonely) /\ [Next]_vars => (alone => Lonely)'
    <2> SUFFICES ASSUME Inv, alone => Lonely, [Next]_vars, alone' PROVE Lonely'
      OBVIOUS
    <2>1. alone
      BY AloneStep
    <2> QED
      BY <2>1, LonelyStep
  <1> QED
    BY <1>1, <1>2, Invariance, PTL DEF Spec

(* Every row keeps its types, and no run goes past its last segment.       *)
THEOREM TypeCorrect == Spec => []TypeOK
  BY Invariance, PTL DEF Inv

(***************************************************************************)
(* No SF ever has more acknowledged than sent tests, whichever acks the    *)
(* ingest thread sees and in whatever order: record_downlink_test_ack      *)
(* counts at most once per test that maybe_trigger_downlink_test counted.  *)
(***************************************************************************)
THEOREM AckedNeverExceedsSent == Spec => []AckedWithinSent
  BY Invariance, PTL DEF Inv

(***************************************************************************)
(* The CSV file never has fewer rows than the packets a run counts, also   *)
(* across crashes; undisturbed it has exactly as many, and first_uplink is *)
(* recorded exactly once.                                                  *)
(***************************************************************************)
THEOREM CsvHasEveryPacket == Spec => []CsvCoversPackets
  BY Invariance, PTL DEF Inv

(***************************************************************************)
(* An acked test is one the device acknowledged, of that run and SF, as    *)
(* long as the run is the device's first and nothing else is sent: each    *)
(* ack then finds the test it answers pending, over any segment change.    *)
(***************************************************************************)
THEOREM AcksAreAttributed == Spec => []AloneAcksAreTestAcks
  <1>1. Inv /\ (alone => Lonely) => AloneAcksAreTestAcks
    <2> SUFFICES ASSUME Inv, Lonely, NEW r \in RunIds, NEW sf \in SFs
                 PROVE  run[r].acked[sf] <= answered[r][sf]
      BY DEF AloneAcksAreTestAcks, AcksAreTestAcks
    <2>1. CASE r = 1
      BY <2>1 DEF Lonely
    <2>2. CASE r # 1
      <3>1. run[r].acked = Zero /\ Zero[sf] = 0
        BY <2>2 DEF Lonely, Zero
      <3>2. answered[r][sf] \in Nat
        BY DEF Inv, TypeOK
      <3> QED
        BY <3>1, <3>2
    <2> QED
      BY <2>1, <2>2
  <1> QED
    BY <1>1, Invariance, LonelyInvariance, PTL

(***************************************************************************)
(* Then no two tests are ever under way, and a pending one is with         *)
(* ChirpStack or its answer is in hand.                                    *)
(***************************************************************************)
THEOREM TestsDoNotPileUp == Spec => []NeverPileUp
  <1>1. Inv /\ (alone => Lonely) => NeverPileUp
    <2> SUFFICES ASSUME Inv, Lonely, NEW r \in Active
                 PROVE  /\ \A i, j \in TestsOf(r) : i = j
                        /\ run[r].pending_sf # None => TestsOf(r) # {} \/ ingest.at \in {"ack", "nack"}
      BY DEF NeverPileUp
    <2>1. r = 1 /\ 1 \in RunIds /\ run[1].status = "running"
      BY DEF Active, Lonely
    <2>2. CASE run[1].pending_sf = None /\ queue = <<>> /\ ingest.at \in {"idle", "trigger"}
      <3>1. UnderWay = <<>>
        BY <2>2 DEF UnderWay
      <3> QED
        BY <2>1, <2>2, <3>1 DEF TestsOf
    <2>3. ASSUME NEW sf \in SFs, UnderTest(sf)
          PROVE  /\ \A i, j \in TestsOf(r) : i = j
                 /\ TestsOf(r) # {} \/ ingest.at \in {"ack", "nack"}
      <3>1. CASE UnderWay = <<Test1(sf)>>
        BY <2>1, <3>1 DEF TestsOf, Test1
      <3>2. CASE UnderWay = <<>> /\ ingest.at \in {"ack", "nack"}
        BY <3>2 DEF TestsOf
      <3>3. CASE queue = <<>> /\ ingest.at = "enqueue" /\ ingest.dl = Test1(sf)
        <4>1. UnderWay = <<>> \o <<Test1(sf)>>
          BY <3>3 DEF UnderWay
        <4> QED
          BY <3>1, <4>1
      <3>4. CASE queue = <<Test1(sf)>> /\ ingest.at \in {"idle", "trigger"}
        <4>1. UnderWay = <<Test1(sf)>> \o <<>>
          BY <3>4 DEF UnderWay
        <4> QED
          BY <3>1, <4>1
      <3>5. CASE queue = <<>> /\ ingest.at \in {"ack", "nack"}
        <4>1. UnderWay = <<>> \o <<>>
          BY <3>5 DEF UnderWay
        <4> QED
          BY <3>2, <3>5, <4>1
      <3> QED
        BY <2>3, <3>3, <3>4, <3>5 DEF UnderTest
    <2> QED
      BY <2>1, <2>2, <2>3 DEF Lonely, OneTest
  <1> QED
    BY <1>1, Invariance, LonelyInvariance, PTL

-----------------------------------------------------------------------------
(***************************************************************************)
(* The cadence.  A run is never ahead of its packets by more than the test *)
(* it may owe to the run before; between record_uplink_for_run and         *)
(* maybe_trigger_downlink_test it is behind by one packet, unless it has   *)
(* been started in between and has no test yet.                            *)
(***************************************************************************)
LEMMA KthsOfPackets ==
  ASSUME NEW k \in Nat \ {0}, NEW c \in Nat, NEW p \in Nat, k * c <= p
  PROVE  c <= p \div k
  <1>1. PICK q \in Int, rem \in 0..(k - 1) : q = p \div k /\ p = k * q + rem
    OBVIOUS
  <1>2. ASSUME c > q PROVE FALSE
    <2>1. c - q - 1 \in Nat
      BY <1>2
    <2>2. k * (c - q - 1) \in Nat
      BY <2>1
    <2>3. k * (c - q - 1) = k * c - k * q - k
      OBVIOUS
    <2>4. k * c \in Int /\ k * q \in Int
      OBVIOUS
    <2> QED
      BY <1>1, <2>2, <2>3, <2>4
  <1> QED
    BY <1>1, <1>2

(* A count that is behind a multiple of k is behind by k. *)
LEMMA BehindByK ==
  ASSUME NEW k \in Nat \ {0}, NEW c \in Nat, NEW p \in Nat, NEW slack \in {0, k},
         p % k = 0, k * c <= p - 1 + slack
  PROVE  k * (c + 1) <= p + slack
  <1>1. PICK q \in Int : p = k * q
    OBVIOUS
  <1>2. PICK d \in Int : slack = k * d
    <2>1. CASE slack = 0
      BY <2>1, k * 0 = 0
    <2>2. CASE slack = k
      BY <2>2, k * 1 = k
    <2> QED
      BY <2>1, <2>2
  <1>3. k * (q + d) = k * q + k * d /\ k * (c + 1) = k * c + k
    OBVIOUS
  <1>4. CASE c >= q + d
    <2>1. c - (q + d) \in Nat
      BY <1>4
    <2>2. k * (c - (q + d)) \in Nat
      BY <2>1
    <2>3. k * (c - (q + d)) = k * c - k * (q + d)
      OBVIOUS
    <2>4. k * c \in Int /\ k * q \in Int /\ k * d \in Int
      OBVIOUS
    <2> QED
      BY <1>1, <1>2, <1>3, <2>2, <2>3, <2>4
  <1>5. CASE c < q + d
    <2>1. q + d - c - 1 \in Nat
      BY <1>5
    <2>2. k * (q + d - c - 1) \in Nat
      BY <2>1
    <2>3. k * (q + d - c - 1) = k * (q + d) - k * c - k
      OBVIOUS
    <2>4. k * c \in Int /\ k * q \in Int /\ k * d \in Int
      OBVIOUS
    <2> QED
      BY <1>1, <1>2, <1>3, <2>2, <2>3, <2>4
  <1> QED
    BY <1>4, <1>5

Started(r) == run[r].status # "absent"
Slack(r)   == IF r = 1 THEN 0 ELSE K
Count(row) == Cardinality(TestsOfRow(row))

OneActive ==
  /\ \A q, r \in Active : q = r
  /\ \A r \in RunIds : Started(r) => Started(1)
  /\ ingest.at = "trigger" => 1 \in RunIds /\ Started(1)

Paced(r) ==
  /\ IsFiniteSet(TestsOfRow(run[r]))
  /\ ~Started(r) => Count(run[r]) = 0
  /\ K * Count(run[r]) <= run[r].packets + Slack(r)
  /\ ingest.at = "trigger" /\ r \in Active =>
       \/ ingest.count = run[r].packets /\ K * Count(run[r]) <= run[r].packets - 1 + Slack(r)
       \/ r # 1 /\ Count(run[r]) = 0

Cadence == OneActive /\ \A r \in RunIds : Paced(r)

LEMMA CadenceHolds == Inv /\ Cadence => TestCadence
  <1> SUFFICES ASSUME Inv, Cadence, NEW r \in RunIds
               PROVE  Count(run[r]) <= run[r].packets \div K + (IF r = 1 THEN 0 ELSE 1)
    BY DEF TestCadence, Count
  <1>1. PICK c \in Nat : c = Count(run[r])
    BY FS_CardinalityType DEF Cadence, Paced, Count
  <1>2. PICK p \in Nat : p = run[r].packets
    BY DEF Inv, TypeOK, RunRow
  <1>3. K * c <= p + Slack(r) /\ K \in Nat \ {0}
    BY <1>1, <1>2, DownlinkTestAssumption DEF Cadence, Paced
  <1>4. CASE r = 1
    <2>1. K * c <= p
      BY <1>2, <1>3, <1>4 DEF Slack
    <2>2. c <= p \div K
      BY <1>3, <2>1, KthsOfPackets
    <2>3. p \div K \in Int
      BY <1>3
    <2> QED
      BY <1>1, <1>2, <1>4, <2>2, <2>3
  <1>5. CASE r # 1
    <2>1. K * c <= p + K
      BY <1>3, <1>5 DEF Slack
    <2>2. p \div K \in Nat
      BY <1>3
    <2>3. CASE c = 0
      BY <1>1, <1>2, <1>5, <2>2, <2>3
    <2>4. CASE c # 0
      <3>1. PICK b \in Nat : c = b + 1
        BY <2>4, c - 1 \in Nat
      <3>2. K * c = K * b + K /\ K * b \in Int
        BY <1>3, <3>1
      <3>3. K * b <= p
        BY <1>3, <2>1, <3>2
      <3>4. b <= p \div K
        BY <1>3, <3>3, KthsOfPackets
      <3> QED
        BY <1>1, <1>2, <1>5, <2>2, <3>1, <3>4
    <2> QED
      BY <2>3, <2>4
  <1> QED
    BY <1>4, <1>5

LEMMA NoTests == ASSUME NEW row, row.sent = Zero PROVE TestsOfRow(row) = {}
  <1>1. \A sf \in SFs : {sf} \X (1..Zero[sf]) = {}
    BY DEF Zero
  <1> QED
    BY <1>1 DEF TestsOfRow

LEMMA CadenceInit == Init => Cadence
  <1> SUFFICES ASSUME Init PROVE Cadence
    OBVIOUS
  <1>1. /\ ingest.at = "idle"
        /\ \A r \in RunIds : run[r].status = "absent" /\ run[r].sent = Zero /\ run[r].packets = 0
    BY DEF Init, Idle
  <1>2. \A r \in RunIds : IsFiniteSet(TestsOfRow(run[r])) /\ Count(run[r]) = 0
    BY <1>1, NoTests, FS_EmptySet DEF Count
  <1>3. \A r \in RunIds : K * 0 <= 0 + Slack(r)
    BY DownlinkTestAssumption DEF Slack
  <1> QED
    BY <1>1, <1>2, <1>3 DEF Cadence, OneActive, Paced, Active, Started

LEMMA FirstRun == ASSUME NEW r \in RunIds PROVE 1 \in RunIds
  BY DownlinkTestAssumption DEF RunIds

(* A step that sends no test keeps the pace. *)
SameTests == \A q \in RunIds : /\ run'[q].sent = run[q].sent
                               /\ run[q].packets <= run'[q].packets
SameStatus == \A q \in RunIds : run'[q].status = run[q].status

LEMMA TestsSame ==
  ASSUME Inv, Cadence, SameTests, NEW r \in RunIds
  PROVE  /\ TestsOfRow(run'[r]) = TestsOfRow(run[r]) /\ IsFiniteSet(TestsOfRow(run'[r]))
         /\ Count(run'[r]) = Count(run[r]) /\ Count(run[r]) \in Nat
         /\ K * Count(run[r]) \in Int
  <1>1. TestsOfRow(run'[r]) = TestsOfRow(run[r])
    BY DEF SameTests, TestsOfRow
  <1>2. IsFiniteSet(TestsOfRow(run[r]))
    BY DEF Cadence, Paced
  <1>3. Count(run[r]) \in Nat
    BY <1>2, FS_CardinalityType DEF Count
  <1> QED
    BY <1>1, <1>2, <1>3, DownlinkTestAssumption DEF Count

LEMMA PaceKept ==
  ASSUME Inv, Cadence, run' \in [RunIds -> RunRow], SameTests, SameStatus,
         \/ ingest'.at # "trigger"
         \/ ingest' = ingest /\ \A q \in RunIds : run'[q].packets = run[q].packets
  PROVE  Cadence'
  <1>1. OneActive'
    BY FirstRun DEF Cadence, OneActive, Active, Started, SameStatus
  <1>2. ASSUME NEW r \in RunIds PROVE Paced(r)'
    <2>1. run[r].packets \in Nat /\ run'[r].packets \in Nat /\ run[r].packets <= run'[r].packets
      BY DEF Inv, TypeOK, RunRow, SameTests
    <2>2. /\ IsFiniteSet(TestsOfRow(run'[r])) /\ Count(run'[r]) = Count(run[r])
          /\ K * Count(run[r]) \in Int /\ Slack(r) \in Nat /\ Started(r)' = Started(r)
          /\ r \in Active' <=> r \in Active
      BY TestsSame, DownlinkTestAssumption DEF Slack, SameStatus, Started, Active
    <2>3. Paced(r)
      BY DEF Cadence
    <2>4. K * Count(run'[r]) <= run'[r].packets + Slack(r)
      BY <2>1, <2>2, <2>3 DEF Paced
    <2> QED
      BY <2>2, <2>3, <2>4 DEF Paced, Slack, Count
  <1> QED
    BY <1>1, <1>2 DEF Cadence

(* One test more. *)
LEMMA TestAdded ==
  ASSUME NEW row \in RunRow, NEW new \in RunRow, NEW sf \in SFs,
         new.sent = [row.sent EXCEPT ![sf] = @ + 1], IsFiniteSet(TestsOfRow(row))
  PROVE  IsFiniteSet(TestsOfRow(new)) /\ Count(new) = Count(row) + 1
  <1>1. row.sent \in [SFs -> Nat]
    BY DEF RunRow
  <1>2. PICK n \in Nat : n = row.sent[sf]
    BY <1>1
  <1>3. 1..(n + 1) = (1..n) \cup {n + 1}
    BY <1>2
  <1>4. \A s \in SFs : new.sent[s] = IF s = sf THEN n + 1 ELSE row.sent[s]
    BY <1>1, <1>2
  <1>5. \A s, m : <<s, m>> \in TestsOfRow(row) <=> s \in SFs /\ m \in 1..row.sent[s]
    BY DEF TestsOfRow
  <1>6. \A s, m : <<s, m>> \in TestsOfRow(new) <=> s \in SFs /\ m \in 1..new.sent[s]
    BY DEF TestsOfRow
  <1>7. /\ \A t \in TestsOfRow(row) : t = <<t[1], t[2]>>
        /\ \A t \in TestsOfRow(new) : t = <<t[1], t[2]>>
    BY DEF TestsOfRow
  <1>8. <<sf, n + 1>> \notin TestsOfRow(row)
    BY <1>2, <1>5
  <1>9. TestsOfRow(new) = TestsOfRow(row) \cup {<<sf, n + 1>>}
    <2>1. \A s, m : <<s, m>> \in TestsOfRow(new) <=> <<s, m>> \in TestsOfRow(row) \/ (s = sf /\ m = n + 1)
      BY <1>2, <1>3, <1>4, <1>5, <1>6
    <2> QED
      BY <1>7, <2>1
  <1> QED
    BY <1>8, <1>9, FS_AddElement DEF Count

LEMMA PaceTriggered ==
  ASSUME Inv, Cadence, run' \in [RunIds -> RunRow], NEW r \in RunIds, TriggerTest(r)
  PROVE  Cadence'
  <1>1. run \in [RunIds -> RunRow] /\ run[r] \in RunRow /\ run'[r] \in RunRow
    BY DEF Inv, TypeOK
  <1>2. PICK sf \in SFs : sf = Schedule[run[r].seg]
    BY <1>1, ScheduleSFs DEF RunRow
  <1>3. PICK sent : sent = [run[r].sent EXCEPT ![sf] = @ + 1]
    OBVIOUS
  <1>4. sent \in [SFs -> Nat]
    BY <1>1, <1>3 DEF RunRow
  <1>5. /\ ingest.at = "trigger" /\ r \in Active /\ ingest.count % K = 0 /\ ingest'.at = "enqueue"
        /\ run' = [run EXCEPT ![r] = WithSent(run[r], sent, sf)]
    BY <1>1, <1>2, <1>3 DEF TriggerTest, WithSent, Idle
  <1>6. \A q \in RunIds \ {r} : run'[q] = run[q]
    BY <1>1, <1>5
  <1>7. run'[r] = WithSent(run[r], sent, sf)
    BY <1>1, <1>5
  <1>8. run'[r].sent = sent /\ run'[r].packets = run[r].packets
    BY <1>1, <1>4, <1>7, SentSet
  <1>9. run'[r].status = run[r].status
    BY <1>1, <1>4, <1>7 DEF WithSent, RunRow
  <1>10. OneActive'
    BY <1>5, <1>6, <1>9 DEF Cadence, OneActive, Active, Started
  <1>11. \A q \in RunIds \ {r} : Paced(q)'
    BY <1>5, <1>6 DEF Cadence, Paced, Started, Slack, Count
  <1>12. Paced(r)'
    <2>1. PICK c \in Nat : c = Count(run[r])
      BY FS_CardinalityType DEF Cadence, Paced, Count
    <2>2. PICK p \in Nat : p = run[r].packets
      BY <1>1 DEF RunRow
    <2>3. IsFiniteSet(TestsOfRow(run'[r])) /\ Count(run'[r]) = c + 1
      BY <1>1, <1>3, <1>8, <2>1, TestAdded DEF Cadence, Paced
    <2>4. Started(r)'
      BY <1>5, <1>9 DEF Active, Started
    <2>5. K \in Nat \ {0} /\ Slack(r) \in {0, K} /\ (r # 1 => Slack(r) = K)
      BY DownlinkTestAssumption DEF Slack
    <2>6. K * (c + 1) <= p + Slack(r)
      <3>1. CASE ingest.count = p /\ K * c <= p - 1 + Slack(r)
        BY <1>5, <2>5, <3>1, BehindByK
      <3>2. CASE r # 1 /\ c = 0
        <4>1. K * (c + 1) = K
          BY <2>5, <3>2
        <4> QED
          BY <2>5, <3>2, <4>1
      <3> QED
        BY <1>5, <2>1, <2>2, <3>1, <3>2 DEF Cadence, Paced
    <2> QED
      BY <1>5, <1>8, <2>2, <2>3, <2>4, <2>6 DEF Paced, Slack, Count
  <1> QED
    BY <1>10, <1>11, <1>12 DEF Cadence

LEMMA PaceRecorded ==
  ASSUME Inv, Cadence, run' \in [RunIds -> RunRow], NEW r \in RunIds, RecordUplink(r)
  PROVE  Cadence'
  <1>1. /\ r \in Active /\ ingest'.at = "trigger" /\ ingest'.count = run[r].packets + 1
    BY DEF RecordUplink, Idle
  <1>2. /\ \A q \in RunIds : run'[q].sent = run[q].sent /\ run'[q].status = run[q].status
        /\ \A q \in RunIds \ {r} : run'[q].packets = run[q].packets
        /\ run'[r].packets = run[r].packets + 1
    BY DEF Inv, TypeOK, RunRow, RecordUplink
  <1>3. \A q \in RunIds : run[q].packets \in Nat
    BY DEF Inv, TypeOK, RunRow
  <1>4. SameTests /\ SameStatus
    BY <1>2, <1>3 DEF SameTests, SameStatus
  <1>5. Active' = Active /\ \A q \in Active : q = r
    BY <1>1, <1>2 DEF Active, Cadence, OneActive
  <1>6. OneActive'
    BY <1>1, <1>4, <1>5, FirstRun DEF Cadence, OneActive, Active, Started, SameStatus
  <1>7. ASSUME NEW q \in RunIds PROVE Paced(q)'
    <2>1. /\ IsFiniteSet(TestsOfRow(run'[q])) /\ Count(run'[q]) = Count(run[q])
          /\ K * Count(run[q]) \in Int /\ Slack(q) \in Nat /\ Started(q)' = Started(q)
      BY <1>4, TestsSame, DownlinkTestAssumption DEF Slack, SameStatus, Started
    <2>2. Paced(q)
      BY DEF Cadence
    <2>p. run[q].packets \in Nat /\ run'[q].packets \in Nat /\ run[q].packets <= run'[q].packets
      BY <1>3, <1>4 DEF RunRow, SameTests
    <2>3. K * Count(run'[q]) <= run'[q].packets + Slack(q)
      BY <2>p, <2>1, <2>2 DEF Paced
    <2>4. q = r => /\ ingest'.count = run'[q].packets
                   /\ K * Count(run'[q]) <= run'[q].packets - 1 + Slack(q)
      BY <1>1, <1>2, <1>3, <2>1, <2>2 DEF Paced
    <2> QED
      BY <1>5, <2>1, <2>2, <2>3, <2>4 DEF Paced, Slack, Count
  <1> QED
    BY <1>6, <1>7 DEF Cadence

LEMMA PaceStarted ==
  ASSUME Inv, Cadence, run' \in [RunIds -> RunRow], NEW r \in RunIds, StartRun(r)
  PROVE  Cadence'
  <1>1. /\ Active = {} /\ ~Started(r) /\ \A q \in RunIds : q < r => Started(q)
        /\ UNCHANGED ingest
    BY DEF StartRun, Started
  <1>2. /\ \A q \in RunIds : run'[q].sent = run[q].sent /\ run'[q].packets = run[q].packets
        /\ \A q \in RunIds \ {r} : run'[q].status = run[q].status
        /\ run'[r].status = "running"
    BY DEF Inv, TypeOK, RunRow, StartRun
  <1>3. \A q \in RunIds : run[q].packets \in Nat
    BY DEF Inv, TypeOK, RunRow
  <1>4. SameTests
    BY <1>2, <1>3 DEF SameTests
  <1>5. Active' = {r}
    BY <1>1, <1>2 DEF Active
  <1>6. OneActive'
    <2>1. \A q \in RunIds : Started(q)' <=> Started(q) \/ q = r
      BY <1>2 DEF Started
    <2>2. 1 \in RunIds /\ (r = 1 \/ Started(1))
      BY <1>1, FirstRun DEF RunIds
    <2> QED
      BY <1>1, <1>5, <2>1, <2>2 DEF Cadence, OneActive, Started
  <1>7. ASSUME NEW q \in RunIds PROVE Paced(q)'
    <2>1. /\ IsFiniteSet(TestsOfRow(run'[q])) /\ Count(run'[q]) = Count(run[q])
      BY <1>4, TestsSame
    <2>2. Paced(q) /\ run'[q].packets = run[q].packets /\ (Started(q) => Started(q)')
      BY <1>2 DEF Cadence, Started
    <2>3. ingest'.at = "trigger" /\ q \in Active' => q # 1 /\ Count(run'[q]) = 0
      BY <1>1, <1>5, <2>1, <2>2 DEF Cadence, OneActive, Paced
    <2> QED
      BY <2>1, <2>2, <2>3 DEF Paced, Slack, Count
  <1> QED
    BY <1>6, <1>7 DEF Cadence

LEMMA PaceStopped ==
  ASSUME Inv, Cadence, run' \in [RunIds -> RunRow], NEW r \in RunIds, StopRun(r)
  PROVE  Cadence'
  <1>1. r \in Active /\ UNCHANGED ingest
    BY DEF StopRun
  <1>2. /\ \A q \in RunIds : run'[q].sent = run[q].sent /\ run'[q].packets = run[q].packets
        /\ \A q \in RunIds \ {r} : run'[q].status = run[q].status
        /\ run'[r].status = "done"
    BY DEF Inv, TypeOK, RunRow, StopRun
  <1>3. SameTests
    BY <1>2 DEF SameTests, Inv, TypeOK, RunRow
  <1>4. Active' \subseteq Active /\ \A q \in RunIds : Started(q)' <=> Started(q)
    BY <1>1, <1>2 DEF Active, Started
  <1>5. OneActive'
    BY <1>1, <1>4, FirstRun DEF Cadence, OneActive, Started
  <1>6. ASSUME NEW q \in RunIds PROVE Paced(q)'
    <2>1. IsFiniteSet(TestsOfRow(run'[q])) /\ Count(run'[q]) = Count(run[q])
      BY <1>3, TestsSame
    <2> QED
      BY <1>1, <1>2, <1>4, <2>1 DEF Cadence, Paced, Slack, Count
  <1> QED
    BY <1>5, <1>6 DEF Cadence

LEMMA CadenceStep == Inv /\ Cadence /\ [Next]_vars => Cadence'
  <1> SUFFICES ASSUME Inv, Cadence, [Next]_vars PROVE Cadence'
    OBVIOUS
  <1>1. run' \in [RunIds -> RunRow] /\ run \in [RunIds -> RunRow]
    BY RunStep DEF Inv, TypeOK
  <1>2. \A q \in RunIds : run[q].packets \in Nat
    BY <1>1 DEF RunRow
  <1>3. CASE run' = run /\ (ingest' = ingest \/ ingest'.at # "trigger")
    <2>1. SameTests /\ SameStatus
      BY <1>2, <1>3 DEF SameTests, SameStatus
    <2> QED
      BY <1>1, <1>3, <2>1, PaceKept
  <1>4. ASSUME NEW r \in RunIds, DieInRecordUplink(r) \/ DieBeforeFirstUplink(r) PROVE Cadence'
    <2>a. ASSUME DieInRecordUplink(r) PROVE SameTests /\ SameStatus
      BY <1>1, <1>2, <2>a DEF RunRow, DieInRecordUplink, SameTests, SameStatus
    <2>b. ASSUME DieBeforeFirstUplink(r) PROVE SameTests /\ SameStatus
      <3>1. PICK new : new = [run[r] EXCEPT !.csv = @ + 1, !.packets = @ + 1]
        OBVIOUS
      <3>2. new.sent = run[r].sent /\ new.packets = run[r].packets + 1 /\ new.status = run[r].status
        BY <1>1, <3>1 DEF RunRow
      <3>3. run' = [run EXCEPT ![r] = new]
        BY <1>1, <2>b, <3>1 DEF DieBeforeFirstUplink
      <3> QED
        BY <1>1, <1>2, <3>2, <3>3 DEF SameTests, SameStatus
    <2>1. SameTests /\ SameStatus
      BY <1>4, <2>a, <2>b
    <2>2. ingest'.at # "trigger"
      BY <1>4 DEF DieInRecordUplink, DieBeforeFirstUplink
    <2> QED
      BY <1>1, <2>1, <2>2, PaceKept
  <1>5. ASSUME NEW r \in RunIds, RecordAck(r) PROVE Cadence'
    <2>1. PICK acked : run' = [run EXCEPT ![r] = WithAcked(run[r], acked)]
      BY <1>1, <1>5 DEF RecordAck, WithAcked
    <2>2. /\ WithAcked(run[r], acked).sent = run[r].sent
          /\ WithAcked(run[r], acked).packets = run[r].packets
          /\ WithAcked(run[r], acked).status = run[r].status
      BY <1>1 DEF WithAcked, RunRow
    <2>3. SameTests /\ SameStatus
      BY <1>1, <1>2, <2>1, <2>2 DEF SameTests, SameStatus
    <2>4. ingest'.at # "trigger"
      BY <1>5 DEF RecordAck, Idle
    <2> QED
      BY <1>1, <2>3, <2>4, PaceKept
  <1>6. ASSUME NEW r \in RunIds, AdvanceSegment(r) PROVE Cadence'
    <2>1. SameTests /\ SameStatus /\ \A q \in RunIds : run'[q].packets = run[q].packets
      BY <1>1, <1>2, <1>6 DEF RunRow, AdvanceSegment, SameTests, SameStatus
    <2>2. ingest' = ingest
      BY <1>6 DEF AdvanceSegment
    <2> QED
      BY <1>1, <2>1, <2>2, PaceKept
  <1>7. ASSUME NEW r \in RunIds,
               RecordUplink(r) \/ TriggerTest(r) \/ StartRun(r) \/ StopRun(r)
        PROVE  Cadence'
    BY <1>1, <1>7, PaceRecorded, PaceTriggered, PaceStarted, PaceStopped
  <1> QED
    BY <1>3, <1>4, <1>5, <1>6, <1>7 DEF Next, Uplink, Test, Resolution, Ack, Operator, NoTest,
       EnqueueTest, EnqueueFails, Resolve, ResolveUnseen, IgnoreAck, EnqueueOther, Restart, Idle, vars

(***************************************************************************)
(* No run is tested more often than every Kth of its packets, but for the  *)
(* one test that a later run may get for an uplink of the run before,      *)
(* whatever crashes, stops, starts and acks come in between.               *)
(***************************************************************************)
THEOREM TestsKeepTheirCadence == Spec => []TestCadence
  BY Invariance, CadenceInit, CadenceStep, CadenceHolds, PTL DEF Spec
=============================================================================
