----------------------------- MODULE DownlinkTest -----------------------------
(***************************************************************************)
(* The per-SF downlink reliability test of one device: the MQTT ingest     *)
(* thread (cockpit/app/ingest.py), the counters of the run rows            *)
(* (cockpit/app/db.py) and ChirpStack's downlink queue for the device.     *)
(*                                                                         *)
(* The ingest thread handles one event at a time: `ingest` is where it is. *)
(* Between its database calls the thread pool and the event loop start,    *)
(* stop and advance runs, and enqueue other confirmed downlinks.           *)
(* ChirpStack delivers the queue in order and publishes an ack event, with *)
(* acknowledged true or false, for each confirmed downlink; MQTT QoS 0     *)
(* loses the events that come while the cockpit is away.                   *)
(***************************************************************************)
EXTENDS Integers, Sequences, FiniteSets, Functions

CONSTANTS
  Schedule,    \* the SF of each segment of a sweep
  K,           \* a test every Kth uplink: max(1, round(15 / interval_minutes))
  MaxRuns,     \* bound: runs of the device
  MaxPackets,  \* bound: uplinks recorded
  MaxQueue     \* bound: downlinks in ChirpStack's queue

ASSUME DownlinkTestAssumption ==
  /\ Schedule \in Seq(Nat \ {0}) /\ Schedule # <<>>
  /\ K \in Nat \ {0}
  /\ MaxRuns \in Nat /\ MaxPackets \in Nat /\ MaxQueue \in Nat

RunIds == 1..MaxRuns
SFs    == Range(Schedule)
None   == 0                \* pending_sf NULL; no run

RunRow == [status: {"absent", "running", "done"}, seg: 1..Len(Schedule),
           packets: Nat, csv: Nat, firstUplinks: Nat,
           pending_sf: SFs \cup {None}, sent: [SFs -> Nat], acked: [SFs -> Nat]]

(* A queued downlink: a test of a run and SF, or something else. *)
Downlink == [run: RunIds \cup {None}, sf: SFs \cup {None}]
Other    == [run |-> None, sf |-> None]

VARIABLES
  run,       \* id -> row; csv counts the rows of its CSV file
  queue,     \* ChirpStack's queue for the device, external
  answered,  \* history: run -> SF -> tests that the device did acknowledge
  ingest,    \* [at, count, dl]: where the ingest thread is
  alone      \* history: one run only, no other confirmed downlink, no failure

vars == <<run, queue, answered, ingest, alone>>

Idle == [at |-> "idle", count |-> 0, dl |-> Other]

TypeOK ==
  /\ run \in [RunIds -> RunRow]
  /\ queue \in Seq(Downlink) /\ Len(queue) <= MaxQueue
  /\ answered \in [RunIds -> [SFs -> Nat]]
  /\ ingest \in [at: {"idle", "trigger", "enqueue", "ack", "nack"}, count: Nat, dl: Downlink]
  /\ alone \in BOOLEAN

Zero == [sf \in SFs |-> 0]

Init ==
  /\ run = [r \in RunIds |->
       [status |-> "absent", seg |-> 1, packets |-> 0, csv |-> 0, firstUplinks |-> 0,
        pending_sf |-> None, sent |-> Zero, acked |-> Zero]]
  /\ queue = <<>>
  /\ answered = [r \in RunIds |-> Zero]
  /\ ingest = Idle
  /\ alone = TRUE

Active == {r \in RunIds : run[r].status = "running"}    \* get_active_run: at most one here
Recorded == SumFunction([r \in RunIds |-> run[r].csv])

-----------------------------------------------------------------------------
(***************************************************************************)
(* event/up: record_uplink_for_run, then _maybe_send_downlink_test.        *)
(***************************************************************************)
(* Bug: a packet is counted whether its row could be written or not. *)
RecordUplinkAnyway(r) ==
  /\ ingest.at = "idle" /\ r \in Active /\ Recorded < MaxPackets
  /\ \E written \in {0, 1} :
       run' = [run EXCEPT ![r].csv = @ + written, ![r].packets = @ + 1,
                          ![r].firstUplinks = IF run[r].packets = 0 THEN @ + 1 ELSE @]
  /\ ingest' = [Idle EXCEPT !.at = "trigger", !.count = run[r].packets + 1]
  /\ UNCHANGED <<queue, answered, alone>>

(* The CSV row is written before the counter: if that raises, the packet   *)
(* is not counted and no test follows.                                     *)
RecordUplink(r) ==
  /\ ingest.at = "idle" /\ r \in Active /\ Recorded < MaxPackets
  /\ run' = [run EXCEPT ![r].csv = @ + 1, ![r].packets = @ + 1,
                        ![r].firstUplinks = IF run[r].packets = 0 THEN @ + 1 ELSE @]
  /\ ingest' = [Idle EXCEPT !.at = "trigger", !.count = run[r].packets + 1]
  /\ UNCHANGED <<queue, answered, alone>>

(* The process dies with the row written and the counter not committed. *)
DieInRecordUplink(r) ==
  /\ ingest.at = "idle" /\ r \in Active /\ Recorded < MaxPackets
  /\ run' = [run EXCEPT ![r].csv = @ + 1]
  /\ alone' = FALSE
  /\ UNCHANGED <<queue, answered, ingest>>

(* It dies after the commit of the first packet: nobody records the event. *)
DieBeforeFirstUplink(r) ==
  /\ ingest.at = "idle" /\ r \in Active /\ run[r].packets = 0 /\ Recorded < MaxPackets
  /\ run' = [run EXCEPT ![r].csv = @ + 1, ![r].packets = @ + 1]
  /\ alone' = FALSE
  /\ UNCHANGED <<queue, answered, ingest>>

(* Bug: only looks whether this SF's test is pending. *)
MayTriggerPerSf(r) == run[r].pending_sf # Schedule[run[r].seg]

MayTrigger(r) == run[r].pending_sf = None

(* Bug: after every uplink. *)
TriggerTestEveryUplink(r) ==
  /\ ingest.at = "trigger" /\ r \in Active
  /\ MayTrigger(r)
  /\ LET sf == Schedule[run[r].seg] IN
       /\ run' = [run EXCEPT ![r].sent[sf] = @ + 1, ![r].pending_sf = sf]
       /\ ingest' = [Idle EXCEPT !.at = "enqueue", !.dl = [run |-> r, sf |-> sf]]
  /\ UNCHANGED <<queue, answered, alone>>

(* maybe_trigger_downlink_test, on the run that is active by now. *)
TriggerTest(r) ==
  /\ ingest.at = "trigger" /\ r \in Active
  /\ MayTrigger(r) /\ ingest.count % K = 0
  /\ LET sf == Schedule[run[r].seg] IN
       /\ run' = [run EXCEPT ![r].sent[sf] = @ + 1, ![r].pending_sf = sf]
       /\ ingest' = [Idle EXCEPT !.at = "enqueue", !.dl = [run |-> r, sf |-> sf]]
  /\ UNCHANGED <<queue, answered, alone>>

NoTest ==
  /\ ingest.at = "trigger"
  /\ ~\E r \in Active : MayTrigger(r) /\ ingest.count % K = 0
  /\ ingest' = Idle
  /\ UNCHANGED <<run, queue, answered, alone>>

(* The gRPC call, with the test already committed as sent. *)
EnqueueTest ==
  /\ ingest.at = "enqueue" /\ Len(queue) < MaxQueue
  /\ queue' = Append(queue, ingest.dl)
  /\ ingest' = Idle
  /\ UNCHANGED <<run, answered, alone>>

(* An RpcError is logged; pending_sf stays. *)
EnqueueFails ==
  /\ ingest.at = "enqueue"
  /\ ingest' = Idle
  /\ alone' = FALSE
  /\ UNCHANGED <<run, queue, answered>>

-----------------------------------------------------------------------------
(***************************************************************************)
(* event/ack: the head of the queue is resolved, one way or the other.     *)
(***************************************************************************)
Answered(dl, acknowledged) ==
  answered' = IF acknowledged /\ dl # Other
              THEN [answered EXCEPT ![dl.run][dl.sf] = @ + 1] ELSE answered

Resolve(acknowledged) ==
  /\ ingest.at = "idle" /\ queue # <<>>
  /\ queue' = Tail(queue)
  /\ Answered(Head(queue), acknowledged)
  /\ ingest' = [Idle EXCEPT !.at = IF acknowledged THEN "ack" ELSE "nack"]
  /\ UNCHANGED <<run, alone>>

(* The cockpit does not get the event. *)
ResolveUnseen(acknowledged) ==
  /\ queue # <<>>
  /\ queue' = Tail(queue)
  /\ Answered(Head(queue), acknowledged)
  /\ alone' = FALSE
  /\ UNCHANGED <<run, ingest>>

(* Bug: the ack is counted for the segment that is current when it comes. *)
AckedSfNow(r) == Schedule[run[r].seg]

AckedSf(r) == run[r].pending_sf

(* Bug: pending_sf is left as it is. *)
RecordAckKeepsPending(r) ==
  /\ ingest.at \in {"ack", "nack"} /\ r \in Active /\ run[r].pending_sf # None
  /\ run' = IF ingest.at = "ack" THEN [run EXCEPT ![r].acked[AckedSf(r)] = @ + 1] ELSE run
  /\ ingest' = Idle
  /\ UNCHANGED <<queue, answered, alone>>

(* Bug: only an acknowledgement clears it. *)
RecordAckIgnoresNack(r) ==
  /\ ingest.at \in {"ack", "nack"} /\ r \in Active /\ run[r].pending_sf # None
  /\ run' = IF ingest.at = "ack"
            THEN [run EXCEPT ![r].acked[AckedSf(r)] = @ + 1, ![r].pending_sf = None] ELSE run
  /\ ingest' = Idle
  /\ UNCHANGED <<queue, answered, alone>>

(* record_downlink_test_ack: whatever the ack is for, it resolves what is  *)
(* pending for the run that is active now.                                 *)
RecordAck(r) ==
  /\ ingest.at \in {"ack", "nack"} /\ r \in Active /\ run[r].pending_sf # None
  /\ run' = [run EXCEPT ![r].pending_sf = None,
                        ![r].acked[AckedSf(r)] = IF ingest.at = "ack" THEN @ + 1 ELSE @]
  /\ ingest' = Idle
  /\ UNCHANGED <<queue, answered, alone>>

IgnoreAck ==
  /\ ingest.at \in {"ack", "nack"}
  /\ \A r \in Active : run[r].pending_sf = None
  /\ ingest' = Idle
  /\ UNCHANGED <<run, queue, answered, alone>>

-----------------------------------------------------------------------------
(***************************************************************************)
(* The other threads.                                                      *)
(***************************************************************************)
(* A sweep with downlink_test on; a run without schedule has no tests.     *)
(* The confirmed send-interval downlink that a sweep start enqueues after  *)
(* the insert, best-effort, is an EnqueueOther.                            *)
StartRun(r) ==
  /\ Active = {} /\ run[r].status = "absent" /\ \A q \in RunIds : q < r => run[q].status # "absent"
  /\ run' = [run EXCEPT ![r].status = "running"]
  /\ alone' = (alone /\ r = 1)
  /\ UNCHANGED <<queue, answered, ingest>>

(* The send-interval downlink, or one of the downlink panel. *)
EnqueueOther ==
  /\ Len(queue) < MaxQueue
  /\ queue' = Append(queue, Other)
  /\ alone' = FALSE
  /\ UNCHANGED <<run, answered, ingest>>

AdvanceSegment(r) ==
  /\ r \in Active /\ run[r].seg < Len(Schedule)
  /\ run' = [run EXCEPT ![r].seg = @ + 1]
  /\ UNCHANGED <<queue, answered, ingest, alone>>

StopRun(r) ==
  /\ r \in Active
  /\ run' = [run EXCEPT ![r].status = "done"]
  /\ UNCHANGED <<queue, answered, ingest, alone>>

(* The event in hand is gone: it was published once. *)
Restart ==
  /\ ingest # Idle
  /\ ingest' = Idle
  /\ alone' = FALSE
  /\ UNCHANGED <<run, queue, answered>>

-----------------------------------------------------------------------------
Uplink(r) == RecordUplink(r) \/ DieInRecordUplink(r) \/ DieBeforeFirstUplink(r)
Test == (\E r \in RunIds : TriggerTest(r)) \/ NoTest \/ EnqueueTest \/ EnqueueFails
Resolution == \E acknowledged \in BOOLEAN : Resolve(acknowledged) \/ ResolveUnseen(acknowledged)
Ack == (\E r \in RunIds : RecordAck(r)) \/ IgnoreAck
Operator == \E r \in RunIds : StartRun(r) \/ AdvanceSegment(r) \/ StopRun(r)

Next == \/ \E r \in RunIds : Uplink(r)
        \/ Test \/ Resolution \/ Ack
        \/ Operator \/ EnqueueOther \/ Restart

Spec == Init /\ [][Next]_vars

(* The ingest thread does not stop in the middle of an event, and          *)
(* ChirpStack resolves what it has queued: the device sends its periodic   *)
(* uplinks, and after its last retry ChirpStack gives up with a NACK.      *)
FairSpec == Spec /\ WF_vars(Test) /\ WF_vars(Ack)
                 /\ WF_vars(\E acknowledged \in BOOLEAN : Resolve(acknowledged))

-----------------------------------------------------------------------------
(***************************************************************************)
(* Properties.                                                             *)
(***************************************************************************)

(* The per-SF ratio acked/sent of the run statistics is a ratio: no SF has *)
(* more acknowledged tests than sent ones, the one in flight not counting  *)
(* as acknowledged -- whatever acks come, of whatever downlinks, late or   *)
(* twice, and even if the sweep has advanced since.                        *)
AckedWithinSent ==
  \A r \in RunIds, sf \in SFs :
    run[r].acked[sf] + (IF run[r].pending_sf = sf THEN 1 ELSE 0) <= run[r].sent[sf]

(* The CSV file has a row for every packet counted, and only a crash       *)
(* between the two adds a row that is not counted; the first_uplink event  *)
(* is recorded at most once, with the first packet, and only a crash       *)
(* before it loses it.                                                     *)
CsvCoversPackets ==
  \A r \in RunIds :
    LET firstDue == IF run[r].packets > 0 THEN 1 ELSE 0 IN
    /\ run[r].packets <= run[r].csv /\ run[r].firstUplinks <= firstDue
    /\ alone => run[r].packets = run[r].csv /\ run[r].firstUplinks = firstDue

UnderWay == queue \o (IF ingest.at = "enqueue" THEN <<ingest.dl>> ELSE <<>>)
TestsOf(r) == {i \in DOMAIN UnderWay : UnderWay[i].run = r}

(* "the eventual ack is attributed correctly even if the sweep has since   *)
(* advanced" (db.py:1061): an acked test is one the device acknowledged,   *)
(* of that run and SF.                                                     *)
AcksAreTestAcks ==
  \A r \in RunIds, sf \in SFs : run[r].acked[sf] <= answered[r][sf]

(* It holds for the first run of a device, while its tests are all that is *)
(* sent and nothing fails.                                                 *)
AloneAcksAreTestAcks == alone => AcksAreTestAcks

(* "never pile up" (db.py:1071): likewise, never two tests under way; and  *)
(* "a confirmed downlink is still in flight" (db.py:1094): while a test is *)
(* pending, ChirpStack has it, or its answer is in hand.                   *)
NeverPileUp ==
  alone => \A r \in Active :
    /\ \A i, j \in TestsOf(r) : i = j
    /\ run[r].pending_sf # None => TestsOf(r) # {} \/ ingest.at \in {"ack", "nack"}

TestsOfRow(row) == UNION {{sf} \X (1..row.sent[sf]) : sf \in SFs}

(* "Every Kth uplink": a run never has more tests than Kths of its packets *)
(* across crashes, segments and acks of any kind -- but for one test that  *)
(* a run which is not the first may get for an uplink of the run before,   *)
(* when it is started between that uplink's two database calls.            *)
TestCadence ==
  \A r \in RunIds : Cardinality(TestsOfRow(run[r]))
                     <= run[r].packets \div K + (IF r = 1 THEN 0 ELSE 1)

(* While it is alone, a pending test is resolved and the next may    *)
(* follow, or the run ends first.                                          *)
PendingIsResolved ==
  \A r \in RunIds :
    run[r].pending_sf # None ~> (run[r].pending_sf = None \/ r \notin Active \/ ~alone)
=============================================================================
