----------------------------- MODULE RfLogProofs -----------------------------
(***************************************************************************)
(* The RF environment log, for every Retention and TrimEvery, all devices  *)
(* and strangers, however often the process restarts: it stays bounded, no *)
(* row is deleted before its time, the survey holds foreign frames alone,  *)
(* and the counters agree with the tables.                                 *)
(***************************************************************************)
EXTENDS RfLog, TLAPS

-----------------------------------------------------------------------------
(* Counting modulo t. *)

LEMMA MultiplesApart ==
  ASSUME NEW a \in Int, NEW b \in Int, NEW t \in Nat \ {0}, a < b
  PROVE  t * a <= t * b - t
<1>1. b - a - 1 \in Nat  OBVIOUS
<1>2. t * (b - a - 1) \in Nat  BY <1>1
<1>3. t * (b - a - 1) = t * b - t * a - t  BY <1>1
<1> QED BY <1>2, <1>3

LEMMA DivisionUnique ==
  ASSUME NEW q \in Int, NEW r \in Int, NEW p \in Int, NEW s \in Int, NEW t \in Nat \ {0},
         t * q + r = t * p + s, 0 <= r, r < t, 0 <= s, s < t
  PROVE  r = s
<1>1. ~(q < p)  BY MultiplesApart
<1>2. ~(p < q)  BY MultiplesApart
<1> QED BY <1>1, <1>2

LEMMA Division ==
  ASSUME NEW n \in Nat, NEW t \in Nat \ {0}
  PROVE  n \div t \in Int /\ n % t \in 0 .. (t - 1) /\ n = t * (n \div t) + (n % t)
OBVIOUS

LEMMA NextRemainder ==
  ASSUME NEW n \in Nat, NEW t \in Nat \ {0}
  PROVE  /\ (n + 1) % t = 0 => n % t = t - 1
         /\ (n + 1) % t # 0 => (n + 1) % t = (n % t) + 1
<1> DEFINE q == n \div t  r == n % t  p == (n + 1) \div t  s == (n + 1) % t
<1>1. q \in Int /\ r \in 0 .. (t - 1) /\ n = t * q + r  BY Division
<1>2. p \in Int /\ s \in 0 .. (t - 1) /\ n + 1 = t * p + s  BY Division, n + 1 \in Nat
<1> HIDE DEF q, r, p, s
<1>3. CASE r = t - 1
  <2>1. t * (q + 1) = t * q + t  BY <1>1
  <2>2. t * (q + 1) + 0 = t * p + s  BY <1>1, <1>2, <1>3, <2>1
  <2>3. s = 0  BY <2>2, <1>1, <1>2, DivisionUnique
  <2> QED BY <2>3, <1>3 DEF r, s
<1>4. CASE r # t - 1
  <2>1. t * q + (r + 1) = t * p + s  BY <1>1, <1>2
  <2>2. r + 1 = s  BY <2>1, <1>1, <1>2, <1>4, DivisionUnique
  <2> QED BY <2>2, <1>1 DEF r, s
<1> QED BY <1>3, <1>4

-----------------------------------------------------------------------------
(* Types. *)

LEMMA AFrame == NoFrame \in Frame /\ Idle.frame \in Frame
<1>1. (CHOOSE s \in Senders : TRUE) \in Senders  BY RfLogAssumption DEF Senders
<1>2. 0 \in Sessions  BY RfLogAssumption DEF Sessions
<1> QED BY <1>1, <1>2 DEF NoFrame, Idle, Frame

IngestType == [at: {"idle", "count", "record", "announce"},
               class: {"own", "foreign", "stranger", "unknown"}, frame: Frame]

LEMMA AppendedRows ==
  ASSUME NEW log \in Seq(Frame), NEW f \in Frame, NEW cut \in Nat, cut <= Len(log) + 1
  PROVE  LET new == SubSeq(Append(log, f), cut + 1, Len(log) + 1) IN
         /\ new \in Seq(Frame) /\ Len(new) = Len(log) + 1 - cut
         /\ \A i \in DOMAIN new : new[i] = f \/ \E j \in DOMAIN log : new[i] = log[j]
<1> DEFINE app == Append(log, f)
<1>1. app \in Seq(Frame) /\ Len(app) = Len(log) + 1 /\ Len(log) \in Nat  OBVIOUS
<1>2. \A i \in 1 .. Len(app) : app[i] = f \/ \E j \in DOMAIN log : app[i] = log[j]
  <2> TAKE i \in 1 .. Len(app)
  <2>1. CASE i = Len(log) + 1  BY <2>1
  <2>2. CASE i # Len(log) + 1
    <3>1. i \in DOMAIN log /\ app[i] = log[i]  BY <2>2
    <3> QED BY <3>1
  <2> QED BY <2>1, <2>2
<1> HIDE DEF app
<1>3. /\ SubSeq(app, cut + 1, Len(log) + 1) \in Seq(Frame)
      /\ Len(SubSeq(app, cut + 1, Len(log) + 1)) = Len(log) + 1 - cut
      /\ \A i \in 1 .. (Len(log) + 1 - cut) :
           SubSeq(app, cut + 1, Len(log) + 1)[i] = app[cut + i]
  BY <1>1
<1> QED BY <1>1, <1>2, <1>3 DEF app

(* What an appended row does to the log, whether trimming is due or not. *)
LEMMA AppendingRow ==
  ASSUME TypeOK, NEW due \in BOOLEAN, AppendRow(due)
  PROVE  LET cut == IF due THEN Excess(Len(rows) + 1) ELSE 0 IN
         /\ rows' \in Seq(Frame) /\ Len(rows') = Len(rows) + 1 - cut
         /\ cut \in Nat /\ cut <= Len(rows) + 1
         /\ trimmed' = trimmed + cut /\ inserts' = inserts + 1
         /\ \A i \in DOMAIN rows' :
              rows'[i] = ingest.frame \/ \E j \in DOMAIN rows : rows'[i] = rows[j]
<1> DEFINE cut == IF due THEN Excess(Len(rows) + 1) ELSE 0
<1>1. rows \in Seq(Frame) /\ ingest.frame \in Frame /\ Len(rows) \in Nat  BY DEF TypeOK
<1>2. cut \in Nat /\ cut <= Len(rows) + 1  BY <1>1, RfLogAssumption DEF Excess
<1>3. /\ rows' = SubSeq(Append(rows, ingest.frame), cut + 1, Len(rows) + 1)
      /\ trimmed' = trimmed + cut /\ inserts' = inserts + 1
  BY DEF AppendRow
<1> HIDE DEF cut
<1>4. /\ rows' \in Seq(Frame) /\ Len(rows') = Len(rows) + 1 - cut
      /\ \A i \in DOMAIN rows' :
           rows'[i] = ingest.frame \/ \E j \in DOMAIN rows : rows'[i] = rows[j]
  BY <1>1, <1>2, <1>3, AppendedRows
<1> QED BY <1>2, <1>3, <1>4 DEF cut

CoexType == [frames: Nat, own: Nat, foreign: Nat, unknown: Nat]

LEMMA CoexKept ==
  ASSUME NEW c \in CoexType
  PROVE  /\ [c EXCEPT !.frames = @ + 1] \in CoexType
         /\ [c EXCEPT !.own = @ + 1] \in CoexType
         /\ [c EXCEPT !.foreign = @ + 1] \in CoexType
         /\ [c EXCEPT !.unknown = @ + 1] \in CoexType
<1>1. c.frames \in Nat /\ c.own \in Nat /\ c.foreign \in Nat /\ c.unknown \in Nat
  BY DEF CoexType
<1>2. [c EXCEPT !.frames = @ + 1] \in CoexType  BY <1>1 DEF CoexType
<1>3. [c EXCEPT !.own = @ + 1] \in CoexType  BY <1>1 DEF CoexType
<1>4. [c EXCEPT !.foreign = @ + 1] \in CoexType  BY <1>1 DEF CoexType
<1>5. [c EXCEPT !.unknown = @ + 1] \in CoexType  BY <1>1 DEF CoexType
<1> QED BY <1>2, <1>3, <1>4, <1>5

LEMMA TypesInitially == Init => TypeOK
<1> SUFFICES ASSUME Init PROVE TypeOK  OBVIOUS
<1>1. 0 \in Sessions  BY RfLogAssumption DEF Sessions
<1>2. Idle \in IngestType  BY AFrame DEF Idle, IngestType
<1>3. rows \in Seq(Frame)  BY DEF Init
<1> QED BY <1>1, <1>2, <1>3 DEF Init, TypeOK, NoCounts, IngestType

LEMMA TypesAfterBoot ==
  ASSUME TypeOK, Boot
  PROVE  /\ known' \in [Devices -> Sessions] /\ joined' \subseteq Devices
         /\ coex' \in [frames: Nat, own: Nat, foreign: Nat, unknown: Nat]
         /\ ingest' \in IngestType
         /\ inserts' = 0 /\ restarts' = restarts + 1 /\ missed' \subseteq Devices \X Sessions
         /\ inserts' \in Nat /\ restarts' \in Nat
         /\ spared' = FALSE
<1>1. 0 \in Sessions  BY RfLogAssumption DEF Sessions
<1>2. \A S \in SUBSET Devices : Fetched(S) \in [Devices -> Sessions]
  BY <1>1 DEF TypeOK, Fetched
<1>3. Idle \in IngestType  BY AFrame DEF Idle, IngestType
<1>4. missed' \subseteq Devices \X Sessions
  <2>1. PICK S \in SUBSET Devices :
          missed' = missed \cup {<<d, session[d]>> : d \in {e \in Devices \ S : session[e] # 0}}
    BY DEF Boot
  <2>2. \A d \in Devices : <<d, session[d]>> \in Devices \X Sessions  BY DEF TypeOK
  <2> QED BY <2>1, <2>2 DEF TypeOK
<1> QED BY <1>2, <1>3, <1>4 DEF Boot, NoCounts, TypeOK

LEMMA TypesKept == TypeOK /\ [Next]_vars => TypeOK'
<1> SUFFICES ASSUME TypeOK, [Next]_vars PROVE TypeOK'  OBVIOUS
<1> USE DEF logVars
<1>0. ingest \in IngestType  BY DEF TypeOK, IngestType
<1>1. ASSUME NEW d \in Devices, Join(d) PROVE TypeOK'
  <2>1. session[d] + 1 \in Sessions  BY <1>1, RfLogAssumption DEF Join, TypeOK, Sessions
  <2> QED BY <1>1, <2>1 DEF Join, TypeOK
<1>2. ASSUME NEW d \in Devices, ProcessJoin(d) PROVE TypeOK'
  BY <1>2 DEF ProcessJoin, TypeOK
<1>3. ASSUME NEW d \in Devices, LoseJoin(d) PROVE TypeOK'
  BY <1>3 DEF LoseJoin, TypeOK
<1>4. ASSUME NEW f \in Frame, HearFrame(f) PROVE TypeOK'
  <2>1. Class(f) \in {"own", "foreign", "stranger", "unknown"}
    <3>1. f.mtype \in {"join", "data"}  BY DEF Frame
    <3> QED BY <3>1 DEF Class
  <2>2. ingest' \in IngestType  BY <1>4, <2>1 DEF HearFrame, IngestType
  <2>3. coex' \in CoexType
    <3>1. coex \in CoexType  BY DEF TypeOK, CoexType
    <3>2. coex' = [coex EXCEPT !.frames = @ + 1]  BY <1>4 DEF HearFrame
    <3> QED BY <3>1, <3>2, CoexKept
  <2> QED BY <1>4, <2>2, <2>3 DEF HearFrame, TypeOK, IngestType, CoexType
<1>5. CASE CountFrame
  <2>1. coex' \in CoexType
    <3>1. coex \in CoexType /\ ingest.class \in {"own", "foreign", "stranger", "unknown"}
      BY DEF TypeOK, CoexType
    <3>2. \/ coex' = [coex EXCEPT !.own = @ + 1]
          \/ coex' = [coex EXCEPT !.foreign = @ + 1]
          \/ coex' = [coex EXCEPT !.unknown = @ + 1]
      BY <1>5, <3>1 DEF CountFrame
    <3> QED BY <3>1, <3>2, CoexKept
  <2>2. ingest' \in IngestType  BY <1>0, <1>5 DEF CountFrame, IngestType
  <2> QED BY <1>5, <2>1, <2>2 DEF CountFrame, TypeOK, IngestType, CoexType
<1>6. CASE RecordFrame
  <2>1. rows' \in Seq(Frame) /\ trimmed' \in Nat /\ inserts' \in Nat
    <3>1. CASE IsForeign
      <4>1. TrimDue \in BOOLEAN /\ AppendRow(TrimDue)  BY <1>6, <3>1 DEF RecordFrame, TrimDue
      <4>2. PICK cut \in Nat : rows' \in Seq(Frame) /\ trimmed' = trimmed + cut
                               /\ inserts' = inserts + 1
        BY <4>1, AppendingRow
      <4> QED BY <4>2 DEF TypeOK
    <3>2. CASE ~IsForeign  BY <1>6, <3>2 DEF RecordFrame, TypeOK
    <3> QED BY <3>1, <3>2
  <2>2. ingest' \in IngestType  BY <1>0, <1>6 DEF RecordFrame, IngestType
  <2> QED BY <1>6, <2>1, <2>2 DEF RecordFrame, TypeOK, IngestType
<1>7. CASE RecordFails
  <2>1. ingest' \in IngestType  BY <1>0, <1>7 DEF RecordFails, IngestType
  <2> QED BY <1>7, <2>1 DEF RecordFails, TypeOK, IngestType
<1>8. CASE Announce
  <2>1. ingest' \in IngestType  BY <1>8, AFrame DEF Announce, Idle, IngestType
  <2> QED BY <1>8, <2>1 DEF Announce, TypeOK, IngestType
<1>9. CASE Restart
  <2>1. Boot  BY <1>9 DEF Restart
  <2> QED BY <1>9, <2>1, TypesAfterBoot DEF Restart, TypeOK, IngestType
<1>10. CASE DieBeforeTrim
  <2>1. Boot  BY <1>10 DEF DieBeforeTrim
  <2>2. rows' \in Seq(Frame)  BY <1>10 DEF DieBeforeTrim, TypeOK
  <2> QED BY <1>10, <2>1, <2>2, TypesAfterBoot DEF DieBeforeTrim, TypeOK, IngestType
<1>11. CASE UNCHANGED vars
  BY <1>11 DEF vars, TypeOK
<1> QED BY <1>1, <1>2, <1>3, <1>4, <1>5, <1>6, <1>7, <1>8, <1>9, <1>10, <1>11
        DEF Next, Joins, Frames, Restarts

(* The counters are counters, the log is a sequence of frames of known       *)
(* senders, and the ingest thread is in one of its four places.              *)
THEOREM TypeCorrect == Spec => []TypeOK
<1> QED BY TypesInitially, TypesKept, PTL DEF Spec
-----------------------------------------------------------------------------
(* Retention. *)

(* The inserts since the last trimming: less than TrimEvery of this        *)
(* process, and up to TrimEvery of each one before.                        *)
Backlog == TrimEvery * restarts + (inserts % TrimEvery)

RetentionInv == Len(rows) <= Retention + Backlog /\ NewestKept

LEMMA BacklogNat == TypeOK =>
  /\ Len(rows) \in Nat /\ trimmed \in Nat
  /\ TrimEvery * restarts \in Nat /\ inserts % TrimEvery \in 0 .. (TrimEvery - 1)
  /\ TrimEvery * (restarts + 1) = TrimEvery * restarts + TrimEvery
<1> SUFFICES ASSUME TypeOK PROVE /\ Len(rows) \in Nat /\ trimmed \in Nat
                                 /\ TrimEvery * restarts \in Nat
                                 /\ inserts % TrimEvery \in 0 .. (TrimEvery - 1)
                                 /\ TrimEvery * (restarts + 1) = TrimEvery * restarts + TrimEvery
  OBVIOUS
<1>1. restarts \in Nat /\ inserts \in Nat /\ TrimEvery \in Nat \ {0} /\ trimmed \in Nat
  BY RfLogAssumption DEF TypeOK
<1>2. Len(rows) \in Nat  BY DEF TypeOK
<1>3. inserts % TrimEvery \in 0 .. (TrimEvery - 1)  BY <1>1, Division
<1>4. TrimEvery * restarts \in Nat  BY <1>1
<1>5. TrimEvery * (restarts + 1) = TrimEvery * restarts + TrimEvery  BY <1>1
<1> QED BY <1>1, <1>2, <1>3, <1>4, <1>5

(* A new process takes over what its predecessors left untrimmed. *)
LEMMA BacklogAfterBoot ==
  ASSUME TypeOK, Boot
  PROVE  Backlog' = TrimEvery * restarts + TrimEvery
<1>1. restarts' = restarts + 1 /\ inserts' = 0  BY DEF Boot
<1>2. 0 % TrimEvery = 0  BY RfLogAssumption
<1>3. TrimEvery * (restarts + 1) \in Nat  BY RfLogAssumption DEF TypeOK
<1> QED BY <1>1, <1>2, <1>3, BacklogNat DEF Backlog

LEMMA RetentionKept == TypeOK /\ RetentionInv /\ [Next]_vars => RetentionInv'
<1> SUFFICES ASSUME TypeOK, RetentionInv, [Next]_vars PROVE RetentionInv'  OBVIOUS
<1> DEFINE back == TrimEvery * restarts  rest == inserts % TrimEvery
<1>1. /\ Len(rows) \in Nat /\ trimmed \in Nat /\ back \in Nat /\ rest \in 0 .. (TrimEvery - 1)
      /\ Retention \in Nat \ {0} /\ TrimEvery \in Nat \ {0}
  BY BacklogNat, RfLogAssumption
<1>2. Len(rows) <= Retention + (back + rest) /\ (trimmed > 0 => Len(rows) >= Retention)
  BY DEF RetentionInv, Backlog, NewestKept
<1>3. CASE UNCHANGED <<logVars, restarts>>
  <2>1. rows' = rows /\ trimmed' = trimmed /\ inserts' = inserts /\ restarts' = restarts
    BY <1>3 DEF logVars
  <2> QED BY <2>1 DEF RetentionInv, Backlog, NewestKept
<1>4. CASE RecordFrame /\ IsForeign
  <2>1. restarts' = restarts /\ AppendRow(TrimDue) /\ TrimDue \in BOOLEAN
    BY <1>4 DEF RecordFrame, TrimDue
  <2> DEFINE next == (inserts + 1) % TrimEvery
             cut == IF TrimDue THEN Excess(Len(rows) + 1) ELSE 0
  <2>2. inserts \in Nat  BY DEF TypeOK
  <2>3. /\ next = 0 => rest = TrimEvery - 1
        /\ next # 0 => next = rest + 1
    BY <1>1, <2>2, NextRemainder
  <2>4. next \in 0 .. (TrimEvery - 1)  BY <1>1, <2>2, Division, inserts + 1 \in Nat
  <2>5. /\ Len(rows') = Len(rows) + 1 - cut /\ cut \in Nat
        /\ trimmed' = trimmed + cut /\ inserts' = inserts + 1
    BY <2>1, AppendingRow
  <2>6. Backlog' = back + next  BY <2>1, <2>5 DEF Backlog
  <2>7. TrimDue <=> next = 0  BY DEF TrimDue
  <2>8. cut = IF next = 0 /\ Len(rows) + 1 >= Retention THEN Len(rows) + 1 - Retention ELSE 0
    BY <2>7, <1>1 DEF Excess
  <2> HIDE DEF next, cut, back, rest
  <2>9. Len(rows') <= Retention + (back + next)
    <3>1. CASE next = 0
      <4>1. back + next \in Nat  BY <3>1, <1>1
      <4>2. CASE Len(rows) + 1 >= Retention
        <5>1. cut = Len(rows) + 1 - Retention  BY <3>1, <4>2, <2>8
        <5>2. Len(rows') = Retention  BY <5>1, <2>5, <1>1
        <5> QED BY <4>1, <5>2, <1>1
      <4>3. CASE Len(rows) + 1 < Retention
        <5>1. cut = 0  BY <4>3, <1>1, <2>8
        <5>2. Len(rows') = Len(rows) + 1  BY <5>1, <2>5, <1>1
        <5> QED BY <4>1, <4>3, <5>2, <1>1
      <4> QED BY <4>2, <4>3, <1>1
    <3>2. CASE next # 0  BY <3>2, <1>1, <1>2, <2>3, <2>5, <2>8
    <3> QED BY <3>1, <3>2
  <2>10. trimmed' > 0 => Len(rows') >= Retention
    <3>1. CASE cut = 0  BY <3>1, <1>1, <1>2, <2>5
    <3>2. CASE cut # 0
      <4>1. Len(rows) + 1 >= Retention /\ cut = Len(rows) + 1 - Retention  BY <3>2, <2>8
      <4> QED BY <4>1, <1>1, <2>5
    <3> QED BY <3>1, <3>2
  <2> QED BY <2>6, <2>9, <2>10 DEF RetentionInv, NewestKept
<1>5. CASE Restart
  <2>1. Boot /\ rows' = rows /\ trimmed' = trimmed  BY <1>5 DEF Restart
  <2>2. Backlog' = back + TrimEvery  BY <2>1, BacklogAfterBoot
  <2> HIDE DEF back, rest
  <2>3. Len(rows') <= Retention + Backlog'  BY <2>1, <2>2, <1>1, <1>2
  <2> QED BY <2>1, <2>3, <1>2 DEF RetentionInv, NewestKept
<1>6. CASE DieBeforeTrim
  <2>1. Boot /\ rows' = Append(rows, ingest.frame) /\ trimmed' = trimmed /\ TrimDue
    BY <1>6 DEF DieBeforeTrim
  <2>2. Backlog' = back + TrimEvery  BY <2>1, BacklogAfterBoot
  <2>3. rest = TrimEvery - 1
    <3>1. inserts \in Nat  BY DEF TypeOK
    <3> QED BY <1>1, <2>1, <3>1, NextRemainder DEF TrimDue
  <2>4. Len(rows') = Len(rows) + 1  BY <2>1 DEF TypeOK
  <2> HIDE DEF back, rest
  <2>5. Len(rows') <= Retention + Backlog'  BY <2>2, <2>3, <2>4, <1>1, <1>2
  <2>6. trimmed' > 0 => Len(rows') >= Retention  BY <2>1, <2>4, <1>1, <1>2
  <2> QED BY <2>5, <2>6 DEF RetentionInv, NewestKept
<1>7. CASE RecordFrame /\ ~IsForeign
  <2>1. UNCHANGED <<logVars, restarts>>  BY <1>7 DEF RecordFrame
  <2> QED BY <2>1, <1>3
<1>8. CASE Joins \/ Announce \/ UNCHANGED vars
  <2>1. UNCHANGED <<logVars, restarts>>
    BY <1>8 DEF Joins, Join, ProcessJoin, LoseJoin, Announce, vars, logVars
  <2> QED BY <2>1, <1>3
<1>9. CASE (\E f \in Frame : HearFrame(f)) \/ CountFrame \/ RecordFails
  <2>1. UNCHANGED <<logVars, restarts>>
    BY <1>9 DEF HearFrame, CountFrame, RecordFails, logVars
  <2> QED BY <2>1, <1>3
<1> QED BY <1>4, <1>5, <1>6, <1>7, <1>8, <1>9 DEF Next, Frames, Restarts

LEMMA RetentionInitially == Init => RetentionInv
<1> SUFFICES ASSUME Init PROVE RetentionInv  OBVIOUS
<1>1. Backlog \in Nat /\ Len(rows) = 0 /\ trimmed = 0
  <2>1. TypeOK  BY TypesInitially
  <2> QED BY <2>1, BacklogNat DEF Backlog, Init
<1> QED BY <1>1, RfLogAssumption DEF RetentionInv, NewestKept

LEMMA RetentionInvariance == Spec => [](TypeOK /\ RetentionInv)
<1> QED BY TypesInitially, TypesKept, RetentionInitially, RetentionKept, PTL DEF Spec

(* The log stays bounded, by TrimEvery for each process that there was.    *)
THEOREM RetentionHolds == Spec => []RetentionBounded
<1>1. TypeOK /\ RetentionInv => RetentionBounded
  <2> SUFFICES ASSUME TypeOK, RetentionInv PROVE RetentionBounded  OBVIOUS
  <2> DEFINE back == TrimEvery * restarts  rest == inserts % TrimEvery
  <2>1. /\ Len(rows) \in Nat /\ back \in Nat /\ rest \in 0 .. (TrimEvery - 1)
        /\ TrimEvery * (restarts + 1) = back + TrimEvery
        /\ Retention \in Nat /\ TrimEvery \in Nat
    BY BacklogNat, RfLogAssumption
  <2>2. Len(rows) <= Retention + (back + rest)  BY DEF RetentionInv, Backlog
  <2> HIDE DEF back, rest
  <2>3. Len(rows) < Retention + (back + TrimEvery)  BY <2>1, <2>2
  <2> QED BY <2>1, <2>3 DEF RetentionBounded
<1> QED BY <1>1, RetentionInvariance, PTL

(* Trimming never takes one of the newest Retention rows.                  *)
THEOREM NewestRowsKept == Spec => []NewestKept
<1>1. TypeOK /\ RetentionInv => NewestKept  BY DEF RetentionInv
<1> QED BY <1>1, RetentionInvariance, PTL
-----------------------------------------------------------------------------
(* Who is in the survey. *)

(* A row that an own device may have: one of a session whose DevAddr was   *)
(* missed, or a join-request of before its first join.                     *)
Excused(f, gaps) == f.from \in Devices => \/ <<f.from, f.session>> \in gaps
                                          \/ f.mtype = "join" /\ f.session = 0

(* As soon as its join event is handled, the cockpit knows a device by its *)
(* current session, or has missed that one; and so the frame in hand is    *)
(* excused if it is taken for foreign.                                     *)
ForeignInv ==
  /\ \A d \in Devices \ joined : known[d] = session[d] \/ <<d, session[d]>> \in missed
  /\ ingest.at \in {"count", "record"} /\ ingest.class \in {"foreign", "stranger"}
       => Excused(ingest.frame, missed)
  /\ \A i \in DOMAIN rows : Excused(rows[i], missed)

(* What was missed stays on record. *)
LEMMA MissedGrows == [Next]_vars => missed \subseteq missed'
  BY DEF Next, Joins, Frames, Restarts, Join, ProcessJoin, LoseJoin, HearFrame, CountFrame,
         RecordFrame, RecordFails, Announce, Restart, DieBeforeTrim, Boot, vars

LEMMA HeardIsExcused ==
  ASSUME TypeOK, NEW f \in Frame, OnAir(f), Class(f) \in {"foreign", "stranger"},
         \A d \in Devices \ joined : known[d] = session[d] \/ <<d, session[d]>> \in missed
  PROVE  Excused(f, missed)
<1> SUFFICES ASSUME f.from \in Devices, <<f.from, f.session>> \notin missed
             PROVE  f.mtype = "join" /\ f.session = 0
  BY DEF Excused
<1>1. f.mtype \in {"join", "data"} /\ f.session = session[f.from] /\ f.from \notin joined
  BY DEF Frame, OnAir
<1>2. known[f.from] = f.session  BY <1>1
<1>3. f.mtype # "data"
  <2> SUFFICES ASSUME f.mtype = "data" PROVE FALSE  OBVIOUS
  <2>1. f.session # 0  BY DEF OnAir
  <2>2. f.from \in KnownEuis  BY <1>2, <2>1 DEF KnownEuis
  <2>3. <<f.from, f.session>> \in KnownAddrs  BY <1>2, <2>2 DEF KnownAddrs
  <2>4. Class(f) = "own"  BY <2>3 DEF Class
  <2> QED BY <2>4
<1>4. f.from \notin KnownEuis  BY <1>1, <1>3 DEF Class
<1>5. known[f.from] = 0  BY <1>4 DEF KnownEuis
<1> QED BY <1>1, <1>2, <1>3, <1>5

LEMMA ForeignKept == TypeOK /\ ForeignInv /\ [Next]_vars => ForeignInv'
<1> SUFFICES ASSUME TypeOK, ForeignInv, [Next]_vars PROVE ForeignInv'
  OBVIOUS
<1> USE DEF logVars
<1>0. missed \subseteq missed' /\ rows \in Seq(Frame)
  BY MissedGrows DEF TypeOK
<1>1. ASSUME ingest' = ingest \/ ingest'.at \in {"idle", "announce"}, rows' = rows,
             \A d \in Devices \ joined' : known'[d] = session'[d] \/ <<d, session'[d]>> \in missed'
      PROVE  ForeignInv'
  <2>1. \A i \in DOMAIN rows' : Excused(rows'[i], missed')
    <3> SUFFICES ASSUME NEW i \in DOMAIN rows PROVE Excused(rows'[i], missed')
      BY <1>1
    <3>1. PICK f : f = rows[i] /\ f = rows'[i]  BY <1>1
    <3>2. Excused(f, missed)  BY <3>1 DEF ForeignInv
    <3> QED BY <1>0, <3>1, <3>2 DEF Excused
  <2>2. ingest'.at \in {"count", "record"} /\ ingest'.class \in {"foreign", "stranger"}
          => Excused(ingest'.frame, missed')
    BY <1>0, <1>1 DEF ForeignInv, Excused
  <2> QED BY <1>1, <2>1, <2>2 DEF ForeignInv, Excused
<1>2. ASSUME NEW d \in Devices, Join(d) PROVE ForeignInv'
  BY <1>1, <1>2 DEF Join, ForeignInv, TypeOK
<1>3. ASSUME NEW d \in Devices, ProcessJoin(d) PROVE ForeignInv'
  BY <1>1, <1>3 DEF ProcessJoin, ForeignInv, TypeOK
<1>4. ASSUME NEW d \in Devices, LoseJoin(d) PROVE ForeignInv'
  <2>1. \A e \in Devices \ joined' : known'[e] = session'[e] \/ <<e, session'[e]>> \in missed'
    BY <1>4 DEF LoseJoin, ForeignInv
  <2> QED BY <1>1, <1>4, <2>1 DEF LoseJoin
<1>5. ASSUME NEW f \in Frame, HearFrame(f) PROVE ForeignInv'
  <2>1. Class(f) \in {"foreign", "stranger"} => Excused(f, missed)
    BY <1>5, HeardIsExcused DEF HearFrame, ForeignInv
  <2>2. ingest'.class = Class(f) /\ ingest'.frame = f
        /\ UNCHANGED <<session, joined, known, rows, missed>>
    BY <1>5 DEF HearFrame
  <2> QED BY <2>1, <2>2 DEF ForeignInv, Excused
<1>6. CASE CountFrame
  <2>1. /\ ingest.at = "count" /\ ingest'.class = ingest.class /\ ingest'.frame = ingest.frame
        /\ UNCHANGED <<session, joined, known, rows, missed>>
    BY <1>6 DEF CountFrame, TypeOK
  <2> QED BY <2>1 DEF ForeignInv, Excused
<1>7. CASE RecordFrame
  <2>1. missed' = missed /\ known' = known /\ session' = session /\ joined' = joined
    BY <1>7 DEF RecordFrame
  <2>2. ingest'.at = "announce"  BY <1>7 DEF RecordFrame, TypeOK
  <2>3. \A i \in DOMAIN rows' : Excused(rows'[i], missed)
    <3>1. CASE IsForeign
      <4>1. Excused(ingest.frame, missed)  BY <1>7, <3>1 DEF RecordFrame, ForeignInv, IsForeign
      <4>2. TrimDue \in BOOLEAN /\ AppendRow(TrimDue)  BY <1>7, <3>1 DEF RecordFrame, TrimDue
      <4>3. \A i \in DOMAIN rows' :
              rows'[i] = ingest.frame \/ \E j \in DOMAIN rows : rows'[i] = rows[j]
        BY <4>2, AppendingRow
      <4>4. \A j \in DOMAIN rows : Excused(rows[j], missed)  BY DEF ForeignInv
      <4> QED BY <4>1, <4>3, <4>4
    <3>2. CASE ~IsForeign  BY <1>7, <3>2 DEF RecordFrame, ForeignInv
    <3> QED BY <3>1, <3>2
  <2> QED BY <2>1, <2>2, <2>3 DEF ForeignInv, Excused
<1>8. CASE RecordFails
  BY <1>1, <1>8 DEF RecordFails, ForeignInv, TypeOK
<1>9. CASE Announce
  BY <1>1, <1>9 DEF Announce, ForeignInv, Idle
<1>10. ASSUME Boot, session' = session
       PROVE  /\ \A d \in Devices \ joined' : known'[d] = session'[d] \/ <<d, session'[d]>> \in missed'
              /\ ingest'.at = "idle"
  <2>1. PICK S \in SUBSET Devices :
          /\ known' = Fetched(S)
          /\ missed' = missed \cup {<<d, session[d]>> : d \in {e \in Devices \ S : session[e] # 0}}
    BY <1>10 DEF Boot
  <2>2. ASSUME NEW d \in Devices PROVE known'[d] = session[d] \/ <<d, session[d]>> \in missed'
    BY <2>1 DEF Fetched
  <2> QED BY <1>10, <2>2 DEF Boot, Idle
<1>11. CASE Restart
  <2>1. Boot /\ session' = session /\ rows' = rows  BY <1>11 DEF Restart
  <2> QED BY <1>1, <1>10, <2>1
<1>12. CASE DieBeforeTrim
  <2>1. Boot /\ session' = session  BY <1>12 DEF DieBeforeTrim
  <2>2. Excused(ingest.frame, missed)  BY <1>12 DEF DieBeforeTrim, ForeignInv, IsForeign
  <2>3. \A i \in DOMAIN rows : Excused(rows[i], missed)  BY DEF ForeignInv
  <2>4. rows' = Append(rows, ingest.frame) /\ rows \in Seq(Frame)
    BY <1>12 DEF DieBeforeTrim, TypeOK
  <2>5. \A i \in DOMAIN rows' :
          rows'[i] = ingest.frame \/ (i \in DOMAIN rows /\ rows'[i] = rows[i])
    <3> SUFFICES ASSUME NEW i \in DOMAIN rows', i # Len(rows) + 1
                 PROVE  i \in DOMAIN rows /\ rows'[i] = rows[i]
      BY <2>4
    <3>1. i \in 1 .. Len(rows)  BY <2>4
    <3> QED BY <2>4, <3>1
  <2>6. \A i \in DOMAIN rows' : Excused(rows'[i], missed)  BY <2>2, <2>3, <2>5
  <2> QED BY <1>0, <1>10, <2>1, <2>6 DEF ForeignInv, Excused
<1>13. CASE UNCHANGED vars
  BY <1>1, <1>13 DEF vars, ForeignInv
<1> QED BY <1>2, <1>3, <1>4, <1>5, <1>6, <1>7, <1>8, <1>9, <1>11, <1>12, <1>13
        DEF Next, Joins, Frames, Restarts

(* No data frame of an own device is surveyed as foreign, unless it is of  *)
(* a session whose DevAddr was missed: no other session, and no other      *)
(* device, is mistaken.                                                    *)
THEOREM SurveyOnlyForeign == Spec => []SurveyIsForeign
<1>1. Init => ForeignInv
  BY DEF Init, ForeignInv, Idle
<1>2. ForeignInv => SurveyIsForeign
  BY DEF ForeignInv, SurveyIsForeign, Excused
<1> QED BY <1>1, <1>2, TypesInitially, TypesKept, ForeignKept, PTL DEF Spec
-----------------------------------------------------------------------------
(* The counters and the tables. *)

LEMMA CountersKept == TypeOK /\ CountersAgree /\ [Next]_vars => CountersAgree'
<1> SUFFICES ASSUME TypeOK, CountersAgree, [Next]_vars PROVE CountersAgree'  OBVIOUS
<1> USE DEF logVars
<1>0. /\ coex.frames \in Nat /\ coex.own \in Nat /\ coex.foreign \in Nat /\ coex.unknown \in Nat
      /\ Recorded \in Nat /\ ownStat \in Nat /\ Len(rows) \in Nat /\ trimmed \in Nat
      /\ coex \in CoexType
      /\ ingest.class \in {"own", "foreign", "stranger", "unknown"}
  BY DEF TypeOK, CoexType, Recorded
<1>1. CASE UNCHANGED <<coex, ingest, logVars, ownStat, spared>>
  BY <1>1 DEF CountersAgree, Recorded
<1>2. ASSUME NEW f \in Frame, HearFrame(f) PROVE CountersAgree'
  <2>1. coex' = [coex EXCEPT !.frames = @ + 1]  BY <1>2 DEF HearFrame
  <2>2. /\ coex'.frames = coex.frames + 1 /\ coex'.own = coex.own
        /\ coex'.foreign = coex.foreign /\ coex'.unknown = coex.unknown
    BY <1>0, <2>1 DEF CoexType
  <2>3. ingest.at = "idle" /\ ingest'.at = "count"  BY <1>2 DEF HearFrame
  <2>4. Recorded' = Recorded /\ ownStat' = ownStat /\ spared' = spared
    BY <1>2 DEF HearFrame, Recorded
  <2> QED BY <1>0, <2>2, <2>3, <2>4 DEF CountersAgree
<1>3. CASE CountFrame
  <2>1. ingest.at = "count" /\ ingest'.at = "record" /\ ingest'.class = ingest.class
    BY <1>3 DEF CountFrame, TypeOK
  <2>2. Recorded' = Recorded /\ ownStat' = ownStat /\ spared' = spared
    BY <1>3 DEF CountFrame, Recorded
  <2>3. CASE ingest.class = "own"
    <3>1. coex' = [coex EXCEPT !.own = @ + 1]  BY <1>3, <2>3 DEF CountFrame
    <3>2. /\ coex'.frames = coex.frames /\ coex'.own = coex.own + 1
          /\ coex'.foreign = coex.foreign /\ coex'.unknown = coex.unknown
      BY <1>0, <3>1 DEF CoexType
    <3> QED BY <1>0, <2>1, <2>2, <2>3, <3>2 DEF CountersAgree
  <2>4. CASE ingest.class = "foreign"
    <3>1. coex' = [coex EXCEPT !.foreign = @ + 1]  BY <1>3, <2>4 DEF CountFrame
    <3>2. /\ coex'.frames = coex.frames /\ coex'.own = coex.own
          /\ coex'.foreign = coex.foreign + 1 /\ coex'.unknown = coex.unknown
      BY <1>0, <3>1 DEF CoexType
    <3> QED BY <1>0, <2>1, <2>2, <2>4, <3>2 DEF CountersAgree
  <2>5. CASE ingest.class \in {"stranger", "unknown"}
    <3>1. coex' = [coex EXCEPT !.unknown = @ + 1]  BY <1>3, <2>5 DEF CountFrame
    <3>2. /\ coex'.frames = coex.frames /\ coex'.own = coex.own
          /\ coex'.foreign = coex.foreign /\ coex'.unknown = coex.unknown + 1
      BY <1>0, <3>1 DEF CoexType
    <3> QED BY <1>0, <2>1, <2>2, <2>5, <3>2 DEF CountersAgree
  <2> QED BY <1>0, <2>3, <2>4, <2>5
<1>4. CASE RecordFrame
  <2>1. /\ ingest.at = "record" /\ ingest'.at = "announce"
        /\ coex' = coex /\ spared' = spared
    BY <1>4 DEF RecordFrame, TypeOK
  <2>2. CASE IsForeign
    <3>1. TrimDue \in BOOLEAN /\ AppendRow(TrimDue)  BY <1>4, <2>2 DEF RecordFrame, TrimDue
    <3>2. PICK cut \in Nat : Len(rows') = Len(rows) + 1 - cut /\ trimmed' = trimmed + cut
      BY <3>1, AppendingRow
    <3>3. Recorded' = Recorded + 1  BY <1>0, <3>2 DEF Recorded
    <3>4. ownStat' = ownStat  BY <1>4, <2>2 DEF RecordFrame, IsForeign
    <3> QED BY <1>0, <2>1, <2>2, <3>3, <3>4 DEF CountersAgree, IsForeign
  <2>3. CASE ~IsForeign
    <3>1. Recorded' = Recorded  BY <1>4, <2>3 DEF RecordFrame, Recorded
    <3>2. ownStat' = IF ingest.class = "own" THEN ownStat + 1 ELSE ownStat
      BY <1>4 DEF RecordFrame
    <3> QED BY <1>0, <2>1, <2>3, <3>1, <3>2 DEF CountersAgree, IsForeign
  <2> QED BY <2>2, <2>3
<1>5. CASE RecordFails
  <2>1. ingest.at = "record" /\ ingest'.at = "announce" /\ coex' = coex /\ spared' = FALSE
    BY <1>5 DEF RecordFails, TypeOK
  <2> QED BY <2>1 DEF CountersAgree
<1>6. CASE Announce
  <2>1. ingest.at = "announce" /\ ingest'.at = "idle" /\ coex' = coex /\ spared' = spared
        /\ Recorded' = Recorded /\ ownStat' = ownStat
    BY <1>6 DEF Announce, Idle, Recorded
  <2> QED BY <2>1 DEF CountersAgree
<1>7. CASE Boot
  <2>1. coex' = NoCounts /\ ingest'.at = "idle" /\ spared' = FALSE  BY <1>7 DEF Boot, Idle
  <2> QED BY <2>1 DEF CountersAgree, NoCounts
<1>8. CASE Joins \/ UNCHANGED vars
  <2>1. UNCHANGED <<coex, ingest, logVars, ownStat, spared>>
    BY <1>8 DEF Joins, Join, ProcessJoin, LoseJoin, vars
  <2> QED BY <2>1, <1>1
<1> QED BY <1>2, <1>3, <1>4, <1>5, <1>6, <1>7, <1>8
        DEF Next, Frames, Restarts, Restart, DieBeforeTrim

(* The live counters add up and agree with the tables.                     *)
THEOREM CountersAlwaysAgree == Spec => []CountersAgree
<1>1. Init => CountersAgree
  BY DEF Init, CountersAgree, Idle, NoCounts, Recorded
<1> QED BY <1>1, TypesInitially, TypesKept, CountersKept, PTL DEF Spec
=============================================================================
