---------------------------- MODULE EventLogProofs ----------------------------
(***************************************************************************)
(* The event log, in the database and on the page.                         *)
(*                                                                         *)
(* First what init_schema leaves behind, for every set of columns and of   *)
(* legacy runs, and every sequence of kills, power losses and restarts:    *)
(* the claims are made of every committed state, as a loss of power makes  *)
(* any of them the current one.  Then the pages in which it is read.       *)
(***************************************************************************)
EXTENDS Migration, EventPage, FiniteSetTheorems, TLAPS

LegacyRuns == [r \in RunIds |-> IF r \in LegacyEnded THEN "ended"
                                ELSE IF r \in Legacy THEN "running" ELSE "absent"]

EventOf(r, type, source) == [run |-> r, type |-> type, source |-> source]

(* A committed state, read by itself. *)
Rows(state, r, type, source) == state.event[EventOf(r, type, source)]

LegacyBackfilled(state) ==
  \A r \in Legacy : /\ Rows(state, r, "run_started", "backfill") > 0
                    /\ r \in LegacyEnded => Rows(state, r, "run_stopped", "backfill") > 0

(* Nothing is measured before the version is set, and nothing of what is   *)
(* measured after it is backfilled.                                        *)
BackfillOf(state) ==
  /\ state.version # Version => state.run = LegacyRuns
  /\ state.version = Version => LegacyBackfilled(state)
  /\ \A r \in RunIds, type \in EventTypes :
       Rows(state, r, type, "backfill") > 0 => r \in Legacy /\ (type = "run_stopped" => r \in LegacyEnded)

LiveOf(state) ==
  \A r \in RunIds :
    /\ Rows(state, r, "run_started", "live") > 0 => state.run[r] # "absent"
    /\ Rows(state, r, "run_stopped", "live") > 0 => state.run[r] = "ended"
    /\ \A type \in EventTypes : Rows(state, r, type, "live") <= 1

Sound(state) == BackfillOf(state) /\ LiveOf(state)

(* What each step of init_schema, and a method with an event to record,    *)
(* may rely on in the current state.                                       *)
PhaseKnows ==
  /\ phase \in {"migrate", "version", "serving"} => db.columns = Columns
  /\ phase = "version" => LegacyBackfilled(db)
  /\ phase = "serving" => db.version = Version

PendingIsNew ==
  pending # NoEvent =>
    /\ phase = "serving"
    /\ Rows(db, pending.run, pending.type, "live") = 0
    /\ db.run[pending.run] = IF pending.type = "run_started" THEN "running" ELSE "ended"

Inv == /\ TypeOK /\ PhaseKnows /\ PendingIsNew
       /\ \A i \in DOMAIN wal : Sound(wal[i])

-----------------------------------------------------------------------------
LEMMA AnEvent ==
  ASSUME NEW r \in RunIds, NEW type \in EventTypes, NEW source \in {"live", "backfill"}
  PROVE  EventOf(r, type, source) \in Events
  BY DEF Events, EventOf

LEMMA CurrentState ==
  ASSUME Inv
  PROVE  /\ wal \in Seq(Database) /\ Len(wal) \in Nat /\ Len(wal) \in DOMAIN wal
         /\ db \in Database /\ Sound(db)
  <1>1. wal \in Seq(Database) /\ wal # <<>>
    BY DEF Inv, TypeOK
  <1>2. Len(wal) \in Nat /\ Len(wal) \in DOMAIN wal
    BY <1>1
  <1> QED
    BY <1>1, <1>2 DEF Inv, db

(* The columns of a state, and a state with events added. *)
LEMMA StateFields ==
  ASSUME NEW s \in Database
  PROVE  /\ s.columns \subseteq Columns /\ s.version \in {0, Version}
         /\ s.run \in [RunIds -> {"absent", "running", "ended"}] /\ s.event \in [Events -> Nat]
         /\ \A r \in RunIds, type \in EventTypes, source \in {"live", "backfill"} :
              Rows(s, r, type, source) \in Nat
  <1>1. /\ s.columns \subseteq Columns /\ s.version \in {0, Version}
        /\ s.run \in [RunIds -> {"absent", "running", "ended"}] /\ s.event \in [Events -> Nat]
    BY DEF Database, Version
  <1> QED
    BY <1>1, AnEvent DEF Rows

LEMMA WithEvents ==
  ASSUME Inv, NEW events \in SUBSET Events, NEW s, s = Recorded(events)
  PROVE  /\ s \in Database
         /\ s.columns = db.columns /\ s.version = db.version /\ s.run = db.run
         /\ \A r \in RunIds, type \in EventTypes, source \in {"live", "backfill"} :
              Rows(s, r, type, source) = Rows(db, r, type, source)
                + (IF EventOf(r, type, source) \in events THEN 1 ELSE 0)
  <1>1. db \in Database /\ db.event \in [Events -> Nat]
    BY CurrentState, StateFields
  <1>2. PICK counts : counts = [e \in Events |-> IF e \in events THEN db.event[e] + 1 ELSE db.event[e]]
    OBVIOUS
  <1>3. counts \in [Events -> Nat]
    BY <1>1, <1>2
  <1>4. s = [db EXCEPT !.event = counts]
    BY <1>2 DEF Recorded
  <1>5. /\ s \in Database /\ s.event = counts
        /\ s.columns = db.columns /\ s.version = db.version /\ s.run = db.run
    BY <1>1, <1>3, <1>4 DEF Database
  <1>6. \A e \in Events : counts[e] = db.event[e] + (IF e \in events THEN 1 ELSE 0)
    BY <1>1, <1>2
  <1> QED
    BY <1>5, <1>6, AnEvent DEF Rows

LEMMA Committed ==
  ASSUME Inv, NEW s \in Database, Sound(s), Commit(s)
  PROVE  /\ wal' \in Seq(Database) /\ wal' # <<>> /\ db' = s
         /\ \A i \in DOMAIN wal' : Sound(wal'[i])
  <1>1. wal \in Seq(Database) /\ wal' = Append(wal, s) /\ Len(wal) \in Nat
    BY CurrentState DEF Commit
  <1>2. /\ wal' \in Seq(Database) /\ Len(wal') = Len(wal) + 1 /\ wal'[Len(wal) + 1] = s
        /\ \A i \in 1..Len(wal) : wal'[i] = wal[i]
    BY <1>1
  <1>3. wal' # <<>> /\ DOMAIN wal' = 1..(Len(wal) + 1) /\ DOMAIN wal = 1..Len(wal)
    BY <1>1, <1>2
  <1>4. db' = s
    BY <1>2 DEF db
  <1>5. ASSUME NEW i \in DOMAIN wal' PROVE Sound(wal'[i])
    <2>1. i = Len(wal) + 1 \/ i \in 1..Len(wal)
      BY <1>1, <1>3
    <2> QED
      BY <1>2, <1>3, <2>1 DEF Inv
  <1> QED
    BY <1>2, <1>3, <1>4, <1>5

LEMMA InvInit == Init => Inv
  <1> SUFFICES ASSUME Init PROVE Inv
    OBVIOUS
  <1>1. PICK columns \in SUBSET Columns :
          wal = <<[columns |-> columns, version |-> 0, run |-> LegacyRuns,
                   event |-> [e \in Events |-> 0]]>>
    BY DEF Init, LegacyRuns
  <1>2. phase = "down" /\ pending = NoEvent
    BY DEF Init
  <1>3. PICK s : s = [columns |-> columns, version |-> 0, run |-> LegacyRuns,
                      event |-> [e \in Events |-> 0]]
    OBVIOUS
  <1>4. s \in Database
    BY <1>3 DEF Database, Version, LegacyRuns
  <1>5. Sound(s)
    <2>1. s.version = 0 /\ s.run = LegacyRuns /\ s.event = [e \in Events |-> 0]
      BY <1>3
    <2>2. \A r \in RunIds, type \in EventTypes, source \in {"live", "backfill"} :
            Rows(s, r, type, source) = 0
      BY <2>1, AnEvent DEF Rows
    <2>3. "run_started" \in EventTypes /\ "run_stopped" \in EventTypes
      BY DEF EventTypes
    <2> QED
      BY <2>1, <2>2, <2>3 DEF Sound, BackfillOf, LiveOf, Version
  <1>6. wal \in Seq(Database) /\ wal # <<>> /\ DOMAIN wal = {1} /\ wal[1] = s
    BY <1>1, <1>3, <1>4
  <1> QED
    BY <1>2, <1>5, <1>6 DEF Inv, TypeOK, PhaseKnows, PendingIsNew

-----------------------------------------------------------------------------
LEMMA ColumnAdded ==
  ASSUME Inv, NEW c \in Columns, AddColumn(c)
  PROVE  Inv'
  <1>1. PICK s : s = [db EXCEPT !.columns = @ \cup {c}]
    OBVIOUS
  <1>2. db \in Database /\ Sound(db)
    BY CurrentState
  <1>3. s \in Database /\ s.version = db.version /\ s.run = db.run /\ s.event = db.event
    BY <1>1, <1>2 DEF Database
  <1>4. Sound(s)
    BY <1>2, <1>3 DEF Sound, BackfillOf, LegacyBackfilled, LiveOf, Rows
  <1>5. Commit(s) /\ phase = "columns" /\ UNCHANGED <<phase, pending>>
    BY <1>1 DEF AddColumn
  <1> QED
    BY <1>3, <1>4, <1>5, Committed DEF Inv, TypeOK, PhaseKnows, PendingIsNew

LEMMA Backfilling ==
  ASSUME Inv, Migrate
  PROVE  Inv'
  <1>1. PICK s : s = Recorded(Backfilled(db))
    OBVIOUS
  <1>2. /\ phase = "migrate" /\ db.version < Version /\ Commit(s) /\ phase' = "version"
        /\ UNCHANGED pending /\ db.columns = Columns
    BY <1>1 DEF Migrate, Inv, PhaseKnows
  <1>3. db \in Database /\ Sound(db) /\ db.run = LegacyRuns /\ db.version = 0
    BY <1>2, CurrentState, StateFields DEF Sound, BackfillOf, Version
  <1>4. ASSUME NEW r \in RunIds, NEW type \in EventTypes
        PROVE  EventOf(r, type, "backfill") \in Backfilled(db)
                 <=> IF type = "run_started" THEN r \in Legacy ELSE r \in LegacyEnded
    <2>1. EventOf(r, type, "backfill") \in Events
      BY AnEvent
    <2>2. type = "run_started" \/ type = "run_stopped"
      BY DEF EventTypes
    <2>3. /\ db.run[r] # "absent" <=> r \in Legacy
          /\ db.run[r] = "ended" <=> r \in LegacyEnded
      BY <1>3, MigrationAssumption DEF LegacyRuns
    <2> QED
      BY <2>1, <2>2, <2>3 DEF Backfilled, EventOf
  <1>5. ASSUME NEW r, NEW type
        PROVE  EventOf(r, type, "live") \notin Backfilled(db)
    BY DEF Backfilled, EventOf
  <1>6. Backfilled(db) \in SUBSET Events
    BY DEF Backfilled
  <1>7. /\ s \in Database /\ s.columns = db.columns /\ s.version = db.version /\ s.run = db.run
        /\ \A r \in RunIds, type \in EventTypes, source \in {"live", "backfill"} :
             Rows(s, r, type, source) = Rows(db, r, type, source)
               + (IF EventOf(r, type, source) \in Backfilled(db) THEN 1 ELSE 0)
    BY <1>1, <1>6, WithEvents
  <1>8. \A r \in RunIds, type \in EventTypes, source \in {"live", "backfill"} :
          Rows(db, r, type, source) \in Nat
    BY <1>3, StateFields
  <1>9. \A r \in RunIds, type \in EventTypes : Rows(s, r, type, "live") = Rows(db, r, type, "live")
    BY <1>5, <1>7, <1>8
  <1>10. \A r \in RunIds, type \in EventTypes :
           (IF type = "run_started" THEN r \in Legacy ELSE r \in LegacyEnded)
             => Rows(s, r, type, "backfill") > 0
    BY <1>4, <1>7, <1>8
  <1>11. \A r \in RunIds, type \in EventTypes :
           Rows(s, r, type, "backfill") > 0
             => r \in Legacy /\ (type = "run_stopped" => r \in LegacyEnded)
    <2> SUFFICES ASSUME NEW r \in RunIds, NEW type \in EventTypes, Rows(s, r, type, "backfill") > 0
                 PROVE  r \in Legacy /\ (type = "run_stopped" => r \in LegacyEnded)
      OBVIOUS
    <2>1. CASE EventOf(r, type, "backfill") \in Backfilled(db)
      BY <1>4, <2>1, MigrationAssumption
    <2>2. CASE EventOf(r, type, "backfill") \notin Backfilled(db)
      <3>1. Rows(db, r, type, "backfill") > 0
        BY <1>7, <1>8, <2>2
      <3> QED
        BY <1>3, <3>1 DEF Sound, BackfillOf
    <2> QED
      BY <2>1, <2>2
  <1>12. LegacyBackfilled(s)
    <2>1. "run_started" \in EventTypes /\ "run_stopped" \in EventTypes
      BY DEF EventTypes
    <2>2. Legacy \subseteq RunIds
      BY MigrationAssumption
    <2> QED
      BY <1>10, <2>1, <2>2 DEF LegacyBackfilled
  <1>13. Sound(s)
    <2>1. BackfillOf(s)
      BY <1>3, <1>7, <1>11, <1>12 DEF BackfillOf
    <2>2. LiveOf(s)
      <3>1. "run_started" \in EventTypes /\ "run_stopped" \in EventTypes
        BY DEF EventTypes
      <3> QED
        BY <1>3, <1>7, <1>9, <3>1 DEF Sound, LiveOf
    <2> QED
      BY <2>1, <2>2 DEF Sound
  <1>14. pending = NoEvent
    BY <1>2 DEF Inv, PendingIsNew
  <1> QED
    BY <1>2, <1>7, <1>12, <1>13, <1>14, Committed DEF Inv, TypeOK, PhaseKnows, PendingIsNew

LEMMA VersionSet ==
  ASSUME Inv, SetVersion
  PROVE  Inv'
  <1>1. PICK s : s = [db EXCEPT !.version = Version]
    OBVIOUS
  <1>2. /\ db \in Database /\ Sound(db) /\ phase = "version" /\ Commit(s) /\ phase' = "serving"
        /\ UNCHANGED pending /\ db.columns = Columns /\ LegacyBackfilled(db)
    BY <1>1, CurrentState DEF SetVersion, Inv, PhaseKnows
  <1>3. /\ s \in Database /\ s.version = Version /\ s.run = db.run /\ s.event = db.event
        /\ s.columns = db.columns
    BY <1>1, <1>2 DEF Database, Version
  <1>4. Sound(s)
    BY <1>2, <1>3 DEF Sound, BackfillOf, LegacyBackfilled, LiveOf, Rows
  <1>5. pending = NoEvent
    BY <1>2 DEF Inv, PendingIsNew
  <1> QED
    BY <1>2, <1>3, <1>4, <1>5, Committed DEF Inv, TypeOK, PhaseKnows, PendingIsNew

(* The row of a run is written with the version set, and its event is not  *)
(* there yet.                                                              *)
LEMMA RowWritten ==
  ASSUME Inv, NEW r \in RunIds, Free, UNCHANGED phase,
         \/ StartRun(r)
         \/ StopRun(r)
  PROVE  Inv'
  <1>1. PICK status \in {"running", "ended"}, type \in EventTypes :
          /\ Commit([db EXCEPT !.run[r] = status]) /\ pending' = [run |-> r, type |-> type]
          /\ IF type = "run_started" THEN db.run[r] = "absent" /\ status = "running"
             ELSE db.run[r] = "running" /\ status = "ended"
    BY DEF StartRun, StopRun, EventTypes
  <1>2. PICK s : s = [db EXCEPT !.run[r] = status]
    OBVIOUS
  <1>3. /\ db \in Database /\ Sound(db) /\ phase = "serving" /\ phase' = "serving"
        /\ db.columns = Columns /\ db.version = Version
    BY CurrentState DEF Free, Inv, PhaseKnows
  <1>4. /\ s \in Database /\ s.version = db.version /\ s.event = db.event /\ s.columns = db.columns
        /\ s.run = [db.run EXCEPT ![r] = status]
    BY <1>2, <1>3 DEF Database
  <1>5. db.run \in [RunIds -> {"absent", "running", "ended"}]
    BY <1>3, StateFields
  <1>6. s.run[r] = status /\ \A q \in RunIds \ {r} : s.run[q] = db.run[q]
    BY <1>4, <1>5
  <1>7. \A q \in RunIds, t \in EventTypes, source \in {"live", "backfill"} :
          /\ Rows(s, q, t, source) = Rows(db, q, t, source)
          /\ Rows(db, q, t, source) \in Nat
    BY <1>3, <1>4, StateFields DEF Rows
  <1>8. "run_started" \in EventTypes /\ "run_stopped" \in EventTypes
    BY DEF EventTypes
  <1>9. Rows(s, r, type, "live") = 0
    BY <1>1, <1>3, <1>7, <1>8 DEF Sound, LiveOf, EventTypes
  <1>10. Sound(s)
    <2>1. LegacyBackfilled(s)
      <3>1. \A q \in Legacy : q \in RunIds
        BY MigrationAssumption
      <3> QED
        BY <1>3, <1>7, <1>8, <3>1 DEF Sound, BackfillOf, LegacyBackfilled
    <2>2. BackfillOf(s)
      BY <1>3, <1>4, <1>7, <2>1 DEF Sound, BackfillOf
    <2>3. LiveOf(s)
      <3> SUFFICES ASSUME NEW q \in RunIds
                   PROVE  /\ Rows(s, q, "run_started", "live") > 0 => s.run[q] # "absent"
                          /\ Rows(s, q, "run_stopped", "live") > 0 => s.run[q] = "ended"
                          /\ \A t \in EventTypes : Rows(s, q, t, "live") <= 1
        BY DEF LiveOf
      <3>1. /\ Rows(s, q, "run_started", "live") > 0 => db.run[q] # "absent"
            /\ Rows(s, q, "run_stopped", "live") > 0 => db.run[q] = "ended"
            /\ \A t \in EventTypes : Rows(s, q, t, "live") <= 1
        BY <1>3, <1>7, <1>8 DEF Sound, LiveOf
      <3>2. CASE q = r
        BY <1>1, <1>6, <3>1, <3>2
      <3>3. CASE q # r
        BY <1>6, <3>1, <3>3
      <3> QED
        BY <3>2, <3>3
    <2> QED
      BY <2>2, <2>3 DEF Sound
  <1>11. PhaseKnows' /\ wal' \in Seq(Database) /\ wal' # <<>> /\ db' = s
         /\ \A i \in DOMAIN wal' : Sound(wal'[i])
    BY <1>1, <1>2, <1>3, <1>4, <1>10, Committed DEF PhaseKnows
  <1>12. pending' \in [run: RunIds, type: EventTypes] /\ pending'.run = r /\ pending'.type = type
    BY <1>1
  <1>13. PendingIsNew'
    BY <1>1, <1>3, <1>6, <1>9, <1>11, <1>12 DEF PendingIsNew
  <1> QED
    BY <1>3, <1>11, <1>12, <1>13 DEF Inv, TypeOK

LEMMA EventRecorded ==
  ASSUME Inv, RecordEvent
  PROVE  Inv'
  <1>1. PICK r \in RunIds, type \in EventTypes : pending = [run |-> r, type |-> type]
    BY DEF RecordEvent, Inv, TypeOK
  <1>2. PICK e : e = EventOf(r, type, "live")
    OBVIOUS
  <1>3. PICK s : s = Recorded({e})
    OBVIOUS
  <1>4. /\ db \in Database /\ Sound(db) /\ phase = "serving" /\ phase' = "serving"
        /\ db.columns = Columns /\ db.version = Version /\ pending' = NoEvent /\ Commit(s)
        /\ pending.run = r /\ pending.type = type /\ pending # NoEvent
    BY <1>1, <1>2, <1>3, CurrentState DEF RecordEvent, Live, EventOf, Inv, PhaseKnows
  <1>5. /\ s \in Database /\ s.columns = db.columns /\ s.version = db.version /\ s.run = db.run
        /\ \A q \in RunIds, t \in EventTypes, source \in {"live", "backfill"} :
             Rows(s, q, t, source) = Rows(db, q, t, source)
               + (IF EventOf(q, t, source) \in {e} THEN 1 ELSE 0)
    <2>1. {e} \in SUBSET Events
      BY <1>2, AnEvent
    <2> QED
      BY <1>3, <2>1, WithEvents
  <1>6. \A q \in RunIds, t \in EventTypes, source \in {"live", "backfill"} :
          Rows(db, q, t, source) \in Nat
    BY <1>4, StateFields
  <1>7. "run_started" \in EventTypes /\ "run_stopped" \in EventTypes
    BY DEF EventTypes
  <1>8. \A q \in RunIds, t \in EventTypes :
          /\ Rows(s, q, t, "backfill") = Rows(db, q, t, "backfill")
          /\ Rows(s, q, t, "live") = Rows(db, q, t, "live") + (IF q = r /\ t = type THEN 1 ELSE 0)
    <2>1. \A q, t : EventOf(q, t, "backfill") # e
      BY <1>2 DEF EventOf
    <2>2. \A q, t : EventOf(q, t, "live") = e <=> q = r /\ t = type
      BY <1>2 DEF EventOf
    <2> QED
      BY <1>5, <1>6, <2>1, <2>2
  <1>9. BackfillOf(s)
    <2>1. \A q \in Legacy : q \in RunIds
      BY MigrationAssumption
    <2>2. LegacyBackfilled(s)
      BY <1>4, <1>7, <1>8, <2>1 DEF Sound, BackfillOf, LegacyBackfilled
    <2> QED
      BY <1>4, <1>5, <1>8, <2>2 DEF Sound, BackfillOf
  <1>10. LiveOf(s)
    <2>1. /\ Rows(db, r, type, "live") = 0
          /\ db.run[r] = IF type = "run_started" THEN "running" ELSE "ended"
      BY <1>4 DEF Inv, PendingIsNew
    <2> SUFFICES ASSUME NEW q \in RunIds
                 PROVE  /\ Rows(s, q, "run_started", "live") > 0 => s.run[q] # "absent"
                        /\ Rows(s, q, "run_stopped", "live") > 0 => s.run[q] = "ended"
                        /\ \A t \in EventTypes : Rows(s, q, t, "live") <= 1
      BY DEF LiveOf
    <2>2. /\ Rows(db, q, "run_started", "live") > 0 => db.run[q] # "absent"
          /\ Rows(db, q, "run_stopped", "live") > 0 => db.run[q] = "ended"
          /\ \A t \in EventTypes : Rows(db, q, t, "live") <= 1
      BY <1>4 DEF Sound, LiveOf
    <2>3. CASE q = r
      <3>1. \A t \in EventTypes : Rows(s, q, t, "live") <= 1
        BY <1>6, <1>8, <2>1, <2>2, <2>3
      <3>2. Rows(s, q, "run_started", "live") > 0 => s.run[q] # "absent"
        BY <1>5, <1>6, <1>7, <1>8, <2>1, <2>2, <2>3
      <3>3. Rows(s, q, "run_stopped", "live") > 0 => s.run[q] = "ended"
        BY <1>5, <1>6, <1>7, <1>8, <2>1, <2>2, <2>3
      <3> QED
        BY <3>1, <3>2, <3>3
    <2>4. CASE q # r
      <3>1. \A t \in EventTypes : Rows(s, q, t, "live") = Rows(db, q, t, "live")
        BY <1>6, <1>8, <2>4
      <3> QED
        BY <1>5, <1>7, <2>2, <3>1
    <2> QED
      BY <2>3, <2>4
  <1>11. Sound(s)
    BY <1>9, <1>10 DEF Sound
  <1> QED
    BY <1>4, <1>5, <1>11, Committed DEF Inv, TypeOK, PhaseKnows, PendingIsNew

(* A crash forgets what is under way; a power loss, the last commits, too. *)
LEMMA Crashed ==
  ASSUME Inv, Kill \/ LosePower
  PROVE  Inv'
  <1>1. phase' = "down" /\ pending' = NoEvent
    BY DEF Kill, LosePower
  <1>2. wal \in Seq(Database) /\ wal # <<>> /\ Len(wal) \in Nat
    BY CurrentState DEF Inv, TypeOK
  <1>3. /\ wal' \in Seq(Database) /\ wal' # <<>>
        /\ \A i \in DOMAIN wal' : i \in DOMAIN wal /\ wal'[i] = wal[i]
    <2>1. CASE wal' = wal
      BY <1>2, <2>1
    <2>2. ASSUME NEW kept \in 1..Len(wal), wal' = SubSeq(wal, 1, kept)
          PROVE  /\ wal' \in Seq(Database) /\ wal' # <<>>
                 /\ \A i \in DOMAIN wal' : i \in DOMAIN wal /\ wal'[i] = wal[i]
      <3>1. Len(wal') = kept /\ \A i \in 1..kept : wal'[i] = wal[i]
        BY <1>2, <2>2
      <3>2. \A i \in 1..kept : i \in 1..Len(wal) /\ wal[i] \in Database
        BY <1>2
      <3>3. wal' \in Seq(Database)
        BY <1>2, <2>2
      <3> QED
        BY <1>2, <3>1, <3>2, <3>3
    <2> QED
      BY <2>1, <2>2 DEF Kill, LosePower
  <1> QED
    BY <1>1, <1>3 DEF Inv, TypeOK, PhaseKnows, PendingIsNew

LEMMA Checkpointed ==
  ASSUME Inv, Checkpoint
  PROVE  Inv'
  <1>1. db \in Database /\ Sound(db) /\ wal' = <<db>> /\ UNCHANGED <<phase, pending>>
    BY CurrentState DEF Checkpoint
  <1>2. wal' \in Seq(Database) /\ wal' # <<>> /\ DOMAIN wal' = {1} /\ wal'[1] = db /\ db' = db
    BY <1>1 DEF db
  <1> QED
    BY <1>1, <1>2 DEF Inv, TypeOK, PhaseKnows, PendingIsNew

LEMMA InvStep == Inv /\ [Next]_vars => Inv'
  <1> SUFFICES ASSUME Inv, [Next]_vars PROVE Inv'
    OBVIOUS
  <1>1. CASE Boot
    BY <1>1 DEF Boot, Inv, TypeOK, PhaseKnows, PendingIsNew, db
  <1>2. CASE ColumnsDone
    BY <1>2 DEF ColumnsDone, Inv, TypeOK, PhaseKnows, PendingIsNew, db
  <1>3. CASE MigrateNothing
    <2>1. db.version = Version
      BY <1>3, CurrentState, StateFields DEF MigrateNothing, Version
    <2> QED
      BY <1>3, <2>1 DEF MigrateNothing, Inv, TypeOK, PhaseKnows, PendingIsNew, db
  <1>4. CASE Shutdown
    BY <1>4 DEF Shutdown, Free, Inv, TypeOK, PhaseKnows, PendingIsNew, db
  <1>5. CASE UNCHANGED vars
    BY <1>5 DEF vars, Inv, TypeOK, PhaseKnows, PendingIsNew, db
  <1>6. ASSUME NEW r \in RunIds, StartRun(r) \/ StopRun(r) PROVE Inv'
    BY <1>6, RowWritten DEF StartRun, StopRun
  <1> QED
    BY <1>1, <1>2, <1>3, <1>4, <1>5, <1>6, ColumnAdded, Backfilling, VersionSet, EventRecorded,
       Crashed, Checkpointed DEF Next, InitSchema, Serve

THEOREM Invariance == Spec => []Inv
  BY InvInit, InvStep, PTL DEF Spec

(* The committed states, the phase and the pending event keep their types. *)
THEOREM TypeCorrect == Spec => []TypeOK
  BY Invariance, PTL DEF Inv

(***************************************************************************)
(* No request is served before every column is there and the backfill is   *)
(* done, wherever the earlier starts were killed or lost their power.      *)
(***************************************************************************)
THEOREM ServesOnlyMigrated == Spec => []ServesMigrated
  <1>1. Inv => ServesMigrated
    BY DEF Inv, PhaseKnows, ServesMigrated
  <1> QED
    BY <1>1, Invariance, PTL

(***************************************************************************)
(* A set version stands for a complete backfill of the earlier release's   *)
(* runs, and no run of this release is ever backfilled.                    *)
(***************************************************************************)
THEOREM BackfillIsComplete == Spec => []BackfillComplete
  <1>1. Inv => BackfillComplete
    BY CurrentState DEF Sound, BackfillOf, LegacyBackfilled, BackfillComplete, Rows, EventOf, Count
  <1> QED
    BY <1>1, Invariance, PTL

(***************************************************************************)
(* A live event never outlives its row, and is there at most once.         *)
(***************************************************************************)
THEOREM EventsKeepTheirRows == Spec => []EventsHaveTheirRows
  <1>1. Inv => EventsHaveTheirRows
    BY CurrentState DEF Sound, LiveOf, EventsHaveTheirRows, Rows, EventOf, Count
  <1> QED
    BY <1>1, Invariance, PTL

-----------------------------------------------------------------------------
(***************************************************************************)
(* The pages of the log, for every page size, every number of events and   *)
(* of requests in flight.  First the query's ORDER BY id DESC.             *)
(***************************************************************************)
(* s is S from its largest element to its smallest. *)
Lists(s, S) ==
  /\ s \in Seq(Nat)
  /\ \A a, b \in DOMAIN s : a < b => s[a] > s[b]
  /\ \A a \in DOMAIN s : s[a] \in S
  /\ \A i \in S : \E a \in DOMAIN s : s[a] = i

From(S, i) == {j \in S : j >= i}

LEMMA ListingByRank ==
  ASSUME NEW S
  PROVE  Listing(S) = [n \in 1..Cardinality(S) |-> CHOOSE i \in S : Cardinality(From(S, i)) = n]
  BY DEF Listing, From

LEMMA RankOf ==
  ASSUME NEW S \in SUBSET Nat, IsFiniteSet(S)
  PROVE  /\ \A i \in S : Cardinality(From(S, i)) \in 1..Cardinality(S)
         /\ \A i, j \in S : i < j => Cardinality(From(S, i)) > Cardinality(From(S, j))
<1>1. ASSUME NEW i \in S
      PROVE  /\ IsFiniteSet(From(S, i)) /\ Cardinality(From(S, i)) \in Nat
             /\ Cardinality(From(S, i)) <= Cardinality(S) /\ Cardinality(S) \in Nat
  <2>1. From(S, i) \in SUBSET S
    BY DEF From
  <2> QED BY <2>1, FS_Subset, FS_CardinalityType
<1>2. ASSUME NEW i \in S PROVE Cardinality(From(S, i)) # 0
  <2>1. i \in From(S, i)
    BY DEF From
  <2> QED BY <2>1, <1>1, FS_EmptySet
<1>3. ASSUME NEW i \in S, NEW j \in S, i < j
      PROVE  Cardinality(From(S, i)) > Cardinality(From(S, j))
  <2>0. i \in Nat /\ j \in Nat /\ \A k \in S : k \in Nat
    OBVIOUS
  <2>1. /\ From(S, j) \in SUBSET From(S, i)
        /\ i \in From(S, i) /\ i \notin From(S, j)
    <3>1. ASSUME NEW k \in From(S, j) PROVE k \in From(S, i)
      BY <1>3, <2>0 DEF From
    <3>2. i \in From(S, i) /\ i \notin From(S, j)
      BY <1>3, <2>0 DEF From
    <3> QED BY <3>1, <3>2
  <2>2. /\ Cardinality(From(S, j)) <= Cardinality(From(S, i))
        /\ Cardinality(From(S, i)) = Cardinality(From(S, j)) => From(S, i) = From(S, j)
    BY <2>1, <1>1, FS_Subset
  <2> QED BY <2>1, <2>2, <1>1
<1> QED BY <1>1, <1>2, <1>3

LEMMA EachRankOnce ==
  ASSUME NEW S \in SUBSET Nat, IsFiniteSet(S), NEW n \in 1..Cardinality(S)
  PROVE  \E i \in S : Cardinality(From(S, i)) = n
<1> DEFINE rank == [i \in S |-> Cardinality(From(S, i))]
<1>1. Cardinality(S) \in Nat
  BY FS_CardinalityType
<1>2. IsFiniteSet(1..Cardinality(S)) /\ Cardinality(1..Cardinality(S)) = Cardinality(S)
  BY <1>1, FS_Interval
<1>3. rank \in [S -> 1..Cardinality(S)]
  BY RankOf
<1>4. \A i, j \in S : rank[i] = rank[j] => i = j
  <2>1. SUFFICES ASSUME NEW i \in S, NEW j \in S, i < j PROVE rank[i] # rank[j]
    OBVIOUS
  <2>2. rank[i] > rank[j]
    BY <2>1, RankOf
  <2> QED BY <2>2, <1>3, <1>1
<1>5. rank \in Injection(S, 1..Cardinality(S))
  BY <1>3, <1>4 DEF Injection, IsInjective
<1>6. rank \in Surjection(S, 1..Cardinality(S))
  BY <1>5, <1>2, FS_Injection
<1>7. \E i \in S : rank[i] = n
  BY <1>6 DEF Surjection
<1> QED BY <1>7

(* The operator of the query does what its name says, and is the only one. *)
LEMMA ListingLists ==
  ASSUME NEW S \in SUBSET Nat, IsFiniteSet(S)
  PROVE  Lists(Listing(S), S)
<1> DEFINE s == Listing(S)
<1>1. Cardinality(S) \in Nat
  BY FS_CardinalityType
<1>2. /\ DOMAIN s = 1..Cardinality(S) /\ Len(s) = Cardinality(S)
      /\ s = [n \in 1..Cardinality(S) |-> CHOOSE i \in S : Cardinality(From(S, i)) = n]
  BY <1>1, ListingByRank
<1>3. \A n \in 1..Cardinality(S) : s[n] \in S /\ Cardinality(From(S, s[n])) = n
  BY <1>2, EachRankOnce
<1> HIDE DEF s
<1>4. ASSUME NEW n \in DOMAIN s PROVE s[n] \in Nat /\ n \in Int
  <2>1. n \in 1..Cardinality(S)
    BY <1>2
  <2>2. s[n] \in S
    BY <2>1, <1>3
  <2>3. s[n] \in Nat
    BY <2>2
  <2>4. n \in Int
    BY <2>1, <1>1
  <2> QED BY <2>3, <2>4
<1>5. s \in Seq(Nat)
  <2>1. s \in [1..Cardinality(S) -> Nat]
    BY <1>2, <1>4
  <2> QED BY <1>1, <2>1
<1>6. ASSUME NEW a \in DOMAIN s, NEW b \in DOMAIN s, a < b PROVE s[a] > s[b]
  <2>1. /\ s[a] \in S /\ s[b] \in S
        /\ Cardinality(From(S, s[a])) = a /\ Cardinality(From(S, s[b])) = b
        /\ s[a] \in Nat /\ s[b] \in Nat /\ a \in Int /\ b \in Int
    BY <1>2, <1>3, <1>4
  <2>2. s[a] # s[b] /\ ~(s[a] < s[b])
    BY <2>1, <1>6, RankOf
  <2> QED BY <2>1, <2>2
<1>7. ASSUME NEW i \in S PROVE \E a \in DOMAIN s : s[a] = i
  <2>1. PICK a \in DOMAIN s : a = Cardinality(From(S, i))
    BY <1>2, RankOf
  <2>2. /\ s[a] \in S /\ Cardinality(From(S, s[a])) = a
        /\ s[a] \in Nat /\ i \in Nat /\ a \in Int
    BY <1>2, <1>3, <1>4
  <2>3. ~(s[a] < i) /\ ~(i < s[a])
    BY <2>1, <2>2, RankOf
  <2> QED BY <2>2, <2>3
<1>8. Lists(s, S)
  BY <1>2, <1>3, <1>5, <1>6, <1>7 DEF Lists
<1> QED BY <1>8 DEF s

LEMMA OnlyListing ==
  ASSUME NEW S \in SUBSET Nat, NEW s, Lists(s, S)
  PROVE  s = Listing(S)
<1>1. /\ s \in Seq(Nat) /\ Len(s) \in Nat /\ DOMAIN s = 1..Len(s)
      /\ \A a, b \in DOMAIN s : a < b => s[a] > s[b]
      /\ \A a \in DOMAIN s : s[a] \in S /\ s[a] \in Nat
      /\ \A i \in S : \E a \in DOMAIN s : s[a] = i
  BY DEF Lists
<1>2. \A a, b \in DOMAIN s : s[a] = s[b] => a = b
  <2>1. SUFFICES ASSUME NEW a \in DOMAIN s, NEW b \in DOMAIN s, a < b PROVE s[a] # s[b]
    BY <1>1
  <2> QED BY <2>1, <1>1
<1>3. ASSUME NEW n \in 0..Len(s), NEW T, T = {s[a] : a \in 1..n}
      PROVE  IsFiniteSet(T) /\ Cardinality(T) = n
  <2> DEFINE f == [a \in 1..n |-> s[a]]
  <2>1. f \in Surjection(1..n, T)
    BY <1>3 DEF Surjection
  <2>2. f \in Injection(1..n, T)
    BY <1>3, <1>1, <1>2 DEF Injection, IsInjective
  <2>3. IsFiniteSet(1..n) /\ Cardinality(1..n) = n
    BY FS_Interval
  <2> QED BY <2>1, <2>2, <2>3, FS_Surjection
<1>4. IsFiniteSet(S) /\ Cardinality(S) = Len(s)
  <2>1. S = {s[a] : a \in 1..Len(s)}
    BY <1>1
  <2>2. Len(s) \in 0..Len(s)
    BY <1>1
  <2> QED BY <2>1, <2>2, <1>3
<1>5. ASSUME NEW n \in 1..Len(s)
      PROVE  s[n] = CHOOSE i \in S : Cardinality(From(S, i)) = n
  <2>1. From(S, s[n]) = {s[a] : a \in 1..n}
    <3>1. ASSUME NEW a \in 1..n PROVE s[a] \in From(S, s[n])
      <4>1. a \in DOMAIN s /\ n \in DOMAIN s /\ (a = n \/ a < n)
        BY <1>1
      <4> QED BY <4>1, <1>1 DEF From
    <3>2. ASSUME NEW i \in From(S, s[n]) PROVE \E a \in 1..n : s[a] = i
      <4>1. PICK a \in DOMAIN s : s[a] = i
        BY <1>1 DEF From
      <4>2. n \in DOMAIN s /\ ~(a > n)
        BY <4>1, <1>1 DEF From
      <4> QED BY <4>1, <4>2, <1>1
    <3> QED BY <3>1, <3>2
  <2>2. Cardinality(From(S, s[n])) = n
    BY <2>1, <1>3, <1>1
  <2>3. ASSUME NEW i \in S, Cardinality(From(S, i)) = n PROVE i = s[n]
    <3>1. ~(i < s[n]) /\ ~(s[n] < i)
      BY <2>2, <2>3, <1>4, <1>1, RankOf
    <3> QED BY <3>1, <1>1
  <2> QED BY <2>2, <2>3, <1>1
<1>6. s = [n \in 1..Cardinality(S) |-> CHOOSE i \in S : Cardinality(From(S, i)) = n]
  <2>1. s = [n \in 1..Len(s) |-> s[n]]
    BY <1>1
  <2> QED BY <2>1, <1>4, <1>5
<1> QED BY <1>6, ListingByRank

LEMMA Ends ==
  ASSUME NEW S \in SUBSET Nat, NEW s, Lists(s, S), s # <<>>
  PROVE  /\ Last(s) \in S /\ Head(s) \in S
         /\ \A i \in S : Last(s) <= i /\ i <= Head(s)
<1>1. /\ s \in Seq(Nat) /\ Len(s) \in Nat \ {0} /\ DOMAIN s = 1..Len(s)
      /\ Head(s) = s[1] /\ Last(s) = s[Len(s)]
      /\ 1 \in DOMAIN s /\ Len(s) \in DOMAIN s
  BY DEF Lists, Last
<1>2. ASSUME NEW i \in S PROVE s[Len(s)] <= i /\ i <= s[1]
  <2>1. PICK a \in DOMAIN s : s[a] = i
    BY DEF Lists
  <2>2. a = 1 \/ 1 < a
    BY <1>1
  <2>3. a = Len(s) \/ a < Len(s)
    BY <1>1
  <2>4. s[1] \in Nat /\ s[Len(s)] \in Nat /\ s[a] \in Nat
    BY <1>1
  <2> QED BY <1>1, <2>1, <2>2, <2>3, <2>4 DEF Lists
<1> QED BY <1>1, <1>2 DEF Lists

LEMMA Beginning ==
  ASSUME NEW S \in SUBSET Nat, NEW s, Lists(s, S), NEW k \in 1..Len(s)
  PROVE  /\ Lists(SubSeq(s, 1, k), From(S, s[k]))
         /\ Len(SubSeq(s, 1, k)) = k /\ Last(SubSeq(s, 1, k)) = s[k]
<1> DEFINE t == SubSeq(s, 1, k)
<1>1. s \in Seq(Nat) /\ Len(s) \in Nat /\ DOMAIN s = 1..Len(s) /\ k \in DOMAIN s /\ k \in Nat \ {0}
  BY DEF Lists
<1>2. /\ t \in Seq(Nat) /\ Len(t) = k /\ DOMAIN t = 1..k
      /\ \A a \in 1..k : t[a] = s[a] /\ a \in DOMAIN s /\ s[a] \in Nat
  BY <1>1
<1> HIDE DEF t
<1>3. \A a, b \in DOMAIN t : a < b => t[a] > t[b]
  BY <1>2 DEF Lists
<1>4. ASSUME NEW a \in DOMAIN t PROVE t[a] \in From(S, s[k])
  <2>1. t[a] = s[a] /\ s[a] \in S /\ (a = k \/ a < k)
    BY <1>1, <1>2 DEF Lists
  <2>2. s[a] >= s[k]
    BY <2>1, <1>1, <1>2 DEF Lists
  <2> QED BY <2>1, <2>2 DEF From
<1>5. ASSUME NEW i \in From(S, s[k]) PROVE \E a \in DOMAIN t : t[a] = i
  <2>1. PICK a \in DOMAIN s : s[a] = i
    BY DEF From, Lists
  <2>2. ~(k < a)
    BY <2>1, <1>1 DEF From, Lists
  <2>3. a \in 1..k
    BY <2>1, <2>2, <1>1
  <2> QED BY <2>1, <2>3, <1>2
<1>6. Last(t) = s[k]
  BY <1>1, <1>2 DEF Last
<1>7. Lists(t, From(S, s[k]))
  BY <1>2, <1>3, <1>4, <1>5 DEF Lists
<1> QED BY <1>2, <1>6, <1>7 DEF t

LEMMA Joined ==
  ASSUME NEW S \in SUBSET Nat, NEW T \in SUBSET Nat, NEW s, NEW t, Lists(s, S), Lists(t, T),
         \A i \in S, j \in T : i > j
  PROVE  Lists(s \o t, S \cup T)
<1> DEFINE u == s \o t
<1>1. /\ s \in Seq(Nat) /\ Len(s) \in Nat /\ DOMAIN s = 1..Len(s)
      /\ t \in Seq(Nat) /\ Len(t) \in Nat /\ DOMAIN t = 1..Len(t)
  BY DEF Lists
<1>2. /\ u \in Seq(Nat) /\ Len(u) = Len(s) + Len(t) /\ DOMAIN u = 1..(Len(s) + Len(t))
      /\ \A a \in DOMAIN s : a \in DOMAIN u /\ u[a] = s[a]
      /\ \A a \in DOMAIN t : Len(s) + a \in DOMAIN u /\ u[Len(s) + a] = t[a]
  BY <1>1
<1> HIDE DEF u
<1>3. ASSUME NEW a \in DOMAIN u
      PROVE  \/ a \in DOMAIN s /\ u[a] = s[a] /\ u[a] \in S
             \/ a - Len(s) \in DOMAIN t /\ u[a] = t[a - Len(s)] /\ u[a] \in T /\ a > Len(s)
  <2>1. a \in DOMAIN s \/ (a - Len(s) \in DOMAIN t /\ a > Len(s) /\ a = Len(s) + (a - Len(s)))
    BY <1>1, <1>2
  <2> QED BY <2>1, <1>2 DEF Lists
<1>4. ASSUME NEW a \in DOMAIN u, NEW b \in DOMAIN u, a < b PROVE u[a] > u[b]
  <2>0. a \in Nat /\ b \in Nat
    BY <1>1, <1>2
  <2>1. CASE a \in DOMAIN s /\ b \in DOMAIN s
    BY <2>1, <1>2, <1>4 DEF Lists
  <2>2. CASE a \in DOMAIN s /\ b \notin DOMAIN s
    <3>1. u[a] \in S
      BY <2>2, <1>2 DEF Lists
    <3>2. u[b] \in T
      BY <2>2, <1>3
    <3> QED BY <3>1, <3>2
  <2>3. CASE a \notin DOMAIN s
    <3>1. /\ a - Len(s) \in DOMAIN t /\ u[a] = t[a - Len(s)] /\ a > Len(s)
      BY <2>3, <1>3
    <3>2. b \notin DOMAIN s
      BY <3>1, <2>0, <1>4, <1>1
    <3>3. b - Len(s) \in DOMAIN t /\ u[b] = t[b - Len(s)]
      BY <3>2, <1>3
    <3>4. a - Len(s) < b - Len(s)
      BY <2>0, <1>4, <1>1
    <3> QED BY <3>1, <3>3, <3>4 DEF Lists
  <2> QED BY <2>1, <2>2, <2>3
<1>5. \A a \in DOMAIN u : u[a] \in S \cup T
  BY <1>3
<1>6. ASSUME NEW i \in S \cup T PROVE \E a \in DOMAIN u : u[a] = i
  <2>1. CASE i \in S
    <3>1. PICK a \in DOMAIN s : s[a] = i
      BY <2>1 DEF Lists
    <3> QED BY <3>1, <1>2
  <2>2. CASE i \in T
    <3>1. PICK a \in DOMAIN t : t[a] = i
      BY <2>2 DEF Lists
    <3> QED BY <3>1, <1>2
  <2> QED BY <2>1, <2>2
<1>7. Lists(u, S \cup T)
  BY <1>2, <1>4, <1>5, <1>6 DEF Lists
<1> QED BY <1>7 DEF u

LEMMA Removal ==
  ASSUME NEW T, NEW s \in Seq(T), NEW i \in DOMAIN s, NEW rest, rest = RemoveAt(s, i)
  PROVE  /\ rest \in Seq(T) /\ DOMAIN rest = 1..(Len(s) - 1) /\ Len(rest) = Len(s) - 1
         /\ \A k \in DOMAIN rest : \E j \in DOMAIN s : rest[k] = s[j]
         /\ \A j \in DOMAIN s : j # i => \E k \in DOMAIN rest : rest[k] = s[j]
<1> DEFINE before == SubSeq(s, 1, i - 1)
           after == SubSeq(s, i + 1, Len(s))
           r == before \o after
<1>1. Len(s) \in Nat \ {0} /\ DOMAIN s = 1..Len(s) /\ i \in 1..Len(s)
  OBVIOUS
<1>2. before \in Seq(T) /\ Len(before) = i - 1 /\ \A k \in 1..(i - 1) : before[k] = s[k]
  BY <1>1
<1>3. after \in Seq(T) /\ Len(after) = Len(s) - i /\ \A k \in 1..(Len(s) - i) : after[k] = s[i + k]
  BY <1>1
<1> HIDE DEF before, after
<1>4. r \in Seq(T) /\ Len(r) = Len(s) - 1 /\ DOMAIN r = 1..(Len(s) - 1)
  <2>0. before \in Seq(T) /\ after \in Seq(T)
    BY <1>2, <1>3
  <2>1. r \in Seq(T) /\ Len(r) = Len(before) + Len(after) /\ DOMAIN r = 1..Len(r)
    BY <2>0
  <2>2. Len(before) + Len(after) = Len(s) - 1
    BY <1>1, <1>2, <1>3
  <2> QED BY <2>1, <2>2
<1>5. ASSUME NEW k \in 1..(Len(s) - 1)
      PROVE  LET old == IF k < i THEN k ELSE k + 1 IN old \in DOMAIN s /\ r[k] = s[old]
  <2>1. CASE k < i
    BY <2>1, <1>1, <1>2, <1>3
  <2>2. CASE ~(k < i)
    <3>1. r[k] = after[k - (i - 1)] /\ k - (i - 1) \in 1..(Len(s) - i)
      BY <2>2, <1>1, <1>2, <1>3
    <3>2. after[k - (i - 1)] = s[i + (k - (i - 1))]
      BY <3>1, <1>3
    <3>3. i + (k - (i - 1)) = k + 1 /\ k + 1 \in DOMAIN s
      BY <1>1
    <3> QED BY <2>2, <3>1, <3>2, <3>3
  <2> QED BY <2>1, <2>2
<1> HIDE DEF r
<1>6. ASSUME NEW j \in DOMAIN s, j # i PROVE \E k \in 1..(Len(s) - 1) : r[k] = s[j]
  <2>1. CASE j < i
    <3>1. j \in 1..(Len(s) - 1)
      BY <2>1, <1>1
    <3> QED BY <3>1, <2>1, <1>5
  <2>2. CASE j > i
    <3>1. j - 1 \in 1..(Len(s) - 1) /\ ~(j - 1 < i) /\ (j - 1) + 1 = j
      BY <2>2, <1>1
    <3>2. r[j - 1] = s[(j - 1) + 1]
      BY <3>1, <1>5
    <3> QED BY <3>1, <3>2
  <2> QED BY <1>6, <1>1, <2>1, <2>2
<1>7. \A k \in 1..(Len(s) - 1) : \E j \in DOMAIN s : r[k] = s[j]
  BY <1>5
<1>8. r = rest
  BY DEF r, before, after, RemoveAt
<1> QED BY <1>4, <1>6, <1>7, <1>8

-----------------------------------------------------------------------------
(***************************************************************************)
(* The invariant of the pages.                                             *)
(***************************************************************************)
Matches(l, f, low, high) == {i \in low..high : l[i] \in f}

(* s is what passes f from high down to low, with what a page says of the  *)
(* rest: whether there is any, and where it begins.                        *)
Stretch(l, s, f, low, high, more, next) ==
  /\ Lists(s, Matches(l, f, low, high))
  /\ low <= high + 1
  /\ more <=> Matches(l, f, 1, low - 1) # {}
  /\ more => s # <<>> /\ Last(s) = low /\ next = low

Reaches(l, s, f, high, more, next) ==
  \E low \in 1..(Len(l) + 1) : Stretch(l, s, f, low, high, more, next)

(* A load goes on where the rows end. *)
GoesOn(r) ==
  /\ r.filter = filter /\ r.cursor = cursor /\ (opened => hasMore)
  /\ r.served => \E high \in 0..Len(log) :
                   /\ Reaches(log, r.page.events, filter, high, r.page.more, r.page.next)
                   /\ opened => high = cursor - 1

Untangled ==
  ~tangled =>
    /\ Len(flight) <= 1
    /\ ~opened => rows = <<>> /\ cursor = 0
    /\ opened => \E high \in 0..Len(log) : Reaches(log, rows, filter, high, hasMore, cursor)
    /\ \A m \in DOMAIN flight : GoesOn(flight[m])

ShowsSince(l, f, s, i) == \E n \in DOMAIN s : s[n] >= i /\ l[s[n]] \in f

(* The load that the page has started over with will show event i. *)
WillShow(r, i) ==
  r.filter = filter /\ r.cursor = 0 /\ (r.served => ShowsSince(log, filter, r.page.events, i))

NewestOnItsWay ==
  ~failed =>
    \A i \in 1..noted : log[i] \in filter =>
      ShowsSince(log, filter, rows, i) \/ \E m \in DOMAIN flight : WillShow(flight[m], i)


-----------------------------------------------------------------------------
LEMMA MatchingLists ==
  ASSUME NEW f, NEW low \in Nat, NEW high \in Nat
  PROVE  /\ Matches(log, f, low, high) \in SUBSET Nat /\ IsFiniteSet(Matches(log, f, low, high))
         /\ Matching(f, low..high) = Listing(Matches(log, f, low, high))
         /\ Lists(Matching(f, low..high), Matches(log, f, low, high))
<1>1. Matches(log, f, low, high) \in SUBSET (low..high) /\ Matches(log, f, low, high) \in SUBSET Nat
  BY DEF Matches
<1>2. IsFiniteSet(Matches(log, f, low, high))
  BY <1>1, FS_Interval, FS_Subset
<1>3. Matching(f, low..high) = Listing(Matches(log, f, low, high))
  BY DEF Matching, Matches
<1> QED BY <1>1, <1>2, <1>3, ListingLists

(* A page is a stretch that begins right below the cursor. *)
LEMMA AnAnswer ==
  ASSUME log \in Seq(Kinds),
         NEW c, NEW high \in 0..Len(log), Below(c) = 1..high,
         NEW f, NEW r, r = ListEvents(c, f)
  PROVE  /\ r \in Page /\ Len(r.events) <= Limit
         /\ Reaches(log, r.events, f, high, r.more, r.next)
<1> DEFINE found == Matching(f, 1..high)
           S == Matches(log, f, 1, high)
           more == Len(found) > Limit
<1>1. /\ high \in 0..Len(log) /\ high \in Nat
      /\ Len(log) \in Nat /\ DOMAIN log = 1..Len(log) /\ Limit \in Nat \ {0}
  BY EventPageAssumption
<1>2. /\ S \in SUBSET Nat /\ Lists(found, S)
  BY <1>1, MatchingLists
<1>3. /\ found \in Seq(Nat) /\ Len(found) \in Nat /\ DOMAIN found = 1..Len(found)
      /\ \A a \in DOMAIN found : found[a] \in S /\ found[a] \in 1..high /\ found[a] \in DOMAIN log
  <2>1. S \subseteq 1..high /\ S \subseteq DOMAIN log
    BY <1>1 DEF Matches
  <2> QED BY <2>1, <1>2 DEF Lists
<1>4. r = [events |-> IF more THEN SubSeq(found, 1, Limit) ELSE found,
           next |-> IF more THEN found[Limit] ELSE 0,
           more |-> more]
  BY DEF ListEvents
<1> HIDE DEF found
<1>5. found \in Seq(DOMAIN log) /\ more \in BOOLEAN /\ (more <=> Len(found) > Limit)
  BY <1>3
<1> HIDE DEF more
<1>6. CASE more
  <2> DEFINE s == SubSeq(found, 1, Limit)
             low == found[Limit]
  <2>1. /\ Limit \in 1..Len(found) /\ Limit \in DOMAIN found /\ Limit + 1 \in DOMAIN found
    BY <1>6, <1>1, <1>3, <1>5
  <2>2. r.events = s /\ r.next = low /\ r.more
    <3>1. r.events = s
      <4>1. r.events = IF more THEN s ELSE found
        BY <1>4
      <4> QED BY <4>1, <1>6
    <3>2. r.next = low
      BY <1>4, <1>6
    <3>3. r.more
      BY <1>4, <1>6
    <3> QED BY <3>1, <3>2, <3>3
  <2>3. s \in Seq(DOMAIN log) /\ Len(s) = Limit
    BY <2>1, <1>5, <1>1
  <2>4. /\ Lists(s, From(S, low)) /\ Len(s) = Limit /\ Last(s) = low
    BY <1>2, <2>1, Beginning
  <2>5. low \in 1..high
    BY <2>1, <1>3
  <2>6. From(S, low) = Matches(log, f, low, high)
    BY <2>5, <1>1 DEF From, Matches
  <2>7. Matches(log, f, 1, low - 1) # {}
    <3>1. found[Limit + 1] \in S /\ found[Limit + 1] \in 1..high /\ found[Limit] > found[Limit + 1]
      BY <2>1, <1>1, <1>2, <1>3 DEF Lists
    <3>2. found[Limit + 1] \in Matches(log, f, 1, low - 1)
      BY <3>1, <2>5, <1>1 DEF Matches
    <3> QED BY <3>2
  <2>8. s # <<>>
    BY <2>3, <1>1
  <2> HIDE DEF s, low
  <2>9. Stretch(log, r.events, f, low, high, r.more, r.next)
    BY <2>2, <2>4, <2>5, <2>6, <2>7, <2>8, <1>1 DEF Stretch
  <2>10. low \in 1..(Len(log) + 1) /\ low \in 0..Len(log)
    BY <2>5, <1>1
  <2>11. r \in Page
    BY <1>4, <1>5, <1>6, <2>3, <2>10 DEF Page, s, low
  <2>12. Reaches(log, r.events, f, high, r.more, r.next)
    BY <2>9, <2>10 DEF Reaches
  <2>13. Len(r.events) <= Limit
    BY <2>2, <2>3, <1>1
  <2> QED BY <2>11, <2>12, <2>13
<1>7. CASE ~more
  <2>1. r.events = found /\ r.next = 0 /\ ~r.more
    BY <1>4, <1>7
  <2>2. Matches(log, f, 1, 1 - 1) = {}
    BY DEF Matches
  <2>3. Stretch(log, r.events, f, 1, high, r.more, r.next)
    BY <2>1, <2>2, <1>1, <1>2 DEF Stretch
  <2>4. 1 \in 1..(Len(log) + 1) /\ 0 \in 0..Len(log)
    BY <1>1
  <2>5. r \in Page
    BY <1>4, <1>7, <1>5, <2>4 DEF Page
  <2>6. Len(r.events) <= Limit
    BY <2>1, <1>1, <1>3, <1>5, <1>7
  <2> QED BY <1>1, <2>3, <2>4, <2>5, <2>6 DEF Reaches
<1> QED BY <1>6, <1>7

(* A stretch is what a page claims to show. *)
Shown(s, f) == Matching(f, Last(s)..Head(s))
Beyond(s, f) == Matching(f, 1..(Last(s) - 1))

LEMMA StretchShows ==
  ASSUME NEW s, NEW f, NEW low \in Nat \ {0}, NEW high \in Nat,
         NEW more \in BOOLEAN, NEW next, Stretch(log, s, f, low, high, more, next)
  PROVE  /\ s # <<>> =>
              /\ Shown(s, f) = s
              /\ Beyond(s, f) # <<>> <=> Matches(log, f, 1, low - 1) # {}
         /\ more => s # <<>> /\ Last(s) = next
<1> DEFINE S == Matches(log, f, low, high)
           last == Last(s)
           first == Head(s)
<1>1. S \in SUBSET Nat /\ Lists(s, S)
  BY MatchingLists DEF Stretch
<1>2. more => s # <<>> /\ next = Last(s)
  BY DEF Stretch
<1>3. ASSUME s # <<>>
      PROVE  /\ Shown(s, f) = s
             /\ Beyond(s, f) # <<>> <=> Matches(log, f, 1, low - 1) # {}
  <2>0. Shown(s, f) = Matching(f, last..first) /\ Beyond(s, f) = Matching(f, 1..(last - 1))
    BY DEF Shown, Beyond
  <2>1. last \in S /\ first \in S /\ \A i \in S : last <= i /\ i <= first
    BY <1>1, <1>3, Ends
  <2>2. last \in low..high /\ first \in low..high /\ last \in Nat /\ first \in Nat /\ last - 1 \in Nat
    BY <2>1 DEF Matches
  <2> HIDE DEF last, first
  <2>3. S = Matches(log, f, last, first)
    BY <2>1, <2>2 DEF Matches
  <2>4. s = Matching(f, last..first)
    BY <1>1, <2>2, <2>3, OnlyListing, MatchingLists
  <2>5. Matches(log, f, 1, last - 1) = Matches(log, f, 1, low - 1)
    BY <2>1, <2>2 DEF Matches
  <2> DEFINE rest == Matching(f, 1..(last - 1))
  <2>6. Lists(rest, Matches(log, f, 1, last - 1))
    BY <2>2, MatchingLists
  <2>7. rest # <<>> <=> Matches(log, f, 1, last - 1) # {}
    BY <2>6 DEF Lists
  <2> QED BY <2>0, <2>4, <2>5, <2>7
<1> QED BY <1>2, <1>3

(* A page fits to the rows that it was loaded for. *)
LEMMA StretchesJoin ==
  ASSUME NEW s, NEW t, NEW f,
         NEW low \in Nat \ {0}, NEW high \in Nat, NEW next, Stretch(log, s, f, low, high, TRUE, next),
         NEW low2 \in Nat \ {0}, NEW more2 \in BOOLEAN, NEW next2,
         Stretch(log, t, f, low2, next - 1, more2, next2)
  PROVE  Stretch(log, s \o t, f, low2, high, more2, next2)
<1>1. next = low /\ s # <<>> /\ low <= high + 1 /\ low2 <= low
  BY DEF Stretch
<1>2. low - 1 \in Nat
  OBVIOUS
<1>3. /\ Matches(log, f, low, high) \in SUBSET Nat /\ Matches(log, f, low2, low - 1) \in SUBSET Nat
      /\ Lists(s, Matches(log, f, low, high)) /\ Lists(t, Matches(log, f, low2, low - 1))
  BY <1>1, <1>2, MatchingLists DEF Stretch
<1>4. \A i \in Matches(log, f, low, high), j \in Matches(log, f, low2, low - 1) : i > j
  BY DEF Matches
<1>5. Lists(s \o t, Matches(log, f, low, high) \cup Matches(log, f, low2, low - 1))
  BY <1>3, <1>4, Joined
<1>6. Matches(log, f, low, high) \cup Matches(log, f, low2, low - 1) = Matches(log, f, low2, high)
  BY <1>1 DEF Matches
<1>7. ASSUME more2 PROVE s \o t # <<>> /\ Last(s \o t) = low2 /\ next2 = low2
  <2>1. t # <<>> /\ Last(t) = low2 /\ next2 = low2
    BY <1>7 DEF Stretch
  <2>2. s \in Seq(Nat) /\ t \in Seq(Nat)
    BY <1>3 DEF Lists
  <2>3. Len(s) \in Nat /\ Len(t) \in Nat \ {0} /\ Len(t) \in DOMAIN t
    BY <2>1, <2>2
  <2>4. Len(s \o t) = Len(s) + Len(t) /\ (s \o t)[Len(s) + Len(t)] = t[Len(t)]
    BY <2>2, <2>3
  <2>5. Len(s \o t) # 0
    BY <2>3, <2>4
  <2> QED BY <2>1, <2>2, <2>4, <2>5 DEF Last
<1>8. low2 <= high + 1
  BY <1>1
<1>9. more2 <=> Matches(log, f, 1, low2 - 1) # {}
  BY DEF Stretch
<1>10. Lists(s \o t, Matches(log, f, low2, high))
  BY <1>5, <1>6
<1> QED BY <1>7, <1>8, <1>9, <1>10 DEF Stretch

-----------------------------------------------------------------------------
LEMMA SeqGrows ==
  ASSUME NEW S, NEW T, S \subseteq T
  PROVE  Seq(S) \subseteq Seq(T)
<1>1. ASSUME NEW s \in Seq(S) PROVE s \in Seq(T)
  <2>1. s \in [1..Len(s) -> S] /\ Len(s) \in Nat
    OBVIOUS
  <2>2. s \in [1..Len(s) -> T]
    BY <2>1
  <2> QED BY <2>1, <2>2
<1> QED BY <1>1

(* Nothing that was said of the log is wrong when an event is recorded. *)
LEMMA LogGrows ==
  ASSUME log \in Seq(Kinds), NEW k \in Kinds, log' = Append(log, k)
  PROVE  /\ log' \in Seq(Kinds) /\ Len(log') = Len(log) + 1 /\ Len(log) \in Nat
         /\ DOMAIN log = 1..Len(log) /\ DOMAIN log \subseteq DOMAIN log'
         /\ \A i \in DOMAIN log : log'[i] = log[i]
  OBVIOUS

LEMMA TypesGrow ==
  ASSUME log \in Seq(Kinds), NEW k \in Kinds, log' = Append(log, k)
  PROVE  /\ Seq(DOMAIN log) \subseteq Seq(DOMAIN log') /\ 0..Len(log) \subseteq 0..Len(log')
         /\ Seq(Request) \subseteq Seq(Request')
<1>1. /\ Seq(DOMAIN log) \subseteq Seq(DOMAIN log') /\ 0..Len(log) \subseteq 0..Len(log')
  <2>1. 0..Len(log) \subseteq 0..Len(log')
    BY LogGrows
  <2> QED BY <2>1, LogGrows, SeqGrows
<1>2. Page \subseteq Page'
  BY <1>1 DEF Page
<1>3. Request \subseteq Request'
  BY <1>1, <1>2 DEF Request, Filters
<1> QED BY <1>1, <1>3, SeqGrows

LEMMA StretchesStay ==
  ASSUME log \in Seq(Kinds), NEW k \in Kinds, log' = Append(log, k),
         NEW s, NEW f, NEW high \in 0..Len(log), NEW more, NEW next,
         Reaches(log, s, f, high, more, next)
  PROVE  Reaches(log', s, f, high, more, next)
<1>1. PICK low \in 1..(Len(log) + 1) : Stretch(log, s, f, low, high, more, next)
  BY DEF Reaches
<1>2. low <= high + 1
  BY <1>1 DEF Stretch
<1>3. ASSUME NEW a \in Nat \ {0}, NEW b, b <= Len(log), b \in Int
      PROVE  Matches(log', f, a, b) = Matches(log, f, a, b)
  <2>1. \A i \in a..b : i \in DOMAIN log
    BY <1>3, LogGrows
  <2> QED BY <2>1, LogGrows DEF Matches
<1>4. /\ Matches(log', f, low, high) = Matches(log, f, low, high)
      /\ Matches(log', f, 1, low - 1) = Matches(log, f, 1, low - 1)
      /\ low \in 1..(Len(log') + 1)
  BY <1>2, <1>3, LogGrows
<1>5. Stretch(log', s, f, low, high, more, next)
  BY <1>1, <1>4 DEF Stretch
<1> QED BY <1>4, <1>5 DEF Reaches

(* The requests that a step leaves in flight. *)
LEMMA Sending ==
  ASSUME PageTypeOK, NEW c \in 0..Len(log), NEW f \in Filters, Send(c, f),
         log' = log
  PROVE  LET sent == [cursor |-> c, filter |-> f, served |-> FALSE, page |-> Unanswered] IN
         /\ flight' = Append(flight, sent)
         /\ flight' \in Seq(Request')
         /\ \A i \in DOMAIN flight' : Len(flight'[i].page.events) <= Limit
         /\ Len(flight') = Len(flight) + 1 /\ DOMAIN flight' = 1..(Len(flight) + 1)
         /\ flight'[Len(flight) + 1] = sent
         /\ \A i \in DOMAIN flight : i \in DOMAIN flight' /\ flight'[i] = flight[i]
<1> DEFINE sent == [cursor |-> c, filter |-> f, served |-> FALSE, page |-> Unanswered]
<1>1. /\ flight \in Seq(Request) /\ flight' = Append(flight, sent)
      /\ \A i \in DOMAIN flight : Len(flight[i].page.events) <= Limit
      /\ Limit \in Nat /\ Len(log) \in Nat
  BY EventPageAssumption DEF PageTypeOK, Send
<1>2. sent \in Request /\ Len(sent.page.events) <= Limit
  <2>1. <<>> \in Seq(DOMAIN log) /\ 0 \in 0..Len(log) /\ Len(<<>>) <= Limit
    BY <1>1
  <2>2. Unanswered \in Page
    BY <2>1 DEF Unanswered, Page
  <2>3. sent.page.events = <<>>
    BY DEF Unanswered
  <2> QED BY <2>1, <2>2, <2>3 DEF Request
<1>3. Request' = Request
  BY DEF Request, Page, Filters
<1> HIDE DEF sent
<1>4. /\ flight' \in Seq(Request)
      /\ Len(flight') = Len(flight) + 1 /\ DOMAIN flight' = 1..(Len(flight) + 1)
      /\ flight'[Len(flight) + 1] = sent
      /\ \A i \in DOMAIN flight : i \in DOMAIN flight' /\ flight'[i] = flight[i]
  BY <1>1, <1>2
<1>5. ASSUME NEW i \in DOMAIN flight' PROVE Len(flight'[i].page.events) <= Limit
  <2>1. i \in DOMAIN flight \/ i = Len(flight) + 1
    BY <1>1, <1>4
  <2> QED BY <2>1, <1>1, <1>2, <1>4
<1> QED BY <1>1, <1>3, <1>4, <1>5 DEF sent

LEMMA InFlight ==
  ASSUME PageTypeOK, NEW m \in DOMAIN flight
  PROVE  /\ flight[m] \in [cursor: 0..Len(log), filter: Filters, served: BOOLEAN, page: Page]
         /\ flight[m].page \in Page /\ flight[m].page.events \in Seq(DOMAIN log)
         /\ flight[m].page.next \in 0..Len(log) /\ flight[m].page.more \in BOOLEAN
<1>1. flight[m] \in Request
  BY DEF PageTypeOK
<1>2. flight[m] \in [cursor: 0..Len(log), filter: Filters, served: BOOLEAN, page: Page]
  BY <1>1 DEF Request
<1>3. flight[m].page \in Page
  BY <1>2
<1>4. flight[m].page \in [events: Seq(DOMAIN log), next: 0..Len(log), more: BOOLEAN]
  BY <1>3 DEF Page
<1> QED BY <1>2, <1>3, <1>4

LEMMA Answering ==
  ASSUME PageTypeOK, NEW i \in DOMAIN flight, ServePage(i)
  PROVE  LET page == ListEvents(flight[i].cursor, flight[i].filter) IN
         /\ page \in Page /\ Len(page.events) <= Limit
         /\ \A high \in 0..Len(log) :
              Below(flight[i].cursor) = 1..high =>
                Reaches(log, page.events, flight[i].filter, high, page.more, page.next)
         /\ flight' \in Seq(Request) /\ DOMAIN flight' = DOMAIN flight /\ Len(flight') = Len(flight)
         /\ flight'[i].cursor = flight[i].cursor /\ flight'[i].filter = flight[i].filter
         /\ flight'[i].served /\ flight'[i].page = page
         /\ \A m \in DOMAIN flight : m # i => flight'[m] = flight[m]
<1> DEFINE page == ListEvents(flight[i].cursor, flight[i].filter)
           c == flight[i].cursor
<1>1. /\ flight[i] \in Request /\ flight \in Seq(Request)
      /\ log \in Seq(Kinds) /\ Len(log) \in Nat /\ DOMAIN log = 1..Len(log)
  BY DEF PageTypeOK
<1>2. c \in 0..Len(log)
  BY <1>1 DEF Request
<1> HIDE DEF c, page
<1>3. \A high \in 0..Len(log) :
        Below(c) = 1..high =>
          /\ page \in Page /\ Len(page.events) <= Limit
          /\ Reaches(log, page.events, flight[i].filter, high, page.more, page.next)
  BY <1>1, AnAnswer DEF page, c
<1>4. \E high \in 0..Len(log) : Below(c) = 1..high
  <2>1. CASE c = 0
    <3>1. Below(c) = 1..Len(log) /\ Len(log) \in 0..Len(log)
      BY <2>1, <1>1 DEF Below
    <3> QED BY <3>1
  <2>2. CASE c # 0
    <3>1. c - 1 \in 0..Len(log)
      BY <2>2, <1>1, <1>2
    <3> QED BY <3>1, <2>2 DEF Below
  <2> QED BY <2>1, <2>2
<1>5. page \in Page /\ Len(page.events) <= Limit
  BY <1>3, <1>4
<1> DEFINE new == [flight[i] EXCEPT !.served = TRUE, !.page = page]
<1>6. flight' = [flight EXCEPT ![i] = new]
  BY DEF ServePage, page
<1>7. new \in Request
  <2>1. new \in [cursor: 0..Len(log), filter: Filters, served: BOOLEAN, page: Page]
    BY <1>5, InFlight, Zenon
  <2> QED BY <2>1 DEF Request
<1>8. new.cursor = c /\ new.filter = flight[i].filter /\ new.served /\ new.page = page
  BY InFlight DEF c
<1> HIDE DEF new
<1>9. /\ flight' \in Seq(Request) /\ DOMAIN flight' = DOMAIN flight /\ Len(flight') = Len(flight)
      /\ flight'[i] = new
      /\ \A m \in DOMAIN flight : m # i => flight'[m] = flight[m]
  BY <1>1, <1>6, <1>7
<1> QED BY <1>3, <1>5, <1>8, <1>9 DEF page, c

(* What an answered load shows of the log as it was. *)
LEMMA NewestIsReached ==
  ASSUME NEW s, NEW f, NEW more, NEW next, Reaches(log, s, f, Len(log), more, next),
         log \in Seq(Kinds), NEW i \in 1..Len(log), log[i] \in f
  PROVE  ShowsSince(log, f, s, i)
<1>1. PICK low \in 1..(Len(log) + 1) : Stretch(log, s, f, low, Len(log), more, next)
  BY DEF Reaches
<1>2. Len(log) \in Nat /\ low \in Nat \ {0} /\ i \in Nat \ {0}
  OBVIOUS
<1>3. Lists(s, Matches(log, f, low, Len(log)))
  BY <1>1 DEF Stretch
<1>4. CASE i >= low
  <2>1. i \in Matches(log, f, low, Len(log))
    BY <1>2, <1>4 DEF Matches
  <2>2. PICK a \in DOMAIN s : s[a] = i
    BY <2>1, <1>3 DEF Lists
  <2> QED BY <2>2, <1>2 DEF ShowsSince
<1>5. CASE ~(i >= low)
  <2>1. i \in Matches(log, f, 1, low - 1)
    BY <1>2, <1>5 DEF Matches
  <2>2. s # <<>> /\ Last(s) = low
    BY <2>1, <1>1 DEF Stretch
  <2>3. s \in Seq(Nat) /\ Len(s) \in DOMAIN s /\ s[Len(s)] = low
    BY <2>2, <1>3 DEF Lists, Last
  <2>4. low \in Matches(log, f, low, Len(log))
    BY <2>3, <1>3 DEF Lists
  <2> QED BY <2>3, <2>4, <1>2, <1>5 DEF ShowsSince, Matches
<1> QED BY <1>4, <1>5

LEMMA RowsAppended ==
  ASSUME NEW s \in Seq(Nat), NEW t \in Seq(Nat), NEW f, NEW i,
         ShowsSince(log, f, s, i) \/ ShowsSince(log, f, t, i)
  PROVE  ShowsSince(log, f, s \o t, i)
<1>1. /\ \A n \in DOMAIN s : n \in DOMAIN (s \o t) /\ (s \o t)[n] = s[n]
      /\ \A n \in DOMAIN t : Len(s) + n \in DOMAIN (s \o t) /\ (s \o t)[Len(s) + n] = t[n]
  OBVIOUS
<1>2. CASE ShowsSince(log, f, s, i)
  BY <1>1, <1>2 DEF ShowsSince
<1>3. CASE ShowsSince(log, f, t, i)
  BY <1>1, <1>3 DEF ShowsSince
<1> QED BY <1>2, <1>3

-----------------------------------------------------------------------------
(***************************************************************************)
(* Every step keeps the invariant.                                         *)
(***************************************************************************)
PagesInv == PageTypeOK /\ Untangled /\ NewestOnItsWay

LEMMA PagesInit ==
  ASSUME PageInit
  PROVE  PagesInv
<1>1. /\ log = <<>> /\ rows = <<>> /\ cursor = 0 /\ hasMore = FALSE /\ filter = Kinds
      /\ flight = <<[cursor |-> 0, filter |-> Kinds, served |-> FALSE, page |-> Unanswered]>>
      /\ tangled = FALSE /\ opened = FALSE /\ failed = FALSE /\ noted = 0
  BY DEF PageInit
<1>2. /\ DOMAIN flight = {1} /\ Len(flight) = 1
      /\ flight[1] = [cursor |-> 0, filter |-> Kinds, served |-> FALSE, page |-> Unanswered]
  BY <1>1
<1>3. Len(log) = 0 /\ <<>> \in Seq(DOMAIN log) /\ 0 \in 0..Len(log)
  BY <1>1
<1>4. Unanswered \in Page /\ Unanswered.events = <<>>
  BY <1>3 DEF Unanswered, Page
<1>5. Kinds \in Filters
  BY DEF Filters
<1>6. flight[1] \in Request
  BY <1>2, <1>3, <1>4, <1>5 DEF Request
<1>7. flight \in Seq(Request)
  BY <1>1, <1>2, <1>6
<1>8. Len(flight[1].page.events) <= Limit
  BY <1>2, <1>4, EventPageAssumption
<1>9. PageTypeOK
  <2>1. log \in Seq(Kinds) /\ Len(log) <= MaxEvents
    BY <1>1, EventPageAssumption
  <2>2. \A i \in DOMAIN flight : Len(flight[i].page.events) <= Limit
    BY <1>2, <1>8
  <2>3. rows \in Seq(DOMAIN log) /\ cursor \in 0..Len(log) /\ noted \in 0..Len(log)
    BY <1>1, <1>3
  <2> QED BY <1>1, <2>1, <2>2, <2>3, <1>5, <1>7 DEF PageTypeOK
<1>10. Untangled
  BY <1>1, <1>2 DEF Untangled, GoesOn
<1>11. NewestOnItsWay
  BY <1>1 DEF NewestOnItsWay
<1> QED BY <1>9, <1>10, <1>11 DEF PagesInv

LEMMA EventAdded ==
  ASSUME PagesInv, NEW k \in Kinds, AppendEvent(k)
  PROVE  PagesInv'
<1>1. /\ log \in Seq(Kinds) /\ log' = Append(log, k) /\ Len(log) < MaxEvents /\ MaxEvents \in Nat
      /\ rows' = rows /\ cursor' = cursor /\ hasMore' = hasMore /\ filter' = filter
      /\ flight' = flight /\ tangled' = tangled /\ opened' = opened /\ failed' = failed /\ noted' = noted
  BY EventPageAssumption DEF PagesInv, PageTypeOK, AppendEvent
<1>2. PageTypeOK'
  BY <1>1, LogGrows, TypesGrow DEF PagesInv, PageTypeOK, Filters
<1>3. 0..Len(log) \subseteq 0..Len(log')
  BY <1>1, TypesGrow
<1>4. Untangled'
  <2>1. SUFFICES ASSUME ~tangled PROVE Untangled'
    BY <1>1 DEF Untangled
  <2>2. ASSUME opened PROVE \E high \in 0..Len(log') : Reaches(log', rows, filter, high, hasMore, cursor)
    <3>1. PICK high \in 0..Len(log) : Reaches(log, rows, filter, high, hasMore, cursor)
      BY <2>1, <2>2 DEF PagesInv, Untangled
    <3>2. Reaches(log', rows, filter, high, hasMore, cursor)
      BY <3>1, <1>1, StretchesStay
    <3> QED BY <3>2, <1>3
  <2>3. ASSUME NEW m \in DOMAIN flight PROVE GoesOn(flight[m])'
    <3>1. GoesOn(flight[m])
      BY <2>1 DEF PagesInv, Untangled
    <3>2. ASSUME flight[m].served
          PROVE  \E high \in 0..Len(log') :
                   /\ Reaches(log', flight[m].page.events, filter, high,
                              flight[m].page.more, flight[m].page.next)
                   /\ opened => high = cursor - 1
      <4>1. PICK high \in 0..Len(log) :
                   /\ Reaches(log, flight[m].page.events, filter, high,
                              flight[m].page.more, flight[m].page.next)
                   /\ opened => high = cursor - 1
        BY <3>1, <3>2 DEF GoesOn
      <4>2. Reaches(log', flight[m].page.events, filter, high, flight[m].page.more, flight[m].page.next)
        BY <4>1, <1>1, StretchesStay
      <4> QED BY <4>1, <4>2, <1>3
    <3> QED BY <1>1, <3>1, <3>2 DEF GoesOn
  <2> QED BY <1>1, <2>1, <2>2, <2>3 DEF PagesInv, Untangled
<1>5. NewestOnItsWay'
  <2>1. ASSUME NEW s \in Seq(DOMAIN log), NEW i, ShowsSince(log, filter, s, i)
        PROVE  ShowsSince(log', filter, s, i)
    BY <2>1, <1>1, LogGrows DEF ShowsSince
  <2>2. SUFFICES ASSUME ~failed, NEW i \in 1..noted, log'[i] \in filter
                 PROVE  \/ ShowsSince(log', filter, rows, i)
                        \/ \E m \in DOMAIN flight : WillShow(flight[m], i)'
    BY <1>1 DEF NewestOnItsWay
  <2>3. i \in DOMAIN log /\ log[i] \in filter
    BY <2>2, <1>1, LogGrows DEF PagesInv, PageTypeOK
  <2>4. ShowsSince(log, filter, rows, i) \/ \E m \in DOMAIN flight : WillShow(flight[m], i)
    BY <2>2, <2>3 DEF PagesInv, NewestOnItsWay
  <2>5. CASE ShowsSince(log, filter, rows, i)
    BY <2>1, <2>5 DEF PagesInv, PageTypeOK
  <2>6. ASSUME NEW m \in DOMAIN flight, WillShow(flight[m], i) PROVE WillShow(flight[m], i)'
    <3>1. flight[m].page.events \in Seq(DOMAIN log)
      BY InFlight DEF PagesInv
    <3> QED BY <3>1, <2>1, <2>6, <1>1 DEF WillShow
  <2> QED BY <2>4, <2>5, <2>6
<1> QED BY <1>2, <1>4, <1>5 DEF PagesInv

LEMMA SameTypes ==
  ASSUME log' = log
  PROVE  Page' = Page /\ Request' = Request /\ Filters' = Filters
  BY DEF Page, Request, Filters

LEMMA Served ==
  ASSUME PagesInv, NEW i \in DOMAIN flight, ServePage(i)
  PROVE  PagesInv'
<1> DEFINE page == ListEvents(flight[i].cursor, flight[i].filter)
<1>1. /\ log' = log /\ rows' = rows /\ cursor' = cursor /\ hasMore' = hasMore /\ filter' = filter
      /\ tangled' = tangled /\ opened' = opened /\ failed' = failed /\ noted' = noted
      /\ ~flight[i].served /\ PageTypeOK
      /\ log \in Seq(Kinds) /\ Len(log) \in Nat /\ DOMAIN log = 1..Len(log)
  BY DEF PagesInv, PageTypeOK, ServePage
<1> HIDE DEF page
<1>2. /\ page \in Page /\ Len(page.events) <= Limit
      /\ \A high \in 0..Len(log) :
           Below(flight[i].cursor) = 1..high =>
             Reaches(log, page.events, flight[i].filter, high, page.more, page.next)
      /\ flight' \in Seq(Request) /\ DOMAIN flight' = DOMAIN flight /\ Len(flight') = Len(flight)
      /\ flight'[i].cursor = flight[i].cursor /\ flight'[i].filter = flight[i].filter
      /\ flight'[i].served /\ flight'[i].page = page
      /\ \A m \in DOMAIN flight : m # i => flight'[m] = flight[m]
  BY <1>1, Answering DEF page
<1>3. \A m \in DOMAIN flight' : Len(flight'[m].page.events) <= Limit
  BY <1>1, <1>2 DEF PageTypeOK
<1>4. PageTypeOK'
  BY <1>1, <1>2, <1>3, SameTypes DEF PageTypeOK
<1>5. Untangled'
  <2>1. SUFFICES ASSUME ~tangled PROVE Untangled'
    BY <1>1 DEF Untangled
  <2>2. GoesOn(flight[i])
    BY <2>1 DEF PagesInv, Untangled
  <2>3. \E high \in 0..Len(log) :
          /\ Reaches(log, page.events, filter, high, page.more, page.next)
          /\ opened => high = cursor - 1
    <3>1. flight[i].filter = filter /\ flight[i].cursor = cursor
      BY <2>2 DEF GoesOn
    <3>2. CASE ~opened
      <4>1. cursor = 0
        BY <2>1, <3>2 DEF PagesInv, Untangled
      <4>2. Below(cursor) = 1..Len(log) /\ Len(log) \in 0..Len(log)
        BY <4>1, <1>1 DEF Below
      <4> QED BY <3>1, <3>2, <4>2, <1>2
    <3>3. CASE opened
      <4>1. hasMore
        BY <2>2, <3>3 DEF GoesOn
      <4>2. cursor \in 1..Len(log)
        <5>1. PICK high \in 0..Len(log) : Reaches(log, rows, filter, high, hasMore, cursor)
          BY <2>1, <3>3 DEF PagesInv, Untangled
        <5>2. PICK low \in 1..(Len(log) + 1) : Stretch(log, rows, filter, low, high, hasMore, cursor)
          BY <5>1 DEF Reaches
        <5>3. cursor = low /\ cursor \in 0..Len(log)
          BY <4>1, <5>2, <1>1 DEF Stretch, PageTypeOK
        <5> QED BY <5>3, <1>1
      <4>3. Below(cursor) = 1..(cursor - 1) /\ cursor - 1 \in 0..Len(log)
        BY <4>2, <1>1 DEF Below
      <4> QED BY <3>1, <4>3, <1>2
    <3> QED BY <3>2, <3>3
  <2>4. GoesOn(flight[i])'
    BY <1>1, <1>2, <2>2, <2>3 DEF GoesOn
  <2>5. ASSUME NEW m \in DOMAIN flight, m # i PROVE GoesOn(flight[m])'
    <3>1. GoesOn(flight[m])
      BY <2>1 DEF PagesInv, Untangled
    <3>2. flight'[m] = flight[m]
      BY <1>2, <2>5
    <3> QED BY <1>1, <3>1, <3>2 DEF GoesOn
  <2> QED BY <1>1, <1>2, <2>1, <2>4, <2>5 DEF PagesInv, Untangled
<1>6. NewestOnItsWay'
  <2>1. SUFFICES ASSUME ~failed, NEW e \in 1..noted, log[e] \in filter
                 PROVE  \/ ShowsSince(log, filter, rows, e)
                        \/ \E m \in DOMAIN flight' : WillShow(flight[m], e)'
    BY <1>1 DEF NewestOnItsWay
  <2>2. ShowsSince(log, filter, rows, e) \/ \E m \in DOMAIN flight : WillShow(flight[m], e)
    BY <2>1 DEF PagesInv, NewestOnItsWay
  <2>3. ASSUME NEW m \in DOMAIN flight, WillShow(flight[m], e), m # i PROVE WillShow(flight[m], e)'
    <3>1. flight'[m] = flight[m]
      BY <1>2, <2>3
    <3> QED BY <3>1, <2>3, <1>1 DEF WillShow
  <2>4. ASSUME WillShow(flight[i], e) PROVE WillShow(flight[i], e)'
    <3>1. flight[i].filter = filter /\ flight[i].cursor = 0
      BY <2>4 DEF WillShow
    <3>2. Below(0) = 1..Len(log) /\ Len(log) \in 0..Len(log)
      BY <1>1 DEF Below
    <3>3. Reaches(log, page.events, filter, Len(log), page.more, page.next)
      BY <3>1, <3>2, <1>2
    <3>4. e \in 1..Len(log)
      BY <2>1, <1>1 DEF PageTypeOK
    <3>5. ShowsSince(log, filter, page.events, e)
      BY <3>3, <3>4, <2>1, <1>1, NewestIsReached
    <3> QED BY <3>1, <3>5, <1>1, <1>2 DEF WillShow
  <2> QED BY <1>2, <2>2, <2>3, <2>4
<1> QED BY <1>4, <1>5, <1>6 DEF PagesInv

LEMMA StartedOver ==
  ASSUME PagesInv, NEW f \in Filters, StartOver(f)
  PROVE  PagesInv'
<1> DEFINE sent == [cursor |-> 0, filter |-> f, served |-> FALSE, page |-> Unanswered]
<1>1. /\ log' = log /\ rows' = <<>> /\ cursor' = 0 /\ hasMore' = hasMore /\ filter' = f
      /\ tangled' = (flight # <<>>) /\ opened' = FALSE /\ failed' = FALSE /\ noted' = Len(log)
      /\ Send(0, f) /\ PageTypeOK
      /\ Len(log) \in Nat /\ flight \in Seq(Request)
  BY DEF PagesInv, PageTypeOK, StartOver
<1>2. /\ flight' \in Seq(Request)
      /\ \A i \in DOMAIN flight' : Len(flight'[i].page.events) <= Limit
      /\ Len(flight') = Len(flight) + 1 /\ DOMAIN flight' = 1..(Len(flight) + 1)
      /\ flight'[Len(flight) + 1] = sent
  <2>1. 0 \in 0..Len(log)
    BY <1>1
  <2> QED BY <1>1, <2>1, Sending, SameTypes
<1>3. PageTypeOK'
  <2>1. <<>> \in Seq(DOMAIN log) /\ 0 \in 0..Len(log) /\ Len(log) \in 0..Len(log)
    BY <1>1
  <2>2. (flight # <<>>) \in BOOLEAN
    OBVIOUS
  <2> QED BY <1>1, <1>2, <2>1, <2>2, SameTypes DEF PageTypeOK
<1>4. sent.cursor = 0 /\ sent.filter = f /\ ~sent.served
  OBVIOUS
<1> HIDE DEF sent
<1>5. Untangled'
  <2>1. SUFFICES ASSUME flight = <<>> PROVE Untangled'
    BY <1>1 DEF Untangled
  <2>2. Len(flight') = 1 /\ DOMAIN flight' = {1} /\ flight'[1] = sent
    BY <1>2, <2>1
  <2>3. GoesOn(flight[1])'
    BY <1>1, <1>4, <2>2 DEF GoesOn
  <2> QED BY <1>1, <2>2, <2>3 DEF Untangled
<1>6. NewestOnItsWay'
  <2>1. Len(flight) + 1 \in DOMAIN flight'
    BY <1>1, <1>2
  <2> QED BY <1>1, <1>2, <1>4, <2>1 DEF NewestOnItsWay, WillShow
<1> QED BY <1>3, <1>5, <1>6 DEF PagesInv

LEMMA LoadedMore ==
  ASSUME PagesInv, LoadMore
  PROVE  PagesInv'
<1> DEFINE sent == [cursor |-> cursor, filter |-> filter, served |-> FALSE, page |-> Unanswered]
<1>1. /\ log' = log /\ rows' = rows /\ cursor' = cursor /\ hasMore' = hasMore /\ filter' = filter
      /\ tangled' = (tangled \/ flight # <<>>) /\ opened' = opened /\ failed' = failed /\ noted' = noted
      /\ Send(cursor, filter) /\ PageTypeOK /\ hasMore
      /\ cursor \in 0..Len(log) /\ filter \in Filters
      /\ Len(log) \in Nat /\ flight \in Seq(Request)
  BY DEF PagesInv, PageTypeOK, LoadMore
<1>2. /\ flight' \in Seq(Request)
      /\ \A i \in DOMAIN flight' : Len(flight'[i].page.events) <= Limit
      /\ Len(flight') = Len(flight) + 1 /\ DOMAIN flight' = 1..(Len(flight) + 1)
      /\ flight'[Len(flight) + 1] = sent
      /\ \A i \in DOMAIN flight : i \in DOMAIN flight' /\ flight'[i] = flight[i]
  BY <1>1, Sending, SameTypes
<1>3. PageTypeOK'
  <2>1. (tangled \/ flight # <<>>) \in BOOLEAN
    OBVIOUS
  <2> QED BY <1>1, <1>2, <2>1, SameTypes DEF PageTypeOK
<1>4. sent.cursor = cursor /\ sent.filter = filter /\ ~sent.served
  OBVIOUS
<1> HIDE DEF sent
<1>5. Untangled'
  <2>1. SUFFICES ASSUME ~tangled, flight = <<>> PROVE Untangled'
    BY <1>1 DEF Untangled
  <2>2. Len(flight') = 1 /\ DOMAIN flight' = {1} /\ flight'[1] = sent
    BY <1>2, <2>1
  <2>3. GoesOn(flight[1])'
    BY <1>1, <1>4, <2>2 DEF GoesOn
  <2>4. /\ ~opened => rows = <<>> /\ cursor = 0
        /\ opened => \E high \in 0..Len(log) : Reaches(log, rows, filter, high, hasMore, cursor)
    BY <2>1 DEF PagesInv, Untangled
  <2>5. /\ ~opened' => rows' = <<>> /\ cursor' = 0
        /\ opened' => \E high \in 0..Len(log') : Reaches(log', rows', filter', high, hasMore', cursor')
    BY <2>4, <1>1
  <2> QED BY <2>2, <2>3, <2>5 DEF Untangled
<1>6. NewestOnItsWay'
  <2>1. ASSUME NEW e, NEW m \in DOMAIN flight, WillShow(flight[m], e) PROVE WillShow(flight[m], e)'
    <3>1. flight'[m] = flight[m]
      BY <1>2
    <3> QED BY <3>1, <2>1, <1>1 DEF WillShow
  <2> QED BY <1>1, <1>2, <2>1 DEF PagesInv, NewestOnItsWay
<1> QED BY <1>3, <1>5, <1>6 DEF PagesInv

LEMMA Answered ==
  ASSUME PagesInv, NEW i \in DOMAIN flight, Answer(i)
  PROVE  PagesInv'
<1> DEFINE page == flight[i].page
<1>1. /\ log' = log /\ rows' = rows \o page.events /\ cursor' = page.next /\ hasMore' = page.more
      /\ filter' = filter /\ tangled' = tangled /\ opened' = TRUE /\ failed' = failed /\ noted' = noted
      /\ flight' = RemoveAt(flight, i) /\ flight[i].served
      /\ PageTypeOK /\ rows \in Seq(DOMAIN log) /\ flight \in Seq(Request)
      /\ Len(log) \in Nat /\ DOMAIN log = 1..Len(log) /\ hasMore \in BOOLEAN
  BY DEF PagesInv, PageTypeOK, Answer
<1>2. page.events \in Seq(DOMAIN log) /\ page.next \in 0..Len(log) /\ page.more \in BOOLEAN
  BY <1>1, InFlight
<1> HIDE DEF page
<1>3. /\ flight' \in Seq(Request) /\ DOMAIN flight' = 1..(Len(flight) - 1)
      /\ Len(flight') = Len(flight) - 1
      /\ \A k \in DOMAIN flight' : \E j \in DOMAIN flight : flight'[k] = flight[j]
      /\ \A j \in DOMAIN flight : j # i => \E k \in DOMAIN flight' : flight'[k] = flight[j]
  BY <1>1, Removal
<1>4. PageTypeOK'
  <2>1. \A k \in DOMAIN flight' : Len(flight'[k].page.events) <= Limit
    BY <1>1, <1>3 DEF PageTypeOK
  <2>2. rows' \in Seq(DOMAIN log)
    BY <1>1, <1>2
  <2> QED BY <1>1, <1>2, <1>3, <2>1, <2>2, SameTypes DEF PageTypeOK
<1>5. Untangled'
  <2>1. SUFFICES ASSUME ~tangled PROVE Untangled'
    BY <1>1 DEF Untangled
  <2>2. GoesOn(flight[i])
    BY <2>1 DEF PagesInv, Untangled
  <2>3. Len(flight') = 0 /\ DOMAIN flight' = {}
    <3>1. Len(flight) <= 1 /\ Len(flight) \in Nat /\ i \in 1..Len(flight)
      BY <1>1, <2>1 DEF PagesInv, Untangled
    <3> QED BY <1>3, <3>1
  <2>4. PICK high \in 0..Len(log) :
          /\ Reaches(log, page.events, filter, high, page.more, page.next)
          /\ opened => high = cursor - 1
    BY <1>1, <2>2 DEF GoesOn, page
  <2>5. \E top \in 0..Len(log) : Reaches(log, rows \o page.events, filter, top, page.more, page.next)
    <3>1. CASE ~opened
      <4>1. rows = <<>>
        BY <2>1, <3>1 DEF PagesInv, Untangled
      <4>2. rows \o page.events = page.events
        BY <4>1, <1>2
      <4> QED BY <2>4, <4>2
    <3>2. CASE opened
      <4>1. hasMore = TRUE
        BY <1>1, <2>2, <3>2 DEF GoesOn
      <4>2. PICK top \in 0..Len(log) : Reaches(log, rows, filter, top, TRUE, cursor)
        BY <2>1, <3>2, <4>1 DEF PagesInv, Untangled
      <4>3. PICK low \in 1..(Len(log) + 1) : Stretch(log, rows, filter, low, top, TRUE, cursor)
        BY <4>2 DEF Reaches
      <4>4. PICK low2 \in 1..(Len(log) + 1) :
              Stretch(log, page.events, filter, low2, cursor - 1, page.more, page.next)
        BY <2>4, <3>2 DEF Reaches
      <4>5. Stretch(log, rows \o page.events, filter, low2, top, page.more, page.next)
        <5>1. low \in Nat \ {0} /\ low2 \in Nat \ {0} /\ top \in Nat
          BY <1>1
        <5> QED BY <4>3, <4>4, <5>1, <1>2, StretchesJoin
      <4> QED BY <4>5 DEF Reaches
    <3> QED BY <3>1, <3>2
  <2> QED BY <1>1, <2>3, <2>5 DEF Untangled
<1>6. NewestOnItsWay'
  <2>1. SUFFICES ASSUME ~failed, NEW e \in 1..noted, log[e] \in filter
                 PROVE  \/ ShowsSince(log, filter, rows \o page.events, e)
                        \/ \E m \in DOMAIN flight' : WillShow(flight[m], e)'
    BY <1>1 DEF NewestOnItsWay
  <2>2. ShowsSince(log, filter, rows, e) \/ \E m \in DOMAIN flight : WillShow(flight[m], e)
    BY <2>1 DEF PagesInv, NewestOnItsWay
  <2>3. rows \in Seq(Nat) /\ page.events \in Seq(Nat)
    BY <1>1, <1>2, SeqGrows
  <2>4. CASE ShowsSince(log, filter, rows, e)
    BY <2>3, <2>4, RowsAppended
  <2>5. CASE WillShow(flight[i], e)
    <3>1. ShowsSince(log, filter, page.events, e)
      BY <1>1, <2>5 DEF WillShow, page
    <3> QED BY <2>3, <3>1, RowsAppended
  <2>6. ASSUME NEW m \in DOMAIN flight, WillShow(flight[m], e), m # i
        PROVE  \E k \in DOMAIN flight' : WillShow(flight[k], e)'
    <3>1. PICK k \in DOMAIN flight' : flight'[k] = flight[m]
      BY <1>3, <2>6
    <3>2. WillShow(flight[k], e)'
      BY <3>1, <2>6, <1>1 DEF WillShow
    <3> QED BY <3>2
  <2> QED BY <2>2, <2>4, <2>5, <2>6
<1> QED BY <1>4, <1>5, <1>6 DEF PagesInv

LEMMA LoadFailed ==
  ASSUME PagesInv, NEW i \in DOMAIN flight, Fail(i)
  PROVE  PagesInv'
<1>1. /\ log' = log /\ rows' = rows /\ cursor' = cursor /\ hasMore' = hasMore /\ filter' = filter
      /\ tangled' = tangled /\ opened' = opened /\ failed' = TRUE /\ noted' = noted
      /\ flight' = RemoveAt(flight, i) /\ PageTypeOK /\ flight \in Seq(Request)
  BY DEF PagesInv, PageTypeOK, Fail
<1>2. /\ flight' \in Seq(Request) /\ DOMAIN flight' = 1..(Len(flight) - 1)
      /\ Len(flight') = Len(flight) - 1
      /\ \A k \in DOMAIN flight' : \E j \in DOMAIN flight : flight'[k] = flight[j]
  BY <1>1, Removal
<1>3. PageTypeOK'
  <2>1. \A k \in DOMAIN flight' : Len(flight'[k].page.events) <= Limit
    BY <1>1, <1>2 DEF PageTypeOK
  <2> QED BY <1>1, <1>2, <2>1, SameTypes DEF PageTypeOK
<1>4. Untangled'
  <2>1. SUFFICES ASSUME ~tangled PROVE Untangled'
    BY <1>1 DEF Untangled
  <2>2. Len(flight') <= 1 /\ DOMAIN flight' = {}
    <3>1. Len(flight) <= 1 /\ Len(flight) \in Nat /\ i \in 1..Len(flight)
      BY <1>1, <2>1 DEF PagesInv, Untangled
    <3> QED BY <1>2, <3>1
  <2> QED BY <1>1, <2>1, <2>2 DEF PagesInv, Untangled
<1>5. NewestOnItsWay'
  BY <1>1 DEF NewestOnItsWay
<1> QED BY <1>3, <1>4, <1>5 DEF PagesInv

LEMMA PagesStep ==
  ASSUME PagesInv, [PageNext]_pageVars
  PROVE  PagesInv'
<1>1. CASE PageNext
  BY <1>1, EventAdded, Served, StartedOver, LoadedMore, Answered, LoadFailed DEF PageNext
<1>2. CASE UNCHANGED pageVars
  <2>1. /\ log' = log /\ rows' = rows /\ cursor' = cursor /\ hasMore' = hasMore /\ filter' = filter
        /\ flight' = flight /\ tangled' = tangled /\ opened' = opened /\ failed' = failed /\ noted' = noted
    BY <1>2 DEF pageVars
  <2> QED BY <2>1 DEF PagesInv, PageTypeOK, Request, Page, Filters,
                      Untangled, GoesOn, NewestOnItsWay, WillShow
<1> QED BY <1>1, <1>2

-----------------------------------------------------------------------------
LEMMA PagesInvariance == PageSpec => []PagesInv
<1>1. PageInit => PagesInv
  BY PagesInit
<1>2. PagesInv /\ [PageNext]_pageVars => PagesInv'
  BY PagesStep
<1> QED BY <1>1, <1>2, PTL DEF PageSpec

(* What the page holds are ids of recorded events, and what is in flight   *)
(* are requests and their answers.                                         *)
THEOREM PagesHoldEvents == PageSpec => []PageTypeOK
<1>1. PagesInv => PageTypeOK
  BY DEF PagesInv
<1> QED BY <1>1, PagesInvariance, PTL

(* Pages fit together while loads do not overlap: the rows are the log,    *)
(* filtered, from the first to the last of them, and "Load more" knows     *)
(* whether there is more.                                                  *)
THEOREM PagesAlwaysFit == PageSpec => []PagesFitTogether
<1>1. ASSUME PagesInv PROVE PagesFitTogether
  <2>1. SUFFICES ASSUME ~tangled
                 PROVE  /\ rows # <<>> => rows = Matching(filter, Last(rows)..Head(rows))
                        /\ opened => (hasMore <=> /\ rows # <<>>
                                                  /\ Matching(filter, 1..(Last(rows) - 1)) # <<>>)
                        /\ opened /\ hasMore => cursor = Last(rows)
    BY DEF PagesFitTogether
  <2>2. CASE ~opened
    BY <2>1, <2>2, <1>1 DEF PagesInv, Untangled
  <2>3. CASE opened
    <3>1. PICK high \in 0..Len(log) : Reaches(log, rows, filter, high, hasMore, cursor)
      BY <2>1, <2>3, <1>1 DEF PagesInv, Untangled
    <3>2. PICK low \in 1..(Len(log) + 1) : Stretch(log, rows, filter, low, high, hasMore, cursor)
      BY <3>1 DEF Reaches
    <3>3. low \in Nat \ {0} /\ high \in Nat /\ hasMore \in BOOLEAN
      BY <1>1 DEF PagesInv, PageTypeOK
    <3>4. hasMore <=> Matches(log, filter, 1, low - 1) # {}
      BY <3>2 DEF Stretch
    <3>5. /\ rows # <<>> =>
               /\ rows = Matching(filter, Last(rows)..Head(rows))
               /\ Matching(filter, 1..(Last(rows) - 1)) # <<>>
                    <=> Matches(log, filter, 1, low - 1) # {}
          /\ hasMore => rows # <<>> /\ cursor = Last(rows)
      <4>1. hasMore => rows # <<>> /\ cursor = Last(rows)
        BY <3>2 DEF Stretch
      <4>2. rows # <<>> => /\ Shown(rows, filter) = rows
                           /\ Beyond(rows, filter) # <<>> <=> Matches(log, filter, 1, low - 1) # {}
        BY <3>2, <3>3, StretchShows
      <4>3. rows # <<>> => Matching(filter, Last(rows)..Head(rows)) = rows
        BY <4>2 DEF Shown
      <4>4. rows # <<>> => (Matching(filter, 1..(Last(rows) - 1)) # <<>>
                              <=> Matches(log, filter, 1, low - 1) # {})
        BY <4>2 DEF Beyond
      <4> QED BY <4>1, <4>3, <4>4
    <3> QED BY <3>4, <3>5
  <2> QED BY <2>2, <2>3
<1> QED BY <1>1, PagesInvariance, PTL

(* However loads overlap, the event that was the newest when the page      *)
(* started over is not missing once all of them are answered.              *)
THEOREM NewestAlwaysAppears == PageSpec => []NewestAppears
<1>1. ASSUME PagesInv PROVE NewestAppears
  <2>1. SUFFICES ASSUME flight = <<>>, ~failed, NEW i \in 1..noted, log[i] \in filter
                 PROVE  \E j \in DOMAIN rows : rows[j] >= i /\ log[rows[j]] \in filter
    BY DEF NewestAppears
  <2>2. DOMAIN flight = {}
    BY <2>1
  <2>3. ShowsSince(log, filter, rows, i)
    BY <1>1, <2>1, <2>2 DEF PagesInv, NewestOnItsWay
  <2> QED BY <2>3 DEF ShowsSince
<1> QED BY <1>1, PagesInvariance, PTL
=============================================================================
