------------------------------- MODULE Migration -------------------------------
(***************************************************************************)
(* Opening the database of an earlier release (Database.init_schema,       *)
(* cockpit/app/db.py): guarded ALTER TABLEs, the version-gated backfill of *)
(* run events, then the ordinary writes of a run's start and end.  What    *)
(* SQLite has committed is a sequence of states, `wal`, the last of them   *)
(* current: the process may be killed, which keeps it, or the host may     *)
(* lose power, which with synchronous = NORMAL may lose the last           *)
(* transactions since a checkpoint, but always from the end.               *)
(***************************************************************************)
EXTENDS Naturals, Sequences

CONSTANTS
  Columns,      \* the columns that earlier releases did not have
  Legacy,       \* the runs an earlier release left
  LegacyEnded,  \* those of them that are over
  MaxRuns,      \* bound: run rows
  MaxWal,       \* bound: commits between two checkpoints
  MaxBackfills  \* bound: how often the backfill runs

RunIds == 1..MaxRuns

ASSUME MigrationAssumption ==
  /\ MaxRuns \in Nat /\ MaxWal \in Nat /\ MaxBackfills \in Nat
  /\ Legacy \subseteq RunIds /\ LegacyEnded \subseteq Legacy

Version    == 1                     \* the one entry of _MIGRATIONS
EventTypes == {"run_started", "run_stopped"}
Events     == [run: RunIds, type: EventTypes, source: {"live", "backfill"}]

Database == [columns: SUBSET Columns, version: 0..Version,
             run: [RunIds -> {"absent", "running", "ended"}],
             event: [Events -> Nat]]                \* how many rows

VARIABLES
  wal,      \* the committed states since the last checkpoint
  phase,    \* where the process is: "down", a step of init_schema, "serving"
  pending   \* the event that a Database method has still to record

vars == <<wal, phase, pending>>

db == wal[Len(wal)]
NoEvent == [run |-> 0, type |-> "none"]
Recorded(events) ==
  [db EXCEPT !.event = [e \in Events |-> IF e \in events THEN @[e] + 1 ELSE @[e]]]

TypeOK ==
  /\ wal \in Seq(Database) /\ wal # <<>>
  /\ phase \in {"down", "columns", "migrate", "version", "serving"}
  /\ pending \in [run: RunIds, type: EventTypes] \cup {NoEvent}

(* A database of before the event table, or, without legacy runs, a fresh  *)
(* one: version 0 either way.                                              *)
Init ==
  /\ \E columns \in (IF Legacy = {} THEN {Columns} ELSE SUBSET Columns) :
       wal = <<[columns |-> columns, version |-> 0,
                run |-> [r \in RunIds |-> IF r \in LegacyEnded THEN "ended"
                                          ELSE IF r \in Legacy THEN "running" ELSE "absent"],
                event |-> [e \in Events |-> 0]]>>
  /\ phase = "down"
  /\ pending = NoEvent

Commit(state) == /\ Len(wal) < MaxWal
                 /\ wal' = Append(wal, state)

-----------------------------------------------------------------------------
(***************************************************************************)
(* init_schema.                                                            *)
(***************************************************************************)
Boot ==
  /\ phase = "down"
  /\ phase' = "columns"
  /\ UNCHANGED <<wal, pending>>

(* ALTER TABLE commits by itself: each column is a step. *)
AddColumn(c) ==
  /\ phase = "columns" /\ c \notin db.columns
  /\ Commit([db EXCEPT !.columns = @ \cup {c}])
  /\ UNCHANGED <<phase, pending>>

(* Bug: one of the columns stands for all of them. *)
SomeColumns ==
  /\ phase = "columns" /\ db.columns # {}
  /\ phase' = "migrate"
  /\ UNCHANGED <<wal, pending>>

ColumnsDone ==
  /\ phase = "columns" /\ db.columns = Columns
  /\ phase' = "migrate"
  /\ UNCHANGED <<wal, pending>>

(* Bug: only runs that are over are backfilled. *)
BackfillEnded(state) ==
  {e \in Events : e.source = "backfill" /\ state.run[e.run] = "ended"}

(* _migrate_001_backfill_run_events: one transaction. *)
Backfilled(state) ==
  {e \in Events : /\ e.source = "backfill"
                  /\ \/ e.type = "run_started" /\ state.run[e.run] # "absent"
                     \/ e.type = "run_stopped" /\ state.run[e.run] = "ended"}

Migrate ==
  /\ phase = "migrate" /\ db.version < Version
  /\ \A e \in Events : e.source = "backfill" => db.event[e] < MaxBackfills
  /\ Commit(Recorded(Backfilled(db)))
  /\ phase' = "version"
  /\ UNCHANGED pending

MigrateNothing ==
  /\ phase = "migrate" /\ db.version >= Version
  /\ phase' = "serving"
  /\ UNCHANGED <<wal, pending>>

(* PRAGMA user_version, after the step has committed. *)
SetVersion ==
  /\ phase = "version"
  /\ Commit([db EXCEPT !.version = Version])
  /\ phase' = "serving"
  /\ UNCHANGED pending

-----------------------------------------------------------------------------
(***************************************************************************)
(* The runs of this release: the row is committed, then its event.         *)
(***************************************************************************)
Live(r, type) == [run |-> r, type |-> type, source |-> "live"]
Free == phase = "serving" /\ pending = NoEvent

StartRun(r) ==
  /\ Free /\ db.run[r] = "absent" /\ (\A q \in RunIds : q < r => db.run[q] # "absent")
  /\ Commit([db EXCEPT !.run[r] = "running"])
  /\ pending' = [run |-> r, type |-> "run_started"]
  /\ UNCHANGED phase

(* Bug: the event first. *)
StopRunEventFirst(r) ==
  /\ Free /\ db.run[r] = "running"
  /\ IF db.event[Live(r, "run_stopped")] = 0
     THEN Commit(Recorded({Live(r, "run_stopped")})) ELSE Commit([db EXCEPT !.run[r] = "ended"])
  /\ UNCHANGED <<phase, pending>>

StopRun(r) ==
  /\ Free /\ db.run[r] = "running"
  /\ Commit([db EXCEPT !.run[r] = "ended"])
  /\ pending' = [run |-> r, type |-> "run_stopped"]
  /\ UNCHANGED phase

RecordEvent ==
  /\ phase = "serving" /\ pending # NoEvent
  /\ Commit(Recorded({Live(pending.run, pending.type)}))
  /\ pending' = NoEvent
  /\ UNCHANGED phase

-----------------------------------------------------------------------------
(* The container is stopped: the shutdown waits for the handlers. *)
Shutdown ==
  /\ Free
  /\ phase' = "down"
  /\ UNCHANGED <<wal, pending>>

Kill ==
  /\ phase # "down"
  /\ phase' = "down" /\ pending' = NoEvent
  /\ UNCHANGED wal

LosePower ==
  /\ \E kept \in 1..Len(wal) : wal' = SubSeq(wal, 1, kept)
  /\ phase' = "down" /\ pending' = NoEvent

Checkpoint ==
  /\ Len(wal) > 1
  /\ wal' = <<db>>
  /\ UNCHANGED <<phase, pending>>

InitSchema == Boot \/ (\E c \in Columns : AddColumn(c)) \/ ColumnsDone
              \/ Migrate \/ MigrateNothing \/ SetVersion
Serve == (\E r \in RunIds : StartRun(r) \/ StopRun(r)) \/ RecordEvent

Next == InitSchema \/ Serve \/ Shutdown \/ Kill \/ LosePower \/ Checkpoint

Spec == Init /\ [][Next]_vars

-----------------------------------------------------------------------------
(***************************************************************************)
(* Properties.                                                             *)
(***************************************************************************)
Count(r, type, source) == db.event[[run |-> r, type |-> type, source |-> source]]

(* Requests are served on a database that has all its columns, and whose   *)
(* version says that the backfill is done: no crash leaves half a          *)
(* migration behind that the next start takes for a whole one.             *)
ServesMigrated ==
  phase = "serving" => db.columns = Columns /\ db.version = Version

(* Once the version says so, every run of the earlier release has its      *)
(* run_started and, if it was over, its run_stopped.  "Every inserted row  *)
(* gets source='backfill' so it can never be mistaken for live measurement *)
(* evidence": a run of this release is never backfilled, even if the       *)
(* version that was set before it got lost.                                *)
BackfillComplete ==
  /\ db.version = Version => \A r \in Legacy :
       /\ Count(r, "run_started", "backfill") > 0
       /\ r \in LegacyEnded => Count(r, "run_stopped", "backfill") > 0
  /\ \A r \in RunIds, type \in EventTypes :
       Count(r, type, "backfill") > 0 => r \in Legacy /\ (type = "run_stopped" => r \in LegacyEnded)

(* A power loss never leaves an event without the row it tells of, and no  *)
(* live event is recorded twice.                                           *)
EventsHaveTheirRows ==
  \A r \in RunIds :
    /\ Count(r, "run_started", "live") > 0 => db.run[r] # "absent"
    /\ Count(r, "run_stopped", "live") > 0 => db.run[r] = "ended"
    /\ \A type \in EventTypes : Count(r, type, "live") <= 1
=============================================================================
