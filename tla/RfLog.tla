-------------------------------- MODULE RfLog --------------------------------
(***************************************************************************)
(* The RF environment log: how the ingest thread classifies the frames     *)
(* that the gateway overhears (CampaignState.process_coex_frame in         *)
(* cockpit/app/state.py), and the tables rf_frame and rf_stat that it      *)
(* writes (cockpit/app/db.py).                                             *)
(*                                                                         *)
(* A frame goes through two sections of CampaignState's lock, one method   *)
(* of Database and a broadcast: `ingest` is where it is.  The counters and *)
(* the known addresses live in memory, the tables survive a restart.       *)
(* Frames are told apart by what the classification looks at: join-request *)
(* or data, and the sender, with the session its DevAddr belongs to.       *)
(***************************************************************************)
EXTENDS Integers, Sequences

CONSTANTS
  Devices,      \* the devices of the application
  Strangers,    \* other senders in range
  Retention,    \* RF_FRAME_RETENTION_MAX, 200000
  TrimEvery,    \* _RF_FRAME_TRIM_EVERY, 500
  MaxFrames,    \* bound: frames counted in one life of the process
  MaxSessions,  \* bound: joins of a device
  MaxRestarts   \* bound

ASSUME RfLogAssumption ==
  /\ Devices \cap Strangers = {} /\ Devices \cup Strangers # {}
  /\ Retention \in Nat \ {0} /\ TrimEvery \in Nat \ {0}
  /\ MaxFrames \in Nat /\ MaxSessions \in Nat /\ MaxRestarts \in Nat

Senders == Devices \cup Strangers
Sessions == 0..MaxSessions
Frame == [mtype: {"join", "data"}, from: Senders, session: Sessions]

VARIABLES
  session,   \* external: a device's current session, 0 before its first join
  joined,    \* external: devices whose join event is on its way
  known,     \* _dev_addrs: the session by whose DevAddr the cockpit knows a device, or 0
  coex,      \* the live counters
  ingest,    \* where the ingest thread is, with which frame
  rows,      \* rf_frame, oldest first
  trimmed,   \* rows deleted so far: rows[i] has id trimmed + i
  inserts,   \* _rf_frame_insert_count, in memory
  ownStat,   \* rf_stat.own_frames
  restarts,
  missed,    \* history: <<device, session>> of join events and start-up DevAddrs missed
  spared     \* history: no restart and no failed write so far

logVars == <<rows, trimmed, inserts>>
vars == <<session, joined, known, coex, ingest, rows, trimmed, inserts, ownStat,
          restarts, missed, spared>>

NoFrame == [mtype |-> "join", from |-> CHOOSE s \in Senders : TRUE, session |-> 0]
Idle == [at |-> "idle", class |-> "unknown", frame |-> NoFrame]
NoCounts == [frames |-> 0, own |-> 0, foreign |-> 0, unknown |-> 0]

TypeOK ==
  /\ session \in [Devices -> Sessions] /\ known \in [Devices -> Sessions]
  /\ joined \subseteq Devices
  /\ coex \in [frames: Nat, own: Nat, foreign: Nat, unknown: Nat]
  /\ ingest \in [at: {"idle", "count", "record", "announce"},
                 class: {"own", "foreign", "stranger", "unknown"}, frame: Frame]
  /\ rows \in Seq(Frame)
  /\ trimmed \in Nat /\ inserts \in Nat /\ ownStat \in Nat /\ restarts \in Nat
  /\ missed \subseteq Devices \X Sessions /\ spared \in BOOLEAN

Init ==
  /\ session = [d \in Devices |-> 0] /\ known = [d \in Devices |-> 0]
  /\ joined = {}
  /\ coex = NoCounts
  /\ ingest = Idle
  /\ rows = <<>> /\ trimmed = 0 /\ inserts = 0 /\ ownStat = 0
  /\ restarts = 0 /\ missed = {} /\ spared = TRUE

Recorded == trimmed + Len(rows)   \* the id of the newest row ever written

-----------------------------------------------------------------------------
(***************************************************************************)
(* Joins.                                                                  *)
(***************************************************************************)
(* ChirpStack accepts a join: a new DevAddr, and an event/join.            *)
Join(d) ==
  /\ session[d] < MaxSessions
  /\ session' = [session EXCEPT ![d] = @ + 1]
  /\ joined' = joined \cup {d}
  /\ UNCHANGED <<known, coex, ingest, logVars, ownStat, restarts, missed, spared>>

(* Bug: only a device that is not known yet is taken up. *)
ProcessJoinOnce(d) ==
  /\ ingest.at = "idle" /\ d \in joined
  /\ joined' = joined \ {d}
  /\ known' = [known EXCEPT ![d] = IF @ = 0 THEN session[d] ELSE @]
  /\ UNCHANGED <<session, coex, ingest, logVars, ownStat, restarts, missed, spared>>

ProcessJoin(d) ==
  /\ ingest.at = "idle" /\ d \in joined
  /\ joined' = joined \ {d}
  /\ known' = [known EXCEPT ![d] = session[d]]
  /\ UNCHANGED <<session, coex, ingest, logVars, ownStat, restarts, missed, spared>>

(* QoS 0: published while the subscriber is reconnecting. *)
LoseJoin(d) ==
  /\ d \in joined
  /\ joined' = joined \ {d}
  /\ missed' = missed \cup {<<d, session[d]>>}
  /\ UNCHANGED <<session, known, coex, ingest, logVars, ownStat, restarts, spared>>

-----------------------------------------------------------------------------
(***************************************************************************)
(* process_coex_frame.                                                     *)
(***************************************************************************)
KnownEuis == {d \in Devices : known[d] # 0}
KnownAddrs == {<<d, known[d]>> : d \in KnownEuis}

(* What the cockpit takes a frame for; "stranger" is the join-request of   *)
(* an EUI without a known DevAddr.  Without any known DevAddr no data      *)
(* frame can be told.                                                      *)
Class(f) ==
  CASE f.mtype = "join" -> IF f.from \in KnownEuis THEN "unknown" ELSE "stranger"
    [] f.mtype = "data" /\ KnownAddrs = {} -> "unknown"
    [] f.mtype = "data" /\ KnownAddrs # {} ->
         IF <<f.from, f.session>> \in KnownAddrs THEN "own" ELSE "foreign"

(* A device sends data within a session, which follows its join event by   *)
(* seconds; a stranger has one DevAddr all along.                          *)
OnAir(f) ==
  IF f.from \in Devices
  THEN /\ f.session = session[f.from] /\ f.from \notin joined
       /\ f.mtype = "data" => f.session # 0
  ELSE f.session = 0

(* The first section: count, and copy what is known. *)
HearFrame(f) ==
  /\ ingest.at = "idle" /\ coex.frames < MaxFrames /\ OnAir(f)
  /\ coex' = [coex EXCEPT !.frames = @ + 1]
  /\ ingest' = [at |-> "count", class |-> Class(f), frame |-> f]
  /\ UNCHANGED <<session, joined, known, logVars, ownStat, restarts, missed, spared>>

(* Bug: a frame that cannot be told is not counted. *)
CountToldOnly ==
  /\ ingest.at = "count"
  /\ coex' = CASE ingest.class = "own" -> [coex EXCEPT !.own = @ + 1]
               [] ingest.class = "foreign" -> [coex EXCEPT !.foreign = @ + 1]
               [] ingest.class \in {"stranger", "unknown"} -> coex
  /\ ingest' = [ingest EXCEPT !.at = "record"]
  /\ UNCHANGED <<session, joined, known, logVars, ownStat, restarts, missed, spared>>

(* The second section. *)
CountFrame ==
  /\ ingest.at = "count"
  /\ coex' = CASE ingest.class = "own" -> [coex EXCEPT !.own = @ + 1]
               [] ingest.class = "foreign" -> [coex EXCEPT !.foreign = @ + 1]
               [] ingest.class \in {"stranger", "unknown"} -> [coex EXCEPT !.unknown = @ + 1]
  /\ ingest' = [ingest EXCEPT !.at = "record"]
  /\ UNCHANGED <<session, joined, known, logVars, ownStat, restarts, missed, spared>>

-----------------------------------------------------------------------------
(***************************************************************************)
(* _record_rf_environment_frame, record_rf_frame, _trim_rf_frames.         *)
(***************************************************************************)
IsForeign == ingest.class \in {"foreign", "stranger"}

(* Bug: trimming starts from the log that the limit would leave anyway. *)
ExcessOffByOne(n) == IF n > Retention THEN n - Retention + 1 ELSE 0

(* The rows older than the Retention-th newest. *)
Excess(n) == IF n >= Retention THEN n - Retention ELSE 0

(* Bug: inserts are not counted. *)
AppendRowUncounted(due) ==
  LET cut == IF due THEN Excess(Len(rows) + 1) ELSE 0 IN
  /\ rows' = SubSeq(Append(rows, ingest.frame), cut + 1, Len(rows) + 1)
  /\ trimmed' = trimmed + cut
  /\ inserts' = inserts

AppendRow(due) ==
  LET cut == IF due THEN Excess(Len(rows) + 1) ELSE 0 IN
  /\ rows' = SubSeq(Append(rows, ingest.frame), cut + 1, Len(rows) + 1)
  /\ trimmed' = trimmed + cut
  /\ inserts' = inserts + 1

TrimDue == (inserts + 1) % TrimEvery = 0

RecordFrame ==
  /\ ingest.at = "record"
  /\ IF IsForeign THEN AppendRow(TrimDue) ELSE UNCHANGED logVars
  /\ ownStat' = IF ingest.class = "own" THEN ownStat + 1 ELSE ownStat
  /\ ingest' = [ingest EXCEPT !.at = "announce"]
  /\ UNCHANGED <<session, joined, known, coex, restarts, missed, spared>>

(* A database error is logged; the classification goes on. *)
RecordFails ==
  /\ ingest.at = "record" /\ ingest.class # "unknown"
  /\ ingest' = [ingest EXCEPT !.at = "announce"]
  /\ spared' = FALSE
  /\ UNCHANGED <<session, joined, known, coex, logVars, ownStat, restarts, missed>>

(* The "coex" message. *)
Announce ==
  /\ ingest.at = "announce"
  /\ ingest' = Idle
  /\ UNCHANGED <<session, joined, known, coex, logVars, ownStat, restarts, missed, spared>>

-----------------------------------------------------------------------------
(***************************************************************************)
(* A restart: memory is gone, and _lifespan fetches the DevAddrs, which    *)
(* may fail half way.  The events that come meanwhile are lost, but        *)
(* ChirpStack tells the DevAddrs of after.                                 *)
(***************************************************************************)
Fetched(S) == [d \in Devices |-> IF d \in S THEN session[d] ELSE 0]

Boot ==
  /\ restarts < MaxRestarts /\ restarts' = restarts + 1
  /\ \E S \in SUBSET Devices :
       /\ known' = Fetched(S)
       /\ missed' = missed \cup {<<d, session[d]>> : d \in {e \in Devices \ S : session[e] # 0}}
  /\ joined' = {}
  /\ coex' = NoCounts /\ ingest' = Idle /\ inserts' = 0
  /\ spared' = FALSE

Restart ==
  /\ Boot
  /\ UNCHANGED <<session, rows, trimmed, ownStat>>

(* The process dies between the commit of a row and the trimming that was  *)
(* due after it.                                                           *)
DieBeforeTrim ==
  /\ ingest.at = "record" /\ IsForeign /\ TrimDue
  /\ Boot
  /\ rows' = Append(rows, ingest.frame)
  /\ UNCHANGED <<session, trimmed, ownStat>>

-----------------------------------------------------------------------------
Joins == \E d \in Devices : Join(d) \/ ProcessJoin(d) \/ LoseJoin(d)
Frames == (\E f \in Frame : HearFrame(f)) \/ CountFrame \/ RecordFrame \/ RecordFails
Restarts == Restart \/ DieBeforeTrim

Next == Joins \/ Frames \/ Announce \/ Restarts

Spec == Init /\ [][Next]_vars

-----------------------------------------------------------------------------
(***************************************************************************)
(* Properties.                                                             *)
(***************************************************************************)

(* "Bounded by RF_FRAME_RETENTION_MAX" (db.py:35), as far as it is so: the *)
(* log outgrows it by the inserts since the last trimming, and as the      *)
(* count of inserts begins anew with every process, by up to TrimEvery     *)
(* more for each restart since.                                            *)
RetentionBounded == Len(rows) < Retention + TrimEvery * (restarts + 1)

(* Trimming takes the oldest rows and never one of the newest Retention.   *)
NewestKept == trimmed > 0 => Len(rows) >= Retention

(* GET /api/state may be answered between the two sections of the lock:    *)
(* even then the classes add up to the frames but for the one in hand; and *)
(* as long as nothing failed, the tables have what the counters have.      *)
CountersAgree ==
  LET inHand(classes) == IF ingest.at = "record" /\ ingest.class \in classes THEN 1 ELSE 0 IN
  /\ coex.frames = coex.own + coex.foreign + coex.unknown + (IF ingest.at = "count" THEN 1 ELSE 0)
  /\ spared =>
       /\ coex.own = ownStat + inHand({"own"})
       /\ coex.foreign <= Recorded + inHand({"foreign"})
       /\ Recorded + inHand({"foreign", "stranger"}) <= coex.foreign + coex.unknown

(* "only definitively-foreign data frames feed the survey" (state.py:629): *)
(* a data frame of an own device is in the survey only if the DevAddr it   *)
(* was sent under was missed, and of its join-requests only those of       *)
(* before its first join, or of such a session.  So a join event or a      *)
(* start-up that is missed misleads the survey about one session of one    *)
(* device: its next join, or a restart, puts it right.                     *)
SurveyIsForeign ==
  \A i \in DOMAIN rows :
    rows[i].from \in Devices =>
      \/ <<rows[i].from, rows[i].session>> \in missed
      \/ rows[i].mtype = "join" /\ rows[i].session = 0
=============================================================================
