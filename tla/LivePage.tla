------------------------------ MODULE LivePage ------------------------------
(***************************************************************************)
(* A browser page that shows the RF survey, with live messages as the      *)
(* trigger to fetch it again (cockpit/app/static/js/rf.js): fetches are    *)
(* throttled, coalesced and repeated every 30 s.  The messages come over   *)
(* LiveBus, over one connection at a time (sse.js).                        *)
(*                                                                         *)
(* The ingest thread writes, then publishes: its n-th message announces    *)
(* version n of the survey.  A fetch is answered with the version at the   *)
(* time the server handles it; fetches travel on connections of their own, *)
(* and their answers may overtake each other.  The other publishers'       *)
(* messages share the connection and its queue.                            *)
(***************************************************************************)
EXTENDS LiveBus

CONSTANTS
  Ingest,       \* the publisher of the "coex" messages
  None,         \* no connection
  MaxFailures   \* bound: fetches that fail

ASSUME LivePageAssumption ==
  Ingest \in Publishers /\ None \notin Clients /\ MaxFailures \in Nat

VARIABLES
  written,   \* version of the survey in the database
  es,        \* the page's EventSource
  timer,     \* _rfEnvDebounce is set
  loading,   \* _rfEnvLoading
  pending,   \* _rfEnvPending
  fetches,   \* in flight, oldest first
  shown,     \* version on the page
  noted,     \* history: newest version the page was told of
  failed,    \* history: the last fetch failed
  failures

pageVars == <<es, timer, loading, pending, fetches, shown, noted, failed, failures>>
vars == <<busVars, written, pageVars>>

Fetch == [served: BOOLEAN, version: Nat]
Sent == [served |-> FALSE, version |-> 0]

TypeOK ==
  /\ BusTypeOK
  /\ written \in Nat /\ shown \in Nat /\ noted \in Nat /\ failures \in Nat
  /\ es \in Clients \cup {None}
  /\ timer \in BOOLEAN /\ loading \in BOOLEAN /\ pending \in BOOLEAN /\ failed \in BOOLEAN
  /\ fetches \in Seq(Fetch)

(* The page starts to listen and to load. *)
Init ==
  /\ BusInit
  /\ written = 0 /\ shown = 0 /\ noted = 0
  /\ es = None /\ timer = FALSE /\ loading = TRUE /\ pending = FALSE
  /\ fetches = <<Sent>>
  /\ failed = FALSE /\ failures = 0

-----------------------------------------------------------------------------
(***************************************************************************)
(* The server.                                                             *)
(***************************************************************************)
Write ==
  /\ fanout[Ingest] = {} /\ written = published[Ingest] /\ written < MaxPublished
  /\ written' = written + 1
  /\ UNCHANGED <<busVars, pageVars>>

Announce ==
  /\ Publish(Ingest)
  /\ written > published[Ingest]
  /\ UNCHANGED <<written, pageVars>>

Serve(i) ==
  /\ ~fetches[i].served
  /\ fetches' = [fetches EXCEPT ![i] = [served |-> TRUE, version |-> written]]
  /\ UNCHANGED <<busVars, written, es, timer, loading, pending, shown, noted, failed, failures>>

Bus ==
  /\ \/ SafePut
     \/ \E p \in Publishers : Schedule(p) \/ (p # Ingest /\ Publish(p))
     \/ \E c \in Clients : Unsubscribe(c)
  /\ UNCHANGED <<written, pageVars>>

-----------------------------------------------------------------------------
(***************************************************************************)
(* The page listens.                                                       *)
(***************************************************************************)
Connect(c) ==
  /\ es = None /\ Subscribe(c)
  /\ es' = c
  /\ UNCHANGED <<written, timer, loading, pending, fetches, shown, noted, failed, failures>>

(* es.onerror: close, and connect again 4 s later. *)
Disconnect ==
  /\ es # None /\ Break(es)
  /\ es' = None
  /\ UNCHANGED <<written, timer, loading, pending, fetches, shown, noted, failed, failures>>

(* A "coex" message: scheduleRfEnvironmentRefresh. *)
HearCoex ==
  /\ es # None /\ Deliver(es) /\ Head(queue[es]).from = Ingest
  /\ noted' = Head(queue[es]).nr
  /\ timer' = TRUE
  /\ UNCHANGED <<written, es, loading, pending, fetches, shown, failed, failures>>

HearOther ==
  /\ es # None /\ Deliver(es) /\ Head(queue[es]).from # Ingest
  /\ UNCHANGED <<written, pageVars>>

-----------------------------------------------------------------------------
(***************************************************************************)
(* loadRfEnvironment.                                                      *)
(***************************************************************************)
Send(inFlight) == Append(inFlight, Sent)

(* Bug: a second call does nothing while a fetch is in flight. *)
LoadOnce ==
  IF loading
  THEN UNCHANGED <<loading, pending, fetches>>
  ELSE loading' = TRUE /\ fetches' = Send(fetches) /\ UNCHANGED pending

(* Bug: a second call fetches, too. *)
LoadBeside ==
  /\ loading' = TRUE /\ UNCHANGED pending
  /\ fetches' = IF Len(fetches) < 2 THEN Send(fetches) ELSE fetches

Load ==
  IF loading
  THEN pending' = TRUE /\ UNCHANGED <<loading, fetches>>
  ELSE loading' = TRUE /\ fetches' = Send(fetches) /\ UNCHANGED pending

TimerFires ==
  /\ timer /\ timer' = FALSE
  /\ Load
  /\ UNCHANGED <<busVars, written, es, shown, noted, failed, failures>>

(* Every 30 s, and when the theme is switched. *)
Ticker ==
  /\ Load
  /\ UNCHANGED <<busVars, written, es, timer, shown, noted, failed, failures>>

(* Bug: only an answer resets the flag. *)
FinallyAfterAnswer(i) ==
  LET rest == RemoveAt(fetches, i) IN
  /\ loading' = (pending \/ failures' > failures) /\ pending' = FALSE
  /\ fetches' = IF pending THEN Send(rest) ELSE rest

(* The finally block: a call that came meanwhile is made now. *)
Finally(i) ==
  LET rest == RemoveAt(fetches, i) IN
  /\ loading' = pending /\ pending' = FALSE
  /\ fetches' = IF pending THEN Send(rest) ELSE rest

Answer(i) ==
  /\ fetches[i].served
  /\ shown' = fetches[i].version /\ failed' = FALSE
  /\ UNCHANGED failures
  /\ Finally(i)
  /\ UNCHANGED <<busVars, written, es, timer, noted>>

(* The page keeps what it shows. *)
Fail(i) ==
  /\ failures < MaxFailures /\ failures' = failures + 1
  /\ failed' = TRUE /\ UNCHANGED shown
  /\ Finally(i)
  /\ UNCHANGED <<busVars, written, es, timer, noted>>

-----------------------------------------------------------------------------
Server == Write \/ Announce \/ (\E i \in DOMAIN fetches : Serve(i)) \/ Bus
Listen == (\E c \in Clients : Connect(c)) \/ Disconnect \/ HearCoex \/ HearOther
Refresh == TimerFires \/ Ticker \/ \E i \in DOMAIN fetches : Answer(i) \/ Fail(i)

Next == Server \/ Listen \/ Refresh

Spec == Init /\ [][Next]_vars

(* The ticker runs, and a fetch is handled and answered, or fails. *)
Fairness ==
  /\ WF_vars(Ticker)
  /\ WF_vars(\E i \in DOMAIN fetches : Serve(i))
  /\ WF_vars(\E i \in DOMAIN fetches : Answer(i) \/ Fail(i))

FairSpec == Spec /\ Fairness

-----------------------------------------------------------------------------
(***************************************************************************)
(* Properties.                                                             *)
(***************************************************************************)

(* Overlapping calls, throttled ones and failures included, the survey on  *)
(* the page never goes back to an older one.                               *)
SurveyNeverGoesBack == [][shown' >= shown]_vars

(* Coalescing loses no trigger: when no timer is set and no fetch is in    *)
(* flight, the survey is at least as new as what the page was last told    *)
(* of, unless the last fetch failed.                                       *)
QuietIsFresh == ~timer /\ ~loading /\ ~failed => shown >= noted

(* Every version of the survey is shown in the end, or a newer one, even   *)
(* if its message was lost with the connection, and after failures.        *)
SurveyCatchesUp == \A n \in 1..MaxPublished : written = n ~> shown >= n
=============================================================================
