------------------------------ MODULE EventPage ------------------------------
(***************************************************************************)
(* The event log, page by page: Database.list_events (cockpit/app/db.py),  *)
(* a keyset query, and the page that appends its answers (cockpit/app/     *)
(* static/js/events.js), while events are recorded, the filter is changed  *)
(* and live messages make the page start over.                             *)
(*                                                                         *)
(* An event's id is its place in the log, its kind is what filters look    *)
(* at: its type and its node.  A filter is the set of kinds it lets pass.  *)
(***************************************************************************)
EXTENDS Integers, Sequences, FiniteSets, SequencesExt

CONSTANTS
  Kinds,
  Limit,       \* EVENT_LOG_DEFAULT_LIMIT, 50
  MaxEvents,   \* bound
  MaxFlight    \* bound: requests in flight

ASSUME EventPageAssumption ==
  Limit \in Nat \ {0} /\ MaxEvents \in Nat /\ MaxFlight \in Nat \ {0}

VARIABLES
  log,       \* table event
  rows,      \* _eventsRows: the ids on the page
  cursor,    \* _eventsCursor, 0 for null
  hasMore,   \* _eventsHasMore: the "Load more" button is there
  filter,    \* _eventsTypeFilter, _eventsNodeFilter
  flight,    \* requests in flight, oldest first
  tangled,   \* history: a load has begun while another was in flight, since the page last started over alone
  opened,    \* history: a load was answered since the page last started over
  failed,    \* history: a load failed since then
  noted      \* history: length of the log then

pageVars == <<log, rows, cursor, hasMore, filter, flight, tangled, opened, failed, noted>>

Filters == {Kinds} \cup {{k} : k \in Kinds}
Page == [events: Seq(DOMAIN log), next: 0..Len(log), more: BOOLEAN]
Request == [cursor: 0..Len(log), filter: Filters, served: BOOLEAN, page: Page]
Unanswered == [events |-> <<>>, next |-> 0, more |-> FALSE]

PageTypeOK ==
  /\ log \in Seq(Kinds) /\ Len(log) <= MaxEvents
  /\ rows \in Seq(DOMAIN log) /\ cursor \in 0..Len(log) /\ hasMore \in BOOLEAN
  /\ filter \in Filters
  /\ flight \in Seq(Request) /\ \A i \in DOMAIN flight : Len(flight[i].page.events) <= Limit
  /\ tangled \in BOOLEAN /\ opened \in BOOLEAN /\ failed \in BOOLEAN /\ noted \in 0..Len(log)

-----------------------------------------------------------------------------
(* S newest first: n ids of it are no older than the n-th. *)
Listing(S) == [n \in 1..Cardinality(S) |-> CHOOSE i \in S : Cardinality({j \in S : j >= i}) = n]

(* The ids of the events that pass f, newest first. *)
Matching(f, S) == Listing({i \in S : log[i] \in f})

Below(c) == IF c = 0 THEN DOMAIN log ELSE 1..(c - 1)

(* Bug: the next page begins at the first row that this one left out. *)
ListEventsFromNext(c, f) ==
  LET found == Matching(f, Below(c))
      more == Len(found) > Limit IN
  [events |-> IF more THEN SubSeq(found, 1, Limit) ELSE found,
   next |-> IF more THEN found[Limit + 1] ELSE 0,
   more |-> more]

ListEvents(c, f) ==
  LET found == Matching(f, Below(c))
      more == Len(found) > Limit IN
  [events |-> IF more THEN SubSeq(found, 1, Limit) ELSE found,
   next |-> IF more THEN found[Limit] ELSE 0,
   more |-> more]

AppendEvent(k) ==
  /\ Len(log) < MaxEvents
  /\ log' = Append(log, k)
  /\ UNCHANGED <<rows, cursor, hasMore, filter, flight, tangled, opened, failed, noted>>

ServePage(i) ==
  /\ ~flight[i].served
  /\ flight' = [flight EXCEPT ![i].served = TRUE,
                              ![i].page = ListEvents(flight[i].cursor, flight[i].filter)]
  /\ UNCHANGED <<log, rows, cursor, hasMore, filter, tangled, opened, failed, noted>>

-----------------------------------------------------------------------------
(***************************************************************************)
(* loadEventsLog.                                                          *)
(***************************************************************************)
Send(c, f) ==
  /\ Len(flight) < MaxFlight
  /\ flight' = Append(flight, [cursor |-> c, filter |-> f, served |-> FALSE, page |-> Unanswered])

(* Bug: the cursor of before is kept. *)
StartOverBelow(f) ==
  /\ filter' = f
  /\ rows' = <<>> /\ cursor' = cursor
  /\ Send(cursor, f)
  /\ tangled' = (flight # <<>>)
  /\ opened' = FALSE /\ failed' = FALSE /\ noted' = Len(log)
  /\ UNCHANGED <<log, hasMore>>

(* reset: a live message, a switch to this view, a change of the filter.   *)
(* "Load more" stays until there is an answer.                             *)
StartOver(f) ==
  /\ filter' = f
  /\ rows' = <<>> /\ cursor' = 0
  /\ Send(0, f)
  /\ tangled' = (flight # <<>>)
  /\ opened' = FALSE /\ failed' = FALSE /\ noted' = Len(log)
  /\ UNCHANGED <<log, hasMore>>

LoadMore ==
  /\ hasMore
  /\ Send(cursor, filter)
  /\ tangled' = (tangled \/ flight # <<>>)
  /\ UNCHANGED <<log, rows, cursor, hasMore, filter, opened, failed, noted>>

Answer(i) ==
  /\ flight[i].served
  /\ rows' = rows \o flight[i].page.events
  /\ cursor' = flight[i].page.next /\ hasMore' = flight[i].page.more
  /\ flight' = RemoveAt(flight, i)
  /\ opened' = TRUE
  /\ UNCHANGED <<log, filter, tangled, failed, noted>>

(* The page shows the error, and keeps cursor and button. *)
Fail(i) ==
  /\ flight' = RemoveAt(flight, i)
  /\ failed' = TRUE
  /\ UNCHANGED <<log, rows, cursor, hasMore, filter, tangled, opened, noted>>

-----------------------------------------------------------------------------
(* The view is opened for the first time. *)
PageInit ==
  /\ log = <<>> /\ rows = <<>> /\ cursor = 0 /\ hasMore = FALSE /\ filter = Kinds
  /\ flight = <<[cursor |-> 0, filter |-> Kinds, served |-> FALSE, page |-> Unanswered]>>
  /\ tangled = FALSE /\ opened = FALSE /\ failed = FALSE /\ noted = 0

PageNext ==
  \/ \E k \in Kinds : AppendEvent(k)
  \/ \E f \in Filters : StartOver(f)
  \/ LoadMore
  \/ \E i \in DOMAIN flight : ServePage(i) \/ Answer(i) \/ Fail(i)

PageSpec == PageInit /\ [][PageNext]_pageVars

-----------------------------------------------------------------------------
(***************************************************************************)
(* Properties.  "Starts over from page 1" (events.js:53) clears the rows,  *)
(* but not the requests in flight: where loads overlap, their answers are  *)
(* appended all the same.                                                  *)
(***************************************************************************)

(* While loads do not overlap, the rows are a stretch of the log without a *)
(* gap, a repetition or an event that the filter bars, newest first: pages *)
(* fit together although events are recorded between them, and after       *)
(* loads that failed; and "Load more" is there if and only if there is     *)
(* more to load, and goes on right behind the last row.                    *)
PagesFitTogether ==
  ~tangled =>
    /\ rows # <<>> => rows = Matching(filter, Last(rows)..Head(rows))
    /\ opened => (hasMore <=> rows # <<>> /\ Matching(filter, 1..(Last(rows) - 1)) # <<>>)
    /\ opened /\ hasMore => cursor = Last(rows)

(* However loads overlap, once all are answered the page has the newest    *)
(* event that was recorded when it last started over.                      *)
NewestAppears ==
  flight = <<>> /\ ~failed =>
    \A i \in 1..noted : log[i] \in filter =>
      \E j \in DOMAIN rows : rows[j] >= i /\ log[rows[j]] \in filter
=============================================================================
