------------------------------- MODULE LiveBus -------------------------------
(***************************************************************************)
(* The live event stream of the cockpit: CampaignState._broadcast and      *)
(* _safe_put (cockpit/app/state.py) and GET /api/events (cockpit/app/      *)
(* main.py).                                                               *)
(*                                                                         *)
(* A publisher is a thread.  It copies the list of subscribers under the   *)
(* lock, then hands one callback per subscriber to the event loop, which   *)
(* runs callbacks in the order they came and puts the message into the     *)
(* subscriber's bounded queue.  Between any two of these steps other       *)
(* publishers publish, and subscribers come and go.  A client is a         *)
(* connection with its queue; once it is over, and nothing is on its way   *)
(* any more, it stands for a new one.                                      *)
(***************************************************************************)
EXTENDS Integers, Sequences, SequencesExt, Functions

CONSTANTS
  Publishers,
  Clients,
  Capacity,      \* 200
  MaxPublished   \* bound: messages in all

ASSUME LiveBusAssumption ==
  Capacity \in Nat \ {0} /\ MaxPublished \in Nat

VARIABLES
  published,  \* messages each publisher has published: the number of the last one
  fanout,     \* subscribers that the last message has not been scheduled for
  subs,       \* CampaignState._subscribers
  ready,      \* callbacks the event loop has yet to run
  queue,
  conn,
  seen,       \* the last number each client got, at first that of when it subscribed
  overflowed  \* history: clients for whom a message was dropped

busVars == <<published, fanout, subs, ready, queue, conn, seen, overflowed>>

Message == [from: Publishers, nr: Nat]

BusTypeOK ==
  /\ published \in [Publishers -> Nat]
  /\ fanout \in [Publishers -> SUBSET Clients] /\ subs \subseteq Clients
  /\ ready \in Seq([to: Clients, msg: Message])
  /\ queue \in [Clients -> Seq(Message)] /\ \A c \in Clients : Len(queue[c]) <= Capacity
  /\ conn \in [Clients -> {"off", "open", "gone"}]
  /\ seen \in [Clients -> [Publishers -> Nat]]
  /\ overflowed \subseteq Clients

BusInit ==
  /\ published = [p \in Publishers |-> 0] /\ fanout = [p \in Publishers |-> {}]
  /\ subs = {} /\ ready = <<>>
  /\ queue = [c \in Clients |-> <<>>] /\ conn = [c \in Clients |-> "off"]
  /\ seen = [c \in Clients |-> [p \in Publishers |-> 0]]
  /\ overflowed = {}

-----------------------------------------------------------------------------
(* _broadcast: the copy of the list. *)
Publish(p) ==
  /\ fanout[p] = {} /\ SumFunction(published) < MaxPublished
  /\ published' = [published EXCEPT ![p] = @ + 1]
  /\ fanout' = [fanout EXCEPT ![p] = subs]
  /\ UNCHANGED <<subs, ready, queue, conn, seen, overflowed>>

(* _broadcast: call_soon_threadsafe for a subscriber of the copy. *)
Schedule(p) ==
  \E c \in fanout[p] :
    /\ ready' = Append(ready, [to |-> c, msg |-> [from |-> p, nr |-> published[p]]])
    /\ fanout' = [fanout EXCEPT ![p] = @ \ {c}]
    /\ UNCHANGED <<published, subs, queue, conn, seen, overflowed>>

(* Bug: a full queue refuses the new message. *)
RoomFirst(q, m) == IF Len(q) = Capacity THEN q ELSE Append(q, m)

(* A full queue gives up its oldest message. *)
Put(q, m) == Append(IF Len(q) = Capacity THEN Tail(q) ELSE q, m)

SafePut ==
  /\ ready # <<>>
  /\ ready' = Tail(ready)
  /\ LET c == Head(ready).to IN
     /\ queue' = [queue EXCEPT ![c] = Put(@, Head(ready).msg)]
     /\ overflowed' = IF Len(queue[c]) = Capacity THEN overflowed \cup {c} ELSE overflowed
  /\ UNCHANGED <<published, fanout, subs, conn, seen>>

-----------------------------------------------------------------------------
(* GET /api/events. *)
OverAndDone(c) ==
  /\ conn[c] = "off"
  /\ \A p \in Publishers : c \notin fanout[p]
  /\ \A i \in DOMAIN ready : ready[i].to # c

Subscribe(c) ==
  /\ OverAndDone(c)
  /\ conn' = [conn EXCEPT ![c] = "open"]
  /\ subs' = subs \cup {c}
  /\ queue' = [queue EXCEPT ![c] = <<>>]
  /\ seen' = [seen EXCEPT ![c] = published]
  /\ overflowed' = overflowed \ {c}
  /\ UNCHANGED <<published, fanout, ready>>

(* The generator takes a message, and the client gets it. *)
Deliver(c) ==
  /\ conn[c] = "open" /\ queue[c] # <<>>
  /\ queue' = [queue EXCEPT ![c] = Tail(@)]
  /\ seen' = [seen EXCEPT ![c][Head(queue[c]).from] = Head(queue[c]).nr]
  /\ UNCHANGED <<published, fanout, subs, ready, conn, overflowed>>

(* The connection breaks, with what the client has not got yet. *)
Break(c) ==
  /\ conn[c] = "open"
  /\ conn' = [conn EXCEPT ![c] = "gone"]
  /\ UNCHANGED <<published, fanout, subs, ready, queue, seen, overflowed>>

(* The generator notices, by the next ping at the latest. *)
Unsubscribe(c) ==
  /\ conn[c] = "gone"
  /\ conn' = [conn EXCEPT ![c] = "off"]
  /\ subs' = subs \ {c}
  /\ UNCHANGED <<published, fanout, ready, queue, seen, overflowed>>

-----------------------------------------------------------------------------
(* p's messages on their way to c, and their numbers. *)
Waiting(c, p) == {i \in DOMAIN queue[c] : queue[c][i].from = p}
Called(c, p)  == {i \in DOMAIN ready : ready[i].to = c /\ ready[i].msg.from = p}

OnTheWay(c, p) ==
  {queue[c][i].nr : i \in Waiting(c, p)} \cup {ready[i].msg.nr : i \in Called(c, p)}
    \cup IF c \in fanout[p] THEN {published[p]} ELSE {}

InOrder(c, p) ==
  /\ \A i, j \in Waiting(c, p) : i < j => queue[c][i].nr < queue[c][j].nr
  /\ \A i \in Waiting(c, p), j \in Called(c, p) : queue[c][i].nr < ready[j].msg.nr
  /\ \A i, j \in Called(c, p) : i < j => ready[i].msg.nr < ready[j].msg.nr
  /\ c \in fanout[p] => /\ \A i \in Waiting(c, p) : queue[c][i].nr < published[p]
                        /\ \A i \in Called(c, p) : ready[i].msg.nr < published[p]

(* However publishers, subscriptions and the event loop interleave: what   *)
(* is on its way to a client is, for each publisher, the newest messages   *)
(* in the order they were published and without a gap.  As long as its     *)
(* queue has not overflowed, these are all since the last that it got, or  *)
(* since it subscribed.                                                    *)
NothingSkipped ==
  \A c \in Clients, p \in Publishers : conn[c] = "open" =>
    /\ InOrder(c, p)
    /\ \E first \in 1..(published[p] + 1) :
         /\ OnTheWay(c, p) = first..published[p]
         /\ c \notin overflowed => first = seen[c][p] + 1
=============================================================================
