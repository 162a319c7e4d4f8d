--------------------------- MODULE LivePageProofs ---------------------------
(***************************************************************************)
(* Proofs about the page that shows the survey, and about the bus that     *)
(* tells it.  The page's two theorems need that no message on its way      *)
(* announces a version that is not yet written, and that there is one      *)
(* fetch in flight exactly while loading is set.  The bus's theorem        *)
(* follows the messages of one publisher to one client through the three   *)
(* places where they wait.                                                 *)
(***************************************************************************)
EXTENDS LivePage, TLAPS

-----------------------------------------------------------------------------
(* The messages on their way. *)

FromIngest(m) == m.from = Ingest => m.nr \in Nat /\ m.nr <= written

BusInv ==
  /\ published \in [Publishers -> Nat] /\ written \in Nat
  /\ published[Ingest] <= written
  /\ ready \in Seq([to: Clients, msg: Message])
  /\ fanout \in [Publishers -> SUBSET Clients] /\ subs \subseteq Clients
  /\ queue \in [Clients -> Seq(Message)]
  /\ es \in Clients \cup {None}
  /\ \A i \in DOMAIN ready : FromIngest(ready[i].msg)
  /\ \A c \in Clients : \A i \in DOMAIN queue[c] : FromIngest(queue[c][i])

LEMMA TailInSeq ==
  ASSUME NEW S, NEW s \in Seq(S), s # <<>>
  PROVE  /\ Head(s) = s[1] /\ Head(s) \in S /\ 1 \in DOMAIN s
         /\ Tail(s) \in Seq(S)
         /\ \A i \in DOMAIN Tail(s) : i + 1 \in DOMAIN s /\ Tail(s)[i] = s[i + 1]
OBVIOUS

LEMMA AppendInSeq ==
  ASSUME NEW S, NEW s \in Seq(S), NEW e \in S
  PROVE  /\ Append(s, e) \in Seq(S)
         /\ \A i \in DOMAIN Append(s, e) :
              \/ i \in DOMAIN s /\ Append(s, e)[i] = s[i]
              \/ Append(s, e)[i] = e
OBVIOUS

LEMMA PutInSeq ==
  ASSUME NEW q \in Seq(Message), NEW m \in Message
  PROVE  /\ Put(q, m) \in Seq(Message)
         /\ \A i \in DOMAIN Put(q, m) :
              (\E j \in DOMAIN q : Put(q, m)[i] = q[j]) \/ Put(q, m)[i] = m
<1>1. CASE Len(q) = Capacity
  <2>1. q # <<>>  BY <1>1, LiveBusAssumption
  <2>2. /\ Tail(q) \in Seq(Message)
        /\ \A i \in DOMAIN Tail(q) : i + 1 \in DOMAIN q /\ Tail(q)[i] = q[i + 1]
    BY <2>1, TailInSeq
  <2>3. Put(q, m) = Append(Tail(q), m)  BY <1>1 DEF Put
  <2> QED BY <2>2, <2>3, AppendInSeq
<1>2. CASE Len(q) # Capacity
  <2>1. Put(q, m) = Append(q, m)  BY <1>2 DEF Put
  <2> QED BY <2>1, AppendInSeq
<1> QED BY <1>1, <1>2

LEMMA BusInitially == Init => BusInv
BY LivePageAssumption DEF Init, BusInit, BusInv

(* What leaves the messages as they are keeps BusInv, as long as nothing   *)
(* unwritten is announced.                                                 *)
LEMMA MessagesKept ==
  ASSUME BusInv, UNCHANGED <<ready, queue>>, written' \in Nat, written <= written',
         published' \in [Publishers -> Nat], published'[Ingest] <= written',
         fanout' \in [Publishers -> SUBSET Clients], subs' \subseteq Clients,
         es' \in Clients \cup {None}
  PROVE  BusInv'
<1>1. \A m : FromIngest(m) => (m.from = Ingest => m.nr \in Nat /\ m.nr <= written')
  BY DEF FromIngest, BusInv
<1>2. \A i \in DOMAIN ready : FromIngest(ready[i].msg)'
  BY <1>1 DEF FromIngest, BusInv
<1>3. \A c \in Clients : \A i \in DOMAIN queue[c] : FromIngest(queue[c][i])'
  BY <1>1 DEF FromIngest, BusInv
<1> QED BY <1>2, <1>3 DEF BusInv

LEMMA BusKept == BusInv /\ [Next]_vars => BusInv'
<1> SUFFICES ASSUME BusInv, [Next]_vars PROVE BusInv'  OBVIOUS
<1>0. \A w \in Nat : w <= w /\ w <= w + 1  OBVIOUS
<1>1. CASE Write
  <2>1. written' = written + 1 /\ UNCHANGED <<published, fanout, subs, ready, queue, es>>
    BY <1>1 DEF Write, busVars, pageVars
  <2>2. written' \in Nat /\ written <= written' /\ published[Ingest] <= written'
    BY <2>1, LivePageAssumption DEF BusInv
  <2> QED BY <2>1, <2>2, MessagesKept DEF BusInv
<1>2. CASE Announce
  <2>1. /\ published' = [published EXCEPT ![Ingest] = @ + 1] /\ published[Ingest] < written
        /\ fanout' = [fanout EXCEPT ![Ingest] = subs]
        /\ UNCHANGED <<subs, ready, queue, written, es>>
    BY <1>2 DEF Announce, Publish, pageVars
  <2>2. published' \in [Publishers -> Nat] /\ published'[Ingest] <= written'
    BY <2>1, LivePageAssumption DEF BusInv
  <2>3. fanout' \in [Publishers -> SUBSET Clients]  BY <2>1 DEF BusInv
  <2> QED BY <2>1, <2>2, <2>3, <1>0, MessagesKept DEF BusInv
<1>3. ASSUME NEW p \in Publishers, p # Ingest, Publish(p), UNCHANGED <<written, pageVars>>
      PROVE  BusInv'
  <2>1. /\ published' = [published EXCEPT ![p] = @ + 1] /\ fanout' = [fanout EXCEPT ![p] = subs]
        /\ UNCHANGED <<subs, ready, queue, written, es>>
    BY <1>3 DEF Publish, pageVars
  <2>2. published' \in [Publishers -> Nat] /\ published'[Ingest] <= written'
    BY <2>1, <1>3, LivePageAssumption DEF BusInv
  <2>3. fanout' \in [Publishers -> SUBSET Clients]  BY <2>1 DEF BusInv
  <2> QED BY <2>1, <2>2, <2>3, <1>0, MessagesKept DEF BusInv
<1>4. ASSUME NEW p \in Publishers, Schedule(p), UNCHANGED <<written, pageVars>>
      PROVE  BusInv'
  <2>1. PICK c \in fanout[p] :
          /\ ready' = Append(ready, [to |-> c, msg |-> [from |-> p, nr |-> published[p]]])
          /\ fanout' = [fanout EXCEPT ![p] = @ \ {c}]
          /\ UNCHANGED <<published, subs, queue, written, es>>
    BY <1>4 DEF Schedule, pageVars
  <2> DEFINE call == [to |-> c, msg |-> [from |-> p, nr |-> published[p]]]
  <2>2. call \in [to: Clients, msg: Message]  BY DEF BusInv, Message
  <2>3. FromIngest(call.msg)  BY DEF FromIngest, BusInv
  <2>4. ready' = Append(ready, call)  BY <2>1
  <2> HIDE DEF call
  <2>5. ready' \in Seq([to: Clients, msg: Message])  BY <2>2, <2>4, AppendInSeq DEF BusInv
  <2>6. \A i \in DOMAIN ready' : FromIngest(ready'[i].msg)
    BY <2>2, <2>3, <2>4, AppendInSeq DEF BusInv
  <2>7. fanout' \in [Publishers -> SUBSET Clients]  BY <2>1 DEF BusInv
  <2> QED BY <2>1, <2>5, <2>6, <2>7 DEF BusInv, FromIngest
<1>5. ASSUME SafePut, UNCHANGED <<written, pageVars>>
      PROVE  BusInv'
  <2> DEFINE c == Head(ready).to  m == Head(ready).msg
  <2>1. /\ ready' = Tail(ready) /\ queue' = [queue EXCEPT ![c] = Put(@, m)]
        /\ UNCHANGED <<published, fanout, subs, written, es>>
    BY <1>5 DEF SafePut, pageVars
  <2>2. ready # <<>> /\ ready \in Seq([to: Clients, msg: Message])
    BY <1>5 DEF SafePut, BusInv
  <2>3. /\ Head(ready) = ready[1] /\ 1 \in DOMAIN ready
        /\ Head(ready) \in [to: Clients, msg: Message]
    BY <2>2, TailInSeq
  <2>4. c \in Clients /\ m \in Message /\ FromIngest(m)  BY <2>3 DEF BusInv
  <2>5. ready' \in Seq([to: Clients, msg: Message])  BY <2>1, <2>2, TailInSeq
  <2>6. \A i \in DOMAIN ready' : FromIngest(ready'[i].msg)
    BY <2>1, <2>2, TailInSeq DEF BusInv
  <2> HIDE DEF c, m
  <2>7. queue[c] \in Seq(Message)  BY <2>4 DEF BusInv
  <2>8. /\ Put(queue[c], m) \in Seq(Message)
        /\ \A i \in DOMAIN Put(queue[c], m) :
             (\E j \in DOMAIN queue[c] : Put(queue[c], m)[i] = queue[c][j])
               \/ Put(queue[c], m)[i] = m
    BY <2>4, <2>7, PutInSeq
  <2>9. queue' \in [Clients -> Seq(Message)]  BY <2>1, <2>4, <2>8 DEF BusInv
  <2>10. ASSUME NEW d \in Clients, NEW i \in DOMAIN queue'[d]
         PROVE  FromIngest(queue'[d][i])
    <3>1. CASE d = c
      <4>1. queue'[d] = Put(queue[c], m)  BY <2>1, <2>4, <3>1 DEF BusInv
      <4> QED BY <4>1, <2>4, <2>8, <2>10 DEF BusInv
    <3>2. CASE d # c
      <4>1. queue'[d] = queue[d]  BY <2>1, <2>4, <3>2 DEF BusInv
      <4> QED BY <4>1, <2>10 DEF BusInv
    <3> QED BY <3>1, <3>2
  <2> QED BY <2>1, <2>5, <2>6, <2>9, <2>10 DEF BusInv, FromIngest
<1>6. ASSUME NEW c \in Clients, Unsubscribe(c), UNCHANGED <<written, pageVars>>
      PROVE  BusInv'
  <2>1. subs' = subs \ {c} /\ UNCHANGED <<published, fanout, ready, queue, written, es>>
    BY <1>6 DEF Unsubscribe, pageVars
  <2> QED BY <2>1, <1>0, MessagesKept DEF BusInv
<1>7. ASSUME NEW c \in Clients, Connect(c)
      PROVE  BusInv'
  <2>1. /\ subs' = subs \cup {c} /\ queue' = [queue EXCEPT ![c] = <<>>]
        /\ es' = c /\ UNCHANGED <<published, fanout, ready, written>>
    BY <1>7 DEF Connect, Subscribe
  <2>2. queue' \in [Clients -> Seq(Message)]  BY <2>1 DEF BusInv
  <2>3. \A d \in Clients : \A i \in DOMAIN queue'[d] : FromIngest(queue'[d][i])
    BY <2>1 DEF BusInv
  <2> QED BY <2>1, <2>2, <2>3 DEF BusInv, FromIngest
<1>8. CASE Disconnect
  <2>1. es' = None /\ UNCHANGED <<published, fanout, subs, ready, queue, written>>
    BY <1>8 DEF Disconnect, Break
  <2> QED BY <2>1, <1>0, MessagesKept DEF BusInv
<1>9. ASSUME es # None, Deliver(es), UNCHANGED <<written, es>>
      PROVE  BusInv'
  <2>1. /\ queue[es] # <<>> /\ queue' = [queue EXCEPT ![es] = Tail(@)]
        /\ UNCHANGED <<published, fanout, subs, ready>>
    BY <1>9 DEF Deliver
  <2>2. es \in Clients /\ queue[es] \in Seq(Message)  BY <1>9 DEF BusInv
  <2>3. /\ Tail(queue[es]) \in Seq(Message)
        /\ \A i \in DOMAIN Tail(queue[es]) :
             i + 1 \in DOMAIN queue[es] /\ Tail(queue[es])[i] = queue[es][i + 1]
    BY <2>1, <2>2, TailInSeq
  <2>4. queue' \in [Clients -> Seq(Message)]  BY <2>1, <2>3 DEF BusInv
  <2>5. ASSUME NEW d \in Clients, NEW i \in DOMAIN queue'[d]
        PROVE  FromIngest(queue'[d][i])
    <3>1. CASE d = es
      <4>1. queue'[d] = Tail(queue[es])  BY <2>1, <2>2, <3>1 DEF BusInv
      <4> QED BY <4>1, <2>2, <2>3, <2>5 DEF BusInv
    <3>2. CASE d # es
      <4>1. queue'[d] = queue[d]  BY <2>1, <2>2, <3>2 DEF BusInv
      <4> QED BY <4>1, <2>5 DEF BusInv
    <3> QED BY <3>1, <3>2
  <2> QED BY <2>1, <2>4, <2>5, <1>9 DEF BusInv, FromIngest
<1>10. CASE UNCHANGED <<busVars, written, es>>
  BY <1>10, <1>0, MessagesKept DEF BusInv, busVars
<1>11. CASE HearCoex \/ HearOther
  BY <1>9, <1>11 DEF HearCoex, HearOther, pageVars
<1>12. CASE (\E i \in DOMAIN fetches : Serve(i)) \/ Refresh \/ UNCHANGED vars
  BY <1>10, <1>12 DEF Serve, Refresh, TimerFires, Ticker, Answer, Fail, vars, pageVars
<1> QED BY <1>1, <1>2, <1>3, <1>4, <1>5, <1>6, <1>7, <1>8, <1>11, <1>12
        DEF Next, Server, Bus, Listen

-----------------------------------------------------------------------------
(* The page. *)

(* The flags and the fetch in flight: there is one exactly while loading.  *)
FlightInv ==
  /\ timer \in BOOLEAN /\ loading \in BOOLEAN /\ pending \in BOOLEAN /\ failed \in BOOLEAN
  /\ fetches \in Seq(Fetch)
  /\ loading => Len(fetches) = 1
  /\ ~loading => Len(fetches) = 0 /\ ~pending

VersionInv ==
  /\ shown \in Nat /\ noted \in Nat /\ shown <= written /\ noted <= written
  /\ \A i \in DOMAIN fetches : fetches[i].served =>
       shown <= fetches[i].version /\ fetches[i].version <= written

(* What the page was told of is shown, on its way, or will be fetched.     *)
FreshInv ==
  \/ timer \/ pending
  \/ \E i \in DOMAIN fetches : ~fetches[i].served \/ noted <= fetches[i].version
  \/ ~loading /\ failed
  \/ noted <= shown

PageInv == FlightInv /\ VersionInv /\ FreshInv

LEMMA OneFetch ==
  /\ Sent \in Fetch /\ Sent.served = FALSE
  /\ Send(<<>>) = <<Sent>> /\ <<Sent>> \in Seq(Fetch)
  /\ \A s \in Seq(Fetch) : Len(s) = 0 => s = <<>>
<1>1. Sent \in Fetch /\ Sent.served = FALSE  BY DEF Sent, Fetch
<1> QED BY <1>1 DEF Send

LEMMA OnlyFetchEnds ==
  ASSUME NEW s \in Seq(Fetch), Len(s) = 1, NEW i \in DOMAIN s
  PROVE  i = 1 /\ RemoveAt(s, i) = <<>>
<1>1. i = 1  OBVIOUS
<1> QED BY <1>1 DEF RemoveAt

LEMMA PageInitially == Init => PageInv
<1> SUFFICES ASSUME Init PROVE PageInv  OBVIOUS
<1>1. fetches = <<Sent>> /\ Len(fetches) = 1 /\ fetches \in Seq(Fetch) /\ fetches[1] = Sent
  BY OneFetch DEF Init
<1>2. FlightInv  BY <1>1 DEF Init, FlightInv
<1>3. VersionInv  BY <1>1, OneFetch DEF Init, VersionInv
<1>4. FreshInv  BY DEF Init, FreshInv
<1> QED BY <1>2, <1>3, <1>4 DEF PageInv

(* A call of loadRfEnvironment leaves a fetch that has yet to be handled,  *)
(* or one that will be followed by another.                                *)
LEMMA LoadKeeps ==
  ASSUME BusInv, PageInv, Load, timer' \in BOOLEAN,
         UNCHANGED <<written, shown, noted, failed>>
  PROVE  PageInv'
<1>1. CASE loading
  <2>1. pending' = TRUE /\ UNCHANGED <<loading, fetches>>  BY <1>1 DEF Load
  <2>2. FlightInv'  BY <1>1, <2>1 DEF PageInv, FlightInv
  <2>3. VersionInv'  BY <2>1 DEF PageInv, VersionInv
  <2>4. FreshInv'  BY <2>1 DEF FreshInv
  <2> QED BY <2>2, <2>3, <2>4 DEF PageInv
<1>2. CASE ~loading
  <2>1. fetches = <<>>  BY <1>2, OneFetch DEF PageInv, FlightInv
  <2>2. loading' = TRUE /\ fetches' = <<Sent>> /\ UNCHANGED pending
    BY <1>2, <2>1, OneFetch DEF Load
  <2>3. fetches' \in Seq(Fetch) /\ Len(fetches') = 1 /\ fetches'[1].served = FALSE /\ DOMAIN fetches' = {1}
    BY <2>2, OneFetch
  <2>4. FlightInv'  BY <2>2, <2>3 DEF PageInv, FlightInv
  <2>5. VersionInv'  BY <2>3 DEF PageInv, VersionInv
  <2>6. FreshInv'  BY <2>3 DEF FreshInv
  <2> QED BY <2>4, <2>5, <2>6 DEF PageInv
<1> QED BY <1>1, <1>2 DEF PageInv, FlightInv

(* The end of a fetch, answered or not. *)
LEMMA FinallyKeeps ==
  ASSUME BusInv, PageInv, NEW i \in DOMAIN fetches, Finally(i),
         UNCHANGED <<written, timer, noted>>, failed' \in BOOLEAN,
         shown' \in Nat, shown' <= written,
         failed' \/ (shown' = fetches[i].version /\ fetches[i].served)
  PROVE  PageInv'
<1>1. fetches \in Seq(Fetch) /\ Len(fetches) = 1 /\ loading
  BY DEF PageInv, FlightInv
<1>2. i = 1 /\ RemoveAt(fetches, i) = <<>> /\ DOMAIN fetches = {1}  BY <1>1, OnlyFetchEnds
<1>3. loading' = pending /\ pending' = FALSE /\ fetches' = (IF pending THEN <<Sent>> ELSE <<>>)
  BY <1>2, OneFetch DEF Finally
<1>4. CASE pending
  <2>1. fetches' \in Seq(Fetch) /\ Len(fetches') = 1 /\ fetches'[1].served = FALSE /\ DOMAIN fetches' = {1}
    BY <1>3, <1>4, OneFetch
  <2>2. FlightInv'  BY <1>3, <1>4, <2>1 DEF PageInv, FlightInv
  <2>3. VersionInv'  BY <2>1 DEF PageInv, VersionInv
  <2>4. FreshInv'  BY <2>1 DEF FreshInv
  <2> QED BY <2>2, <2>3, <2>4 DEF PageInv
<1>5. CASE ~pending
  <2>1. fetches' = <<>> /\ Len(fetches') = 0 /\ DOMAIN fetches' = {} /\ fetches' \in Seq(Fetch)
    BY <1>3, <1>5
  <2>2. loading' = FALSE /\ pending' = FALSE
    BY <1>3, <1>5 DEF PageInv, FlightInv
  <2>20. timer' \in BOOLEAN /\ failed' \in BOOLEAN  BY DEF PageInv, FlightInv
  <2>21. FlightInv'  BY <2>1, <2>2, <2>20 DEF FlightInv
  <2>3. VersionInv'  BY <2>1 DEF PageInv, VersionInv
  <2>4. CASE failed'
    <3>1. FreshInv'  BY <2>2, <2>4 DEF FreshInv
    <3> QED BY <2>21, <2>3, <3>1 DEF PageInv
  <2>5. CASE shown' = fetches[i].version /\ fetches[i].served
    <3>1. fetches[1] \in Fetch /\ shown <= fetches[1].version
      <4>1. fetches[1] \in Fetch  BY <1>1
      <4>2. 1 \in DOMAIN fetches /\ fetches[1].served  BY <1>2, <2>5
      <4> QED BY <4>1, <4>2 DEF PageInv, VersionInv
    <3>2. timer \/ noted <= fetches[1].version
      <4>1. timer \/ noted <= fetches[1].version \/ noted <= shown
        BY <1>1, <1>2, <1>5, <2>5 DEF PageInv, FreshInv
      <4> QED BY <3>1, <4>1 DEF PageInv, VersionInv, Fetch
    <3>3. FreshInv'  BY <3>2, <1>2, <2>5 DEF FreshInv
    <3> QED BY <2>21, <2>3, <3>3 DEF PageInv
  <2> QED BY <2>4, <2>5
<1> QED BY <1>4, <1>5 DEF PageInv, FlightInv

LEMMA AnswerShows ==
  ASSUME BusInv, PageInv, NEW i \in DOMAIN fetches, Answer(i)
  PROVE  shown' \in Nat /\ shown <= shown' /\ shown' <= written
<1>1. fetches[i] \in Fetch /\ fetches[i].served /\ shown' = fetches[i].version
  BY DEF Answer, PageInv, FlightInv
<1> QED BY <1>1 DEF PageInv, VersionInv, Fetch

LEMMA PageKept == BusInv /\ PageInv /\ [Next]_vars => PageInv'
<1> SUFFICES ASSUME BusInv, PageInv, [Next]_vars PROVE PageInv'  OBVIOUS
<1>1. CASE Write
  <2>1. written' = written + 1 /\ UNCHANGED pageVars  BY <1>1 DEF Write
  <2>2. FlightInv' /\ FreshInv'  BY <2>1 DEF pageVars, PageInv, FlightInv, FreshInv
  <2>3. ASSUME NEW n \in Nat, n <= written  PROVE n <= written'
    BY <2>1, <2>3 DEF BusInv
  <2>4. \A i \in DOMAIN fetches : fetches[i].version \in Nat
    <3>1. \A i \in DOMAIN fetches : fetches[i] \in Fetch  BY DEF PageInv, FlightInv
    <3> QED BY <3>1 DEF Fetch
  <2>5. VersionInv'  BY <2>1, <2>3, <2>4 DEF pageVars, PageInv, VersionInv
  <2> QED BY <2>2, <2>5 DEF PageInv
<1>2. ASSUME NEW i \in DOMAIN fetches, Serve(i)
      PROVE  PageInv'
  <2>1. /\ fetches' = [fetches EXCEPT ![i] = [served |-> TRUE, version |-> written]]
        /\ UNCHANGED <<written, timer, loading, pending, shown, noted, failed>>
    BY <1>2 DEF Serve
  <2>2. [served |-> TRUE, version |-> written] \in Fetch  BY DEF BusInv, Fetch
  <2>3. fetches' \in Seq(Fetch) /\ Len(fetches') = Len(fetches) /\ DOMAIN fetches' = DOMAIN fetches
    BY <2>1, <2>2 DEF PageInv, FlightInv
  <2>4. /\ fetches'[i] = [served |-> TRUE, version |-> written]
        /\ \A j \in DOMAIN fetches : j # i => fetches'[j] = fetches[j]
    BY <2>1 DEF PageInv, FlightInv
  <2>5. FlightInv'  BY <2>1, <2>3 DEF PageInv, FlightInv
  <2>6. VersionInv'  BY <2>1, <2>3, <2>4 DEF PageInv, VersionInv, BusInv
  <2>7. FreshInv'  BY <2>1, <2>3, <2>4 DEF PageInv, FreshInv, VersionInv, BusInv
  <2> QED BY <2>5, <2>6, <2>7 DEF PageInv
<1>3. CASE HearCoex
  <2> DEFINE m == Head(queue[es])
  <2>1. /\ queue[es] # <<>> /\ es # None /\ m.from = Ingest /\ noted' = m.nr /\ timer' = TRUE
        /\ UNCHANGED <<written, loading, pending, fetches, shown, failed>>
    BY <1>3 DEF HearCoex, Deliver
  <2>2. noted' \in Nat /\ noted' <= written
    <3>1. es \in Clients /\ queue[es] \in Seq(Message)  BY <2>1 DEF BusInv
    <3>2. m = queue[es][1] /\ 1 \in DOMAIN queue[es]  BY <2>1, <3>1, TailInSeq
    <3> QED BY <2>1, <3>1, <3>2 DEF BusInv, FromIngest
  <2>3. FlightInv'  BY <2>1 DEF PageInv, FlightInv
  <2>4. VersionInv'  BY <2>1, <2>2 DEF PageInv, VersionInv
  <2>5. FreshInv'  BY <2>1 DEF FreshInv
  <2> QED BY <2>3, <2>4, <2>5 DEF PageInv
<1>4. CASE TimerFires \/ Ticker
  BY <1>4, LoadKeeps DEF TimerFires, Ticker, PageInv, FlightInv
<1>5. ASSUME NEW i \in DOMAIN fetches, Answer(i)
      PROVE  PageInv'
  BY <1>5, AnswerShows, FinallyKeeps DEF Answer
<1>6. ASSUME NEW i \in DOMAIN fetches, Fail(i)
      PROVE  PageInv'
  <2>1. /\ Finally(i) /\ shown' = shown /\ failed' = TRUE
        /\ UNCHANGED <<written, timer, noted>>
    BY <1>6 DEF Fail
  <2>2. shown' \in Nat /\ shown' <= written  BY <2>1 DEF PageInv, VersionInv
  <2>3. failed' \in BOOLEAN /\ failed'  BY <2>1
  <2>4. Finally(i) /\ UNCHANGED <<written, timer, noted>>  BY <2>1
  <2>5. failed' \/ (shown' = fetches[i].version /\ fetches[i].served)  BY <2>3
  <2> QED BY <2>2, <2>3, <2>4, <2>5, FinallyKeeps, Zenon
<1>7. CASE UNCHANGED <<written, timer, loading, pending, fetches, shown, noted, failed>>
  BY <1>7 DEF PageInv, FlightInv, VersionInv, FreshInv
<1>8. CASE Announce \/ Bus \/ (\E c \in Clients : Connect(c)) \/ Disconnect \/ HearOther
             \/ UNCHANGED vars
  BY <1>7, <1>8 DEF Announce, Bus, Connect, Disconnect, HearOther, vars, pageVars
<1> QED BY <1>1, <1>2, <1>3, <1>4, <1>5, <1>6, <1>8 DEF Next, Server, Listen, Refresh

LEMMA PageInvariance == Spec => [](BusInv /\ PageInv)
<1> QED BY BusInitially, PageInitially, BusKept, PageKept, PTL DEF Spec

(* rf.js: coalescing loses no trigger.  Whatever the publishers, the bus   *)
(* and the connection do, a quiet page shows what it was last told of.     *)
THEOREM QuietPageIsFresh == Spec => []QuietIsFresh
<1>1. BusInv /\ PageInv => QuietIsFresh
  <2> SUFFICES ASSUME PageInv, ~timer, ~loading, ~failed PROVE shown >= noted
    BY DEF QuietIsFresh
  <2>1. fetches = <<>> /\ ~pending  BY OneFetch DEF PageInv, FlightInv
  <2>2. noted <= shown  BY <2>1 DEF PageInv, FreshInv
  <2> QED BY <2>2 DEF PageInv, VersionInv
<1> QED BY <1>1, PageInvariance, PTL

(* rf.js: the survey on the page is never replaced by an older one.        *)
THEOREM SurveyOnlyAdvances == Spec => SurveyNeverGoesBack
<1>1. BusInv /\ PageInv /\ [Next]_vars => [shown' >= shown]_vars
  <2> SUFFICES ASSUME BusInv, PageInv, [Next]_vars PROVE shown' >= shown  OBVIOUS
  <2>1. shown \in Nat  BY DEF PageInv, VersionInv
  <2>2. CASE \E i \in DOMAIN fetches : Answer(i)
    <3>1. PICK i \in DOMAIN fetches : Answer(i)  BY <2>2
    <3> QED BY <2>1, <3>1, AnswerShows
  <2>3. CASE UNCHANGED shown  BY <2>1, <2>3
  <2> QED BY <2>2, <2>3 DEF Next, Server, Listen, Refresh, Write, Announce, Serve, Bus, Connect,
        Disconnect, HearCoex, HearOther, TimerFires, Ticker, Fail, vars, pageVars
<1> QED BY <1>1, PageInvariance, PTL DEF Spec, SurveyNeverGoesBack

-----------------------------------------------------------------------------
(***************************************************************************)
(* What is on its way from a publisher p to a client c, of a queue q and   *)
(* callbacks r: p's messages from the number `first' to its last one, in   *)
(* order; `due' says that the last one has yet to be scheduled.            *)
(***************************************************************************)
Calls == [to: Clients, msg: Message]

FromP(q, p)      == {i \in DOMAIN q : q[i].from = p}
CallsFrom(r, c, p) == {i \in DOMAIN r : r[i].to = c /\ r[i].msg.from = p}

Ordered(q, r, c, p) ==
  /\ \A i, j \in FromP(q, p) : i < j => q[i].nr < q[j].nr
  /\ \A i \in FromP(q, p), j \in CallsFrom(r, c, p) : q[i].nr < r[j].msg.nr
  /\ \A i, j \in CallsFrom(r, c, p) : i < j => r[i].msg.nr < r[j].msg.nr

Within(q, r, c, p, due, last, first) ==
  /\ \A i \in FromP(q, p) : q[i].nr \in first..last /\ (due => q[i].nr < last)
  /\ \A i \in CallsFrom(r, c, p) : r[i].msg.nr \in first..last /\ (due => r[i].msg.nr < last)
  /\ due => first <= last

Covered(q, r, c, p, due, last, first) ==
  \A n \in first..last : \/ \E i \in FromP(q, p) : q[i].nr = n
                         \/ \E i \in CallsFrom(r, c, p) : r[i].msg.nr = n
                         \/ due /\ n = last

Way(q, r, c, p, due, last, first) ==
  /\ first \in 1..(last + 1) /\ Ordered(q, r, c, p)
  /\ Within(q, r, c, p, due, last, first) /\ Covered(q, r, c, p, due, last, first)

LEMMA TailOf ==
  ASSUME NEW S, NEW s \in Seq(S), s # <<>>
  PROVE  /\ Tail(s) \in Seq(S) /\ Head(s) = s[1] /\ Head(s) \in S /\ 1 \in DOMAIN s
         /\ \A i \in DOMAIN Tail(s) : i \in Nat /\ i + 1 \in DOMAIN s /\ Tail(s)[i] = s[i + 1]
         /\ \A i \in DOMAIN s : i # 1 => i \in Nat /\ i - 1 \in DOMAIN Tail(s) /\ s[i] = Tail(s)[i - 1]
<1>1. PICK n \in Nat : n = Len(s) /\ n > 0  OBVIOUS
<1>2. DOMAIN s = 1..n  BY <1>1
<1>3. /\ Tail(s) \in Seq(S) /\ DOMAIN Tail(s) = 1..(n - 1)
      /\ \A i \in 1..(n - 1) : Tail(s)[i] = s[i + 1]
  BY <1>1
<1>4. ASSUME NEW i \in 2..n  PROVE i - 1 \in 1..(n - 1) /\ s[i] = Tail(s)[i - 1]
  <2>1. i - 1 \in 1..(n - 1) /\ i - 1 + 1 = i  BY <1>1
  <2> QED BY <1>3, <2>1
<1> QED BY <1>1, <1>2, <1>3, <1>4, TailInSeq

LEMMA AppendOf ==
  ASSUME NEW S, NEW s \in Seq(S), NEW e \in S
  PROVE  \E n \in Nat :
           /\ DOMAIN s = 1..n /\ DOMAIN Append(s, e) = 1..(n + 1)
           /\ Append(s, e)[n + 1] = e /\ \A i \in 1..n : Append(s, e)[i] = s[i]
           /\ Append(s, e) \in Seq(S)
<1>1. PICK n \in Nat : n = Len(s)  OBVIOUS
<1> QED BY <1>1

LEMMA MessageFields ==
  /\ \A q \in Seq(Message) : \A i \in DOMAIN q : i \in Nat /\ q[i].nr \in Nat
  /\ \A r \in Seq(Calls) : \A i \in DOMAIN r : i \in Nat /\ r[i] \in Calls /\ r[i].msg.nr \in Nat
<1>1. ASSUME NEW q \in Seq(Message), NEW i \in DOMAIN q  PROVE i \in Nat /\ q[i].nr \in Nat
  <2>1. i \in Nat /\ q[i] \in Message  OBVIOUS
  <2> QED BY <2>1 DEF Message
<1>2. ASSUME NEW r \in Seq(Calls), NEW i \in DOMAIN r  PROVE i \in Nat /\ r[i] \in Calls /\ r[i].msg.nr \in Nat
  <2>1. i \in Nat /\ r[i] \in Calls  OBVIOUS
  <2> QED BY <2>1 DEF Calls, Message
<1> QED BY <1>1, <1>2

(* A message leaves the head of the queue: if it is p's, it is the first.  *)
LEMMA HeadLeaves ==
  ASSUME NEW q \in Seq(Message), NEW r \in Seq(Calls), NEW c, NEW p, NEW due \in BOOLEAN,
         NEW last \in Nat, NEW first, Way(q, r, c, p, due, last, first), q # <<>>
  PROVE  /\ Head(q).from = p => Head(q).nr = first
         /\ Way(Tail(q), r, c, p, due, last, IF Head(q).from = p THEN first + 1 ELSE first)
<1>0. first \in Nat /\ first >= 1 /\ first <= last + 1  BY DEF Way
<1>1. PICK t : t = Tail(q)  OBVIOUS
<1>2. /\ t \in Seq(Message) /\ Head(q) = q[1] /\ 1 \in DOMAIN q
      /\ \A i \in DOMAIN t : i \in Nat /\ i + 1 \in DOMAIN q /\ t[i] = q[i + 1]
      /\ \A i \in DOMAIN q : i # 1 => i \in Nat /\ i - 1 \in DOMAIN t /\ q[i] = t[i - 1]
  BY <1>1, TailOf
<1>3. \A i \in FromP(t, p) : i \in Nat /\ i + 1 \in FromP(q, p) /\ t[i].nr = q[i + 1].nr
  BY <1>2 DEF FromP
<1>4. \A i \in FromP(q, p) : i # 1 => i - 1 \in FromP(t, p) /\ q[i].nr = t[i - 1].nr
  BY <1>2 DEF FromP
<1>5. \A i \in FromP(q, p) : i \in Nat /\ i >= 1 /\ q[i].nr \in Nat
  <2>1. \A i \in DOMAIN q : i >= 1  OBVIOUS
  <2> QED BY <2>1, MessageFields DEF FromP
<1>6. \A i \in CallsFrom(r, c, p) : i \in Nat /\ r[i].msg.nr \in Nat
  BY MessageFields DEF CallsFrom
<1>7. Ordered(t, r, c, p)
  <2>1. \A i, j \in FromP(t, p) : i < j => i + 1 < j + 1  BY <1>3
  <2> QED BY <1>3, <2>1 DEF Way, Ordered
<1>8. CASE Head(q).from # p
  <2>1. 1 \notin FromP(q, p)  BY <1>2, <1>8 DEF FromP
  <2>2. Within(t, r, c, p, due, last, first)  BY <1>3 DEF Way, Within
  <2>3. Covered(t, r, c, p, due, last, first)  BY <1>4, <2>1 DEF Way, Covered
  <2> QED BY <1>1, <1>7, <1>8, <2>2, <2>3 DEF Way
<1>9. CASE Head(q).from = p
  <2>1. 1 \in FromP(q, p)  BY <1>2, <1>9 DEF FromP
  <2>2. q[1].nr \in first..last /\ first \in first..last  BY <1>0, <2>1 DEF Way, Within
  <2>3. /\ \A i \in FromP(q, p) : i # 1 => q[1].nr < q[i].nr
        /\ \A i \in CallsFrom(r, c, p) : q[1].nr < r[i].msg.nr
        /\ due => q[1].nr < last
    <3>1. \A i \in FromP(q, p) : i # 1 => 1 < i  BY <1>5
    <3> QED BY <2>1, <3>1 DEF Way, Ordered, Within
  <2>4. q[1].nr = first
    <3>1. q[1].nr >= first /\ q[1].nr \in Nat  BY <1>5, <2>1, <2>2
    <3>2. \/ \E i \in FromP(q, p) : q[i].nr = first
          \/ \E i \in CallsFrom(r, c, p) : r[i].msg.nr = first
          \/ due /\ first = last
      BY <2>2 DEF Way, Covered
    <3>3. q[1].nr <= first  BY <1>0, <1>5, <1>6, <2>3, <3>1, <3>2
    <3> QED BY <1>0, <3>1, <3>3
  <2>5. Within(t, r, c, p, due, last, first + 1)
    <3>1. ASSUME NEW i \in FromP(t, p)  PROVE t[i].nr \in (first + 1)..last /\ (due => t[i].nr < last)
      <4>1. i + 1 \in FromP(q, p) /\ i + 1 # 1 /\ t[i].nr = q[i + 1].nr
        <5>1. i + 1 \in FromP(q, p) /\ t[i].nr = q[i + 1].nr /\ i \in DOMAIN t  BY <1>3 DEF FromP
        <5>2. i # 0  BY <1>2, <5>1
        <5> QED BY <1>3, <5>1, <5>2
      <4>2. q[i + 1].nr > first /\ q[i + 1].nr \in Nat /\ q[i + 1].nr \in first..last
            /\ (due => q[i + 1].nr < last)
        BY <1>5, <2>3, <2>4, <4>1 DEF Way, Within
      <4> QED BY <1>0, <4>1, <4>2
    <3>2. ASSUME NEW i \in CallsFrom(r, c, p)
          PROVE r[i].msg.nr \in (first + 1)..last /\ (due => r[i].msg.nr < last)
      <4>1. r[i].msg.nr > first /\ r[i].msg.nr \in first..last /\ (due => r[i].msg.nr < last)
            /\ r[i].msg.nr \in Nat
        BY <1>6, <2>3, <2>4 DEF Way, Within
      <4> QED BY <1>0, <4>1
    <3> QED BY <1>0, <2>3, <2>4, <3>1, <3>2 DEF Within
  <2>6. Covered(t, r, c, p, due, last, first + 1)
    <3> SUFFICES ASSUME NEW n \in (first + 1)..last
                 PROVE  \/ \E i \in FromP(t, p) : t[i].nr = n
                        \/ \E i \in CallsFrom(r, c, p) : r[i].msg.nr = n
                        \/ due /\ n = last
      BY DEF Covered
    <3>1. n \in first..last /\ n # first  BY <1>0
    <3>2. \/ \E i \in FromP(q, p) : q[i].nr = n
          \/ \E i \in CallsFrom(r, c, p) : r[i].msg.nr = n
          \/ due /\ n = last
      BY <3>1 DEF Way, Covered
    <3> QED BY <1>4, <2>4, <3>1, <3>2
  <2>7. first + 1 \in 1..(last + 1)  BY <1>0, <2>2
  <2> QED BY <1>1, <1>2, <1>7, <1>9, <2>4, <2>5, <2>6, <2>7 DEF Way
<1> QED BY <1>8, <1>9

(* A callback puts its message into the queue. *)
LEMMA CallbackRuns ==
  ASSUME NEW q \in Seq(Message), NEW r \in Seq(Calls), NEW c, NEW p, NEW due \in BOOLEAN,
         NEW last \in Nat, NEW first, Way(q, r, c, p, due, last, first), r # <<>>
  PROVE  Way(IF Head(r).to = c THEN Append(q, Head(r).msg) ELSE q, Tail(r), c, p, due, last, first)
<1>1. PICK t : t = Tail(r)  OBVIOUS
<1>2. /\ t \in Seq(Calls) /\ Head(r) = r[1] /\ Head(r) \in Calls /\ 1 \in DOMAIN r
      /\ \A i \in DOMAIN t : i \in Nat /\ i + 1 \in DOMAIN r /\ t[i] = r[i + 1]
      /\ \A i \in DOMAIN r : i # 1 => i \in Nat /\ i - 1 \in DOMAIN t /\ r[i] = t[i - 1]
  BY <1>1, TailOf
<1>3. \A i \in CallsFrom(t, c, p) :
        i \in Nat /\ i >= 1 /\ i + 1 \in CallsFrom(r, c, p) /\ t[i].msg.nr = r[i + 1].msg.nr
  <2>1. \A i \in DOMAIN t : i >= 1  BY <1>2
  <2> QED BY <1>2, <2>1 DEF CallsFrom
<1>4. \A i \in CallsFrom(r, c, p) : i # 1 => i - 1 \in CallsFrom(t, c, p) /\ r[i].msg.nr = t[i - 1].msg.nr
  BY <1>2 DEF CallsFrom
<1>5. \A i \in CallsFrom(r, c, p) : i \in Nat /\ r[i].msg.nr \in Nat
  BY MessageFields DEF CallsFrom
<1>6. \A i, j \in CallsFrom(t, c, p) : i < j => t[i].msg.nr < t[j].msg.nr
  <2>1. \A i, j \in CallsFrom(t, c, p) : i < j => i + 1 < j + 1  BY <1>3
  <2> QED BY <1>3, <2>1 DEF Way, Ordered
<1>7. CASE Head(r).to # c
  <2>1. 1 \notin CallsFrom(r, c, p)  BY <1>2, <1>7 DEF CallsFrom
  <2>2. Ordered(q, t, c, p)  BY <1>3, <1>6 DEF Way, Ordered
  <2>3. Within(q, t, c, p, due, last, first)  BY <1>3 DEF Way, Within
  <2>4. Covered(q, t, c, p, due, last, first)  BY <1>4, <2>1 DEF Way, Covered
  <2> QED BY <1>1, <1>7, <2>2, <2>3, <2>4 DEF Way
<1>8. CASE Head(r).to = c
  <2>1. PICK m \in Message : m = Head(r).msg  BY <1>2 DEF Calls
  <2>2. PICK a : a = Append(q, m)  OBVIOUS
  <2>3. PICK n \in Nat : /\ DOMAIN q = 1..n /\ DOMAIN a = 1..(n + 1)
                         /\ a[n + 1] = m /\ \A i \in 1..n : a[i] = q[i]
    BY <2>2, AppendOf
  <2>4. \A i \in FromP(a, p) : \/ i \in 1..n /\ i \in FromP(q, p) /\ a[i] = q[i]
                               \/ i = n + 1 /\ m.from = p /\ a[i] = m
    <3>1. \A i \in 1..(n + 1) : i \in 1..n \/ i = n + 1  OBVIOUS
    <3> QED BY <2>3, <3>1 DEF FromP
  <2>5. \A i \in FromP(q, p) : i \in FromP(a, p) /\ a[i] = q[i]  BY <2>3 DEF FromP
  <2>6. m.from = p => /\ n + 1 \in FromP(a, p) /\ a[n + 1] = m
                      /\ 1 \in CallsFrom(r, c, p) /\ r[1].msg = m
    BY <1>2, <1>8, <2>1, <2>3 DEF FromP, CallsFrom
  <2>7. m.from # p => 1 \notin CallsFrom(r, c, p)  BY <1>2, <2>1 DEF CallsFrom
  <2>8. \A i \in CallsFrom(t, c, p) : m.from = p => m.nr < t[i].msg.nr
    <3>1. \A i \in CallsFrom(t, c, p) : 1 < i + 1  BY <1>3
    <3> QED BY <1>3, <2>6, <3>1 DEF Way, Ordered
  <2>9. Ordered(a, t, c, p)
    <3>1. \A i, j \in FromP(a, p) : i < j => a[i].nr < a[j].nr
      <4> SUFFICES ASSUME NEW i \in FromP(a, p), NEW j \in FromP(a, p), i < j
                   PROVE  a[i].nr < a[j].nr
        OBVIOUS
      <4>1. i \in 1..(n + 1) /\ j \in 1..(n + 1)  BY <2>3 DEF FromP
      <4>2. i # n + 1  BY <4>1
      <4>3. i \in FromP(q, p) /\ a[i] = q[i]  BY <2>4, <4>2
      <4>4. CASE j \in FromP(q, p) /\ a[j] = q[j]  BY <4>3, <4>4 DEF Way, Ordered
      <4>5. CASE m.from = p /\ a[j] = m  BY <2>6, <4>3, <4>5 DEF Way, Ordered
      <4> QED BY <2>4, <4>4, <4>5
    <3>2. \A i \in FromP(a, p), j \in CallsFrom(t, c, p) : a[i].nr < t[j].msg.nr
      <4> SUFFICES ASSUME NEW i \in FromP(a, p), NEW j \in CallsFrom(t, c, p)
                   PROVE  a[i].nr < t[j].msg.nr
        OBVIOUS
      <4>1. CASE i \in FromP(q, p) /\ a[i] = q[i]  BY <1>3, <4>1 DEF Way, Ordered
      <4>2. CASE m.from = p /\ a[i] = m  BY <2>8, <4>2
      <4> QED BY <2>4, <4>1, <4>2
    <3> QED BY <1>6, <3>1, <3>2 DEF Ordered
  <2>10. Within(a, t, c, p, due, last, first)
    <3>1. \A i \in FromP(a, p) : a[i].nr \in first..last /\ (due => a[i].nr < last)
      BY <2>4, <2>6 DEF Way, Within
    <3> QED BY <1>3, <3>1 DEF Way, Within
  <2>11. Covered(a, t, c, p, due, last, first)
    <3> SUFFICES ASSUME NEW k \in first..last
                 PROVE  \/ \E i \in FromP(a, p) : a[i].nr = k
                        \/ \E i \in CallsFrom(t, c, p) : t[i].msg.nr = k
                        \/ due /\ k = last
      BY DEF Covered
    <3>1. CASE \E i \in FromP(q, p) : q[i].nr = k  BY <2>5, <3>1
    <3>2. CASE \E i \in CallsFrom(r, c, p) : r[i].msg.nr = k  BY <1>4, <2>6, <2>7, <3>2
    <3> QED BY <3>1, <3>2 DEF Way, Covered
  <2> QED BY <1>1, <1>8, <2>1, <2>2, <2>9, <2>10, <2>11 DEF Way
<1> QED BY <1>7, <1>8

(* A publisher schedules its last message for a client. *)
LEMMA CallbackScheduled ==
  ASSUME NEW q \in Seq(Message), NEW r \in Seq(Calls), NEW c, NEW p, NEW due \in BOOLEAN,
         NEW last \in Nat, NEW first, Way(q, r, c, p, due, last, first),
         NEW call \in Calls, NEW own \in BOOLEAN, own <=> call.to = c /\ call.msg.from = p,
         own => due /\ call.msg.nr = last
  PROVE  Way(q, Append(r, call), c, p, due /\ ~own, last, first)
<1>1. PICK a : a = Append(r, call)  OBVIOUS
<1>2. PICK n \in Nat : /\ DOMAIN r = 1..n /\ DOMAIN a = 1..(n + 1)
                       /\ a[n + 1] = call /\ \A i \in 1..n : a[i] = r[i]
  BY <1>1, AppendOf
<1>3. \A i \in CallsFrom(a, c, p) : \/ i \in 1..n /\ i \in CallsFrom(r, c, p) /\ a[i] = r[i]
                                    \/ i = n + 1 /\ own /\ a[i] = call
  <2>1. \A i \in 1..(n + 1) : i \in 1..n \/ i = n + 1  OBVIOUS
  <2> QED BY <1>2, <2>1 DEF CallsFrom
<1>4. \A i \in CallsFrom(r, c, p) : i \in CallsFrom(a, c, p) /\ a[i] = r[i]
  BY <1>2 DEF CallsFrom
<1>5. own => n + 1 \in CallsFrom(a, c, p) /\ a[n + 1] = call
  <2>1. n + 1 \in DOMAIN a  BY <1>2
  <2>2. own => call.to = c /\ call.msg.from = p  OBVIOUS
  <2> QED BY <1>2, <2>1, <2>2 DEF CallsFrom
<1>6. Ordered(q, a, c, p)
  <2>1. \A i, j \in CallsFrom(a, c, p) : i < j => a[i].msg.nr < a[j].msg.nr
    <3> SUFFICES ASSUME NEW i \in CallsFrom(a, c, p), NEW j \in CallsFrom(a, c, p), i < j
                 PROVE  a[i].msg.nr < a[j].msg.nr
      OBVIOUS
    <3>1. i \in 1..(n + 1) /\ j \in 1..(n + 1)  BY <1>2 DEF CallsFrom
    <3>2. i # n + 1  BY <3>1
    <3>3. i \in CallsFrom(r, c, p) /\ a[i] = r[i]  BY <1>3, <3>2
    <3>4. CASE j \in CallsFrom(r, c, p) /\ a[j] = r[j]  BY <3>3, <3>4 DEF Way, Ordered
    <3>5. CASE own /\ a[j] = call  BY <3>3, <3>5 DEF Way, Within
    <3> QED BY <1>3, <3>4, <3>5
  <2>2. \A i \in FromP(q, p), j \in CallsFrom(a, c, p) : q[i].nr < a[j].msg.nr
    <3> SUFFICES ASSUME NEW i \in FromP(q, p), NEW j \in CallsFrom(a, c, p)
                 PROVE  q[i].nr < a[j].msg.nr
      OBVIOUS
    <3>1. CASE j \in CallsFrom(r, c, p) /\ a[j] = r[j]  BY <3>1 DEF Way, Ordered
    <3>2. CASE own /\ a[j] = call  BY <3>2 DEF Way, Within
    <3> QED BY <1>3, <3>1, <3>2
  <2> QED BY <2>1, <2>2 DEF Way, Ordered
<1>7. Within(q, a, c, p, due /\ ~own, last, first)
  <2>1. first \in Nat /\ (due => last \in first..last)  BY DEF Way, Within
  <2>2. ASSUME NEW i \in CallsFrom(a, c, p)
        PROVE  a[i].msg.nr \in first..last /\ (due /\ ~own => a[i].msg.nr < last)
    BY <1>3, <2>1 DEF Way, Within
  <2> QED BY <2>2 DEF Way, Within
<1>8. Covered(q, a, c, p, due /\ ~own, last, first)
  BY <1>4, <1>5 DEF Way, Covered
<1> QED BY <1>1, <1>6, <1>7, <1>8 DEF Way

(* A publisher whose last message is scheduled publishes the next one. *)
LEMMA NextPublished ==
  ASSUME NEW q \in Seq(Message), NEW r \in Seq(Calls), NEW c, NEW p,
         NEW last \in Nat, NEW first, Way(q, r, c, p, FALSE, last, first)
  PROVE  Way(q, r, c, p, TRUE, last + 1, first)
<1>1. first \in Nat /\ first \in 1..(last + 1)  BY DEF Way
<1>2. \A n \in first..last : n \in first..(last + 1) /\ n < last + 1  BY <1>1
<1>3. \A n \in first..(last + 1) : n \in first..last \/ n = last + 1  BY <1>1
<1>4. Within(q, r, c, p, TRUE, last + 1, first)  BY <1>1, <1>2 DEF Way, Within
<1>5. Covered(q, r, c, p, TRUE, last + 1, first)  BY <1>3 DEF Way, Covered
<1>6. first \in 1..(last + 1 + 1)  BY <1>1
<1> QED BY <1>4, <1>5, <1>6 DEF Way

-----------------------------------------------------------------------------
LEMMA DueOrNot ==
  ASSUME NEW c, NEW p
  PROVE  \E due \in BOOLEAN : due <=> c \in fanout[p]
<1>1. CASE c \in fanout[p]
  <2> WITNESS TRUE \in BOOLEAN
  <2> QED BY <1>1
<1>2. CASE c \notin fanout[p]
  <2> WITNESS FALSE \in BOOLEAN
  <2> QED BY <1>2
<1> QED BY <1>1, <1>2

(* The way to every client that is connected. *)
WayTo(c, p, first) == Way(queue[c], ready, c, p, c \in fanout[p], published[p], first)

WayInv ==
  /\ published \in [Publishers -> Nat]
  /\ ready \in Seq(Calls)
  /\ fanout \in [Publishers -> SUBSET Clients] /\ subs \subseteq Clients
  /\ queue \in [Clients -> Seq(Message)]
  /\ conn \in [Clients -> {"off", "open", "gone"}]
  /\ seen \in [Clients -> [Publishers -> Nat]]
  /\ \A c \in Clients : conn[c] = "open" => c \in subs
  /\ \A c \in Clients, p \in Publishers : conn[c] = "open" =>
       \E first \in Nat : WayTo(c, p, first) /\ (c \notin overflowed => first = seen[c][p] + 1)

LEMMA WayInitially == BusInit => WayInv
BY DEF BusInit, WayInv, Calls

LEMMA WayPublish ==
  ASSUME WayInv, NEW x \in Publishers, Publish(x)
  PROVE  WayInv'
<1>1. /\ fanout[x] = {} /\ published' = [published EXCEPT ![x] = @ + 1] /\ fanout' = [fanout EXCEPT ![x] = subs]
      /\ UNCHANGED <<subs, ready, queue, conn, seen, overflowed>>
  BY DEF Publish
<1>2. published' \in [Publishers -> Nat] /\ fanout' \in [Publishers -> SUBSET Clients]
  BY <1>1 DEF WayInv
<1>3. ASSUME NEW c \in Clients, NEW p \in Publishers, conn[c] = "open"
      PROVE  \E first \in Nat : WayTo(c, p, first)' /\ (c \notin overflowed => first = seen[c][p] + 1)
  <2>1. PICK first \in Nat : WayTo(c, p, first) /\ (c \notin overflowed => first = seen[c][p] + 1)
    BY <1>3 DEF WayInv
  <2>2. CASE p = x
    <3>1. /\ (c \in fanout[p]) = FALSE /\ (c \in fanout[p])' = TRUE /\ published'[p] = published[p] + 1
          /\ published[p] \in Nat
      BY <1>1, <1>3, <2>2 DEF WayInv
    <3>2. WayTo(c, p, first)'
      BY <1>1, <2>1, <3>1, NextPublished DEF WayInv, WayTo
    <3> QED BY <2>1, <3>2
  <2>3. CASE p # x
    BY <1>1, <2>1, <2>3 DEF WayInv, WayTo
  <2> QED BY <2>2, <2>3
<1> QED BY <1>1, <1>2, <1>3 DEF WayInv

LEMMA WaySchedule ==
  ASSUME WayInv, NEW x \in Publishers, Schedule(x)
  PROVE  WayInv'
<1>1. PICK d \in fanout[x] :
        /\ ready' = Append(ready, [to |-> d, msg |-> [from |-> x, nr |-> published[x]]])
        /\ fanout' = [fanout EXCEPT ![x] = @ \ {d}]
        /\ UNCHANGED <<published, subs, queue, conn, seen, overflowed>>
  BY DEF Schedule
<1>2. PICK call : call = [to |-> d, msg |-> [from |-> x, nr |-> published[x]]]  OBVIOUS
<1>3. call \in Calls /\ call.to = d /\ call.msg.from = x /\ call.msg.nr = published[x]
  BY <1>2 DEF WayInv, Calls, Message
<1>4. ready' = Append(ready, call) /\ ready' \in Seq(Calls) /\ fanout' \in [Publishers -> SUBSET Clients]
  BY <1>1, <1>2, <1>3, AppendInSeq DEF WayInv
<1>5. ASSUME NEW c \in Clients, NEW p \in Publishers, conn[c] = "open"
      PROVE  \E first \in Nat : WayTo(c, p, first)' /\ (c \notin overflowed => first = seen[c][p] + 1)
  <2>1. PICK first \in Nat : WayTo(c, p, first) /\ (c \notin overflowed => first = seen[c][p] + 1)
    BY <1>5 DEF WayInv
  <2>2. PICK due \in BOOLEAN : due <=> c \in fanout[p]  BY DueOrNot
  <2>9. PICK own \in BOOLEAN : own <=> call.to = c /\ call.msg.from = p
    <3>1. CASE call.to = c /\ call.msg.from = p
      <4> WITNESS TRUE \in BOOLEAN
      <4> QED BY <3>1
    <3>2. CASE ~(call.to = c /\ call.msg.from = p)
      <4> WITNESS FALSE \in BOOLEAN
      <4> QED BY <3>2
    <3> QED BY <3>1, <3>2
  <2>3. own => due /\ call.msg.nr = published[p]
    BY <1>1, <1>3, <2>2, <2>9
  <2>4. (c \in fanout[p])' <=> due /\ ~own
    BY <1>1, <1>3, <2>2, <2>9 DEF WayInv
  <2>5. Way(queue[c], ready, c, p, due, published[p], first)
    BY <2>1, <2>2 DEF WayTo
  <2>6. Way(queue[c], ready', c, p, due /\ ~own, published[p], first)
    BY <1>3, <1>4, <2>9, <2>3, <2>5, CallbackScheduled DEF WayInv
  <2>7. WayTo(c, p, first)'
    BY <1>1, <2>4, <2>6 DEF WayTo
  <2> QED BY <2>1, <2>7
<1> QED BY <1>1, <1>4, <1>5 DEF WayInv

LEMMA WaySafePut ==
  ASSUME WayInv, SafePut
  PROVE  WayInv'
<1>1. /\ ready # <<>> /\ ready \in Seq(Calls) /\ ready' = Tail(ready)
      /\ UNCHANGED <<published, fanout, subs, conn, seen>>
  BY DEF SafePut, WayInv
<1>2. ready' \in Seq(Calls) /\ Head(ready) \in Calls
  BY <1>1, TailOf
<1>3. PICK d \in Clients, m \in Message : d = Head(ready).to /\ m = Head(ready).msg
  BY <1>2 DEF Calls
<1>4. /\ queue' = [queue EXCEPT ![d] = Put(queue[d], m)]
      /\ overflowed' = IF Len(queue[d]) = Capacity THEN overflowed \cup {d} ELSE overflowed
  BY <1>3 DEF SafePut
<1>5. queue[d] \in Seq(Message) /\ Put(queue[d], m) \in Seq(Message)
  BY PutInSeq DEF WayInv
<1>6. queue' \in [Clients -> Seq(Message)] /\ queue'[d] = Put(queue[d], m)
      /\ \A c \in Clients \ {d} : queue'[c] = queue[c]
  BY <1>4, <1>5 DEF WayInv
<1>7. ASSUME NEW c \in Clients, NEW p \in Publishers, conn[c] = "open"
      PROVE  \E first \in Nat : WayTo(c, p, first)' /\ (c \notin overflowed' => first = seen[c][p] + 1)
  <2>1. PICK first \in Nat : WayTo(c, p, first) /\ (c \notin overflowed => first = seen[c][p] + 1)
    BY <1>7 DEF WayInv
  <2>2. PICK due \in BOOLEAN : due <=> c \in fanout[p]  BY DueOrNot
  <2>3. /\ queue[c] \in Seq(Message) /\ published[p] \in Nat
        /\ Way(queue[c], ready, c, p, due, published[p], first)
    BY <2>1, <2>2 DEF WayInv, WayTo
  <2>4. \A n : Way(queue'[c], ready', c, p, due, published[p], n) => WayTo(c, p, n)'
    BY <1>1, <2>2 DEF WayTo
  <2>5. CASE c # d
    <3>1. Way(queue[c], Tail(ready), c, p, due, published[p], first)
      BY <1>1, <1>3, <2>3, <2>5, CallbackRuns
    <3>2. queue'[c] = queue[c] /\ (c \in overflowed' <=> c \in overflowed)
      BY <1>4, <1>6, <2>5
    <3> QED BY <1>1, <2>1, <2>4, <3>1, <3>2
  <2>6. CASE c = d /\ Len(queue[d]) # Capacity
    <3>1. queue'[c] = Append(queue[c], m) /\ overflowed' = overflowed
      BY <1>4, <1>6, <2>6 DEF Put
    <3>2. Way(Append(queue[c], m), Tail(ready), c, p, due, published[p], first)
      BY <1>1, <1>3, <2>3, <2>6, CallbackRuns
    <3> QED BY <1>1, <2>1, <2>4, <3>1, <3>2
  <2>7. CASE c = d /\ Len(queue[d]) = Capacity
    <3>1. queue'[c] = Append(Tail(queue[c]), m) /\ c \in overflowed'
      BY <1>4, <1>6, <2>7 DEF Put
    <3>2. queue[c] # <<>>  BY <2>7, LiveBusAssumption
    <3>3. PICK next : next = IF Head(queue[c]).from = p THEN first + 1 ELSE first  OBVIOUS
    <3>4. next \in Nat /\ Tail(queue[c]) \in Seq(Message)  BY <2>3, <3>2, <3>3, TailOf
    <3>5. Way(Tail(queue[c]), ready, c, p, due, published[p], next)
      BY <1>1, <2>3, <3>2, <3>3, HeadLeaves
    <3>6. Way(Append(Tail(queue[c]), m), Tail(ready), c, p, due, published[p], next)
      BY <1>1, <1>3, <2>3, <2>7, <3>4, <3>5, CallbackRuns
    <3> QED BY <1>1, <2>4, <3>1, <3>4, <3>6
  <2> QED BY <2>5, <2>6, <2>7
<1> QED BY <1>1, <1>2, <1>6, <1>7 DEF WayInv

LEMMA WaySubscribe ==
  ASSUME WayInv, NEW d \in Clients, Subscribe(d)
  PROVE  WayInv'
<1>1. /\ OverAndDone(d) /\ conn' = [conn EXCEPT ![d] = "open"] /\ subs' = subs \cup {d}
      /\ queue' = [queue EXCEPT ![d] = <<>>] /\ seen' = [seen EXCEPT ![d] = published]
      /\ overflowed' = overflowed \ {d} /\ UNCHANGED <<published, fanout, ready>>
  BY DEF Subscribe
<1>2. /\ queue' \in [Clients -> Seq(Message)] /\ conn' \in [Clients -> {"off", "open", "gone"}]
      /\ seen' \in [Clients -> [Publishers -> Nat]]
      /\ queue'[d] = <<>> /\ seen'[d] = published /\ conn'[d] = "open"
      /\ \A c \in Clients \ {d} : queue'[c] = queue[c] /\ conn'[c] = conn[c] /\ seen'[c] = seen[c]
  BY <1>1 DEF WayInv
<1>3. ASSUME NEW c \in Clients, NEW p \in Publishers, conn'[c] = "open"
      PROVE  \E first \in Nat : WayTo(c, p, first)' /\ (c \notin overflowed' => first = seen'[c][p] + 1)
  <2>1. CASE c # d
    <3>1. PICK first \in Nat : WayTo(c, p, first) /\ (c \notin overflowed => first = seen[c][p] + 1)
      BY <1>2, <1>3, <2>1 DEF WayInv
    <3>2. WayTo(c, p, first)'  BY <1>1, <1>2, <2>1, <3>1 DEF WayTo
    <3> QED BY <1>1, <1>2, <2>1, <3>1, <3>2
  <2>2. CASE c = d
    <3>1. PICK n \in Nat : n = published[p]  BY DEF WayInv
    <3>2. FromP(<<>>, p) = {} /\ CallsFrom(ready, c, p) = {}
      BY <1>1, <2>2 DEF FromP, CallsFrom, OverAndDone
    <3>3. Way(<<>>, ready, c, p, FALSE, n, n + 1)
      BY <3>1, <3>2 DEF Way, Ordered, Within, Covered
    <3>4. (c \in fanout[p])' = FALSE  BY <1>1, <2>2 DEF OverAndDone
    <3>5. WayTo(c, p, n + 1)'  BY <1>1, <1>2, <2>2, <3>1, <3>3, <3>4 DEF WayTo
    <3>6. seen'[c][p] = n  BY <1>2, <2>2, <3>1
    <3> QED BY <3>1, <3>5, <3>6
  <2> QED BY <2>1, <2>2
<1>4. \A c \in Clients : conn'[c] = "open" => c \in subs'
  BY <1>1, <1>2 DEF WayInv
<1> QED BY <1>1, <1>2, <1>3, <1>4 DEF WayInv

LEMMA WayDeliver ==
  ASSUME WayInv, NEW d \in Clients, Deliver(d)
  PROVE  WayInv'
<1>1. /\ conn[d] = "open" /\ queue[d] # <<>> /\ queue[d] \in Seq(Message)
      /\ queue' = [queue EXCEPT ![d] = Tail(@)]
      /\ UNCHANGED <<published, fanout, subs, ready, conn, overflowed>>
  BY DEF Deliver, WayInv
<1>2. PICK m \in Message : m = Head(queue[d])  BY <1>1, TailOf
<1>3. seen' = [seen EXCEPT ![d][m.from] = m.nr] /\ m.from \in Publishers /\ m.nr \in Nat
  BY <1>2 DEF Deliver, Message
<1>4. Tail(queue[d]) \in Seq(Message)  BY <1>1, TailOf
<1>5. /\ queue' \in [Clients -> Seq(Message)] /\ queue'[d] = Tail(queue[d])
      /\ \A c \in Clients \ {d} : queue'[c] = queue[c]
  BY <1>1, <1>4 DEF WayInv
<1>6. /\ seen' \in [Clients -> [Publishers -> Nat]]
      /\ \A c \in Clients, p \in Publishers :
           seen'[c][p] = IF c = d /\ p = m.from THEN m.nr ELSE seen[c][p]
  BY <1>3 DEF WayInv
<1>7. ASSUME NEW c \in Clients, NEW p \in Publishers, conn[c] = "open"
      PROVE  \E first \in Nat : WayTo(c, p, first)' /\ (c \notin overflowed => first = seen'[c][p] + 1)
  <2>1. PICK first \in Nat : WayTo(c, p, first) /\ (c \notin overflowed => first = seen[c][p] + 1)
    BY <1>7 DEF WayInv
  <2>2. CASE c # d
    <3>1. WayTo(c, p, first)'  BY <1>1, <1>5, <2>1, <2>2 DEF WayTo
    <3>2. seen'[c][p] = seen[c][p]  BY <1>6, <2>2
    <3> QED BY <2>1, <3>1, <3>2
  <2>3. CASE c = d
    <3>1. PICK due \in BOOLEAN : due <=> c \in fanout[p]  BY DueOrNot
    <3>2. /\ published[p] \in Nat /\ ready \in Seq(Calls)
          /\ Way(queue[c], ready, c, p, due, published[p], first)
      BY <2>1, <3>1 DEF WayInv, WayTo
    <3>3. PICK next : next = IF m.from = p THEN first + 1 ELSE first  OBVIOUS
    <3>4. /\ m.from = p => m.nr = first
          /\ Way(Tail(queue[c]), ready, c, p, due, published[p], next)
      BY <1>1, <1>2, <2>3, <3>2, <3>3, HeadLeaves
    <3>5. WayTo(c, p, next)'  BY <1>1, <1>5, <2>3, <3>1, <3>4 DEF WayTo
    <3>6. next \in Nat  BY <3>3
    <3>7. c \notin overflowed => next = seen'[c][p] + 1
      BY <1>6, <2>1, <2>3, <3>3, <3>4
    <3> QED BY <3>5, <3>6, <3>7
  <2> QED BY <2>2, <2>3
<1> QED BY <1>1, <1>5, <1>6, <1>7 DEF WayInv

LEMMA WayEnds ==
  ASSUME WayInv, NEW d \in Clients, Break(d) \/ Unsubscribe(d)
  PROVE  WayInv'
<1>1. /\ UNCHANGED <<published, fanout, ready, queue, seen, overflowed>> /\ subs' \subseteq subs
      /\ \E end \in {"gone", "off"} : conn' = [conn EXCEPT ![d] = end]
      /\ \A c \in Clients \ {d} : c \in subs => c \in subs'
  BY DEF Break, Unsubscribe
<1>2. /\ conn' \in [Clients -> {"off", "open", "gone"}]
      /\ \A c \in Clients : conn'[c] = "open" => c # d /\ conn[c] = "open"
  BY <1>1 DEF WayInv
<1>3. ASSUME NEW c \in Clients, NEW p \in Publishers, conn'[c] = "open"
      PROVE  \E first \in Nat : WayTo(c, p, first)' /\ (c \notin overflowed' => first = seen'[c][p] + 1)
  <2>1. PICK first \in Nat : WayTo(c, p, first) /\ (c \notin overflowed => first = seen[c][p] + 1)
    BY <1>2, <1>3 DEF WayInv
  <2>2. WayTo(c, p, first)'  BY <1>1, <2>1 DEF WayTo
  <2> QED BY <1>1, <2>1, <2>2
<1> QED BY <1>1, <1>2, <1>3 DEF WayInv

LEMMA WayKept == BusInv /\ WayInv /\ [Next]_vars => WayInv'
<1> SUFFICES ASSUME BusInv, WayInv, [Next]_vars PROVE WayInv'  OBVIOUS
<1>1. CASE UNCHANGED busVars
  BY <1>1 DEF busVars, WayInv, WayTo
<1>2. CASE Announce
  BY <1>2, LivePageAssumption, WayPublish DEF Announce
<1>3. CASE Bus
  BY <1>3, WaySafePut, WaySchedule, WayPublish, WayEnds DEF Bus
<1>4. CASE Disconnect
  BY <1>4, WayEnds DEF Disconnect, BusInv
<1>5. CASE HearCoex \/ HearOther
  BY <1>5, WayDeliver DEF HearCoex, HearOther, BusInv
<1>6. ASSUME NEW c \in Clients, Connect(c)  PROVE WayInv'
  BY <1>6, WaySubscribe DEF Connect
<1> QED BY <1>1, <1>2, <1>3, <1>4, <1>5, <1>6
        DEF Next, Server, Listen, Refresh, Write, Serve, TimerFires, Ticker, Answer, Fail, vars

(* state.py, _broadcast and _safe_put: the newest messages of every        *)
(* publisher are on their way to every connected client, in order and      *)
(* without a gap; all it has not got, until its queue overflows.           *)
THEOREM NothingIsSkipped == Spec => []NothingSkipped
<1>1. BusInv /\ WayInv => NothingSkipped
  <2> SUFFICES ASSUME WayInv, NEW c \in Clients, NEW p \in Publishers, conn[c] = "open"
               PROVE  /\ InOrder(c, p)
                      /\ \E first \in 1..(published[p] + 1) :
                           /\ OnTheWay(c, p) = first..published[p]
                           /\ c \notin overflowed => first = seen[c][p] + 1
    BY DEF NothingSkipped
  <2>1. PICK first \in Nat : WayTo(c, p, first) /\ (c \notin overflowed => first = seen[c][p] + 1)
    BY DEF WayInv
  <2>2. PICK last \in Nat : last = published[p]  BY DEF WayInv
  <2>9. PICK due \in BOOLEAN : due <=> c \in fanout[p]  BY DueOrNot
  <2>3. Way(queue[c], ready, c, p, due, last, first)
    BY <2>1, <2>2, <2>9 DEF WayTo
  <2>4. Waiting(c, p) = FromP(queue[c], p) /\ Called(c, p) = CallsFrom(ready, c, p)
    BY DEF Waiting, FromP, Called, CallsFrom
  <2>5. InOrder(c, p)
    BY <2>2, <2>9, <2>3, <2>4 DEF InOrder, Way, Ordered, Within
  <2>6. \A n : n \in OnTheWay(c, p) <=>
          \/ \E i \in Waiting(c, p) : queue[c][i].nr = n
          \/ \E i \in Called(c, p) : ready[i].msg.nr = n
          \/ due /\ n = last
    <3>1. \A n : n \in {queue[c][i].nr : i \in Waiting(c, p)} <=> \E i \in Waiting(c, p) : queue[c][i].nr = n
      OBVIOUS
    <3>2. \A n : n \in {ready[i].msg.nr : i \in Called(c, p)} <=> \E i \in Called(c, p) : ready[i].msg.nr = n
      OBVIOUS
    <3>3. \A n : n \in (IF c \in fanout[p] THEN {published[p]} ELSE {}) <=> due /\ n = last
      BY <2>2, <2>9
    <3> QED BY <3>1, <3>2, <3>3, Zenon DEF OnTheWay
  <2>7. first \in 1..(last + 1) /\ (due => last \in first..last)
    BY <2>3 DEF Way, Within
  <2>8. OnTheWay(c, p) = first..last
    <3>1. ASSUME NEW n \in OnTheWay(c, p)  PROVE n \in first..last
      BY <2>3, <2>4, <2>6, <2>7, <3>1 DEF Way, Within
    <3>2. ASSUME NEW n \in first..last  PROVE n \in OnTheWay(c, p)
      <4>1. \/ \E i \in FromP(queue[c], p) : queue[c][i].nr = n
            \/ \E i \in CallsFrom(ready, c, p) : ready[i].msg.nr = n
            \/ due /\ n = last
        BY <2>3, <3>2 DEF Way, Covered
      <4> QED BY <2>4, <2>6, <4>1
    <3> QED BY <3>1, <3>2, Zenon
  <2> QED BY <2>1, <2>2, <2>5, <2>7, <2>8
<1>2. BusInv /\ Init => WayInv
  BY WayInitially DEF Init
<1> QED BY <1>1, <1>2, BusInitially, BusKept, WayKept, PTL DEF Spec
=============================================================================
