-------------------------- MODULE DeviceControlProofs --------------------------
(***************************************************************************)
(* DeviceControl for every number of threads, devices, profiles and        *)
(* faults: types; then four invariants, each proved from what a step does  *)
(* to one call, one handler, what ChirpStack stores and what it has still  *)
(* to do.  Tokens (TokensExplained), edits (NamesKept), what is created    *)
(* and queued (ProvisionedOnce, DownlinksCounted), and profiles            *)
(* (WhileUndisturbed, WhileSettled).                                       *)
(***************************************************************************)
EXTENDS DeviceControl, FiniteSetTheorems, TLAPS

-----------------------------------------------------------------------------
(* What a function that has not returned is called with, and which         *)
(* function a remote call belongs to.                                      *)
Running(c) == c.at \in Calls \cup {"renew"}

Shape(c) ==
  /\ Running(c) => /\ c.fn # None
                   /\ c.fn = "provision" => c.on \in Kinds
                   /\ c.fn \in {"switch", "register", "enqueue"} => c.on \in Devices
                   /\ c.fn = "switch" => c.value \in Profiles
  /\ c.at = "Update" => c.fn = "switch"
  /\ c.at = "Enqueue" => c.fn = "enqueue"
  /\ c.at \in {"CreateKeys", "UpdateKeys"} => c.fn = "register"
  /\ c.at = "Create" => c.fn \in {"register", "provision"}

(* The same of a request that ChirpStack has. *)
RequestShape(r) ==
  /\ r.call = "Update" => r.on \in Devices /\ r.value \in Profiles
  /\ r.call \in {"CreateKeys", "UpdateKeys", "Enqueue"} => r.on \in Devices

CallsShaped == \A t \in Threads : Shape(call[t])
LateShaped  == \A r \in late : r.call \in Writes /\ RequestShape(r)

(* Nothing else runs beside the start-up, which has attempts left.         *)
HandlersSound ==
  /\ \A t \in Threads : handler[t].op = "phase" => handler[t].value \in Profiles
  /\ \A t \in Threads : handler[t].op = "start" =>
        mode = "starting" /\ \A u \in Threads \ {t} : Free(u)
  /\ mode = "starting" => attempt < MaxAttempts

Shapes  == CallsShaped /\ LateShaped /\ HandlersSound
TypeInv == TypeOK /\ Shapes

(* The control flow: a call that follows another is in one of the steps.   *)
LEMMA NextCallIsAStep ==
  ASSUME NEW fn, NEW at, NEW answer
  PROVE  NextCall(fn, at, answer) = "failed"
         \/ <<fn, at, answer, NextCall(fn, at, answer)>> \in Steps
<1> DEFINE steps == {f \in Steps : f[1] = fn /\ f[2] = at /\ f[3] = answer}
<1>1. CASE steps = {}
  BY <1>1 DEF NextCall
<1>2. CASE steps # {}
  <2>1. PICK f \in steps : NextCall(fn, at, answer) = f[4]
    BY <1>2 DEF NextCall
  <2>2. f = <<f[1], f[2], f[3], f[4]>>
    BY <2>1 DEF Steps, ListSteps, SwitchSteps, EnqueueSteps, ProvisionSteps, RegisterSteps
  <2> QED BY <2>1, <2>2
<1> QED BY <1>1, <1>2

LEMMA NextCalls ==
  ASSUME NEW fn, NEW at, NEW answer
  PROVE  LET next == NextCall(fn, at, answer) IN
         \/ next = "failed"
         \/ next = "done" /\ (fn = "switch" => at = "Update" /\ answer = "ok")
         \/ fn = "switch" /\ at = "Get" /\ next = "Update"
         \/ fn = "provision" /\ at = "List" /\ answer = "not_found" /\ next = "Create"
         \/ fn = "register" /\ at = "Get" /\ answer = "not_found" /\ next = "Create"
         \/ fn = "register" /\ next \in {"CreateKeys", "UpdateKeys"}
BY NextCallIsAStep DEF Steps, ListSteps, SwitchSteps, EnqueueSteps, ProvisionSteps, RegisterSteps

LEMMA TokenTypes ==
  /\ NoToken \in Token /\ Fresh \in Token /\ Cached \in Token /\ Tokens \subseteq Token
  /\ \A token \in Token : Upset(token) \in Token /\ [token EXCEPT !.good = FALSE] \in Token
<1>1. NoToken \in Token /\ Fresh \in Token
  BY DEF NoToken, Fresh, Token
<1>2. ASSUME NEW token \in Token
      PROVE  Upset(token) \in Token /\ [token EXCEPT !.good = FALSE] \in Token
  BY Zenon DEF Token, Upset
<1> QED BY <1>1, <1>2 DEF Cached, Tokens

LEMMA NoCallType == NoCall \in CallRecord /\ Shape(NoCall) /\ NoHandler.value \in Values
<1>1. SomeTarget \in Targets  BY DEF SomeTarget, Targets, Kinds
<1> QED BY <1>1, TokenTypes DEF NoCall, CallRecord, Values, Names, Shape, Running, Calls, NoHandler

(* What ChirpStack stores keeps its type, whatever it does. *)
LEMMA DoneType ==
  ASSUME NEW r \in Request, RequestShape(r), NEW s \in Server
  PROVE  Done(r, s) \in Server
<1>1. SUFFICES Effect(r, s) \in Server  BY DEF Done
<1>2. s.device \in [Devices -> Device] /\ s.objects \in [Kinds -> Nat] /\ s.queued \in Nat
  BY DEF Server
<1>3. CASE r.call = "Create" /\ r.on \in Kinds
  <2>1. Effect(r, s) = [s EXCEPT !.objects = [s.objects EXCEPT ![r.on] = s.objects[r.on] + 1]]
    BY <1>3, <1>2 DEF Effect, Server
  <2>2. [s.objects EXCEPT ![r.on] = s.objects[r.on] + 1] \in [Kinds -> Nat]  BY <1>2, <1>3
  <2> QED BY <2>1, <2>2 DEF Server
<1>4. CASE r.call = "Create" /\ r.on \notin Kinds
  <2> DEFINE new == [exists |-> TRUE, profile |-> Adr, keys |-> FALSE, name |-> "ours"]
  <2>1. Effect(r, s) = [s EXCEPT !.device = [s.device EXCEPT ![r.on] = new]]
    BY <1>4 DEF Effect
  <2>2. new \in Device  BY ChirpStackAssumption DEF Device, Names
  <2>3. [s.device EXCEPT ![r.on] = new] \in [Devices -> Device]  BY <2>2, <1>2
  <2> QED BY <2>1, <2>3 DEF Server
<1>5. CASE r.call \in {"CreateKeys", "UpdateKeys"}
  <2> DEFINE new == [s.device[r.on] EXCEPT !.keys = TRUE]
  <2>1. Effect(r, s) = [s EXCEPT !.device = [s.device EXCEPT ![r.on] = new]]
    BY <1>5 DEF Effect
  <2>2. new \in Device  BY <1>2, <1>5 DEF Device, RequestShape
  <2>3. [s.device EXCEPT ![r.on] = new] \in [Devices -> Device]  BY <2>2, <1>2
  <2> QED BY <2>1, <2>3 DEF Server
<1>6. CASE r.call = "Update"
  <2> DEFINE new == [s.device[r.on] EXCEPT !.profile = r.value, !.name = r.name]
  <2>0. r.on \in Devices  BY <1>6 DEF RequestShape
  <2>1. Effect(r, s) = [s EXCEPT !.device = [s.device EXCEPT ![r.on] = new]]
    BY <1>6, <1>2, <2>0 DEF Effect, Server
  <2>2. new \in Device  BY <1>2, <1>6 DEF Device, RequestShape, Request
  <2>3. [s.device EXCEPT ![r.on] = new] \in [Devices -> Device]  BY <2>2, <1>2
  <2> QED BY <2>1, <2>3 DEF Server
<1>7. CASE r.call = "Enqueue"
  BY <1>7, <1>2 DEF Effect, Server
<1>8. CASE r.call \notin Writes
  BY <1>8 DEF Effect, Writes
<1> QED BY <1>3, <1>4, <1>5, <1>6, <1>7, <1>8 DEF Writes

-----------------------------------------------------------------------------
(* Records of calls: the ways in which an action changes one.              *)
GoodCall(c) == c \in CallRecord /\ Shape(c)

LEMMA LeftGood ==
  ASSUME TypeInv, NEW t \in Threads, NEW outcome \in {"done", "failed"}, NEW seen \in SUBSET Devices
  PROVE  GoodCall(Left(t, outcome, seen))
<1>1. call[t] \in CallRecord  BY DEF TypeInv, TypeOK, ClientTypeOK
<1>2. Left(t, outcome, seen) \in CallRecord
  BY <1>1, NoCallType DEF Left, CallRecord
<1>3. Left(t, outcome, seen).at \notin Calls \cup {"renew"}
  BY NoCallType DEF Left, CallRecord, Calls
<1> QED BY <1>2, <1>3 DEF GoodCall, Shape, Running, Calls

LEMMA EnterGood ==
  ASSUME NEW t \in Threads, NEW fn \in Functions, NEW on \in Targets, NEW value \in Values,
         NEW token \in Token, call \in [Threads -> CallRecord], asked \in Nat,
         fn = "provision" => on \in Kinds,
         fn \in {"switch", "register", "enqueue"} => on \in Devices,
         fn = "switch" => value \in Profiles,
         Enter(t, fn, on, value, token)
  PROVE  /\ call' \in [Threads -> CallRecord] /\ asked' \in Nat
         /\ Shape(call'[t])
         /\ \A u \in Threads \ {t} : call'[u] = call[u]
<1> DEFINE new == [NoCall EXCEPT !.fn = fn, !.on = on, !.value = value,
                                 !.at = First[fn], !.token = token]
<1>1. First[fn] \in {"List", "Get", "Enqueue"} /\ (First[fn] = "Enqueue" => fn = "enqueue")
  BY DEF First, Functions
<1>2. new \in CallRecord
  BY <1>1, NoCallType DEF CallRecord, Calls
<1>3. new.fn = fn /\ new.on = on /\ new.value = value /\ new.at = First[fn]
  BY NoCallType DEF CallRecord
<1>4. Shape(new)
  BY <1>1, <1>3 DEF Shape, Functions, None
<1>5. call' = [call EXCEPT ![t] = new]
  BY DEF Enter
<1> HIDE DEF new
<1>6. asked' \in Nat
  BY DEF Enter
<1> QED BY <1>2, <1>4, <1>5, <1>6

LEMMA RequestGood ==
  ASSUME TypeInv, NEW t \in Threads, InCall(t)
  PROVE  RequestOf(t) \in Request /\ RequestShape(RequestOf(t))
<1>1. call[t] \in CallRecord /\ Shape(call[t]) /\ call[t].at \in Calls /\ faults \in 0..MaxFaults
  BY DEF TypeInv, TypeOK, ClientTypeOK, Shapes, CallsShaped, LateShaped, InCall
<1>2. <<t, faults>> \in Threads \X (0..MaxFaults)
  BY <1>1
<1>3. RequestOf(t) \in Request
  BY <1>1, <1>2 DEF RequestOf, Request, CallRecord
<1>4. RequestShape(RequestOf(t))
  BY <1>1 DEF Shape, Running, RequestOf, RequestShape, Calls
<1> QED BY <1>3, <1>4

(* Callers that give up leave their requests behind. *)
LEMMA GiveUpGood ==
  ASSUME TypeInv, NEW callers \in SUBSET Threads,
         \A t \in callers : InCall(t) /\ call[t].at \in Writes, GiveUp(callers)
  PROVE  /\ late' \subseteq Request /\ lost' \subseteq Kinds
         /\ \A r \in late' : r.call \in Writes /\ RequestShape(r)
<1>1. \A t \in callers : RequestOf(t) \in Request /\ RequestShape(RequestOf(t)) /\ RequestOf(t).call \in Writes
  BY RequestGood DEF RequestOf
<1> QED BY <1>1 DEF GiveUp, TypeInv, TypeOK, ClientTypeOK, Shapes, LateShaped

-----------------------------------------------------------------------------
(* Types. *)
LEMMA InitType == Init => TypeInv
<1> SUFFICES ASSUME Init PROVE TypeInv  OBVIOUS
<1> USE DEF Init, ClientInit
<1>1. server \in Server
  <2>1. [exists: BOOLEAN, profile: {Adr}, keys: {FALSE}, name: {"ours"}] \subseteq Device
    BY ChirpStackAssumption DEF Device, Names
  <2>2. [k \in Kinds |-> 0] \in [Kinds -> Nat]  OBVIOUS
  <2> DEFINE new == [exists: BOOLEAN, profile: {Adr}, keys: {FALSE}, name: {"ours"}]
  <2>3. server.device \in [Devices -> new] /\ server.objects = [k \in Kinds |-> 0] /\ server.queued = 0
        /\ server = [device |-> server.device, objects |-> server.objects, queued |-> server.queued]
    OBVIOUS
  <2> HIDE DEF new
  <2>4. server.device \in [Devices -> Device]  BY <2>1, <2>3 DEF new
  <2> QED BY <2>2, <2>3, <2>4 DEF Server
<1>2. ClientTypeOK
  BY <1>1, NoCallType, TokenTypes, ChirpStackAssumption DEF ClientTypeOK, Names
<1>3. ControlTypeOK
  BY ChirpStackAssumption, ControlAssumption DEF ControlTypeOK, NoHandler, Values
<1>4. Shapes
  BY NoCallType, ControlAssumption DEF Shapes, CallsShaped, LateShaped, HandlersSound, NoHandler, None
<1> QED BY <1>2, <1>3, <1>4 DEF TypeInv, TypeOK

(* One thread's call changes, and what ChirpStack stores.                  *)
LEMMA OneCallType ==
  ASSUME TypeInv, NEW t \in Threads, NEW c, GoodCall(c), call' = [call EXCEPT ![t] = c]
  PROVE  call' \in [Threads -> CallRecord] /\ \A u \in Threads : Shape(call'[u])
BY DEF TypeInv, TypeOK, ClientTypeOK, Shapes, CallsShaped, LateShaped, GoodCall

LEMMA AnsweredType ==
  ASSUME TypeInv, NEW t \in Threads, CallAnswered(t)
  PROVE  server' \in Server /\ call' \in [Threads -> CallRecord] /\ \A u \in Threads : Shape(call'[u])
<1> DEFINE answer == Answer(RequestOf(t), server)
           next   == NextCall(call[t].fn, call[t].at, answer)
<1>1. server' \in Server
  BY RequestGood, DoneType DEF CallAnswered, TypeInv, TypeOK, ClientTypeOK
<1>2. CASE next \in {"done", "failed"}
  <2>1. PICK seen \in SUBSET Devices : call' = [call EXCEPT ![t] = Left(t, next, seen)]
    BY <1>2 DEF CallAnswered, Registered
  <2> QED BY <2>1, <1>1, <1>2, LeftGood, OneCallType
<1>3. CASE next \notin {"done", "failed"}
  <2>1. PICK name \in Names : call' = [call EXCEPT ![t] = [@ EXCEPT !.at = next, !.name = name]]
    <3>1. call[t].name \in Names /\ ReadName(t) \in Names
      <4>1. call[t] \in CallRecord  BY DEF TypeInv, TypeOK, ClientTypeOK
      <4>2. call[t].fn = "switch" => call[t].on \in Devices
        BY DEF TypeInv, Shapes, CallsShaped, Shape, Running, CallAnswered, InCall
      <4>3. \A d \in Devices : server.device[d].name \in Names
        BY DEF TypeInv, TypeOK, ClientTypeOK, Server, Device
      <4> QED BY <4>1, <4>2, <4>3 DEF CallRecord, ReadName, Names
    <3> DEFINE name == IF next = "Update" THEN ReadName(t) ELSE call[t].name
    <3>2. call' = [call EXCEPT ![t] = [@ EXCEPT !.at = next, !.name = name]]
      BY <1>3 DEF CallAnswered
    <3>3. name \in Names  BY <3>1
    <3> QED BY <3>2, <3>3
  <2> DEFINE c == [call[t] EXCEPT !.at = next, !.name = name]
  <2>2. call' = [call EXCEPT ![t] = c]
    BY <2>1
  <2>3. call[t] \in CallRecord /\ Shape(call[t]) /\ call[t].at \in Calls
    BY DEF TypeInv, TypeOK, ClientTypeOK, Shapes, CallsShaped, LateShaped, CallAnswered, InCall
  <2>4. \/ call[t].fn = "switch" /\ next = "Update"
        \/ call[t].fn = "provision" /\ next = "Create"
        \/ call[t].fn = "register" /\ next \in {"Create", "CreateKeys", "UpdateKeys"}
    BY <1>3, NextCalls
  <2> HIDE DEF next
  <2>5. c \in CallRecord
    BY <2>3, <2>4 DEF CallRecord, Calls
  <2>6. c.at = next /\ c.fn = call[t].fn /\ c.on = call[t].on /\ c.value = call[t].value
    BY <2>3 DEF CallRecord
  <2>7. Shape(c)
    BY <2>3, <2>4, <2>6 DEF Shape, Running, Calls
  <2> QED BY <1>1, <2>2, <2>5, <2>7, OneCallType DEF GoodCall
<1> QED BY <1>2, <1>3, <1>1

(* Tokens change everywhere at once.                                       *)
LEMMA NotedType ==
  ASSUME TypeInv, NEW f \in [Token -> Token], NoteTokens(f)
  PROVE  /\ held' \in [Threads -> Token] /\ call' \in [Threads -> CallRecord]
         /\ \A u \in Threads : Shape(call'[u])
<1>1. held' \in [Threads -> Token]
  BY DEF NoteTokens, TypeInv, TypeOK, ClientTypeOK
<1>2. ASSUME NEW u \in Threads
      PROVE  call'[u] \in CallRecord /\ Shape(call'[u])
  <2>1. call[u] \in CallRecord /\ Shape(call[u])
    BY DEF TypeInv, TypeOK, ClientTypeOK, Shapes, CallsShaped, LateShaped
  <2>2. call'[u] = [call[u] EXCEPT !.token = f[call[u].token]]
    BY DEF NoteTokens
  <2>3. f[call[u].token] \in Token
    BY <2>1 DEF CallRecord
  <2>4. call'[u] \in CallRecord
    BY <2>1, <2>2, <2>3 DEF CallRecord
  <2> QED BY <2>1, <2>2, <2>4 DEF Shape, Running, CallRecord
<1>3. call' \in [Threads -> CallRecord]
  BY <1>2 DEF NoteTokens
<1> QED BY <1>1, <1>2, <1>3

ClientInv   == ClientTypeOK /\ CallsShaped /\ LateShaped

LEMMA ClientNextType ==
  ASSUME TypeInv, ClientNext
  PROVE  ClientInv'
<1> USE DEF ClientInv
<1>0. ClientTypeOK /\ CallsShaped /\ LateShaped
  BY DEF TypeInv, TypeOK, Shapes, CallsShaped, LateShaped
<1>1. ASSUME NEW t \in Threads, CallAnswered(t)  PROVE ClientInv'
  BY <1>0, <1>1, AnsweredType DEF CallAnswered, ClientTypeOK, CallsShaped, LateShaped
<1>2. ASSUME NEW t \in Threads, Raise(t)
      PROVE  call' \in [Threads -> CallRecord] /\ CallsShaped'
  BY <1>2, LeftGood, OneCallType DEF Raise, CallsShaped
<1>3. ASSUME NEW t \in Threads, CallFails(t) \/ RenewFails(t)  PROVE ClientInv'
  BY <1>0, <1>2, <1>3 DEF CallFails, RenewFails, ClientTypeOK, LateShaped
<1>4. ASSUME NEW t \in Threads, CallTimesOut(t)  PROVE ClientInv'
  <2>1. call' \in [Threads -> CallRecord] /\ CallsShaped'
    BY <1>2, <1>4 DEF CallTimesOut
  <2>2. late' \subseteq Request /\ lost' \subseteq Kinds /\ LateShaped'
    BY <1>4, GiveUpGood, {t} \in SUBSET Threads DEF CallTimesOut, LateShaped
  <2>3. faults' \in 0..MaxFaults
    BY <1>0, <1>4, ChirpStackAssumption DEF CallTimesOut, ClientTypeOK
  <2> QED BY <1>0, <1>4, <2>1, <2>2, <2>3 DEF CallTimesOut, ClientTypeOK
<1>5. ASSUME NEW t \in Threads, CallRejected(t)  PROVE ClientInv'
  <2> DEFINE c == [call[t] EXCEPT !.at = "renew"]
  <2>1. call[t] \in CallRecord /\ Shape(call[t]) /\ Running(call[t])
    BY <1>0, <1>5 DEF ClientTypeOK, CallsShaped, CallRejected, InCall, Running
  <2>2. c \in CallRecord /\ c.at = "renew" /\ c.fn = call[t].fn /\ c.on = call[t].on /\ c.value = call[t].value
    BY <2>1 DEF CallRecord
  <2>3. GoodCall(c)
    BY <2>1, <2>2 DEF GoodCall, Shape, Running
  <2>4. call' = [call EXCEPT ![t] = c]
    BY <1>5 DEF CallRejected
  <2>5. call' \in [Threads -> CallRecord] /\ CallsShaped'
    BY <2>3, <2>4, OneCallType DEF CallsShaped
  <2> QED BY <1>0, <1>5, <2>5 DEF CallRejected, ClientTypeOK, LateShaped
<1>6. ASSUME NEW t \in Threads, Renew(t)  PROVE ClientInv'
  <2> DEFINE first == First[call[t].fn]
             c == [call[t] EXCEPT !.at = first, !.token = Fresh, !.retried = TRUE]
  <2>1. call[t] \in CallRecord /\ Shape(call[t]) /\ Running(call[t]) /\ call[t].fn \in Functions
    BY <1>0, <1>6 DEF ClientTypeOK, CallsShaped, Renew, Shape, Running, CallRecord
  <2>2. first \in {"List", "Get", "Enqueue"} /\ (first = "Enqueue" => call[t].fn = "enqueue")
    BY <2>1 DEF First, Functions
  <2> HIDE DEF first
  <2>3. c \in CallRecord /\ c.at = first /\ c.fn = call[t].fn /\ c.on = call[t].on /\ c.value = call[t].value
    BY <2>1, <2>2, TokenTypes DEF CallRecord, Calls
  <2>4. GoodCall(c)
    BY <2>1, <2>2, <2>3 DEF GoodCall, Shape, Running
  <2>5. call' = [call EXCEPT ![t] = c]
    BY <1>6 DEF Renew, first
  <2>6. call' \in [Threads -> CallRecord] /\ CallsShaped'
    BY <2>4, <2>5, OneCallType DEF CallsShaped
  <2> QED BY <1>0, <1>6, <2>6 DEF Renew, ClientTypeOK, LateShaped
<1>7. ASSUME NEW d \in Devices, EditInChirpStack(d)  PROVE ClientInv'
  <2>1. server' \in Server
    <3> DEFINE new == [server.device[d] EXCEPT !.name = "edited"]
    <3>1. new \in Device
      BY <1>0 DEF ClientTypeOK, Server, Device, Names
    <3>2. server' = [server EXCEPT !.device = [server.device EXCEPT ![d] = new]]
      BY <1>7, <1>0 DEF EditInChirpStack, ClientTypeOK, Server
    <3> HIDE DEF new
    <3> QED BY <1>0, <3>1, <3>2 DEF ClientTypeOK, Server
  <2>2. kept' \in [Devices -> Names \cup {Unknown}]
    BY <1>0, <1>7 DEF EditInChirpStack, ClientTypeOK, Names
  <2> QED BY <1>0, <1>7, <2>1, <2>2 DEF EditInChirpStack, ClientTypeOK, CallsShaped, LateShaped
<1>8. ASSUME TakeEffectLate  PROVE ClientInv'
  <2>1. PICK r \in late : late' = late \ {r} /\ server' \in {server, Done(r, server)}
    BY <1>8 DEF TakeEffectLate
  <2>2. server' \in Server
    BY <1>0, <2>1, DoneType DEF ClientTypeOK, LateShaped
  <2> QED BY <1>0, <1>8, <2>1, <2>2 DEF TakeEffectLate, ClientTypeOK, CallsShaped, LateShaped
<1>9. ASSUME Age  PROVE ClientInv'
  <2>1. CASE UNCHANGED <<held, call>>
    BY <1>0, <1>9, <2>1 DEF Age, ClientTypeOK, CallsShaped, LateShaped
  <2>2. CASE ~UNCHANGED <<held, call>>
    <3> DEFINE f == [token \in Token |-> [token EXCEPT !.good = FALSE]]
    <3>1. NoteTokens(f) /\ cache' = None
      BY <1>9, <2>2 DEF Age
    <3>2. f \in [Token -> Token]
      BY TokenTypes
    <3> HIDE DEF f
    <3>3. held' \in [Threads -> Token] /\ call' \in [Threads -> CallRecord] /\ CallsShaped'
      BY <3>1, <3>2, NotedType DEF CallsShaped
    <3> QED BY <1>0, <1>9, <3>1, <3>3 DEF Age, ClientTypeOK, LateShaped
  <2> QED BY <2>1, <2>2
<1>10. ASSUME RetireTokens  PROVE ClientInv'
  <2>1. held' \in [Threads -> Token] /\ call' \in [Threads -> CallRecord] /\ CallsShaped'
    <3> DEFINE f == [token \in Token |-> Upset(token)]
    <3>1. NoteTokens(f)
      BY <1>10 DEF RetireTokens
    <3>2. f \in [Token -> Token]
      BY TokenTypes
    <3> HIDE DEF f
    <3> QED BY <3>1, <3>2, NotedType DEF CallsShaped
  <2>2. faults' \in 0..MaxFaults /\ cache' \in {None, "fresh", "margin", "revoked"}
    BY <1>0, <1>10, ChirpStackAssumption DEF RetireTokens, ClientTypeOK
  <2> QED BY <1>0, <1>10, <2>1, <2>2 DEF RetireTokens, ClientTypeOK, LateShaped
<1> QED BY <1>1, <1>3, <1>4, <1>5, <1>6, <1>7, <1>8, <1>9, <1>10 DEF ClientNext

Handler == [op: {None, "start", "phase", "single"}, value: Values,
            todo: SUBSET Devices, failed: BOOLEAN, alone: BOOLEAN]

LEMMA NoHandlerType == NoHandler \in Handler /\ NoHandler.op = None
BY DEF NoHandler, Handler, Values

LEMMA TypeParts ==
  /\ TypeInv <=> ClientInv /\ ControlTypeOK /\ HandlersSound
  /\ TypeInv' <=> ClientInv' /\ ControlTypeOK' /\ HandlersSound'
  /\ ControlTypeOK => handler \in [Threads -> Handler]
BY DEF TypeInv, TypeOK, Shapes, ClientInv, CallsShaped, LateShaped, HandlersSound, ControlTypeOK, Handler

LEMMA GetTokenType ==
  ASSUME TypeInv, NEW token, GetToken(token)
  PROVE  token \in Token /\ cache' \in {None, "fresh", "margin", "revoked"}
BY TokenTypes DEF GetToken, TypeInv, TypeOK, ClientTypeOK

LEMMA ReturnType ==
  ASSUME TypeInv, NEW t \in Threads, Return(t)
  PROVE  /\ call' \in [Threads -> CallRecord] /\ CallsShaped'
         /\ held' \in [Threads -> Token] /\ handler' \in [Threads -> Handler]
         /\ asked' \in Nat
<1>1. GoodCall(NoCall)  BY NoCallType DEF GoodCall
<1>2. call' \in [Threads -> CallRecord] /\ CallsShaped'
  BY <1>1, OneCallType DEF Return, CallsShaped
<1>3. held' \in [Threads -> Token] /\ asked' \in Nat
  BY TokenTypes DEF Return, TypeInv, TypeOK, ClientTypeOK
<1>4. handler' \in [Threads -> Handler]
  BY TypeParts, NoHandlerType DEF Return
<1> QED BY <1>2, <1>3, <1>4

LEMMA EnterType ==
  ASSUME TypeInv, NEW t \in Threads, NEW fn \in Functions, NEW on \in Targets, NEW value \in Values,
         NEW token \in Token,
         fn = "provision" => on \in Kinds,
         fn \in {"switch", "register", "enqueue"} => on \in Devices,
         fn = "switch" => value \in Profiles,
         Enter(t, fn, on, value, token)
  PROVE  call' \in [Threads -> CallRecord] /\ CallsShaped' /\ asked' \in Nat
<1>1. call \in [Threads -> CallRecord] /\ asked \in Nat /\ \A u \in Threads : Shape(call[u])
  BY DEF TypeInv, TypeOK, ClientTypeOK, Shapes, CallsShaped, LateShaped
<1>2. /\ call' \in [Threads -> CallRecord] /\ asked' \in Nat
      /\ Shape(call'[t]) /\ \A u \in Threads \ {t} : call'[u] = call[u]
  BY <1>1, EnterGood
<1>3. ASSUME NEW u \in Threads PROVE Shape(call'[u])
  <2>1. CASE u = t BY <2>1, <1>2
  <2>2. CASE u # t BY <2>2, <1>1, <1>2
  <2> QED BY <2>1, <2>2
<1> QED BY <1>2, <1>3 DEF CallsShaped

LEMMA StartType ==
  ASSUME TypeInv, Connect \/ LoginFails \/ (\E t \in Threads : Provision(t))
  PROVE  TypeInv'
<1>0. ClientInv /\ ClientTypeOK /\ CallsShaped /\ LateShaped /\ ControlTypeOK /\ HandlersSound
      /\ handler \in [Threads -> Handler]
  BY TypeParts DEF ClientInv
<1>1. SUFFICES ClientTypeOK' /\ CallsShaped' /\ LateShaped' /\ ControlTypeOK' /\ HandlersSound'
  BY TypeParts DEF ClientInv
<1>2. CASE Connect
  <2>1. PICK t \in Threads, token \in Tokens :
          /\ handler' = [handler EXCEPT ![t].op = "start"]
          /\ GetToken(token) /\ held' = [held EXCEPT ![t] = token]
          /\ Enter(t, "provision", "tenant", None, token)
    BY <1>2 DEF Connect
  <2>2. token \in Token /\ cache' \in {None, "fresh", "margin", "revoked"}
    BY <2>1, GetTokenType
  <2>3. call' \in [Threads -> CallRecord] /\ CallsShaped' /\ asked' \in Nat
    BY <2>1, <2>2, EnterType DEF Functions, Targets, Kinds, Values
  <2>4. handler' \in [Threads -> Handler] /\ HandlersSound'
    <3> DEFINE h == [handler[t] EXCEPT !.op = "start"]
    <3>1. h \in Handler /\ h.op = "start"
      BY <1>0 DEF Handler
    <3>2. handler' = [handler EXCEPT ![t] = h]
      BY <2>1
    <3> HIDE DEF h
    <3>3. mode = "starting" /\ mode' = mode /\ attempt' = attempt /\ \A u \in Threads : handler[u].op = None
      BY <1>2 DEF Connect, Free
    <3> QED BY <1>0, <3>1, <3>2, <3>3 DEF HandlersSound, Free, None
  <2> QED BY <1>0, <1>2, <2>1, <2>2, <2>3, <2>4 DEF Connect, ClientTypeOK, ControlTypeOK, LateShaped, Handler
<1>3. ASSUME AttemptFails, mode = "starting"
      PROVE  /\ mode' \in {"starting", "serving", "degraded"} /\ attempt' \in 0..MaxAttempts
             /\ mode' = "starting" => attempt' < MaxAttempts
  BY <1>0, <1>3, ControlAssumption DEF AttemptFails, ControlTypeOK, HandlersSound
<1>4. CASE LoginFails
  <2>1. AttemptFails /\ mode = "starting" /\ UNCHANGED <<clientVars, handler, label, settled>>
        /\ \A u \in Threads : handler[u].op = None
    BY <1>4 DEF LoginFails, Free
  <2>2. HandlersSound'
    BY <1>0, <1>3, <2>1 DEF HandlersSound, None
  <2> QED BY <1>0, <1>3, <2>1, <2>2 DEF ClientTypeOK, ControlTypeOK, CallsShaped, LateShaped, clientVars
<1>5. ASSUME NEW t \in Threads, Provision(t)
      PROVE  ClientTypeOK' /\ CallsShaped' /\ LateShaped' /\ ControlTypeOK' /\ HandlersSound'
  <2>1. /\ handler[t].op = "start" /\ mode = "starting" /\ \A u \in Threads \ {t} : handler[u].op = None
        /\ UNCHANGED <<cache, server, late, faults, lost, kept, label, settled>>
    BY <1>0, <1>5 DEF Provision, HandlersSound, Free
  <2>2. CASE \E kind \in Kinds : Then(t, kind)
    <3>1. PICK kind \in Kinds : Then(t, kind)
      BY <2>2
    <3>2. call' \in [Threads -> CallRecord] /\ CallsShaped' /\ asked' \in Nat
      BY <1>0, <3>1, EnterType DEF Then, Functions, Targets, Values, ClientTypeOK
    <3> QED BY <1>0, <2>1, <3>1, <3>2 DEF Then, ClientTypeOK, ControlTypeOK, LateShaped, HandlersSound, Free
  <2>3. ASSUME Return(t), AttemptFails \/ (mode' = "serving" /\ attempt' = 0)
        PROVE  ClientTypeOK' /\ CallsShaped' /\ LateShaped' /\ ControlTypeOK' /\ HandlersSound'
    <3>1. /\ call' \in [Threads -> CallRecord] /\ CallsShaped' /\ asked' \in Nat
          /\ held' \in [Threads -> Token] /\ handler' \in [Threads -> Handler]
      BY <2>3, ReturnType
    <3>2. /\ mode' \in {"starting", "serving", "degraded"} /\ attempt' \in 0..MaxAttempts
          /\ mode' = "starting" => attempt' < MaxAttempts
      BY <1>3, <2>1, <2>3, ControlAssumption
    <3>3. \A u \in Threads : handler'[u].op = None
      BY <1>0, <2>1, <2>3, NoHandlerType DEF Return
    <3> QED BY <1>0, <2>1, <3>1, <3>2, <3>3
            DEF ClientTypeOK, ControlTypeOK, LateShaped, HandlersSound, Handler, None
  <2>4. \/ Then(t, "application") \/ Then(t, "profiles")
        \/ (Return(t) /\ mode' = "serving" /\ attempt' = 0)
        \/ (Return(t) /\ AttemptFails)
    BY <1>5 DEF Provision
  <2>5. "application" \in Kinds /\ "profiles" \in Kinds
    BY DEF Kinds
  <2> QED BY <2>2, <2>3, <2>4, <2>5
<1> QED BY <1>2, <1>4, <1>5

LEMMA RequestsType ==
  ASSUME TypeInv, NEW t \in Threads, NEW d \in Devices, NEW profile \in Profiles,
         RegisterDevice(t, d) \/ SwitchDevice(t, d, profile) \/ EnqueueDownlink(t, d)
  PROVE  TypeInv'
<1>0. ClientTypeOK /\ CallsShaped /\ LateShaped /\ ControlTypeOK /\ HandlersSound
      /\ handler \in [Threads -> Handler]
  BY TypeParts DEF ClientInv
<1>1. PICK fn \in {"register", "switch", "enqueue"}, value \in Values :
        Ask(t, fn, d, value) /\ (fn = "switch" => value \in Profiles)
  BY DEF RegisterDevice, SwitchDevice, EnqueueDownlink, Values
<1>2. PICK token \in Tokens : GetToken(token) /\ Enter(t, fn, d, value, token)
  BY <1>1 DEF Ask
<1>3. token \in Token /\ cache' \in {None, "fresh", "margin", "revoked"}
  BY <1>2, GetTokenType
<1>4. call' \in [Threads -> CallRecord] /\ CallsShaped' /\ asked' \in Nat
  BY <1>1, <1>2, <1>3, EnterType DEF Functions, Targets
<1>5. handler' \in [Threads -> Handler] /\ HandlersSound'
  <2> DEFINE h == [NoHandler EXCEPT !.op = "single"]
             h2 == [handler EXCEPT ![t] = h]
  <2>1. h \in Handler /\ h.op = "single"
    BY NoHandlerType DEF Handler
  <2>2. handler' = Disturbance(fn, d, h2)
    BY <1>1 DEF Ask
  <2> HIDE DEF h
  <2>3. h2 \in [Threads -> Handler]
    BY <1>0, <2>1
  <2>4. handler' \in [Threads -> Handler]
        /\ \A u \in Threads : handler'[u].op = h2[u].op /\ handler'[u].value = h2[u].value
    <3> HIDE DEF h2
    <3>1. \A u \in Threads : LET g == [h2[u] EXCEPT !.alone = FALSE] IN
             g \in Handler /\ g.op = h2[u].op /\ g.value = h2[u].value
      BY <2>3 DEF Handler
    <3>2. CASE Disturbs(fn, d)
      BY <2>2, <2>3, <3>1, <3>2 DEF Disturbance
    <3>3. CASE ~Disturbs(fn, d)
      BY <2>2, <2>3, <3>3 DEF Disturbance
    <3> QED BY <3>2, <3>3
  <2>5. mode = "serving" /\ mode' = mode /\ attempt' = attempt
    BY <1>1 DEF Ask
  <2>6. \A u \in Threads : handler'[u].op # "start"
        /\ (handler'[u].op = "phase" => handler'[u].value \in Profiles)
    BY <1>0, <2>1, <2>4, <2>5 DEF HandlersSound
  <2> QED BY <2>4, <2>5, <2>6 DEF HandlersSound
<1>6. settled' \in BOOLEAN
  BY <1>1 DEF Ask
<1>7. ClientTypeOK' /\ LateShaped'
  BY <1>0, <1>1, <1>3, <1>4 DEF Ask, ClientTypeOK, LateShaped
<1>8. ControlTypeOK'
  BY <1>0, <1>1, <1>5, <1>6 DEF Ask, ControlTypeOK, Handler
<1> QED BY <1>4, <1>5, <1>7, <1>8, TypeParts DEF ClientInv

LEMMA FinishType ==
  ASSUME TypeInv, NEW t \in Threads, Finish(t)
  PROVE  TypeInv'
<1>0. ClientTypeOK /\ CallsShaped /\ LateShaped /\ ControlTypeOK /\ HandlersSound
      /\ handler \in [Threads -> Handler]
  BY TypeParts DEF ClientInv
<1>1. /\ call' \in [Threads -> CallRecord] /\ CallsShaped' /\ asked' \in Nat
      /\ held' \in [Threads -> Token] /\ handler' \in [Threads -> Handler]
  BY ReturnType DEF Finish
<1>2. HandlersSound'
  BY <1>0, NoHandlerType DEF Finish, Return, HandlersSound, Free, None
<1> QED BY <1>0, <1>1, <1>2, TypeParts
        DEF Finish, ClientInv, ClientTypeOK, LateShaped, ControlTypeOK, Handler

LEMMA SetPhaseType ==
  ASSUME TypeInv, NEW t \in Threads, NEW profile \in Profiles, SetPhase(t, profile)
  PROVE  TypeInv'
<1>0. ClientTypeOK /\ CallsShaped /\ LateShaped /\ ControlTypeOK /\ HandlersSound
      /\ handler \in [Threads -> Handler]
  BY TypeParts DEF ClientInv
<1>1. PICK token \in Tokens : /\ GetToken(token) /\ held' = [held EXCEPT ![t] = token]
                              /\ Enter(t, "list", "application", None, token)
  BY DEF SetPhase
<1>2. token \in Token /\ cache' \in {None, "fresh", "margin", "revoked"}
  BY <1>1, GetTokenType
<1>3. call' \in [Threads -> CallRecord] /\ CallsShaped' /\ asked' \in Nat
  BY <1>1, <1>2, EnterType DEF Functions, Targets, Kinds, Values
<1>4. held' \in [Threads -> Token]
  BY <1>0, <1>1, <1>2 DEF ClientTypeOK
<1>5. PICK quiet \in BOOLEAN :
        handler' = [u \in Threads |->
          IF u = t THEN [op |-> "phase", value |-> profile, todo |-> {}, failed |-> FALSE, alone |-> quiet]
          ELSE [handler[u] EXCEPT !.alone = FALSE]]
  BY DEF SetPhase
<1>6. ASSUME NEW u \in Threads
      PROVE  /\ handler'[u] \in Handler
             /\ handler'[u].op = "phase" => handler'[u].value \in Profiles
             /\ handler'[u].op # "start"
  <2>1. CASE u = t
    BY <1>5, <2>1 DEF Handler, Values
  <2>2. CASE u # t
    <3>1. handler'[u] = [handler[u] EXCEPT !.alone = FALSE] /\ handler[u] \in Handler
      BY <1>0, <1>5, <2>2
    <3>2. handler'[u] \in Handler /\ handler'[u].op = handler[u].op /\ handler'[u].value = handler[u].value
      BY <3>1 DEF Handler
    <3>3. mode = "serving"
      BY DEF SetPhase
    <3> QED BY <1>0, <3>2, <3>3 DEF HandlersSound
  <2> QED BY <2>1, <2>2
<1>7. handler' \in [Threads -> Handler]
  BY <1>5, <1>6
<1>8. HandlersSound'
  BY <1>0, <1>6 DEF SetPhase, HandlersSound
<1> QED BY <1>0, <1>2, <1>3, <1>4, <1>7, <1>8, TypeParts
        DEF SetPhase, ClientInv, ClientTypeOK, LateShaped, ControlTypeOK, Handler

LEMMA PhaseStepType ==
  ASSUME TypeInv, NEW t \in Threads, PhaseStep(t)
  PROVE  TypeInv'
<1> DEFINE todo == IF call[t].fn = "list" THEN call[t].seen ELSE handler[t].todo \ {call[t].on}
           failed == handler[t].failed \/ call[t].at = "failed"
<1>0. ClientTypeOK /\ CallsShaped /\ LateShaped /\ ControlTypeOK /\ HandlersSound
      /\ handler \in [Threads -> Handler]
  BY TypeParts DEF ClientInv
<1>1. /\ todo \in SUBSET Devices /\ failed \in BOOLEAN
      /\ handler[t].op = "phase" /\ handler[t].value \in Profiles /\ handler[t] \in Handler
      /\ UNCHANGED <<cache, server, late, faults, lost, kept, mode, attempt>>
  <2>1. call[t] \in CallRecord /\ handler[t] \in Handler /\ handler[t].op = "phase"
    BY <1>0 DEF ClientTypeOK, PhaseStep
  <2> QED BY <1>0, <2>1 DEF CallRecord, Handler, HandlersSound, PhaseStep
<1>2. CASE Return(t) /\ label' \in Profiles /\ settled' \in BOOLEAN
  <2>1. /\ call' \in [Threads -> CallRecord] /\ CallsShaped' /\ asked' \in Nat
        /\ held' \in [Threads -> Token] /\ handler' \in [Threads -> Handler]
    BY <1>2, ReturnType
  <2>2. HandlersSound'
    BY <1>0, <1>1, <1>2, NoHandlerType DEF Return, HandlersSound, Free, None
  <2> QED BY <1>0, <1>1, <1>2, <2>1, <2>2, TypeParts
          DEF ClientInv, ClientTypeOK, LateShaped, ControlTypeOK, Handler
<1>3. CASE /\ \E d \in todo : Enter(t, "switch", d, handler[t].value, held[t])
           /\ handler' = [handler EXCEPT ![t].todo = todo, ![t].failed = failed]
           /\ UNCHANGED <<held, label, settled>>
  <2>1. PICK d \in Devices : Enter(t, "switch", d, handler[t].value, held[t])
    BY <1>1, <1>3
  <2>2. held[t] \in Token
    BY <1>0 DEF ClientTypeOK
  <2>3. call' \in [Threads -> CallRecord] /\ CallsShaped' /\ asked' \in Nat
    BY <1>1, <2>1, <2>2, EnterType DEF Functions, Targets, Values
  <2> DEFINE h == [handler[t] EXCEPT !.todo = todo, !.failed = failed]
  <2>4. handler' = [handler EXCEPT ![t] = h]
    BY <1>0, <1>3
  <2> HIDE DEF todo, failed
  <2>5. h \in Handler /\ h.op = handler[t].op /\ h.value = handler[t].value
    BY <1>1 DEF Handler
  <2> HIDE DEF h
  <2>6. handler' \in [Threads -> Handler] /\ HandlersSound'
    BY <1>0, <1>1, <2>4, <2>5 DEF HandlersSound, Free, None
  <2> QED BY <1>0, <1>1, <1>3, <2>3, <2>6, TypeParts
          DEF ClientInv, ClientTypeOK, LateShaped, ControlTypeOK, Handler
<1>4. \/ Return(t) /\ label' \in Profiles /\ settled' \in BOOLEAN
      \/ /\ \E d \in todo : Enter(t, "switch", d, handler[t].value, held[t])
         /\ handler' = [handler EXCEPT ![t].todo = todo, ![t].failed = failed]
         /\ UNCHANGED <<held, label, settled>>
  <2>1. label \in Profiles /\ handler[t].alone \in BOOLEAN
    BY <1>0, <1>1 DEF ControlTypeOK, Handler
  <2> QED BY <1>1, <2>1 DEF PhaseStep, PhaseReached
<1> QED BY <1>2, <1>3, <1>4

LEMMA RestartType ==
  ASSUME TypeInv, Restart
  PROVE  TypeInv'
<1>0. ClientTypeOK /\ CallsShaped /\ LateShaped /\ ControlTypeOK /\ HandlersSound
  BY TypeParts DEF ClientInv
<1>1. PICK callers \in SUBSET Threads :
        GiveUp(callers) /\ \A t \in callers : InCall(t) /\ call[t].at \in Writes
  BY DEF Restart
<1>2. late' \subseteq Request /\ lost' \subseteq Kinds /\ LateShaped'
  BY <1>1, GiveUpGood DEF LateShaped
<1>3. call' \in [Threads -> CallRecord] /\ CallsShaped' /\ held' \in [Threads -> Token]
  BY NoCallType, TokenTypes DEF Restart, CallsShaped
<1>4. handler' \in [Threads -> Handler] /\ HandlersSound'
  BY NoHandlerType, ControlAssumption DEF Restart, HandlersSound, None
<1>5. faults' \in 0..MaxFaults
  BY <1>0, ChirpStackAssumption DEF Restart, ClientTypeOK
<1>6. ClientTypeOK'
  BY <1>0, <1>2, <1>3, <1>5 DEF Restart, ClientTypeOK
<1>7. ControlTypeOK'
  <2>1. mode' = "starting" /\ attempt' = 0 /\ label' = Adr /\ settled' = FALSE
    BY DEF Restart
  <2>2. attempt' \in 0..MaxAttempts
    BY <2>1, ControlAssumption
  <2>3. label' \in Profiles /\ settled' \in BOOLEAN
    BY <2>1, ChirpStackAssumption
  <2> QED BY <1>4, <2>1, <2>2, <2>3 DEF ControlTypeOK, Handler
<1> QED BY <1>2, <1>3, <1>4, <1>6, <1>7, TypeParts DEF ClientInv

LEMMA NextType == TypeInv /\ [Next]_vars => TypeInv'
<1> SUFFICES ASSUME TypeInv, [Next]_vars PROVE TypeInv'  OBVIOUS
<1>1. CASE ClientNext /\ UNCHANGED <<mode, attempt, handler, label, settled>>
  <2>1. ClientInv'  BY <1>1, ClientNextType
  <2> QED BY <1>1, <2>1, TypeParts DEF ControlTypeOK, HandlersSound, Free
<1>2. CASE Connect \/ LoginFails \/ \E t \in Threads : Provision(t)
  BY <1>2, StartType
<1>3. ASSUME NEW t \in Threads, NEW d \in Devices,
             RegisterDevice(t, d) \/ (\E profile \in Profiles : SwitchDevice(t, d, profile)) \/ EnqueueDownlink(t, d)
      PROVE  TypeInv'
  BY <1>3, RequestsType, ChirpStackAssumption
<1>4. CASE \E t \in Threads : Finish(t)
  BY <1>4, FinishType
<1>5. CASE \E t \in Threads : PhaseStep(t)
  BY <1>5, PhaseStepType
<1>6. CASE \E t \in Threads, profile \in Profiles : SetPhase(t, profile)
  BY <1>6, SetPhaseType
<1>7. CASE Restart
  BY <1>7, RestartType
<1>8. CASE UNCHANGED vars
  BY <1>8, TypeParts
     DEF vars, clientVars, ClientInv, ClientTypeOK, CallsShaped, LateShaped, ControlTypeOK, HandlersSound, Free
<1> QED BY <1>1, <1>2, <1>3, <1>4, <1>5, <1>6, <1>7, <1>8 DEF Next

(* Every variable has its type. *)
THEOREM TypeCorrect == Spec => []TypeOK
<1>1. TypeInv => TypeOK  BY DEF TypeInv
<1> QED BY InitType, NextType, <1>1, PTL DEF Spec

-----------------------------------------------------------------------------
(* Tokens: what holds of every token in use, by induction.                 *)
Explained(token) == (token.good \/ token.excused) /\ (token.early \/ token.excused)

TokensExplained == \A t \in Threads : Explained(held[t]) /\ Explained(call[t].token)

(* Where a token comes from.                                               *)
TokenSources(t) == {NoToken, Fresh, Upset(Fresh), held[t], call[t].token}

TokensStay(t) == held'[t] \in TokenSources(t) /\ call'[t].token \in TokenSources(t)

LEMMA NewTokens ==
  ASSUME NEW token \in Tokens
  PROVE  token \in {NoToken, Fresh, Upset(Fresh)}
BY DEF Tokens, Cached

LEMMA EnterToken ==
  ASSUME NEW t \in Threads, NEW fn, NEW on, NEW value, NEW token, call \in [Threads -> CallRecord],
         Enter(t, fn, on, value, token)
  PROVE  call'[t].token = token /\ \A u \in Threads \ {t} : call'[u] = call[u]
<1> DEFINE new == [NoCall EXCEPT !.fn = fn, !.on = on, !.value = value, !.at = First[fn], !.token = token]
<1>1. call' = [call EXCEPT ![t] = new]  BY DEF Enter
<1>2. new.token = token  BY DEF NoCall
<1> HIDE DEF new
<1> QED BY <1>1, <1>2

LEMMA LeftToken ==
  ASSUME NEW t \in Threads, NEW outcome, NEW seen
  PROVE  Left(t, outcome, seen).token = NoToken
BY DEF Left, NoCall

LEMMA TokenMoves ==
  ASSUME TypeInv, [Next]_vars, NEW t \in Threads
  PROVE  TokensStay(t) \/ (Age /\ ~UNCHANGED <<held, call>>) \/ RetireTokens
<1>0. call \in [Threads -> CallRecord] /\ held \in [Threads -> Token]
  BY DEF TypeInv, TypeOK, ClientTypeOK
<1>1. ASSUME NEW u \in Threads,
             CallAnswered(u) \/ CallFails(u) \/ CallTimesOut(u) \/ CallRejected(u) \/ Renew(u) \/ RenewFails(u)
      PROVE  TokensStay(t)
  <2>1. held' = held
    BY <1>1 DEF CallAnswered, CallFails, CallTimesOut, CallRejected, Renew, RenewFails
  <2>2. CASE u # t
    <3>1. call'[t] = call[t]
      BY <1>0, <1>1, <2>2 DEF CallAnswered, CallFails, CallTimesOut, CallRejected, Renew, RenewFails, Raise
    <3> QED BY <2>1, <3>1 DEF TokensStay, TokenSources
  <2>3. CASE u = t
    <3>1. call[t] \in CallRecord  BY <1>0
    <3>2. CASE CallAnswered(u)
      <4>1. PICK next, seen, name :
              \/ call' = [call EXCEPT ![t] = Left(t, next, seen)]
              \/ call' = [call EXCEPT ![t] = [call[t] EXCEPT !.at = next, !.name = name]]
        BY <2>3, <3>2, Zenon DEF CallAnswered
      <4>2. call'[t] = Left(t, next, seen) \/ call'[t] = [call[t] EXCEPT !.at = next, !.name = name]
        BY <1>0, <4>1
      <4>3. [call[t] EXCEPT !.at = next, !.name = name].token = call[t].token
        BY <3>1 DEF CallRecord
      <4>4. call'[t].token \in {NoToken, call[t].token}
        <5>1. Left(t, next, seen).token = NoToken  BY LeftToken
        <5> QED BY <4>2, <4>3, <5>1
      <4> QED BY <2>1, <4>4 DEF TokensStay, TokenSources
    <3>3. CASE CallFails(u) \/ CallTimesOut(u) \/ RenewFails(u)
      <4>1. call'[t] = Left(t, "failed", {})
        BY <1>0, <2>3, <3>3 DEF CallFails, CallTimesOut, RenewFails, Raise
      <4> QED BY <2>1, <4>1, LeftToken DEF TokensStay, TokenSources
    <3>4. CASE CallRejected(u)
      <4>1. call'[t] = [call[t] EXCEPT !.at = "renew"]
        BY <1>0, <2>3, <3>4 DEF CallRejected
      <4> QED BY <2>1, <3>1, <4>1 DEF TokensStay, TokenSources, CallRecord
    <3>5. CASE Renew(u)
      <4>1. call'[t] = [call[t] EXCEPT !.at = First[call[t].fn], !.token = Fresh, !.retried = TRUE]
        BY <1>0, <2>3, <3>5 DEF Renew
      <4> QED BY <2>1, <3>1, <4>1 DEF TokensStay, TokenSources, CallRecord
    <3> QED BY <1>1, <3>2, <3>3, <3>4, <3>5
  <2> QED BY <2>2, <2>3
<1>2. ASSUME UNCHANGED <<held, call>>  PROVE TokensStay(t)
  BY <1>2 DEF TokensStay, TokenSources
<1>3. CASE TakeEffectLate \/ LoginFails \/ UNCHANGED vars \/ \E d \in Devices : EditInChirpStack(d)
  BY <1>2, <1>3 DEF TakeEffectLate, LoginFails, EditInChirpStack, vars, clientVars
<1>4. ASSUME NEW u \in Threads, NEW fn, NEW on, NEW value, NEW token \in Tokens \cup {held[u]},
             Enter(u, fn, on, value, token), held' \in {held, [held EXCEPT ![u] = token]}
      PROVE  TokensStay(t)
  <2>1. call'[u].token = token /\ \A v \in Threads \ {u} : call'[v] = call[v]
    BY <1>0, <1>4, EnterToken
  <2>2. token \in TokenSources(u)
    BY <1>4, NewTokens DEF TokenSources
  <2> QED BY <1>0, <1>4, <2>1, <2>2 DEF TokensStay, TokenSources
<1>5. ASSUME NEW u \in Threads, Return(u)  PROVE TokensStay(t)
  <2>1. NoCall.token = NoToken  BY DEF NoCall
  <2> QED BY <1>0, <1>5, <2>1 DEF Return, TokensStay, TokenSources
<1>6. CASE Connect
  BY <1>4, <1>6 DEF Connect
<1>7. CASE \E u \in Threads : Provision(u)
  BY <1>4, <1>5, <1>7 DEF Provision, Then
<1>8. ASSUME NEW u \in Threads, NEW d \in Devices, NEW profile \in Profiles,
             RegisterDevice(u, d) \/ SwitchDevice(u, d, profile) \/ EnqueueDownlink(u, d)
      PROVE  TokensStay(t)
  <2>1. PICK fn, value : Ask(u, fn, d, value)
    BY <1>8 DEF RegisterDevice, SwitchDevice, EnqueueDownlink
  <2> QED BY <1>4, <2>1 DEF Ask
<1>9. CASE \E u \in Threads, profile \in Profiles : SetPhase(u, profile)
  BY <1>4, <1>9 DEF SetPhase
<1>10. CASE \E u \in Threads : PhaseStep(u)
  BY <1>4, <1>5, <1>10 DEF PhaseStep
<1>11. CASE \E u \in Threads : Finish(u)
  BY <1>5, <1>11 DEF Finish
<1>12. CASE Restart
  <2>1. NoCall.token = NoToken  BY DEF NoCall
  <2> QED BY <1>12, <2>1 DEF Restart, TokensStay, TokenSources
<1>13. CASE Age
  BY <1>2, <1>13
<1> QED BY <1>1, <1>3, <1>6, <1>7, <1>8, <1>9, <1>10, <1>11, <1>12, <1>13, ChirpStackAssumption DEF Next, ClientNext

LEMMA NotedTokens ==
  ASSUME NEW f \in [Token -> Token], NoteTokens(f), NEW t \in Threads,
         held[t] \in Token, call[t] \in CallRecord
  PROVE  held'[t] = f[held[t]] /\ call'[t].token = f[call[t].token]
BY DEF NoteTokens, CallRecord

LEMMA ExplainedInit == Init => TokensExplained
BY DEF Init, ClientInit, TokensExplained, Explained, NoToken, NoCall

LEMMA ExplainedNext == TypeInv /\ TokensExplained /\ [Next]_vars => TokensExplained'
<1> SUFFICES ASSUME TypeInv, TokensExplained, [Next]_vars, NEW t \in Threads
             PROVE  Explained(held'[t]) /\ Explained(call'[t].token)
  BY DEF TokensExplained
<1>0. Explained(held[t]) /\ Explained(call[t].token)
  BY DEF TokensExplained
<1>1. Explained(NoToken) /\ Explained(Fresh) /\ Explained(Upset(Fresh))
  BY DEF Explained, NoToken, Fresh, Upset
<1>2. CASE TokensStay(t)
  BY <1>0, <1>1, <1>2 DEF TokensStay, TokenSources
<1>3. held[t] \in Token /\ call[t] \in CallRecord /\ call[t].token \in Token
  BY DEF TypeInv, TypeOK, ClientTypeOK, CallRecord
<1>4. CASE Age /\ ~UNCHANGED <<held, call>>
  <2> DEFINE f == [token \in Token |-> [token EXCEPT !.good = FALSE]]
  <2>1. NoteTokens(f) /\ ~held[t].early /\ ~call[t].token.early
    BY <1>4 DEF Age
  <2>2. f \in [Token -> Token]  BY TokenTypes
  <2>3. \A token \in Token : Explained(token) /\ ~token.early => Explained(f[token])
    BY DEF Explained, Token
  <2> HIDE DEF f
  <2>4. held'[t] = f[held[t]] /\ call'[t].token = f[call[t].token]
    BY <1>3, <2>1, <2>2, NotedTokens
  <2> QED BY <1>0, <1>3, <2>1, <2>3, <2>4
<1>5. CASE RetireTokens
  <2> DEFINE f == [token \in Token |-> Upset(token)]
  <2>1. NoteTokens(f)
    BY <1>5 DEF RetireTokens
  <2>2. f \in [Token -> Token]  BY TokenTypes
  <2>3. \A token \in Token : Explained(f[token])
    BY DEF Explained, Token, Upset
  <2> HIDE DEF f
  <2>4. held'[t] = f[held[t]] /\ call'[t].token = f[call[t].token]
    BY <1>3, <2>1, <2>2, NotedTokens
  <2> QED BY <1>3, <2>3, <2>4
<1> QED BY <1>2, <1>4, <1>5, TokenMoves

(* A token that is rejected had more than the margin left when it was      *)
(* handed out, and the clock jumped or ChirpStack retired it since.        *)
THEOREM RejectionsExplained == Spec => []RejectionsAreExplained
<1>1. TokensExplained => RejectionsAreExplained
  BY DEF TokensExplained, Explained, RejectionsAreExplained
<1> QED BY InitType, NextType, ExplainedInit, ExplainedNext, <1>1, PTL DEF Spec

-----------------------------------------------------------------------------
(* What a step does to the call of one thread.                             *)
Same(c, d) == /\ c.fn = d.fn /\ c.on = d.on /\ c.value = d.value
              /\ c.name = d.name /\ c.seen = d.seen /\ c.at = d.at

Abandoned(t) == Running(call[t]) /\ call'[t] = Left(t, "failed", {})

Resumed(t) ==
  /\ Running(call[t]) /\ call'[t].at \in {"renew", "List", "Get", "Enqueue"}
  /\ call'[t].fn = call[t].fn /\ call'[t].on = call[t].on
  /\ call'[t].value = call[t].value /\ call'[t].name = call[t].name

Entered(t) == \E fn \in Functions, on \in Targets, value \in Values, token \in Token :
                Enter(t, fn, on, value, token)

LEMMA LeftFields ==
  ASSUME NEW t \in Threads, NEW outcome, NEW seen
  PROVE  LET c == Left(t, outcome, seen) IN
         c.fn = call[t].fn /\ c.on = call[t].on /\ c.at = outcome /\ c.seen = seen
BY DEF Left, NoCall

LEMMA EnterFields ==
  ASSUME NEW t \in Threads, NEW fn, NEW on, NEW value, NEW token, call \in [Threads -> CallRecord],
         Enter(t, fn, on, value, token)
  PROVE  /\ call'[t].fn = fn /\ call'[t].on = on /\ call'[t].value = value /\ call'[t].at = First[fn]
         /\ \A u \in Threads \ {t} : call'[u] = call[u]
<1> DEFINE new == [NoCall EXCEPT !.fn = fn, !.on = on, !.value = value, !.at = First[fn], !.token = token]
<1>1. call' = [call EXCEPT ![t] = new]  BY DEF Enter
<1>2. new.fn = fn /\ new.on = on /\ new.value = value /\ new.at = First[fn]  BY DEF NoCall
<1> HIDE DEF new
<1> QED BY <1>1, <1>2

LEMMA NotedCalls ==
  ASSUME TypeInv, NEW f, NoteTokens(f), NEW t \in Threads
  PROVE  Same(call[t], call'[t])
<1>1. call[t] \in CallRecord  BY DEF TypeInv, TypeOK, ClientTypeOK
<1>2. call'[t] = [call[t] EXCEPT !.token = f[call[t].token]]  BY DEF NoteTokens
<1> QED BY <1>1, <1>2 DEF Same, CallRecord

LEMMA AnsweredFields ==
  ASSUME TypeInv, NEW t \in Threads, CallAnswered(t)
  PROVE  LET next == NextCall(call[t].fn, call[t].at, Answer(RequestOf(t), server)) IN
         /\ call'[t].at = next /\ call'[t].fn = call[t].fn /\ call'[t].on = call[t].on
         /\ next \in {"done", "failed"} =>
              call'[t].seen = IF call[t].fn = "list" THEN Registered ELSE {}
         /\ next \notin {"done", "failed"} =>
              /\ call'[t].value = call[t].value
              /\ call'[t].name = IF next = "Update" THEN ReadName(t) ELSE call[t].name
         /\ server' = Done(RequestOf(t), server)
         /\ \A u \in Threads \ {t} : call'[u] = call[u]
<1> DEFINE next == NextCall(call[t].fn, call[t].at, Answer(RequestOf(t), server))
           seen == IF call[t].fn = "list" THEN Registered ELSE {}
           name == IF next = "Update" THEN ReadName(t) ELSE call[t].name
<1>1. call \in [Threads -> CallRecord] /\ call[t] \in CallRecord
  BY DEF TypeInv, TypeOK, ClientTypeOK
<1>2. server' = Done(RequestOf(t), server)
  BY DEF CallAnswered
<1>3. call' = [call EXCEPT ![t] = IF next \in {"done", "failed"} THEN Left(t, next, seen)
                                  ELSE [call[t] EXCEPT !.at = next, !.name = name]]
  BY DEF CallAnswered
<1> HIDE DEF next
<1>4. [call[t] EXCEPT !.at = next, !.name = name].at = next
      /\ [call[t] EXCEPT !.at = next, !.name = name].fn = call[t].fn
      /\ [call[t] EXCEPT !.at = next, !.name = name].on = call[t].on
      /\ [call[t] EXCEPT !.at = next, !.name = name].value = call[t].value
      /\ [call[t] EXCEPT !.at = next, !.name = name].name = name
  BY <1>1 DEF CallRecord
<1> HIDE DEF seen, name
<1>5. CASE next \in {"done", "failed"}
  <2>1. call'[t] = Left(t, next, seen) /\ \A u \in Threads \ {t} : call'[u] = call[u]
    BY <1>1, <1>3, <1>5
  <2>2. call'[t].at = next /\ call'[t].fn = call[t].fn /\ call'[t].on = call[t].on /\ call'[t].seen = seen
    BY <2>1, LeftFields
  <2> QED BY <1>2, <1>5, <2>1, <2>2 DEF next, seen
<1>6. CASE next \notin {"done", "failed"}
  <2>1. call'[t] = [call[t] EXCEPT !.at = next, !.name = name] /\ \A u \in Threads \ {t} : call'[u] = call[u]
    BY <1>1, <1>3, <1>6
  <2> QED BY <1>2, <1>4, <1>6, <2>1 DEF next, name
<1> QED BY <1>5, <1>6

LEMMA CallMoves ==
  ASSUME TypeInv, [Next]_vars, NEW t \in Threads
  PROVE  \/ Same(call[t], call'[t]) \/ call'[t] = NoCall \/ Abandoned(t)
         \/ CallAnswered(t) \/ Resumed(t) \/ Entered(t)
<1>0. call \in [Threads -> CallRecord] /\ held \in [Threads -> Token] /\ call[t] \in CallRecord
  BY DEF TypeInv, TypeOK, ClientTypeOK
<1>1. ASSUME call'[t] = call[t]  PROVE Same(call[t], call'[t])
  BY <1>1 DEF Same
<1>2. ASSUME NEW u \in Threads,
             CallAnswered(u) \/ CallFails(u) \/ CallTimesOut(u) \/ CallRejected(u) \/ Renew(u) \/ RenewFails(u)
      PROVE  Same(call[t], call'[t]) \/ Abandoned(t) \/ CallAnswered(t) \/ Resumed(t)
  <2>1. CASE u # t
    <3>1. call'[t] = call[t]
      BY <1>0, <1>2, <2>1 DEF CallAnswered, CallFails, CallTimesOut, CallRejected, Renew, RenewFails, Raise
    <3> QED BY <3>1, <1>1
  <2>2. CASE u = t
    <3>1. CASE CallFails(u) \/ CallTimesOut(u) \/ RenewFails(u)
      BY <1>0, <2>2, <3>1 DEF CallFails, CallTimesOut, RenewFails, Raise, Abandoned, Running, InCall
    <3>2. CASE CallRejected(u)
      <4>1. call'[t] = [call[t] EXCEPT !.at = "renew"] /\ Running(call[t])
        BY <1>0, <2>2, <3>2 DEF CallRejected, InCall, Running
      <4> QED BY <1>0, <4>1 DEF Resumed, CallRecord
    <3>3. CASE Renew(u)
      <4> DEFINE first == First[call[t].fn]
      <4>1. call'[t] = [call[t] EXCEPT !.at = first, !.token = Fresh, !.retried = TRUE] /\ Running(call[t])
        BY <1>0, <2>2, <3>3 DEF Renew, Running
      <4>2. first \in {"List", "Get", "Enqueue"}
        <5>1. call[t].fn \in Functions
          BY <1>0, <4>1 DEF TypeInv, Shapes, CallsShaped, Shape, CallRecord
        <5> QED BY <5>1 DEF First, Functions
      <4> HIDE DEF first
      <4> QED BY <1>0, <4>1, <4>2 DEF Resumed, CallRecord
    <3> QED BY <1>2, <2>2, <3>1, <3>2, <3>3
  <2> QED BY <2>1, <2>2
<1>3. CASE TakeEffectLate \/ LoginFails \/ UNCHANGED vars \/ \E d \in Devices : EditInChirpStack(d)
  BY <1>1, <1>3 DEF TakeEffectLate, LoginFails, EditInChirpStack, vars, clientVars
<1>4. CASE Age \/ RetireTokens
  BY <1>1, <1>4, NotedCalls DEF Age, RetireTokens
<1>5. ASSUME NEW u \in Threads, NEW fn \in Functions, NEW on \in Targets, NEW value \in Values, NEW token \in Token,
             Enter(u, fn, on, value, token)
      PROVE  Same(call[t], call'[t]) \/ Entered(t)
  BY <1>0, <1>1, <1>5, EnterFields DEF Entered
<1>6. ASSUME NEW u \in Threads, Return(u)
      PROVE  Same(call[t], call'[t]) \/ call'[t] = NoCall
  BY <1>0, <1>1, <1>6 DEF Return
<1> USE DEF Functions, Targets, Kinds, Values
<1>7. CASE Connect
  BY <1>5, <1>7, TokenTypes DEF Connect
<1>8. CASE \E u \in Threads : Provision(u)
  <2>1. PICK u \in Threads : Return(u) \/ Then(u, "application") \/ Then(u, "profiles")
    BY <1>8 DEF Provision
  <2> QED BY <1>0, <1>5, <1>6, <2>1 DEF Then
<1>9. ASSUME NEW u \in Threads, NEW d \in Devices, NEW profile \in Profiles,
             RegisterDevice(u, d) \/ SwitchDevice(u, d, profile) \/ EnqueueDownlink(u, d)
      PROVE  Same(call[t], call'[t]) \/ Entered(t)
  <2>1. PICK fn \in Functions, value \in Values : Ask(u, fn, d, value)
    BY <1>9 DEF RegisterDevice, SwitchDevice, EnqueueDownlink
  <2> QED BY <1>5, <2>1, TokenTypes DEF Ask
<1>10. CASE \E u \in Threads, profile \in Profiles : SetPhase(u, profile)
  BY <1>5, <1>10, TokenTypes DEF SetPhase
<1>11. CASE \E u \in Threads : PhaseStep(u)
  <2>1. PICK u \in Threads : PhaseStep(u)
    BY <1>11
  <2>2. handler[u].value \in Values /\ handler[u].todo \subseteq Devices /\ call[u].seen \subseteq Devices
        /\ held[u] \in Token
    BY <1>0 DEF TypeInv, TypeOK, ControlTypeOK, CallRecord
  <2>3. CASE Return(u)
    BY <1>6, <2>3
  <2>4. CASE \E d \in Devices : Enter(u, "switch", d, handler[u].value, held[u])
    BY <1>5, <2>2, <2>4
  <2> QED BY <2>1, <2>2, <2>3, <2>4 DEF PhaseStep
<1>12. CASE \E u \in Threads : Finish(u)
  BY <1>6, <1>12 DEF Finish
<1>13. CASE Restart
  BY <1>13 DEF Restart
<1> QED BY <1>2, <1>3, <1>4, <1>7, <1>8, <1>9, <1>10, <1>11, <1>12, <1>13, ChirpStackAssumption DEF Next, ClientNext

-----------------------------------------------------------------------------
(* What a request does to a device, a kind and the queue.                  *)
LEMMA DoneDevice ==
  ASSUME NEW r \in Request, r.call \in Writes => RequestShape(r), NEW s \in Server, NEW d \in Devices
  PROVE  LET old == s.device[d]  new == Done(r, s).device[d] IN
         /\ old.exists => new.exists
         /\ r.call = "Update" /\ r.on = d /\ Answer(r, s) = "ok" =>
              new.exists = old.exists /\ new.profile = r.value /\ new.name = r.name
         /\ r.call = "Create" /\ r.on = d /\ ~old.exists =>
              new.profile = Adr /\ new.name = "ours"
         /\ ~(r.call = "Update" /\ r.on = d /\ Answer(r, s) = "ok") /\ ~(r.call = "Create" /\ r.on = d /\ ~old.exists) =>
              new.exists = old.exists /\ new.profile = old.profile /\ new.name = old.name
<1> DEFINE old == s.device[d]  new == Done(r, s).device[d]
<1>0. s.device \in [Devices -> Device] /\ s = [device |-> s.device, objects |-> s.objects, queued |-> s.queued]
      /\ old \in Device /\ d \notin Kinds
  BY DevicesAreNoKinds DEF Server
<1>1. CASE Answer(r, s) # "ok"
  <2>1. new = old  BY <1>1 DEF Done
  <2>2. r.call = "Create" /\ r.on = d => old.exists
    BY <1>0, <1>1 DEF Answer
  <2> QED BY <1>1, <2>1, <2>2
<1>2. CASE Answer(r, s) = "ok" /\ (r.call \notin Writes \/ (r.call = "Create" /\ r.on \in Kinds) \/ r.call = "Enqueue")
  <2>1. Effect(r, s).device = s.device
    BY <1>0, <1>2 DEF Effect, Writes
  <2> QED BY <1>0, <1>2, <2>1 DEF Done, Writes
<1>3. CASE Answer(r, s) = "ok" /\ r.call = "Create" /\ r.on \notin Kinds
  <2> DEFINE made == [exists |-> TRUE, profile |-> Adr, keys |-> FALSE, name |-> "ours"]
  <2>1. Done(r, s).device = [s.device EXCEPT ![r.on] = made]
    BY <1>0, <1>3 DEF Done, Effect
  <2>2. r.on = d => ~old.exists
    BY <1>3 DEF Answer
  <2>3. made.exists = TRUE /\ made.profile = Adr /\ made.name = "ours"
    OBVIOUS
  <2> HIDE DEF made
  <2>4. new = IF r.on = d THEN made ELSE old
    BY <1>0, <2>1
  <2> QED BY <1>3, <2>2, <2>3, <2>4
<1>4. CASE Answer(r, s) = "ok" /\ r.call \in {"CreateKeys", "UpdateKeys"}
  <2> DEFINE made == [s.device[r.on] EXCEPT !.keys = TRUE]
  <2>1. Done(r, s).device = [s.device EXCEPT ![r.on] = made]
    BY <1>0, <1>4 DEF Done, Effect
  <2>2. r.on = d => made.exists = old.exists /\ made.profile = old.profile /\ made.name = old.name
    BY <1>0 DEF Device
  <2> HIDE DEF made
  <2>3. new = IF r.on = d THEN made ELSE old
    BY <1>0, <2>1
  <2> QED BY <1>4, <2>2, <2>3
<1>5. CASE Answer(r, s) = "ok" /\ r.call = "Update"
  <2> DEFINE made == [s.device[r.on] EXCEPT !.profile = r.value, !.name = r.name]
  <2>0. r.on \in Devices  BY <1>5 DEF RequestShape, Writes
  <2>1. Done(r, s).device = [s.device EXCEPT ![r.on] = made]
    BY <1>0, <1>5, <2>0 DEF Done, Effect
  <2>2. r.on = d => made.exists = old.exists /\ made.profile = r.value /\ made.name = r.name
    BY <1>0 DEF Device
  <2> HIDE DEF made
  <2>3. new = IF r.on = d THEN made ELSE old
    BY <1>0, <2>1
  <2> QED BY <1>5, <2>2, <2>3
<1> QED BY <1>1, <1>2, <1>3, <1>4, <1>5 DEF Writes

LEMMA DoneRest ==
  ASSUME NEW r \in Request, r.call \in Writes => RequestShape(r), NEW s \in Server
  PROVE  /\ Done(r, s).objects = IF r.call = "Create" /\ r.on \in Kinds
                                 THEN [s.objects EXCEPT ![r.on] = @ + 1] ELSE s.objects
         /\ Done(r, s).queued \in {s.queued, IF r.call = "Enqueue" THEN s.queued + 1 ELSE s.queued}
<1>0. s = [device |-> s.device, objects |-> s.objects, queued |-> s.queued]
  BY DEF Server
<1>1. CASE r.call = "Create" /\ r.on \in Kinds
  BY <1>0, <1>1 DEF Done, Answer, Effect
<1>2. CASE ~(r.call = "Create" /\ r.on \in Kinds) /\ r.call # "Enqueue"
  <2>1. Effect(r, s).objects = s.objects /\ Effect(r, s).queued = s.queued
    <3>1. CASE r.call = "Create"  BY <1>0, <1>2, <3>1 DEF Effect
    <3>2. CASE r.call \in {"CreateKeys", "UpdateKeys"}  BY <1>0, <3>2 DEF Effect
    <3>3. CASE r.call = "Update"  BY <1>0, <3>3 DEF Effect
    <3>4. CASE r.call \notin Writes  BY <1>0, <3>4 DEF Effect, Writes
    <3> QED BY <1>2, <3>1, <3>2, <3>3, <3>4 DEF Writes
  <2> QED BY <1>2, <2>1 DEF Done
<1>3. CASE r.call = "Enqueue"
  BY <1>0, <1>3 DEF Done, Effect
<1> QED BY <1>1, <1>2, <1>3

(* What a step does to the handler of one thread.                          *)
Disturbed(h) == [h EXCEPT !.alone = FALSE]

Proceeds(t) == /\ call'[t].fn = call[t].fn
               /\ Running(call'[t]) =>
                    Running(call[t]) /\ call'[t].on = call[t].on /\ call'[t].value = call[t].value
               /\ handler'[t] \in {handler[t], Disturbed(handler[t])}
Ends(t)     == call'[t] = NoCall /\ handler'[t] = NoHandler
Starts(t)   == \E token \in Token, kind \in Kinds :
                 /\ Enter(t, "provision", kind, None, token)
                 /\ handler'[t].op = "start" /\ mode = "starting"
Asks(t)     == \E fn \in {"register", "switch", "enqueue"}, d \in Devices, value \in Values :
                 Ask(t, fn, d, value) /\ (fn = "switch" => value \in Profiles)
Phases(t)   == \E profile \in Profiles : SetPhase(t, profile)
Switches(t) == PhaseStep(t) /\ call'[t].fn = "switch"

LEMMA ThreadMoves ==
  ASSUME TypeInv, [Next]_vars, NEW t \in Threads
  PROVE  Proceeds(t) \/ Ends(t) \/ Starts(t) \/ Asks(t) \/ Phases(t) \/ Switches(t)
<1>0. call \in [Threads -> CallRecord] /\ handler \in [Threads -> Handler] /\ held \in [Threads -> Token]
  BY TypeParts DEF TypeInv, TypeOK, ClientTypeOK
<1>1. ASSUME NEW u \in Threads,
             CallAnswered(u) \/ CallFails(u) \/ CallTimesOut(u) \/ CallRejected(u) \/ Renew(u) \/ RenewFails(u),
             UNCHANGED handler
      PROVE  Proceeds(t)
  <2>1. CASE u # t
    <3>1. call'[t] = call[t]
      BY <1>0, <1>1, <2>1 DEF CallAnswered, CallFails, CallTimesOut, CallRejected, Renew, RenewFails, Raise
    <3> QED BY <1>1, <3>1 DEF Proceeds
  <2>2. CASE u = t
    <3>1. CASE CallFails(u) \/ CallTimesOut(u) \/ RenewFails(u)
      <4>1. call'[t] = Left(t, "failed", {})
        BY <1>0, <2>2, <3>1 DEF CallFails, CallTimesOut, RenewFails, Raise
      <4> QED BY <1>1, <4>1, LeftFields DEF Proceeds, Running, Calls
    <3>2. CASE CallRejected(u) \/ Renew(u)
      <4>1. \/ call'[t] = [call[t] EXCEPT !.at = "renew"]
            \/ call'[t] = [call[t] EXCEPT !.at = First[call[t].fn], !.token = Fresh, !.retried = TRUE]
        BY <1>0, <2>2, <3>2 DEF CallRejected, Renew
      <4>2. call'[t].fn = call[t].fn /\ call'[t].on = call[t].on /\ call'[t].value = call[t].value
        BY <1>0, <4>1 DEF CallRecord
      <4>3. Running(call[t])
        BY <2>2, <3>2 DEF CallRejected, Renew, InCall, Running
      <4> QED BY <1>1, <4>2, <4>3 DEF Proceeds
    <3>3. CASE CallAnswered(u)
      <4>1. Running(call[t])
        BY <2>2, <3>3 DEF CallAnswered, InCall, Running
      <4> QED BY <1>1, <2>2, <3>3, <4>1, AnsweredFields DEF Proceeds, Running, Calls
    <3> QED BY <1>1, <2>2, <3>1, <3>2, <3>3
  <2> QED BY <2>1, <2>2
<1>2. CASE (TakeEffectLate /\ UNCHANGED handler) \/ LoginFails \/ UNCHANGED vars
           \/ ((\E d \in Devices : EditInChirpStack(d)) /\ UNCHANGED handler)
  <2>1. UNCHANGED <<call, handler>>
    BY <1>2 DEF TakeEffectLate, LoginFails, EditInChirpStack, vars, clientVars
  <2> QED BY <2>1 DEF Proceeds
<1>3. CASE (Age \/ RetireTokens) /\ UNCHANGED handler
  <2>1. call' = call \/ Same(call[t], call'[t])
    BY <1>3, NotedCalls DEF Age, RetireTokens
  <2> QED BY <1>3, <2>1 DEF Same, Proceeds, Running
<1>4. CASE Connect
  <2>1. PICK u \in Threads, token \in Tokens :
          /\ handler' = [handler EXCEPT ![u].op = "start"] /\ mode = "starting"
          /\ Enter(u, "provision", "tenant", None, token)
    BY <1>4 DEF Connect
  <2>2. CASE u = t
    <3>1. handler'[t].op = "start"
      BY <1>0, <2>1, <2>2 DEF Handler
    <3>2. token \in Token /\ "tenant" \in Kinds
      BY TokenTypes DEF Kinds
    <3> QED BY <2>1, <2>2, <3>1, <3>2 DEF Starts
  <2>3. CASE u # t
    BY <1>0, <2>1, <2>3, EnterFields DEF Proceeds
  <2> QED BY <2>2, <2>3
<1>5. CASE \E u \in Threads : Provision(u)
  <2>1. PICK u \in Threads :
          /\ handler[u].op = "start"
          /\ Return(u) \/ Then(u, "application") \/ Then(u, "profiles")
    BY <1>5 DEF Provision
  <2>2. mode = "starting"
    BY <2>1 DEF TypeInv, Shapes, HandlersSound
  <2>3. CASE Return(u)
    BY <1>0, <2>3 DEF Return, Proceeds, Ends
  <2>4. CASE Then(u, "application") \/ Then(u, "profiles")
    <3>1. PICK kind \in Kinds : Enter(u, "provision", kind, None, held[u]) /\ UNCHANGED handler
      BY <2>4 DEF Then, Kinds
    <3>2. CASE u = t
      BY <1>0, <2>1, <2>2, <3>1, <3>2 DEF Starts
    <3>3. CASE u # t
      BY <1>0, <3>1, <3>3, EnterFields DEF Proceeds
    <3> QED BY <3>2, <3>3
  <2> QED BY <2>1, <2>3, <2>4
<1>6. ASSUME NEW u \in Threads, NEW d \in Devices, NEW profile \in Profiles,
             RegisterDevice(u, d) \/ SwitchDevice(u, d, profile) \/ EnqueueDownlink(u, d)
      PROVE  Proceeds(t) \/ Asks(t)
  <2>1. PICK fn \in {"register", "switch", "enqueue"}, value \in Values :
          Ask(u, fn, d, value) /\ (fn = "switch" => value \in Profiles)
    BY <1>6 DEF RegisterDevice, SwitchDevice, EnqueueDownlink, Values
  <2>2. CASE u = t
    BY <2>1, <2>2 DEF Asks
  <2>3. CASE u # t
    <3> DEFINE h2 == [handler EXCEPT ![u] = [NoHandler EXCEPT !.op = "single"]]
    <3>1. handler' = Disturbance(fn, d, h2)
      BY <2>1 DEF Ask
    <3>2. h2[t] = handler[t]
      BY <1>0, <2>3
    <3> HIDE DEF h2
    <3>3. handler'[t] \in {handler[t], Disturbed(handler[t])}
      BY <3>1, <3>2 DEF Disturbance, Disturbed
    <3>4. call'[t] = call[t]
      BY <1>0, <2>1, <2>3, EnterFields DEF Ask
    <3> QED BY <3>3, <3>4 DEF Proceeds
  <2> QED BY <2>2, <2>3
<1>7. ASSUME NEW u \in Threads, NEW profile \in Profiles, SetPhase(u, profile)
      PROVE  Proceeds(t) \/ Phases(t)
  <2>1. CASE u = t
    BY <1>7, <2>1 DEF Phases
  <2>2. CASE u # t
    <3>1. handler'[t] = Disturbed(handler[t])
      BY <1>7, <2>2 DEF SetPhase, Disturbed
    <3>2. call'[t] = call[t]
      BY <1>0, <1>7, <2>2, EnterFields DEF SetPhase
    <3> QED BY <3>1, <3>2 DEF Proceeds
  <2> QED BY <2>1, <2>2
<1>8. ASSUME NEW u \in Threads, PhaseStep(u)
      PROVE  Proceeds(t) \/ Ends(t) \/ Switches(t)
  <2>1. CASE Return(u)
    BY <1>0, <2>1 DEF Return, Proceeds, Ends
  <2>2. CASE ~Return(u)
    <3> DEFINE todo == IF call[u].fn = "list" THEN call[u].seen ELSE handler[u].todo \ {call[u].on}
               failed == handler[u].failed \/ call[u].at = "failed"
    <3>1. /\ \E d \in todo : Enter(u, "switch", d, handler[u].value, held[u])
          /\ handler' = [handler EXCEPT ![u].todo = todo, ![u].failed = failed]
      BY <1>8, <2>2 DEF PhaseStep
    <3> HIDE DEF todo, failed
    <3>2. call'[u].fn = "switch" /\ \A v \in Threads \ {u} : call'[v] = call[v] /\ handler'[v] = handler[v]
      BY <1>0, <3>1, EnterFields
    <3> QED BY <1>8, <3>2 DEF Switches, Proceeds
  <2> QED BY <2>1, <2>2
<1>9. CASE \E u \in Threads : Finish(u)
  BY <1>0, <1>9 DEF Finish, Return, Proceeds, Ends
<1>10. CASE Restart
  BY <1>10 DEF Restart, Ends
<1>11. CASE ClientNext /\ UNCHANGED <<mode, attempt, handler, label, settled>>
  BY <1>1, <1>2, <1>3, <1>11 DEF ClientNext
<1> QED BY <1>2, <1>4, <1>5, <1>6, <1>7, <1>8, <1>9, <1>10, <1>11, ChirpStackAssumption DEF Next

(* Requests that are left behind come from calls that are given up.        *)
LeftBehind(r) == \E t \in Threads : /\ InCall(t) /\ call[t].at \in Writes /\ r = RequestOf(t)
                                    /\ call'[t].at \in {"done", "failed"}
                                    /\ handler'[t].op # None => call'[t].at = "failed"
                                    /\ r.call = "Create" /\ r.on \in Kinds => r.on \in lost'

LEMMA ServerMoves ==
  ASSUME TypeInv, [Next]_vars
  PROVE  /\ \/ UNCHANGED server
            \/ \E t \in Threads : CallAnswered(t)
            \/ TakeEffectLate
            \/ \E d \in Devices : EditInChirpStack(d)
         /\ \/ UNCHANGED kept
            \/ \E d \in Devices : EditInChirpStack(d)
         /\ lost \subseteq lost'
         /\ \A r \in late' \ late : LeftBehind(r)
<1>1. ASSUME NEW t \in Threads,
             CallAnswered(t) \/ CallFails(t) \/ CallRejected(t) \/ Renew(t) \/ RenewFails(t)
      PROVE  late' = late /\ kept' = kept /\ lost' = lost /\ (server' = server \/ CallAnswered(t))
  BY <1>1 DEF CallAnswered, CallFails, CallRejected, Renew, RenewFails
<1>2. ASSUME NEW t \in Threads, CallTimesOut(t), UNCHANGED handler
      PROVE  /\ server' = server /\ kept' = kept /\ lost \subseteq lost'
             /\ \A r \in late' \ late : LeftBehind(r)
  <2>1. call'[t] = Left(t, "failed", {})
    BY <1>2 DEF CallTimesOut, Raise, TypeInv, TypeOK, ClientTypeOK
  <2>2. call'[t].at = "failed"
    BY <2>1, LeftFields
  <2> QED BY <1>2, <2>2 DEF CallTimesOut, GiveUp, LeftBehind, RequestOf
<1>3. CASE TakeEffectLate \/ Age \/ RetireTokens \/ (\E d \in Devices : EditInChirpStack(d)) \/ UNCHANGED vars
  BY <1>3 DEF TakeEffectLate, Age, RetireTokens, EditInChirpStack, vars, clientVars
<1>4. CASE Restart
  <2>1. server' = server /\ kept' = kept /\ lost \subseteq lost'
    BY <1>4 DEF Restart, GiveUp
  <2>2. ASSUME NEW r \in late' \ late PROVE LeftBehind(r)
    <3>1. PICK t \in Threads : InCall(t) /\ call[t].at \in Writes /\ r = RequestOf(t)
                               /\ (call[t].at = "Create" /\ call[t].on \in Kinds => call[t].on \in lost')
      BY <1>4, <2>2 DEF Restart, GiveUp
    <3>2. call'[t].at = "done" /\ handler'[t].op = None
      BY <1>4 DEF Restart, NoCall, NoHandler
    <3> QED BY <3>1, <3>2 DEF LeftBehind, RequestOf
  <2> QED BY <2>1, <2>2
<1>5. CASE Connect \/ LoginFails \/ \E t \in Threads : Provision(t) \/ Finish(t) \/ PhaseStep(t)
  BY <1>5 DEF Connect, LoginFails, Provision, Finish, PhaseStep, clientVars
<1>6. CASE \E t \in Threads, profile \in Profiles : SetPhase(t, profile)
  BY <1>6 DEF SetPhase
<1>7. ASSUME NEW t \in Threads, NEW d \in Devices, NEW profile \in Profiles,
             RegisterDevice(t, d) \/ SwitchDevice(t, d, profile) \/ EnqueueDownlink(t, d)
      PROVE  UNCHANGED <<server, late, kept, lost>>
  BY <1>7 DEF RegisterDevice, SwitchDevice, EnqueueDownlink, Ask
<1>8. CASE \E t \in Threads, d \in Devices :
             RegisterDevice(t, d) \/ EnqueueDownlink(t, d) \/ \E profile \in Profiles : SwitchDevice(t, d, profile)
  BY <1>7, <1>8, ChirpStackAssumption
<1>9. CASE ClientNext /\ UNCHANGED <<mode, attempt, handler, label, settled>>
  BY <1>1, <1>2, <1>3, <1>9 DEF ClientNext
<1> QED BY <1>3, <1>4, <1>5, <1>6, <1>8, <1>9 DEF Next

-----------------------------------------------------------------------------
(* Edits: what a switch has read, or has sent, is what was there.          *)
NameKept(name, d) == kept[d] # Unknown => name = kept[d]

NamesKept ==
  /\ \A d \in Devices : NameKept(server.device[d].name, d)
                        /\ (~server.device[d].exists => kept[d] = "ours")
  /\ \A t \in Threads : call[t].at = "Update" => NameKept(call[t].name, call[t].on)
  /\ \A r \in late : r.call = "Update" => NameKept(r.name, r.on)

(* How a call comes to be an Update, and what it will send.                *)
LEMMA UpdateMoves ==
  ASSUME TypeInv, [Next]_vars, NEW t \in Threads, call'[t].at = "Update"
  PROVE  /\ call'[t].on = call[t].on /\ call[t].on \in Devices /\ call[t].fn = "switch"
         /\ \/ call[t].at = "Update" /\ call'[t].name = call[t].name
            \/ call[t].at = "Get" /\ CallAnswered(t) /\ call'[t].name = server.device[call[t].on].name
<1>0. call[t] \in CallRecord /\ Shape(call[t])
  BY DEF TypeInv, TypeOK, ClientTypeOK, Shapes, CallsShaped
<1>1. CASE Same(call[t], call'[t])
  BY <1>0, <1>1 DEF Same, Shape, Running, Calls
<1>2. call'[t] # NoCall /\ ~Abandoned(t) /\ ~Resumed(t)
  BY LeftFields DEF NoCall, Abandoned, Resumed
<1>3. ~Entered(t)
  <2>1. SUFFICES ASSUME Entered(t) PROVE FALSE  OBVIOUS
  <2>2. PICK fn \in Functions : call'[t].at = First[fn]
    BY <2>1, EnterFields DEF Entered, TypeInv, TypeOK, ClientTypeOK
  <2> QED BY <2>2 DEF First, Functions
<1>4. CASE CallAnswered(t)
  <2>1. /\ call[t].fn = "switch" /\ call[t].at = "Get" /\ call'[t].on = call[t].on
        /\ call'[t].name = ReadName(t)
    BY <1>4, AnsweredFields, NextCalls
  <2> QED BY <1>0, <1>4, <2>1 DEF ReadName, Shape, Running, Calls
<1> QED BY <1>1, <1>2, <1>3, <1>4, CallMoves

LEMMA ServerInit ==
  ASSUME Init
  PROVE  /\ \A d \in Devices : server.device[d].name = "ours" /\ server.device[d].profile = Adr
         /\ server.objects = [k \in Kinds |-> 0] /\ server.queued = 0
<1> DEFINE new == [exists: BOOLEAN, profile: {Adr}, keys: {FALSE}, name: {"ours"}]
<1>1. server.device \in [Devices -> new] /\ server.objects = [k \in Kinds |-> 0] /\ server.queued = 0
  BY DEF Init, ClientInit
<1>2. \A x \in new : x.name = "ours" /\ x.profile = Adr
  OBVIOUS
<1> HIDE DEF new
<1> QED BY <1>1, <1>2

LEMMA NamesInit == Init => NamesKept
<1> SUFFICES ASSUME Init PROVE NamesKept  OBVIOUS
<1>1. \A d \in Devices : server.device[d].name = "ours" /\ kept[d] = "ours"
  BY ServerInit DEF Init, ClientInit
<1>2. late = {} /\ \A t \in Threads : call[t].at = "done"
  BY DEF Init, ClientInit, NoCall
<1> QED BY <1>1, <1>2 DEF NamesKept, NameKept

(* A request that carries the name as it is leaves it as it is.            *)
LEMMA DoneKeepsNames ==
  ASSUME TypeInv, NamesKept, NEW r \in Request, r.call \in Writes => RequestShape(r),
         r.call = "Update" => NameKept(r.name, r.on),
         NEW d \in Devices
  PROVE  LET new == Done(r, server).device[d] IN
         NameKept(new.name, d) /\ (~new.exists => kept[d] = "ours")
<1>1. server \in Server  BY DEF TypeInv, TypeOK, ClientTypeOK
<1> QED BY <1>1, DoneDevice DEF NamesKept, NameKept

LEMMA NamesNext == TypeInv /\ NamesKept /\ [Next]_vars => NamesKept'
<1> SUFFICES ASSUME TypeInv, NamesKept, [Next]_vars PROVE NamesKept'  OBVIOUS
<1>0. /\ server \in Server /\ kept \in [Devices -> Names \cup {Unknown}]
      /\ \A r \in late : r \in Request /\ r.call \in Writes /\ RequestShape(r)
      /\ \A t \in Threads : call[t] \in CallRecord /\ Shape(call[t])
  BY DEF TypeInv, TypeOK, ClientTypeOK, Shapes, CallsShaped, LateShaped
<1>1. CASE \E d \in Devices : EditInChirpStack(d)
  <2>1. PICK d \in Devices : EditInChirpStack(d)
    BY <1>1
  <2>2. UNCHANGED <<call, late>> /\ server.device[d].exists
    BY <2>1 DEF EditInChirpStack
  <2>3. \A e \in Devices : /\ server'.device[e].name = IF e = d THEN "edited" ELSE server.device[e].name
                           /\ server'.device[e].exists = server.device[e].exists
    <3> DEFINE new == [server.device[d] EXCEPT !.name = "edited"]
    <3>1. server' = [server EXCEPT !.device = [server.device EXCEPT ![d] = new]]
      BY <2>1, <1>0 DEF EditInChirpStack, Server
    <3>2. new.name = "edited" /\ new.exists = server.device[d].exists
      BY <1>0 DEF Server, Device
    <3> HIDE DEF new
    <3> QED BY <1>0, <3>1, <3>2 DEF Server
  <2>4. \A e \in Devices : e # d => kept'[e] = kept[e]
    BY <1>0, <2>1 DEF EditInChirpStack
  <2>5. kept'[d] \in {"edited", Unknown}
        /\ ((\E t \in Threads : call[t].fn = "switch" /\ call[t].on = d)
              \/ (\E r \in late : r.on = d /\ r.call = "Update") => kept'[d] = Unknown)
    BY <1>0, <2>1 DEF EditInChirpStack
  <2>6. ASSUME NEW e \in Devices
        PROVE  NameKept(server.device[e].name, e)' /\ (~server'.device[e].exists => kept'[e] = "ours")
    BY <2>2, <2>3, <2>4, <2>5 DEF NamesKept, NameKept
  <2>7. ASSUME NEW t \in Threads, call'[t].at = "Update"
        PROVE  NameKept(call[t].name, call[t].on)'
    <3>1. call[t].fn = "switch" /\ call[t].on \in Devices /\ call'[t] = call[t] /\ call[t].at = "Update"
      BY <1>0, <2>2, <2>7 DEF Shape, Running, Calls
    <3> QED BY <2>4, <2>5, <3>1 DEF NamesKept, NameKept
  <2>8. ASSUME NEW r \in late', r.call = "Update"
        PROVE  (kept'[r.on] # Unknown => r.name = kept'[r.on])
    <3>1. r \in late /\ r.on \in Devices
      BY <1>0, <2>2, <2>8 DEF RequestShape
    <3> QED BY <2>4, <2>5, <2>8, <3>1 DEF NamesKept, NameKept
  <2> QED BY <2>6, <2>7, <2>8 DEF NamesKept, NameKept
<1>2. CASE ~\E d \in Devices : EditInChirpStack(d)
  <2>1. kept' = kept
    BY <1>2, ServerMoves
  <2>2. ASSUME NEW d \in Devices
        PROVE  NameKept(server.device[d].name, d)' /\ (~server'.device[d].exists => kept'[d] = "ours")
    <3>1. CASE server' = server
      BY <2>1, <3>1 DEF NamesKept, NameKept
    <3>2. CASE \E t \in Threads : CallAnswered(t)
      <4>1. PICK t \in Threads : CallAnswered(t)  BY <3>2
      <4>2. server' = Done(RequestOf(t), server) /\ RequestOf(t) \in Request /\ RequestShape(RequestOf(t))
        BY <4>1, RequestGood DEF CallAnswered
      <4>3. RequestOf(t).call = "Update" => NameKept(RequestOf(t).name, RequestOf(t).on)
        BY DEF RequestOf, NamesKept
      <4>4. LET new == Done(RequestOf(t), server).device[d] IN
            NameKept(new.name, d) /\ (~new.exists => kept[d] = "ours")
        BY <4>2, <4>3, DoneKeepsNames
      <4> QED BY <2>1, <4>2, <4>4 DEF NameKept
    <3>3. CASE TakeEffectLate
      <4>1. PICK r \in late : server' \in {server, Done(r, server)}
        BY <3>3 DEF TakeEffectLate
      <4>2. r.call = "Update" => NameKept(r.name, r.on)
        BY DEF NamesKept
      <4>3. LET new == Done(r, server).device[d] IN
            NameKept(new.name, d) /\ (~new.exists => kept[d] = "ours")
        BY <1>0, <4>2, DoneKeepsNames
      <4> QED BY <2>1, <3>1, <4>1, <4>3 DEF NameKept
    <3> QED BY <1>2, <3>1, <3>2, <3>3, ServerMoves
  <2>3. ASSUME NEW t \in Threads, call'[t].at = "Update"
        PROVE  NameKept(call[t].name, call[t].on)'
    BY <2>1, <2>3, UpdateMoves DEF NamesKept, NameKept
  <2>4. ASSUME NEW r \in late', r.call = "Update"
        PROVE  NameKept(r.name, r.on)
    <3>1. CASE r \in late
      BY <2>4, <3>1 DEF NamesKept
    <3>2. CASE r \notin late
      <4>1. PICK t \in Threads : r = RequestOf(t)
        BY <3>2, ServerMoves DEF LeftBehind
      <4> QED BY <2>4, <4>1 DEF RequestOf, NamesKept
    <3> QED BY <3>1, <3>2
  <2> QED BY <2>1, <2>2, <2>3, <2>4 DEF NamesKept, NameKept
<1> QED BY <1>1, <1>2

(* No switch of any thread, rejected and started over, timed out and late  *)
(* or beside others, takes back an edit that it does not overlap.          *)
THEOREM EditsAreKept == Spec => []EditsSurvive
<1>1. NamesKept => EditsSurvive
  BY DEF NamesKept, NameKept, EditsSurvive
<1> QED BY InitType, NextType, NamesInit, NamesNext, <1>1, PTL DEF Spec

-----------------------------------------------------------------------------
(* Provisioning: a tenant, an application, a profile is created by the one *)
(* start-up under way, after it has found none.                            *)
ProvisionedOnce ==
  /\ \A k \in Kinds \ lost : server.objects[k] <= 1
  /\ \A t \in Threads : call[t].fn = "provision" => handler[t].op = "start"
  /\ \A t \in Threads : call[t].fn = "provision" /\ call[t].at = "Create" /\ call[t].on \notin lost
       => server.objects[call[t].on] = 0
  /\ \A r \in late : r.call = "Create" /\ r.on \in Kinds => r.on \in lost

LEMMA ProvisionedInit == Init => ProvisionedOnce
<1> SUFFICES ASSUME Init PROVE ProvisionedOnce  OBVIOUS
<1>1. server.objects = [k \in Kinds |-> 0]
  BY ServerInit
<1>2. late = {} /\ \A t \in Threads : call[t].fn = None
  BY DEF Init, ClientInit, NoCall
<1> QED BY <1>1, <1>2 DEF ProvisionedOnce, None

LEMMA ProvisionedNext == TypeInv /\ ProvisionedOnce /\ [Next]_vars => ProvisionedOnce'
<1> SUFFICES ASSUME TypeInv, ProvisionedOnce, [Next]_vars PROVE ProvisionedOnce'  OBVIOUS
<1>0. /\ server \in Server /\ lost \subseteq lost' /\ call \in [Threads -> CallRecord]
      /\ \A r \in late : r \in Request /\ r.call \in Writes /\ RequestShape(r)
      /\ \A t \in Threads : Shape(call[t])
  BY ServerMoves DEF TypeInv, TypeOK, ClientTypeOK, Shapes, CallsShaped, LateShaped
<1>1. ASSUME NEW t \in Threads, call'[t].fn = "provision"  PROVE handler'[t].op = "start"
  <2>0. call[t].fn = "provision" => handler[t].op = "start"
    BY DEF ProvisionedOnce
  <2>1. CASE Proceeds(t)
    <3>1. handler[t] \in Handler  BY TypeParts DEF TypeInv
    <3> QED BY <1>1, <2>0, <2>1, <3>1 DEF Proceeds, Disturbed, Handler
  <2>2. CASE Ends(t)
    BY <1>1, <2>2 DEF Ends, NoCall, None
  <2>3. CASE Starts(t)
    BY <2>3 DEF Starts
  <2>4. CASE Asks(t)
    BY <1>0, <1>1, <2>4, EnterFields DEF Asks, Ask
  <2>5. CASE Phases(t)
    BY <1>0, <1>1, <2>5, EnterFields DEF Phases, SetPhase
  <2>6. CASE Switches(t)
    BY <1>1, <2>6 DEF Switches
  <2> QED BY <2>1, <2>2, <2>3, <2>4, <2>5, <2>6, ThreadMoves
(* A Create of a kind comes from one thread, and it has found none.        *)
<1>2. ASSUME NEW t \in Threads, NEW u \in Threads, NEW k \in Kinds,
             call[t].at = "Create", call[t].on = k, call[u].fn = "provision"
      PROVE  t = u /\ call[t].fn = "provision" /\ (k \notin lost => server.objects[k] = 0)
  <2>1. call[t].fn = "provision"
    <3>1. k \notin Devices  BY DevicesAreNoKinds
    <3> QED BY <1>0, <1>2, <3>1 DEF Shape, Running, Calls
  <2>2. handler[t].op = "start" /\ handler[u].op = "start"
    BY <1>2, <2>1 DEF ProvisionedOnce
  <2>3. t = u
    BY <2>2 DEF TypeInv, Shapes, HandlersSound, Free, None
  <2> QED BY <1>2, <2>1, <2>3 DEF ProvisionedOnce
<1>3. ASSUME NEW k \in Kinds \ lost'
      PROVE  \/ server'.objects[k] = server.objects[k]
             \/ /\ server'.objects[k] = 1
                /\ \E t \in Threads : CallAnswered(t) /\ call[t].at = "Create" /\ call[t].on = k
  <2>1. CASE server' = server
    BY <2>1
  <2>2. CASE \E t \in Threads : CallAnswered(t)
    <3>1. PICK t \in Threads : CallAnswered(t)  BY <2>2
    <3> DEFINE r == RequestOf(t)
    <3>2. server' = Done(r, server) /\ r \in Request /\ RequestShape(r)
      BY <3>1, RequestGood DEF CallAnswered
    <3>3. r.call = call[t].at /\ r.on = call[t].on
      BY DEF RequestOf
    <3> HIDE DEF r
    <3>4. server'.objects = IF r.call = "Create" /\ r.on \in Kinds
                            THEN [server.objects EXCEPT ![r.on] = @ + 1] ELSE server.objects
      BY <1>0, <3>2, DoneRest
    <3>5. CASE r.call = "Create" /\ r.on = k
      <4>1. call[t].fn = "provision"
        <5>1. k \notin Devices  BY DevicesAreNoKinds
        <5> QED BY <1>0, <3>3, <3>5, <5>1 DEF Shape, Running, Calls
      <4>2. server.objects[k] = 0
        BY <1>0, <1>2, <3>3, <3>5, <4>1
      <4>3. server'.objects = [server.objects EXCEPT ![k] = server.objects[k] + 1]
        BY <1>3, <3>4, <3>5
      <4>4. server'.objects[k] = 1
        BY <1>0, <1>3, <4>2, <4>3 DEF Server
      <4> QED BY <3>1, <3>3, <3>5, <4>4
    <3>6. CASE ~(r.call = "Create" /\ r.on = k)
      BY <1>0, <3>4, <3>6 DEF Server
    <3> QED BY <3>5, <3>6
  <2>3. CASE TakeEffectLate
    <3>1. PICK r \in late : server' \in {server, Done(r, server)}
      BY <2>3 DEF TakeEffectLate
    <3>2. r \in Request /\ RequestShape(r) /\ (r.call = "Create" /\ r.on \in Kinds => r.on # k)
      BY <1>0 DEF ProvisionedOnce
    <3>3. Done(r, server).objects = IF r.call = "Create" /\ r.on \in Kinds
                            THEN [server.objects EXCEPT ![r.on] = @ + 1] ELSE server.objects
      BY <1>0, <3>2, DoneRest
    <3> QED BY <1>0, <3>1, <3>2, <3>3 DEF Server
  <2>4. CASE \E d \in Devices : EditInChirpStack(d)
    BY <1>0, <2>4 DEF EditInChirpStack, Server
  <2> QED BY <2>1, <2>2, <2>3, <2>4, ServerMoves
<1>4. \A k \in Kinds \ lost' : server'.objects[k] <= 1
  BY <1>0, <1>3 DEF ProvisionedOnce
<1>5. ASSUME NEW t \in Threads, call'[t].fn = "provision", call'[t].at = "Create", call'[t].on \notin lost'
      PROVE  server'.objects[call'[t].on] = 0
  <2>1. call'[t] # NoCall /\ ~Abandoned(t) /\ ~Resumed(t)
    BY <1>5, LeftFields DEF NoCall, Abandoned, Resumed
  <2>2. ~Entered(t)
    <3>1. SUFFICES ASSUME Entered(t) PROVE FALSE  OBVIOUS
    <3>2. PICK fn \in Functions : call'[t].at = First[fn]
      BY <1>0, <3>1, EnterFields DEF Entered
    <3> QED BY <1>5, <3>2 DEF First, Functions
  <2>3. CASE CallAnswered(t)
    <3>1. /\ call[t].at = "List" /\ call[t].fn = "provision" /\ call'[t].on = call[t].on
          /\ Answer(RequestOf(t), server) = "not_found" /\ server' = Done(RequestOf(t), server)
      BY <1>5, <2>3, AnsweredFields, NextCalls
    <3>2. call[t].on \in Kinds
      BY <1>0, <3>1 DEF Shape, Running, Calls
    <3>3. server' = server
      BY <3>1 DEF Done
    <3> QED BY <3>1, <3>2, <3>3 DEF Answer, RequestOf
  <2>4. CASE Same(call[t], call'[t]) /\ ~CallAnswered(t)
    <3>1. call[t].fn = "provision" /\ call[t].at = "Create" /\ call'[t].on = call[t].on
      BY <1>5, <2>4 DEF Same
    <3>2. call[t].on \in Kinds
      BY <1>0, <3>1 DEF Shape, Running, Calls
    <3>3. server.objects[call[t].on] = 0
      BY <1>0, <1>5, <3>1 DEF ProvisionedOnce
    <3>4. ~\E u \in Threads : CallAnswered(u) /\ call[u].at = "Create" /\ call[u].on = call[t].on
      BY <1>2, <2>4, <3>1, <3>2
    <3> QED BY <1>3, <1>5, <3>1, <3>2, <3>3, <3>4
  <2> QED BY <2>1, <2>2, <2>3, <2>4, CallMoves
<1>6. ASSUME NEW r \in late', r.call = "Create", r.on \in Kinds  PROVE r.on \in lost'
  <2>1. CASE r \in late
    BY <1>0, <1>6, <2>1 DEF ProvisionedOnce
  <2>2. CASE r \notin late
    BY <1>6, <2>2, ServerMoves DEF LeftBehind
  <2> QED BY <2>1, <2>2
<1> QED BY <1>1, <1>4, <1>5, <1>6 DEF ProvisionedOnce

-----------------------------------------------------------------------------
(* Downlinks that have been asked for and may still be queued.             *)
Asking  == {t \in Threads : call[t].fn = "enqueue" /\ Running(call[t])}
Delayed == {r \in late : r.call = "Enqueue"}

DownlinksCounted ==
  /\ IsFiniteSet(Delayed)
  /\ server.queued + Cardinality(Asking) + Cardinality(Delayed) <= asked

LEMMA CountTypes ==
  ASSUME TypeInv
  PROVE  /\ IsFiniteSet(Asking) /\ Cardinality(Asking) \in Nat
         /\ server.queued \in Nat /\ asked \in Nat
         /\ Asking \subseteq Threads
<1>1. Asking \in SUBSET Threads  BY DEF Asking
<1>2. IsFiniteSet(Asking) /\ Cardinality(Asking) \in Nat
  BY <1>1, FS_Subset, FS_CardinalityType, ChirpStackAssumption
<1> QED BY <1>1, <1>2 DEF TypeInv, TypeOK, ClientTypeOK, Server

LEMMA DownlinksInit == Init => DownlinksCounted
<1> SUFFICES ASSUME Init PROVE DownlinksCounted  OBVIOUS
<1>1. server.queued = 0 /\ asked = 0
  BY ServerInit DEF Init, ClientInit
<1>2. Asking = {} /\ Delayed = {}
  BY DEF Init, ClientInit, Asking, Delayed, NoCall, None
<1> QED BY <1>1, <1>2, FS_EmptySet DEF DownlinksCounted

(* What is asked for or delayed can only move on.                          *)
LEMMA CountGoesDown ==
  ASSUME TypeInv, DownlinksCounted, Asking' \subseteq Asking, Delayed' \subseteq Delayed,
         server'.queued = server.queued, asked' \in Nat, asked' >= asked
  PROVE  DownlinksCounted'
<1>1. IsFiniteSet(Asking) /\ IsFiniteSet(Delayed) /\ Cardinality(Asking) \in Nat /\ Cardinality(Delayed) \in Nat
      /\ server.queued \in Nat /\ asked \in Nat
  BY CountTypes, FS_CardinalityType DEF DownlinksCounted
<1>2. IsFiniteSet(Asking') /\ Cardinality(Asking') <= Cardinality(Asking) /\ Cardinality(Asking') \in Nat
  BY <1>1, FS_Subset, FS_CardinalityType
<1>3. IsFiniteSet(Delayed') /\ Cardinality(Delayed') <= Cardinality(Delayed) /\ Cardinality(Delayed') \in Nat
  BY <1>1, FS_Subset, FS_CardinalityType
<1> QED BY <1>1, <1>2, <1>3 DEF DownlinksCounted

(* Callers that give up turn from asking to delayed, at most one each.     *)
LEMMA CountMovesOver ==
  ASSUME TypeInv, DownlinksCounted, NEW callers \in SUBSET Threads,
         \A t \in callers : InCall(t), GiveUp(callers),
         Asking' \subseteq Asking \ {t \in callers : call[t].at = "Enqueue"},
         server'.queued = server.queued, asked' = asked
  PROVE  DownlinksCounted'
<1> DEFINE C == {t \in callers : call[t].at = "Enqueue"}
           R == {RequestOf(t) : t \in C}
           f == [t \in C |-> RequestOf(t)]
<1>1. IsFiniteSet(Asking) /\ IsFiniteSet(Delayed) /\ Cardinality(Asking) \in Nat /\ Cardinality(Delayed) \in Nat
      /\ server.queued \in Nat /\ asked \in Nat
  BY CountTypes, FS_CardinalityType DEF DownlinksCounted
<1>2. C \in SUBSET Asking
  BY DEF Asking, Running, InCall, TypeInv, Shapes, CallsShaped, Shape
<1>3. IsFiniteSet(C) /\ Cardinality(C) \in Nat /\ Cardinality(C) <= Cardinality(Asking)
  BY <1>1, <1>2, FS_Subset, FS_CardinalityType
<1>4. IsFiniteSet(R) /\ Cardinality(R) <= Cardinality(C) /\ Cardinality(R) \in Nat
  <2>1. f \in Surjection(C, R)
    BY DEF Surjection
  <2> QED BY <1>3, <2>1, FS_Surjection, FS_CardinalityType
<1>5. Delayed' \subseteq Delayed \cup R
  BY DEF Delayed, GiveUp, RequestOf
<1> HIDE DEF C, R, f
<1>6. IsFiniteSet(Asking \ C) /\ Cardinality(Asking \ C) = Cardinality(Asking) - Cardinality(C)
  <2>1. Asking \cap C = C  BY <1>2
  <2> QED BY <1>1, <1>2, <2>1, FS_Difference
<1>7. IsFiniteSet(Delayed \cup R) /\ Cardinality(Delayed \cup R) <= Cardinality(Delayed) + Cardinality(R)
  <2>1. IsFiniteSet(Delayed \cap R)
    BY <1>1, FS_Subset, Delayed \cap R \in SUBSET Delayed
  <2>2. Cardinality(Delayed \cap R) \in Nat
    BY <2>1, FS_CardinalityType
  <2>3. IsFiniteSet(Delayed \cup R)
        /\ Cardinality(Delayed \cup R) = Cardinality(Delayed) + Cardinality(R) - Cardinality(Delayed \cap R)
    BY <1>1, <1>4, FS_Union
  <2> QED BY <1>1, <1>4, <2>2, <2>3
<1>8. Cardinality(Asking \ C) \in Nat /\ Cardinality(Delayed \cup R) \in Nat
  BY <1>6, <1>7, FS_CardinalityType
<1>9. Cardinality(Asking') <= Cardinality(Asking \ C) /\ Cardinality(Asking') \in Nat
  <2>1. Asking' \in SUBSET (Asking \ C)  BY DEF C
  <2> QED BY <1>6, <2>1, FS_Subset, FS_CardinalityType
<1>10. IsFiniteSet(Delayed') /\ Cardinality(Delayed') <= Cardinality(Delayed \cup R) /\ Cardinality(Delayed') \in Nat
  BY <1>5, <1>7, FS_Subset, FS_CardinalityType
<1> QED BY <1>1, <1>3, <1>4, <1>6, <1>7, <1>8, <1>9, <1>10 DEF DownlinksCounted

(* Who asks for a downlink, and has not asked before.                      *)
LEMMA AskingMoves ==
  ASSUME TypeInv, [Next]_vars, NEW t \in Threads, call'[t].fn = "enqueue", Running(call'[t]), t \notin Asking
  PROVE  \E d \in Devices, value \in Values : Ask(t, "enqueue", d, value)
<1>0. call \in [Threads -> CallRecord]
  BY DEF TypeInv, TypeOK, ClientTypeOK
<1>1. ~(call[t].fn = "enqueue" /\ Running(call[t]))
  BY DEF Asking
<1>2. ~Proceeds(t)
  BY <1>1 DEF Proceeds
<1>3. CASE Ends(t)
  BY <1>3 DEF Ends, NoCall, None
<1>4. CASE Starts(t)
  BY <1>0, <1>4, EnterFields DEF Starts
<1>5. CASE Asks(t)
  <2>1. PICK fn \in {"register", "switch", "enqueue"}, d \in Devices, value \in Values : Ask(t, fn, d, value)
    BY <1>5 DEF Asks
  <2>2. fn = "enqueue"
    BY <1>0, <2>1, EnterFields DEF Ask
  <2> QED BY <2>1, <2>2
<1>6. CASE Phases(t)
  BY <1>0, <1>6, EnterFields DEF Phases, SetPhase
<1>7. CASE Switches(t)
  BY <1>7 DEF Switches
<1> QED BY <1>2, <1>3, <1>4, <1>5, <1>6, <1>7, ThreadMoves

LEMMA AskedGrows == TypeInv /\ [Next]_vars => asked' \in Nat /\ asked' >= asked
<1> SUFFICES ASSUME TypeInv, [Next]_vars PROVE asked' \in Nat /\ asked' >= asked  OBVIOUS
<1>0. asked \in Nat  BY CountTypes
<1>1. ASSUME NEW t, NEW fn, NEW on, NEW value, NEW token, Enter(t, fn, on, value, token)
      PROVE  asked' \in Nat /\ asked' >= asked
  BY <1>0, <1>1 DEF Enter
<1>2. ASSUME UNCHANGED asked  PROVE asked' \in Nat /\ asked' >= asked
  BY <1>0, <1>2
<1>3. CASE ClientNext \/ UNCHANGED vars
  <2>1. UNCHANGED asked
    BY <1>3 DEF ClientNext, CallAnswered, CallFails, CallTimesOut, CallRejected, Renew, RenewFails,
                TakeEffectLate, Age, RetireTokens, EditInChirpStack, vars, clientVars
  <2> QED BY <1>2, <2>1
<1>4. CASE LoginFails \/ Restart
  BY <1>2, <1>4 DEF LoginFails, Restart, clientVars
<1>5. CASE Connect
  BY <1>1, <1>5 DEF Connect
<1>6. CASE \E t \in Threads : Provision(t)
  BY <1>1, <1>2, <1>6 DEF Provision, Return, Then
<1>7. CASE \E t \in Threads : Finish(t)
  BY <1>2, <1>7 DEF Finish, Return
<1>8. CASE \E t \in Threads : PhaseStep(t)
  BY <1>1, <1>2, <1>8 DEF PhaseStep, Return
<1>9. CASE \E t \in Threads, profile \in Profiles : SetPhase(t, profile)
  BY <1>1, <1>9 DEF SetPhase
<1>10. CASE \E t \in Threads, d \in Devices :
              RegisterDevice(t, d) \/ EnqueueDownlink(t, d) \/ \E profile \in Profiles : SwitchDevice(t, d, profile)
  BY <1>1, <1>10 DEF RegisterDevice, SwitchDevice, EnqueueDownlink, Ask
<1> QED BY <1>3, <1>4, <1>5, <1>6, <1>7, <1>8, <1>9, <1>10 DEF Next

LEMMA DownlinksNext == TypeInv /\ DownlinksCounted /\ [Next]_vars => DownlinksCounted'
<1> SUFFICES ASSUME TypeInv, DownlinksCounted, [Next]_vars PROVE DownlinksCounted'  OBVIOUS
<1>0. /\ server \in Server /\ call \in [Threads -> CallRecord]
      /\ \A r \in late : r \in Request /\ r.call \in Writes /\ RequestShape(r)
      /\ \A t \in Threads : Shape(call[t])
      /\ asked' \in Nat /\ asked' >= asked /\ asked \in Nat /\ server.queued \in Nat
      /\ IsFiniteSet(Asking) /\ Cardinality(Asking) \in Nat
      /\ IsFiniteSet(Delayed) /\ Cardinality(Delayed) \in Nat
      /\ server.queued + Cardinality(Asking) + Cardinality(Delayed) <= asked
  BY AskedGrows, CountTypes, FS_CardinalityType
     DEF TypeInv, TypeOK, ClientTypeOK, Shapes, CallsShaped, LateShaped, DownlinksCounted
<1>1. CASE \E t \in Threads, d \in Devices, value \in Values : Ask(t, "enqueue", d, value)
  <2>1. PICK t \in Threads, d \in Devices, value \in Values : Ask(t, "enqueue", d, value)
    BY <1>1
  <2>2. asked' = asked + 1 /\ server' = server /\ late' = late
        /\ \A u \in Threads \ {t} : call'[u] = call[u]
    BY <1>0, <2>1, EnterFields DEF Ask, Enter
  <2>3. Asking' \in SUBSET (Asking \cup {t}) /\ Delayed' = Delayed
    BY <2>2 DEF Asking, Delayed
  <2>4. IsFiniteSet(Asking \cup {t}) /\ Cardinality(Asking \cup {t}) <= Cardinality(Asking) + 1
        /\ Cardinality(Asking \cup {t}) \in Nat
    <3>1. IsFiniteSet(Asking \cup {t})
          /\ Cardinality(Asking \cup {t}) = IF t \in Asking THEN Cardinality(Asking) ELSE Cardinality(Asking) + 1
      BY <1>0, FS_AddElement
    <3> QED BY <1>0, <3>1
  <2>5. Cardinality(Asking') <= Cardinality(Asking \cup {t}) /\ Cardinality(Asking') \in Nat
    BY <2>3, <2>4, FS_Subset, FS_CardinalityType
  <2> QED BY <1>0, <2>2, <2>3, <2>4, <2>5 DEF DownlinksCounted
<1>2. CASE ~\E t \in Threads, d \in Devices, value \in Values : Ask(t, "enqueue", d, value)
  <2>1. Asking' \subseteq Asking
    BY <1>2, AskingMoves DEF Asking
  <2>2. CASE \E t \in Threads : CallAnswered(t)
    <3>1. PICK t \in Threads : CallAnswered(t)  BY <2>2
    <3> DEFINE r == RequestOf(t)
    <3>2. server' = Done(r, server) /\ r \in Request /\ RequestShape(r) /\ r.call = call[t].at /\ late' = late
      BY <3>1, RequestGood DEF CallAnswered, RequestOf
    <3> HIDE DEF r
    <3>3. server'.queued \in {server.queued, IF r.call = "Enqueue" THEN server.queued + 1 ELSE server.queued}
      BY <1>0, <3>2, DoneRest
    <3>4. Delayed' \subseteq Delayed
      BY <3>2 DEF Delayed
    <3>5. CASE server'.queued = server.queued
      BY <1>0, <2>1, <3>4, <3>5, CountGoesDown
    <3>6. CASE r.call = "Enqueue" /\ server'.queued = server.queued + 1
      <4>1. call[t].fn = "enqueue" /\ call[t].at = "Enqueue"
        BY <1>0, <3>2, <3>6 DEF Shape
      <4>2. t \in Asking
        BY <4>1 DEF Asking, Running, Calls
      <4>3. call'[t].at \in {"done", "failed"}
        BY <3>1, <4>1, AnsweredFields, NextCalls
      <4>4. Asking' \in SUBSET (Asking \ {t})
        BY <2>1, <4>3 DEF Asking, Running, Calls
      <4>5. IsFiniteSet(Asking \ {t}) /\ Cardinality(Asking \ {t}) = Cardinality(Asking) - 1
        BY <1>0, <4>2, FS_RemoveElement
      <4>6. Cardinality(Asking') <= Cardinality(Asking) - 1 /\ Cardinality(Asking') \in Nat
        BY <4>4, <4>5, FS_Subset, FS_CardinalityType
      <4>7. Delayed' = Delayed
        BY <3>2 DEF Delayed
      <4> QED BY <1>0, <3>6, <4>6, <4>7 DEF DownlinksCounted
    <3> QED BY <3>3, <3>5, <3>6
  <2>3. CASE TakeEffectLate
    <3>1. PICK r \in late : late' = late \ {r} /\ server' \in {server, Done(r, server)}
      BY <2>3 DEF TakeEffectLate
    <3>2. Done(r, server).queued \in {server.queued, IF r.call = "Enqueue" THEN server.queued + 1 ELSE server.queued}
      BY <1>0, DoneRest
    <3>3. Delayed' = Delayed \ {r}
      BY <3>1 DEF Delayed
    <3>4. CASE server'.queued = server.queued
      BY <1>0, <2>1, <3>3, <3>4, CountGoesDown
    <3>5. CASE r.call = "Enqueue" /\ server'.queued = server.queued + 1
      <4>1. r \in Delayed
        BY <3>5 DEF Delayed
      <4>2. IsFiniteSet(Delayed') /\ Cardinality(Delayed') = Cardinality(Delayed) - 1
        BY <1>0, <3>3, <4>1, FS_RemoveElement
      <4>3. Cardinality(Asking') <= Cardinality(Asking) /\ Cardinality(Asking') \in Nat
        BY <1>0, <2>1, FS_Subset, FS_CardinalityType
      <4> QED BY <1>0, <3>5, <4>2, <4>3 DEF DownlinksCounted
    <3> QED BY <3>1, <3>2, <3>4, <3>5
  <2>4. ASSUME NEW t \in Threads, CallTimesOut(t)
        PROVE  DownlinksCounted'
    <3>1. call'[t] = Left(t, "failed", {})
      BY <1>0, <2>4 DEF CallTimesOut, Raise
    <3>2. t \notin Asking'
      BY <3>1, LeftFields DEF Asking, Running, Calls
    <3>3. /\ server'.queued = server.queued /\ asked' = asked /\ GiveUp({t}) /\ InCall(t)
      BY <2>4 DEF CallTimesOut
    <3>4. {t} \in SUBSET Threads /\ \A u \in {t} : InCall(u)
      BY <3>3
    <3>5. Asking' \subseteq Asking \ {u \in {t} : call[u].at = "Enqueue"}
      BY <2>1, <3>2
    <3> QED BY <3>3, <3>4, <3>5, CountMovesOver
  <2>5. CASE Restart
    <3>1. PICK callers \in SUBSET {t \in Threads : InCall(t) /\ call[t].at \in Writes /\ call[t].token.good} :
            GiveUp(callers)
      BY <2>5 DEF Restart
    <3>2. Asking' = {}
      BY <2>5 DEF Restart, Asking, Running, Calls, NoCall
    <3>3. server'.queued = server.queued /\ asked' = asked
      BY <2>5 DEF Restart
    <3> QED BY <3>1, <3>2, <3>3, CountMovesOver
  <2>6. ASSUME server'.queued = server.queued, late' = late  PROVE DownlinksCounted'
    <3>1. Delayed' \subseteq Delayed
      BY <2>6 DEF Delayed
    <3> QED BY <1>0, <2>1, <2>6, <3>1, CountGoesDown
  <2>7. CASE \E d \in Devices : EditInChirpStack(d)
    BY <1>0, <2>6, <2>7 DEF EditInChirpStack, Server
  <2>8. CASE ClientNext
    BY <2>2, <2>3, <2>4, <2>6, <2>7, <2>8
       DEF ClientNext, CallFails, CallRejected, Renew, RenewFails, Age, RetireTokens
  <2>9. ASSUME ~ClientNext, ~Restart  PROVE late' = late /\ server' = server
    BY <2>9 DEF Next, Connect, LoginFails, RegisterDevice, SwitchDevice, EnqueueDownlink, Ask, Provision,
                Finish, PhaseStep, SetPhase, vars, clientVars
  <2> QED BY <2>5, <2>6, <2>8, <2>9
<1> QED BY <1>1, <1>2

(* However often calls are retried, attempts repeated, processes started   *)
(* again and requests delayed, nothing is queued or provisioned twice.     *)
THEOREM NothingDoneTwice == Spec => []NothingTwice
<1>1. TypeInv /\ ProvisionedOnce /\ DownlinksCounted => NothingTwice
  <2> SUFFICES ASSUME TypeInv, ProvisionedOnce, DownlinksCounted PROVE NothingTwice  OBVIOUS
  <2>1. Cardinality(Asking) \in Nat /\ Cardinality(Delayed) \in Nat /\ server.queued \in Nat /\ asked \in Nat
    BY CountTypes, FS_CardinalityType DEF DownlinksCounted
  <2> QED BY <2>1 DEF ProvisionedOnce, DownlinksCounted, NothingTwice
<1> QED BY InitType, NextType, ProvisionedInit, ProvisionedNext, DownlinksInit, DownlinksNext, <1>1, PTL DEF Spec

-----------------------------------------------------------------------------
(* Profiles: who may still write one.                                      *)
Switching(t)   == call[t].fn = "switch" /\ Running(call[t])
Creating(t)    == call[t].fn = "register" /\ Running(call[t]) /\ ~server.device[call[t].on].exists
LateUpdate     == \E r \in late : r.call = "Update"
LateCreate     == \E r \in late : r.call = "Create" /\ r.on \in Devices /\ ~server.device[r.on].exists

(* After an undisturbed set_phase.                                         *)
WhileSettled ==
  settled =>
    /\ \A d \in Registered : server.device[d].profile = label
    /\ \A t \in Threads : ~Switching(t) /\ handler[t].op # "phase"
    /\ ~LateUpdate
    /\ LateCreate \/ (\E t \in Threads : Creating(t)) => label = Adr

(* A set_phase that nothing has disturbed and that has not failed:         *)
(* whatever it has not switched yet is still before it.                    *)
Undisturbed(t) ==
  handler[t].op = "phase" /\ handler[t].alone /\ ~handler[t].failed /\ call[t].at # "failed"

Ahead(t) ==
  CASE call[t].fn = "list" /\ call[t].at = "done"   -> call[t].seen
    [] call[t].fn = "list" /\ call[t].at # "done"   -> Devices
    [] call[t].fn = "switch" /\ call[t].at = "done" -> handler[t].todo \ {call[t].on}
    [] OTHER -> handler[t].todo \cup {call[t].on}

WhileUndisturbed ==
  \A t \in Threads :
  /\ handler[t].op = "phase" =>
       call[t].fn \in {"list", "switch"} /\ (Switching(t) => call[t].value = handler[t].value)
  /\ handler[t].op = "phase" /\ handler[t].alone =>
       /\ \A u \in Threads \ {t} : ~Switching(u) /\ handler[u].op # "phase"
       /\ ~LateCreate /\ \A u \in Threads : ~Creating(u)
  /\ Undisturbed(t) =>
       /\ ~LateUpdate
       /\ \A d \in Registered \ Ahead(t) : server.device[d].profile = handler[t].value

(* A device that appears, or whose profile changes.                        *)
LEMMA DeviceMoves ==
  ASSUME TypeInv, [Next]_vars, NEW d \in Devices
  PROVE  LET old == server.device[d]  new == server'.device[d] IN
         /\ old.exists => new.exists
         /\ ~old.exists /\ new.exists =>
              new.profile = Adr /\ (LateCreate \/ \E t \in Threads : Creating(t))
         /\ old.exists /\ new.profile # old.profile =>
              \/ LateUpdate
              \/ \E t \in Threads : Switching(t) /\ CallAnswered(t) /\ new.profile = call[t].value
<1>0. /\ server \in Server /\ call \in [Threads -> CallRecord]
      /\ \A r \in late : r \in Request /\ r.call \in Writes /\ RequestShape(r)
      /\ \A t \in Threads : Shape(call[t])
      /\ d \notin Kinds
  BY DevicesAreNoKinds DEF TypeInv, TypeOK, ClientTypeOK, Shapes, CallsShaped, LateShaped
<1>1. CASE server' = server
  BY <1>1
<1>2. ASSUME NEW r \in Request, RequestShape(r), server' = Done(r, server)
      PROVE  LET old == server.device[d]  new == server'.device[d] IN
             /\ old.exists => new.exists
             /\ ~old.exists /\ new.exists => new.profile = Adr /\ r.call = "Create" /\ r.on = d
             /\ old.exists /\ new.profile # old.profile =>
                  r.call = "Update" /\ r.on = d /\ new.profile = r.value
  <2>1. r.call = "Update" /\ r.on = d /\ Answer(r, server) = "ok" => server.device[d].exists
    BY <1>0 DEF Answer
  <2> QED BY <1>0, <1>2, <2>1, DoneDevice
<1>3. CASE \E t \in Threads : CallAnswered(t)
  <2>1. PICK t \in Threads : CallAnswered(t)  BY <1>3
  <2> DEFINE r == RequestOf(t)
  <2>2. server' = Done(r, server) /\ r \in Request /\ RequestShape(r)
        /\ r.call = call[t].at /\ r.on = call[t].on /\ r.value = call[t].value
    BY <2>1, RequestGood DEF CallAnswered, RequestOf
  <2> HIDE DEF r
  <2>3. r.call = "Create" /\ r.on = d /\ ~server.device[d].exists => Creating(t)
    BY <1>0, <2>2 DEF Creating, Shape, Running, Calls
  <2>4. r.call = "Update" => Switching(t)
    BY <1>0, <2>2 DEF Switching, Shape, Running, Calls
  <2> QED BY <1>2, <2>1, <2>2, <2>3, <2>4
<1>4. CASE TakeEffectLate
  <2>1. PICK r \in late : server' \in {server, Done(r, server)}
    BY <1>4 DEF TakeEffectLate
  <2>2. CASE server' = Done(r, server)
    <3>1. r.call = "Create" /\ r.on = d /\ ~server.device[d].exists => LateCreate
      BY DEF LateCreate
    <3>2. r.call = "Update" => LateUpdate
      BY DEF LateUpdate
    <3> QED BY <1>0, <1>2, <2>2, <3>1, <3>2
  <2> QED BY <1>1, <2>1, <2>2
<1>5. CASE \E e \in Devices : EditInChirpStack(e)
  <2>1. PICK e \in Devices : EditInChirpStack(e)  BY <1>5
  <2> DEFINE new == [server.device[e] EXCEPT !.name = "edited"]
  <2>2. server' = [server EXCEPT !.device = [server.device EXCEPT ![e] = new]]
    BY <2>1, <1>0 DEF EditInChirpStack, Server
  <2>3. new.exists = server.device[e].exists /\ new.profile = server.device[e].profile
    BY <1>0 DEF Server, Device
  <2> HIDE DEF new
  <2>4. server'.device[d] = IF d = e THEN new ELSE server.device[d]
    BY <1>0, <2>2 DEF Server
  <2> QED BY <2>3, <2>4
<1> QED BY <1>1, <1>3, <1>4, <1>5, ServerMoves

(* Threads that come to create, or to switch, a device.                    *)
LEMMA CreatingMoves ==
  ASSUME TypeInv, [Next]_vars, NEW t \in Threads, Creating(t)', ~Creating(t)
  PROVE  \E d \in Devices, value \in Values : Ask(t, "register", d, value) /\ ~server.device[d].exists
<1>0. call \in [Threads -> CallRecord] /\ \A u \in Threads : Shape(call[u])
  BY DEF TypeInv, TypeOK, ClientTypeOK, Shapes, CallsShaped
<1>1. call'[t].fn = "register" /\ Running(call'[t]) /\ ~server'.device[call'[t].on].exists
  BY DEF Creating
<1>2. ~Proceeds(t)
  <2>1. SUFFICES ASSUME Proceeds(t) PROVE FALSE  OBVIOUS
  <2>2. call[t].fn = "register" /\ Running(call[t]) /\ call'[t].on = call[t].on
    BY <1>1, <2>1 DEF Proceeds
  <2>3. call[t].on \in Devices
    BY <1>0, <2>2 DEF Shape
  <2>4. ~server.device[call[t].on].exists
    BY <1>1, <2>2, <2>3, DeviceMoves
  <2> QED BY <2>2, <2>4 DEF Creating
<1>3. ~Ends(t) /\ ~Starts(t) /\ ~Phases(t) /\ ~Switches(t)
  <2>1. ~Ends(t) /\ ~Switches(t)
    BY <1>1 DEF Ends, Switches, NoCall, None
  <2>2. ~Starts(t)
    BY <1>0, <1>1, EnterFields DEF Starts
  <2>3. ~Phases(t)
    BY <1>0, <1>1, EnterFields DEF Phases, SetPhase
  <2> QED BY <2>1, <2>2, <2>3
<1>4. Asks(t)
  BY <1>2, <1>3, ThreadMoves
<1>5. PICK fn \in {"register", "switch", "enqueue"}, d \in Devices, value \in Values : Ask(t, fn, d, value)
  BY <1>4 DEF Asks
<1>6. call'[t].fn = fn /\ call'[t].on = d /\ server' = server
  BY <1>0, <1>5, EnterFields DEF Ask
<1> QED BY <1>1, <1>5, <1>6

(* The step of set_phase from one device to the next.                      *)
LEMMA SwitchFields ==
  ASSUME TypeInv, NEW t \in Threads, Switches(t)
  PROVE  LET todo   == IF call[t].fn = "list" THEN call[t].seen ELSE handler[t].todo \ {call[t].on}
             failed == handler[t].failed \/ call[t].at = "failed" IN
         /\ handler[t].op = "phase" /\ Returned(t)
         /\ handler'[t].op = "phase" /\ handler'[t].value = handler[t].value
         /\ handler'[t].alone = handler[t].alone
         /\ handler'[t].todo = todo /\ handler'[t].failed = failed
         /\ call'[t].at = "Get" /\ call'[t].on \in todo /\ call'[t].value = handler[t].value
         /\ \A u \in Threads \ {t} : call'[u] = call[u] /\ handler'[u] = handler[u]
         /\ UNCHANGED <<server, late>>
<1>0. call \in [Threads -> CallRecord] /\ handler \in [Threads -> Handler]
  BY TypeParts DEF TypeInv, TypeOK, ClientTypeOK
<1> DEFINE todo   == IF call[t].fn = "list" THEN call[t].seen ELSE handler[t].todo \ {call[t].on}
           failed == handler[t].failed \/ call[t].at = "failed"
<1>1. ~Return(t)
  <2>1. Return(t) => call'[t].fn = None
    BY <1>0 DEF Return, NoCall
  <2> QED BY <2>1 DEF Switches, None
<1>2. PICK d \in todo : Enter(t, "switch", d, handler[t].value, held[t])
  BY <1>1 DEF Switches, PhaseStep
<1>3. /\ handler' = [handler EXCEPT ![t].todo = todo, ![t].failed = failed]
      /\ handler[t].op = "phase" /\ Returned(t) /\ UNCHANGED <<server, late>>
  BY <1>1 DEF Switches, PhaseStep
<1>4. call'[t].at = "Get" /\ call'[t].on = d /\ call'[t].value = handler[t].value
      /\ \A u \in Threads \ {t} : call'[u] = call[u]
  BY <1>0, <1>2, EnterFields DEF First
<1> HIDE DEF todo, failed
<1>5. /\ handler'[t] = [handler[t] EXCEPT !.todo = todo, !.failed = failed]
      /\ \A u \in Threads \ {t} : handler'[u] = handler[u]
  BY <1>0, <1>3
<1>6. /\ handler'[t].op = handler[t].op /\ handler'[t].value = handler[t].value
      /\ handler'[t].alone = handler[t].alone
      /\ handler'[t].todo = todo /\ handler'[t].failed = failed
  BY <1>0, <1>5 DEF Handler
<1> QED BY <1>2, <1>3, <1>4, <1>5, <1>6 DEF todo, failed

LEMMA SwitchingMoves ==
  ASSUME TypeInv, [Next]_vars, NEW t \in Threads, Switching(t)'
  PROVE  \/ Switching(t) /\ Proceeds(t) /\ call'[t].value = call[t].value
         \/ \E d \in Devices, value \in Profiles : Ask(t, "switch", d, value)
         \/ Switches(t)
<1>0. call \in [Threads -> CallRecord]
  BY DEF TypeInv, TypeOK, ClientTypeOK
<1>1. call'[t].fn = "switch" /\ Running(call'[t])
  BY DEF Switching
<1>2. CASE Proceeds(t)
  BY <1>1, <1>2 DEF Proceeds, Switching
<1>3. ~Ends(t) /\ ~Starts(t) /\ ~Phases(t)
  <2>1. ~Ends(t)
    BY <1>1 DEF Ends, NoCall, None
  <2>2. ~Starts(t)
    BY <1>0, <1>1, EnterFields DEF Starts
  <2>3. ~Phases(t)
    BY <1>0, <1>1, EnterFields DEF Phases, SetPhase
  <2> QED BY <2>1, <2>2, <2>3
<1>4. CASE Asks(t)
  <2>1. PICK fn \in {"register", "switch", "enqueue"}, d \in Devices, value \in Values :
          Ask(t, fn, d, value) /\ (fn = "switch" => value \in Profiles)
    BY <1>4 DEF Asks
  <2>2. call'[t].fn = fn
    BY <1>0, <2>1, EnterFields DEF Ask
  <2> QED BY <1>1, <2>1, <2>2
<1> QED BY <1>2, <1>3, <1>4, ThreadMoves

(* Requests that come late were somebody's.                                *)
LEMMA LateMoves ==
  ASSUME TypeInv, [Next]_vars
  PROVE  /\ LateCreate' => LateCreate \/ \E t \in Threads : Creating(t)
         /\ LateUpdate' => \/ LateUpdate
                           \/ \E t \in Threads : Switching(t) /\ (handler'[t].op # None => call'[t].at = "failed")
<1>0. /\ \A t \in Threads : Shape(call[t])
      /\ Devices \cap Kinds = {}
  BY DevicesAreNoKinds DEF TypeInv, Shapes, CallsShaped
<1>1. ASSUME LateCreate'  PROVE LateCreate \/ \E t \in Threads : Creating(t)
  <2>1. PICK r \in late' : r.call = "Create" /\ r.on \in Devices /\ ~server'.device[r.on].exists
    BY <1>1 DEF LateCreate
  <2>2. ~server.device[r.on].exists
    BY <2>1, DeviceMoves
  <2>3. CASE r \in late
    BY <2>1, <2>2, <2>3 DEF LateCreate
  <2>4. CASE r \notin late
    <3>1. PICK t \in Threads : InCall(t) /\ r = RequestOf(t)
      BY <2>4, ServerMoves DEF LeftBehind
    <3>2. call[t].at = "Create" /\ call[t].on = r.on
      BY <2>1, <3>1 DEF RequestOf
    <3> QED BY <1>0, <2>1, <2>2, <3>2 DEF Shape, Creating, Running, Calls
  <2> QED BY <2>3, <2>4
<1>2. ASSUME LateUpdate', ~LateUpdate
      PROVE  \E t \in Threads : Switching(t) /\ (handler'[t].op # None => call'[t].at = "failed")
  <2>1. PICK r \in late' \ late : r.call = "Update"
    BY <1>2 DEF LateUpdate
  <2>2. PICK t \in Threads : InCall(t) /\ r = RequestOf(t) /\ (handler'[t].op # None => call'[t].at = "failed")
    BY <2>1, ServerMoves DEF LeftBehind
  <2>3. call[t].at = "Update"
    BY <2>1, <2>2 DEF RequestOf
  <2> QED BY <1>0, <2>2, <2>3 DEF Shape, Switching, Running, Calls
<1> QED BY <1>1, <1>2

(* What a handler becomes.                                                 *)
LEMMA HandlerMoves ==
  ASSUME TypeInv, [Next]_vars, NEW t \in Threads, handler'[t].op = "phase"
  PROVE  (Proceeds(t) /\ handler[t].op = "phase") \/ Phases(t) \/ Switches(t)
<1>0. handler \in [Threads -> Handler]
  BY TypeParts DEF TypeInv, TypeOK
<1>1. CASE Proceeds(t)
  BY <1>0, <1>1 DEF Proceeds, Disturbed, Handler
<1>2. ~Ends(t) /\ ~Starts(t)
  BY NoHandlerType DEF Ends, Starts, None
<1>3. ~Asks(t)
  <2>1. SUFFICES ASSUME NEW fn, NEW d, NEW value, Ask(t, fn, d, value) PROVE FALSE
    BY DEF Asks
  <2> DEFINE mine == [NoHandler EXCEPT !.op = "single"]
             h    == [handler EXCEPT ![t] = mine]
  <2>2. mine.op = "single" /\ Disturbed(mine).op = "single"
    BY DEF NoHandler, Disturbed
  <2>3. h[t] = mine /\ handler' = Disturbance(fn, d, h)
    BY <1>0, <2>1 DEF Ask
  <2> HIDE DEF mine, h
  <2>4. handler'[t] \in {mine, Disturbed(mine)}
    BY <2>3 DEF Disturbance, Disturbed
  <2> QED BY <2>2, <2>4
<1> QED BY <1>1, <1>2, <1>3, ThreadMoves

(* What another writer of profiles does to a set_phase and to the label.   *)
LEMMA AskDisturbs ==
  ASSUME TypeInv, NEW u \in Threads, NEW fn, NEW d, NEW value, Ask(u, fn, d, value), Disturbs(fn, d)
  PROVE  /\ \A t \in Threads : handler'[t].alone = FALSE
         /\ settled' => settled /\ (fn = "register" => label = Adr)
<1> DEFINE h == [handler EXCEPT ![u] = [NoHandler EXCEPT !.op = "single"]]
<1>1. handler' = [t \in Threads |-> [h[t] EXCEPT !.alone = FALSE]]
  BY DEF Ask, Disturbance
<1>2. \A t \in Threads : h[t] \in Handler
  <2>1. handler \in [Threads -> Handler]
    BY TypeParts DEF TypeInv, TypeOK
  <2>2. [NoHandler EXCEPT !.op = "single"] \in Handler
    BY NoHandlerType DEF Handler
  <2> QED BY <2>1, <2>2
<1> HIDE DEF h
<1>3. \A t \in Threads : handler'[t].alone = FALSE
  BY <1>1, <1>2 DEF Handler
<1> QED BY <1>3 DEF Ask

LEMMA SetPhaseFields ==
  ASSUME TypeInv, NEW t \in Threads, NEW profile \in Profiles, SetPhase(t, profile)
  PROVE  /\ call'[t].fn = "list" /\ call'[t].at = "List"
         /\ \A u \in Threads \ {t} : call'[u] = call[u] /\ handler'[u] = Disturbed(handler[u])
         /\ handler'[t].alone =>
              /\ \A u \in Threads : handler[u].op # "phase" /\ call[u].fn \notin {"switch", "register"}
              /\ \A r \in late : r.call \notin {"Create", "Update"}
         /\ UNCHANGED <<server, late>> /\ settled' = FALSE
<1>0. call \in [Threads -> CallRecord]
  BY DEF TypeInv, TypeOK, ClientTypeOK
<1>1. call'[t].fn = "list" /\ call'[t].at = "List" /\ \A u \in Threads \ {t} : call'[u] = call[u]
  BY <1>0, EnterFields DEF SetPhase, First
<1>2. \A u \in Threads \ {t} : handler'[u] = Disturbed(handler[u])
  BY DEF SetPhase, Disturbed
<1>3. handler'[t].alone =>
        /\ \A u \in Threads : handler[u].op # "phase" /\ call[u].fn \notin {"switch", "register"}
        /\ \A r \in late : r.call \notin {"Create", "Update"}
  BY DEF SetPhase
<1> QED BY <1>1, <1>2, <1>3 DEF SetPhase

LEMMA AloneNext ==
  ASSUME TypeInv, [Next]_vars, WhileUndisturbed, NEW t \in Threads, handler'[t].op = "phase", handler'[t].alone
  PROVE  /\ \A u \in Threads \ {t} : ~Switching(u)' /\ handler'[u].op # "phase"
         /\ ~LateCreate' /\ \A u \in Threads : ~Creating(u)'
<1>0. call \in [Threads -> CallRecord] /\ handler \in [Threads -> Handler]
  BY TypeParts DEF TypeInv, TypeOK, ClientTypeOK
<1>1. \A u \in Threads, d \in Devices, value \in Values, fn \in Functions :
        Ask(u, fn, d, value) => ~Disturbs(fn, d)
  BY AskDisturbs
<1>2. CASE Proceeds(t) /\ handler[t].op = "phase"
  <2>1. handler[t].alone
    BY <1>0, <1>2 DEF Proceeds, Disturbed, Handler
  <2>2. /\ \A u \in Threads \ {t} : ~Switching(u) /\ handler[u].op # "phase"
        /\ ~LateCreate /\ \A u \in Threads : ~Creating(u)
    BY <1>2, <2>1 DEF WhileUndisturbed
  <2>3. ASSUME NEW u \in Threads \ {t}  PROVE ~Switching(u)' /\ handler'[u].op # "phase"
    <3>1. ~Switches(u)
      BY <2>2, <2>3, SwitchFields
    <3>2. ~\E d \in Devices, value \in Profiles : Ask(u, "switch", d, value)
      BY <1>1 DEF Disturbs, Functions, Values
    <3>3. ~Phases(u)
      <4>1. handler'[t] = Disturbed(handler[t]) => ~handler'[t].alone
        BY <1>0 DEF Disturbed, Handler
      <4> QED BY <2>3, <4>1, SetPhaseFields DEF Phases
    <3>4. handler'[u].op # "phase"
      BY <2>2, <2>3, <3>1, <3>3, HandlerMoves
    <3> QED BY <2>2, <2>3, <3>1, <3>2, <3>4, SwitchingMoves
  <2>4. ~LateCreate'
    BY <2>2, LateMoves
  <2>5. ASSUME NEW u \in Threads  PROVE ~Creating(u)'
    <3>1. \A d \in Devices, value \in Values : Ask(u, "register", d, value) => server.device[d].exists
      BY <1>1 DEF Disturbs, Functions
    <3> QED BY <2>2, <3>1, CreatingMoves
  <2> QED BY <2>3, <2>4, <2>5
<1>3. CASE Phases(t)
  <2>1. PICK profile \in Profiles : SetPhase(t, profile)
    BY <1>3 DEF Phases
  <2>2. /\ call'[t].fn = "list"
        /\ \A u \in Threads \ {t} : call'[u] = call[u] /\ handler'[u] = Disturbed(handler[u])
        /\ \A u \in Threads : handler[u].op # "phase" /\ call[u].fn \notin {"switch", "register"}
        /\ \A r \in late : r.call \notin {"Create", "Update"}
        /\ UNCHANGED <<server, late>>
    BY <2>1, SetPhaseFields
  <2>3. \A u \in Threads \ {t} : handler'[u].op # "phase"
    BY <1>0, <2>2 DEF Disturbed, Handler
  <2>4. \A u \in Threads : call'[u].fn \notin {"switch", "register"}
    BY <2>2
  <2> QED BY <2>2, <2>3, <2>4 DEF Switching, Creating, LateCreate
<1>4. CASE Switches(t)
  <2>1. /\ handler[t].op = "phase" /\ handler[t].alone
        /\ \A u \in Threads \ {t} : call'[u] = call[u] /\ handler'[u] = handler[u]
        /\ UNCHANGED <<server, late>> /\ call'[t].fn = "switch"
    BY <1>4, SwitchFields DEF Switches
  <2>2. /\ \A u \in Threads \ {t} : ~Switching(u) /\ handler[u].op # "phase"
        /\ ~LateCreate /\ \A u \in Threads : ~Creating(u)
    BY <2>1 DEF WhileUndisturbed
  <2> QED BY <2>1, <2>2 DEF Switching, Creating, LateCreate
<1> QED BY <1>2, <1>3, <1>4, HandlerMoves

(* What an undisturbed set_phase has still to switch.                      *)
LEMMA AheadIs ==
  ASSUME NEW t \in Threads
  PROVE  /\ call[t].fn = "list" /\ call[t].at = "done" => Ahead(t) = call[t].seen
         /\ call[t].fn = "list" /\ call[t].at # "done" => Ahead(t) = Devices
         /\ call[t].fn = "switch" /\ call[t].at = "done" => Ahead(t) = handler[t].todo \ {call[t].on}
         /\ call[t].fn = "switch" /\ call[t].at # "done" => Ahead(t) = handler[t].todo \cup {call[t].on}
         /\ call'[t].fn = "list" /\ call'[t].at = "done" => Ahead(t)' = call'[t].seen
         /\ call'[t].fn = "list" /\ call'[t].at # "done" => Ahead(t)' = Devices
         /\ call'[t].fn = "switch" /\ call'[t].at = "done" => Ahead(t)' = handler'[t].todo \ {call'[t].on}
         /\ call'[t].fn = "switch" /\ call'[t].at # "done" => Ahead(t)' = handler'[t].todo \cup {call'[t].on}
BY DEF Ahead

LEMMA AheadMoves ==
  ASSUME TypeInv, [Next]_vars, NEW t \in Threads, Proceeds(t), handler'[t] = handler[t],
         call[t].fn \in {"list", "switch"}, call'[t].at # "failed"
  PROVE  /\ call[t].at # "failed"
         /\ \A d \in Devices : d \in Ahead(t) /\ d \notin Ahead(t)' =>
              \/ ~server.device[d].exists
              \/ Switching(t) /\ server'.device[d].profile = call[t].value
<1>0. call \in [Threads -> CallRecord] /\ call[t] \in CallRecord /\ Shape(call[t]) /\ server \in Server
  BY DEF TypeInv, TypeOK, ClientTypeOK, Shapes, CallsShaped
<1>1. CASE Same(call[t], call'[t])
  BY <1>1, AheadIs DEF Same
<1>2. CASE Resumed(t) \/ Entered(t)
  <2>1. Running(call'[t]) /\ call'[t].at # "done"
    <3>1. CASE Resumed(t)
      BY <3>1 DEF Resumed, Running, Calls
    <3>2. CASE Entered(t)
      <4>1. PICK fn \in Functions : call'[t].at = First[fn]
        BY <1>0, <3>2, EnterFields DEF Entered
      <4> QED BY <4>1 DEF First, Functions, Running, Calls
    <3> QED BY <1>2, <3>1, <3>2
  <2>2. Running(call[t]) /\ call'[t].fn = call[t].fn /\ call'[t].on = call[t].on
    BY <2>1 DEF Proceeds
  <2>3. call[t].at \notin {"done", "failed"}
    BY <2>2 DEF Running, Calls
  <2> QED BY <2>1, <2>2, <2>3, AheadIs
<1>3. ~Abandoned(t) /\ call'[t] # NoCall
  <2>1. ~Abandoned(t)
    BY LeftFields DEF Abandoned
  <2>2. call'[t] # NoCall
    BY DEF NoCall, None, Proceeds
  <2> QED BY <2>1, <2>2
<1>4. CASE CallAnswered(t)
  <2> DEFINE r == RequestOf(t)
             next == NextCall(call[t].fn, call[t].at, Answer(r, server))
  <2>1. call[t].at \notin {"done", "failed"} /\ Running(call[t])
    BY <1>4 DEF CallAnswered, InCall, Calls, Running
  <2>2. /\ call'[t].at = next /\ call'[t].fn = call[t].fn /\ call'[t].on = call[t].on
        /\ next \in {"done", "failed"} => call'[t].seen = IF call[t].fn = "list" THEN Registered ELSE {}
        /\ server' = Done(r, server)
    BY <1>4, AnsweredFields
  <2>3. \/ next = "done" /\ (call[t].fn = "switch" => call[t].at = "Update" /\ Answer(r, server) = "ok")
        \/ call[t].fn = "switch" /\ next = "Update"
    BY <2>2, NextCalls
  <2>4. r \in Request /\ RequestShape(r) /\ r.call = call[t].at /\ r.on = call[t].on /\ r.value = call[t].value
    BY <1>4, RequestGood DEF CallAnswered, RequestOf
  <2> HIDE DEF r, next
  <2>5. CASE call[t].fn = "list"
    <3>1. Ahead(t)' = Registered
      BY <2>2, <2>3, <2>5, AheadIs
    <3> QED BY <2>1, <3>1 DEF Registered
  <2>6. CASE call[t].fn = "switch" /\ next = "Update"
    BY <2>1, <2>2, <2>6, AheadIs
  <2>7. CASE call[t].fn = "switch" /\ next = "done"
    <3>1. \A d \in Devices : d \in Ahead(t) /\ d \notin Ahead(t)' => d = r.on
      BY <2>1, <2>2, <2>4, <2>7, AheadIs
    <3>2. \A d \in Devices : d = r.on => server'.device[d].profile = r.value
      BY <1>0, <2>2, <2>3, <2>4, <2>7, DoneDevice
    <3> QED BY <2>1, <2>4, <2>7, <3>1, <3>2 DEF Switching
  <2> QED BY <2>3, <2>5, <2>6, <2>7
<1> QED BY <1>1, <1>2, <1>3, <1>4, CallMoves

LEMMA UndisturbedNext == TypeInv /\ WhileUndisturbed /\ [Next]_vars => WhileUndisturbed'
<1> SUFFICES ASSUME TypeInv, WhileUndisturbed, [Next]_vars, NEW t \in Threads, handler'[t].op = "phase"
             PROVE  /\ call'[t].fn \in {"list", "switch"}
                    /\ Switching(t)' => call'[t].value = handler'[t].value
                    /\ handler'[t].alone =>
                         /\ \A u \in Threads \ {t} : ~Switching(u)' /\ handler'[u].op # "phase"
                         /\ ~LateCreate' /\ \A u \in Threads : ~Creating(u)'
                    /\ Undisturbed(t)' =>
                         /\ ~LateUpdate'
                         /\ \A d \in Registered' \ Ahead(t)' : server'.device[d].profile = handler'[t].value
  BY DEF WhileUndisturbed, Undisturbed
<1>0. /\ call \in [Threads -> CallRecord] /\ handler \in [Threads -> Handler]
      /\ Registered \subseteq Devices /\ Registered' \subseteq Devices
  BY TypeParts DEF TypeInv, TypeOK, ClientTypeOK, Registered
<1>1. handler'[t].alone =>
        /\ \A u \in Threads \ {t} : ~Switching(u)' /\ handler'[u].op # "phase"
        /\ ~LateCreate' /\ \A u \in Threads : ~Creating(u)'
  BY AloneNext
<1>2. CASE Proceeds(t) /\ handler[t].op = "phase"
  <2>1. call[t].fn \in {"list", "switch"} /\ (Switching(t) => call[t].value = handler[t].value)
    BY <1>2 DEF WhileUndisturbed
  <2>2. handler'[t].value = handler[t].value /\ (handler'[t].alone => handler'[t] = handler[t])
    BY <1>0, <1>2 DEF Proceeds, Disturbed, Handler
  <2>3. call'[t].fn \in {"list", "switch"} /\ (Switching(t)' => call'[t].value = handler'[t].value)
    BY <1>2, <2>1, <2>2 DEF Proceeds, Switching
  <2>4. ASSUME Undisturbed(t)'
        PROVE  /\ ~LateUpdate'
               /\ \A d \in Registered' \ Ahead(t)' : server'.device[d].profile = handler'[t].value
    <3>1. handler'[t] = handler[t] /\ handler[t].alone /\ ~handler[t].failed /\ call'[t].at # "failed"
      BY <2>2, <2>4 DEF Undisturbed
    <3>2. Undisturbed(t)
      BY <1>2, <2>1, <3>1, AheadMoves DEF Undisturbed
    <3>3. /\ \A u \in Threads \ {t} : ~Switching(u)
          /\ ~LateCreate /\ \A u \in Threads : ~Creating(u)
          /\ ~LateUpdate
          /\ \A d \in Registered \ Ahead(t) : server.device[d].profile = handler[t].value
      BY <1>2, <3>1, <3>2 DEF WhileUndisturbed
    <3>4. ~LateUpdate'
      BY <1>2, <3>1, <3>3, LateMoves DEF None
    <3>5. ASSUME NEW d \in Registered' \ Ahead(t)'  PROVE server'.device[d].profile = handler[t].value
      <4>1. d \in Devices /\ server.device[d].exists
        <5>1. d \in Devices /\ server'.device[d].exists
          BY <3>5 DEF Registered
        <5> QED BY <3>3, <5>1, DeviceMoves
      <4>2. CASE server'.device[d].profile # server.device[d].profile
        BY <2>1, <3>3, <4>1, <4>2, DeviceMoves
      <4>3. CASE server'.device[d].profile = server.device[d].profile /\ d \notin Ahead(t)
        BY <3>3, <4>1, <4>3 DEF Registered
      <4>4. CASE d \in Ahead(t)
        BY <1>2, <2>1, <3>1, <3>5, <4>1, <4>4, AheadMoves
      <4> QED BY <4>2, <4>3, <4>4
    <3> QED BY <3>1, <3>4, <3>5
  <2> QED BY <1>1, <2>3, <2>4
<1>3. CASE Phases(t)
  <2>1. PICK profile \in Profiles : SetPhase(t, profile)
    BY <1>3 DEF Phases
  <2>2. /\ call'[t].fn = "list" /\ call'[t].at = "List" /\ UNCHANGED <<server, late>>
        /\ handler'[t].alone => \A r \in late : r.call \notin {"Create", "Update"}
    BY <2>1, SetPhaseFields
  <2>3. Ahead(t)' = Devices
    BY <2>2, AheadIs
  <2>4. handler'[t].alone => ~LateUpdate'
    BY <2>2 DEF LateUpdate
  <2> QED BY <1>0, <1>1, <2>2, <2>3, <2>4 DEF Switching, Undisturbed
<1>4. CASE Switches(t)
  <2> DEFINE todo == IF call[t].fn = "list" THEN call[t].seen ELSE handler[t].todo \ {call[t].on}
  <2>1. /\ handler[t].op = "phase" /\ Returned(t)
        /\ handler'[t].value = handler[t].value /\ handler'[t].alone = handler[t].alone
        /\ handler'[t].todo = todo /\ handler'[t].failed = (handler[t].failed \/ call[t].at = "failed")
        /\ call'[t].at = "Get" /\ call'[t].on \in todo /\ call'[t].value = handler[t].value
        /\ UNCHANGED <<server, late>> /\ call'[t].fn = "switch"
    BY <1>4, SwitchFields DEF Switches
  <2>2. ASSUME Undisturbed(t)'
        PROVE  /\ ~LateUpdate'
               /\ \A d \in Registered' \ Ahead(t)' : server'.device[d].profile = handler'[t].value
    <3>1. Undisturbed(t) /\ call[t].at = "done" /\ call[t].fn \in {"list", "switch"}
      BY <2>1, <2>2 DEF Undisturbed, Returned, WhileUndisturbed
    <3>2. Ahead(t) = todo /\ Ahead(t)' = todo
      BY <2>1, <3>1, AheadIs
    <3> HIDE DEF todo
    <3> QED BY <2>1, <3>1, <3>2 DEF WhileUndisturbed, LateUpdate, Registered
  <2> QED BY <1>1, <2>1, <2>2
<1> QED BY <1>2, <1>3, <1>4, HandlerMoves

(* How the label comes to be right: it was, or a set_phase has succeeded.  *)
Succeeds(t) ==
  /\ handler[t].op = "phase" /\ Undisturbed(t) /\ call[t].at = "done"
  /\ (IF call[t].fn = "list" THEN call[t].seen ELSE handler[t].todo \ {call[t].on}) = {}
  /\ label' = handler[t].value /\ call' = [call EXCEPT ![t] = NoCall]
  /\ handler' = [handler EXCEPT ![t] = NoHandler]
  /\ UNCHANGED <<server, late>>

LEMMA SettledMoves ==
  ASSUME TypeInv, [Next]_vars, settled'
  PROVE  \/ settled /\ label' = label /\ \A t \in Threads : ~Phases(t)
         \/ \E t \in Threads : Succeeds(t)
<1>1. ~\E t \in Threads, profile \in Profiles : SetPhase(t, profile)
  BY DEF SetPhase
<1>2. ~Restart
  BY DEF Restart
<1>3. ASSUME NEW t \in Threads, PhaseStep(t)  PROVE Succeeds(t) \/ (settled /\ label' = label)
  <2> DEFINE todo   == IF call[t].fn = "list" THEN call[t].seen ELSE handler[t].todo \ {call[t].on}
             failed == handler[t].failed \/ call[t].at = "failed"
  <2>1. CASE ~Return(t)
    BY <1>3, <2>1 DEF PhaseStep
  <2>2. CASE Return(t)
    <3>1. \/ (todo = {} \/ (call[t].fn = "list" /\ failed)) /\ PhaseReached(failed) /\ handler[t].alone
             /\ label' = handler[t].value
          \/ settled /\ label' = label
      BY <1>3 DEF PhaseStep
    <3> QED BY <1>3, <2>2, <3>1 DEF PhaseStep, PhaseReached, Succeeds, Undisturbed, Returned, Return
  <2> QED BY <2>1, <2>2
<1>4. ASSUME NEW t \in Threads, NEW d \in Devices, NEW profile \in Profiles,
             RegisterDevice(t, d) \/ SwitchDevice(t, d, profile) \/ EnqueueDownlink(t, d)
      PROVE  settled /\ label' = label
  BY <1>4 DEF RegisterDevice, SwitchDevice, EnqueueDownlink, Ask
<1>5. CASE (ClientNext /\ UNCHANGED <<mode, attempt, handler, label, settled>>) \/ Connect \/ LoginFails
             \/ (\E t \in Threads : Provision(t) \/ Finish(t)) \/ UNCHANGED vars
  <2>1. settled' = settled /\ label' = label
    BY <1>5 DEF Connect, LoginFails, Provision, Finish, vars
  <2> QED BY <1>1, <2>1 DEF Phases
<1> QED BY <1>1, <1>2, <1>3, <1>4, <1>5, ChirpStackAssumption DEF Next, Phases

LEMMA SettledNext == TypeInv /\ WhileUndisturbed /\ WhileSettled /\ [Next]_vars => WhileSettled'
<1> SUFFICES ASSUME TypeInv, WhileUndisturbed, WhileSettled, [Next]_vars, settled'
             PROVE  /\ \A d \in Registered' : server'.device[d].profile = label'
                    /\ \A t \in Threads : ~Switching(t)' /\ handler'[t].op # "phase"
                    /\ ~LateUpdate'
                    /\ LateCreate' \/ (\E t \in Threads : Creating(t)') => label' = Adr
  BY DEF WhileSettled
<1>0. /\ call \in [Threads -> CallRecord] /\ handler \in [Threads -> Handler]
  BY TypeParts DEF TypeInv, TypeOK, ClientTypeOK
<1>1. CASE settled /\ label' = label /\ \A t \in Threads : ~Phases(t)
  <2>1. /\ \A d \in Registered : server.device[d].profile = label
        /\ \A t \in Threads : ~Switching(t) /\ handler[t].op # "phase"
        /\ ~LateUpdate
        /\ LateCreate \/ (\E t \in Threads : Creating(t)) => label = Adr
    BY <1>1 DEF WhileSettled
  <2>2. ASSUME NEW d \in Registered'  PROVE server'.device[d].profile = label
    <3>1. d \in Devices /\ server'.device[d].exists
      BY <2>2 DEF Registered
    <3>2. server.device[d].exists => server.device[d].profile = label
      BY <2>1, <3>1 DEF Registered
    <3> QED BY <2>1, <3>1, <3>2, DeviceMoves
  <2>3. ASSUME NEW t \in Threads  PROVE ~Switching(t)' /\ handler'[t].op # "phase"
    <3>1. ~Switches(t)
      BY <2>1, SwitchFields
    <3>2. \A d \in Devices, value \in Profiles : ~Ask(t, "switch", d, value)
      BY DEF Ask, Disturbs
    <3>3. ~Switching(t)'
      BY <2>1, <3>1, <3>2, SwitchingMoves
    <3> QED BY <1>1, <2>1, <3>1, <3>3, HandlerMoves
  <2>4. ~LateUpdate'
    BY <2>1, LateMoves
  <2>5. LateCreate' => label = Adr
    BY <2>1, LateMoves
  <2>6. ASSUME NEW t \in Threads, Creating(t)'  PROVE label = Adr
    <3>1. \A d \in Devices, value \in Values :
            Ask(t, "register", d, value) /\ ~server.device[d].exists => label = Adr
      BY DEF Ask, Disturbs
    <3> QED BY <2>1, <2>6, <3>1, CreatingMoves
  <2> QED BY <1>1, <2>2, <2>3, <2>4, <2>5, <2>6
<1>2. CASE \E t \in Threads : Succeeds(t)
  <2>1. PICK t \in Threads : Succeeds(t)
    BY <1>2
  <2>2. /\ handler[t].op = "phase" /\ handler[t].alone /\ call[t].fn \in {"list", "switch"}
        /\ \A u \in Threads \ {t} : ~Switching(u) /\ handler[u].op # "phase"
        /\ ~LateCreate /\ \A u \in Threads : ~Creating(u)
        /\ ~LateUpdate
        /\ \A d \in Registered \ Ahead(t) : server.device[d].profile = handler[t].value
    BY <2>1 DEF Succeeds, Undisturbed, WhileUndisturbed
  <2>3. Ahead(t) = {}
    BY <2>1, <2>2, AheadIs DEF Succeeds
  <2>4. /\ call'[t] = NoCall /\ handler'[t] = NoHandler /\ UNCHANGED <<server, late>>
        /\ label' = handler[t].value
        /\ \A u \in Threads \ {t} : call'[u] = call[u] /\ handler'[u] = handler[u]
    BY <1>0, <2>1 DEF Succeeds
  <2>5. call'[t].fn = None /\ handler'[t].op = None
    BY <2>4, NoHandlerType DEF NoCall
  <2>6. \A u \in Threads : ~Switching(u)' /\ ~Creating(u)' /\ handler'[u].op # "phase"
    BY <2>2, <2>4, <2>5 DEF Switching, Creating, None
  <2> QED BY <2>2, <2>3, <2>4, <2>6 DEF Registered, LateUpdate, LateCreate
<1> QED BY <1>1, <1>2, SettledMoves

LEMMA ProfilesInit == Init => WhileSettled /\ WhileUndisturbed
<1> SUFFICES ASSUME Init PROVE WhileSettled /\ WhileUndisturbed  OBVIOUS
<1>1. \A t \in Threads : call[t].fn = None /\ handler[t].op = None
  BY NoHandlerType DEF Init, ClientInit, NoCall
<1>2. \A d \in Registered : server.device[d].profile = label
  BY ServerInit DEF Init, Registered
<1>3. late = {}
  BY DEF Init, ClientInit
<1> QED BY <1>1, <1>2, <1>3 DEF WhileSettled, WhileUndisturbed, Undisturbed, Switching, Creating, LateUpdate, LateCreate, None

(* After a set_phase that succeeds undisturbed, whatever happens until the *)
(* next writer of profiles, the label of the CSV rows is the profile of    *)
(* every registered device.                                                *)
THEOREM LabelIsRight == Spec => []LabelIsTheProfile
<1>1. WhileSettled => LabelIsTheProfile
  BY DEF WhileSettled, LabelIsTheProfile
<1> QED BY InitType, NextType, ProfilesInit, UndisturbedNext, SettledNext, <1>1, PTL DEF Spec
=============================================================================
