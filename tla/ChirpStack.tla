------------------------------ MODULE ChirpStack -------------------------------
(***************************************************************************)
(* The gRPC client (cockpit/app/chirpstack.py): a bearer token cached in   *)
(* module state, and functions of one to four remote calls, each retried   *)
(* once as a whole when ChirpStack rejects the token.  Threads call the    *)
(* functions at the same time and nothing but the token cache is locked,   *)
(* so remote calls of different threads interleave freely.                 *)
(*                                                                         *)
(* A remote call may be refused for its token, fail without effect, or     *)
(* time out (_GRPC_TIMEOUT) while ChirpStack goes on with it: such a       *)
(* request is in `late` until it takes effect or is dropped.               *)
(* Time is abstracted to what the cache tells apart: a token is fresh,     *)
(* within _TOKEN_REFRESH_MARGIN of its expiry, or expired.  A request      *)
(* handler takes less time than the margin, unless the clock jumps.        *)
(***************************************************************************)
EXTENDS Naturals, FiniteSets

CONSTANTS
  Threads,    \* the event loop and the thread pool's workers
  Devices,    \* DevEUIs
  Profiles,   \* device profiles, by name
  Adr,        \* PROFILE_NAME, the profile of new devices
  MaxFaults   \* bound: time-outs, restarts, clock jumps and revocations

ASSUME ChirpStackAssumption == Adr \in Profiles /\ MaxFaults \in Nat /\ IsFiniteSet(Threads)

Kinds   == {"tenant", "application", "profiles"}   \* found or created at start-up
Targets == Devices \cup Kinds
None    == "none"
Values  == Profiles \cup {None}
Names   == {"ours", "edited"}   \* the name it was created with, or the one of ChirpStack's own UI

ASSUME DevicesAreNoKinds == Devices \cap Kinds = {}

Functions == {"list", "switch", "register", "enqueue", "provision"}
Calls     == {"List", "Get", "Create", "CreateKeys", "UpdateKeys", "Update", "Enqueue"}

Device  == [exists: BOOLEAN, profile: Profiles, keys: BOOLEAN, name: Names]
Server  == [device: [Devices -> Device], objects: [Kinds -> Nat], queued: Nat]
Request == [call: Calls, on: Targets, value: Values, name: Names,
            id: Threads \X (0..MaxFaults)]   \* tells requests apart that ask for the same
Token   == [good: BOOLEAN,      \* ChirpStack accepts it
            early: BOOLEAN,     \* handed out with more than the margin left
            excused: BOOLEAN]   \* history: clock jump or revocation since

VARIABLES
  cache,    \* _cached_token: none or expired, fresh, within the margin, revoked
  held,     \* thread -> the token its handler keeps for several calls
  call,     \* thread -> the function it is in
  server,   \* external: what ChirpStack stores
  late,     \* requests that timed out and that ChirpStack has not dropped
  faults,   \* bound
  asked,    \* history: calls of enqueue_downlink
  lost,     \* history: kinds of which a Create was given up on
  kept      \* history: device -> its name, unless a switch overlapped an edit

clientVars == <<cache, held, call, server, late, faults, asked, lost, kept>>

CallRecord == [fn: Functions \cup {None}, on: Targets, value: Values,
               name: Names, seen: SUBSET Devices,      \* what Get and List have read
               at: Calls \cup {"renew", "done", "failed"}, token: Token,
               retried: BOOLEAN]
Unknown == "unknown"

ClientTypeOK ==
  /\ cache \in {None, "fresh", "margin", "revoked"}
  /\ held \in [Threads -> Token] /\ call \in [Threads -> CallRecord]
  /\ server \in Server
  /\ late \subseteq Request
  /\ faults \in 0..MaxFaults /\ asked \in Nat /\ lost \subseteq Kinds
  /\ kept \in [Devices -> Names \cup {Unknown}]

SomeTarget == CHOOSE k \in Kinds : TRUE
NoToken == [good |-> FALSE, early |-> FALSE, excused |-> TRUE]
NoCall  == [fn |-> None, on |-> SomeTarget, value |-> None, name |-> "ours", seen |-> {}, at |-> "done",
            token |-> NoToken, retried |-> FALSE]

ClientInit ==
  /\ cache = None
  /\ held = [t \in Threads |-> NoToken]
  /\ call = [t \in Threads |-> NoCall]
  /\ server \in [device: [Devices -> [exists: BOOLEAN, profile: {Adr}, keys: {FALSE}, name: {"ours"}]],
                 objects: {[k \in Kinds |-> 0]}, queued: {0}]
  /\ late = {} /\ faults = 0 /\ asked = 0 /\ lost = {}
  /\ kept = [d \in Devices |-> "ours"]

-----------------------------------------------------------------------------
(***************************************************************************)
(* ChirpStack: what a request answers, and what it leaves behind.          *)
(***************************************************************************)
Answer(r, s) ==
  IF r.on \in Kinds
  THEN IF r.call = "List" /\ s.objects[r.on] = 0 THEN "not_found" ELSE "ok"
  ELSE CASE r.call = "Create" /\ s.device[r.on].exists -> "exists"
         [] r.call # "Create" /\ ~s.device[r.on].exists -> "not_found"
         [] r.call = "CreateKeys" /\ s.device[r.on].exists /\ s.device[r.on].keys -> "exists"
         [] OTHER -> "ok"

(* Names are not unique in ChirpStack: Create makes another one. *)
Effect(r, s) ==
  CASE r.call = "Create" /\ r.on \in Kinds -> [s EXCEPT !.objects[r.on] = @ + 1]
    [] r.call = "Create" /\ r.on \notin Kinds ->
         [s EXCEPT !.device[r.on] = [exists |-> TRUE, profile |-> Adr, keys |-> FALSE, name |-> "ours"]]
    [] r.call \in {"CreateKeys", "UpdateKeys"} -> [s EXCEPT !.device[r.on].keys = TRUE]
    [] r.call = "Update" -> [s EXCEPT !.device[r.on].profile = r.value, !.device[r.on].name = r.name]
    [] r.call = "Enqueue" -> [s EXCEPT !.queued = @ + 1]
    [] OTHER -> s

Done(r, s) == IF Answer(r, s) = "ok" THEN Effect(r, s) ELSE s

Writes == {"Create", "CreateKeys", "UpdateKeys", "Update", "Enqueue"}

(* What is left of a request whose caller has given up. *)
TakeEffectLate ==
  /\ \E r \in late : /\ late' = late \ {r}
                     /\ server' \in {server, Done(r, server)}
  /\ UNCHANGED <<cache, held, call, faults, asked, lost, kept>>

-----------------------------------------------------------------------------
(***************************************************************************)
(* The token.                                                              *)
(***************************************************************************)
NoteTokens(f) ==
  /\ held' = [t \in Threads |-> f[held[t]]]
  /\ call' = [t \in Threads |-> [call[t] EXCEPT !.token = f[@]]]

(* Time passes; whoever got a token with the margin left has finished by   *)
(* the time it expires.                                                    *)
Age ==
  /\ \/ cache = "fresh" /\ cache' = "margin" /\ UNCHANGED <<held, call>>
     \/ /\ cache = "margin" /\ cache' = None
        /\ \A t \in Threads : ~held[t].early /\ ~call[t].token.early
        /\ NoteTokens([token \in Token |-> [token EXCEPT !.good = FALSE]])
  /\ UNCHANGED <<server, late, faults, asked, lost, kept>>

Upset(token) == [token EXCEPT !.good = FALSE, !.excused = TRUE]

(* The clock jumps ("no buffered RTC"), or ChirpStack stops accepting the  *)
(* tokens it has issued although they look fresh.                          *)
RetireTokens ==
  /\ faults < MaxFaults /\ faults' = faults + 1
  /\ cache # None /\ cache' \in {None} \cup (IF cache = "fresh" THEN {"revoked"} ELSE {})
  /\ NoteTokens([token \in Token |-> Upset(token)])
  /\ UNCHANGED <<server, late, asked, lost, kept>>

Fresh == [good |-> TRUE, early |-> TRUE, excused |-> FALSE]

(* Bug: a token is used until it expires. *)
CachedToTheEnd ==
  CASE cache = "fresh" -> Fresh
    [] cache = "margin" -> [Fresh EXCEPT !.early = FALSE]
    [] cache = "revoked" -> Upset(Fresh)
    [] OTHER -> NoToken

(* get_token: the cached token if it is good for more than the margin, or  *)
(* else (NoToken) a login.  The lock is held until the login is over.      *)
Cached ==
  CASE cache = "fresh" -> Fresh
    [] cache = "revoked" -> Upset(Fresh)
    [] OTHER -> NoToken

GetToken(token) ==
  \/ Cached # NoToken /\ token = Cached /\ UNCHANGED cache
  \/ Cached = NoToken /\ token = Fresh /\ cache' = "fresh"

Tokens == {Cached, Fresh}

-----------------------------------------------------------------------------
(***************************************************************************)
(* The functions.  Their control flow: function, remote call, answer, and  *)
(* the call that comes next.  Any other answer is raised.                  *)
(***************************************************************************)
First == [list |-> "List", switch |-> "Get", register |-> "Get",
          enqueue |-> "Enqueue", provision |-> "List"]

ListSteps      == {<<"list", "List", "ok", "done">>}
SwitchSteps    == {<<"switch", "Get", "ok", "Update">>, <<"switch", "Update", "ok", "done">>}
EnqueueSteps   == {<<"enqueue", "Enqueue", "ok", "done">>}
ProvisionSteps == {<<"provision", "List", "ok", "done">>,
                   <<"provision", "List", "not_found", "Create">>,
                   <<"provision", "Create", "ok", "done">>}
RegisterSteps  == {<<"register", "Get", "ok", "CreateKeys">>,
                   <<"register", "Get", "not_found", "Create">>,
                   <<"register", "Create", "ok", "CreateKeys">>,
                   <<"register", "CreateKeys", "ok", "done">>,
                   <<"register", "CreateKeys", "exists", "UpdateKeys">>,
                   <<"register", "UpdateKeys", "ok", "done">>}

Steps == ListSteps \cup SwitchSteps \cup EnqueueSteps \cup ProvisionSteps \cup RegisterSteps

NextCall(fn, at, answer) ==
  LET steps == {f \in Steps : f[1] = fn /\ f[2] = at /\ f[3] = answer} IN
  IF steps = {} THEN "failed" ELSE (CHOOSE f \in steps : TRUE)[4]

(* A caller enters a function with `token`, which it has from get_token. *)
Enter(t, fn, on, value, token) ==
  /\ call' = [call EXCEPT ![t] = [NoCall EXCEPT !.fn = fn, !.on = on, !.value = value,
                                                !.at = First[fn], !.token = token]]
  /\ asked' = IF fn = "enqueue" THEN asked + 1 ELSE asked

(* The function has returned: a result, or an error raised to the caller. *)
Left(t, outcome, seen) ==
  [NoCall EXCEPT !.fn = call[t].fn, !.on = call[t].on, !.at = outcome, !.seen = seen]

Raise(t) == call' = [call EXCEPT ![t] = Left(t, "failed", {})]

InCall(t) == call[t].at \in Calls

RequestOf(t) == [call |-> call[t].at, on |-> call[t].on, value |-> call[t].value, name |-> call[t].name,
                 id |-> <<t, faults>>]

Registered == {d \in Devices : server.device[d].exists}

(* Bug: Update sends a device that holds the new profile only. *)
ReadNothing(t) == "ours"

(* What Get has read, for the Update that follows it. *)
ReadName(t) == IF call[t].fn = "switch" THEN server.device[call[t].on].name ELSE "ours"

CallAnswered(t) ==
  /\ InCall(t) /\ call[t].token.good
  /\ LET answer == Answer(RequestOf(t), server)
         next   == NextCall(call[t].fn, call[t].at, answer) IN
     /\ server' = Done(RequestOf(t), server)
     /\ call' = [call EXCEPT ![t] =
                   IF next \in {"done", "failed"}
                   THEN Left(t, next, IF call[t].fn = "list" THEN Registered ELSE {})
                   ELSE [@ EXCEPT !.at = next, !.name = IF next = "Update" THEN ReadName(t) ELSE call[t].name]]
  /\ UNCHANGED <<cache, held, late, faults, asked, lost, kept>>

(* UNAVAILABLE and the like, or a token that is rejected again after its   *)
(* renewal: raised to the caller at once.                                  *)
CallFails(t) ==
  /\ InCall(t) /\ Raise(t)
  /\ UNCHANGED <<cache, held, server, late, faults, asked, lost, kept>>

(* The callers are gone, ChirpStack has their requests. *)
GiveUp(callers) ==
  /\ late' = late \cup {RequestOf(u) : u \in callers}
  /\ lost' = lost \cup {k \in Kinds : \E u \in callers : call[u].at = "Create" /\ call[u].on = k}

(* Bug: whatever the error, the function is called once more. *)
CallTimesOutRetried(t) ==
  /\ InCall(t) /\ call[t].token.good
  /\ faults < MaxFaults /\ faults' = faults + 1
  /\ call[t].at \in Writes /\ GiveUp({t})
  /\ IF call[t].retried THEN Raise(t) ELSE call' = [call EXCEPT ![t].at = "renew"]
  /\ UNCHANGED <<cache, held, server, asked, kept>>

(* DEADLINE_EXCEEDED: raised as well, but ChirpStack still has it.  A      *)
(* time-out before the request has arrived is a CallFails.                 *)
CallTimesOut(t) ==
  /\ InCall(t) /\ call[t].token.good
  /\ faults < MaxFaults /\ faults' = faults + 1
  /\ call[t].at \in Writes /\ GiveUp({t}) /\ Raise(t)
  /\ UNCHANGED <<cache, held, server, asked, kept>>

(* UNAUTHENTICATED: _renew_token_on_auth_error starts over, once. *)
CallRejected(t) ==
  /\ InCall(t) /\ ~call[t].token.good /\ ~call[t].retried
  /\ call' = [call EXCEPT ![t].at = "renew"]
  /\ UNCHANGED <<cache, held, server, late, faults, asked, lost, kept>>

(* get_token with force_refresh: a login, whatever the cache holds. *)
Renew(t) ==
  /\ call[t].at = "renew"
  /\ call' = [call EXCEPT ![t].at = First[call[t].fn], ![t].token = Fresh, ![t].retried = TRUE]
  /\ cache' = "fresh"
  /\ UNCHANGED <<held, server, late, faults, asked, lost, kept>>

(* The login fails: the cache stays as it is, the caller gets the error. *)
RenewFails(t) ==
  /\ call[t].at = "renew" /\ Raise(t)
  /\ UNCHANGED <<cache, held, server, late, faults, asked, lost, kept>>

(* An operator edits the device in ChirpStack's own UI. *)
EditInChirpStack(d) ==
  /\ server.device[d].exists /\ server.device[d].name = "ours"
  /\ server' = [server EXCEPT !.device[d].name = "edited"]
  /\ kept' = [kept EXCEPT ![d] =
       IF (\E t \in Threads : call[t].fn = "switch" /\ call[t].on = d)
            \/ (\E r \in late : r.on = d /\ r.call = "Update")
       THEN Unknown ELSE "edited"]
  /\ UNCHANGED <<cache, held, call, late, faults, asked, lost>>

ClientNext ==
  \/ \E t \in Threads : \/ CallAnswered(t) \/ CallFails(t) \/ CallTimesOut(t) \/ CallRejected(t)
                        \/ Renew(t) \/ RenewFails(t)
  \/ \E d \in Devices : EditInChirpStack(d)
  \/ TakeEffectLate \/ Age \/ RetireTokens

-----------------------------------------------------------------------------
(***************************************************************************)
(* Properties.                                                             *)
(***************************************************************************)
(* The token a function travels with is one that ChirpStack accepts,       *)
(* however long the cockpit runs, unless the clock jumped or ChirpStack    *)
(* retired its tokens after it was handed out; and after a renewal, only   *)
(* what happened after the renewal excuses a second rejection.             *)
RejectionsAreExplained ==
  \A t \in Threads : InCall(t) => call[t].token.good \/ call[t].token.excused

(* A switch sends back the whole device that it has read: it keeps what    *)
(* was edited in ChirpStack before it, starting over after a rejection     *)
(* included, and loses at most an edit that it overlaps.                   *)
EditsSurvive ==
  \A d \in Devices : kept[d] # Unknown => server.device[d].name = kept[d]

(* Retries, failed attempts, restarts and late requests do nothing twice:  *)
(* ChirpStack queues no more downlinks than enqueue_downlink was called    *)
(* for, and has no second tenant, application or profile of a name, unless *)
(* a Create that was given up on takes effect after all.                   *)
NothingTwice ==
  /\ server.queued <= asked
  /\ \A k \in Kinds \ lost : server.objects[k] <= 1
=============================================================================
