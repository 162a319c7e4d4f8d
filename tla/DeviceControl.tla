----------------------------- MODULE DeviceControl -----------------------------
(***************************************************************************)
(* The cockpit's use of ChirpStack (cockpit/app/main.py): the start-up     *)
(* that provisions it, and the handlers that register devices, switch the  *)
(* profiles of one or all of them, and enqueue downlinks.  Each takes a    *)
(* token and then calls functions of the client, one after the other.      *)
(*                                                                         *)
(* CampaignState's phase is a label in memory that every row of the        *)
(* campaign's CSV file carries: it stands for the profile the devices have *)
(* in ChirpStack, and nothing but set_phase relates the two.               *)
(* Look-ups that only read (the profile's id) are part of the call they    *)
(* precede.                                                                *)
(***************************************************************************)
EXTENDS ChirpStack

CONSTANTS
  MaxAttempts,    \* attempts to connect at start-up
  MaxDownlinks    \* bound: calls of enqueue_downlink

ASSUME ControlAssumption == MaxAttempts \in Nat \ {0} /\ MaxDownlinks \in Nat

VARIABLES
  mode,      \* starting, serving, or degraded: no channel until the next start
  attempt,   \* attempts of this start-up that have failed
  handler,   \* thread -> the request it works on
  label,     \* _phase
  settled    \* history: nothing has touched profiles since set_phase succeeded

vars == <<clientVars, mode, attempt, handler, label, settled>>

NoHandler == [op |-> None, value |-> None, todo |-> {}, failed |-> FALSE, alone |-> FALSE]

ControlTypeOK ==
  /\ mode \in {"starting", "serving", "degraded"}
  /\ attempt \in 0..MaxAttempts
  /\ handler \in [Threads -> [op: {None, "start", "phase", "single"}, value: Values,
                              todo: SUBSET Devices, failed: BOOLEAN, alone: BOOLEAN]]
  /\ label \in Profiles /\ settled \in BOOLEAN

Init ==
  /\ ClientInit
  /\ mode = "starting" /\ attempt = 0
  /\ handler = [t \in Threads |-> NoHandler]
  /\ label = Adr /\ settled = TRUE

Free(t)     == handler[t].op = None
Returned(t) == call[t].fn # None /\ call[t].at \in {"done", "failed"}

Return(t) == /\ call' = [call EXCEPT ![t] = NoCall]
             /\ held' = [held EXCEPT ![t] = NoToken]
             /\ handler' = [handler EXCEPT ![t] = NoHandler]
             /\ UNCHANGED asked

-----------------------------------------------------------------------------
(***************************************************************************)
(* Start-up: ten attempts to get a token, the tenant and the application;  *)
(* then the profiles, of which a missing one is only logged.               *)
(***************************************************************************)
Connect ==
  \E t \in Threads, token \in Tokens :
  /\ mode = "starting" /\ \A u \in Threads : Free(u)
  /\ handler' = [handler EXCEPT ![t].op = "start"]
  /\ GetToken(token) /\ held' = [held EXCEPT ![t] = token]
  /\ Enter(t, "provision", "tenant", None, token)
  /\ UNCHANGED <<server, late, faults, lost, kept, mode, attempt, label, settled>>

AttemptFails ==
  /\ attempt' = attempt + 1
  /\ mode' = IF attempt' = MaxAttempts THEN "degraded" ELSE mode

LoginFails ==
  /\ mode = "starting" /\ Cached = NoToken /\ \A u \in Threads : Free(u)
  /\ AttemptFails
  /\ UNCHANGED <<clientVars, handler, label, settled>>

Then(t, kind) ==
  /\ Enter(t, "provision", kind, None, held[t])
  /\ UNCHANGED <<held, handler, mode, attempt>>

Provision(t) ==
  LET c == call[t] IN
  /\ handler[t].op = "start" /\ Returned(t)
  /\ \/ c.on = "tenant" /\ c.at = "done" /\ Then(t, "application")
     \/ c.on = "application" /\ c.at = "done" /\ Then(t, "profiles")
     \/ c.on = "profiles" /\ Return(t) /\ mode' = "serving" /\ attempt' = 0
     \/ c.on # "profiles" /\ c.at = "failed" /\ Return(t) /\ AttemptFails
  /\ UNCHANGED <<cache, server, late, faults, lost, kept, label, settled>>

-----------------------------------------------------------------------------
(***************************************************************************)
(* Requests.  _grpc answers 503 while there is no channel or no token.     *)
(***************************************************************************)
(* What a new writer of profiles disturbs: the label, and a set_phase that *)
(* is under way.  A new device gets the profile of the phase "adr".        *)
Disturbs(fn, d) ==
  \/ fn = "switch"
  \/ fn = "register" /\ ~server.device[d].exists

Disturbance(fn, d, h) ==
  IF Disturbs(fn, d) THEN [u \in Threads |-> [h[u] EXCEPT !.alone = FALSE]] ELSE h

Ask(t, fn, d, value) ==
  /\ mode = "serving" /\ Free(t)
  /\ \E token \in Tokens : GetToken(token) /\ Enter(t, fn, d, value, token)
  /\ handler' = Disturbance(fn, d, [handler EXCEPT ![t] = [NoHandler EXCEPT !.op = "single"]])
  /\ settled' = (settled /\ ~(Disturbs(fn, d) /\ (fn = "register" => label # Adr)))
  /\ UNCHANGED <<held, server, late, faults, lost, kept, mode, attempt, label>>

(* POST /api/devices *)
RegisterDevice(t, d) == server.objects["profiles"] > 0 /\ Ask(t, "register", d, None)

(* The switch of start_run and of the sweep tick: to a fixed SF, and       *)
(* without a look at the phase.                                            *)
SwitchDevice(t, d, profile) ==
  profile # Adr /\ server.objects["profiles"] > 0 /\ Ask(t, "switch", d, profile)

(* POST /api/downlink and its like *)
EnqueueDownlink(t, d) == asked < MaxDownlinks /\ Ask(t, "enqueue", d, None)

Finish(t) ==
  /\ handler[t].op = "single" /\ Returned(t)
  /\ Return(t)
  /\ UNCHANGED <<cache, server, late, faults, lost, kept, mode, attempt, label, settled>>

(* POST /api/phase: the devices are listed, and switched one by one. *)
SetPhase(t, profile) ==
  /\ mode = "serving" /\ Free(t) /\ server.objects["profiles"] > 0
  /\ \E token \in Tokens : /\ GetToken(token) /\ held' = [held EXCEPT ![t] = token]
                           /\ Enter(t, "list", "application", None, token)
  /\ LET quiet == /\ \A u \in Threads : handler[u].op # "phase" /\ call[u].fn \notin {"switch", "register"}
                  /\ \A r \in late : r.call \notin {"Create", "Update"} IN
     handler' = [u \in Threads |->
       IF u = t THEN [op |-> "phase", value |-> profile, todo |-> {}, failed |-> FALSE, alone |-> quiet]
       ELSE [handler[u] EXCEPT !.alone = FALSE]]
  /\ settled' = FALSE
  /\ UNCHANGED <<server, late, faults, lost, kept, mode, attempt, label>>

(* Bug: the phase is set although some devices have failed. *)
PhaseLabelled(failed) == TRUE

PhaseReached(failed) == ~failed

(* _apply_phase_to_devices goes on after a device that fails. *)
PhaseStep(t) ==
  LET c      == call[t]
      h      == handler[t]
      todo   == IF c.fn = "list" THEN c.seen ELSE h.todo \ {c.on}
      failed == h.failed \/ c.at = "failed" IN
  /\ h.op = "phase" /\ Returned(t)
  /\ \/ /\ todo = {} \/ (c.fn = "list" /\ failed)
        /\ label' = IF PhaseReached(failed) THEN h.value ELSE label
        /\ settled' = (PhaseReached(failed) /\ h.alone)
        /\ Return(t)
     \/ /\ ~(c.fn = "list" /\ failed)
        /\ \E d \in todo : Enter(t, "switch", d, h.value, held[t])
        /\ handler' = [handler EXCEPT ![t].todo = todo, ![t].failed = failed]
        /\ UNCHANGED <<held, label, settled>>
  /\ UNCHANGED <<cache, server, late, faults, lost, kept, mode, attempt>>

-----------------------------------------------------------------------------
(* The process dies; a request of it that ChirpStack has goes on.  The     *)
(* phase is "adr" again, the devices keep their profiles.                  *)
Restart ==
  /\ faults < MaxFaults /\ faults' = faults + 1
  /\ \E callers \in SUBSET {t \in Threads : InCall(t) /\ call[t].at \in Writes /\ call[t].token.good} :
       GiveUp(callers)
  /\ cache' = None
  /\ held' = [t \in Threads |-> NoToken] /\ call' = [t \in Threads |-> NoCall]
  /\ handler' = [t \in Threads |-> NoHandler]
  /\ mode' = "starting" /\ attempt' = 0
  /\ label' = Adr /\ settled' = FALSE
  /\ UNCHANGED <<server, asked, kept>>

Next ==
  \/ ClientNext /\ UNCHANGED <<mode, attempt, handler, label, settled>>
  \/ Connect \/ LoginFails
  \/ \E t \in Threads, d \in Devices :
       \/ RegisterDevice(t, d)
       \/ \E profile \in Profiles : SwitchDevice(t, d, profile)
       \/ EnqueueDownlink(t, d)
  \/ \E t \in Threads : Provision(t) \/ Finish(t) \/ PhaseStep(t) \/ (\E profile \in Profiles : SetPhase(t, profile))
  \/ Restart

Spec == Init /\ [][Next]_vars

-----------------------------------------------------------------------------
(***************************************************************************)
(* Properties.                                                             *)
(***************************************************************************)
TypeOK == ClientTypeOK /\ ControlTypeOK

(* The phase that rows of the campaign are labelled with is the profile of *)
(* every registered device: from a set_phase that succeeds with no other   *)
(* writer of profiles beside it, until the next such writer or restart.    *)
LabelIsTheProfile ==
  settled => \A d \in Registered : server.device[d].profile = label
=============================================================================
