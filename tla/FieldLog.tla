------------------------------- MODULE FieldLog -------------------------------
(***************************************************************************)
(* What the field log promises to its readers, whatever the handlers do    *)
(* and in whatever order: a run is opened once, under the next number, and *)
(* is closed once, as done or as aborted, for good; a forced gateway move  *)
(* aborts all the open runs or none; a node is at one place at a time, and *)
(* a new place always has a newer number than every place in use.          *)
(* Workflow.tla implements it.                                             *)
(***************************************************************************)
EXTENDS Naturals

CONSTANTS Nodes, RunIds, PlacementIds

VARIABLES
  status,   \* run -> its status
  here      \* node -> its current placement, 0 when it was never placed

fieldVars == <<status, here>>

FieldInit ==
  /\ status = [r \in RunIds |-> "absent"]
  /\ here = [n \in Nodes |-> 0]

Open(r) ==
  /\ status[r] = "absent"
  /\ \A q \in RunIds : q < r => status[q] # "absent"
  /\ status' = [status EXCEPT ![r] = "running"]
  /\ UNCHANGED here

Finish(r) ==
  /\ status[r] = "running"
  /\ status' = [status EXCEPT ![r] = "done"]
  /\ UNCHANGED here

AbortAll ==
  /\ status' = [r \in RunIds |-> IF status[r] = "running" THEN "aborted" ELSE status[r]]
  /\ UNCHANGED here

Put(n, p) ==
  /\ \A m \in Nodes : here[m] < p
  /\ here' = [here EXCEPT ![n] = p]
  /\ UNCHANGED status

FieldNext ==
  \/ \E r \in RunIds : Open(r) \/ Finish(r)
  \/ AbortAll
  \/ \E n \in Nodes, p \in PlacementIds : Put(n, p)

FieldSpec == FieldInit /\ [][FieldNext]_fieldVars
=============================================================================
