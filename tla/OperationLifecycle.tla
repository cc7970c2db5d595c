------------------------- MODULE OperationLifecycle -------------------------
(***************************************************************************)
(* What the API promises about the recovery operations of a workload       *)
(* (api/v1alpha1/aiworkload_types.go: ActiveOperation is "the in-flight or *)
(* last terminal recovery operation"), without journal, projection, passes *)
(* or crashes: at any time there is one current operation.  A started      *)
(* operation is in progress; it gets at most one outcome, which stays; a   *)
(* finished one may be forgotten; a new one may take its place.            *)
(***************************************************************************)
EXTENDS Naturals

CONSTANTS
  Operations,   \* everything an operation can be, as records with a state
  None          \* no operation

VARIABLES
  current,      \* the current operation
  started       \* how many were started

vars == <<current, started>>

Running(op) == op.state = "InProgress"

Init == current = None /\ started = 0

\* A request is accepted: a new operation, in progress.
Start ==
  /\ current' \in Operations
  /\ Running(current')
  /\ started' = started + 1
  /\ current'.requestedAt = started'

\* The operation in progress gets its outcome.
Finish ==
  /\ Running(current)
  /\ \E s \in {"Succeeded", "Failed", "Superseded"} :
       current' = [current EXCEPT !.state = s]
  /\ UNCHANGED started

\* A finished operation is forgotten once the spec has moved on.
Retire ==
  /\ current # None /\ ~Running(current)
  /\ current' = None
  /\ UNCHANGED started

Next == Start \/ Finish \/ Retire

Spec == Init /\ [][Next]_vars
=============================================================================
