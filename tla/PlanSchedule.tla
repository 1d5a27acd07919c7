---------------------------- MODULE PlanSchedule ----------------------------
(***************************************************************************)
(* What executing a plan promises, whatever the scheduler: every node goes *)
(* from pending through running to success or failure, or is skipped; it   *)
(* runs only when all it needs has succeeded; it is skipped only because   *)
(* of a failure; at most Cap nodes run at once; and the run ends when and  *)
(* only when nothing is pending or running.                                *)
(***************************************************************************)
EXTENDS Integers, FiniteSets

CONSTANTS Nodes, Cap

VARIABLES need,      \* node -> the set of nodes it needs
          failFast,  \* one failure stops the whole plan
          status,    \* node -> its status
          done       \* the run has reported its results
vars == <<need, failFast, status, done>>

With(S) == {n \in Nodes : status[n] \in S}

Init == /\ need \in [Nodes -> SUBSET Nodes]
        /\ failFast \in BOOLEAN
        /\ status = [n \in Nodes |-> "pending"]
        /\ done = FALSE

\* A cause for skipping n, once the step is over.
Blocked(n) ==
  \/ \E d \in need[n] : status'[d] \in {"failure", "skipped"}
  \/ failFast /\ With({"failure"})' # {}

Move(n) ==
  \/ status'[n] = status[n]
  \/ /\ status[n] = "pending" /\ status'[n] = "running"
     /\ \A d \in need[n] : status[d] = "success" \/ status'[d] = "success"
  \/ status[n] = "running" /\ status'[n] \in {"success", "failure"}
  \/ status[n] = "pending" /\ status'[n] = "skipped" /\ Blocked(n)

\* One settling handler may start, skip and end many nodes' waits at once, but
\* it is one handler: a second node settles in another step.
Advance ==
  /\ ~done
  /\ UNCHANGED <<need, failFast>>
  /\ status' \in [Nodes -> {"pending", "running", "success", "failure", "skipped"}]
  /\ \A n \in Nodes : Move(n)
  /\ Cardinality(With({"running"}) \cap With({"success", "failure"})') <= 1
  /\ Cardinality(With({"running"})') <= Cap
  /\ done' = (With({"pending", "running"})' = {})

Spec == Init /\ [][Advance]_vars
=============================================================================
