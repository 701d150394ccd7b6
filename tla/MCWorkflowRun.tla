----------------------------- MODULE MCWorkflowRun -----------------------------
(***************************************************************************)
(* Small instances of WorkflowRun for TLC.                                 *)
(***************************************************************************)
EXTENDS WorkflowRun, TLC

\* start, a POD tool, its approval, a catalog action, end.
LineKind == <<"start", "internal_action", "approval_gate", "internal_action", "end">>
LineSucc == <<{2}, {3}, {4}, {5}, {}>>

\* start, a condition that leads to a POD tool or to an approval and a catalog action, end.
ForkKind == <<"start", "condition_gate", "approval_gate", "internal_action", "internal_action", "end">>
ForkSucc == <<{2}, {3, 4}, {5}, {6}, {6}, {}>>

\* Members and workers are interchangeable.
Interchange == Permutations(Member) \cup Permutations(Worker)
=============================================================================
