---------------------------- MODULE MCPublication ----------------------------
(***************************************************************************)
(* Small instances of Publication for TLC, and its refinement of           *)
(* PublicationPromise.                                                     *)
(***************************************************************************)
EXTENDS Publication, TLC

CONSTANT d1

\* Every activation continues the one draft.
MCDraftOf == [a \in Activation |-> d1]

Interchange == Permutations(Client) \cup Permutations(PublicationWorker)

-----------------------------------------------------------------------------
PhaseOf(s) ==
  CASE s \in Waiting -> "waiting"
    [] s \in {"processing"} \cup Progress -> "working"
    [] s = "draft_created" -> "created"
    [] s \in {"absent", "cancelled"} -> s
    [] OTHER -> "ended"

Recorded(r) ==
  IF r \in Draft
  THEN IF status[r] = "draft_created" THEN {"create"} ELSE {}
  ELSE {p[1] : p \in StepsThrough(progress[r])}

Promise == INSTANCE PublicationPromise WITH
  phase <- [r \in Request |-> PhaseOf(status[r])],
  recorded <- [r \in Request |-> Recorded(r)],
  done <- [r \in Request |-> {p \in Part : sent[r][p] > 0}]

\* Queues, workers, leases and retries are invisible: a request takes its steps once,
\* in order, and ends once.
KeepsPromise == Promise!Spec

=============================================================================
