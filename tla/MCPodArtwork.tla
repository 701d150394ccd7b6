----------------------------- MODULE MCPodArtwork -----------------------------
(***************************************************************************)
(* Small instances of PodArtwork for TLC, and its refinement of            *)
(* PodPromise.                                                             *)
(***************************************************************************)
EXTENDS PodArtwork, TLC

Interchange == Permutations(Worker)

-----------------------------------------------------------------------------
\* How far a task has come, read off its rows.
StageOf(r) ==
  CASE r.status = "absent" -> "absent"
    [] r.phase = "completed" -> "adopted"
    [] r.phase = "failed" -> "stopped"
    [] r.phase = "uncertain" -> "uncertain"
    [] r.phase \notin TerminalPhase /\ r.status # "absent" ->
         IF r.pinned THEN "answered" ELSE IF Unknown(r) THEN "asked" ELSE "waiting"

Promise == INSTANCE PodPromise WITH
  stage <- [t \in Task |-> StageOf(row[t])],
  spent <- paid

\* Jobs, leases, dispatches and storage are invisible: a task asks once, pays once, and
\* its answer is adopted, given up with its receipt recorded (stored or not), or declared
\* uncertain.
KeepsPromise == Promise!Spec
=============================================================================
