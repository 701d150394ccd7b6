--------------------------- MODULE PublicationPromise ---------------------------
(***************************************************************************)
(* What ADR-003 promises of a publication request, without queues, workers *)
(* or leases: it is admitted once, waits, is worked on and ends; while it  *)
(* is worked on it takes its steps at the provider in order, each at most  *)
(* once, and records a step before the next one.  It is cancelled only     *)
(* while it waits, and an end is an end.  Publication.tla is shown to      *)
(* implement this module.                                                  *)
(***************************************************************************)
EXTENDS Naturals

CONSTANTS Draft, Activation, DraftOf, Images

Request == Draft \cup Activation
Part == ({"create", "configure", "activate"} \X {1}) \cup ({"upload"} \X (1..Images))

VARIABLES
  phase,      \* "absent", "waiting", "working" or how the request ended
  recorded,   \* the steps whose result is recorded
  done        \* the provider requests that have taken effect

vars == <<phase, recorded, done>>

Ended == {"created", "ended", "cancelled"}

Init ==
  /\ phase = [r \in Request |-> "absent"]
  /\ recorded = [r \in Request |-> {}]
  /\ done = [r \in Request |-> {}]

\* The provider requests of a step, and what has to be recorded before they start.
Images_ == {"upload"} \X (1..Images)
PartsOf(step) == IF step = "upload" THEN Images_ ELSE {<<step, 1>>}
Before == [create |-> {}, configure |-> {}, upload |-> {"configure"},
           activate |-> {"configure", "upload"}]
StepsOf(r) == IF r \in Draft THEN {"create"} ELSE {"configure", "upload", "activate"}

\* An activation continues a draft that was created.
Admit(r) ==
  /\ phase[r] = "absent"
  /\ r \in Activation => phase[DraftOf[r]] = "created"
  /\ phase' = [phase EXCEPT ![r] = "waiting"]
  /\ UNCHANGED <<recorded, done>>

Start(r) ==
  /\ phase[r] = "waiting"
  /\ phase' = [phase EXCEPT ![r] = "working"]
  /\ UNCHANGED <<recorded, done>>

\* A provider request takes effect; it never has before.
Apply(r, part) ==
  /\ phase[r] = "working"
  /\ part[1] \in StepsOf(r)
  /\ part \notin done[r]
  /\ Before[part[1]] \subseteq recorded[r]
  /\ part[1] \notin recorded[r]
  /\ done' = [done EXCEPT ![r] = @ \cup {part}]
  /\ UNCHANGED <<phase, recorded>>

\* The images of an upload go in order.
InOrder(r, part) == \A i \in 1..(part[2] - 1) : <<part[1], i>> \in done[r]

\* A step is recorded once all of it has taken effect.
Record(r, step) ==
  /\ phase[r] = "working"
  /\ step \in StepsOf(r) \ recorded[r]
  /\ PartsOf(step) \subseteq done[r]
  /\ recorded' = [recorded EXCEPT ![r] = @ \cup {step}]
  /\ phase' = IF step = "create" THEN [phase EXCEPT ![r] = "created"] ELSE phase
  /\ UNCHANGED done

\* Back to waiting for a retry: nothing is left half done at the provider.
Pause(r) ==
  /\ phase[r] = "working"
  /\ \A part \in done[r] : part[1] \in recorded[r]
  /\ phase' = [phase EXCEPT ![r] = "waiting"]
  /\ UNCHANGED <<recorded, done>>

End(r) ==
  /\ phase[r] \in {"waiting", "working"}
  /\ phase' = [phase EXCEPT ![r] = "ended"]
  /\ UNCHANGED <<recorded, done>>

Cancel(r) ==
  /\ phase[r] = "waiting"
  /\ phase' = [phase EXCEPT ![r] = "cancelled"]
  /\ UNCHANGED <<recorded, done>>

Next ==
  \E r \in Request :
    \/ Admit(r) \/ Start(r) \/ Pause(r) \/ End(r) \/ Cancel(r)
    \/ \E part \in Part : Apply(r, part) /\ InOrder(r, part)
    \/ \E step \in StepsOf(r) : Record(r, step)

Spec == Init /\ [][Next]_vars
=============================================================================
