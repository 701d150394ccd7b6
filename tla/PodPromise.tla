------------------------------ MODULE PodPromise ------------------------------
(***************************************************************************)
(* What docs/integration/pod-response-recovery.md promises of an artwork   *)
(* task, without queues, workers, leases or storage: the provider is paid  *)
(* at most once, and only after the task has recorded that it is about to  *)
(* ask; a request whose receipt is recorded, with the place its answer is  *)
(* stored at or was to be, is adopted or given up, and a request without   *)
(* one never ends as anything but uncertain.  (The document asks for the   *)
(* stored answer itself; the code goes by the record.)                     *)
(* PodArtwork.tla is shown to implement this module.                       *)
(***************************************************************************)
EXTENDS Naturals

CONSTANT Task

VARIABLES
  stage,   \* how far a task has come
  spent    \* how often the provider has been asked

vars == <<stage, spent>>

Stage == {"absent", "waiting", "asked", "answered", "adopted", "stopped", "uncertain"}

Init ==
  /\ stage = [t \in Task |-> "absent"]
  /\ spent = [t \in Task |-> 0]

Move(t, from, to) ==
  /\ stage[t] \in from
  /\ stage' = [stage EXCEPT ![t] = to]
  /\ UNCHANGED spent

Create(t) == Move(t, {"absent"}, "waiting")

\* The point of no return is recorded before the provider hears of the task.
Ask(t) == Move(t, {"waiting"}, "asked")

\* A slow process may pay after others have given the answer up for lost.
Pay(t) ==
  /\ stage[t] \in {"asked", "uncertain"}
  /\ spent[t] = 0
  /\ spent' = [spent EXCEPT ![t] = 1]
  /\ UNCHANGED stage

\* The receipt and the place of the answer are recorded.
Save(t) == spent[t] = 1 /\ Move(t, {"asked"}, "answered")
Adopt(t) == Move(t, {"answered"}, "adopted")
Lose(t) == Move(t, {"asked"}, "uncertain")
Stop(t) == Move(t, {"waiting", "answered"}, "stopped")

Next ==
  \E t \in Task :
    Create(t) \/ Ask(t) \/ Pay(t) \/ Save(t) \/ Adopt(t) \/ Lose(t) \/ Stop(t)

Spec == Init /\ [][Next]_vars
=============================================================================
