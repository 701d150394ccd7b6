------------------------------ MODULE PodArtwork ------------------------------
(***************************************************************************)
(* Paid POD artwork: a task row is the durable intent, a minute scheduler  *)
(* and the task's owner put jobs for it on a queue, and workers that hold  *)
(* a five-minute lease cross the provider's boundary once, record the      *)
(* receipt, store the answer before they use it and adopt it as a design   *)
(* version                                                                 *)
(* (packages/pod-core/src/artwork-task.ts, apps/worker/src/processors/     *)
(* pod-artwork.processor.ts, pod-artwork.repository.ts, pod-artwork-       *)
(* recovery.ts, pod-artwork.scheduler.ts).                                 *)
(*                                                                         *)
(* One tenant.  Tasks without an execution row (created before migration   *)
(* 0119) take the repository's legacy branches and are left out.           *)
(***************************************************************************)
EXTENDS Naturals, FiniteSets

CONSTANTS
  Task,         \* owner idempotency keys, one task each
  NoTask,
  Worker,       \* consumers of the pod-artwork queue
  Submittable,  \* tasks whose tool is connected to a processor deployment
  Dispatcher,   \* who puts jobs on the queue: the API call that created the task, the
                \* workflow runtime waiting for it, the worker's scheduler
  Tries,        \* local attempts of one task
  Backlog,      \* deliveries the queue may owe one task
  Faults,       \* kinds of fault that happen
  MaxFaults     \* and how many of them

FaultKind == {"crash", "slow", "stall", "queue", "storage", "database",
              "lost_reply", "bad_reply", "grounds"}

ASSUME PodAssumption ==
  /\ NoTask \notin Task
  /\ Submittable \subseteq Task
  /\ Dispatcher \subseteq {"owner", "workflow", "scheduler"}
  /\ Tries \in Nat \ {0} /\ Backlog \in Nat \ {0}
  /\ Faults \subseteq FaultKind /\ MaxFaults \in Nat

TerminalPhase == {"completed", "failed", "uncertain"}
Phase == {"pending", "preparing", "response_staging", "response_ready"} \cup TerminalPhase
Working == {"claim", "load", "submit", "call", "record", "put", "staged",
            "read", "fetch", "confirm", "stage", "upload", "commit", "fail"}

VARIABLES
  row,      \* task, execution and invocation rows of each task
  object,   \* the private storage holds the encrypted response
  outputs,  \* the authorized storage holds the task's output files
  reply,    \* what the provider answered
  paid,     \* times the provider was called
  queue,    \* deliveries the queue owes
  intents,  \* dispatches reserved in the database and not yet on the queue
  run,      \* worker runs
  grounds,  \* what admission finds: membership, assets, method, originating workflow
  faults    \* faults so far

storage == <<object, outputs>>
vars == <<row, object, outputs, reply, paid, queue, intents, run, grounds, faults>>

\* token: the lease token, one per attempt, 0 for none; live: the lease has not run out;
\* call: what the invocation row proves; pinned: the receipt is recorded with the key of the
\* object that is to hold the answer, which is uploaded after that; versions: design
\* versions created; sentBy: who holds the latest dispatch generation.
NoRow == [status |-> "absent", phase |-> "pending", error |-> "none", versions |-> 0,
          tries |-> 0, token |-> 0, live |-> FALSE, due |-> TRUE,
          call |-> "none", pinned |-> FALSE, retention |-> "kept", manifest |-> FALSE,
          sentBy |-> "none", throttled |-> FALSE]
Idle == [pc |-> "idle", task |-> NoTask, token |-> 0, had |-> FALSE, code |-> "none"]

Init ==
  /\ row = [t \in Task |-> NoRow]
  /\ object = [t \in Task |-> FALSE]
  /\ outputs = [t \in Task |-> FALSE]
  /\ reply = [t \in Task |-> "none"]
  /\ paid = [t \in Task |-> 0]
  /\ queue = [t \in Task |-> 0]
  /\ intents = {}
  /\ run = [w \in Worker |-> Idle]
  /\ grounds = [t \in Task |-> "current"]
  /\ faults = 0

\* One more fault of this kind, while the bound allows it.
Fault(kind) ==
  /\ kind \in Faults
  /\ faults < MaxFaults
  /\ faults' = faults + 1

InProgress(r) ==
  /\ r.status \in {"queued", "running"}
  /\ r.versions = 0
  /\ r.phase \notin TerminalPhase

\* Mutant of Unknown: a recorded receipt counts for nothing.
UnknownOnceSubmitted(r) == r.call \in {"submitted", "received"}

\* The provider may have been paid and no receipt of its answer is recorded.
Unknown(r) == r.call \in {"submitted", "received"} /\ ~r.pinned

\* What stop leaves in the rows.
Stopped(r, code) ==
  [r EXCEPT !.phase = IF code = "uncertain" THEN "uncertain" ELSE "failed",
            !.status = IF code = "blocked" THEN "blocked" ELSE "failed",
            !.error = code, !.token = 0, !.live = FALSE]
-----------------------------------------------------------------------------
(***************************************************************************)
(* The owner, the workflow runtime and the scheduler.                      *)
(***************************************************************************)
\* create: one task per idempotency key; a replay finds it and changes nothing.  A task
\* a workflow creates is dispatched later.
Create(t) ==
  /\ row[t].status = "absent"
  /\ \/ /\ "owner" \in Dispatcher
        /\ row' = [row EXCEPT ![t].status = "queued", ![t].sentBy = "owner", ![t].throttled = TRUE]
        /\ intents' = intents \cup {<<"owner", t>>}
     \/ /\ row' = [row EXCEPT ![t].status = "queued"]
        /\ UNCHANGED intents
  /\ UNCHANGED <<storage, reply, paid, queue, run, grounds, faults>>

\* dispatchPending, which the workflow runtime calls while it waits for the task.
DispatchPending(t) ==
  /\ "workflow" \in Dispatcher
  /\ row[t].status = "queued"
  /\ <<"workflow", t>> \notin intents
  /\ row' = IF row[t].phase = "pending"
            THEN [row EXCEPT ![t].sentBy = "workflow", ![t].throttled = TRUE]
            ELSE row
  /\ intents' = intents \cup {<<"workflow", t>>}
  /\ UNCHANGED <<storage, reply, paid, queue, run, grounds, faults>>

\* Mutant of Reservable: the task of a dead worker is left to it.
ReservableNeverLeased(t) ==
  /\ row[t].status = "queued" /\ row[t].phase = "pending"
  /\ row[t].due /\ ~row[t].throttled

\* The scheduler takes what is due, unleased and not dispatched for a minute.
Reservable(t) ==
  /\ row[t].status \in {"queued", "running"}
  /\ row[t].phase \notin TerminalPhase
  /\ row[t].due /\ ~row[t].live /\ ~row[t].throttled
  /\ \/ row[t].pinned
     \/ row[t].call \in {"submitted", "received"}
     \/ t \in Submittable

Reserve(t) ==
  /\ "scheduler" \in Dispatcher
  /\ Reservable(t)
  /\ <<"scheduler", t>> \notin intents
  /\ row' = [row EXCEPT ![t].sentBy = "scheduler", ![t].throttled = TRUE]
  /\ intents' = intents \cup {<<"scheduler", t>>}
  /\ UNCHANGED <<storage, reply, paid, queue, run, grounds, faults>>

\* The queue owes one more delivery, up to the bound of the model.
Owed(t) == IF queue[t] < Backlog THEN [queue EXCEPT ![t] = @ + 1] ELSE queue

Enqueue(d, t) ==
  /\ <<d, t>> \in intents
  /\ intents' = intents \ {<<d, t>>}
  /\ queue' = Owed(t)
  /\ UNCHANGED <<row, storage, reply, paid, run, grounds, faults>>

\* A failed enqueue reopens the dispatch, unless a later one has taken it over.
Reopened(d, t) ==
  LET r == row[t] IN
  /\ r.sentBy = d
  /\ IF d = "scheduler" THEN r.phase \notin TerminalPhase ELSE r.phase = "pending"

EnqueueFails(d, t) ==
  /\ Fault("queue")
  /\ <<d, t>> \in intents
  /\ intents' = intents \ {<<d, t>>}
  /\ row' = [row EXCEPT ![t].throttled = IF Reopened(d, t) THEN FALSE ELSE @,
                        ![t].error = IF d # "scheduler" /\ row[t].status = "queued"
                                     THEN "queue" ELSE @]
  /\ UNCHANGED <<storage, reply, paid, queue, run, grounds>>

DispatcherDies(d, t) ==
  /\ Fault("crash")
  /\ <<d, t>> \in intents
  /\ intents' = intents \ {<<d, t>>}
  /\ UNCHANGED <<row, storage, reply, paid, queue, run, grounds>>

\* Mutant of Purge: the outputs nobody adopted are left.
PurgeResponseOnly(t) ==
  /\ row[t].retention = "expired" /\ ~row[t].live
  /\ row' = [row EXCEPT ![t] = [(IF @.phase \in TerminalPhase THEN @ ELSE Stopped(@, "expired"))
                                EXCEPT !.retention = "purged"]]
  /\ object' = [object EXCEPT ![t] = FALSE]
  /\ UNCHANGED <<outputs, reply, paid, queue, intents, run, grounds, faults>>

\* A response past its seven days is deleted with the outputs no asset refers to.
Purge(t) ==
  /\ row[t].retention = "expired" /\ ~row[t].live
  /\ row' = [row EXCEPT ![t] = [(IF @.phase \in TerminalPhase THEN @ ELSE Stopped(@, "expired"))
                                EXCEPT !.retention = "purged"]]
  /\ outputs' = [outputs EXCEPT ![t] = @ /\ ~(row[t].manifest /\ row[t].versions = 0)]
  /\ object' = [object EXCEPT ![t] = FALSE]
  /\ UNCHANGED <<reply, paid, queue, intents, run, grounds, faults>>

\* The storage fails half way: the rows are rolled back, the deletions are not.
PurgeBreaks(t) ==
  /\ Fault("storage")
  /\ row[t].retention = "expired" /\ ~row[t].live
  /\ outputs' = [outputs EXCEPT ![t] = @ /\ ~(row[t].manifest /\ row[t].versions = 0)]
  /\ \E left \in {object[t], FALSE} : object' = [object EXCEPT ![t] = left]
  /\ UNCHANGED <<row, reply, paid, queue, intents, run, grounds>>
-----------------------------------------------------------------------------
(***************************************************************************)
(* A worker's run.                                                         *)
(***************************************************************************)
At(w, pc) == run[w].pc = pc
Goes(w, pc) == run' = [run EXCEPT ![w].pc = pc]
Ends(w) == run' = [run EXCEPT ![w] = Idle]
Fails(w, code) == run' = [run EXCEPT ![w].pc = "fail", ![w].code = code]

\* owns: the run still holds the live lease of a task in progress.
Owns(w) ==
  LET r == row[run[w].task] IN
  /\ r.status = "running" /\ r.versions = 0 /\ r.phase \notin TerminalPhase
  /\ r.token = run[w].token /\ r.live

\* A transaction that is not let through: the claim is lost or the database fails, or
\* admission finds the workflow paused or the authority gone.
Unowned(w) == ((~Owns(w) /\ UNCHANGED faults) \/ Fault("database")) /\ Fails(w, "trouble")
Refusal(w) ==
  /\ \/ /\ grounds[run[w].task] = "paused"
        /\ Fails(w, "paused")
     \/ /\ grounds[run[w].task] = "revoked"
        /\ Fails(w, "blocked")
  /\ UNCHANGED faults
NotLetThrough(w, admits) ==
  /\ Unowned(w) \/ (admits /\ Owns(w) /\ Refusal(w))
  /\ UNCHANGED <<row, storage, reply, paid, queue, intents, grounds>>
Admitted(w) == Owns(w) /\ grounds[run[w].task] = "current"

Deliver(w, t) ==
  /\ At(w, "idle") /\ queue[t] > 0
  /\ queue' = [queue EXCEPT ![t] = @ - 1]
  /\ run' = [run EXCEPT ![w] = [Idle EXCEPT !.pc = "claim", !.task = t]]
  /\ UNCHANGED <<row, storage, reply, paid, intents, grounds, faults>>

Claimable(r) == InProgress(r) /\ ~r.live /\ r.due

\* Mutant of Ended: one attempt too many.
EndedLate(r) ==
  IF r.retention # "kept" THEN "expired"
  ELSE IF Unknown(r) THEN "uncertain"
  ELSE IF r.tries > Tries THEN "local"
  ELSE "none"

\* What a claim finds before it may start: why the task must stop instead, if it must.
Ended(r) ==
  IF r.retention # "kept" THEN "expired"
  ELSE IF Unknown(r) THEN "uncertain"
  ELSE IF r.tries >= Tries THEN "local"
  ELSE "none"

\* Nothing to claim, or the originating workflow is paused: the job is done with.
ClaimNothing(w) ==
  LET t == run[w].task IN
  /\ At(w, "claim")
  /\ \/ ~Claimable(row[t])
     \/ Ended(row[t]) = "none" /\ grounds[t] = "paused"
  /\ Ends(w)
  /\ UNCHANGED <<row, storage, reply, paid, queue, intents, grounds, faults>>

ClaimStops(w) ==
  LET t == run[w].task IN
  /\ At(w, "claim")
  /\ Claimable(row[t]) /\ Ended(row[t]) # "none"
  /\ row' = [row EXCEPT ![t] = Stopped(@, Ended(@))]
  /\ Ends(w)
  /\ UNCHANGED <<storage, reply, paid, queue, intents, grounds, faults>>

\* The claim is rolled back; the refusal is recorded in a transaction of its own.
ClaimRefused(w) ==
  LET t == run[w].task IN
  /\ At(w, "claim")
  /\ Claimable(row[t]) /\ Ended(row[t]) = "none" /\ grounds[t] = "revoked"
  /\ Fails(w, "blocked")
  /\ UNCHANGED <<row, storage, reply, paid, queue, intents, grounds, faults>>

Claim(w) ==
  LET t == run[w].task IN
  /\ At(w, "claim")
  /\ Claimable(row[t]) /\ Ended(row[t]) = "none" /\ grounds[t] = "current"
  /\ row' = [row EXCEPT ![t].phase = IF row[t].pinned THEN @ ELSE "preparing",
                        ![t].status = "running", ![t].error = "none",
                        ![t].tries = @ + 1, ![t].token = row[t].tries + 1, ![t].live = TRUE,
                        ![t].call = IF @ = "none" THEN "pending" ELSE @]
  /\ run' = [run EXCEPT ![w].pc = "load", ![w].token = row[t].tries + 1, ![w].had = row[t].pinned]
  /\ UNCHANGED <<storage, reply, paid, queue, intents, grounds, faults>>

\* load re-reads the pinned inputs under current authority; it does not look at the lease.
Load(w) ==
  /\ At(w, "load")
  /\ \/ /\ grounds[run[w].task] = "current"
        /\ Goes(w, IF run[w].had THEN "read" ELSE "submit")
        /\ UNCHANGED faults
     \/ Refusal(w)
     \/ Fault("storage") /\ Fails(w, "trouble")
  /\ UNCHANGED <<row, storage, reply, paid, queue, intents, grounds>>

\* Mutant of Submit: the submission is recorded with the receipt, not before the call.
SubmitUnrecorded(w) ==
  /\ At(w, "submit")
  /\ Admitted(w) /\ row[run[w].task].call = "pending"
  /\ Goes(w, "call")
  /\ UNCHANGED <<row, storage, reply, paid, queue, intents, grounds, faults>>

\* prepare and markSubmitted: the last chance to turn back.  The lease starts anew.
Submit(w) ==
  LET t == run[w].task IN
  /\ At(w, "submit")
  /\ Admitted(w) /\ row[t].call = "pending"
  /\ row' = [row EXCEPT ![t].call = "submitted"]
  /\ Goes(w, "call")
  /\ UNCHANGED <<storage, reply, paid, queue, intents, grounds, faults>>

SubmitRefused(w) ==
  /\ At(w, "submit")
  /\ \/ NotLetThrough(w, TRUE)
     \/ /\ Admitted(w) /\ row[run[w].task].call # "pending"
        /\ Fails(w, "trouble")
        /\ UNCHANGED <<row, storage, reply, paid, queue, intents, grounds, faults>>

\* The paid request, and what comes back of it.
CallGateway(w) ==
  LET t == run[w].task IN
  /\ At(w, "call")
  /\ paid' = [paid EXCEPT ![t] = @ + 1]
  /\ \/ Goes(w, "record") /\ reply' = [reply EXCEPT ![t] = "valid"] /\ UNCHANGED faults
     \/ Goes(w, "record") /\ reply' = [reply EXCEPT ![t] = "invalid"] /\ Fault("bad_reply")
     \/ Fails(w, "trouble") /\ UNCHANGED reply /\ Fault("lost_reply")
  /\ UNCHANGED <<row, storage, queue, intents, grounds>>

\* record, before the upload: the receipt and the exact object that will hold the answer.
RecordReceipt(w) ==
  LET t == run[w].task IN
  /\ At(w, "record")
  /\ Owns(w)
  /\ row' = [row EXCEPT ![t].call = "received", ![t].pinned = TRUE, ![t].phase = "response_staging"]
  /\ Goes(w, "put")
  /\ UNCHANGED <<storage, reply, paid, queue, intents, grounds, faults>>

RecordRefused(w) == (At(w, "record") \/ At(w, "staged")) /\ NotLetThrough(w, FALSE)

\* An upload may fail before or after the object is stored.
PutResponse(w) ==
  LET t == run[w].task IN
  /\ At(w, "put")
  /\ \/ Goes(w, "staged") /\ object' = [object EXCEPT ![t] = TRUE] /\ UNCHANGED faults
     \/ /\ Fault("storage") /\ Fails(w, "trouble")
        /\ \E stored \in {object[t], TRUE} : object' = [object EXCEPT ![t] = stored]
  /\ UNCHANGED <<row, outputs, reply, paid, queue, intents, grounds>>

\* A reply the codec or the tool's own checks refuse; some refusals are plain errors.
Refuses(w) == \E code \in {"invalid", "trouble"} : Fails(w, code)

\* record, after the upload; the gateway then decodes its own checkpoint.
MarkReady(w) ==
  LET t == run[w].task IN
  /\ At(w, "staged")
  /\ Owns(w)
  /\ row' = [row EXCEPT ![t].phase = "response_ready"]
  /\ Goes(w, "read") \/ (reply[t] = "invalid" /\ Refuses(w))
  /\ UNCHANGED <<storage, reply, paid, queue, intents, grounds, faults>>

\* read, before the download.
ReadResponse(w) ==
  LET t == run[w].task IN
  /\ At(w, "read")
  /\ \/ NotLetThrough(w, TRUE)
     \/ /\ Admitted(w)
        /\ IF row[t].retention = "kept" /\ row[t].pinned
           THEN Goes(w, "fetch") ELSE Fails(w, "invalid")
        /\ UNCHANGED <<row, storage, reply, paid, queue, intents, grounds, faults>>

FetchResponse(w) ==
  /\ At(w, "fetch")
  /\ \/ object[run[w].task] /\ Goes(w, "confirm") /\ UNCHANGED faults
     \/ ~object[run[w].task] /\ Fails(w, "trouble") /\ UNCHANGED faults
     \/ Fault("storage") /\ Fails(w, "trouble")
  /\ UNCHANGED <<row, storage, reply, paid, queue, intents, grounds>>

\* Mutant of ConfirmResponse: what the gateway said is adopted without a check.
ConfirmUnchecked(w) ==
  /\ At(w, "confirm")
  /\ \/ NotLetThrough(w, FALSE)
     \/ /\ Owns(w)
        /\ row' = [row EXCEPT ![run[w].task].phase = "response_ready"]
        /\ Goes(w, "stage")
        /\ UNCHANGED <<storage, reply, paid, queue, intents, grounds, faults>>

\* read, after the download; the response is decoded and validated.
ConfirmResponse(w) ==
  LET t == run[w].task IN
  /\ At(w, "confirm")
  /\ \/ NotLetThrough(w, FALSE)
     \/ /\ Owns(w)
        /\ row' = [row EXCEPT ![t].phase = "response_ready"]
        /\ IF reply[t] = "valid" THEN Goes(w, "stage") ELSE Refuses(w)
        /\ UNCHANGED <<storage, reply, paid, queue, intents, grounds, faults>>

\* complete and stageArtifacts fix the places of the outputs before they are uploaded.
StageArtifacts(w) ==
  LET t == run[w].task IN
  /\ At(w, "stage")
  /\ \/ NotLetThrough(w, TRUE)
     \/ /\ Admitted(w)
        /\ IF row[t].phase = "response_ready"
           THEN row' = [row EXCEPT ![t].manifest = TRUE] /\ Goes(w, "upload")
           ELSE Fails(w, "trouble") /\ UNCHANGED row
        /\ UNCHANGED <<storage, reply, paid, queue, intents, grounds, faults>>

UploadOutputs(w) ==
  LET t == run[w].task IN
  /\ At(w, "upload")
  /\ \/ Goes(w, "commit") /\ outputs' = [outputs EXCEPT ![t] = TRUE] /\ UNCHANGED faults
     \/ /\ Fault("storage") /\ Fails(w, "trouble")
        /\ \E stored \in {outputs[t], TRUE} : outputs' = [outputs EXCEPT ![t] = stored]
  /\ UNCHANGED <<row, object, reply, paid, queue, intents, grounds>>

\* The design version, its files, the invocation and both rows, in one transaction.
Complete(w) ==
  LET t == run[w].task IN
  /\ At(w, "commit")
  /\ \/ NotLetThrough(w, TRUE)
     \/ /\ Admitted(w)
        /\ row' = [row EXCEPT ![t].versions = @ + 1, ![t].status = "adopted",
                              ![t].phase = "completed", ![t].token = 0, ![t].live = FALSE]
        /\ Ends(w)
        /\ UNCHANGED <<storage, reply, paid, queue, intents, grounds, faults>>

\* fail: only the holder of the live lease speaks for the task, or anyone while it has none.
Lost(w) ==
  LET r == row[run[w].task] IN
  \/ ~InProgress(r)
  \/ IF run[w].token # 0 THEN r.token # run[w].token \/ ~r.live ELSE r.live

\* Mutant of Retries: an answer whose receipt is recorded is not worth a second attempt.
RetriesUnsaved(r, code) == code \notin {"blocked", "invalid"} /\ r.call \in {"none", "pending"} /\ r.tries < Tries

\* Mutant of EndOf: the error decides how the task ends, not what the rows prove.
EndOfError(r, code) ==
  IF code = "trouble" THEN "local" ELSE code

Retries(r, code) ==
  code \notin {"blocked", "invalid"} /\ ~Unknown(r) /\ r.tries < Tries

\* How a failure that is not retried ends the task.
EndOf(r, code) ==
  IF code = "blocked" THEN "blocked"
  ELSE IF Unknown(r) THEN "uncertain"
  ELSE IF code = "invalid" THEN "invalid" ELSE "local"

\* The job of a run that threw or died may come again.
MayComeAgain(t) == queue' \in {queue, Owed(t)}

Fail(w) ==
  LET t == run[w].task  r == row[t]  code == run[w].code IN
  /\ At(w, "fail")
  /\ IF Lost(w) THEN UNCHANGED row
     ELSE IF Retries(r, code)
     THEN row' = [row EXCEPT ![t].phase = IF r.pinned THEN @ ELSE "pending",
                             ![t].status = IF r.pinned THEN "running" ELSE "queued",
                             ![t].error = "pending", ![t].token = 0, ![t].live = FALSE,
                             ![t].due = FALSE]
     ELSE row' = [row EXCEPT ![t] = Stopped(@, EndOf(r, code))]
  /\ Ends(w)
  /\ MayComeAgain(t)
  /\ UNCHANGED <<storage, reply, paid, intents, grounds, faults>>

\* The process ends anywhere; the queue may deliver the job again.
WorkerDies(w) ==
  /\ Fault("crash")
  /\ ~At(w, "idle")
  /\ Ends(w)
  /\ MayComeAgain(run[w].task)
  /\ UNCHANGED <<row, storage, reply, paid, intents, grounds>>
-----------------------------------------------------------------------------
(***************************************************************************)
(* Time and the world.                                                     *)
(***************************************************************************)
BecomesDue(t) ==
  /\ ~row[t].due
  /\ row' = [row EXCEPT ![t].due = TRUE]
  /\ UNCHANGED <<storage, reply, paid, queue, intents, run, grounds, faults>>

ThrottleLapses(t) ==
  /\ row[t].throttled
  /\ row' = [row EXCEPT ![t].throttled = FALSE]
  /\ UNCHANGED <<storage, reply, paid, queue, intents, run, grounds, faults>>

Holds(w, t) == run[w].pc \in Working /\ run[w].task = t /\ run[w].token # 0 /\ run[w].token = row[t].token
Refusing(w, t) == At(w, "fail") /\ run[w].task = t /\ run[w].token = 0

\* A lease runs out when its holder is gone, or slower than five minutes.  A refusal is
\* recorded within five minutes unless its process stalls.
LeaseLapses(t) ==
  /\ row[t].live
  /\ row' = [row EXCEPT ![t].live = FALSE]
  /\ IF \E w \in Worker : Refusing(w, t) THEN Fault("stall")
     ELSE IF \E w \in Worker : Holds(w, t) THEN Fault("slow")
     ELSE UNCHANGED faults
  /\ UNCHANGED <<storage, reply, paid, queue, intents, run, grounds>>

\* Seven days after the receipt; the run that wrote it has lost its lease by then.
ResponseExpires(t) ==
  /\ row[t].pinned /\ row[t].retention = "kept"
  /\ \A w \in Worker : Holds(w, t) /\ row[t].live => run[w].had
  /\ row' = [row EXCEPT ![t].retention = "expired"]
  /\ UNCHANGED <<storage, reply, paid, queue, intents, run, grounds, faults>>

GroundsChange(t) ==
  /\ Fault("grounds")
  /\ \E now \in {"current", "paused", "revoked"} \ {grounds[t]} :
       grounds' = [grounds EXCEPT ![t] = now]
  /\ UNCHANGED <<row, storage, reply, paid, queue, intents, run>>
-----------------------------------------------------------------------------
Dispatch(t) ==
  \/ Create(t) \/ DispatchPending(t) \/ Reserve(t)
  \/ \E d \in Dispatcher : Enqueue(d, t) \/ EnqueueFails(d, t) \/ DispatcherDies(d, t)

Maintain(t) ==
  \/ Purge(t) \/ PurgeBreaks(t) \/ BecomesDue(t) \/ ThrottleLapses(t)
  \/ LeaseLapses(t) \/ ResponseExpires(t) \/ GroundsChange(t)

Step(w) ==
  \/ ClaimNothing(w) \/ ClaimStops(w) \/ ClaimRefused(w) \/ Claim(w)
  \/ Load(w) \/ Submit(w) \/ SubmitRefused(w) \/ CallGateway(w)
  \/ RecordReceipt(w) \/ RecordRefused(w) \/ PutResponse(w) \/ MarkReady(w)
  \/ ReadResponse(w) \/ FetchResponse(w) \/ ConfirmResponse(w)
  \/ StageArtifacts(w) \/ UploadOutputs(w) \/ Complete(w) \/ Fail(w)

Next ==
  \/ \E t \in Task : Dispatch(t) \/ Maintain(t)
  \/ \E w \in Worker : Step(w) \/ WorkerDies(w) \/ \E t \in Task : Deliver(w, t)

Spec == Init /\ [][Next]_vars

\* Workers run, the scheduler ticks, the queue delivers and time passes; nothing is
\* assumed of faults, of callers, of the retention period or of the grounds.
FairSpec ==
  /\ Spec
  /\ \A w \in Worker : WF_vars(Step(w)) /\ \A t \in Task : WF_vars(Deliver(w, t))
  /\ \A t \in Task :
       /\ WF_vars(Reserve(t)) /\ WF_vars(BecomesDue(t)) /\ WF_vars(ThrottleLapses(t))
       /\ WF_vars(LeaseLapses(t)) /\ WF_vars(Purge(t))
       /\ \A d \in Dispatcher : WF_vars(Enqueue(d, t))
-----------------------------------------------------------------------------
(***************************************************************************)
(* Properties.                                                             *)
(***************************************************************************)
Rows ==
  [status : {"absent", "queued", "running", "adopted", "failed", "blocked"}, phase : Phase,
   error : {"none", "queue", "pending", "expired", "uncertain", "local", "blocked", "invalid"},
   versions : Nat, tries : 0..Tries, token : 0..Tries, live : BOOLEAN, due : BOOLEAN,
   call : {"none", "pending", "submitted", "received"}, pinned : BOOLEAN,
   retention : {"kept", "expired", "purged"}, manifest : BOOLEAN,
   sentBy : Dispatcher \cup {"none"}, throttled : BOOLEAN]
Runs ==
  [pc : Working \cup {"idle"}, task : Task \cup {NoTask}, token : 0..Tries, had : BOOLEAN,
   code : {"none", "trouble", "paused", "blocked", "invalid"}]

\* The rows, the storage and the processes have the shape the code gives them, and no task
\* is attempted more often than the repository allows.
TypeOK ==
  /\ row \in [Task -> Rows]
  /\ object \in [Task -> BOOLEAN] /\ outputs \in [Task -> BOOLEAN]
  /\ reply \in [Task -> {"none", "valid", "invalid"}]
  /\ paid \in [Task -> Nat] /\ queue \in [Task -> 0..Backlog]
  /\ intents \subseteq Dispatcher \X Task
  /\ run \in [Worker -> Runs]
  /\ grounds \in [Task -> {"current", "paused", "revoked"}]
  /\ faults \in 0..MaxFaults

\* However often the job is delivered, its worker dies or its lease runs out, the provider
\* is paid for a task at most once.
PaidOnce == \A t \in Task : paid[t] <= 1

\* The error a stopped task shows is the true one.
ForCause(t) ==
  LET r == row[t] IN
  /\ r.error \in {"blocked", "local", "expired", "invalid"}
  /\ r.error = "local" => r.tries = Tries
  /\ r.error = "expired" => r.retention # "kept"
  /\ r.error = "invalid" => r.retention # "kept" \/ reply[t] = "invalid"

\* A task whose provider was paid ends as an ordinary failure, which lets a member ask and
\* pay anew, only with the receipt of its answer recorded and for cause: the authority was
\* withdrawn, the third attempt failed, the seven days were over, or the answer was
\* refused.  Without a receipt it ends uncertain (pod-artwork-recovery.ts, fail and claim).
\* A receipt is not the answer: a task whose answer was never stored, because the upload
\* failed or never began, ends as "local" as well, after three attempts, where
\* docs/integration/pod-response-recovery.md:43 has it end uncertain.
GivenUpForCause ==
  \A t \in Task : row[t].phase = "failed" /\ paid[t] > 0 => row[t].pinned /\ ForCause(t)

\* One design version at most, and only from the one answer that was paid for, recorded
\* under its pinned key and found valid, with its outputs stored where the manifest says.
AdoptedIsSaved ==
  \A t \in Task : row[t].versions > 0 =>
    /\ row[t].versions = 1 /\ paid[t] = 1
    /\ row[t].pinned /\ row[t].manifest /\ outputs[t]
    /\ reply[t] = "valid"

\* Once a response is purged the private storage holds nothing of it, and no output file
\* that no design version refers to.
NothingLeftBehind ==
  \A t \in Task : row[t].retention = "purged" => ~object[t] /\ (outputs[t] => row[t].versions = 1)

\* Every task ends, adopted or stopped, unless its workflow stays paused: a lost dispatch,
\* a dead worker or a full queue only delay it.
TasksEnd ==
  \A t \in Task : InProgress(row[t]) ~> (~InProgress(row[t]) \/ grounds[t] = "paused")

\* Two faults do not lose a valid answer once it is stored: the third attempt adopts it, unless the
\* authority or the seven days run out first.
SavedIsAdopted ==
  \A t \in Task : object[t] /\ reply[t] = "valid" /\ grounds[t] = "current" ~>
     (row[t].versions = 1 \/ grounds[t] # "current" \/ row[t].retention # "kept")
=============================================================================
