------------------------------ MODULE Publication ------------------------------
(***************************************************************************)
(* Marketplace publication: the API admits a request and puts a job on a   *)
(* queue, worker processes deliver it and call the marketplace step by     *)
(* step, and every outcome is appended to the request's event log          *)
(* (marketplace-publication.service.ts, marketplace-publication.processor  *)
(* .ts and marketplace-publication-reconciliation.processor.ts).           *)
(*                                                                         *)
(* One tenant and one marketplace account, the scope of the worker's       *)
(* lease.  The requests are the two the central route executes for Etsy: a *)
(* draft, and the activation that continues it.                            *)
(***************************************************************************)
EXTENDS Naturals, FiniteSets

CONSTANTS
  Draft,                  \* etsy_create_draft requests, one per idempotency key
  Activation,             \* etsy_activate requests
  DraftOf,                \* the draft an activation continues
  Client,                 \* concurrent API calls
  PublicationWorker,      \* consumers of the publication queue
  ReconciliationWorker,   \* consumers of the publication-reconciliation queue
  NoWorker,
  Images,                 \* listing images an activation uploads
  Attempts,               \* maxAttempts of a publication job
  Reads,                  \* maxAttempts of a reconciliation job
  Faults,                 \* kinds of fault that happen
  MaxFaults               \* and how many of them

Request == Draft \cup Activation
Worker == PublicationWorker \cup ReconciliationWorker
Queue == {"publication", "reconciliation"}
FaultKind == {"crash", "stall", "lease", "evict", "queue", "database",
              "lost_reply", "rate_limit", "reject", "grounds"}

ASSUME PublicationAssumption ==
  /\ Draft \cap Activation = {}
  /\ DraftOf \in [Activation -> Draft]
  /\ PublicationWorker \cap ReconciliationWorker = {}
  /\ NoWorker \notin Worker
  /\ Images \in Nat \ {0} /\ Attempts \in Nat \ {0} /\ Reads \in Nat \ {0}
  /\ Faults \subseteq FaultKind
  /\ MaxFaults \in Nat

Waiting == {"scheduled", "queued", "retry_pending"}
Progress == {"configuration_applied", "media_uploaded", "activation_accepted", "sync_pending"}
Terminal == {"draft_created", "published", "deactivated", "reconciliation_required", "cancelled", "failed"}
Status == {"absent", "processing"} \cup Waiting \cup Progress \cup Terminal
Failure == {"retry_pending", "reconciliation_required", "failed"}
\* What the requests were authorised on still holds; the pinned listing, assets or
\* capability snapshot changed; the account is not usable; the member or the
\* account's authorization of that time is gone.
Grounds == {"current", "changed", "unhealthy", "revoked"}

\* A request the provider receives: one per step, and one per image of an upload.
Part == ({"create", "configure", "activate"} \X {1}) \cup ({"upload"} \X (1..Images))

VARIABLES
  \* committed rows
  status,     \* status of the latest event of each request
  progress,   \* status of its latest progress event, or "none"
  claimed,    \* the run whose claim appended its latest processing event
  grounds,    \* what authorises the requests: membership, account, pinned versions
  \* PostgreSQL session lock of the account
  lease,
  \* jobs, keyed by the request id, and how often the provider has acted
  job, sent,
  \* processes
  client,     \* API calls: where each is, and for which request
  run,        \* worker runs
  faults      \* faults so far

rows == <<status, progress, claimed, grounds>>
vars == <<status, progress, claimed, grounds, lease, job, sent, client, run, faults>>

NoJob == [state |-> "none", made |-> 0, stalled |-> FALSE, owner |-> NoWorker]
Idle == [pc |-> "idle"]
Call(pc, r) == [pc |-> pc, req |-> r]

Init ==
  /\ status = [r \in Request |-> "absent"]
  /\ progress = [r \in Request |-> "none"]
  /\ claimed = [r \in Request |-> NoWorker]
  /\ grounds = "current"
  /\ lease = NoWorker
  /\ job = [q \in Queue |-> [r \in Request |-> NoJob]]
  /\ sent = [r \in Request |-> [p \in Part |-> 0]]
  /\ client = [c \in Client |-> Idle]
  /\ run = [w \in Worker |-> Idle]
  /\ faults = 0

\* One more fault of this kind, while the bound allows it.
Fault(kind) ==
  /\ kind \in Faults
  /\ faults < MaxFaults
  /\ faults' = faults + 1

\* Mutant of Append: a retry resumes from the latest event instead of the latest
\* progress event.
AppendForgetsProgress(r, s) ==
  /\ status' = [status EXCEPT ![r] = s]
  /\ progress' = [progress EXCEPT ![r] = IF s \in Progress THEN s
                                        ELSE IF s = "processing" THEN @ ELSE "none"]

\* Appending an event makes it the latest one.
Append(r, s) ==
  /\ status' = [status EXCEPT ![r] = s]
  /\ progress' = [progress EXCEPT ![r] = IF s \in Progress THEN s ELSE @]

\* insertEvent of the writers that stop at a terminal event.
AppendUnlessTerminal(r, s) ==
  IF status[r] \in Terminal THEN UNCHANGED <<status, progress>> ELSE Append(r, s)

-----------------------------------------------------------------------------
(***************************************************************************)
(* The API.                                                                *)
(***************************************************************************)
\* What a new request is checked against: drafts against the current listing,
\* activations also against the recorded draft.
Admitted(r) ==
  /\ grounds = "current"
  /\ r \in Activation => status[DraftOf[r]] = "draft_created"

\* create and continue: insert the request with its first event, or find the
\* request its idempotency key names.
Submit(c, r) ==
  /\ client[c].pc = "idle"
  /\ r \in Activation => status[DraftOf[r]] = "draft_created"
  /\ IF status[r] = "absent"
     THEN /\ Admitted(r)
          /\ \E s \in (IF r \in Draft THEN {"scheduled", "queued"} ELSE {"queued"}) : Append(r, s)
     ELSE UNCHANGED <<status, progress>>
  /\ client' = [client EXCEPT ![c] = Call("latest", r)]
  /\ UNCHANGED <<claimed, grounds, lease, job, sent, run, faults>>

\* enqueueIfRequired reads the latest event first.
ReadLatest(c) ==
  /\ client[c].pc = "latest"
  /\ client' = [client EXCEPT ![c] =
       IF status[client[c].req] \in Terminal THEN Idle ELSE Call("enqueue", client[c].req)]
  /\ UNCHANGED <<rows, lease, job, sent, run, faults>>

\* Adding a job whose id the queue still knows adds nothing.
Add(q, r) ==
  job' = [job EXCEPT ![q][r] = IF @.state = "none" THEN [NoJob EXCEPT !.state = "waiting"] ELSE @]

Enqueue(c) ==
  /\ client[c].pc = "enqueue"
  /\ Add("publication", client[c].req)
  /\ client' = [client EXCEPT ![c] = Idle]
  /\ UNCHANGED <<rows, lease, sent, run, faults>>

QueueUnavailable(c) ==
  /\ client[c].pc = "enqueue"
  /\ Fault("queue")
  /\ client' = [client EXCEPT ![c] = Call("append", client[c].req)]
  /\ UNCHANGED <<rows, lease, job, sent, run>>

\* appendEvent looks at the latest event for its sequence number only.
AppendRetryPending(c) ==
  /\ client[c].pc = "append"
  /\ Append(client[c].req, "retry_pending")
  /\ client' = [client EXCEPT ![c] = Idle]
  /\ UNCHANGED <<claimed, grounds, lease, job, sent, run, faults>>

\* Mutant of Cancellable: a request in execution can be cancelled.
CancellableUntilTerminal(r) == status[r] \notin Terminal \cup {"absent"}

Cancellable(r) == status[r] \in Waiting

Cancel(c, r) ==
  /\ client[c].pc = "idle"
  /\ Cancellable(r)
  /\ Append(r, "cancelled")
  /\ client' = [client EXCEPT ![c] = Call("remove", r)]
  /\ UNCHANGED <<claimed, grounds, lease, job, sent, run, faults>>

\* A job a worker has locked is not removed, and an error is ignored.
RemoveJob(c) ==
  LET r == client[c].req IN
  /\ client[c].pc = "remove"
  /\ client' = [client EXCEPT ![c] = Idle]
  /\ \/ /\ job["publication"][r].state \in {"waiting", "done"}
        /\ job' = [job EXCEPT !["publication"][r] = NoJob]
     \/ UNCHANGED job
  /\ UNCHANGED <<rows, lease, sent, run, faults>>

\* The call is cut off: what it has not done yet does not happen.
Hangup(c) ==
  /\ client[c].pc # "idle"
  /\ client' = [client EXCEPT ![c] = Idle]
  /\ UNCHANGED <<rows, lease, job, sent, run, faults>>

-----------------------------------------------------------------------------
(***************************************************************************)
(* Runs of a worker: deliveries, and how they end.                         *)
(***************************************************************************)
QueueOf(w) == IF w \in PublicationWorker THEN "publication" ELSE "reconciliation"
JobOf(w) == job[QueueOf(w)][run[w].req]

\* A job that has no live run; its lock has expired or is about to.
Abandoned(q, r) ==
  /\ job[q][r].state = "active"
  /\ LET w == job[q][r].owner IN (run[w].pc # "idle" => run[w].req # r)

Deliver(w, r) ==
  LET q == QueueOf(w) IN
  /\ run[w].pc = "idle"
  /\ job[q][r].state = "waiting"
  /\ job' = [job EXCEPT ![q][r].state = "active", ![q][r].owner = w]
  /\ run' = [run EXCEPT ![w] =
       [pc |-> "lease", req |-> r, attempt |-> job[q][r].made, resume |-> "none",
        step |-> "none", image |-> 1, event |-> "none"]]
  /\ UNCHANGED <<rows, lease, sent, client, faults>>

\* Mutant of LeaseFree: every process gets the lease.
LeaseIgnored == lease \in Worker \cup {NoWorker}

\* The account lease is a session lock; it is freed when the run ends.
LeaseFree == lease = NoWorker

TakeLease(w) ==
  /\ run[w].pc = "lease"
  /\ LeaseFree
  /\ lease' = w
  /\ run' = [run EXCEPT ![w].pc = "claim"]
  /\ UNCHANGED <<rows, job, sent, client, faults>>

Released(w) == IF lease = w THEN NoWorker ELSE lease

\* The claim ends with the run that made it.
Unclaim(w) == claimed' = [r \in Request |-> IF claimed[r] = w THEN NoWorker ELSE claimed[r]]

\* The queue hears of the end of a run only while the run still owns the job.
JobEnds(w, j) ==
  job' = IF JobOf(w).owner = w
         THEN [job EXCEPT ![QueueOf(w)][run[w].req] = [j EXCEPT !.owner = NoWorker]]
         ELSE job

\* The processor returns.
Return(w) ==
  /\ JobEnds(w, [JobOf(w) EXCEPT !.state = "done"])
  /\ run' = [run EXCEPT ![w] = Idle]
  /\ lease' = Released(w)
  /\ Unclaim(w)

MaxAttempts(w) == IF w \in PublicationWorker THEN Attempts ELSE Reads

\* The job fails: it is delivered again while it has attempts left.
JobFails(w) ==
  /\ JobEnds(w, [JobOf(w) EXCEPT !.made = run[w].attempt + 1,
                   !.state = IF run[w].attempt + 1 < MaxAttempts(w) THEN "waiting" ELSE "done"])
  /\ run' = [run EXCEPT ![w] = Idle]

\* Mutant of LastRead: exhaustion is not recorded.
LastReadUnrecorded(w) == FALSE

\* The reconciliation processor records that its last read failed too.
LastRead(w) == w \in ReconciliationWorker /\ run[w].attempt + 1 = Reads

\* The processor throws; its lease is gone before the caller handles the error.
Throw(w) ==
  /\ IF LastRead(w)
     THEN run' = [run EXCEPT ![w].pc = "exhausted"] /\ UNCHANGED job
     ELSE JobFails(w)
  /\ lease' = Released(w)
  /\ Unclaim(w)

\* Mutant of MayRetry: one attempt more than the job has.
MayRetryOnceMore(w) == w \in ReconciliationWorker \/ run[w].attempt + 1 <= Attempts

\* Whether a failure is to be retried: a reconciliation is told of one attempt
\* more than it has, so that its last failure still throws.
MayRetry(w) == w \in ReconciliationWorker \/ run[w].attempt + 1 < Attempts

\* Mutant of RetryOrFail: a request to be retried is put back to "queued".
QueueOrFail(w) == IF MayRetry(w) THEN "queued" ELSE "failed"

RetryOrFail(w) == IF MayRetry(w) THEN "retry_pending" ELSE "failed"

GoTo(w, pc) == run' = [run EXCEPT ![w].pc = pc]
GoFail(w, e) == run' = [run EXCEPT ![w].pc = "fail", ![w].event = e]

-----------------------------------------------------------------------------
(***************************************************************************)
(* Claiming a request.                                                     *)
(***************************************************************************)
\* isSafeStatusRead: after an accepted activation only the status is read.
SafeRead(r, s) == r \in Activation /\ s \in {"activation_accepted", "sync_pending"}

\* readPublicationAuthority and validateRuntime; a safe read survives a changed
\* listing, capability snapshot or asset.
GroundsHold(safe) == grounds = "current" \/ (safe /\ grounds = "changed")

\* Mutant of Uncertain: the interrupted step is simply run again.
NeverUncertain(w) == FALSE

\* interruptedMutationIsUncertain, on a retry: the request was being processed
\* and no safe read was reached.
Uncertain(w) ==
  LET r == run[w].req IN
  /\ run[w].attempt > 0
  /\ status[r] = "processing"
  /\ ~SafeRead(r, progress[r])

\* Mutant of Finished: the claim does not look at the latest event.
NeverFinished(r) == FALSE

Finished(r) == status[r] \in Terminal

\* What the claim appends when it refuses the run.
Refusal(w) ==
  LET r == run[w].req IN
  CASE grounds = "revoked" -> "reconciliation_required"
    [] grounds # "revoked" /\ Uncertain(w) -> "reconciliation_required"
    [] OTHER -> "failed"

\* Mutant of FirstStep: a retry takes an applied configuration for uploaded media.
FirstStepSkipsUpload(r) ==
  IF r \in Draft THEN "create"
  ELSE CASE progress[r] = "none"                                         -> "configure"
         [] progress[r] \in {"configuration_applied", "media_uploaded"} -> "activate"
         [] OTHER                                                        -> "status"

\* activateEtsy: the first step that has not been recorded.
FirstStep(r) ==
  IF r \in Draft THEN "create"
  ELSE CASE progress[r] = "none"                  -> "configure"
         [] progress[r] = "configuration_applied" -> "upload"
         [] progress[r] = "media_uploaded"        -> "activate"
         [] OTHER                                 -> "status"

Claim(w) ==
  LET r == run[w].req IN
  /\ run[w].pc = "claim"
  /\ ~Finished(r)
  /\ ~Uncertain(w)
  /\ GroundsHold(SafeRead(r, progress[r]))
  /\ Append(r, "processing")
  /\ claimed' = [claimed EXCEPT ![r] = w]
  /\ run' = [run EXCEPT ![w].pc = "guard", ![w].step = FirstStep(r), ![w].resume = progress[r]]
  /\ UNCHANGED <<grounds, lease, job, sent, client, faults>>

ClaimNothing(w) ==
  /\ run[w].pc = "claim"
  /\ Finished(run[w].req)
  /\ Return(w)
  /\ UNCHANGED <<status, progress, grounds, sent, client, faults>>

RefuseClaim(w) ==
  LET r == run[w].req IN
  /\ run[w].pc = "claim"
  /\ ~Finished(r)
  /\ Uncertain(w) \/ ~GroundsHold(SafeRead(r, progress[r]))
  /\ Append(r, Refusal(w))
  /\ Return(w)
  /\ UNCHANGED <<grounds, sent, client, faults>>

ClaimBreaks(w) ==
  /\ run[w].pc = "claim"
  /\ Fault("database")
  /\ Throw(w)
  /\ UNCHANGED <<status, progress, grounds, sent, client>>

-----------------------------------------------------------------------------
(***************************************************************************)
(* One provider request: guard, call, and the next image of an upload.     *)
(***************************************************************************)
\* beforeProviderRequest, with the progress the claim had read.
MayRequest(w) ==
  LET r == run[w].req IN
  status[r] \notin Terminal /\ GroundsHold(SafeRead(r, run[w].resume))

Guard(w) ==
  /\ run[w].pc = "guard"
  /\ IF MayRequest(w) THEN GoTo(w, "call") ELSE GoFail(w, "reconciliation_required")
  /\ UNCHANGED <<rows, lease, job, sent, client, faults>>

\* The guard, the media storage or the credential read breaks.
GuardBreaks(w) ==
  /\ run[w].pc = "guard"
  /\ Fault("database")
  /\ GoFail(w, RetryOrFail(w))
  /\ UNCHANGED <<rows, lease, job, sent, client>>

PartOf(w) == <<run[w].step, run[w].image>>

\* The provider acts; two times is as often as the model counts.
Acts(w) ==
  sent' = [sent EXCEPT ![run[w].req][PartOf(w)] = IF @ = 2 THEN 2 ELSE @ + 1]

MoreImages(w) == run[w].step = "upload" /\ run[w].image < Images

Mutate(w) ==
  /\ run[w].pc = "call" /\ run[w].step # "status"
  /\ Acts(w)
  /\ run' = IF MoreImages(w)
            THEN [run EXCEPT ![w].pc = "guard", ![w].image = @ + 1]
            ELSE [run EXCEPT ![w].pc = "record"]
  /\ UNCHANGED <<rows, lease, job, client, faults>>

ReadStatus(w) ==
  /\ run[w].pc = "call" /\ run[w].step = "status"
  /\ GoTo(w, "record")
  /\ UNCHANGED <<rows, lease, job, sent, client, faults>>

\* No answer, or one that cannot be used: a mutation may or may not have happened.
LoseReply(w) ==
  /\ run[w].pc = "call"
  /\ Fault("lost_reply")
  /\ IF run[w].step = "status"
     THEN GoFail(w, RetryOrFail(w)) /\ UNCHANGED sent
     ELSE GoFail(w, "reconciliation_required") /\ (Acts(w) \/ UNCHANGED sent)
  /\ UNCHANGED <<rows, lease, job, client>>

RateLimited(w) ==
  /\ run[w].pc = "call"
  /\ Fault("rate_limit")
  /\ GoFail(w, RetryOrFail(w))
  /\ UNCHANGED <<rows, lease, job, sent, client>>

\* The provider refuses the request, or the account's credential.
Rejected(w) ==
  /\ run[w].pc = "call"
  /\ Fault("reject")
  /\ GoFail(w, "failed") \/ GoFail(w, "unauthorized")
  /\ UNCHANGED <<rows, lease, job, sent, client>>

\* readMedia: the stored bytes of an image are not the pinned ones.
MediaRefused(w) ==
  /\ run[w].pc = "guard" /\ run[w].step = "upload" /\ run[w].image = 1
  /\ Fault("reject")
  /\ GoFail(w, "failed")
  /\ UNCHANGED <<rows, lease, job, sent, client>>

-----------------------------------------------------------------------------
(***************************************************************************)
(* Recording an outcome.                                                   *)
(***************************************************************************)
ResultOf == [create |-> "draft_created", configure |-> "configuration_applied",
             upload |-> "media_uploaded", activate |-> "activation_accepted"]

\* What a status read may find; a listing is active only once it was activated.
Readings(r) ==
  {"sync_pending"} \cup (IF sent[r][<<"activate", 1>>] > 0 THEN {"published", "deactivated"} ELSE {})

\* complete's test that this result may be recorded as a status read: the newest
\* claim is this run's own, and nothing but accepted progress came after it.
OwnStatusRead(w, s) ==
  LET r == run[w].req IN
  /\ SafeRead(r, progress[r])
  /\ s \in {"published", "sync_pending"}
  /\ claimed[r] = w
  /\ status[r] \in {"processing"} \cup Progress

\* What complete demands before it appends a result.
MayRecord(w, s) ==
  LET r == run[w].req IN
  /\ SafeRead(r, progress[r]) /\ s \in {"published", "sync_pending"} => OwnStatusRead(w, s)
  /\ GroundsHold(OwnStatusRead(w, s))

\* A result of a finished request is dropped without an error.
Writes(w, s) ==
  \/ Finished(run[w].req) /\ UNCHANGED <<status, progress>>
  \/ ~Finished(run[w].req) /\ MayRecord(w, s) /\ Append(run[w].req, s)

NextStep == [configure |-> "upload", upload |-> "activate", activate |-> "status"]

RecordMutation(w) ==
  LET k == run[w].step IN
  /\ run[w].pc = "record" /\ k # "status"
  /\ Writes(w, ResultOf[k])
  /\ IF k = "create"
     THEN Return(w)
     ELSE /\ run' = [run EXCEPT ![w].pc = "guard", ![w].step = NextStep[k], ![w].image = 1]
          /\ UNCHANGED <<claimed, lease, job>>
  /\ UNCHANGED <<grounds, sent, client, faults>>

\* retryPendingStatus, then scheduleReconciliation when no attempt is left.
RecordStatus(w) ==
  LET r == run[w].req IN
  /\ run[w].pc = "record" /\ run[w].step = "status"
  /\ \E s \in Readings(r) :
       /\ Writes(w, s)
       /\ CASE s # "sync_pending" -> Return(w)
            [] s = "sync_pending" /\ MayRetry(w) -> Throw(w)
            [] OTHER -> GoTo(w, "schedule") /\ UNCHANGED <<claimed, lease, job>>
  /\ UNCHANGED <<grounds, sent, client, faults>>

\* The grounds changed under the result: it is not recorded.
RefuseRecord(w) ==
  LET r == run[w].req IN
  /\ run[w].pc = "record"
  /\ ~Finished(r)
  /\ \E s \in (IF run[w].step = "status" THEN Readings(r) ELSE {ResultOf[run[w].step]}) :
       ~MayRecord(w, s)
  /\ GoFail(w, "reconciliation_required")
  /\ UNCHANGED <<rows, lease, job, sent, client, faults>>

\* A mutation whose result is not written needs a person; a read can be repeated.
WritebackFailure(w) == IF run[w].step = "status" THEN RetryOrFail(w) ELSE "reconciliation_required"

RecordBreaks(w) ==
  /\ run[w].pc = "record"
  /\ Fault("database")
  /\ GoFail(w, WritebackFailure(w))
  /\ UNCHANGED <<rows, lease, job, sent, client>>

\* fail, and the error thrown again when it is to be retried.  A refused credential
\* also revokes the account, unless it was authorised anew since.
Fail(w) ==
  LET e == run[w].event IN
  /\ run[w].pc = "fail"
  /\ AppendUnlessTerminal(run[w].req, IF e = "unauthorized" THEN "failed" ELSE e)
  /\ \/ UNCHANGED grounds
     \/ e = "unauthorized" /\ ~Finished(run[w].req) /\ grounds' = "revoked"
  /\ IF e = "retry_pending" THEN Throw(w) ELSE Return(w)
  /\ UNCHANGED <<sent, client, faults>>

FailBreaks(w) ==
  /\ run[w].pc = "fail"
  /\ Fault("database")
  /\ Throw(w)
  /\ UNCHANGED <<status, progress, grounds, sent, client>>

Schedule(w) ==
  LET r == run[w].req IN
  /\ run[w].pc = "schedule"
  /\ IF job["reconciliation"][r].state = "none"
     THEN job' = [job EXCEPT !["reconciliation"][r] = [NoJob EXCEPT !.state = "waiting"],
                    !["publication"][r] = IF @.owner = w THEN [@ EXCEPT !.state = "done", !.owner = NoWorker] ELSE @]
     ELSE JobEnds(w, [JobOf(w) EXCEPT !.state = "done"])
  /\ run' = [run EXCEPT ![w] = Idle]
  /\ lease' = Released(w)
  /\ Unclaim(w)
  /\ UNCHANGED <<status, progress, grounds, sent, client, faults>>

ScheduleUnavailable(w) ==
  /\ run[w].pc = "schedule"
  /\ Fault("queue")
  /\ GoFail(w, "reconciliation_required")
  /\ UNCHANGED <<rows, lease, job, sent, client>>

\* MarketplacePublicationReconciliationProcessor, after its last attempt.
Exhaust(w) ==
  /\ run[w].pc = "exhausted"
  /\ AppendUnlessTerminal(run[w].req, "reconciliation_required")
  /\ Return(w)
  /\ UNCHANGED <<grounds, sent, client, faults>>

ExhaustBreaks(w) ==
  /\ run[w].pc = "exhausted"
  /\ Fault("database")
  /\ JobFails(w)
  /\ UNCHANGED <<rows, lease, sent, client>>

-----------------------------------------------------------------------------
(***************************************************************************)
(* Faults of the environment.                                              *)
(***************************************************************************)
\* A worker process dies: its session lock is freed, its job stays locked.
Crash(w) ==
  /\ run[w].pc # "idle"
  /\ Fault("crash")
  /\ run' = [run EXCEPT ![w] = Idle]
  /\ lease' = Released(w)
  /\ Unclaim(w)
  /\ UNCHANGED <<status, progress, grounds, job, sent, client>>

\* The queue takes a job back whose lock has expired, once; it is delivered again
\* under the same attempt number.
TakeBack(q, r) ==
  job' = [job EXCEPT ![q][r] =
    [@ EXCEPT !.state = IF job[q][r].stalled THEN "done" ELSE "waiting",
              !.stalled = TRUE, !.owner = NoWorker]]

Redeliver(q, r) ==
  /\ Abandoned(q, r)
  /\ TakeBack(q, r)
  /\ UNCHANGED <<rows, lease, sent, client, run, faults>>

\* The same while the run still goes on, too slow to renew its lock.
Stall(q, r) ==
  /\ job[q][r].state = "active" /\ ~Abandoned(q, r)
  /\ Fault("stall")
  /\ TakeBack(q, r)
  /\ UNCHANGED <<rows, lease, sent, client, run>>

\* The connection that holds the lease breaks; the run does not notice.
LoseLease ==
  /\ lease # NoWorker
  /\ Fault("lease")
  /\ lease' = NoWorker
  /\ UNCHANGED <<rows, job, sent, client, run>>

\* removeOnComplete and removeOnFail: the queue forgets the id of an old job.
Evict(q, r) ==
  /\ job[q][r].state = "done"
  /\ Fault("evict")
  /\ job' = [job EXCEPT ![q][r] = NoJob]
  /\ UNCHANGED <<rows, lease, sent, client, run>>

ChangeGrounds(g) ==
  /\ g # grounds
  /\ Fault("grounds")
  /\ grounds' = g
  /\ UNCHANGED <<status, progress, claimed, lease, job, sent, client, run>>

-----------------------------------------------------------------------------
Api(c) ==
  \/ \E r \in Request : Submit(c, r) \/ Cancel(c, r)
  \/ ReadLatest(c) \/ Enqueue(c) \/ QueueUnavailable(c) \/ AppendRetryPending(c)
  \/ RemoveJob(c) \/ Hangup(c)

\* What a run does by itself once it has the lease.
Work(w) ==
  \/ Claim(w) \/ ClaimNothing(w) \/ RefuseClaim(w)
  \/ Guard(w) \/ Mutate(w) \/ ReadStatus(w)
  \/ RecordMutation(w) \/ RecordStatus(w) \/ RefuseRecord(w)
  \/ Fail(w) \/ Schedule(w) \/ Exhaust(w)

Break(w) ==
  \/ ClaimBreaks(w) \/ GuardBreaks(w) \/ LoseReply(w) \/ RateLimited(w) \/ Rejected(w)
  \/ MediaRefused(w)
  \/ RecordBreaks(w) \/ FailBreaks(w) \/ ScheduleUnavailable(w) \/ ExhaustBreaks(w)
  \/ Crash(w)

Next ==
  \/ \E c \in Client : Api(c)
  \/ \E w \in Worker : TakeLease(w) \/ Work(w) \/ Break(w)
  \/ \E w \in Worker, r \in Request : Deliver(w, r)
  \/ \E q \in Queue, r \in Request : Redeliver(q, r) \/ Stall(q, r) \/ Evict(q, r)
  \/ LoseLease
  \/ \E g \in Grounds : ChangeGrounds(g)

\* Jobs are delivered in turn and the session lock queues its waiters; a run that
\* is not waiting goes on, and the queue looks for expired locks.
Fairness ==
  /\ \A w \in Worker : SF_vars(TakeLease(w)) /\ WF_vars(Work(w))
  /\ \A r \in Request : /\ SF_vars(\E w \in PublicationWorker : Deliver(w, r))
                        /\ SF_vars(\E w \in ReconciliationWorker : Deliver(w, r))
  /\ \A q \in Queue, r \in Request : WF_vars(Redeliver(q, r))

Spec == Init /\ [][Next]_vars
FairSpec == Spec /\ Fairness

-----------------------------------------------------------------------------
(***************************************************************************)
(* Properties.                                                             *)
(***************************************************************************)
StepName == {"none", "create", "configure", "upload", "activate", "status"}
RunPlace == {"lease", "claim", "guard", "call", "record", "fail", "schedule", "exhausted"}
RunRow == [pc: RunPlace, req: Request, attempt: Nat, resume: Progress \cup {"none"},
           step: StepName, image: 1..Images, event: Failure \cup {"none", "unauthorized"}]
JobRow == [state: {"none", "waiting", "active", "done"}, made: Nat, stalled: BOOLEAN,
           owner: Worker \cup {NoWorker}]

\* Every row, job and process variable stays within its type.
TypeOK ==
  /\ status \in [Request -> Status]
  /\ progress \in [Request -> Progress \cup {"none"}]
  /\ claimed \in [Request -> Worker \cup {NoWorker}]
  /\ grounds \in Grounds
  /\ lease \in Worker \cup {NoWorker}
  /\ job \in [Queue -> [Request -> JobRow]]
  /\ sent \in [Request -> [Part -> 0..2]]
  /\ client \in [Client -> {Idle} \cup [pc: {"latest", "enqueue", "append", "remove"}, req: Request]]
  /\ run \in [Worker -> {Idle} \cup RunRow]
  /\ faults \in 0..MaxFaults

\* No worker dies, the database answers, a run keeps the lease or its job, and no rate
\* limit is met between two images of an upload.
Unbroken ==
  /\ "crash" \notin Faults /\ "database" \notin Faults
  /\ "lease" \notin Faults \/ "stall" \notin Faults
  /\ "rate_limit" \notin Faults \/ Images = 1

\* A mutation is asked of the provider at most once, however often it is retried, with
\* replies lost and leases lost, as long as it is Unbroken.  ADR-003:32 asks it of every
\* interruption, and where Unbroken fails the code does repeat a mutation;
\* RepeatNeedsRedelivery says what is left then for the creation of a draft.
NoMutationRepeats == Unbroken => \A r \in Request, p \in Part : sent[r][p] <= 1

\* The end of a request is final while the queue takes the jobs: no event follows a
\* terminal one.  A refused job is written over an end (appendEvent).
TerminalIsFinal ==
  [][\A r \in Request : status[r] \in Terminal => status'[r] = status[r]]_vars

\* Nothing reaches the provider for a request that reads cancelled or failed: a
\* queue race between cancellation and delivery is lost by the delivery.
EndedStaysQuiet ==
  [][\A r \in Request : status[r] \in Terminal => sent'[r] = sent[r]]_vars

\* The queue once took the job of this request back from a worker that held it.
Redelivered(r) == job["publication"][r].stalled

\* A draft is created a second time only when the queue has redelivered its job: no
\* retry, lost reply or broken database connection repeats the creation.
RepeatNeedsRedelivery ==
  \A r \in Draft : sent[r][<<"create", 1>>] > 1 => Redelivered(r)

\* A draft reported cancelled or failed has left no listing at the marketplace.
NoDraftLeftBehind ==
  \A r \in Draft : status[r] \in {"cancelled", "failed"} => sent[r][<<"create", 1>>] = 0

Rank == [none |-> 0, configuration_applied |-> 1, media_uploaded |-> 2,
         activation_accepted |-> 3, sync_pending |-> 4]

\* Recorded progress never goes back, so a retry never resumes before a step that
\* is already recorded, however deliveries overlap.
ProgressOnlyAdvances ==
  [][\A r \in Request : Rank[progress'[r]] >= Rank[progress[r]]]_vars

\* A reconciliation only reads: it never has a mutation left to do.
ReconciliationOnlyReads ==
  \A w \in ReconciliationWorker : run[w].pc = "call" => run[w].step = "status"

\* Recorded progress is never ahead of the provider.
StepsThrough(s) ==
  {p \in Part : \/ p[1] = "configure" /\ Rank[s] >= 1
                \/ p[1] = "upload" /\ Rank[s] >= 2
                \/ p[1] = "activate" /\ Rank[s] >= 3}
RecordedIsDone ==
  \A r \in Request :
    /\ \A p \in StepsThrough(progress[r]) : sent[r][p] >= 1
    /\ status[r] = "draft_created" => sent[r][<<"create", 1>>] >= 1

\* When the polling of an accepted activation ends without an answer, a
\* reconciliation job is there to go on with it.
HandedOver ==
  \A r \in Activation :
    status[r] = "sync_pending" /\ job["publication"][r].state = "done"
      => job["reconciliation"][r].state # "none"

\* A request a worker has begun comes to an end: it is published, fails, is
\* cancelled, or is left to a person.
BegunIsSettled ==
  \A r \in Request : status[r] = "processing" ~> status[r] \in Terminal
=============================================================================
