# Formal models of YummyAi

TLA+ models of the parts of YummyAi whose correctness depends on the order in
which several processes act. Each module follows the source; `PROJECT.json` maps
every definition to the lines it stands for. Paths below are relative to the
repository (`apps/`, `packages/`, `docs/`).

* [The system](#the-system)
* [Modules](#modules)
* [Inventory](#inventory)
* [Marketplace publication](#marketplace-publication)
* [POD artwork](#pod-artwork)
* [Workflow runs](#workflow-runs)
* [Where the code and its documents disagree](#where-the-code-and-its-documents-disagree)
* [Not modelled](#not-modelled)
* [Plan](#plan)
* [Running](#running)

## The system

YummyAi is a multi-tenant ERP for sellers of custom products. A NestJS API
(`apps/api`) changes PostgreSQL in one transaction per command (`withTenant`), puts
jobs on BullMQ queues, and records audits after the commit. Worker processes
(`apps/worker`) consume the queues and talk to marketplaces, carriers, stores and
image models. Every row and every lock key carries the tenant, so all models have
one tenant.

| Component | State it keeps | Operations | What is hard about it | What makes it correct |
| --- | --- | --- | --- | --- |
| Inventory (`apps/api/src/inventory`) | movement ledger, reservations, transfers, lots, and a balance projection | movement, receipt, reserve, release, consume, return, plan/dispatch/receive/cancel a transfer, rebuild, switch a location | READ COMMITTED transactions kept apart only by advisory locks; a rebuild that rewrites every balance beside the writers; client retries | the projection equals the ledger; stock is never promised twice; goods on the road are conserved; a retry does not act twice; nothing deadlocks |
| Publication requests (`apps/api/src/marketplaces`, `apps/worker/src/processors/marketplace-publication*`) | immutable requests, an append-only event log, jobs of two queues, a lease per account | create, continue, cancel, claim, four provider steps, write-back, retry, background reconciliation | crashes, lost replies, redelivery, retries, cancellation races, grounds that change while a request runs | each step reaches the provider once and in order; an end is final and quiet; a begun request ends |
| Publication batches and Amazon feeds | batch rows, feed documents, results per item | create, submit the feed, poll it, map the report | one feed for many requests, unknown message ids | one feed per batch; each item gets its own result |
| Production material | plan and consumption rows | reserve, consume and return through the inventory service inside its own transaction | two state machines in one transaction | what an order consumed equals what inventory gave |
| POD artwork tasks (`packages/pod-core`, `apps/worker/src/processors/pod-artwork*`) | task, execution and invocation rows, a leased attempt, the encrypted answer and the output files in object storage | create, dispatch (three ways), claim, submit, record, store, adopt, fail, retry, expire, purge | a paid request that must not be repeated, between a crash and a lapsed lease at any point; answers stored outside the transaction that records their receipt | paid at most once; a request without a receipt is declared uncertain; a paid task is given up for cause; a stored answer is adopted or purged; a task ends |
| Workflow runs (`apps/api/src/workflows`, `packages/workflow-core`, `workflow-node.processor.ts`) | a run with a revision, its node rows, the leased attempts of internal nodes | start, complete, approve, reject, reopen, block, unblock, retry, cancel; claim, delegate, wait, finish, fail | commands that race a worker, rework that puts nodes back, retries after uncertain payments | one open node and one live attempt; completion only by the verified result of it; no result counted twice; every change numbered; a node an active run stands on settles |
| Channel inventory | allocations, channel snapshots, findings | allocate, compare, acknowledge | stale snapshots | what channels are told never exceeds what is available |
| Procurement | purchase orders, receipts, invoices | version, receive, match | partial receipts beside corrections | received never exceeds ordered plus tolerance |
| Store nodes | leases, sealed intents, a journal on the node | lease, execute, upload, acknowledge | a crash between the journal and the upload | an intent is executed at most once |
| Agent plans and loops | plans, leases, approvals | claim, step, approve, resume | expired leases, duplicated events | no step without its approval |
| Orders, shipments, catalog, design, finance, research, CRM, logistics, capture, webhooks, authorisation, web | documents and imports | one locked transaction per command | mostly provider I/O and arithmetic | checked by unit and integration tests |

Components meet in five ways: the API inserts rows and then enqueues a job that
carries only an identifier; a worker re-reads everything from the database before it
acts; order production, material plans and procurement call the inventory service's
`...InTransaction` operations inside their own transaction; a reconciliation
job re-enters the publication processor; and a workflow attempt creates a POD artwork
task and waits for it, while the admission of that task looks at the workflow.

## Modules

| Module | Models |
| --- | --- |
| `StockBook` | what the inventory service promises: one stock book, one command at a time |
| `InventoryTx` | `inventory.service.ts` at the grain of its transactions and advisory locks |
| `InventoryTxInv` | the inductive invariant of `InventoryTx` |
| `InventoryTxProofs` | the theorems about its invariants |
| `InventoryBookProofs` | the theorems about its steps, and that `InventoryTx` implements `StockBook` |
| `InventorySumProofs` | sums over finite sets, and the theorems about aggregates and about goods on the road |
| `MCInventoryTx` | its TLC instances, the sums behind its aggregates, and the mapping to `StockBook` |
| `PublicationPromise` | what ADR-003 promises of a publication request |
| `Publication` | API calls, two queues, workers, the lease, the provider |
| `MCPublication` | its TLC instances, and the mapping to `PublicationPromise` |
| `PublicationProofs` | the theorems about rows, leases and overlapping runs |
| `PublicationPromiseProofs` | the theorems about what is repeated, left behind and handed over, and that `Publication` implements `PublicationPromise` |
| `PublicationRepeatProofs` | the theorem that only a redelivery repeats a draft's creation |
| `PodPromise` | what `docs/integration/pod-response-recovery.md` promises of a paid artwork task |
| `PodArtwork` | owner, workflow and scheduler dispatch, the queue, leased workers, the provider, object storage, expiry and purge |
| `MCPodArtwork` | its TLC instances, and the mapping to `PodPromise` |
| `PodArtworkProofs` | the theorems about its invariants, and that it implements `PodPromise` |
| `WorkflowRun` | members' commands, attempts, the scheduler, leased workers; the artwork tasks they delegate to appear with the stages of `PodPromise` |
| `MCWorkflowRun` | its TLC instances: a line and a fork of nodes |
| `WorkflowRunProofs` | the theorems about it |

## Inventory

**State.** `movements`, `resv`, `xfer`, `lots`, `rebuilds`, `closed` and `balance`
are the tables. `ledger` and `claims` are the two sums a rebuild reads (movement rows
per dimension and bucket, outstanding quantity of active reservations per dimension);
carrying them as variables keeps sums out of the argument about locks, and the invariant
`AggregatesAreSums`, checked and proved, says that they are the sums of the rows. A dimension is stock
item × location × lot; dimensions are numbers because the code sorts the key strings
before it locks them.

**Actions.** A session takes a command (`Begin`), waits for its locks one at a time
(`Own`, `DrawReservation`, `Share`, `LockDimension`), reads (`ReadBalance`,
`ReadMovements`, `ReadClaims`), and either commits everything in one step (`Commit`,
`CommitRebuild`), refuses (`Replay`, `RefuseRow`, `RefuseReservation`,
`RefuseBalance`, `Collide`) or is rolled back (`Abort`, which also stands for an
expired reservation and for a lost connection). Advisory locks drop with the
transaction. `SetStatus` is the administrator's switch, which takes no lock.

**Abstractions.** A reservation and a transfer are named by the idempotency key that
creates them; keys of the child events are drawn from a set of their own. The third
statement of a rebuild reads the same rows as the second in the model. Audit records,
supplier-item mappings and read-only pages are left out.

**Runs.** All have two concurrent transactions, which is what a lock that covers too
little needs.

| Run | Instance | Shows |
| --- | --- | --- |
| `reservations` | one dimension, two movement keys, two reservations, quantities up to 2, stock up to 3, partial and whole consumption, one rebuild | the projection never drifts, nothing is oversold, the aggregates are the sums of the rows, a reservation lives the life its contract allows, a retry does not act twice, the rows implement `StockBook` |
| `transfers` | two dimensions of one lot, two transfers in either direction, receipts and returns, two event keys, stock up to 2, a location that is switched off and on | goods are conserved, transactions compute from fresh rows, the rows implement `StockBook` |
| `progress` | two transfers between two dimensions, a reservation, a rebuild, fairness | every command ends |

`MaxStock` stands for `maximumCommandAtoms`; 3 is enough for a quantity to overshoot
it and to fall below zero. Movement, event and rebuild keys are consumed by success,
which bounds the behaviours; a second session with the same key is the retry.

`RetryIsAnswered` says two things of a command whose effect is in the rows. No other delivery
of it commits, whatever the command. And a movement, reservation, release, transfer
step or rebuild is not refused either, however far the second delivery had come when the
first committed. The second part leaves out the commands that do not look
their evidence up: an identical consumption or return (`inventory.service.ts:485`), receipt
(`:274`) or new lot (`:236`, which has no key) is refused with a `ConflictException`; the
production and procurement services that call the first three keep receipts of their own.

**Fairness.** `progress` assumes strong fairness for taking a lock (PostgreSQL queues
the waiters of an advisory lock) and weak fairness for a transaction that does not
wait (the API's event loop goes on). It has no fairness for clients or for `Abort`.

**What is proved.** `InventoryTxProofs` proves, for every number of sessions,
dimensions, reservations, transfers, keys and every stock limit, from
`InventoryAssumption` (dimensions are ordered, quantities are positive and not above the
stock limit, as `packages/contracts/src/inventory/quantity-schema.ts` and `quantity.ts:86` demand of every command, the
"no lot" and "no reservation" values are no lots or reservations):

* `Invariance`: `IInv` is an invariant;
* `TypeCorrect`, `ProjectionNeverDrifts`, `NeverOversold`, `ReadsStayFresh`: the
  invariants the runs check;
* `RebuildNeverChanges`: a rebuild that commits beside other commands leaves every
  balance as it was.

`BalanceIsEvidence` is not inductive: a commit adds its change to the balance it
*read*, so one has to know that the balance is still the one that was read. The
argument of `IInv` is: (1) two sessions share no lock but the shared rebuild lock, and
none has the exclusive one beside it (`LocksExclude`); (2) a session past a lock step
holds that lock (`Placed`); (3) hence the reservation, transfer, balances and evidence it
read are unchanged (`ReservationKept`, `TransferKept`, `BalancesKept`,
`EvidenceKept`): another session that changes them needs a lock the first one holds; (4)
hence a commit changes balance and evidence alike, and a rebuild writes what is there.
The proof has one lemma per action and one per kind of row another session may write.

`InventoryBookProofs` adds the promises that speak of steps, for the same constants:

* `ReservationsLive`: `ReservationLife`;
* `RetriesAnswered`: `RetryIsAnswered`, where there are no receipts. A receipt posts its
  keyed movement under the lock of its lot and not of its key, so a movement command that reuses the
  key of a receipt may be admitted just before it;
* `InventoryImplementsBook`: `ImplementsBook`. A commit is one step of `StockBook`; every
  other step of a transaction changes nothing the book shows; a rebuild writes what is
  there.

The refinement needs two things `IInv` does not say: that the transfer a session is about to
move is still where the command wants it and the reservation it draws on is of the
command's dimension (`Entitled`, with which the book's guards follow from the rows), and
that what it is about to write is not there yet: the movement under its key, the lot, the
rebuild (`Unposted`, `Unrecorded`, for retries). All are inductive with `IInv`. Each command that commits is one lemma per operation, from the
rewritten rows to the operation of the book.

`InventorySumProofs` adds the promises that speak of sums over rows, for the same
constants:

* `AggregatesNeverDrift`: `AggregatesAreSums`;
* `StockIsConserved`: `TransfersConserveStock`;
* `BalanceIsSumOfRows`, which follows from the first and `ProjectionNeverDrifts`: a
  balance row is at all times the sum of its movement rows, bucket by bucket, and of
  what its active reservations still hold, the rule of ADR-006.

The sums are those of `SumFunctionOnSet` of the community modules, a fold. What a fold gives is
not known to the provers, and the induction theorem of finite sets is out of their reach, so the
module takes another way round: the strict subsets of a finite set are well founded
(a theorem without operator parameters), hence a statement that fails for a finite set fails
for a smallest one (`Smallest`). Two facts follow: a sum is what can be added up in some
order, and it is unique, because any element can be taken to have come last. From them come the
lemmas the steps use: what one more row adds, what one row less takes away, what one
changed row changes (`SumGains`, `SumLoses`, `SumChanges`), and that sums only depend on the rows
they range over (`SumsAgree`). The inductive invariant is `Sums`: both properties,
and that movement rows, active reservations and moving transfers are finite. It is inductive
with `IInv` and `Admissions`: a commit has to post rows that are not there
yet, or the sum would miss them (`RowsAdded`, `PostsApart`); it posts at most one row in each bucket of
a dimension; the two legs of a transfer step cancel out, and a transfer is on the road exactly
while its first pair of legs is posted and its second is not.

Only model-checked: `CommandsEnd` (liveness).

## Marketplace publication

**State.** `status` and `progress` are the two things the code reads from the event
log: the latest event and the latest progress event. `claimed` is the run whose
`processing` event is the newest. `grounds` is what the worker re-checks before every
provider request: the member's and the account's authority, the account's health, the
pinned listing version, capability snapshot and assets. `lease` is the advisory session
lock of the account, `job` the jobs of both queues under the request's id, `sent` how
often the provider has carried out each part of each request. `client` and `run` are
the API calls and the worker runs.

**Actions.** API: `Submit` (create or continue, new or repeated), `ReadLatest`,
`Enqueue` or `QueueUnavailable` and `AppendRetryPending`, `Cancel`, `RemoveJob`, and
`Hangup`, which ends a call at any point. Worker: `Deliver`, `TakeLease`, `Claim` or
`ClaimNothing` or `RefuseClaim`; then per provider request `Guard`, `Mutate` or
`ReadStatus`; then `RecordMutation`, `RecordStatus` or `RefuseRecord`; `Fail`,
`Schedule`, `Exhaust`. Each database transaction is one action because each takes
the request's transaction lock first.

**Faults.** `Faults` says which kinds happen and `MaxFaults` how many of them:

| Kind | Actions | Stands for |
| --- | --- | --- |
| `crash` | `Crash` | a worker process dies; its session lock goes with its connection, its job stays locked until `Redeliver` |
| `stall` | `Stall` | a run too slow to renew its job lock; the job is delivered again beside it |
| `lease` | `LoseLease` | the connection that holds the lease breaks and the run does not notice |
| `evict` | `Evict` | `removeOnComplete` / `removeOnFail` forget a job id |
| `queue` | `QueueUnavailable`, `ScheduleUnavailable` | Redis refuses a job |
| `database` | `ClaimBreaks`, `GuardBreaks`, `RecordBreaks`, `FailBreaks`, `ExhaustBreaks` | a transaction, the media storage or the credential read fails |
| `lost_reply` | `LoseReply` | time-out, 5xx on a mutation or an unusable answer; the provider may or may not have acted |
| `rate_limit`, `reject` | `RateLimited`, `Rejected`, `MediaRefused` | the provider's refusals; a refused credential revokes the account |
| `grounds` | `ChangeGrounds` | the listing, account or membership changes |

BullMQ is modelled from how the code uses it: a job id the queue knows is not added
again; `attemptsMade` counts failed attempts and not redeliveries (the envelope's
`attempt`, `apps/worker/src/main.ts:19`); an expired job is taken back once and
fails the second time; a locked job cannot be removed.

**Abstractions.** An activation is one with inventory or personalization to
configure, and its configuration is one provider request (the code itself turns a half
applied configuration into an uncertain outcome). `sent` stops counting at two. Delays
are left out: a delayed job is a waiting one. The two Etsy actions are modelled;
`amazon_submit` is the same skeleton with one mutation.

**Runs.**

| Run | Faults | Shows |
| --- | --- | --- |
| `publication_deliveries` | up to 3 of crash, stall, database, lost_reply, rate_limit, reject, grounds; two publication workers, one reconciliation worker | recorded progress is never ahead of the provider and never goes back, a reconciliation never has a mutation to do, an end is final and nothing is sent after it, and only a redelivery makes a draft twice |
| `publication_activations` | up to 3 of lease, evict, lost_reply, rate_limit, reject, grounds; two API calls, two workers | no mutation is repeated while nothing breaks (`Unbroken`: no dying worker, a database that answers, one image), a cancelled or failed draft left no listing, exhausted polling is handed over, and the requests implement `PublicationPromise` |
| `publication_settles` | up to 2 of queue, lease, rate_limit, lost_reply, reject, grounds | every claimed request ends |

Two attempts per job and two reconciliation reads have a first, a last and a retried
attempt, which is all that `attempt + 1 < maxAttempts` distinguishes (the code has 3
and 20). One image is enough where a retry starts an upload again from its first image.
Two workers are enough for one run beside another.
The kinds of faults are split over the runs because the properties
of `publication_activations` do not hold under the others; the observations below say
why.

**Fairness.** `publication_settles` assumes weak fairness for a run's own steps and for
the queue's stalled-job check, and strong fairness for taking the lease (PostgreSQL
queues the waiters) and for delivering a waiting job (the queue is polled for ever).
No fairness is assumed for API calls: a request whose API process ended between the
commit and the enqueue has no job until someone repeats the call, so `BegunIsSettled`
starts at the claim. It is checked without database failures and without dying
workers: a database failure in the last attempt leaves the request in `processing`
with its failed job kept for a week, and a job whose worker dies twice is given up.

**What is proved.** For any requests, clients, workers, images, attempts and faults
that satisfy `PublicationAssumption`. What a theorem excludes is a kind of fault:

| Theorem | States | Without |
| --- | --- | --- |
| `PublicationTypes` | `TypeOK` | |
| `PublicationRecordsWhatIsDone` | `RecordedIsDone` | |
| `PublicationEndsAreFinal` | `TerminalIsFinal` | `queue` |
| `PublicationOnlyAdvances` | `ProgressOnlyAdvances` | `queue`; `lease` or `stall` |
| `PublicationReconciliationReads` | `ReconciliationOnlyReads` | `queue`; `lease` or `stall` |
| `PublicationEndsAreQuiet` | `EndedStaysQuiet` | `queue`; `lease` or `stall` |
| `PublicationLeavesNoDraft` | `NoDraftLeftBehind` | `queue`, `crash`, `database`; `lease` or `stall` |
| `PublicationRepeatsNothing` | `NoMutationRepeats` | `queue` (the property itself is about runs without `crash` and `database`, without `lease` or `stall`, and without `rate_limit` or a second image) |
| `PublicationHandsOver` | `HandedOver` | `queue`, `crash`, `database`, `stall` |
| `PublicationKeepsPromise` | `KeepsPromise` (refinement) | `queue`, `crash`, `database`; `lease` or `stall`; `rate_limit` or a second image |
| `PublicationRepeatsAreRedelivered` | `RepeatNeedsRedelivery` | `queue`, `evict`; `lease` or `stall` |

"`lease` or `stall`" means that one of the two is excluded, not both. TLC finds each property
violated on a small instance with the kind that its theorem excludes, but for two: with `queue`,
no violation of `ProgressOnlyAdvances`, `ReconciliationOnlyReads`, `NoMutationRepeats` or
`HandedOver` was found with up to three refusals, and with `lease` and `stall` together none of
`RepeatNeedsRedelivery` with up to four faults. There the argument needs the exclusion, because
`NoneAppends` or `Solo` fails without it, and whether the property does is open.

Why the others are needed: with a refusing queue `retry_pending` is written over an end (the first
divergence below). A run that has lost its lease is only kept from the request by the
job it still owns, and one that has lost its job only by the lease; losing both lets two
runs work on one request, and the older one records over the newer. A crash or a
broken database leaves a step made and not recorded. A stalled job that is taken back
twice is given up while the request still reads `sync_pending`. A rate limit between
two images starts the upload again from the first. A queue that forgets the job of a draft
forgets that it was redelivered, and an event appended to a draft that is being created makes a later
attempt claim it again.

The argument. `IInv` (`PublicationProofs`) is the types and `Sound`: a run at a step knows
that everything before the part it is at has been done, which needs no exclusion and
gives `RecordedIsDone`. `NoneAppends` says that no API call is about to write over an end.
`Solo` is the exclusion: past the wait for the lease at most one run is on a request,
either because all runs hold the lease in turn or because each owns its job.
`Core` ties a run's place to the rows while it is alone: the request is being processed, its
recorded progress is the one before the run's step, a reconciliation runs only after an
accepted activation. `PublicationPromiseProofs` adds `Ahead`: what the provider was asked is
recorded, or the request has ended, or the run that asked is still there to record it; under it a part about to be requested was not requested before (`Untried`).
For `HandedOver` the owner of a job is followed instead (`Owned`, `Held`, `Over`). The
refinement takes each step as an event of the log, a provider request, or a step that changes neither
(`EventKeeps`, `ActsKeeps`).

`PublicationRepeatProofs` counts, because crashes and broken transactions leave nothing of
`Ahead`. A job that has not been taken back has one creation of its draft to give away, and one more
once it has been (`Credit`, `Budget`). A creation still to be made is with the job and row that may bring
a run to make it (`Due`), or with a run that has lost its job and may still make it (`Strays`). A run that
makes one spends it; a run that is retried, dies or gives up passes it on or drops it; only
taking the job back adds one. `Tied` says what row, job and runs tell of one another: a run
has its job's count of attempts until it loses the job, and loses it only when the job is taken
back. A job, and its mark of the redelivery with it, is removed after a cancellation only, and a
cancellation comes before a second creation.

Only model-checked: `BegunIsSettled` (liveness).
## POD artwork

**State.** `row` holds what the task, execution and invocation rows of a task say
together: its status and phase, the lease token and whether the lease is live, the
number of attempts, what the invocation proves (`call`: none, pending, submitted,
received), whether the receipt is recorded with the key of the object that is to hold the
answer (`pinned`; the upload comes after it), its retention, the
output manifest, and who dispatched last. `object` and `outputs` say what object storage
holds; `reply` is what the provider answered and `paid` how often it was called;
`intents` are dispatches committed in the database and not yet on the queue; `run` is
what each worker does. The lease token is the number of the attempt, which is as
unique as the code's identifier. A call that returns a receipt without a checkpoint
leads the code to make the checkpoint from the response, so a receipt always comes with
its checkpoint in the model.

**Actions.** Owner, workflow runtime and scheduler: `Create`, `DispatchPending`,
`Reserve`, then `Enqueue` or `EnqueueFails` or `DispatcherDies`. A worker: `Deliver`;
`Claim`, `ClaimStops`, `ClaimRefused` or `ClaimNothing`; `Load`; `Submit`, the record
that the provider is about to be asked; `CallGateway`; `RecordReceipt`,
`PutResponse`, `MarkReady`, which pin the place of the answer, store it and say so;
`ReadResponse`, `FetchResponse`, `ConfirmResponse`; `StageArtifacts`,
`UploadOutputs`, `Complete`; and `Fail` from anywhere. Each is one transaction or one
call to the provider or the store. Every transaction after the claim first looks
whether the run still holds the live lease (`Owns`), and most ask the admission again
(`grounds`: current, paused, revoked). Time: `BecomesDue`, `ThrottleLapses`,
`LeaseLapses`, `ResponseExpires`; maintenance: `Purge`.

**Faults.**

| Kind | Stands for |
| --- | --- |
| `crash` | a worker or a dispatcher dies between any two steps; the queue may or may not deliver its job again |
| `slow` | a lease lapses while its holder still works |
| `stall` | a run whose claim was refused takes more than five minutes to record the refusal |
| `queue` | an enqueue is refused |
| `storage` | an upload, a download or a deletion fails, before or after it took effect |
| `database` | a transaction of a run fails |
| `lost_reply`, `bad_reply` | no answer to the paid request; an answer the codec or the tool's checks refuse |
| `grounds` | membership, assets, method or the originating workflow change |

**Runs.**

| Run | Instance | Shows |
| --- | --- | --- |
| `pod_recovery` | one task, two workers, dispatch by owner and scheduler, up to 3 of crash, slow, storage, database, lost_reply, bad_reply, grounds | types; `PaidOnce`; `GivenUpForCause`; `AdoptedIsSaved`; the task implements `PodPromise` |
| `pod_settles` | the same with the workflow's dispatch, up to 2 of crash, queue, storage, database, fairness | every task ends unless its workflow stays paused; a stored valid answer is adopted; a purge leaves nothing behind |

Tasks share nothing but the queue, so one task is enough. `Tries` is the code's own
three attempts: two faults leave a third attempt, and three faults can use all of them
up, which is why `SavedIsAdopted` is asked with two. Two workers are one that has lost
its lease and one that has taken over. `Backlog` bounds the
deliveries the queue owes to one; a further job for a task whose delivery is still owed
would find nothing else.

**Fairness.** Workers go on, the queue delivers, the scheduler ticks and time passes
(`WF` of each); nothing is assumed of owners, of the workflow's dispatch, of faults, of
the seven days or of the grounds.

**What is proved.** `PodArtworkProofs` proves for any tasks, workers, attempts,
dispatchers and faults, from `PodAssumption`:

* `PodInvariance`: the inductive invariant `IInv`;
* `PodTypes`, `PodPaysOnce`, `PodAdoptsWhatIsSaved`: `TypeOK`, `PaidOnce`,
  `AdoptedIsSaved`;

`PaidOnce` is not inductive: that a task is not paid a second time rests on the
invocation row being past `pending` before the call, and on a single run being between
the record and the call. `IInv` has three parts beside the types. `RowInv`: what the rows
of a task alone prove (nothing is paid before `submitted`, no key is pinned before
`received`, an adopted task has everything behind it). `RunInv`: what a worker at each
of its steps may rely on, separately for what holds with its lease lost (the
submission was recorded by it, the answer it put is the pinned one) and what holds while
it has the lease. `Distinct`: no two runs have one token, and at most one is about
to pay. A step of one worker disturbs the other's part of the invariant only through the
row of the same task; the lemmas `Moving`, `Growing`, `Resting`, `Outward` and
`Stopping` say once how rows may change under a worker's feet, and each action is one
lemma on top of them.

* `PodLeavesNothing`: `NothingLeftBehind`, unless `slow` or `stall` is among the faults: a
  worker that outlives its lease may upload behind the purge.

* `PodKeepsPromise`: `KeepsPromise`, that every step of `PodArtwork` is a step of
  `PodPromise` or invisible to it, unless `stall` is among the faults;

* `PodGivesUpForCause`: `GivenUpForCause`, unless `stall` is among the faults. It is not
  inductive either: `Caused` adds that what was recorded as answered was answered, that every
  stopped task, paid or not, has a true error (`ForCause`), and that a run that speaks of a
  refused answer has met one, or found its days over. The lemma `Causing` says how a row
  (`KeepsCause`) and a run (`KeepsWord`) may change; each action is one lemma on top of it.

`NothingLeftBehind` needs `Kept`: a worker that was given a lease holds it until its run ends
(`Held`), there are no outputs without their manifest, and a purged task is over, its object gone
and its outputs, if any, those of an adopted version (`Clean`). The refinement needs `Shaped`: a task that is
not there has its phase still at pending, and a completed one has its version. `PodPromise` goes by the
receipt as the code does: its stage *answered* is a recorded receipt, not a stored answer.

Only model-checked: `TasksEnd`, `SavedIsAdopted` (liveness).

## Workflow runs

**State.** `run`, `node` and `attempt` are the three tables. Nodes are their positions in
the graph's array, because `reopenFrom` puts back what comes *after* the target in
that array and not what is downstream of it. An operation is named by the attempt whose
input snapshot first pinned it; a retry that reuses the snapshot has the same operation.
`receipts` are the catalog operations that took effect, `stage` is how far the artwork
task of an operation has come, in the stages of `PodPromise` and three finer ones
(a worker has it, it is put off with its receipt recorded, it is about to ask). `slot` is
what a worker does.

**Actions.** `Start`, `Complete` (complete and approve), `StartNode`, `Block`,
`Unblock`, `Retry` (as it is, or with other inputs), `Cancel`, `Reopen`, `Reject`. A
command is decided on a revision and refused on any other, so in the model it is
decided on the rows as they are; that every change is numbered is the property
`ChangesAreNumbered`. `Prepare` is the part of a command, or of a worker's completion, that
gives the node that opened its attempt. Dispatch and workers: `Reserve`, `Enqueue`,
`EnqueueFails`, `DispatcherDies`; `Deliver`, which takes a delivery up and claims its
attempt in one step (`Claim`, `ClaimFails`, `ClaimNothing`: before the claim a worker has
read nothing), and `DeliveryDies`; `Produce` (catalog), `Delegate`, `Look`, `Wait` (POD), `Finish`, `Fail`, and `Trips` for a
guarded step that is fenced off or fails. The artwork task moves by the `Pod…` actions,
under the admission `assertPodAdmission` makes of the workflow's rows without a lock: what
was admitted happens in a later step.

**Composition.** `PodArtwork` implements `PodPromise`, and `WorkflowRun` uses
tasks with those stages and transitions; the one finding about payments
below needs both sides. A task's retries, leases and storage are
`PodArtwork`'s business.

**Runs.**

| Run | Instance | Shows |
| --- | --- | --- |
| `workflow_runs` | one run over start, POD tool, approval, catalog action, end; two workers; two attempts; commands up to revision 3; one of crash, slow, database, grounds, input | types and seven properties of the interplay of commands, attempts and tasks |
| `workflow_settles` | a condition that leads to a POD tool or to an approval and a catalog action; one worker; commands up to revision 4; one of crash, slow, queue, database; fairness | `NodesSettle` |
| `workflow_repurchase` | three attempts, commands up to revision 6, one preparation that fails | expected violation, see below |

Two attempts are enough for one to be superseded by another; a first command and two
more are enough for reject, reopen or cancel to meet a claimed attempt and the attempt that
follows it. `Recoveries` is one for the code's three: there is a recovery and an
exhausted one. The constants allow several runs of the same definition and product
and several members; two of either square the states, and the fixed instances have
one.

**Fairness.** Weak for workers, deliveries, the scheduler and time; strong for a waiting
artwork task to be taken and for one that is taken to be decided, which is `TasksEnd`
of `PodArtwork` seen from outside. Nothing is assumed of members or faults.

**What is proved.** `WorkflowRunProofs` proves, for every graph that satisfies
`WorkflowAssumption` and any runs, members, workers, attempts and faults:

* `WorkflowInvariance`: the inductive invariant `IInv`;
* `WorkflowTypes`, `WorkflowVerified`, `WorkflowResultOnce`,
  `WorkflowRetryBuysNothing`: `TypeOK`, `CompletedIsVerified`, `ResultUsedOnce`,
  `RetryBuysNothingTwice`;
* `WorkflowEndedStay`, `WorkflowNumbered`: `EndedAttemptsStay`, `ChangesAreNumbered`;
* `WorkflowOneOpen`, `WorkflowOneLive`: `OneOpenNode` and `OneLiveAttempt` when the array
  lists every node before the nodes it leads to (`InFlowOrder`). The hypothesis is
  needed, see the observations below.

None of these is inductive alone. That a result is used once and that a retry buys nothing
twice is a matter of how an operation passes from a failed attempt to the next one of its
node and is given up with it (`AttemptInv`, `PairInv`, `ChainInv`, `RetryInv`). That a
node is completed by the verified result of its live attempt needs what a worker may rely
on between two of its transactions (`SlotInv`), which other workers and members may
shake only by taking its lease. That one node is open needs where the open node is in the
array and that nothing behind it has begun (`Ahead`, `Waits`, `OnIt`). The lemmas
`Keeping`, `Writing`, `Inserting` and `Preparing` carry the steps, and each action is one
lemma on top of them.

Only model-checked: `NodesSettle` (liveness). `NoPaidRequestAnew` does not hold.

## Where the code and its documents disagree

Two runs check one property each and are expected to find it violated.

1. `publication_cancel_race` / `EndedStaysQuiet`. `appendEvent`
   (`marketplace-publication.service.ts:477`) writes `retry_pending` after any latest
   event. When a repeated create or continue cannot enqueue after a worker has claimed
   the request, `processing` becomes `retry_pending`, the cancellation is accepted, and
   the provider call goes on. `docs/integration/marketplace-publications.md:35`:
   "processing or externally accepted work cannot be presented as cancelled". The same
   event also follows a terminal one, so with a refusing queue `TerminalIsFinal` fails
   too; `publication_deliveries` has no `queue` faults.
2. `workflow_repurchase` / `NoPaidRequestAnew`. `prepare`
   (`packages/workflow-core/src/runtime.ts:124-159`) looks for an input to reuse, and
   for a paid request to protect, on the *latest* attempt only. A POD attempt ends with
   its task uncertain; a retry fails in its preparation (a permission, a product or an
   asset is gone for a moment) and is recorded as an attempt without a snapshot; the
   next retry finds neither a snapshot to reuse nor one to protect, pins a new operation,
   and the provider is asked again while the first request may have been charged. The
   node's diagnostic (`runtime.ts:757`) says "工作流不会重新创建付费请求" (the workflow
   will not create a paid request anew), and
   `docs/integration/workflow-node-execution.md:185` "An uncertain/running original POD
   request cannot be replaced by editing inputs". A retry by another member leads to
   the same without any fault (`runtime.ts:156`); so does, for one member and without
   faults, a retry that is reopened away at an earlier node before a worker takes it (the attempt
   is then cancelled and its snapshot not reused, `runtime.ts:154`). A direct
   retry by the same member does not (`RetryBuysNothingTwice`).

Observations made while modelling, each at a bound or a fault the runs leave out:

* A worker dies after the provider created the draft: the queue redelivers the job under
  attempt 0, `claim` looks for interruptions only when `attempt > 0`
  (`marketplace-publication.processor.ts:420`), and the draft is created again.
  ADR-003:32 says such an interruption "is never retried automatically".
  `RepeatNeedsRedelivery` shows that nothing else repeats a draft.
* A rate limit on the second image of an upload is retried from the first one
  (`packages/marketplace-connectors/src/publication.ts:801`).
* `complete` does not count `deactivated` among the results of a status read
  (`marketplace-publication.processor.ts:613`), so a reconciliation cannot record a
  listing that expired once the local listing has changed (ADR-003:34).
* A worker whose claim of an artwork task was refused and that stalls for more than five
  minutes before it records the refusal ends the task although another worker has
  claimed it, submitted it and lost its lease since: the task reads "blocked" where it
  should read uncertain (`pod-artwork-recovery.ts:172-181`; fault kind `stall`).
* The receipt and the key of the answer are committed before the upload
  (`pod-artwork-recovery.ts:110-116`), and `claim` and `fail` take the key for the answer
  (lines 40, 175). When the upload fails or its process dies first, nothing is stored: the
  remaining attempts find no object and the task ends as POD_LOCAL_PROCESSING_FAILED
  (lines 45-46, 181), where `docs/integration/pod-response-recovery.md:43` says
  "已提交但没有可恢复检查点的请求停止为 POD_RESULT_UNCERTAIN" (a submitted request without a
  recoverable checkpoint stops as POD_RESULT_UNCERTAIN). `assertReconfigurationSafe`
  (`packages/pod-core/src/artwork-task.ts:123`) lets such a task go, so a member can ask,
  and pay, with other inputs. `GivenUpForCause` states what the code keeps and includes
  this case; asked in addition that a paid, kept answer that ends as "local" be stored
  (`object[t]`), TLC answers with a trace; one failed
  upload is enough.
* An uploader slower than its lease, seven days after the receipt, leaves output files
  that the purge has already passed.
* A third attempt that meets a paused workflow ends the task as failed
  (`pod-artwork-recovery.ts:176`), although paused local steps are said to be put off.
* The scheduler's reset of a dispatch on a task that has ended meanwhile is refused by the
  trigger of migration 0119, and its error ends that round of the scheduler.
* A cancelled run is revived by reopening, completing, retrying or unblocking a node it
  left behind; since `start` looks for other runs only when it starts
  (`workflow-run.service.ts:155`), one product can then have two live runs of a
  definition.
* `reject` accepts any node as its target, and `complete` and `approve` do not ask for
  the current node; `OneOpenNode` shows that on an active run no other node is open.
* `reopenFrom` (`workflow-run.service.ts:731-771`) puts back what comes after the target in
  the graph's *array*. The validator (`workflow-graph.validator.ts`) forbids cycles but
  does not ask for an order, and the designer appends new nodes at the array's end. With
  the array start, B, A, end and the edges start → A → B → end, reopening A while B is in
  progress leaves two open nodes of an active run (TLC finds `OneOpenNode` violated on that
  graph), although ADR-014:64 "deliberately excludes" parallel fan-out. Hence
  `InFlowOrder`, which the graphs of the runs satisfy.
* A completed *end* node can be reopened through the API: the run's current node becomes
  the end while another node may be in progress. `OneOpenNode` leaves end nodes out.

## Not modelled

`PROJECT.json` lists every component with its reason. In short: rendering, parsing,
imports, exact decimal arithmetic and presentation have no protocol to check; the
single-user documents (catalog, listings, research, knowledge) are version-checked
updates in one locked transaction, the pattern `InventoryTx` covers; authorisation is a
stateless check before each command. The hazards that no property covers carry a note.

## Plan

In this order; each component gets a module, an instance, an inductive invariant and,
where listed, an abstract specification.

1. `StoreNode` (`store-node-execution.service.ts`, `apps/store-api-node`): at most one
   execution of a sealed intent across crashes of the node and of the API, a result that
   is eventually delivered.
2. `ProductionMaterial` over `InventoryTx`'s stock operations: what an order consumed is
   what inventory gave.
3. `PublicationBatch`: one feed per batch, results mapped to the original items; it
   composes with `Publication`'s reconciliation queue.
4. Creative execution (`creative-execution-recovery.ts`) as a second implementation of
   `PodPromise`; agent plans and loops; channel inventory and procurement receipts.

Runs are kept few: a divergence run is dropped when the code or the document changes.

## Running

    tlc -config InventoryTransfers.cfg MCInventoryTx
    tlc -config PublicationDeliveries.cfg MCPublication
    tlc -config PodRecovery.cfg MCPodArtwork
    tlc -config WorkflowRuns.cfg MCWorkflowRun
    tlapm InventoryTxProofs.tla
    tlapm InventoryBookProofs.tla
    tlapm InventorySumProofs.tla
    tlapm PublicationProofs.tla
    tlapm PublicationPromiseProofs.tla
    tlapm PublicationRepeatProofs.tla
    tlapm PodArtworkProofs.tla
    tlapm WorkflowRunProofs.tla

The longest run takes about two minutes on two cores, each proof a
few minutes. Deadlock checking is off in the publication, POD and workflow runs: when
every request, task or run has ended and the faults and revisions are used up, nothing is
left to do.
