------------------------------ MODULE WorkflowRun ------------------------------
(***************************************************************************)
(* Workflow runs: members move a run over its published graph by commands  *)
(* that carry the revision they were decided on, internal nodes are        *)
(* executed by leased attempts, and an attempt of a POD node delegates to  *)
(* a paid artwork task, here with the stages of PodPromise                 *)
(* (apps/api/src/workflows/workflow-run.service.ts, packages/workflow-     *)
(* core/src/transition.ts and runtime.ts, apps/worker/src/processors/      *)
(* workflow-node.processor.ts).                                            *)
(*                                                                         *)
(* The runs are those of one definition for one product.  A command whose  *)
(* expected revision is not the run's is refused and changes nothing, so a *)
(* command here is one decided on the rows as they are.  Notes, due dates, *)
(* assignments and attempts from before the input snapshots are left out.  *)
(***************************************************************************)
EXTENDS Naturals

CONSTANTS
  Run,          \* runs of the definition for the product
  Last,         \* nodes are their positions in the graph's array, 1..Last
  Kind,         \* the kind of a node
  Succ,         \* where its edges other than rework lead
  Delegates,    \* internal nodes whose capability is a POD tool; the others are catalog's
  Member,
  NoMember,
  Worker,       \* slots that consume the workflow-node queue
  NoWorker,
  MaxAttempts,  \* bound on the attempts of all runs
  MaxRevision,  \* bound on the revision a command is given at
  Recoveries,   \* a lease that ran out or an error that passes is recovered from so often
  Backlog,      \* deliveries the queue may owe one attempt
  Faults,       \* kinds of fault that happen
  MaxFaults     \* and how many of them

Node == 1..Last
NoNode == 0
Attempt == 1..MaxAttempts
NoAttempt == 0

NodeKind == {"start", "end", "human_task", "approval_gate", "condition_gate", "internal_action"}
FaultKind == {"crash", "slow", "queue", "database", "grounds", "input"}

ASSUME WorkflowAssumption ==
  /\ Last \in Nat \ {0}
  /\ Run # {}
  /\ Kind \in [Node -> NodeKind] /\ \A n \in Node : Kind[n] = "start" <=> n = 1
  /\ Succ \in [Node -> SUBSET Node]
  /\ \A n \in Node :
       /\ Kind[n] # "condition_gate" => \A s, t \in Succ[n] : s = t
       /\ Kind[n] = "end" => Succ[n] = {}
  /\ Delegates \subseteq {n \in Node : Kind[n] = "internal_action"}
  /\ NoMember \notin Member /\ NoWorker \notin Worker
  /\ MaxAttempts \in Nat \ {0} /\ MaxRevision \in Nat
  /\ Recoveries \in Nat /\ Backlog \in Nat \ {0}
  /\ Faults \subseteq FaultKind /\ MaxFaults \in Nat

\* The array lists every node before the nodes it leads to, as a flow drawn from its start to
\* its end does.  The validator does not ask for it.
InFlowOrder == \A n \in Node : \A s \in Succ[n] : s > n

VARIABLES
  run,       \* rows of the runs
  node,      \* rows of their nodes
  attempt,   \* rows of the nodes' attempts, in the order of their creation
  receipts,  \* catalog operations that took effect and left their receipt
  stage,     \* how far the artwork task of an operation has come
  queue,     \* deliveries the queue owes
  intents,   \* dispatches decided on and not yet on the queue
  slot,      \* what a worker does
  faults     \* faults so far

rows == <<run, node, attempt>>
vars == <<run, node, attempt, receipts, stage, queue, intents, slot, faults>>

\* An operation is named by the attempt whose input snapshot first pinned it.  Its task is
\* "running" while a worker has it and has not asked the provider, and "kept" when it is put
\* off with its receipt recorded.
Stage == {"absent", "waiting", "running", "asked", "answered", "kept", "adopted", "stopped", "uncertain"}

Live == {"queued", "running", "waiting"}
NoRun == [status |-> "not_started", current |-> NoNode, revision |-> 0]
NoRows == [n \in Node |-> [status |-> "not_started", attempts |-> 0]]

\* op: the operation of the input snapshot, none when the preparation failed; delegated:
\* the artwork task's id is on the attempt.
NewAttempt == [status |-> "absent", run |-> CHOOSE r \in Run : TRUE, node |-> 1, number |-> 0,
               op |-> NoAttempt, by |-> NoMember, delegated |-> FALSE, token |-> NoWorker,
               live |-> FALSE, due |-> TRUE, recovery |-> 0, throttled |-> FALSE]
\* The lease and the timers of an attempt that has ended are read by nobody.
EndedAs(row, status) ==
  [row EXCEPT !.status = status, !.token = NoWorker, !.live = FALSE, !.due = TRUE,
              !.recovery = 0, !.throttled = FALSE, !.delegated = FALSE]
Idle == [pc |-> "idle", at |-> NoAttempt, code |-> "none"]

Init ==
  /\ run = [r \in Run |-> NoRun]
  /\ node = [r \in Run |-> NoRows]
  /\ attempt = [a \in Attempt |-> NewAttempt]
  /\ receipts = {}
  /\ stage = [a \in Attempt |-> "absent"]
  /\ queue = [a \in Attempt |-> 0]
  /\ intents = {}
  /\ slot = [w \in Worker |-> Idle]
  /\ faults = 0

Fault(kind) ==
  /\ kind \in Faults
  /\ faults < MaxFaults
  /\ faults' = faults + 1
-----------------------------------------------------------------------------
(***************************************************************************)
(* The transition of a run, on the new rows R of the run, N of its nodes   *)
(* and A of the attempts.                                                  *)
(***************************************************************************)
Moved(R, status, current) == [R EXCEPT !.status = status, !.current = current, !.revision = @ + 1]

OfRun(A, r) == {a \in Attempt : A[a].status # "absent" /\ A[a].run = r}

\* Mutant of Paused: the lease stays with the worker.
PausedLeased(A, r) ==
  [a \in Attempt |-> IF a \in OfRun(A, r) /\ A[a].status \in Live
     THEN [A[a] EXCEPT !.status = "queued", !.throttled = FALSE] ELSE A[a]]

\* cancelWorkflowAttempts and pauseWorkflowAttempts, over the whole run.
Cancelled(A, r) ==
  [a \in Attempt |-> IF a \in OfRun(A, r) /\ A[a].status \in Live
     THEN EndedAs(A[a], "cancelled") ELSE A[a]]
Paused(A, r) ==
  [a \in Attempt |-> IF a \in OfRun(A, r) /\ A[a].status \in Live
     THEN [A[a] EXCEPT !.status = "queued", !.token = NoWorker, !.live = FALSE, !.throttled = FALSE]
     ELSE A[a]]

SetNode(N, n, status) == [x \in Node |-> IF x = n THEN [N[x] EXCEPT !.status = status] ELSE N[x]]

\* completeWorkflowNode: the node is done, the branches not taken are skipped, the next opens.
CompletedNodes(N, n, next) ==
  [x \in Node |-> [N[x] EXCEPT !.status =
     IF x = next THEN IF Kind[next] = "end" THEN "completed" ELSE "in_progress"
     ELSE IF x = n THEN "completed"
     ELSE IF x \in Succ[n] THEN "skipped" ELSE @]]
Advanced(R, next) ==
  IF Kind[next] = "end" THEN Moved(R, "completed", NoNode) ELSE Moved(R, "active", next)

\* Mutant of ReopenedNodes: what was open stays open.
ReopenedTarget(N, target) == SetNode(N, target, "in_progress")

\* reopenFrom: what comes after the target in the array starts again.
ReopenedNodes(N, target) ==
  [x \in Node |-> [N[x] EXCEPT !.status =
     IF x = target THEN "in_progress"
     ELSE IF x > target /\ Kind[x] \notin {"start", "end"} THEN "not_started" ELSE @]]

FailedNodes(N, n) == SetNode(N, n, "failed")
FailedRun(R) == Moved(R, "failed", R.current)

\* The latest attempt of a node.
Latest(N, A, r, n) ==
  IF \E a \in OfRun(A, r) : A[a].node = n /\ A[a].number = N[n].attempts
  THEN CHOOSE a \in OfRun(A, r) : A[a].node = n /\ A[a].number = N[n].attempts
  ELSE NoAttempt
Unused(A) == {a \in Attempt : A[a].status = "absent"}

Write(r, R, N, A) ==
  /\ run' = [run EXCEPT ![r] = R]
  /\ node' = [node EXCEPT ![r] = N]
  /\ attempt' = A

\* Mutant of Reuses: the input of whatever came before is taken again.
ReusesAny(A, previous, m, override) ==
  previous # NoAttempt /\ ~override /\ A[previous].op # NoAttempt /\ A[previous].by = m

\* The snapshot a new attempt reuses: the input of a failed attempt of the same member
\* that is retried as it is.
Reuses(A, previous, m, override) ==
  /\ previous # NoAttempt /\ ~override
  /\ A[previous].status = "failed" /\ A[previous].op # NoAttempt /\ A[previous].by = m

Inserted(r, n, N, A, m, override, a, status) ==
  LET previous == Latest(N, A, r, n) IN
  [(IF previous # NoAttempt /\ A[previous].status \in Live
    THEN [A EXCEPT ![previous] = EndedAs(@, "cancelled")]
    ELSE A)
   EXCEPT ![a] = [NewAttempt EXCEPT
     !.status = status, !.run = r, !.node = n, !.number = N[n].attempts + 1, !.by = m,
     !.op = IF status = "failed" THEN NoAttempt
            ELSE IF Reuses(A, previous, m, override) THEN A[previous].op ELSE a]]

\* prepare: the node that was opened gets an attempt, or keeps the live one it has; a
\* preparation that fails leaves a failed attempt and fails the node and the run.  The API
\* dispatches what it prepared; what the runtime prepared waits for the scheduler.
Prepare(m, r, n, R, N, A, override, sender) ==
  LET previous == Latest(N, A, r, n)
      counted == [N EXCEPT ![n].attempts = @ + 1]
  IN
  IF Kind[n] # "internal_action" \/ R.current # n \/ R.status # "active" \/ N[n].status # "in_progress"
  THEN Write(r, R, N, A) /\ UNCHANGED <<intents, faults>>
  ELSE IF previous # NoAttempt /\ A[previous].status \in Live /\ ~override
  THEN /\ Write(r, R, N, A)
       /\ intents' = IF A[previous].status = "queued" THEN intents \cup {<<s, previous>> : s \in sender} ELSE intents
       /\ UNCHANGED faults
  ELSE \E a \in Unused(A) :
       /\ \A b \in Unused(A) : a <= b
       /\ \/ /\ Write(r, R, counted, Inserted(r, n, N, A, m, override, a, "queued"))
             /\ intents' = intents \cup {<<s, a>> : s \in sender}
             /\ UNCHANGED faults
          \/ /\ Fault("input")
             /\ Write(r, FailedRun(R), FailedNodes(counted, n), Inserted(r, n, N, A, m, override, a, "failed"))
             /\ UNCHANGED intents
-----------------------------------------------------------------------------
(***************************************************************************)
(* The commands of a member.                                               *)
(***************************************************************************)
Api == {"api"}
Decides(r) == run[r].status # "not_started" /\ run[r].revision < MaxRevision

Unchanged == UNCHANGED <<receipts, stage, queue, slot>>

\* One run per definition and product, the cancelled ones aside.
Start(m, r) ==
  /\ run[r] = NoRun
  /\ \A other \in Run : run[other].status \in {"not_started", "cancelled"}
  /\ \E first \in Succ[1] :
       Prepare(m, r, first, Advanced(NoRun, first), CompletedNodes(NoRows, 1, first), attempt, FALSE, Api)
  /\ Unchanged

\* Mutant of Complete: an internal action is completed by hand.
CompleteByHand(m, r, n) ==
  /\ Decides(r)
  /\ node[r][n].status = "in_progress"
  /\ \E next \in Succ[n] :
       Prepare(m, r, next, Advanced(run[r], next), CompletedNodes(node[r], n, next), attempt, FALSE, Api)
  /\ Unchanged

\* complete and approve.  Neither asks whether the run is active or the node its current one.
Complete(m, r, n) ==
  /\ Decides(r)
  /\ node[r][n].status = "in_progress" /\ Kind[n] # "internal_action"
  /\ \E next \in Succ[n] :
       Prepare(m, r, next, Advanced(run[r], next), CompletedNodes(node[r], n, next), attempt, FALSE, Api)
  /\ Unchanged

\* start, for a node that a rejection has put back.
StartNode(m, r, n) ==
  /\ Decides(r)
  /\ node[r][n].status = "not_started" /\ run[r].current = n
  /\ Prepare(m, r, n, Moved(run[r], "active", n), SetNode(node[r], n, "in_progress"), attempt, FALSE, Api)
  /\ Unchanged

Block(m, r, n) ==
  /\ Decides(r)
  /\ node[r][n].status = "in_progress"
  /\ Write(r, Moved(run[r], "blocked", run[r].current), SetNode(node[r], n, "blocked"), Paused(attempt, r))
  /\ UNCHANGED <<intents, faults>> /\ Unchanged

Unblock(m, r, n) ==
  /\ Decides(r)
  /\ node[r][n].status = "blocked"
  /\ Prepare(m, r, n, Moved(run[r], "active", run[r].current), SetNode(node[r], n, "in_progress"),
             attempt, FALSE, Api)
  /\ Unchanged

\* The artwork task of an operation shows as running: a worker has it, or its provider has
\* been asked and it is not decided.
PodRunning(o) == stage[o] \in {"running", "asked", "answered", "kept"}

\* Mutant of ReconfigurationSafe: only a task that is running is in the way.
ReconfigurationUnlessRunning(r, n) ==
  LET previous == Latest(node[r], attempt, r, n) IN
  previous # NoAttempt /\ n \in Delegates /\ attempt[previous].op # NoAttempt =>
    ~PodRunning(attempt[previous].op)

\* assertReconfigurationSafe: other inputs only when the provider cannot have been paid for
\* an answer that is still out.
ReconfigurationSafe(r, n) ==
  LET previous == Latest(node[r], attempt, r, n) IN
  previous # NoAttempt /\ n \in Delegates /\ attempt[previous].op # NoAttempt =>
    ~PodRunning(attempt[previous].op) /\ stage[attempt[previous].op] # "uncertain"

Retry(m, r, n, override) ==
  /\ Decides(r)
  /\ node[r][n].status = "failed" /\ Kind[n] = "internal_action"
  /\ override /\ run[r].current = n => ReconfigurationSafe(r, n)
  /\ Prepare(m, r, n, Moved(run[r], "active", run[r].current), SetNode(node[r], n, "in_progress"),
             attempt, override, Api)
  /\ Unchanged

\* The node a cancellation is addressed to is cancelled with the run, current or not.
Cancel(m, r, n) ==
  /\ Decides(r)
  /\ run[r].status \notin {"completed", "cancelled"}
  /\ Write(r, Moved(run[r], "cancelled", NoNode), SetNode(node[r], n, "cancelled"), Cancelled(attempt, r))
  /\ UNCHANGED <<intents, faults>> /\ Unchanged

\* Mutant of Reopen: the attempts of the nodes that start again go on.
ReopenUnfenced(m, r, n) ==
  /\ Decides(r)
  /\ node[r][n].status = "completed"
  /\ Prepare(m, r, n, Moved(run[r], "active", n), ReopenedNodes(node[r], n), attempt, FALSE, Api)
  /\ Unchanged

\* reopen asks for a completed node, and nothing of the run.
Reopen(m, r, n) ==
  /\ Decides(r)
  /\ node[r][n].status = "completed"
  /\ Prepare(m, r, n, Moved(run[r], "active", n), ReopenedNodes(node[r], n), Cancelled(attempt, r), FALSE, Api)
  /\ Unchanged

\* The member names the node that rework starts from; it may be any node of the graph.
Reject(m, r, n, target) ==
  /\ Decides(r)
  /\ node[r][n].status = "in_progress" /\ Kind[n] = "approval_gate"
  /\ Prepare(m, r, target, Moved(run[r], "active", target),
             SetNode(ReopenedNodes(node[r], target), n, "not_started"), Cancelled(attempt, r), FALSE, Api)
  /\ Unchanged
-----------------------------------------------------------------------------
(***************************************************************************)
(* Dispatch.                                                               *)
(***************************************************************************)
IsCurrent(a) ==
  LET r == attempt[a].run  n == attempt[a].node IN
  /\ attempt[a].status # "absent"
  /\ run[r].status = "active" /\ run[r].current = n
  /\ node[r][n].status = "in_progress" /\ attempt[a].number = node[r][n].attempts

\* Mutant of Reservable: an attempt that waits for its task is left to the queue.
ReservableUnlessWaiting(a) ==
  /\ IsCurrent(a)
  /\ attempt[a].status = "queued" \/ (attempt[a].status = "running" /\ ~attempt[a].live)
  /\ attempt[a].due /\ ~attempt[a].throttled

Reservable(a) ==
  /\ IsCurrent(a)
  /\ attempt[a].status \in {"queued", "waiting"} \/ (attempt[a].status = "running" /\ ~attempt[a].live)
  /\ attempt[a].due /\ ~attempt[a].throttled

\* The scheduler reserves in one transaction what it then puts on the queue.
Reserve(a) ==
  /\ Reservable(a) /\ <<"scheduler", a>> \notin intents
  /\ attempt' = [attempt EXCEPT ![a].throttled = TRUE]
  /\ intents' = intents \cup {<<"scheduler", a>>}
  /\ UNCHANGED <<run, node, receipts, stage, queue, slot, faults>>

Owed(a) == IF queue[a] < Backlog THEN [queue EXCEPT ![a] = @ + 1] ELSE queue

\* The API looks again for a queued attempt before it dispatches, and stamps it after.
Enqueue(by, a) ==
  /\ <<by, a>> \in intents
  /\ intents' = intents \ {<<by, a>>}
  /\ IF by = "api" /\ attempt[a].status # "queued" THEN UNCHANGED <<queue, attempt>>
     ELSE /\ queue' = Owed(a)
          /\ attempt' = [attempt EXCEPT ![a].throttled = @ \/ attempt[a].status = "queued"]
  /\ UNCHANGED <<run, node, receipts, stage, slot, faults>>

EnqueueFails(by, a) ==
  /\ Fault("queue")
  /\ <<by, a>> \in intents
  /\ intents' = intents \ {<<by, a>>}
  /\ attempt' = [attempt EXCEPT ![a].throttled =
       IF attempt[a].status \in (IF by = "api" THEN {"queued"} ELSE Live) THEN FALSE ELSE @]
  /\ UNCHANGED <<run, node, receipts, stage, queue, slot>>

\* The process ends after its commit.
DispatcherDies(by, a) ==
  /\ Fault("crash")
  /\ <<by, a>> \in intents
  /\ intents' = intents \ {<<by, a>>}
  /\ UNCHANGED <<rows, receipts, stage, queue, slot>>
-----------------------------------------------------------------------------
(***************************************************************************)
(* The runtime: claim, the owner's work under the lease, and its end.      *)
(***************************************************************************)
Holding == {"work", "look", "finish", "wait", "fail"}
At(w, pc) == slot[w].pc = pc
Row(w) == attempt[slot[w].at]
Goes(w, pc) == slot' = [slot EXCEPT ![w].pc = pc]
Ends(w) == slot' = [slot EXCEPT ![w] = Idle]
Fails(w, code) == slot' = [slot EXCEPT ![w].pc = "fail", ![w].code = code]

Claimable(a) ==
  /\ IsCurrent(a)
  /\ attempt[a].status \in Live /\ attempt[a].due
  /\ ~(attempt[a].status = "running" /\ attempt[a].live)
Spoilt(a) == attempt[a].status = "running" /\ attempt[a].recovery >= Recoveries

\* An idle worker takes a delivery up and claims its attempt in one transaction, before
\* which it has read nothing.
Delivered(w, a) ==
  /\ At(w, "idle") /\ queue[a] > 0
  /\ queue' = [queue EXCEPT ![a] = @ - 1]

ClaimNothing(w, a) ==
  /\ Delivered(w, a) /\ ~Claimable(a)
  /\ UNCHANGED <<rows, receipts, stage, intents, slot, faults>>

\* Mutant of FailNode: the revision of the run stays.
FailNodeUnnumbered(a) ==
  LET r == attempt[a].run  n == attempt[a].node IN
  Write(r, [run[r] EXCEPT !.status = "failed"], FailedNodes(node[r], n),
        [attempt EXCEPT ![a] = EndedAs(@, "failed")])

\* failNode: the attempt, the node and the run fail together.
FailNode(a) ==
  LET r == attempt[a].run  n == attempt[a].node IN
  Write(r, FailedRun(run[r]), FailedNodes(node[r], n),
        [attempt EXCEPT ![a] = EndedAs(@, "failed")])

\* Recovered too often; or queued for more than 24 hours, or the authority or the input is gone.
ClaimFails(w, a) ==
  /\ Delivered(w, a) /\ Claimable(a)
  /\ (Spoilt(a) /\ UNCHANGED faults) \/ Fault("grounds")
  /\ FailNode(a)
  /\ UNCHANGED <<receipts, stage, intents, slot>>

Claim(w, a) ==
  /\ Delivered(w, a) /\ Claimable(a) /\ ~Spoilt(a)
  /\ attempt' = [attempt EXCEPT ![a].status = "running", ![a].token = w, ![a].live = TRUE,
                   ![a].recovery = IF attempt[a].status = "running" THEN @ + 1 ELSE @]
  /\ slot' = [slot EXCEPT ![w] = [Idle EXCEPT !.pc = IF attempt[a].delegated THEN "look" ELSE "work", !.at = a]]
  /\ UNCHANGED <<run, node, receipts, stage, intents, faults>>

\* Mutant of Guard: the worker trusts its claim.
GuardOfClaim(w) ==
  LET a == slot[w].at IN
  attempt[a].status \in Live \cup {"cancelled"} /\ run[attempt[a].run].status = "active"

\* guard: the attempt is current and this run holds its live lease.
Guard(w) ==
  LET a == slot[w].at IN
  IsCurrent(a) /\ attempt[a].status = "running" /\ attempt[a].token = w /\ attempt[a].live

\* A step under the guard that is fenced off, meets a database or a storage that fails, or
\* finds the authority or the pinned input gone.
Trips(w) ==
  /\ At(w, "work") \/ At(w, "finish") \/ At(w, "wait")
  /\ \/ ~Guard(w) /\ Ends(w) /\ UNCHANGED faults
     \/ Fault("database") /\ Fails(w, "retryable")
     \/ Guard(w) /\ Fault("grounds") /\ Fails(w, "final")
  /\ UNCHANGED <<rows, receipts, stage, queue, intents>>

\* executePreparedProfile and executePreparedExport: the effect and its receipt in one
\* guarded transaction, or the receipt an earlier run left.
Produce(w) ==
  /\ At(w, "work") /\ Row(w).node \notin Delegates
  /\ Guard(w)
  /\ receipts' = receipts \cup {Row(w).op}
  /\ Goes(w, "finish")
  /\ UNCHANGED <<rows, stage, queue, intents, faults>>

\* create of the artwork task, or the replay of its operation, with its id on the attempt.
Delegate(w) ==
  LET o == Row(w).op IN
  /\ At(w, "work") /\ Row(w).node \in Delegates
  /\ Guard(w)
  /\ stage' = IF stage[o] = "absent" THEN [stage EXCEPT ![o] = "waiting"] ELSE stage
  /\ attempt' = [attempt EXCEPT ![slot[w].at].delegated = TRUE]
  /\ Goes(w, "look")
  /\ UNCHANGED <<run, node, receipts, queue, intents, faults>>

\* The status of the artwork task decides; it is read without the guard.
Look(w) ==
  LET o == Row(w).op IN
  /\ At(w, "look")
  /\ \/ /\ IF stage[o] = "adopted" THEN Goes(w, "finish")
           ELSE IF stage[o] \in {"stopped", "uncertain"} THEN Fails(w, "final")
           ELSE Goes(w, "wait")
        /\ UNCHANGED faults
     \/ Fault("database") /\ Fails(w, "retryable")
  /\ UNCHANGED <<rows, receipts, stage, queue, intents>>

\* dispatchPending has handed a queued task to its queue (PodArtwork); look again in a minute.
Wait(w) ==
  /\ At(w, "wait") /\ Guard(w)
  /\ attempt' = [attempt EXCEPT ![slot[w].at].status = "waiting", ![slot[w].at].delegated = TRUE,
                                ![slot[w].at].token = NoWorker, ![slot[w].at].live = FALSE,
                                ![slot[w].at].due = FALSE]
  /\ Ends(w)
  /\ UNCHANGED <<run, node, receipts, stage, queue, intents, faults>>

\* The node is completed by its receipt and the next one is prepared for the same member.
Finish(w) ==
  LET a == slot[w].at  r == attempt[a].run  n == attempt[a].node IN
  /\ At(w, "finish") /\ Guard(w)
  /\ \E next \in Succ[n] :
       Prepare(attempt[a].by, r, next, Advanced(run[r], next), CompletedNodes(node[r], n, next),
               [attempt EXCEPT ![a] = EndedAs(@, "completed")],
               FALSE, {})
  /\ Ends(w)
  /\ UNCHANGED <<receipts, stage, queue>>

\* fail, fenced like the rest: a passing error is put off a minute, up to the bound.
Fail(w) ==
  LET a == slot[w].at IN
  /\ At(w, "fail")
  /\ IF ~Guard(w) THEN UNCHANGED rows
     ELSE IF slot[w].code = "retryable" /\ attempt[a].recovery < Recoveries
     THEN /\ attempt' = [attempt EXCEPT ![a].status = "queued", ![a].token = NoWorker, ![a].live = FALSE,
                                        ![a].recovery = @ + 1, ![a].due = FALSE]
          /\ UNCHANGED <<run, node>>
     ELSE FailNode(a)
  /\ Ends(w)
  /\ UNCHANGED <<receipts, stage, queue, intents, faults>>

\* The process that has taken a delivery up ends before the claim's commit.
DeliveryDies(w, a) ==
  /\ Fault("crash")
  /\ Delivered(w, a)
  /\ UNCHANGED <<rows, receipts, stage, intents, slot>>

\* The process ends anywhere later; the queue may deliver the job again.
WorkerDies(w) ==
  /\ Fault("crash")
  /\ ~At(w, "idle")
  /\ Ends(w)
  /\ queue' \in {queue, Owed(slot[w].at)}
  /\ UNCHANGED <<rows, receipts, stage, intents>>
-----------------------------------------------------------------------------
(***************************************************************************)
(* The artwork task of an operation, as PodPromise has it, under the       *)
(* admission that looks at the workflow.  Admission reads the workflow's   *)
(* rows without a lock, so what it admits happens in a later step.         *)
(***************************************************************************)
\* The live latest attempt of the operation's node, if it is on the operation.
Originates(a, o) ==
  LET r == attempt[a].run  n == attempt[a].node IN
  /\ attempt[a].status \in Live /\ attempt[a].op = o
  /\ run[r].current = n /\ attempt[a].number = node[r][n].attempts
Admissible(o) == \E a \in Attempt : Originates(a, o) /\ IsCurrent(a)
Deferred(o) ==
  \E a \in Attempt :
    /\ Originates(a, o)
    /\ run[attempt[a].run].status = "blocked" /\ node[attempt[a].run][attempt[a].node].status = "blocked"

PodStep(o, from, to) ==
  /\ stage[o] \in from
  /\ stage' = [stage EXCEPT ![o] = to]
  /\ UNCHANGED <<rows, receipts, queue, intents, slot, faults>>

PodTakes(o) ==
  /\ Admissible(o)
  /\ PodStep(o, {"waiting"}, "running") \/ PodStep(o, {"kept"}, "answered")
\* A failure that may pass, or a pause.
PodLetsGo(o) == PodStep(o, {"running"}, "waiting") \/ PodStep(o, {"answered"}, "kept")
\* The admission behind a request, or behind the adoption, may be out of date by now.
PodAsks(o) == PodStep(o, {"running"}, "asked")
PodSaves(o) == PodStep(o, {"asked"}, "answered")
PodLoses(o) == PodStep(o, {"asked"}, "uncertain")
PodAdopts(o) == PodStep(o, {"answered"}, "adopted")
\* Failed for good, out of attempts, past its retention or refused; a task that is deferred
\* before it has asked stays.
PodStops(o) ==
  \/ PodStep(o, {"running", "answered", "kept"}, "stopped")
  \/ ~Admissible(o) /\ ~Deferred(o) /\ PodStep(o, {"waiting"}, "stopped")

PodMoves(o) ==
  \/ PodTakes(o) \/ PodLetsGo(o) \/ PodAsks(o) \/ PodSaves(o)
  \/ PodLoses(o) \/ PodAdopts(o) \/ PodStops(o)
-----------------------------------------------------------------------------
(***************************************************************************)
(* Time.                                                                   *)
(***************************************************************************)
TimeOf(a) == UNCHANGED <<run, node, receipts, stage, queue, intents, slot>>

BecomesDue(a) ==
  /\ attempt[a].status \in Live /\ ~attempt[a].due
  /\ attempt' = [attempt EXCEPT ![a].due = TRUE]
  /\ TimeOf(a) /\ UNCHANGED faults

ThrottleLapses(a) ==
  /\ attempt[a].status \in Live /\ attempt[a].throttled
  /\ attempt' = [attempt EXCEPT ![a].throttled = FALSE]
  /\ TimeOf(a) /\ UNCHANGED faults

Holds(w, a) == slot[w].pc \in Holding /\ slot[w].at = a /\ attempt[a].token = w

\* A lease runs out when its holder is gone, or slower than five minutes.
LeaseLapses(a) ==
  /\ attempt[a].live
  /\ attempt' = [attempt EXCEPT ![a].live = FALSE]
  /\ IF \E w \in Worker : Holds(w, a) THEN Fault("slow") ELSE UNCHANGED faults
  /\ TimeOf(a)
-----------------------------------------------------------------------------
Commands(m, r) ==
  \/ Start(m, r)
  \/ \E n \in Node :
       \/ Complete(m, r, n) \/ StartNode(m, r, n) \/ Block(m, r, n) \/ Unblock(m, r, n)
       \/ Cancel(m, r, n) \/ Reopen(m, r, n)
       \/ \E override \in BOOLEAN : Retry(m, r, n, override)
       \/ \E target \in Node : Reject(m, r, n, target)

Dispatch(a) ==
  \/ Reserve(a)
  \/ \E by \in {"api", "scheduler"} : Enqueue(by, a) \/ EnqueueFails(by, a) \/ DispatcherDies(by, a)

Deliver(w, a) == ClaimNothing(w, a) \/ ClaimFails(w, a) \/ Claim(w, a)

Step(w) ==
  \/ Trips(w) \/ Produce(w) \/ Delegate(w) \/ Look(w) \/ Wait(w) \/ Finish(w) \/ Fail(w)

Times(a) == BecomesDue(a) \/ ThrottleLapses(a) \/ LeaseLapses(a)

Next ==
  \/ \E m \in Member, r \in Run : Commands(m, r)
  \/ \E a \in Attempt : Dispatch(a) \/ PodMoves(a) \/ Times(a)
  \/ \E w \in Worker : Step(w) \/ WorkerDies(w) \/ \E a \in Attempt : Deliver(w, a) \/ DeliveryDies(w, a)

Spec == Init /\ [][Next]_vars

\* Workers run, the scheduler ticks, the queue delivers, time passes, and an artwork task
\* is decided in the end (PodArtwork's TasksEnd); nothing is assumed of members or faults.
FairSpec ==
  /\ Spec
  /\ \A w \in Worker : WF_vars(Step(w)) /\ \A a \in Attempt : WF_vars(Deliver(w, a))
  /\ \A a \in Attempt :
       /\ WF_vars(Reserve(a)) /\ WF_vars(BecomesDue(a)) /\ WF_vars(ThrottleLapses(a))
       /\ WF_vars(LeaseLapses(a))
       /\ \A by \in {"api", "scheduler"} : WF_vars(Enqueue(by, a))
       /\ SF_vars(PodTakes(a)) /\ SF_vars(PodAdopts(a) \/ PodStops(a) \/ PodLoses(a))
-----------------------------------------------------------------------------
(***************************************************************************)
(* Properties.                                                             *)
(***************************************************************************)
RunRow ==
  [status : {"not_started", "active", "blocked", "failed", "completed", "cancelled"},
   current : Node \cup {NoNode}, revision : Nat]
NodeRow ==
  [status : {"not_started", "in_progress", "blocked", "failed", "completed", "skipped", "cancelled"},
   attempts : Nat]
AttemptRow ==
  [status : Live \cup {"absent", "failed", "completed", "cancelled"},
   run : Run, node : Node, number : Nat,
   op : Attempt \cup {NoAttempt}, by : Member \cup {NoMember}, delegated : BOOLEAN,
   token : Worker \cup {NoWorker}, live : BOOLEAN, due : BOOLEAN,
   recovery : 0..Recoveries, throttled : BOOLEAN]

\* The rows and the processes have the shape the code gives them; only a running attempt
\* has a lease.
TypeOK ==
  /\ run \in [Run -> RunRow] /\ node \in [Run -> [Node -> NodeRow]]
  /\ attempt \in [Attempt -> AttemptRow]
  /\ \A a \in Attempt : attempt[a].live => attempt[a].status = "running"
  /\ receipts \subseteq Attempt
  /\ stage \in [Attempt -> Stage]
  /\ queue \in [Attempt -> 0..Backlog] /\ intents \subseteq {"api", "scheduler"} \X Attempt
  /\ slot \in [Worker -> [pc : Holding \cup {"idle"}, at : Attempt \cup {NoAttempt},
                          code : {"none", "retryable", "final"}]]
  /\ faults \in 0..MaxFaults

\* Two workers never act for one run: whatever was cancelled, reopened, rejected, blocked
\* and retried in between, the only live attempt is the latest one of the current node.
OneLiveAttempt ==
  \A r \in Run : \A a \in OfRun(attempt, r) :
    attempt[a].status \in Live =>
      run[r].current = attempt[a].node /\ attempt[a].number = node[r][attempt[a].node].attempts

\* An internal node is only completed by the verified result of its latest attempt: the
\* catalog's receipt or the adopted design of the operation (requireNodePermission, finish).
CompletedIsVerified ==
  \A r \in Run, n \in Node :
    node[r][n].status = "completed" /\ Kind[n] = "internal_action" =>
      LET a == Latest(node[r], attempt, r, n) IN
      /\ a # NoAttempt /\ attempt[a].status = "completed"
      /\ IF n \in Delegates THEN stage[attempt[a].op] = "adopted" ELSE attempt[a].op \in receipts

\* One result is counted once: no operation completes two attempts.
ResultUsedOnce ==
  \A a, b \in Attempt :
    attempt[a].status = "completed" /\ attempt[b].status = "completed" /\ attempt[a].op = attempt[b].op => a = b

\* The answer of an operation's provider may have been paid for and no receipt of it is
\* recorded.  (A receipt whose answer was never stored does not count as out: PodArtwork.)
Out(o) == stage[o] \in {"asked", "uncertain"}
Follows(b, a) ==
  /\ attempt[a].status = "failed" /\ attempt[a].op # NoAttempt
  /\ attempt[b].op # NoAttempt
  /\ attempt[b].run = attempt[a].run /\ attempt[b].node = attempt[a].node
  /\ attempt[b].number > attempt[a].number

\* A failed POD attempt that its member retries, as it is or with other inputs, does not
\* lead to a second request while the first may have been paid for nothing
\* (assertReconfigurationSafe and the reused snapshot).
RetryBuysNothingTwice ==
  \A a, b \in Attempt :
    Follows(b, a) /\ attempt[b].number = attempt[a].number + 1 /\ attempt[b].by = attempt[a].by
      => attempt[b].op = attempt[a].op \/ ~Out(attempt[a].op)

\* The same along a chain of retries and for whoever retries: what the failed node tells
\* its reader, that the workflow does not create a paid request anew (runtime.ts,
\* diagnostic WORKFLOW_POD_TASK_FAILED).
NoPaidRequestAnew ==
  \A a, b \in Attempt : Follows(b, a) => attempt[b].op = attempt[a].op \/ ~Out(attempt[a].op)

\* However often nodes are rejected, reopened, blocked, cancelled or failed, a run has at
\* most one node open that is not an end, where the graph's array lists nodes in flow order
\* (InFlowOrder): what rework overtakes is put back, so no decision and no worker acts on
\* a node that is no longer the work at hand (reopenFrom).
Open == {"in_progress", "blocked", "failed"}
OneOpenNode ==
  \A r \in Run : \A m, n \in Node :
    Kind[m] # "end" /\ Kind[n] # "end" /\ node[r][m].status \in Open /\ node[r][n].status \in Open => m = n

\* An attempt that has ended stays as it ended: a worker that was fenced off by a command,
\* a later claim or its own failure changes nothing afterwards.
EndedAttemptsStay ==
  [][\A a \in Attempt :
       attempt[a].status \in {"failed", "completed", "cancelled"} =>
         attempt'[a].status = attempt[a].status /\ attempt'[a].op = attempt[a].op]_vars

Shape(r) == <<run[r].status, run[r].current, [n \in Node |-> node[r][n].status]>>

\* Whatever changes in a run gives it a new revision, the steps of the worker included, so
\* that a command decided on older rows is refused.
ChangesAreNumbered ==
  [][\A r \in Run : Shape(r)' # Shape(r) => run'[r].revision > run[r].revision]_vars

\* An internal node an active run stands on gets somewhere: completed, failed, or moved
\* away from by a command.  Lost dispatches, dead workers and pauses only delay it.
Stands(r) ==
  /\ run[r].status = "active" /\ run[r].current # NoNode
  /\ Kind[run[r].current] = "internal_action" /\ node[r][run[r].current].status = "in_progress"
NodesSettle ==
  \A r \in Run : \A n \in Node :
    Stands(r) /\ run[r].current = n ~> ~(Stands(r) /\ run[r].current = n)
=============================================================================
