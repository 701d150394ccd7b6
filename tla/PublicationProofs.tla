--------------------------- MODULE PublicationProofs ---------------------------
(***************************************************************************)
(* What holds of marketplace publication for any number of requests,       *)
(* workers, images, attempts and faults: every variable keeps its type,    *)
(* recorded progress is never ahead of the provider (RecordedIsDone), and, *)
(* while the queue takes the jobs it is given, an end is an end            *)
(* (TerminalIsFinal).  Where moreover not both the lease and the lock of a *)
(* job can be lost, runs on one request do not overlap: recorded progress  *)
(* only advances (ProgressOnlyAdvances), a reconciliation only reads       *)
(* (ReconciliationOnlyReads), and a request that has ended is left alone   *)
(* (EndedStaysQuiet).                                                      *)
(***************************************************************************)
EXTENDS Publication, TLAPS

StepsOf(r) == IF r \in Draft THEN {"create"} ELSE {"configure", "upload", "activate", "status"}

\* The steps that come before a step.
Earlier == [create |-> {}, configure |-> {}, upload |-> {"configure"},
            activate |-> {"configure", "upload"}, status |-> {"configure", "upload", "activate"}]

Stepping == {"guard", "call", "record"}

\* What a run x knows when the provider has acted as s says: it is at a step of its
\* request, and what comes before the part it is at is done.
Sound(x, s) ==
  /\ x.pc \in {"lease", "claim"} => x.image = 1
  /\ x.pc \in Stepping =>
       /\ x.step \in StepsOf(x.req)
       /\ x.step # "upload" => x.image = 1
       /\ \A p \in Part : p[1] \in Earlier[x.step] => s[x.req][p] >= 1
       /\ \A p \in Part : p[1] = x.step /\ (p[2] < x.image \/ x.pc = "record") => s[x.req][p] >= 1
  /\ x.pc = "schedule" => x.step = "status" /\ x.req \in Activation
  /\ x.pc = "fail" => x.event # "none"

IInv ==
  /\ TypeOK
  /\ \A w \in Worker : Sound(run[w], sent)
  /\ RecordedIsDone
  /\ \A r \in Draft : progress[r] = "none"
-----------------------------------------------------------------------------
(***************************************************************************)
(* Types of the parts a step changes.                                      *)
(***************************************************************************)
RunTypes == run \in [Worker -> {Idle} \cup RunRow]
JobTypes == job \in [Queue -> [Request -> JobRow]]
RowTypes == status \in [Request -> Status] /\ progress \in [Request -> Progress \cup {"none"}]
SentTypes == sent \in [Request -> [Part -> 0..2]]
ClientRow == [pc: {"latest", "enqueue", "append", "remove"}, req: Request]
Claims == claimed \in [Request -> Worker \cup {NoWorker}]
Leases == lease \in Worker \cup {NoWorker}

LEMMA Typed ==
  TypeOK <=>
    /\ RunTypes /\ JobTypes /\ RowTypes /\ SentTypes /\ Claims /\ Leases
    /\ grounds \in Grounds /\ client \in [Client -> {Idle} \cup ClientRow] /\ faults \in 0..MaxFaults
BY DEF TypeOK, RunTypes, JobTypes, RowTypes, SentTypes, Claims, Leases, ClientRow

LEMMA TypedNext ==
  ASSUME RunTypes', JobTypes', RowTypes', SentTypes', Claims', Leases',
         grounds' \in Grounds, client' \in [Client -> {Idle} \cup ClientRow], faults' \in 0..MaxFaults
  PROVE  TypeOK'
BY DEF TypeOK, RunTypes, JobTypes, RowTypes, SentTypes, Claims, Leases, ClientRow

LEMMA FaultTypes == ASSUME TypeOK, NEW kind, Fault(kind) PROVE faults' \in 0..MaxFaults
BY PublicationAssumption DEF TypeOK, Fault

LEMMA Queues == ASSUME NEW w \in Worker PROVE QueueOf(w) \in Queue
BY DEF QueueOf, Queue

\* A run that is not idle.
LEMMA RunRows ==
  ASSUME TypeOK, NEW w \in Worker, run[w].pc # "idle"
  PROVE  /\ run[w] \in RunRow /\ run[w].req \in Request
         /\ JobOf(w) = job[QueueOf(w)][run[w].req] /\ JobOf(w) \in JobRow /\ QueueOf(w) \in Queue
<1>1. run[w] \in RunRow
  BY DEF TypeOK, Idle
<1>2. run[w].req \in Request
  BY <1>1 DEF RunRow
<1> QED BY <1>1, <1>2, Queues DEF TypeOK, JobOf

LEMMA AppendTypes ==
  ASSUME TypeOK, NEW r \in Request, NEW s \in Status, Append(r, s)
  PROVE  RowTypes'
BY DEF TypeOK, Append, RowTypes

LEMMA JobPut ==
  ASSUME JobTypes, NEW q \in Queue, NEW r \in Request, NEW j \in JobRow, job' = [job EXCEPT ![q][r] = j]
  PROVE  /\ JobTypes' /\ job'[q][r] = j
         /\ \A p \in Queue, u \in Request : p # q \/ u # r => job'[p][u] = job[p][u]
BY DEF JobTypes

LEMMA JobEdit ==
  ASSUME NEW j \in JobRow, NEW n \in Nat, NEW s \in {"none", "waiting", "active", "done"}
  PROVE  [j EXCEPT !.made = n, !.state = s] \in JobRow
BY DEF JobRow

LEMMA JobEndTypes ==
  ASSUME TypeOK, NEW w \in Worker, run[w].pc # "idle", NEW j \in JobRow, JobEnds(w, j)
  PROVE  JobTypes'
<1>1. [j EXCEPT !.owner = NoWorker] \in JobRow
  BY DEF JobRow
<1> DEFINE k == [j EXCEPT !.owner = NoWorker]
<1>2. job' = [job EXCEPT ![QueueOf(w)][run[w].req] = k] \/ job' = job
  BY DEF JobEnds
<1> HIDE DEF k
<1> QED BY <1>1, <1>2, RunRows, JobPut DEF TypeOK, JobTypes, k

LEMMA LetGoTypes ==
  ASSUME TypeOK, NEW w \in Worker, lease' = Released(w), Unclaim(w)
  PROVE  Leases' /\ Claims'
BY DEF TypeOK, Released, Unclaim, Leases, Claims

\* Where a run may be next: gone, or on the same request.
LEMMA ReturnTypes ==
  ASSUME TypeOK, NEW w \in Worker, run[w].pc # "idle", Return(w)
  PROVE  JobTypes' /\ Leases' /\ Claims' /\ run' = [run EXCEPT ![w] = Idle]
<1>1. [JobOf(w) EXCEPT !.state = "done"] \in JobRow
  BY RunRows DEF JobRow
<1> QED BY <1>1, JobEndTypes, LetGoTypes DEF Return

LEMMA JobFailTypes ==
  ASSUME TypeOK, NEW w \in Worker, run[w].pc # "idle", JobFails(w)
  PROVE  JobTypes' /\ run' = [run EXCEPT ![w] = Idle]
<1> DEFINE j == [JobOf(w) EXCEPT !.made = run[w].attempt + 1,
                   !.state = IF run[w].attempt + 1 < MaxAttempts(w) THEN "waiting" ELSE "done"]
<1>1. j \in JobRow
  <2>1. run[w].attempt + 1 \in Nat /\ JobOf(w) \in JobRow
    BY RunRows DEF RunRow
  <2> QED BY <2>1, JobEdit
<1>2. JobEnds(w, j) /\ run' = [run EXCEPT ![w] = Idle]
  BY DEF JobFails
<1> HIDE DEF j
<1> QED BY <1>1, <1>2, JobEndTypes

LEMMA ThrowTypes ==
  ASSUME TypeOK, NEW w \in Worker, run[w].pc # "idle", Throw(w)
  PROVE  /\ JobTypes' /\ Leases' /\ Claims'
         /\ run' = [run EXCEPT ![w] = Idle] \/ run' = [run EXCEPT ![w].pc = "exhausted"]
<1>1. Leases' /\ Claims'
  BY LetGoTypes DEF Throw
<1>2. CASE LastRead(w)
  BY <1>1, <1>2 DEF Throw, TypeOK, JobTypes
<1>3. CASE ~LastRead(w)
  BY <1>1, <1>3, JobFailTypes DEF Throw
<1> QED BY <1>2, <1>3
-----------------------------------------------------------------------------
(***************************************************************************)
(* Steps that neither reach the provider nor record progress.              *)
(***************************************************************************)
\* A run goes on to a place that is sound for it.
Moves(w) ==
  \E x \in {Idle} \cup RunRow : Sound(x, sent') /\ run' = [run EXCEPT ![w] = x]

\* The provider's requests that were made stay made.
Grows == SentTypes' /\ \A r \in Request, p \in Part : sent'[r][p] >= sent[r][p]

LEMMA StaysSent ==
  ASSUME SentTypes, Grows, NEW r \in Request, NEW p \in Part, sent[r][p] >= 1
  PROVE  sent'[r][p] >= 1
<1>1. sent[r][p] \in 0..2 /\ sent'[r][p] \in 0..2 /\ sent'[r][p] >= sent[r][p]
  BY DEF SentTypes, Grows
<1> QED BY <1>1

LEMMA SoundGrows ==
  ASSUME IInv, Grows, NEW w \in Worker
  PROVE  Sound(run[w], sent')
<1>1. CASE run[w].pc = "idle"
  BY <1>1 DEF Sound, Stepping
<1>2. CASE run[w].pc # "idle"
  <2>1. run[w].req \in Request /\ Sound(run[w], sent)
    BY <1>2, RunRows DEF IInv
  <2>2. ASSUME NEW r \in Request, NEW p \in Part, sent[r][p] >= 1 PROVE sent'[r][p] >= 1
    BY <2>2, StaysSent, Typed DEF IInv
  <2> QED BY <2>1, <2>2 DEF Sound
<1> QED BY <1>1, <1>2

LEMMA RunsMove ==
  ASSUME IInv, Grows, run' = run \/ \E w \in Worker : Moves(w)
  PROVE  RunTypes' /\ \A v \in Worker : Sound(run[v], sent)'
<1>1. CASE run' = run
  BY <1>1, SoundGrows DEF IInv, TypeOK, RunTypes
<1>2. ASSUME NEW w \in Worker, Moves(w) PROVE RunTypes' /\ \A v \in Worker : Sound(run[v], sent)'
  <2>1. PICK x \in {Idle} \cup RunRow : Sound(x, sent') /\ run' = [run EXCEPT ![w] = x]
    BY <1>2 DEF Moves
  <2>2. RunTypes' /\ run'[w] = x /\ \A v \in Worker : v # w => run'[v] = run[v]
    BY <2>1 DEF IInv, TypeOK, RunTypes
  <2> QED BY <2>1, <2>2, SoundGrows
<1> QED BY <1>1, <1>2

Plain == Status \ (Progress \cup {"draft_created"})

\* An event that is no progress and no created draft, or none.
Remarks == UNCHANGED <<status, progress>> \/ \E r \in Request, s \in Plain : Append(r, s)

LEMMA RankIsNat == \A s \in Progress \cup {"none"} : Rank[s] \in 0..4
BY DEF Progress, Rank

LEMMA RemarksKeep ==
  ASSUME IInv, Grows, Remarks
  PROVE  RowTypes' /\ RecordedIsDone' /\ \A r \in Draft : progress'[r] = "none"
<1>1. RowTypes' /\ progress' = progress
  <2>1. ASSUME NEW r \in Request, NEW s \in Plain, Append(r, s) PROVE progress' = progress
    BY <2>1 DEF Append, Plain, IInv, TypeOK
  <2> QED BY <2>1, AppendTypes DEF Remarks, Plain, IInv, TypeOK, RowTypes
<1>2. \A r \in Request : status'[r] = "draft_created" => status[r] = "draft_created"
  BY DEF Remarks, Append, Plain, IInv, TypeOK
<1>3. ASSUME NEW r \in Request, NEW p \in Part, sent[r][p] >= 1 PROVE sent'[r][p] >= 1
  BY <1>3, StaysSent, Typed DEF IInv
<1>4. ASSUME NEW r \in Request PROVE
        /\ \A p \in StepsThrough(progress'[r]) : sent'[r][p] >= 1
        /\ status'[r] = "draft_created" => sent'[r][<<"create", 1>>] >= 1
  <2>1. StepsThrough(progress'[r]) \subseteq Part /\ <<"create", 1>> \in Part
    BY DEF StepsThrough, Part
  <2> QED BY <1>1, <1>2, <1>3, <2>1 DEF IInv, RecordedIsDone
<1>5. RecordedIsDone'
  BY <1>4 DEF RecordedIsDone, StepsThrough
<1> QED BY <1>1, <1>5 DEF IInv

\* The rest of the state, as long as it has its type.
LEMMA Closing ==
  ASSUME IInv, UNCHANGED sent, Remarks, run' = run \/ \E w \in Worker : Moves(w),
         JobTypes', Claims', Leases', grounds' \in Grounds,
         client' \in [Client -> {Idle} \cup ClientRow], faults' \in 0..MaxFaults
  PROVE  IInv'
<1>1. Grows
  BY DEF IInv, TypeOK, Grows, SentTypes
<1>2. RunTypes' /\ (\A v \in Worker : Sound(run[v], sent)')
  BY <1>1, RunsMove
<1>3. RowTypes' /\ RecordedIsDone' /\ \A r \in Draft : progress'[r] = "none"
  BY <1>1, RemarksKeep
<1>4. TypeOK'
  BY <1>1, <1>2, <1>3, TypedNext DEF Grows
<1> QED BY <1>2, <1>3, <1>4 DEF IInv

LEMMA MoveIdle == ASSUME NEW w \in Worker, run' = [run EXCEPT ![w] = Idle] PROVE Moves(w)
<1>1. Sound(Idle, sent')
  BY DEF Sound, Idle, Stepping
<1> QED BY <1>1 DEF Moves

LEMMA MoveAway ==
  ASSUME TypeOK, NEW w \in Worker, run[w].pc # "idle", run' = [run EXCEPT ![w].pc = "exhausted"]
  PROVE  Moves(w)
<1> DEFINE x == [run[w] EXCEPT !.pc = "exhausted"]
<1>1. x \in RunRow /\ x.pc = "exhausted" /\ run' = [run EXCEPT ![w] = x]
  BY RunRows DEF RunRow, RunPlace
<1> HIDE DEF x
<1>2. Sound(x, sent')
  BY <1>1 DEF Sound, Stepping
<1> QED BY <1>1, <1>2 DEF Moves

LEMMA MoveFail ==
  ASSUME TypeOK, NEW w \in Worker, run[w].pc # "idle", NEW e \in Failure \cup {"unauthorized"}, GoFail(w, e)
  PROVE  Moves(w)
<1> DEFINE x == [run[w] EXCEPT !.pc = "fail", !.event = e]
<1>1. x \in RunRow /\ x.pc = "fail" /\ x.event # "none" /\ run' = [run EXCEPT ![w] = x]
  BY RunRows DEF RunRow, RunPlace, Failure, GoFail
<1> HIDE DEF x
<1>2. Sound(x, sent')
  BY <1>1 DEF Sound, Stepping
<1> QED BY <1>1, <1>2 DEF Moves

LEMMA RetryOrFailIs == \A w \in Worker : RetryOrFail(w) \in {"retry_pending", "failed"}
BY DEF RetryOrFail

LEMMA ReturnMoves ==
  ASSUME TypeOK, NEW w \in Worker, run[w].pc # "idle", Return(w) \/ Throw(w)
  PROVE  JobTypes' /\ Leases' /\ Claims' /\ Moves(w)
BY ReturnTypes, ThrowTypes, MoveIdle, MoveAway
-----------------------------------------------------------------------------
(***************************************************************************)
(* The API and the environment.                                            *)
(***************************************************************************)
LEMMA ClientCalls ==
  ASSUME NEW pc \in {"latest", "enqueue", "append", "remove"}, NEW r \in Request
  PROVE  Call(pc, r) \in ClientRow
BY DEF Call, ClientRow

LEMMA ClientRows ==
  ASSUME TypeOK, NEW c \in Client, client[c].pc # "idle"
  PROVE  client[c] \in ClientRow /\ client[c].req \in Request
<1>1. client[c] \in ClientRow
  BY DEF TypeOK, Idle, ClientRow
<1> QED BY <1>1 DEF ClientRow

LEMMA ApiStep == ASSUME IInv, NEW c \in Client, Api(c) PROVE IInv'
<1>1. /\ TypeOK /\ client \in [Client -> {Idle} \cup ClientRow] /\ UNCHANGED <<sent, run, lease, claimed, grounds>>
      /\ Leases' /\ Claims' /\ grounds' \in Grounds
  BY DEF IInv, TypeOK, ClientRow, Leases, Claims, Api, Submit, Cancel, ReadLatest, Enqueue, QueueUnavailable,
     AppendRetryPending, RemoveJob, Hangup, rows
<1>2. faults' \in 0..MaxFaults
  BY <1>1, FaultTypes DEF TypeOK, Api, Submit, Cancel, ReadLatest, Enqueue, QueueUnavailable,
     AppendRetryPending, RemoveJob, Hangup
<1>3. client' \in [Client -> {Idle} \cup ClientRow]
  <2>1. CASE \E r \in Request : Submit(c, r) \/ Cancel(c, r)
    BY <1>1, <2>1, ClientCalls DEF Submit, Cancel
  <2>2. CASE ReadLatest(c) \/ Enqueue(c) \/ QueueUnavailable(c) \/ AppendRetryPending(c) \/ RemoveJob(c) \/ Hangup(c)
    <3>1. client[c].pc # "idle"
      BY <2>2 DEF ReadLatest, Enqueue, QueueUnavailable, AppendRetryPending, RemoveJob, Hangup
    <3>2. Call("enqueue", client[c].req) \in ClientRow /\ Call("append", client[c].req) \in ClientRow
      BY <1>1, <3>1, ClientRows, ClientCalls
    <3> QED BY <1>1, <2>2, <3>2 DEF ReadLatest, Enqueue, QueueUnavailable, AppendRetryPending, RemoveJob, Hangup
  <2> QED BY <2>1, <2>2 DEF Api
<1>4. JobTypes'
  <2>1. CASE Enqueue(c)
    <3>1. PICK r \in Request : r = client[c].req
      BY <1>1, <2>1, ClientRows DEF Enqueue
    <3> DEFINE j == IF job["publication"][r].state = "none" THEN [NoJob EXCEPT !.state = "waiting"] ELSE job["publication"][r]
    <3>2. job' = [job EXCEPT !["publication"][r] = j]
      BY <2>1, <3>1 DEF Enqueue, Add
    <3>3. j \in JobRow
      BY <1>1 DEF TypeOK, JobRow, NoJob, Queue
    <3> HIDE DEF j
    <3> QED BY <1>1, <3>2, <3>3, JobPut DEF TypeOK, JobTypes, Queue
  <2>2. CASE RemoveJob(c)
    <3>1. PICK r \in Request : r = client[c].req
      BY <1>1, <2>2, ClientRows DEF RemoveJob
    <3>2. NoJob \in JobRow
      BY DEF NoJob, JobRow
    <3> QED BY <1>1, <2>2, <3>1, <3>2, JobPut DEF RemoveJob, TypeOK, JobTypes, Queue
  <2>3. CASE UNCHANGED job
    BY <1>1, <2>3 DEF TypeOK, JobTypes
  <2> QED BY <2>1, <2>2, <2>3 DEF Api, Submit, Cancel, ReadLatest, QueueUnavailable, AppendRetryPending, Hangup
<1>5. Remarks
  <2>1. ASSUME NEW r \in Request, Submit(c, r) PROVE Remarks
    BY <2>1 DEF Submit, Remarks, Plain, Status, Waiting, Progress
  <2>2. ASSUME NEW r \in Request, Cancel(c, r) PROVE Remarks
    BY <2>2 DEF Cancel, Remarks, Plain, Status, Terminal, Progress
  <2>3. CASE AppendRetryPending(c)
    BY <1>1, <2>3, ClientRows DEF AppendRetryPending, Remarks, Plain, Status, Waiting, Progress
  <2> QED BY <2>1, <2>2, <2>3 DEF Api, ReadLatest, Enqueue, QueueUnavailable, RemoveJob, Hangup, rows, Remarks
<1> QED BY <1>1, <1>2, <1>3, <1>4, <1>5, Closing

LEMMA QueueStep ==
  ASSUME IInv, NEW q \in Queue, NEW r \in Request, Redeliver(q, r) \/ Stall(q, r) \/ Evict(q, r)
  PROVE  IInv'
<1>1. TypeOK /\ UNCHANGED <<rows, lease, sent, client, run>>
  BY DEF IInv, Redeliver, Stall, Evict
<1>2. faults' \in 0..MaxFaults
  BY <1>1, FaultTypes DEF TypeOK, Redeliver, Stall, Evict
<1>3. PICK j \in JobRow : job' = [job EXCEPT ![q][r] = j]
  <2>1. job[q][r] \in JobRow
    BY <1>1 DEF TypeOK
  <2>2. [job[q][r] EXCEPT !.state = IF job[q][r].stalled THEN "done" ELSE "waiting",
              !.stalled = TRUE, !.owner = NoWorker] \in JobRow
    BY <2>1 DEF JobRow
  <2>3. NoJob \in JobRow
    BY DEF NoJob, JobRow
  <2> QED BY <1>1, <2>2, <2>3 DEF TypeOK, Redeliver, Stall, Evict, TakeBack
<1>4. JobTypes'
  BY <1>1, <1>3, JobPut DEF TypeOK, JobTypes
<1> QED BY <1>1, <1>2, <1>4, Closing DEF rows, Remarks, TypeOK, Claims, Leases, ClientRow

LEMMA WorldStep == ASSUME IInv, LoseLease \/ \E g \in Grounds : ChangeGrounds(g) PROVE IInv'
<1>1. TypeOK /\ UNCHANGED <<status, progress, claimed, job, sent, client, run>>
  BY DEF IInv, LoseLease, ChangeGrounds, rows
<1>2. faults' \in 0..MaxFaults /\ grounds' \in Grounds /\ Leases'
  BY <1>1, FaultTypes DEF TypeOK, LoseLease, ChangeGrounds, rows, Leases
<1> QED BY <1>1, <1>2, Closing DEF Remarks, TypeOK, Claims, JobTypes, ClientRow

LEMMA DeliverStep == ASSUME IInv, NEW w \in Worker, NEW r \in Request, Deliver(w, r) PROVE IInv'
<1>1. TypeOK /\ UNCHANGED <<rows, lease, sent, client, faults>>
  BY DEF IInv, Deliver
<1>2. PICK q \in Queue : q = QueueOf(w)
  BY Queues
<1>3. job[q][r] \in JobRow /\ [job[q][r] EXCEPT !.state = "active", !.owner = w] \in JobRow
  <2>1. job[q][r] \in JobRow
    BY <1>1 DEF TypeOK
  <2> QED BY <2>1 DEF JobRow
<1>4. JobTypes'
  <2>1. job' = [job EXCEPT ![q][r] = [job[q][r] EXCEPT !.state = "active", !.owner = w]]
    BY <1>1, <1>2 DEF Deliver, TypeOK
  <2> QED BY <1>1, <1>3, <2>1, JobPut DEF TypeOK, JobTypes
<1> DEFINE x == [pc |-> "lease", req |-> r, attempt |-> job[q][r].made, resume |-> "none",
                 step |-> "none", image |-> 1, event |-> "none"]
<1>5. x \in RunRow /\ x.pc = "lease" /\ x.image = 1 /\ run' = [run EXCEPT ![w] = x]
  BY <1>2, <1>3, PublicationAssumption DEF Deliver, RunRow, RunPlace, StepName, JobRow
<1> HIDE DEF x
<1>6. Moves(w)
  BY <1>5 DEF Moves, Sound, Stepping
<1> QED BY <1>1, <1>4, <1>6, Closing DEF rows, Remarks, TypeOK, Claims, Leases, ClientRow
-----------------------------------------------------------------------------
(***************************************************************************)
(* Steps of a worker's run.                                                *)
(***************************************************************************)
LEMMA GivingUp ==
  ASSUME IInv, NEW w \in Worker, run[w].pc # "idle", NEW e \in Failure \cup {"unauthorized"}, GoFail(w, e),
         UNCHANGED <<rows, lease, job, sent, client>>, faults' = faults \/ \E kind : Fault(kind)
  PROVE  IInv'
<1>1. faults' \in 0..MaxFaults
  BY FaultTypes DEF IInv, TypeOK
<1>2. Moves(w)
  BY MoveFail DEF IInv
<1> QED BY <1>1, <1>2, Closing DEF IInv, rows, Remarks, TypeOK, Claims, Leases, JobTypes, ClientRow

\* The run is over, or it throws; what it appends is no progress.
LEMMA Leaving ==
  ASSUME IInv, NEW w \in Worker, run[w].pc # "idle", Return(w) \/ Throw(w), Remarks,
         UNCHANGED <<sent, client>>, grounds' \in Grounds, faults' = faults \/ \E kind : Fault(kind)
  PROVE  IInv'
<1>1. faults' \in 0..MaxFaults
  BY FaultTypes DEF IInv, TypeOK
<1>2. JobTypes' /\ Leases' /\ Claims' /\ Moves(w)
  BY ReturnMoves DEF IInv
<1> QED BY <1>1, <1>2, Closing DEF IInv, TypeOK, ClientRow

LEMMA NotIdle ==
  ASSUME NEW w \in Worker, TakeLease(w) \/ Work(w) \/ Break(w)
  PROVE  run[w].pc # "idle"
<1>1. CASE TakeLease(w) \/ Claim(w) \/ ClaimNothing(w) \/ RefuseClaim(w) \/ Guard(w) \/ Mutate(w) \/ ReadStatus(w)
  BY <1>1 DEF TakeLease, Claim, ClaimNothing, RefuseClaim, Guard, Mutate, ReadStatus
<1>2. CASE RecordMutation(w) \/ RecordStatus(w) \/ RefuseRecord(w) \/ Fail(w) \/ Schedule(w) \/ Exhaust(w)
  BY <1>2 DEF RecordMutation, RecordStatus, RefuseRecord, Fail, Schedule, Exhaust
<1>3. CASE Break(w)
  BY <1>3 DEF Break, ClaimBreaks, GuardBreaks, LoseReply, RateLimited, Rejected, MediaRefused, RecordBreaks,
     FailBreaks, ScheduleUnavailable, ExhaustBreaks, Crash
<1> QED BY <1>1, <1>2, <1>3 DEF Work

\* The steps that only give a run up.
Abandons(w) ==
  \/ GuardBreaks(w) \/ RateLimited(w) \/ Rejected(w) \/ MediaRefused(w) \/ RefuseRecord(w)
  \/ RecordBreaks(w) \/ ScheduleUnavailable(w)

LEMMA AbandonStep == ASSUME IInv, NEW w \in Worker, Abandons(w) PROVE IInv'
<1>1. run[w].pc # "idle" /\ UNCHANGED <<rows, lease, job, sent, client>>
  BY DEF Abandons, GuardBreaks, RateLimited, Rejected, MediaRefused, RefuseRecord, RecordBreaks, ScheduleUnavailable
<1>2. faults' = faults \/ \E kind : Fault(kind)
  BY DEF Abandons, GuardBreaks, RateLimited, Rejected, MediaRefused, RefuseRecord, RecordBreaks, ScheduleUnavailable
<1>3. \E e \in Failure \cup {"unauthorized"} : GoFail(w, e)
  BY RetryOrFailIs DEF Failure, WritebackFailure,
     Abandons, GuardBreaks, RateLimited, Rejected, MediaRefused, RefuseRecord, RecordBreaks, ScheduleUnavailable
<1> QED BY <1>1, <1>2, <1>3, GivingUp

\* The steps that end a run without a result.
Quits(w) ==
  \/ ClaimNothing(w) \/ RefuseClaim(w) \/ ClaimBreaks(w) \/ Fail(w) \/ FailBreaks(w) \/ Exhaust(w)

LEMMA RefusalIs == \A w \in Worker : Refusal(w) \in {"failed", "reconciliation_required"}
<1> SUFFICES ASSUME NEW w \in Worker PROVE Refusal(w) \in {"failed", "reconciliation_required"}
  OBVIOUS
<1>1. CASE grounds = "revoked"
  BY <1>1 DEF Refusal
<1>2. CASE grounds # "revoked" /\ Uncertain(w)
  BY <1>2 DEF Refusal
<1>3. CASE grounds # "revoked" /\ ~Uncertain(w)
  BY <1>3 DEF Refusal
<1> QED BY <1>1, <1>2, <1>3

\* What a run appends when it fails.
LEMMA FailEvent ==
  ASSUME IInv, NEW w \in Worker, run[w].pc = "fail"
  PROVE  run[w].event \in Failure \cup {"unauthorized"}
<1>1. run[w] \in RunRow /\ run[w].event # "none"
  BY RunRows DEF IInv, Sound
<1> QED BY <1>1 DEF RunRow

LEMMA QuitStep == ASSUME IInv, NEW w \in Worker, Quits(w) PROVE IInv'
<1>1. run[w].pc # "idle" /\ UNCHANGED <<sent, client>>
  BY DEF Quits, ClaimNothing, RefuseClaim, ClaimBreaks, Fail, FailBreaks, Exhaust
<1>2. faults' = faults \/ \E kind : Fault(kind)
  BY DEF Quits, ClaimNothing, RefuseClaim, ClaimBreaks, Fail, FailBreaks, Exhaust
<1>3. Return(w) \/ Throw(w)
  BY DEF Quits, ClaimNothing, RefuseClaim, ClaimBreaks, Fail, FailBreaks, Exhaust
<1>4. grounds' \in Grounds
  BY DEF IInv, TypeOK, Grounds, Quits, ClaimNothing, RefuseClaim, ClaimBreaks, Fail, FailBreaks, Exhaust
<1>5. Failure \subseteq Plain /\ "retry_pending" \in Plain
  BY DEF Failure, Plain, Status, Waiting, Terminal, Progress
<1>6. run[w].req \in Request
  BY <1>1, RunRows DEF IInv
<1>7. Remarks
  <2>1. CASE ClaimNothing(w) \/ ClaimBreaks(w) \/ FailBreaks(w)
    BY <2>1 DEF ClaimNothing, ClaimBreaks, FailBreaks, Remarks
  <2>2. CASE RefuseClaim(w)
    BY <1>5, <1>6, <2>2, RefusalIs DEF RefuseClaim, Remarks, Failure
  <2>3. CASE Fail(w)
    <3>1. run[w].event \in Failure \cup {"unauthorized"}
      BY <2>3, FailEvent DEF Fail
    <3>2. (IF run[w].event = "unauthorized" THEN "failed" ELSE run[w].event) \in Plain
      BY <1>5, <3>1 DEF Failure
    <3> QED BY <1>6, <2>3, <3>2 DEF Fail, AppendUnlessTerminal, Remarks
  <2>4. CASE Exhaust(w)
    BY <1>5, <1>6, <2>4 DEF Exhaust, AppendUnlessTerminal, Remarks, Failure
  <2> QED BY <2>1, <2>2, <2>3, <2>4 DEF Quits
<1> QED BY <1>1, <1>2, <1>3, <1>4, <1>7, Leaving

LEMMA CrashStep == ASSUME IInv, NEW w \in Worker, Crash(w) PROVE IInv'
<1>1. UNCHANGED <<status, progress, grounds, job, sent, client>> /\ faults' \in 0..MaxFaults
  BY FaultTypes DEF Crash, IInv
<1>2. Leases' /\ Claims'
  BY LetGoTypes DEF Crash, IInv
<1>3. Moves(w)
  BY MoveIdle DEF Crash
<1> QED BY <1>1, <1>2, <1>3, Closing DEF IInv, Remarks, TypeOK, JobTypes, ClientRow

LEMMA ExhaustBreaksStep == ASSUME IInv, NEW w \in Worker, ExhaustBreaks(w) PROVE IInv'
<1>1. UNCHANGED <<rows, lease, sent, client>> /\ faults' \in 0..MaxFaults
  BY FaultTypes DEF ExhaustBreaks, IInv
<1>2. JobTypes' /\ Moves(w)
  BY JobFailTypes, MoveIdle DEF ExhaustBreaks, IInv
<1> QED BY <1>1, <1>2, Closing DEF IInv, rows, Remarks, TypeOK, Claims, Leases, ClientRow

LEMMA TakeLeaseStep == ASSUME IInv, NEW w \in Worker, TakeLease(w) PROVE IInv'
<1>1. UNCHANGED <<rows, job, sent, client, faults>> /\ Leases' /\ run[w].pc # "idle"
  BY DEF TakeLease, Leases
<1> DEFINE x == [run[w] EXCEPT !.pc = "claim"]
<1>2. x \in RunRow /\ x.pc = "claim" /\ x.image = 1 /\ run' = [run EXCEPT ![w] = x]
  BY <1>1, RunRows DEF IInv, Sound, RunRow, RunPlace, TakeLease
<1> HIDE DEF x
<1>3. Moves(w)
  BY <1>2 DEF Moves, Sound, Stepping
<1> QED BY <1>1, <1>3, Closing DEF IInv, rows, Remarks, TypeOK, Claims, JobTypes, ClientRow

LEMMA ScheduleStep == ASSUME IInv, NEW w \in Worker, Schedule(w) PROVE IInv'
<1>1. /\ TypeOK /\ run[w].pc # "idle" /\ UNCHANGED <<status, progress, grounds, sent, client, faults>>
      /\ Moves(w) /\ Leases' /\ Claims'
  BY MoveIdle, LetGoTypes DEF IInv, Schedule
<1>2. PICK r \in Request : r = run[w].req
  BY <1>1, RunRows
<1>3. CASE job["reconciliation"][r].state = "none"
  <2> DEFINE mine == job["publication"][r]
             done == IF mine.owner = w THEN [mine EXCEPT !.state = "done", !.owner = NoWorker] ELSE mine
             new == [NoJob EXCEPT !.state = "waiting"]
  <2>1. done \in JobRow /\ new \in JobRow
    <3>1. mine \in JobRow
      BY <1>1 DEF TypeOK, Queue
    <3> QED BY <3>1 DEF JobRow, NoJob
  <2>2. job' = [job EXCEPT !["reconciliation"][r] = new, !["publication"][r] = done]
    BY <1>1, <1>2, <1>3 DEF Schedule, TypeOK, Queue
  <2> HIDE DEF done, new
  <2>3. JobTypes'
    BY <1>1, <2>1, <2>2 DEF TypeOK, JobTypes, Queue
  <2> QED BY <1>1, <2>3, Closing DEF Remarks, TypeOK, ClientRow
<1>4. CASE job["reconciliation"][r].state # "none"
  <2>1. [JobOf(w) EXCEPT !.state = "done"] \in JobRow
    BY <1>1, RunRows DEF JobRow
  <2>2. JobTypes'
    BY <1>1, <1>2, <1>4, <2>1, JobEndTypes DEF Schedule
  <2> QED BY <1>1, <2>2, Closing DEF Remarks, TypeOK, ClientRow
<1> QED BY <1>3, <1>4
-----------------------------------------------------------------------------
(***************************************************************************)
(* The steps at the provider.                                              *)
(***************************************************************************)
LEMMA Parts ==
  \A k, i : <<k, i>> \in Part <=> \/ k \in {"create", "configure", "activate"} /\ i = 1
                                  \/ k = "upload" /\ i \in 1..Images
BY DEF Part

LEMMA PartIsPair == \A p \in Part : p = <<p[1], p[2]>> /\ p[2] \in 1..Images
BY PublicationAssumption DEF Part

LEMMA RequestKinds == \A r \in Request : (r \in Draft /\ r \notin Activation) \/ (r \in Activation /\ r \notin Draft)
BY PublicationAssumption DEF Request

\* Where progress stands when a step is next, and what is done by then.
LEMMA FirstStepIs ==
  ASSUME TypeOK, NEW r \in Request
  PROVE  /\ r \in Draft => FirstStep(r) = "create"
         /\ r \in Activation =>
              \/ progress[r] = "none" /\ FirstStep(r) = "configure"
              \/ progress[r] = "configuration_applied" /\ FirstStep(r) = "upload"
              \/ progress[r] = "media_uploaded" /\ FirstStep(r) = "activate"
              \/ progress[r] \in {"activation_accepted", "sync_pending"} /\ FirstStep(r) = "status"
<1>1. progress[r] \in Progress \cup {"none"}
  BY DEF TypeOK
<1>2. CASE r \in Draft
  BY <1>2, RequestKinds DEF FirstStep
<1>3. CASE r \notin Draft
  <2>1. CASE progress[r] = "none"
    BY <1>3, <2>1 DEF FirstStep
  <2>2. CASE progress[r] = "configuration_applied"
    BY <1>3, <2>2 DEF FirstStep
  <2>3. CASE progress[r] = "media_uploaded"
    BY <1>3, <2>3 DEF FirstStep
  <2>4. CASE progress[r] \in {"activation_accepted", "sync_pending"}
    BY <1>3, <2>4 DEF FirstStep
  <2> QED BY <1>1, <1>3, <2>1, <2>2, <2>3, <2>4 DEF Progress
<1> QED BY <1>2, <1>3

\* What recorded progress says of the provider, step by step.
LEMMA ProgressSays ==
  ASSUME IInv, NEW r \in Request, NEW p \in Part
  PROVE  /\ p[1] = "configure" /\ progress[r] # "none" => sent[r][p] >= 1
         /\ p[1] = "upload" /\ progress[r] \notin {"none", "configuration_applied"} => sent[r][p] >= 1
         /\ p[1] = "activate" /\ progress[r] \in {"activation_accepted", "sync_pending"} => sent[r][p] >= 1
<1>1. progress[r] \in Progress \cup {"none"} /\ \A q \in StepsThrough(progress[r]) : sent[r][q] >= 1
  BY DEF IInv, TypeOK, RecordedIsDone
<1>2. progress[r] # "none" => Rank[progress[r]] >= 1
  BY <1>1 DEF Rank, Progress
<1>3. progress[r] \notin {"none", "configuration_applied"} => Rank[progress[r]] >= 2
  BY <1>1 DEF Rank, Progress
<1>4. progress[r] \in {"activation_accepted", "sync_pending"} => Rank[progress[r]] >= 3
  BY DEF Rank
<1> QED BY <1>1, <1>2, <1>3, <1>4 DEF StepsThrough

LEMMA ClaimStep == ASSUME IInv, NEW w \in Worker, Claim(w) PROVE IInv'
<1>1. TypeOK /\ run[w].pc = "claim" /\ UNCHANGED <<grounds, lease, job, sent, client, faults>>
  BY DEF IInv, Claim
<1>2. PICK r \in Request : r = run[w].req
  BY <1>1, RunRows
<1>3. Append(r, "processing") /\ claimed' = [claimed EXCEPT ![r] = w]
  BY <1>2 DEF Claim
<1>4. Remarks /\ Claims'
  BY <1>1, <1>3 DEF Remarks, Plain, Status, Progress, TypeOK, Claims
<1> DEFINE x == [run[w] EXCEPT !.pc = "guard", !.step = FirstStep(r), !.resume = progress[r]]
<1>5. FirstStep(r) \in StepsOf(r) \cap StepName
  BY <1>1, FirstStepIs, RequestKinds DEF StepsOf, StepName
<1>6. /\ x \in RunRow /\ x.pc = "guard" /\ x.step = FirstStep(r) /\ x.req = r /\ x.image = 1
      /\ run' = [run EXCEPT ![w] = x]
  <2>1. run[w] \in RunRow /\ run[w].image = 1 /\ progress[r] \in Progress \cup {"none"}
    BY <1>1, RunRows DEF IInv, Sound, TypeOK
  <2>2. run' = [run EXCEPT ![w] = x]
    BY <1>2 DEF Claim
  <2> QED BY <1>2, <1>5, <2>1, <2>2 DEF RunRow, RunPlace
<1> HIDE DEF x
<1>7. ASSUME NEW p \in Part, p[1] \in Earlier[FirstStep(r)] PROVE sent[r][p] >= 1
  <2>1. CASE r \in Draft
    BY <1>1, <1>7, <2>1, FirstStepIs DEF Earlier
  <2>2. CASE r \in Activation
    BY <1>1, <1>7, <2>2, FirstStepIs, ProgressSays DEF Earlier
  <2> QED BY <2>1, <2>2 DEF Request
<1>8. Sound(x, sent')
  BY <1>1, <1>5, <1>6, <1>7, PartIsPair DEF Sound, Stepping
<1> QED BY <1>1, <1>4, <1>6, <1>8, Closing DEF Moves, TypeOK, JobTypes, Leases, ClientRow

LEMMA GuardStep == ASSUME IInv, NEW w \in Worker, Guard(w) PROVE IInv'
<1>1. run[w].pc = "guard" /\ UNCHANGED <<rows, lease, job, sent, client, faults>> /\ run[w] \in RunRow
  BY RunRows DEF IInv, Guard
<1>2. CASE MayRequest(w)
  <2> DEFINE x == [run[w] EXCEPT !.pc = "call"]
  <2>1. x \in RunRow /\ run' = [run EXCEPT ![w] = x]
    BY <1>1, <1>2 DEF Guard, GoTo, RunRow, RunPlace
  <2>2. Sound(x, sent')
    <3>1. x.pc = "call" /\ x.req = run[w].req /\ x.step = run[w].step /\ x.image = run[w].image
      BY <1>1 DEF RunRow
    <3> HIDE DEF x
    <3> QED BY <1>1, <3>1 DEF IInv, Sound, Stepping
  <2> HIDE DEF x
  <2> QED BY <1>1, <2>1, <2>2, Closing DEF IInv, Moves, rows, Remarks, TypeOK, Claims, Leases, JobTypes, ClientRow
<1>3. CASE ~MayRequest(w)
  BY <1>1, <1>3, GivingUp DEF Guard, Failure
<1> QED BY <1>2, <1>3

\* No part of a step is a status read.
LEMMA ReadStatusStep == ASSUME IInv, NEW w \in Worker, ReadStatus(w) PROVE IInv'
<1>1. /\ run[w].pc = "call" /\ run[w].step = "status" /\ UNCHANGED <<rows, lease, job, sent, client, faults>>
      /\ run[w] \in RunRow
  BY RunRows DEF IInv, ReadStatus
<1> DEFINE x == [run[w] EXCEPT !.pc = "record"]
<1>2. x \in RunRow /\ run' = [run EXCEPT ![w] = x]
  BY <1>1 DEF ReadStatus, GoTo, RunRow, RunPlace
<1>3. x.pc = "record" /\ x.req = run[w].req /\ x.step = "status" /\ x.image = run[w].image
  BY <1>1 DEF RunRow
<1> HIDE DEF x
<1>4. \A p \in Part : p[1] # "status"
  BY Parts, PartIsPair
<1>5. Sound(x, sent')
  BY <1>1, <1>3, <1>4 DEF IInv, Sound, Stepping
<1> QED BY <1>1, <1>2, <1>5, Closing DEF IInv, Moves, rows, Remarks, TypeOK, Claims, Leases, JobTypes, ClientRow

\* The provider acts once more for the part the run is at, and for no other.
LEMMA ActsOnce ==
  ASSUME IInv, NEW w \in Worker, run[w].pc = "call", run[w].step # "status", Acts(w)
  PROVE  /\ run[w] \in RunRow /\ run[w].req \in Request /\ PartOf(w) \in Part
         /\ Grows /\ sent'[run[w].req][PartOf(w)] >= 1
         /\ \A r \in Request, p \in Part : r # run[w].req \/ p # PartOf(w) => sent'[r][p] = sent[r][p]
<1>1. run[w] \in RunRow /\ run[w].req \in Request /\ Sound(run[w], sent)
  BY RunRows DEF IInv
<1>2. PartOf(w) \in Part
  <2>1. run[w].step \in {"create", "configure", "upload", "activate"} /\ run[w].image \in 1..Images
    BY <1>1 DEF Sound, Stepping, StepsOf, RunRow
  <2>2. run[w].step # "upload" => run[w].image = 1
    BY <1>1 DEF Sound, Stepping
  <2> QED BY <2>1, <2>2, Parts DEF PartOf
<1> DEFINE r == run[w].req  p == PartOf(w)
<1>3. sent \in [Request -> [Part -> 0..2]] /\ sent[r][p] \in 0..2
  BY <1>1, <1>2 DEF IInv, TypeOK
<1>4. PICK n \in 1..2 : n >= sent[r][p] /\ sent' = [sent EXCEPT ![r][p] = n]
  <2> DEFINE n == IF sent[r][p] = 2 THEN 2 ELSE sent[r][p] + 1
  <2>1. n \in 1..2 /\ n >= sent[r][p]
    BY <1>3
  <2>2. sent' = [sent EXCEPT ![r][p] = n]
    BY <1>1, <1>2, <1>3 DEF Acts
  <2> HIDE DEF n
  <2> QED BY <2>1, <2>2
<1> HIDE DEF r, p
<1>5. r \in Request /\ p \in Part
  BY <1>1, <1>2 DEF r, p
<1>6. SentTypes'
  BY <1>3, <1>4, <1>5 DEF SentTypes
<1>7. sent'[r][p] = n /\ \A u \in Request, q \in Part : u # r \/ q # p => sent'[u][q] = sent[u][q]
  BY <1>3, <1>4, <1>5
<1>8. Grows
  <2> SUFFICES ASSUME NEW u \in Request, NEW q \in Part PROVE sent'[u][q] >= sent[u][q]
    BY <1>6 DEF Grows
  <2>1. sent[u][q] \in 0..2
    BY <1>3
  <2> QED BY <1>4, <1>7, <2>1
<1> QED BY <1>1, <1>2, <1>7, <1>8 DEF r, p

LEMMA Acting ==
  ASSUME IInv, NEW w \in Worker, Moves(w), Grows, UNCHANGED <<rows, lease, job, client>>, faults' \in 0..MaxFaults
  PROVE  IInv'
<1>1. RunTypes' /\ \A v \in Worker : Sound(run[v], sent)'
  BY RunsMove
<1>2. RowTypes' /\ RecordedIsDone' /\ \A r \in Draft : progress'[r] = "none"
  BY RemarksKeep DEF Remarks, rows
<1>3. TypeOK'
  BY <1>1, <1>2, TypedNext DEF Grows, IInv, TypeOK, rows, JobTypes, Claims, Leases, ClientRow
<1> QED BY <1>1, <1>2, <1>3 DEF IInv

LEMMA MutateStep == ASSUME IInv, NEW w \in Worker, Mutate(w) PROVE IInv'
<1>1. /\ run[w].pc = "call" /\ run[w].step # "status" /\ Acts(w) /\ UNCHANGED <<rows, lease, job, client>>
      /\ faults' \in 0..MaxFaults
  BY DEF Mutate, IInv, TypeOK
<1>2. run[w] \in RunRow /\ run[w].req \in Request /\ Grows /\ sent'[run[w].req][PartOf(w)] >= 1
  BY <1>1, ActsOnce
<1>3. Sound(run[w], sent')
  BY <1>2, SoundGrows
<1>4. run[w].image \in 1..Images /\ run[w].image + 1 \in Nat /\ Images \in Nat
  BY <1>2, PublicationAssumption DEF RunRow
<1>5. ASSUME NEW p \in Part, p[1] = run[w].step, p[2] <= run[w].image PROVE sent'[run[w].req][p] >= 1
  <2>1. CASE p[2] = run[w].image
    BY <1>2, <1>5, <2>1, PartIsPair DEF PartOf
  <2>2. CASE p[2] # run[w].image
    <3>1. p[2] < run[w].image
      BY <1>4, <1>5, <2>2, PartIsPair
    <3> QED BY <1>1, <1>3, <1>5, <3>1 DEF Sound, Stepping
  <2> QED BY <2>1, <2>2
<1>6. CASE MoreImages(w)
  <2> DEFINE x == [run[w] EXCEPT !.pc = "guard", !.image = @ + 1]
  <2>1. x \in RunRow /\ run' = [run EXCEPT ![w] = x]
    <3>1. run[w].image + 1 \in 1..Images
      BY <1>4, <1>6 DEF MoreImages
    <3>2. run' = [run EXCEPT ![w].pc = "guard", ![w].image = @ + 1]
      BY <1>6 DEF Mutate
    <3> QED BY <1>2, <3>1, <3>2 DEF IInv, TypeOK, RunRow, RunPlace
  <2>2. x.pc = "guard" /\ x.req = run[w].req /\ x.step = "upload" /\ run[w].step = "upload" /\ x.image = run[w].image + 1
    BY <1>2, <1>6 DEF RunRow, MoreImages
  <2> HIDE DEF x
  <2>3. \A p \in Part : p[2] < x.image => p[2] <= run[w].image
    BY <1>4, <2>2, PartIsPair
  <2>4. Sound(x, sent')
    BY <1>1, <1>3, <1>5, <2>2, <2>3 DEF Sound, Stepping
  <2> QED BY <1>1, <1>2, <2>1, <2>4, Acting DEF Moves
<1>7. CASE ~MoreImages(w)
  <2> DEFINE x == [run[w] EXCEPT !.pc = "record"]
  <2>1. x \in RunRow /\ run' = [run EXCEPT ![w] = x]
    BY <1>2, <1>7 DEF Mutate, RunRow, RunPlace
  <2>2. x.pc = "record" /\ x.req = run[w].req /\ x.step = run[w].step /\ x.image = run[w].image
    BY <1>2 DEF RunRow
  <2> HIDE DEF x
  <2>3. ASSUME NEW p \in Part, p[1] = run[w].step PROVE p[2] <= run[w].image
    <3>1. CASE run[w].step = "upload"
      <4>1. run[w].image >= Images
        BY <1>4, <1>7, <3>1 DEF MoreImages
      <4> QED BY <1>4, <4>1, PartIsPair
    <3>2. CASE run[w].step # "upload"
      <4>1. p[2] = 1
        BY <2>3, <3>2, Parts, PartIsPair
      <4> QED BY <1>4, <4>1
    <3> QED BY <3>1, <3>2
  <2>4. Sound(x, sent')
    BY <1>1, <1>3, <1>5, <2>2, <2>3 DEF Sound, Stepping
  <2> QED BY <1>1, <1>2, <2>1, <2>4, Acting DEF Moves
<1> QED BY <1>6, <1>7

LEMMA LoseReplyStep == ASSUME IInv, NEW w \in Worker, LoseReply(w) PROVE IInv'
<1>1. /\ run[w].pc = "call" /\ run[w].pc # "idle" /\ Fault("lost_reply") /\ UNCHANGED <<rows, lease, job, client>>
      /\ faults' \in 0..MaxFaults
  BY FaultTypes DEF LoseReply, IInv
<1>2. \E e \in Failure : GoFail(w, e)
  BY RetryOrFailIs DEF LoseReply, Failure
<1>3. Moves(w)
  BY <1>1, <1>2, MoveFail DEF IInv
<1>4. Grows
  <2>1. CASE UNCHANGED sent
    BY <2>1 DEF IInv, TypeOK, Grows, SentTypes
  <2>2. CASE sent' # sent
    BY <1>1, <2>2, ActsOnce DEF LoseReply
  <2> QED BY <2>1, <2>2
<1> QED BY <1>1, <1>3, <1>4, Acting
-----------------------------------------------------------------------------
(***************************************************************************)
(* Recording a result.                                                     *)
(***************************************************************************)
\* A result is appended, or dropped because the request is finished.
Result(r, s) == UNCHANGED <<status, progress>> \/ Append(r, s)

LEMMA ResultKeeps ==
  ASSUME IInv, UNCHANGED sent, NEW r \in Request, NEW s \in Status, Result(r, s),
         s \in Progress => r \in Activation /\ \A p \in StepsThrough(s) : sent[r][p] >= 1,
         s = "draft_created" => sent[r][<<"create", 1>>] >= 1
  PROVE  RowTypes' /\ RecordedIsDone' /\ \A u \in Draft : progress'[u] = "none"
<1>1. CASE UNCHANGED <<status, progress>>
  BY <1>1, RemarksKeep DEF Remarks, IInv, TypeOK, Grows, SentTypes
<1>2. CASE Append(r, s)
  <2>1. RowTypes' /\ TypeOK
    BY <1>2, AppendTypes DEF IInv
  <2>2. /\ status'[r] = s /\ progress'[r] = IF s \in Progress THEN s ELSE progress[r]
        /\ \A u \in Request : u # r => status'[u] = status[u] /\ progress'[u] = progress[u]
    BY <1>2, <2>1 DEF Append, TypeOK
  <2>3. ASSUME NEW u \in Request PROVE
          /\ \A p \in StepsThrough(progress'[u]) : sent[u][p] >= 1
          /\ status'[u] = "draft_created" => sent[u][<<"create", 1>>] >= 1
    <3>1. CASE u = r /\ s \in Progress
      BY <2>2, <3>1 DEF Progress
    <3>2. CASE u = r /\ s \notin Progress
      BY <2>2, <3>2 DEF IInv, RecordedIsDone
    <3>3. CASE u # r
      BY <2>2, <3>3 DEF IInv, RecordedIsDone
    <3> QED BY <3>1, <3>2, <3>3
  <2>4. RecordedIsDone'
    BY <2>3 DEF RecordedIsDone, StepsThrough
  <2>5. ASSUME NEW u \in Draft PROVE progress'[u] = "none"
    <3>1. u \in Request /\ u \notin Activation
      BY RequestKinds DEF Request
    <3> QED BY <2>2, <3>1 DEF IInv
  <2> QED BY <2>1, <2>4, <2>5
<1> QED BY <1>1, <1>2 DEF Result

LEMMA Recording ==
  ASSUME IInv, UNCHANGED <<sent, grounds, client, faults>>, NEW w \in Worker, Moves(w),
         JobTypes', Leases', Claims', NEW r \in Request, NEW s \in Status, Result(r, s),
         s \in Progress => r \in Activation /\ \A p \in StepsThrough(s) : sent[r][p] >= 1,
         s = "draft_created" => sent[r][<<"create", 1>>] >= 1
  PROVE  IInv'
<1>1. Grows
  BY SMTT(30) DEF IInv, TypeOK, Grows, SentTypes
<1>2. RunTypes' /\ \A v \in Worker : Sound(run[v], sent)'
  BY <1>1, RunsMove
<1>3. RowTypes' /\ RecordedIsDone' /\ \A u \in Draft : progress'[u] = "none"
  BY ResultKeeps
<1>4. TypeOK'
  BY <1>1, <1>2, <1>3, TypedNext DEF Grows, IInv, TypeOK, ClientRow
<1> QED BY <1>2, <1>3, <1>4 DEF IInv

\* A step at the provider is the result it leaves, and the one after it.
LEMMA Steps ==
  ASSUME IInv, NEW w \in Worker, run[w].pc = "record", run[w].step # "status"
  PROVE  /\ run[w] \in RunRow /\ run[w].req \in Request
         /\ run[w].step = "create" => ResultOf[run[w].step] = "draft_created"
                                      /\ sent[run[w].req][<<"create", 1>>] >= 1
         /\ run[w].step # "create" =>
              /\ run[w].req \in Activation
              /\ ResultOf[run[w].step] \in Progress
              /\ \A p \in StepsThrough(ResultOf[run[w].step]) : sent[run[w].req][p] >= 1
              /\ NextStep[run[w].step] \in StepsOf(run[w].req) \cap StepName
              /\ \A p \in Part : p[1] \in Earlier[NextStep[run[w].step]] => sent[run[w].req][p] >= 1
<1>1. run[w] \in RunRow /\ run[w].req \in Request /\ Sound(run[w], sent)
  BY RunRows DEF IInv
<1>2. /\ run[w].step \in StepsOf(run[w].req)
      /\ \A p \in Part : p[1] \in Earlier[run[w].step] \cup {run[w].step} => sent[run[w].req][p] >= 1
  BY <1>1 DEF Sound, Stepping
<1>3. CASE run[w].step = "create"
  <2>1. <<"create", 1>> \in Part
    BY Parts
  <2> QED BY <1>1, <1>2, <1>3, <2>1 DEF ResultOf
<1>4. CASE run[w].step # "create"
  <2>1. run[w].req \in Activation /\ run[w].req \notin Draft /\ run[w].step \in {"configure", "upload", "activate"}
    BY <1>1, <1>2, <1>4, RequestKinds DEF StepsOf, Request
  <2>2. CASE run[w].step = "configure"
    BY <1>1, <1>2, <2>1, <2>2 DEF ResultOf, NextStep, Earlier, StepsThrough, Rank, Progress, StepsOf, StepName
  <2>3. CASE run[w].step = "upload"
    BY <1>1, <1>2, <2>1, <2>3 DEF ResultOf, NextStep, Earlier, StepsThrough, Rank, Progress, StepsOf, StepName
  <2>4. CASE run[w].step = "activate"
    BY <1>1, <1>2, <2>1, <2>4 DEF ResultOf, NextStep, Earlier, StepsThrough, Rank, Progress, StepsOf, StepName
  <2> QED BY <1>1, <1>4, <2>1, <2>2, <2>3, <2>4
<1> QED BY <1>3, <1>4

LEMMA WritesIs ==
  ASSUME NEW w, NEW s, Writes(w, s)
  PROVE  Result(run[w].req, s)
BY DEF Writes, Result

LEMMA RecordMutationStep == ASSUME IInv, NEW w \in Worker, RecordMutation(w) PROVE IInv'
<1>1. run[w].pc = "record" /\ run[w].step # "status" /\ UNCHANGED <<grounds, sent, client, faults>>
  BY DEF RecordMutation
<1>2. run[w] \in RunRow /\ run[w].req \in Request
  BY <1>1, Steps
<1>3. ResultOf[run[w].step] \in Status
  BY <1>1, Steps DEF Status, Terminal
<1>4. Result(run[w].req, ResultOf[run[w].step])
  BY WritesIs DEF RecordMutation
<1>5. JobTypes' /\ Leases' /\ Claims' /\ Moves(w)
  <2>1. CASE run[w].step = "create"
    BY <1>1, <2>1, ReturnMoves DEF RecordMutation, IInv
  <2>2. CASE run[w].step # "create"
    <3> DEFINE x == [run[w] EXCEPT !.pc = "guard", !.step = NextStep[run[w].step], !.image = 1]
    <3>1. run' = [run EXCEPT ![w] = x]
      BY <2>2 DEF RecordMutation
    <3>2. NextStep[run[w].step] \in StepsOf(run[w].req) \cap StepName
      BY <1>1, <2>2, Steps
    <3>3. /\ x \in RunRow /\ x.pc = "guard" /\ x.req = run[w].req
          /\ x.step = NextStep[run[w].step] /\ x.image = 1
      <4>1. 1 \in 1..Images
        BY PublicationAssumption
      <4>2. PICK k \in StepName : k = NextStep[run[w].step]
        BY <3>2
      <4> QED BY <1>2, <4>1, <4>2 DEF RunRow, RunPlace
    <3> HIDE DEF x
    <3>4. \A p \in Part : p[1] \in Earlier[x.step] => sent'[x.req][p] >= 1
      BY <1>1, <2>2, <3>3, Steps
    <3>5. Sound(x, sent')
      BY <3>2, <3>3, <3>4, PartIsPair DEF Sound, Stepping
    <3>6. UNCHANGED <<claimed, lease, job>>
      BY <2>2 DEF RecordMutation
    <3> QED BY <3>1, <3>3, <3>5, <3>6 DEF Moves, IInv, TypeOK, JobTypes, Leases, Claims
  <2> QED BY <2>1, <2>2
<1>6. CASE run[w].step = "create"
  <2>1. ResultOf[run[w].step] = "draft_created" /\ "draft_created" \notin Progress
    BY <1>1, <1>6, Steps DEF Progress
  <2> QED BY <1>1, <1>2, <1>3, <1>4, <1>5, <1>6, <2>1, Steps, Recording
<1>7. CASE run[w].step # "create"
  <2>1. ResultOf[run[w].step] # "draft_created"
    BY <1>1, <1>7, Steps DEF Progress
  <2> QED BY <1>1, <1>2, <1>3, <1>4, <1>5, <1>7, <2>1, Steps, Recording
<1> QED BY <1>6, <1>7

LEMMA ReadingsAre == \A r : Readings(r) \subseteq {"sync_pending", "published", "deactivated"}
BY DEF Readings

LEMMA RecordStatusStep == ASSUME IInv, NEW w \in Worker, RecordStatus(w) PROVE IInv'
<1>1. run[w].pc = "record" /\ run[w].step = "status" /\ UNCHANGED <<grounds, sent, client, faults>>
  BY DEF RecordStatus
<1>2. run[w] \in RunRow /\ run[w].req \in Request /\ Sound(run[w], sent)
  BY <1>1, RunRows DEF IInv
<1>3. PICK s \in Readings(run[w].req) :
        /\ Writes(w, s)
        /\ CASE s # "sync_pending" -> Return(w)
             [] s = "sync_pending" /\ MayRetry(w) -> Throw(w)
             [] OTHER -> GoTo(w, "schedule") /\ UNCHANGED <<claimed, lease, job>>
  BY DEF RecordStatus
<1>4. Return(w) \/ Throw(w) \/ (GoTo(w, "schedule") /\ UNCHANGED <<claimed, lease, job>>)
  <2>1. CASE s # "sync_pending"
    BY <1>3, <2>1
  <2>2. CASE s = "sync_pending" /\ MayRetry(w)
    BY <1>3, <2>2
  <2>3. CASE s = "sync_pending" /\ ~MayRetry(w)
    BY <1>3, <2>3
  <2> QED BY <2>1, <2>2, <2>3
<1>5. run[w].req \in Activation /\ \A p \in Part : p[1] \in Earlier["status"] => sent[run[w].req][p] >= 1
  BY <1>1, <1>2, RequestKinds DEF Sound, Stepping, StepsOf, Request
<1>6. JobTypes' /\ Leases' /\ Claims' /\ Moves(w)
  <2>1. CASE Return(w) \/ Throw(w)
    BY <1>1, <2>1, ReturnMoves DEF IInv
  <2>2. CASE GoTo(w, "schedule") /\ UNCHANGED <<claimed, lease, job>>
    <3> DEFINE x == [run[w] EXCEPT !.pc = "schedule"]
    <3>1. x \in RunRow /\ x.pc = "schedule" /\ x.step = "status" /\ x.req = run[w].req /\ run' = [run EXCEPT ![w] = x]
      BY <1>1, <1>2, <2>2 DEF RunRow, RunPlace, GoTo
    <3> HIDE DEF x
    <3>2. Sound(x, sent')
      BY <1>5, <3>1 DEF Sound, Stepping
    <3> QED BY <2>2, <3>1, <3>2 DEF Moves, IInv, TypeOK, JobTypes, Leases, Claims
  <2> QED BY <1>4, <2>1, <2>2
<1>7. s \in Status /\ s # "draft_created" /\ (s \in Progress => s = "sync_pending")
  BY ReadingsAre DEF Status, Progress, Terminal
<1>8. \A p \in StepsThrough(s) : s = "sync_pending" => sent[run[w].req][p] >= 1
  BY <1>5 DEF StepsThrough, Earlier
<1>9. Result(run[w].req, s)
  BY <1>3, WritesIs
<1> QED BY <1>1, <1>2, <1>5, <1>6, <1>7, <1>8, <1>9, Recording
-----------------------------------------------------------------------------
LEMMA Start == ASSUME Init PROVE IInv
<1>1. TypeOK
  BY PublicationAssumption DEF Init, TypeOK, Status, Grounds, JobRow, NoJob
<1>2. \A w \in Worker : Sound(run[w], sent)
  BY DEF Init, Idle, Sound, Stepping
<1>3. RecordedIsDone
  BY DEF Init, RecordedIsDone, StepsThrough, Rank, Request
<1> QED BY <1>1, <1>2, <1>3 DEF Init, IInv, Request

LEMMA Inductive == ASSUME IInv, [Next]_vars PROVE IInv'
<1>1. CASE UNCHANGED vars
  BY <1>1 DEF vars, rows, IInv, TypeOK, RecordedIsDone
<1>2. ASSUME NEW w \in Worker, TakeLease(w) \/ Work(w) \/ Break(w) PROVE IInv'
  <2>1. CASE Work(w)
    BY <2>1, ClaimStep, QuitStep, GuardStep, MutateStep, ReadStatusStep, RecordMutationStep, RecordStatusStep,
       AbandonStep, ScheduleStep DEF Work, Quits, Abandons
  <2>2. CASE Break(w)
    BY <2>2, QuitStep, AbandonStep, LoseReplyStep, ExhaustBreaksStep, CrashStep DEF Break, Quits, Abandons
  <2> QED BY <1>2, <2>1, <2>2, TakeLeaseStep
<1> QED BY <1>1, <1>2, ApiStep, DeliverStep, QueueStep, WorldStep DEF Next

LEMMA Invariance == Spec => []IInv
<1>1. Init => IInv
  BY Start
<1>2. IInv /\ [Next]_vars => IInv'
  BY Inductive
<1> QED BY <1>1, <1>2, PTL DEF Spec

\* Every row, job and process keeps its type, whatever fails (Publication).
THEOREM PublicationTypes == Spec => []TypeOK
<1>1. IInv => TypeOK
  BY DEF IInv
<1> QED BY <1>1, Invariance, PTL

\* A retry that resumes at the step after the recorded progress skips nothing: every
\* provider request of the steps before it was made, through every fault and overlap
\* of deliveries (activateEtsy, complete).
THEOREM PublicationRecordsWhatIsDone == Spec => []RecordedIsDone
<1>1. IInv => RecordedIsDone
  BY DEF IInv
<1> QED BY <1>1, Invariance, PTL
-----------------------------------------------------------------------------
(***************************************************************************)
(* Ends are final while the queue takes what it is given.                  *)
(***************************************************************************)
Calm == "queue" \notin Faults

NoneAppends == \A c \in Client : client[c].pc # "append"

LEMMA NoneBegins == ASSUME Calm, IInv, NoneAppends, [Next]_vars PROVE NoneAppends'
<1> SUFFICES ASSUME NEW d \in Client PROVE client'[d].pc # "append"
  BY DEF NoneAppends
<1>1. client[d].pc # "append" /\ client \in [Client -> {Idle} \cup ClientRow]
  BY DEF NoneAppends, IInv, TypeOK, ClientRow
<1>2. CASE client' = client
  BY <1>1, <1>2
<1>3. ASSUME NEW c \in Client, Api(c) PROVE client'[d].pc # "append"
  <2>1. client' = client \/ \E x : x.pc # "append" /\ client' = [client EXCEPT ![c] = x]
    <3>1. Idle.pc = "idle" /\ \A pc, r : Call(pc, r).pc = pc
      BY DEF Idle, Call
    <3>2. ~QueueUnavailable(c)
      BY DEF QueueUnavailable, Fault, Calm
    <3>3. CASE \E r \in Request : Submit(c, r) \/ Cancel(c, r)
      <4>1. \A r : Call("latest", r).pc # "append" /\ Call("remove", r).pc # "append"
        BY <3>1
      <4> QED BY <3>3, <4>1 DEF Submit, Cancel
    <3>4. CASE ReadLatest(c)
      <4> DEFINE x == IF status[client[c].req] \in Terminal THEN Idle ELSE Call("enqueue", client[c].req)
      <4>1. client' = [client EXCEPT ![c] = x]
        BY <3>4 DEF ReadLatest
      <4>2. x.pc # "append"
        BY <3>1
      <4> HIDE DEF x
      <4> QED BY <4>1, <4>2
    <3>5. CASE Enqueue(c) \/ AppendRetryPending(c) \/ RemoveJob(c) \/ Hangup(c)
      BY <3>1, <3>5 DEF Enqueue, AppendRetryPending, RemoveJob, Hangup
    <3> QED BY <1>3, <3>2, <3>3, <3>4, <3>5 DEF Api
  <2> QED BY <1>1, <2>1
<1>4. client' = client \/ \E c \in Client : Api(c)
  <2>1. ASSUME NEW w \in Worker, TakeLease(w) \/ Work(w) \/ Break(w) PROVE client' = client
    BY <2>1 DEF TakeLease, Work, Break, Claim, ClaimNothing, RefuseClaim, Guard, Mutate, ReadStatus, RecordMutation,
       RecordStatus, RefuseRecord, Fail, Schedule, Exhaust, ClaimBreaks, GuardBreaks, LoseReply, RateLimited,
       Rejected, MediaRefused, RecordBreaks, FailBreaks, ScheduleUnavailable, ExhaustBreaks, Crash
  <2> QED BY <2>1 DEF Next, vars, Deliver, Redeliver, Stall, Evict, LoseLease, ChangeGrounds
<1> QED BY <1>2, <1>3, <1>4

\* Every step appends at most one event, to a request that has not ended.
OneEvent == UNCHANGED <<status, progress>> \/ \E r \in Request, s \in Status : ~Finished(r) /\ Append(r, s)

LEMMA ApiEvents == ASSUME IInv, NEW c \in Client, Api(c), client[c].pc # "append" PROVE OneEvent
<1>1. ASSUME NEW r \in Request, Submit(c, r) PROVE OneEvent
  <2>1. {"scheduled", "queued"} \subseteq Status /\ "absent" \notin Terminal
    BY DEF Status, Waiting, Terminal
  <2> QED BY <1>1, <2>1 DEF Submit, OneEvent, Finished
<1>2. ASSUME NEW r \in Request, Cancel(c, r) PROVE OneEvent
  <2>1. "cancelled" \in Status /\ Waiting \cap Terminal = {}
    BY DEF Status, Waiting, Terminal
  <2> QED BY <1>2, <2>1 DEF Cancel, Cancellable, OneEvent, Finished
<1> QED BY <1>1, <1>2 DEF Api, ReadLatest, Enqueue, QueueUnavailable, AppendRetryPending, RemoveJob, Hangup, rows, OneEvent

\* The event a step of w appends is one of the request it works on.
Speaks(w) ==
  \/ UNCHANGED <<status, progress>>
  \/ /\ run[w].pc \notin {"idle", "lease"}
     /\ \E s \in Status : ~Finished(run[w].req) /\ Append(run[w].req, s)

LEMMA Silent ==
  ASSUME NEW w \in Worker,
         TakeLease(w) \/ ClaimNothing(w) \/ Guard(w) \/ Mutate(w) \/ ReadStatus(w) \/ RefuseRecord(w) \/ Schedule(w)
         \/ ClaimBreaks(w) \/ GuardBreaks(w) \/ LoseReply(w) \/ RateLimited(w) \/ Rejected(w) \/ MediaRefused(w)
         \/ RecordBreaks(w) \/ FailBreaks(w) \/ ScheduleUnavailable(w) \/ ExhaustBreaks(w) \/ Crash(w)
  PROVE  UNCHANGED <<status, progress>>
BY DEF TakeLease, ClaimNothing, Guard, Mutate, ReadStatus, RefuseRecord, Schedule, ClaimBreaks, GuardBreaks, LoseReply,
   RateLimited, Rejected, MediaRefused, RecordBreaks, FailBreaks, ScheduleUnavailable, ExhaustBreaks, Crash, rows

LEMMA Statuses ==
  /\ Failure \subseteq Status /\ {"processing", "retry_pending"} \subseteq Status
  /\ \A s \in {"sync_pending", "published", "deactivated"} : s \in Status
BY DEF Failure, Status, Waiting, Progress, Terminal

LEMMA FailStatus ==
  ASSUME IInv, NEW w \in Worker, run[w].pc = "fail"
  PROVE  (IF run[w].event = "unauthorized" THEN "failed" ELSE run[w].event) \in Failure
BY FailEvent DEF Failure

LEMMA WorkSpeaks == ASSUME IInv, NEW w \in Worker, TakeLease(w) \/ Work(w) \/ Break(w) PROVE Speaks(w)
<1>1. CASE Claim(w)
  BY <1>1, Statuses DEF Claim, Speaks
<1>2. CASE RefuseClaim(w)
  BY <1>2, Statuses, RefusalIs DEF RefuseClaim, Speaks, Failure
<1>3. CASE RecordMutation(w)
  <2>1. ResultOf[run[w].step] \in Status
    BY <1>3, Steps DEF RecordMutation, Status, Terminal
  <2> QED BY <1>3, <2>1 DEF RecordMutation, Writes, Speaks
<1>4. CASE RecordStatus(w)
  BY <1>4, Statuses, ReadingsAre DEF RecordStatus, Writes, Speaks
<1>5. CASE Fail(w)
  BY <1>5, FailStatus, Statuses DEF Fail, AppendUnlessTerminal, Finished, Speaks
<1>6. CASE Exhaust(w)
  BY <1>6, Statuses DEF Exhaust, AppendUnlessTerminal, Finished, Speaks, Failure
<1> QED BY <1>1, <1>2, <1>3, <1>4, <1>5, <1>6, Silent DEF Work, Break, Speaks

LEMMA EachEvent == ASSUME IInv, NoneAppends, [Next]_vars PROVE OneEvent
<1>1. ASSUME NEW w \in Worker, TakeLease(w) \/ Work(w) \/ Break(w) PROVE OneEvent
  BY <1>1, WorkSpeaks, RunRows DEF Speaks, OneEvent, IInv
<1>2. ASSUME NEW c \in Client, Api(c) PROVE OneEvent
  BY <1>2, ApiEvents DEF NoneAppends
<1>3. CASE UNCHANGED vars
  BY <1>3 DEF vars, rows, OneEvent
<1> QED BY <1>1, <1>2, <1>3 DEF Next, Deliver, Redeliver, Stall, Evict, LoseLease, ChangeGrounds, rows, OneEvent

LEMMA EndsAreFinal ==
  ASSUME IInv, NoneAppends, [Next]_vars, NEW r \in Request, status[r] \in Terminal
  PROVE  status'[r] = status[r]
BY EachEvent DEF OneEvent, Finished, Append, IInv, TypeOK

\* No event follows a terminal one, whatever workers, deliveries and calls overlap, while
\* the queue takes the jobs it is given.  (When it does not, enqueueIfRequired appends a
\* retry to a request that may have ended: run publication_cancel_race.)
THEOREM PublicationEndsAreFinal == "queue" \notin Faults /\ Spec => TerminalIsFinal
<1>1. Init => NoneAppends
  BY DEF Init, Idle, NoneAppends
<1>2. Calm /\ IInv /\ NoneAppends /\ [Next]_vars => NoneAppends'
  BY NoneBegins
<1>3. IInv /\ NoneAppends /\ [Next]_vars =>
        [\A r \in Request : status[r] \in Terminal => status'[r] = status[r]]_vars
  BY EndsAreFinal
<1>4. Calm => Calm'
  BY DEF Calm
<1>5. Calm /\ Spec => TerminalIsFinal
  BY <1>1, <1>2, <1>3, <1>4, Invariance, PTL DEF Spec, TerminalIsFinal
<1> QED BY <1>5 DEF Calm
-----------------------------------------------------------------------------
(***************************************************************************)
(* One publication worker at a time on a request.                          *)
(***************************************************************************)
OthersStay(w) == \A v \in Worker : v # w => run'[v] = run[v]

LEMMA GoToIs ==
  ASSUME TypeOK, NEW w \in Worker, run[w].pc # "idle", NEW pc, GoTo(w, pc)
  PROVE  /\ OthersStay(w) /\ run'[w].pc = pc
         /\ run'[w].req = run[w].req /\ run'[w].attempt = run[w].attempt /\ run'[w].step = run[w].step
         /\ run'[w].image = run[w].image /\ run'[w].event = run[w].event
<1>1. run[w] \in RunRow /\ run' = [run EXCEPT ![w] = [run[w] EXCEPT !.pc = pc]]
  BY RunRows DEF GoTo
<1> QED BY <1>1 DEF TypeOK, RunRow, OthersStay

LEMMA GoFailIs ==
  ASSUME TypeOK, NEW w \in Worker, run[w].pc # "idle", NEW e, GoFail(w, e)
  PROVE  /\ OthersStay(w) /\ run'[w].pc = "fail" /\ run'[w].event = e
         /\ run'[w].req = run[w].req /\ run'[w].attempt = run[w].attempt /\ run'[w].step = run[w].step
<1>1. run[w] \in RunRow /\ run' = [run EXCEPT ![w] = [run[w] EXCEPT !.pc = "fail", !.event = e]]
  BY RunRows DEF GoFail, TypeOK
<1> QED BY <1>1 DEF TypeOK, RunRow, OthersStay

LEMMA EndsIs ==
  ASSUME TypeOK, NEW w \in Worker, run' = [run EXCEPT ![w] = Idle]
  PROVE  OthersStay(w) /\ run'[w] = Idle /\ run'[w].pc = "idle"
BY DEF TypeOK, Idle, OthersStay

LEMMA LeaveIs ==
  ASSUME TypeOK, NEW w \in Worker, run[w].pc # "idle", Return(w) \/ Throw(w)
  PROVE  /\ OthersStay(w) /\ lease' = Released(w)
         /\ run'[w].pc = "idle" \/ (/\ w \in ReconciliationWorker /\ run'[w].pc = "exhausted" /\ job' = job
                                    /\ run'[w].req = run[w].req /\ run'[w].attempt = run[w].attempt)
<1>1. CASE Return(w)
  BY <1>1, EndsIs DEF Return
<1>2. CASE Throw(w) /\ LastRead(w)
  <2>1. GoTo(w, "exhausted")
    BY <1>2 DEF Throw, GoTo
  <2> QED BY <1>2, <2>1, GoToIs DEF Throw, LastRead
<1>3. CASE Throw(w) /\ ~LastRead(w)
  BY <1>3, EndsIs DEF Throw, JobFails
<1> QED BY <1>1, <1>2, <1>3

LEMMA ClaimIs ==
  ASSUME TypeOK, NEW w \in Worker, Claim(w)
  PROVE  /\ OthersStay(w) /\ run'[w].pc = "guard" /\ run'[w].req = run[w].req
         /\ run'[w].step = FirstStep(run[w].req) /\ run'[w].attempt = run[w].attempt
         /\ run'[w].image = run[w].image
<1>1. run[w] \in RunRow /\ run' = [run EXCEPT ![w] = [run[w] EXCEPT !.pc = "guard",
                                   !.step = FirstStep(run[w].req), !.resume = progress[run[w].req]]]
  BY RunRows DEF Claim
<1> QED BY <1>1 DEF TypeOK, RunRow, OthersStay

LEMMA MutateIs ==
  ASSUME TypeOK, NEW w \in Worker, Mutate(w)
  PROVE  /\ OthersStay(w) /\ run'[w].req = run[w].req /\ run'[w].step = run[w].step
         /\ run'[w].attempt = run[w].attempt
         /\ \/ MoreImages(w) /\ run'[w].pc = "guard" /\ run'[w].image = run[w].image + 1
            \/ ~MoreImages(w) /\ run'[w].pc = "record" /\ run'[w].image = run[w].image
<1>1. run[w] \in RunRow
  BY RunRows DEF Mutate
<1>2. CASE MoreImages(w)
  <2>1. run' = [run EXCEPT ![w] = [run[w] EXCEPT !.pc = "guard", !.image = run[w].image + 1]]
    BY <1>1, <1>2 DEF Mutate, TypeOK
  <2> QED BY <1>1, <1>2, <2>1 DEF TypeOK, RunRow, OthersStay
<1>3. CASE ~MoreImages(w)
  <2>1. run' = [run EXCEPT ![w] = [run[w] EXCEPT !.pc = "record"]]
    BY <1>3 DEF Mutate
  <2> QED BY <1>1, <1>3, <2>1 DEF TypeOK, RunRow, OthersStay
<1> QED BY <1>2, <1>3

LEMMA NextMutationIs ==
  ASSUME TypeOK, NEW w \in Worker, RecordMutation(w), run[w].step # "create"
  PROVE  /\ OthersStay(w) /\ run'[w].req = run[w].req /\ run'[w].step = NextStep[run[w].step]
         /\ run'[w].attempt = run[w].attempt /\ run'[w].pc = "guard" /\ run'[w].image = 1
         /\ UNCHANGED <<claimed, lease, job>>
<1>1. run[w] \in RunRow
  BY RunRows DEF RecordMutation
<1>2. run' = [run EXCEPT ![w] = [run[w] EXCEPT !.pc = "guard", !.step = NextStep[run[w].step], !.image = 1]]
  BY DEF RecordMutation
<1> QED BY <1>1, <1>2 DEF TypeOK, RunRow, OthersStay, RecordMutation

\* How the last step of a run leaves: the read answered, is tried again, or is handed over.
LEMMA RecordStatusIs ==
  ASSUME NEW w \in Worker, RecordStatus(w)
  PROVE  \E s \in Readings(run[w].req) :
           /\ Writes(w, s)
           /\ \/ s # "sync_pending" /\ Return(w)
              \/ s = "sync_pending" /\ MayRetry(w) /\ Throw(w)
              \/ s = "sync_pending" /\ ~MayRetry(w) /\ GoTo(w, "schedule") /\ UNCHANGED <<claimed, lease, job>>
<1>1. PICK s \in Readings(run[w].req) :
        /\ Writes(w, s)
        /\ CASE s # "sync_pending" -> Return(w)
             [] s = "sync_pending" /\ MayRetry(w) -> Throw(w)
             [] OTHER -> GoTo(w, "schedule") /\ UNCHANGED <<claimed, lease, job>>
  BY DEF RecordStatus
<1>2. CASE s # "sync_pending"
  BY <1>1, <1>2
<1>3. CASE s = "sync_pending" /\ MayRetry(w)
  BY <1>1, <1>3
<1>4. CASE s = "sync_pending" /\ ~MayRetry(w)
  BY <1>1, <1>4
<1> QED BY <1>2, <1>3, <1>4

LEMMA AbandonIs ==
  ASSUME IInv, NEW w \in Worker, Abandons(w)
  PROVE  run[w].pc \in Stepping \cup {"schedule"} /\ UNCHANGED <<rows, lease, job, sent, client>>
         /\ \E e \in Failure \cup {"unauthorized"} : GoFail(w, e)
<1>1. run[w].pc \in Stepping \cup {"schedule"} /\ UNCHANGED <<rows, lease, job, sent, client>>
  BY DEF Abandons, GuardBreaks, RateLimited, Rejected, MediaRefused, RefuseRecord, RecordBreaks, ScheduleUnavailable,
     Stepping
<1>2. \E e \in Failure \cup {"unauthorized"} : GoFail(w, e)
  BY RetryOrFailIs DEF Failure, WritebackFailure,
     Abandons, GuardBreaks, RateLimited, Rejected, MediaRefused, RefuseRecord, RecordBreaks, ScheduleUnavailable
<1> QED BY <1>1, <1>2

Away == {"idle", "lease", "exhausted"}

\* A step of a worker moves its own run: it takes the lease, goes on under it, or leaves.
LEMMA StepOf ==
  ASSUME IInv, NEW w \in Worker, TakeLease(w) \/ Work(w) \/ Break(w)
  PROVE  /\ OthersStay(w)
         /\ run'[w].pc = "idle" \/ (run'[w].req = run[w].req /\ run'[w].attempt = run[w].attempt)
         /\ \/ TakeLease(w) /\ run'[w].pc = "claim"
            \/ /\ run'[w].pc = "idle" \/ (w \in ReconciliationWorker /\ run'[w].pc = "exhausted")
               /\ lease' \in {lease, Released(w)}
            \/ run[w].pc \notin Away /\ run'[w].pc \notin Away /\ lease' = lease
<1>1. TypeOK /\ run[w].pc # "idle"
  BY NotIdle DEF IInv
<1>2. CASE TakeLease(w)
  <2>1. GoTo(w, "claim")
    BY <1>2 DEF TakeLease, GoTo
  <2> QED BY <1>1, <1>2, <2>1, GoToIs
<1>3. CASE Quits(w) \/ (RecordMutation(w) /\ run[w].step = "create")
  <2>1. Return(w) \/ Throw(w)
    BY <1>3 DEF Quits, ClaimNothing, RefuseClaim, ClaimBreaks, Fail, FailBreaks, Exhaust, RecordMutation
  <2> QED BY <1>1, <2>1, LeaveIs
<1>4. CASE Abandons(w)
  BY <1>1, <1>4, AbandonIs, GoFailIs DEF Stepping, Away
<1>5. CASE Claim(w)
  BY <1>1, <1>5, ClaimIs DEF Claim, Away
<1>6. CASE Guard(w)
  BY <1>1, <1>6, GoToIs, GoFailIs DEF Guard, Away
<1>7. CASE Mutate(w)
  BY <1>1, <1>7, MutateIs DEF Mutate, Away
<1>8. CASE ReadStatus(w)
  BY <1>1, <1>8, GoToIs DEF ReadStatus, Away
<1>9. CASE RecordMutation(w) /\ run[w].step # "create"
  BY <1>1, <1>9, NextMutationIs DEF RecordMutation, Away
<1>10. CASE RecordStatus(w)
  <2>1. run[w].pc = "record"
    BY <1>10 DEF RecordStatus
  <2>2. CASE Return(w) \/ Throw(w)
    BY <1>1, <2>2, LeaveIs
  <2>3. CASE GoTo(w, "schedule") /\ UNCHANGED <<claimed, lease, job>>
    BY <1>1, <2>1, <2>3, GoToIs DEF Away
  <2> QED BY <1>10, <2>2, <2>3, RecordStatusIs
<1>11. CASE Schedule(w) \/ ExhaustBreaks(w) \/ Crash(w)
  <2>1. run' = [run EXCEPT ![w] = Idle] /\ lease' \in {lease, Released(w)}
    BY <1>11 DEF Schedule, ExhaustBreaks, Crash, JobFails
  <2> QED BY <1>1, <2>1, EndsIs
<1>12. CASE LoseReply(w)
  <2>1. run[w].pc = "call" /\ lease' = lease /\ \E e : GoFail(w, e)
    BY <1>12 DEF LoseReply
  <2> QED BY <1>1, <2>1, GoFailIs DEF Away
<1> QED BY <1>2, <1>3, <1>4, <1>5, <1>6, <1>7, <1>8, <1>9, <1>10, <1>11, <1>12 DEF Work, Break, Quits, Abandons

\* Past the wait for the lease, two publication workers are on different requests.
Past(w) == run[w].pc \notin {"idle", "lease"}
Solo == \A v, w \in PublicationWorker : v # w /\ Past(v) /\ Past(w) => run[v].req # run[w].req

\* The lease does this where no connection that holds it breaks.
LeaseHeld ==
  /\ \A w \in Worker : run[w].pc \notin Away => lease = w
  /\ \A w \in PublicationWorker : run[w].pc # "exhausted"

\* So does the queue where no run is too slow to renew its lock.
Owned == \A w \in Worker : run[w].pc # "idle" => JobOf(w).state = "active" /\ JobOf(w).owner = w

LEMMA LeaseIsSolo == ASSUME LeaseHeld PROVE Solo
BY DEF LeaseHeld, Solo, Past, Away, Worker

LEMMA OwnedIsSolo == ASSUME Owned PROVE Solo
BY DEF Owned, Solo, Past, Worker, JobOf, QueueOf

LEMMA RunsStand ==
  ASSUME (\E c \in Client : Api(c)) \/ (\E q \in Queue, r \in Request : Redeliver(q, r) \/ Stall(q, r) \/ Evict(q, r))
                \/ LoseLease \/ (\E g \in Grounds : ChangeGrounds(g)) \/ UNCHANGED vars
  PROVE  run' = run
BY DEF Api, Submit, Cancel, ReadLatest, Enqueue, QueueUnavailable, AppendRetryPending, RemoveJob, Hangup, Redeliver,
   Stall, Evict, LoseLease, ChangeGrounds, vars

\* What a job is after a step.
Becomes(q, r, state, made, stalled, owner) ==
  /\ job'[q][r].state = state /\ job'[q][r].made = made
  /\ job'[q][r].stalled = stalled /\ job'[q][r].owner = owner

LEMMA DeliverIs ==
  ASSUME TypeOK, NEW w \in Worker, NEW r \in Request, Deliver(w, r)
  PROVE  /\ OthersStay(w) /\ run'[w].pc = "lease" /\ run'[w].req = r /\ run[w].pc = "idle"
         /\ run'[w].attempt = job[QueueOf(w)][r].made /\ run'[w].image = 1
         /\ job[QueueOf(w)][r].state = "waiting"
         /\ Becomes(QueueOf(w), r, "active", job[QueueOf(w)][r].made, job[QueueOf(w)][r].stalled, w)
         /\ \A p \in Queue, u \in Request : p # QueueOf(w) \/ u # r => job'[p][u] = job[p][u]
<1> DEFINE x == [pc |-> "lease", req |-> r, attempt |-> job[QueueOf(w)][r].made, resume |-> "none",
                 step |-> "none", image |-> 1, event |-> "none"]
<1>1. run' = [run EXCEPT ![w] = x]
  BY DEF Deliver
<1>2. OthersStay(w) /\ run'[w] = x
  BY <1>1 DEF TypeOK, OthersStay
<1>3. PICK q \in Queue : q = QueueOf(w)
  BY Queues
<1>4. job[q][r] \in JobRow /\ job' = [job EXCEPT ![q][r] = [job[q][r] EXCEPT !.state = "active", !.owner = w]]
  BY <1>3, ZenonT(40) DEF Deliver, TypeOK
<1>5. /\ job'[q][r] = [job[q][r] EXCEPT !.state = "active", !.owner = w]
      /\ \A p \in Queue, u \in Request : p # q \/ u # r => job'[p][u] = job[p][u]
  BY <1>4 DEF TypeOK
<1>8. Becomes(q, r, "active", job[q][r].made, job[q][r].stalled, w)
  <2>1. PICK j \in JobRow : j = job[q][r]
    BY <1>4
  <2>2. job'[q][r] = [j EXCEPT !.state = "active", !.owner = w]
    BY <1>5, <2>1
  <2> QED BY <2>1, <2>2 DEF Becomes, JobRow
<1>6. run[w].pc = "idle" /\ job[q][r].state = "waiting"
  BY <1>3 DEF Deliver
<1>7. x.pc = "lease" /\ x.req = r /\ x.attempt = job[q][r].made /\ x.image = 1
  BY <1>3
<1> HIDE DEF x
<1> QED BY <1>2, <1>3, <1>5, <1>6, <1>7, <1>8

LEMMA LeaseHeldStep == ASSUME "lease" \notin Faults, IInv, LeaseHeld, [Next]_vars PROVE LeaseHeld'
<1>1. ASSUME NEW w \in Worker, TakeLease(w) \/ Work(w) \/ Break(w) PROVE LeaseHeld'
  <2>1. OthersStay(w)
    BY <1>1, StepOf
  <2>2. ASSUME NEW v \in PublicationWorker PROVE run'[v].pc # "exhausted"
    <3>1. v \in Worker /\ v \notin ReconciliationWorker
      BY PublicationAssumption DEF Worker
    <3> QED BY <1>1, <2>1, <3>1, StepOf DEF OthersStay, LeaseHeld, Away
  <2>3. ASSUME NEW v \in Worker, run'[v].pc \notin Away PROVE lease' = v
    <3>1. CASE TakeLease(w)
      <4>1. lease = NoWorker /\ lease' = w
        BY <3>1 DEF TakeLease, LeaseFree
      <4>2. \A u \in Worker : run[u].pc \in Away
        BY <4>1, PublicationAssumption DEF LeaseHeld
      <4> QED BY <2>1, <2>3, <4>1, <4>2 DEF OthersStay
    <3>2. CASE run'[w].pc \in Away /\ lease' \in {lease, Released(w)}
      <4>1. v # w /\ run'[v] = run[v]
        BY <2>1, <2>3, <3>2 DEF OthersStay
      <4>2. lease = v
        BY <2>3, <4>1 DEF LeaseHeld
      <4> QED BY <3>2, <4>1, <4>2 DEF Released
    <3>3. CASE run[w].pc \notin Away /\ lease' = lease
      BY <2>1, <2>3, <3>3 DEF OthersStay, LeaseHeld
    <3> QED BY <1>1, <3>1, <3>2, <3>3, StepOf DEF Away
  <2> QED BY <2>2, <2>3 DEF LeaseHeld
<1>2. ASSUME NEW w \in Worker, NEW r \in Request, Deliver(w, r) PROVE LeaseHeld'
  <2>1. OthersStay(w) /\ run'[w].pc = "lease" /\ lease' = lease
    BY <1>2, DeliverIs DEF Deliver, IInv
  <2> QED BY <2>1 DEF LeaseHeld, OthersStay, Away, Worker
<1>3. CASE run' = run /\ lease' = lease
  BY <1>3 DEF LeaseHeld
<1>4. ~LoseLease
  BY DEF LoseLease, Fault
<1>5. CASE (\E c \in Client : Api(c)) \/ (\E q \in Queue, r \in Request : Redeliver(q, r) \/ Stall(q, r) \/ Evict(q, r))
           \/ (\E g \in Grounds : ChangeGrounds(g)) \/ UNCHANGED vars
  <2>1. lease' = lease
    BY <1>5 DEF Api, Submit, Cancel, ReadLatest, Enqueue, QueueUnavailable, AppendRetryPending, RemoveJob, Hangup,
       Redeliver, Stall, Evict, ChangeGrounds, vars
  <2> QED BY <1>3, <1>5, <2>1, RunsStand
<1> QED BY <1>1, <1>2, <1>4, <1>5 DEF Next

\* The end of a run is told of the run's own job, if it still owns it.
LEMMA JobEndsIs ==
  ASSUME TypeOK, NEW w \in Worker, run[w].pc # "idle", NEW j \in JobRow, JobEnds(w, j)
  PROVE  /\ \A q \in Queue, r \in Request :
              q # QueueOf(w) \/ r # run[w].req \/ JobOf(w).owner # w => job'[q][r] = job[q][r]
         /\ JobOf(w).owner = w => Becomes(QueueOf(w), run[w].req, j.state, j.made, j.stalled, NoWorker)
<1>1. PICK q \in Queue, r \in Request : q = QueueOf(w) /\ r = run[w].req /\ JobOf(w) = job[q][r]
  BY RunRows
<1>2. CASE JobOf(w).owner = w
  <2>1. job' = [job EXCEPT ![q][r] = [j EXCEPT !.owner = NoWorker]]
    BY <1>1, <1>2 DEF JobEnds
  <2>2. job'[q][r] = [j EXCEPT !.owner = NoWorker] /\ \A p \in Queue, u \in Request : p # q \/ u # r => job'[p][u] = job[p][u]
    BY <2>1 DEF TypeOK
  <2>3. Becomes(q, r, j.state, j.made, j.stalled, NoWorker)
    BY <2>2 DEF Becomes, JobRow
  <2> QED BY <1>1, <1>2, <2>2, <2>3
<1>3. CASE JobOf(w).owner # w
  BY <1>3 DEF JobEnds
<1> QED BY <1>2, <1>3

\* The schedule of a reconciliation adds its job, and ends the run's own.
LEMMA ScheduleIs ==
  ASSUME IInv, NEW w \in Worker, Schedule(w)
  PROVE  /\ run[w].req \in Activation /\ run[w].req \in Request /\ OthersStay(w) /\ run'[w].pc = "idle"
         /\ \/ /\ job["reconciliation"][run[w].req].state = "none"
               /\ Becomes("reconciliation", run[w].req, "waiting", 0, FALSE, NoWorker)
               /\ job["publication"][run[w].req].owner = w =>
                    Becomes("publication", run[w].req, "done", job["publication"][run[w].req].made,
                            job["publication"][run[w].req].stalled, NoWorker)
               /\ job["publication"][run[w].req].owner # w =>
                    job'["publication"][run[w].req] = job["publication"][run[w].req]
               /\ \A q \in Queue, r \in Request : r # run[w].req => job'[q][r] = job[q][r]
            \/ /\ job["reconciliation"][run[w].req].state # "none"
               /\ JobEnds(w, [JobOf(w) EXCEPT !.state = "done"])
<1>1. TypeOK /\ run[w].pc = "schedule" /\ run' = [run EXCEPT ![w] = Idle]
  BY DEF Schedule, IInv
<1>2. PICK r \in Request : r = run[w].req
  BY <1>1, RunRows
<1>3. r \in Activation
  BY <1>1, <1>2 DEF IInv, Sound
<1>4. CASE job["reconciliation"][r].state = "none"
  <2> DEFINE mine == job["publication"][r]
             mine2 == IF mine.owner = w THEN [mine EXCEPT !.state = "done", !.owner = NoWorker] ELSE mine
  <2>1. job' = [job EXCEPT !["reconciliation"][r] = [NoJob EXCEPT !.state = "waiting"], !["publication"][r] = mine2]
    BY <1>1, <1>2, <1>4 DEF Schedule, TypeOK, Queue
  <2> HIDE DEF mine2
  <2>2. /\ job'["reconciliation"][r] = [NoJob EXCEPT !.state = "waiting"] /\ job'["publication"][r] = mine2
        /\ \A q \in Queue, u \in Request : u # r => job'[q][u] = job[q][u]
    BY <1>1, <2>1 DEF TypeOK, Queue
  <2>3. Becomes("reconciliation", r, "waiting", 0, FALSE, NoWorker)
    BY <2>2 DEF Becomes, NoJob
  <2>4. mine.owner # w => job'["publication"][r] = mine
    BY <2>2 DEF mine2
  <2>5. mine.owner = w => Becomes("publication", r, "done", mine.made, mine.stalled, NoWorker)
    <3>1. mine \in JobRow
      BY <1>1 DEF TypeOK, Queue
    <3> QED BY <2>2, <3>1 DEF mine2, Becomes, JobRow
  <2> HIDE DEF mine
  <2>6. mine = job["publication"][r]
    BY DEF mine
  <2> QED BY <1>1, <1>2, <1>3, <1>4, <2>2, <2>3, <2>4, <2>5, <2>6, EndsIs
<1>5. CASE job["reconciliation"][r].state # "none"
  BY <1>1, <1>2, <1>3, <1>5, EndsIs DEF Schedule
<1> QED BY <1>4, <1>5

\* The jobs after a step of a worker.
LEMMA JobsOf ==
  ASSUME IInv, NEW w \in Worker, TakeLease(w) \/ Work(w) \/ Break(w)
  PROVE  \/ job' = job
         \/ run'[w].pc = "idle" /\ \E j \in JobRow : j.state \in {"waiting", "done"} /\ JobEnds(w, j)
         \/ Schedule(w)
<1>1. TypeOK /\ run[w].pc # "idle" /\ JobOf(w) \in JobRow /\ run[w] \in RunRow
  BY NotIdle, RunRows DEF IInv
<1>2. ASSUME Return(w) PROVE run'[w].pc = "idle" /\ \E j \in JobRow : j.state \in {"waiting", "done"} /\ JobEnds(w, j)
  <2>1. [JobOf(w) EXCEPT !.state = "done"] \in JobRow /\ [JobOf(w) EXCEPT !.state = "done"].state = "done"
    BY <1>1 DEF JobRow
  <2> QED BY <1>1, <1>2, <2>1, EndsIs DEF Return
<1>3. ASSUME JobFails(w) PROVE run'[w].pc = "idle" /\ \E j \in JobRow : j.state \in {"waiting", "done"} /\ JobEnds(w, j)
  <2> DEFINE s == IF run[w].attempt + 1 < MaxAttempts(w) THEN "waiting" ELSE "done"
             j == [JobOf(w) EXCEPT !.made = run[w].attempt + 1, !.state = s]
  <2>1. run[w].attempt + 1 \in Nat /\ s \in {"waiting", "done"}
    BY <1>1 DEF RunRow
  <2>2. j \in JobRow
    BY <1>1, <2>1, JobEdit
  <2>3. j.state = s
    BY <1>1 DEF JobRow
  <2>4. JobEnds(w, j) /\ run' = [run EXCEPT ![w] = Idle]
    BY <1>3 DEF JobFails
  <2> HIDE DEF j, s
  <2> QED BY <1>1, <2>1, <2>2, <2>3, <2>4, EndsIs
<1>4. CASE Return(w) \/ Throw(w)
  BY <1>2, <1>3, <1>4 DEF Throw
<1>5. CASE RecordStatus(w)
  BY <1>4, <1>5, RecordStatusIs
<1>6. CASE ExhaustBreaks(w)
  BY <1>3, <1>6 DEF ExhaustBreaks
<1> QED BY <1>4, <1>5, <1>6 DEF Work, Break, TakeLease, Claim, ClaimNothing, RefuseClaim, Guard, Mutate, ReadStatus,
     RecordMutation, RefuseRecord, Fail, Exhaust, ClaimBreaks, GuardBreaks, LoseReply, RateLimited,
     Rejected, MediaRefused, RecordBreaks, FailBreaks, ScheduleUnavailable, Crash

\* What the API and the queue do to the jobs: a job that is active is only taken back.
LEMMA OuterJobs ==
  ASSUME TypeOK, NEW q \in Queue, NEW r \in Request, job[q][r].state = "active",
         (\E c \in Client : Api(c)) \/ (\E p \in Queue, u \in Request : Evict(p, u))
         \/ LoseLease \/ (\E g \in Grounds : ChangeGrounds(g)) \/ UNCHANGED vars
  PROVE  job'[q][r] = job[q][r]
<1>1. job \in [Queue -> [Request -> JobRow]] /\ "publication" \in Queue
  BY DEF TypeOK, Queue
<1>2. ASSUME NEW c \in Client, Enqueue(c) PROVE job'[q][r] = job[q][r]
  <2>1. PICK u \in Request : u = client[c].req
    BY <1>2, ClientRows DEF Enqueue
  <2> QED BY <1>1, <1>2, <2>1 DEF Enqueue, Add
<1>3. ASSUME NEW c \in Client, RemoveJob(c) PROVE job'[q][r] = job[q][r]
  <2>1. PICK u \in Request : u = client[c].req
    BY <1>3, ClientRows DEF RemoveJob
  <2> QED BY <1>1, <1>3, <2>1 DEF RemoveJob
<1>4. ASSUME NEW p \in Queue, NEW u \in Request, Evict(p, u) PROVE job'[q][r] = job[q][r]
  BY <1>1, <1>4 DEF Evict
<1> QED BY <1>2, <1>3, <1>4 DEF Api, Submit, Cancel, ReadLatest, QueueUnavailable, AppendRetryPending, Hangup,
     LoseLease, ChangeGrounds, vars

LEMMA TakeBackIs ==
  ASSUME TypeOK, NEW q \in Queue, NEW r \in Request, TakeBack(q, r)
  PROVE  /\ Becomes(q, r, IF job[q][r].stalled THEN "done" ELSE "waiting", job[q][r].made, TRUE, NoWorker)
         /\ \A p \in Queue, u \in Request : p # q \/ u # r => job'[p][u] = job[p][u]
<1> DEFINE j == [job[q][r] EXCEPT !.state = IF job[q][r].stalled THEN "done" ELSE "waiting",
                                  !.stalled = TRUE, !.owner = NoWorker]
<1>1. job' = [job EXCEPT ![q][r] = j]
  BY DEF TakeBack, TypeOK
<1> HIDE DEF j
<1>2. job'[q][r] = j /\ \A p \in Queue, u \in Request : p # q \/ u # r => job'[p][u] = job[p][u]
  BY <1>1 DEF TypeOK
<1>3. Becomes(q, r, IF job[q][r].stalled THEN "done" ELSE "waiting", job[q][r].made, TRUE, NoWorker)
  <2>1. job[q][r] \in JobRow
    BY DEF TypeOK
  <2> QED BY <1>2, <2>1 DEF j, Becomes, JobRow
<1> QED BY <1>2, <1>3

LEMMA OwnedStep == ASSUME "stall" \notin Faults, IInv, Owned, [Next]_vars PROVE Owned'
<1>0. TypeOK
  BY DEF IInv
<1>1. \A v \in Worker : run[v].pc # "idle" =>
        /\ run[v].req \in Request /\ QueueOf(v) \in Queue
        /\ job[QueueOf(v)][run[v].req].state = "active" /\ job[QueueOf(v)][run[v].req].owner = v
  BY <1>0, RunRows DEF Owned
<1> SUFFICES ASSUME NEW v \in Worker, run'[v].pc # "idle"
             PROVE  job'[QueueOf(v)][run'[v].req].state = "active" /\ job'[QueueOf(v)][run'[v].req].owner = v
  BY DEF Owned, JobOf
<1>2. ASSUME NEW w \in Worker, TakeLease(w) \/ Work(w) \/ Break(w)
      PROVE  job'[QueueOf(v)][run'[v].req].state = "active" /\ job'[QueueOf(v)][run'[v].req].owner = v
  <2>1. run[v].pc # "idle" /\ run'[v].req = run[v].req
    BY <1>2, StepOf, NotIdle DEF OthersStay
  <2>2. CASE job' = job
    BY <1>1, <2>1, <2>2
  <2>3. ASSUME run'[w].pc = "idle", NEW j \in JobRow, JobEnds(w, j)
        PROVE  job'[QueueOf(v)][run[v].req] = job[QueueOf(v)][run[v].req]
    <3>1. run[w].pc # "idle" /\ v # w /\ JobOf(w) = job[QueueOf(w)][run[w].req]
      BY <1>0, <1>2, <2>3, NotIdle, RunRows
    <3>2. QueueOf(v) # QueueOf(w) \/ run[v].req # run[w].req
      BY <1>1, <2>1, <3>1
    <3>3. \A q \in Queue, r \in Request :
            q # QueueOf(w) \/ r # run[w].req \/ JobOf(w).owner # w => job'[q][r] = job[q][r]
      BY <1>0, <2>3, <3>1, JobEndsIs
    <3> QED BY <1>1, <2>1, <3>2, <3>3
  <2>4. ASSUME Schedule(w) PROVE job'[QueueOf(v)][run[v].req] = job[QueueOf(v)][run[v].req]
    <3>1. run'[w].pc = "idle" /\ v # w /\ JobOf(w) \in JobRow
      BY <1>0, <1>2, <2>4, ScheduleIs, NotIdle, RunRows
    <3>2. CASE job["reconciliation"][run[w].req].state # "none"
      <4>1. [JobOf(w) EXCEPT !.state = "done"] \in JobRow
        BY <3>1 DEF JobRow
      <4> QED BY <2>3, <2>4, <3>1, <3>2, <4>1, ScheduleIs
    <3>3. CASE job["reconciliation"][run[w].req].state = "none" /\ run[v].req = run[w].req
      <4>1. QueueOf(v) = "publication" /\ job["publication"][run[w].req].owner # w
        BY <1>1, <2>1, <3>1, <3>3 DEF Queue
      <4> QED BY <2>4, <3>3, <4>1, ScheduleIs
    <3>4. CASE run[v].req # run[w].req /\ job["reconciliation"][run[w].req].state = "none"
      BY <1>1, <2>1, <2>4, <3>4, ScheduleIs, ZenonT(40)
    <3> QED BY <3>2, <3>3, <3>4
  <2> QED BY <1>1, <1>2, <2>1, <2>2, <2>3, <2>4, JobsOf
<1>3. ASSUME NEW w \in Worker, NEW r \in Request, Deliver(w, r)
      PROVE  job'[QueueOf(v)][run'[v].req].state = "active" /\ job'[QueueOf(v)][run'[v].req].owner = v
  <2>1. CASE v = w
    <3>1. run'[w].req = r /\ job'[QueueOf(w)][r].state = "active" /\ job'[QueueOf(w)][r].owner = w
      BY <1>0, <1>3, DeliverIs DEF Becomes
    <3> QED BY <2>1, <3>1
  <2>2. CASE v # w
    <3>1. run'[v] = run[v] /\ run[v].pc # "idle"
      BY <1>0, <1>3, <2>2, DeliverIs DEF OthersStay
    <3>2. job[QueueOf(w)][r].state = "waiting"
      BY <1>3 DEF Deliver
    <3>3. QueueOf(v) # QueueOf(w) \/ run[v].req # r
      BY <1>1, <3>1, <3>2
    <3>4. \A p \in Queue, u \in Request : p # QueueOf(w) \/ u # r => job'[p][u] = job[p][u]
      BY <1>0, <1>3, DeliverIs
    <3>5. job'[QueueOf(v)][run[v].req] = job[QueueOf(v)][run[v].req]
      BY <1>1, <3>1, <3>3, <3>4
    <3> QED BY <1>1, <3>1, <3>5
  <2> QED BY <2>1, <2>2
<1>4. ASSUME NEW q \in Queue, NEW r \in Request, Redeliver(q, r)
      PROVE  job'[QueueOf(v)][run'[v].req].state = "active" /\ job'[QueueOf(v)][run'[v].req].owner = v
  <2>1. run' = run /\ Abandoned(q, r) /\ TakeBack(q, r)
    BY <1>4 DEF Redeliver
  <2>2. QueueOf(v) # q \/ run[v].req # r
    BY <1>1, <2>1 DEF Abandoned
  <2>3. \A p \in Queue, u \in Request : p # q \/ u # r => job'[p][u] = job[p][u]
    BY <1>0, <2>1, TakeBackIs
  <2>4. job'[QueueOf(v)][run[v].req] = job[QueueOf(v)][run[v].req]
    BY <1>1, <2>1, <2>2, <2>3
  <2> QED BY <1>1, <2>1, <2>4
<1>5. \A q \in Queue, r \in Request : ~Stall(q, r)
  BY DEF Stall, Fault
<1>6. CASE (\E c \in Client : Api(c)) \/ (\E p \in Queue, u \in Request : Evict(p, u))
           \/ LoseLease \/ (\E g \in Grounds : ChangeGrounds(g)) \/ UNCHANGED vars
  BY <1>0, <1>1, <1>6, OuterJobs, RunsStand
<1> QED BY <1>2, <1>3, <1>4, <1>5, <1>6 DEF Next
-----------------------------------------------------------------------------
(***************************************************************************)
(* Recorded progress only advances.                                        *)
(***************************************************************************)
Begun == {"processing"} \cup Progress
Answered == {"activation_accepted", "sync_pending"}

\* The progress that is recorded while a step is under way.
Prior == [create |-> "none", configure |-> "none", upload |-> "configuration_applied", activate |-> "media_uploaded"]

\* Nothing is left to do at the provider but to read.
Accepted(r) == r \in Activation /\ (progress[r] \in Answered \/ Finished(r))
Mutating(w) == run[w].pc \in Stepping /\ run[w].step # "status"

\* A run at a mutation is a publication worker's, and its request stands where it does; a
\* run at a status read, and every run of a reconciliation, has no mutation left.
Placed(w) ==
  /\ Mutating(w) =>
       w \in PublicationWorker /\ status[run[w].req] \in Begun /\ progress[run[w].req] = Prior[run[w].step]
  /\ run[w].pc \in Stepping \cup {"schedule"} /\ run[w].step = "status" => Accepted(run[w].req)
  /\ w \in ReconciliationWorker /\ run[w].pc # "idle" => Accepted(run[w].req)

Core ==
  /\ \A w \in Worker : Placed(w)
  /\ \A r \in Request : job["reconciliation"][r].state # "none" => Accepted(r)

LEMMA Ranks ==
  /\ \A s \in Progress \cup {"none"} : Rank[s] \in 0..4
  /\ \A s \in Progress \cup {"none"} : Rank[s] <= Rank["sync_pending"]
  /\ \A s \in Answered, u \in Progress \cup {"none"} : Rank[u] >= Rank[s] => u \in Answered
  /\ \A s \in Answered : Rank[s] >= 3
BY DEF Rank, Progress, Answered

\* A result is one step further than the progress it follows.
LEMMA ResultIsNext ==
  ASSUME IInv, NEW w \in Worker, Placed(w), run[w].pc = "record", run[w].step # "status", run[w].step # "create"
  PROVE  /\ Rank[ResultOf[run[w].step]] >= Rank[progress[run[w].req]]
         /\ \/ run[w].step = "configure" /\ NextStep[run[w].step] = "upload"
            \/ run[w].step = "upload" /\ NextStep[run[w].step] = "activate"
            \/ run[w].step = "activate" /\ NextStep[run[w].step] = "status"
<1>1. progress[run[w].req] = Prior[run[w].step]
  BY DEF Placed, Mutating, Stepping
<1>2. run[w].step \in {"configure", "upload", "activate"}
  <2>1. run[w].step \in StepsOf(run[w].req)
    BY DEF IInv, Sound, Stepping
  <2> QED BY <2>1 DEF StepsOf
<1>3. CASE run[w].step = "configure"
  BY <1>1, <1>3 DEF Prior, ResultOf, NextStep, Rank
<1>4. CASE run[w].step = "upload"
  BY <1>1, <1>4 DEF Prior, ResultOf, NextStep, Rank
<1>5. CASE run[w].step = "activate"
  BY <1>1, <1>5 DEF Prior, ResultOf, NextStep, Rank
<1> QED BY <1>2, <1>3, <1>4, <1>5

\* No event takes progress back.
Forward(w) ==
  \/ UNCHANGED <<status, progress>>
  \/ /\ run[w].pc \notin {"idle", "lease"}
     /\ \E s \in Status : /\ ~Finished(run[w].req) /\ Append(run[w].req, s)
                          /\ s \in Progress => Rank[s] >= Rank[progress[run[w].req]]

LEMMA WorkIsForward ==
  ASSUME IInv, NEW w \in Worker, Placed(w), TakeLease(w) \/ Work(w) \/ Break(w)
  PROVE  Forward(w)
<1>0. {"processing", "retry_pending", "failed", "reconciliation_required"} \subseteq Status \ Progress
  BY DEF Status, Waiting, Terminal, Progress
<1>1. CASE Claim(w)
  BY <1>0, <1>1 DEF Claim, Forward
<1>2. CASE RefuseClaim(w)
  BY <1>0, <1>2, RefusalIs DEF RefuseClaim, Forward
<1>3. CASE RecordMutation(w)
  <2>1. ResultOf[run[w].step] \in Status
    BY <1>3, Steps DEF RecordMutation, Status, Terminal
  <2>2. ResultOf[run[w].step] \in Progress => Rank[ResultOf[run[w].step]] >= Rank[progress[run[w].req]]
    <3>1. CASE run[w].step = "create"
      BY <1>3, <3>1, Steps DEF RecordMutation, Progress
    <3>2. CASE run[w].step # "create"
      BY <1>3, <3>2, ResultIsNext DEF RecordMutation
    <3> QED BY <3>1, <3>2
  <2> QED BY <1>3, <2>1, <2>2 DEF RecordMutation, Writes, Forward
<1>4. CASE RecordStatus(w)
  <2>1. run[w].pc = "record" /\ \E s \in Readings(run[w].req) : Writes(w, s)
    BY <1>4 DEF RecordStatus
  <2>2. progress[run[w].req] \in Progress \cup {"none"}
    BY <2>1, RunRows DEF IInv, TypeOK
  <2>3. \A s \in Readings(run[w].req) : s \in Progress => s = "sync_pending"
    BY ReadingsAre DEF Progress
  <2> QED BY <2>1, <2>2, <2>3, Statuses, ReadingsAre, Ranks DEF Writes, Forward
<1>5. CASE Fail(w)
  BY <1>0, <1>5, FailStatus DEF Fail, AppendUnlessTerminal, Finished, Forward, Failure
<1>6. CASE Exhaust(w)
  BY <1>0, <1>6 DEF Exhaust, AppendUnlessTerminal, Finished, Forward
<1> QED BY <1>1, <1>2, <1>3, <1>4, <1>5, <1>6, Silent DEF Work, Break, Forward

LEMMA AppendIs ==
  ASSUME TypeOK, NEW r \in Request, NEW s \in Status, Append(r, s)
  PROVE  /\ status'[r] = s /\ progress'[r] = IF s \in Progress THEN s ELSE progress[r]
         /\ \A u \in Request : u # r => status'[u] = status[u] /\ progress'[u] = progress[u]
BY DEF TypeOK, Append

\* What the API and the queue append is no progress, and is not said of a request in
\* execution or past its end.
LEMMA OthersEvents ==
  ASSUME IInv, NoneAppends, NEW r \in Request,
         (\E c \in Client : Api(c)) \/ (\E w \in Worker, u \in Request : Deliver(w, u))
         \/ (\E q \in Queue, u \in Request : Redeliver(q, u) \/ Stall(q, u) \/ Evict(q, u))
         \/ LoseLease \/ (\E g \in Grounds : ChangeGrounds(g)) \/ UNCHANGED vars
  PROVE  progress'[r] = progress[r] /\ (status[r] \in Begun \cup Terminal => status'[r] = status[r])
<1>1. TypeOK /\ (Waiting \cup {"absent"}) \cap (Begun \cup Terminal) = {}
      /\ Waiting \cup {"cancelled"} \subseteq Status \ Progress
  BY DEF IInv, Waiting, Begun, Terminal, Progress, Status
<1>2. ASSUME NEW c \in Client, NEW u \in Request, Submit(c, u) \/ Cancel(c, u)
      PROVE progress'[r] = progress[r] /\ (status[r] \in Begun \cup Terminal => status'[r] = status[r])
  <2>1. UNCHANGED <<status, progress>> \/ \E s \in Waiting \cup {"cancelled"} :
          Append(u, s) /\ status[u] \in Waiting \cup {"absent"}
    BY <1>2 DEF Submit, Cancel, Cancellable, Waiting
  <2> QED BY <1>1, <2>1, AppendIs
<1>3. ASSUME NEW c \in Client, Api(c), ~\E u \in Request : Submit(c, u) \/ Cancel(c, u) PROVE UNCHANGED <<status, progress>>
  BY <1>3 DEF Api, ReadLatest, Enqueue, QueueUnavailable, AppendRetryPending, RemoveJob, Hangup, rows, NoneAppends
<1> QED BY <1>2, <1>3 DEF Deliver, Redeliver, Stall, Evict, LoseLease, ChangeGrounds, rows, vars

LEMMA Advances ==
  ASSUME IInv, NoneAppends, \A w \in Worker : Placed(w), [Next]_vars, NEW r \in Request
  PROVE  Rank[progress'[r]] >= Rank[progress[r]]
<1>1. progress[r] \in Progress \cup {"none"} /\ Rank[progress[r]] \in 0..4
  BY Ranks DEF IInv, TypeOK
<1>2. ASSUME NEW w \in Worker, TakeLease(w) \/ Work(w) \/ Break(w) PROVE Rank[progress'[r]] >= Rank[progress[r]]
  <2>1. CASE UNCHANGED <<status, progress>>
    BY <1>1, <2>1
  <2>2. ASSUME NEW s \in Status, Append(run[w].req, s), run[w].pc # "idle",
               s \in Progress => Rank[s] >= Rank[progress[run[w].req]]
        PROVE  Rank[progress'[r]] >= Rank[progress[r]]
    <3>1. PICK t \in Request : t = run[w].req
      BY <2>2, RunRows DEF IInv
    <3> QED BY <1>1, <2>2, <3>1, AppendIs DEF IInv
  <2> QED BY <1>2, <2>1, <2>2, WorkIsForward DEF Forward
<1>3. CASE progress'[r] = progress[r]
  BY <1>1, <1>3
<1> QED BY <1>2, <1>3, OthersEvents DEF Next

LEMMA AcceptedStays ==
  ASSUME IInv, NoneAppends, \A w \in Worker : Placed(w), [Next]_vars, NEW r \in Request, Accepted(r)
  PROVE  Accepted(r)'
<1>1. CASE Finished(r)
  BY <1>1, EndsAreFinal DEF Finished, Accepted
<1>2. CASE progress[r] \in Answered
  <2>1. RowTypes'
    BY Inductive, Typed DEF IInv, RowTypes, TypeOK
  <2> QED BY <1>2, <2>1, Advances, Ranks DEF RowTypes, Accepted
<1> QED BY <1>1, <1>2 DEF Accepted

LEMMA PlacedNext ==
  ASSUME NEW w \in Worker, NEW r \in Request, run'[w].req = r, w \in ReconciliationWorker => Accepted(r)',
         run'[w].pc \in Stepping /\ run'[w].step # "status" =>
           w \in PublicationWorker /\ status'[r] \in Begun /\ progress'[r] = Prior[run'[w].step],
         run'[w].pc \in Stepping \cup {"schedule"} /\ run'[w].step = "status" => Accepted(r)'
  PROVE  Placed(w)'
BY DEF Placed, Mutating, Accepted, Finished, Stepping, Begun, Prior

LEMMA PlacedByItself ==
  ASSUME IInv, NoneAppends, Core, [Next]_vars, NEW w \in Worker, TakeLease(w) \/ Work(w) \/ Break(w)
  PROVE  Placed(w)'
<1>1. TypeOK /\ run[w].pc # "idle" /\ Placed(w)
  BY NotIdle DEF IInv, Core
<1>2. PICK r \in Request : r = run[w].req
  BY <1>1, RunRows
<1>3. Accepted(r) => Accepted(r)'
  BY AcceptedStays DEF Core
<1>4. w \in ReconciliationWorker => Accepted(r)'
  BY <1>1, <1>2, <1>3 DEF Placed
<1>5. CASE run'[w].pc \notin Stepping \cup {"schedule"}
  <2>1. run'[w].pc = "idle" \/ run'[w].req = r
    BY <1>2, StepOf
  <2>2. CASE run'[w].pc = "idle"
    BY <2>2 DEF Placed, Mutating, Stepping
  <2> QED BY <1>4, <1>5, <2>1, <2>2, PlacedNext
<1>6. ASSUME run[w].pc \in Stepping, run'[w].step = run[w].step, UNCHANGED <<status, progress>>, run'[w].req = r
      PROVE  Placed(w)'
  <2>1. Mutating(w) => w \in PublicationWorker /\ status[r] \in Begun /\ progress[r] = Prior[run[w].step]
    BY <1>1, <1>2 DEF Placed
  <2>2. run[w].step = "status" => Accepted(r)
    BY <1>1, <1>2, <1>6 DEF Placed
  <2> QED BY <1>3, <1>4, <1>6, <2>1, <2>2, PlacedNext DEF Mutating
<1>7. CASE TakeLease(w)
  <2>1. GoTo(w, "claim")
    BY <1>7 DEF TakeLease, GoTo
  <2> QED BY <1>1, <1>5, <2>1, GoToIs DEF Stepping
<1>8. CASE Quits(w) \/ (RecordMutation(w) /\ run[w].step = "create")
  <2>1. Return(w) \/ Throw(w)
    BY <1>8 DEF Quits, ClaimNothing, RefuseClaim, ClaimBreaks, Fail, FailBreaks, Exhaust, RecordMutation
  <2> QED BY <1>1, <1>5, <2>1, LeaveIs DEF Stepping
<1>9. CASE Abandons(w) \/ LoseReply(w)
  <2>1. \E e : GoFail(w, e)
    BY <1>9, AbandonIs DEF LoseReply
  <2> QED BY <1>1, <1>5, <2>1, GoFailIs DEF Stepping
<1>10. CASE Claim(w)
  <2>1. /\ run'[w].req = r /\ run'[w].step = FirstStep(r) /\ run'[w].pc = "guard"
        /\ ~Finished(r) /\ Append(r, "processing")
    BY <1>1, <1>2, <1>10, ClaimIs DEF Claim
  <2>2. "processing" \in Status /\ "processing" \notin Progress
    BY DEF Status, Progress
  <2>3. status'[r] = "processing" /\ progress'[r] = progress[r]
    BY <1>1, <2>1, <2>2, AppendIs
  <2>4. r \in Draft => progress[r] = "none" /\ r \notin Activation
    BY RequestKinds DEF IInv
  <2>5. w \in ReconciliationWorker => FirstStep(r) = "status"
    <3>1. w \in ReconciliationWorker => r \in Activation /\ progress[r] \in Answered
      BY <1>1, <1>2, <2>1 DEF Placed, Accepted
    <3> QED BY <1>1, <3>1, FirstStepIs DEF Answered
  <2>6. FirstStep(r) = "status" => Accepted(r)
    BY <1>1, FirstStepIs DEF Accepted, Answered, Request
  <2>7. FirstStep(r) # "status" => progress[r] = Prior[FirstStep(r)]
    BY <1>1, <2>4, FirstStepIs DEF Prior, Request
  <2> QED BY <1>3, <1>4, <2>1, <2>3, <2>5, <2>6, <2>7, PlacedNext DEF Begun, Worker
<1>11. CASE Guard(w)
  <2>1. CASE MayRequest(w)
    BY <1>1, <1>2, <1>6, <1>11, <2>1, GoToIs DEF Guard, rows, Stepping
  <2>2. CASE ~MayRequest(w)
    BY <1>1, <1>5, <1>11, <2>2, GoFailIs DEF Guard, Stepping
  <2> QED BY <2>1, <2>2
<1>12. CASE Mutate(w)
  BY <1>1, <1>2, <1>6, <1>12, MutateIs DEF Mutate, rows, Stepping
<1>13. CASE ReadStatus(w)
  BY <1>1, <1>2, <1>6, <1>13, GoToIs DEF ReadStatus, rows, Stepping
<1>14. CASE RecordMutation(w) /\ run[w].step # "create"
  <2>1. run[w].pc = "record" /\ run[w].step # "status" /\ Writes(w, ResultOf[run[w].step])
    BY <1>14 DEF RecordMutation
  <2>2. w \in PublicationWorker /\ status[r] \in Begun /\ ~Finished(r)
    BY <1>1, <1>2, <2>1 DEF Placed, Mutating, Stepping, Begun, Finished, Terminal, Progress
  <2>3. ResultOf[run[w].step] \in Progress
    BY <1>14, <2>1, Steps
  <2>4. status'[r] = ResultOf[run[w].step] /\ progress'[r] = ResultOf[run[w].step]
    BY <1>1, <1>2, <2>1, <2>2, <2>3, AppendIs DEF Writes, Status
  <2>5. run'[w].req = r /\ run'[w].step = NextStep[run[w].step] /\ run'[w].pc = "guard"
    BY <1>1, <1>2, <1>14, NextMutationIs
  <2>6. r \in Activation
    BY <1>2, <1>14, <2>1, Steps
  <2>7. \/ run'[w].step = "upload" /\ progress'[r] = "configuration_applied"
        \/ run'[w].step = "activate" /\ progress'[r] = "media_uploaded"
        \/ run'[w].step = "status" /\ progress'[r] = "activation_accepted"
    BY <1>1, <1>14, <2>1, <2>4, <2>5, ResultIsNext DEF ResultOf
  <2>8. status'[r] \in Begun
    BY <2>3, <2>4 DEF Begun
  <2>9. run'[w].step = "status" => Accepted(r)'
    BY <2>6, <2>7 DEF Accepted, Answered
  <2> QED BY <1>4, <2>2, <2>5, <2>7, <2>8, <2>9, PlacedNext DEF Prior
<1>15. CASE RecordStatus(w)
  <2>1. run[w].pc = "record" /\ run[w].step = "status"
    BY <1>15 DEF RecordStatus
  <2>2. CASE Return(w) \/ Throw(w)
    BY <1>1, <1>5, <2>2, LeaveIs DEF Stepping
  <2>3. CASE GoTo(w, "schedule")
    <3>1. run'[w].pc = "schedule" /\ run'[w].step = "status" /\ run'[w].req = r
      BY <1>1, <1>2, <2>1, <2>3, GoToIs
    <3>2. Accepted(r)'
      BY <1>1, <1>2, <1>3, <2>1 DEF Placed, Stepping
    <3> QED BY <1>4, <3>1, <3>2, PlacedNext DEF Stepping
  <2> QED BY <1>15, <2>2, <2>3, RecordStatusIs
<1>16. CASE Schedule(w) \/ ExhaustBreaks(w) \/ Crash(w)
  <2>1. run' = [run EXCEPT ![w] = Idle]
    BY <1>16 DEF Schedule, ExhaustBreaks, Crash, JobFails
  <2> QED BY <1>1, <1>5, <2>1, EndsIs DEF Stepping
<1> QED BY <1>7, <1>8, <1>9, <1>10, <1>11, <1>12, <1>13, <1>14, <1>15, <1>16 DEF Work, Break, Quits, Abandons

\* A mutation under way keeps the others from its request.
LEMMA MutatingIsOpen ==
  ASSUME IInv, NEW v \in Worker, Placed(v), Mutating(v)
  PROVE  ~Accepted(run[v].req)
<1>1. run[v].step \in {"create", "configure", "upload", "activate"}
  BY DEF IInv, Sound, Mutating, Stepping, StepsOf
<1> QED BY <1>1 DEF Placed, Prior, Answered, Accepted, Finished, Begun, Progress, Terminal

\* A run stays placed as long as its request keeps its row, or only advances.
LEMMA PlacedStays ==
  ASSUME IInv, NoneAppends, Core, [Next]_vars, NEW v \in Worker, run'[v] = run[v],
         Mutating(v) => status'[run[v].req] \in Begun /\ progress'[run[v].req] = progress[run[v].req]
  PROVE  Placed(v)'
<1>1. Placed(v)
  BY DEF Core
<1>2. CASE run[v].pc = "idle"
  BY <1>2 DEF Placed, Mutating, Stepping
<1>3. CASE run[v].pc # "idle"
  <2>1. PICK t \in Request : t = run[v].req
    BY <1>3, RunRows DEF IInv
  <2>2. Accepted(t) => Accepted(t)'
    BY AcceptedStays DEF Core
  <2>3. /\ Mutating(v) => v \in PublicationWorker /\ progress[t] = Prior[run[v].step]
        /\ run[v].pc \in Stepping \cup {"schedule"} /\ run[v].step = "status" => Accepted(t)
        /\ v \in ReconciliationWorker => Accepted(t)
    BY <1>1, <1>3, <2>1 DEF Placed
  <2>4. Mutating(v) => status'[t] \in Begun /\ progress'[t] = progress[t]
    BY <2>1
  <2> QED BY <2>1, <2>2, <2>3, <2>4, PlacedNext DEF Mutating
<1> QED BY <1>2, <1>3

LEMMA PlacedBeside ==
  ASSUME IInv, NoneAppends, Solo, Core, [Next]_vars, NEW v \in Worker, NEW w \in Worker, v # w,
         TakeLease(w) \/ Work(w) \/ Break(w)
  PROVE  Placed(v)'
<1>1. run'[v] = run[v]
  BY StepOf DEF OthersStay
<1>2. ASSUME Mutating(v) PROVE status'[run[v].req] \in Begun /\ progress'[run[v].req] = progress[run[v].req]
  <2>1. /\ v \in PublicationWorker /\ status[run[v].req] \in Begun /\ ~Accepted(run[v].req)
        /\ run[v].req \in Request /\ Past(v)
    <3>1. run[v].pc # "idle" /\ Past(v)
      BY <1>2 DEF Mutating, Stepping, Past
    <3> QED BY <1>2, <3>1, MutatingIsOpen, RunRows DEF Core, Placed, IInv
  <2>2. CASE UNCHANGED <<status, progress>>
    BY <2>1, <2>2
  <2>3. ASSUME run[w].pc \notin {"idle", "lease"}, NEW s \in Status, Append(run[w].req, s)
        PROVE  status'[run[v].req] \in Begun /\ progress'[run[v].req] = progress[run[v].req]
    <3>1. run[w].req \in Request
      BY <2>3, RunRows DEF IInv
    <3>2. run[w].req # run[v].req
      BY <2>1, <2>3 DEF Core, Placed, Solo, Past, Worker
    <3> QED BY <2>1, <2>3, <3>1, <3>2, AppendIs DEF IInv
  <2> QED BY <2>2, <2>3, WorkIsForward DEF Forward, Core
<1> QED BY <1>1, <1>2, PlacedStays

LEMMA PlacedOutside ==
  ASSUME IInv, NoneAppends, Core, [Next]_vars, NEW v \in Worker,
         (\E c \in Client : Api(c)) \/ (\E w \in Worker, u \in Request : Deliver(w, u))
         \/ (\E q \in Queue, u \in Request : Redeliver(q, u) \/ Stall(q, u) \/ Evict(q, u))
         \/ LoseLease \/ (\E g \in Grounds : ChangeGrounds(g)) \/ UNCHANGED vars
  PROVE  Placed(v)'
<1>1. CASE run'[v] = run[v]
  <2>1. Mutating(v) => run[v].req \in Request /\ status[run[v].req] \in Begun
    BY RunRows DEF Core, Placed, Mutating, Stepping, IInv
  <2> QED BY <1>1, <2>1, OthersEvents, PlacedStays
<1>2. ASSUME NEW u \in Request, Deliver(v, u) PROVE Placed(v)'
  <2>1. run'[v].pc = "lease" /\ run'[v].req = u /\ job[QueueOf(v)][u].state = "waiting"
    BY <1>2, DeliverIs DEF IInv
  <2>2. v \in ReconciliationWorker => QueueOf(v) = "reconciliation"
    BY PublicationAssumption DEF QueueOf
  <2>3. v \in ReconciliationWorker => Accepted(u)'
    BY <2>1, <2>2, AcceptedStays DEF Core
  <2> QED BY <2>1, <2>3, PlacedNext DEF Stepping
<1>3. ASSUME NEW w \in Worker, NEW u \in Request, Deliver(w, u), w # v PROVE run'[v] = run[v]
  BY <1>3, DeliverIs DEF IInv, OthersStay
<1> QED BY <1>1, <1>2, <1>3, RunsStand

\* A reconciliation job is added by the run that polled in vain.
LEMMA ReconciliationJobs ==
  ASSUME IInv, [Next]_vars, NEW r \in Request, job'["reconciliation"][r].state # "none"
  PROVE  \/ job["reconciliation"][r].state # "none"
         \/ \E w \in Worker : /\ run[w].pc # "idle" /\ run[w].req = r
                              /\ w \in ReconciliationWorker \/ (run[w].pc = "schedule" /\ run[w].step = "status")
<1> DEFINE Adds(w) == /\ run[w].pc # "idle" /\ run[w].req = r
                      /\ w \in ReconciliationWorker \/ (run[w].pc = "schedule" /\ run[w].step = "status")
           Goal == job["reconciliation"][r].state # "none" \/ \E w \in Worker : Adds(w)
<1>0. TypeOK /\ "reconciliation" \in Queue
  BY DEF IInv, Queue
<1>1. CASE job' = job
  BY <1>1
<1>2. ASSUME NEW w \in Worker, TakeLease(w) \/ Work(w) \/ Break(w) PROVE Goal
  <2>1. run[w].pc # "idle"
    BY <1>2, NotIdle
  <2>2. ASSUME NEW j \in JobRow, JobEnds(w, j) PROVE Goal
    <3>1. CASE w \in ReconciliationWorker /\ run[w].req = r
      BY <2>1, <3>1
    <3>2. CASE QueueOf(w) # "reconciliation" \/ run[w].req # r
      <4>1. job'["reconciliation"][r] = job["reconciliation"][r]
        BY <1>0, <2>1, <2>2, <3>2, JobEndsIs
      <4> QED BY <4>1
    <3> QED BY <3>1, <3>2 DEF QueueOf, Worker
  <2>3. CASE Schedule(w)
    <3>1. run[w].pc = "schedule" /\ run[w].step = "status"
      BY <2>3 DEF Schedule, IInv, Sound
    <3>2. CASE run[w].req = r
      BY <3>1, <3>2
    <3>3. CASE run[w].req # r /\ job["reconciliation"][run[w].req].state = "none"
      <4>1. job'["reconciliation"][r] = job["reconciliation"][r]
        BY <1>0, <2>3, <3>3, ScheduleIs
      <4> QED BY <4>1
    <3>4. CASE job["reconciliation"][run[w].req].state # "none"
      <4>1. JobEnds(w, [JobOf(w) EXCEPT !.state = "done"])
        BY <2>3, <3>4 DEF Schedule
      <4>2. [JobOf(w) EXCEPT !.state = "done"] \in JobRow
        BY <1>0, <2>1, RunRows DEF JobRow
      <4> QED BY <2>2, <4>1, <4>2
    <3> QED BY <3>2, <3>3, <3>4
  <2> QED BY <1>1, <1>2, <2>2, <2>3, JobsOf
<1>3. ASSUME NEW w \in Worker, NEW u \in Request, Deliver(w, u) PROVE Goal
  <2>1. CASE QueueOf(w) = "reconciliation" /\ u = r
    BY <1>3, <2>1 DEF Deliver
  <2>2. CASE QueueOf(w) # "reconciliation" \/ u # r
    <3>1. job'["reconciliation"][r] = job["reconciliation"][r]
      BY <1>0, <1>3, <2>2, DeliverIs
    <3> QED BY <3>1
  <2> QED BY <2>1, <2>2
<1>4. ASSUME NEW q \in Queue, NEW u \in Request, Redeliver(q, u) \/ Stall(q, u) \/ Evict(q, u) PROVE Goal
  <2>1. CASE q = "reconciliation" /\ u = r
    BY <1>4, <2>1 DEF Redeliver, Abandoned, Stall, Evict
  <2>2. CASE q # "reconciliation" \/ u # r
    <3>1. job'["reconciliation"][r] = job["reconciliation"][r]
      BY <1>0, <1>4, <2>2 DEF TypeOK, Redeliver, Stall, Evict, TakeBack
    <3> QED BY <3>1
  <2> QED BY <2>1, <2>2
<1>5. ASSUME NEW c \in Client, Api(c) PROVE Goal
  <2>1. job'["reconciliation"][r] = job["reconciliation"][r]
    BY <1>0, <1>5 DEF TypeOK, Queue, Api, Submit, Cancel, ReadLatest, Enqueue, Add, QueueUnavailable, AppendRetryPending,
       RemoveJob, Hangup
  <2> QED BY <2>1
<1>6. CASE LoseLease \/ (\E g \in Grounds : ChangeGrounds(g)) \/ UNCHANGED vars
  BY <1>1, <1>6 DEF LoseLease, ChangeGrounds, vars
<1> QED BY <1>2, <1>3, <1>4, <1>5, <1>6 DEF Next

LEMMA CoreStep == ASSUME IInv, NoneAppends, Solo, Core, [Next]_vars PROVE Core'
<1>1. ASSUME NEW v \in Worker PROVE Placed(v)'
  BY PlacedByItself, PlacedBeside, PlacedOutside DEF Next
<1>2. ASSUME NEW r \in Request, job'["reconciliation"][r].state # "none" PROVE Accepted(r)'
  <2>1. Accepted(r)
    BY <1>2, ReconciliationJobs DEF Core, Placed
  <2> QED BY <2>1, AcceptedStays DEF Core
<1> QED BY <1>1, <1>2 DEF Core, Accepted, Finished, Placed

\* Where the lease or the lock of the job does its work, and the queue takes its jobs.
Orderly == Calm /\ ("lease" \notin Faults \/ "stall" \notin Faults)

LEMMA OneAtATime == Orderly /\ Spec => [](IInv /\ NoneAppends /\ Solo /\ Core)
<1> DEFINE Leased == "lease" \notin Faults
           Locked == "stall" \notin Faults
<1>1. Init => NoneAppends /\ LeaseHeld /\ Owned /\ Core
  BY DEF Init, Idle, NoJob, NoneAppends, LeaseHeld, Away, Owned, Core, Placed, Mutating, Stepping, Queue, Worker
<1>2. Leased /\ IInv /\ LeaseHeld /\ [Next]_vars => LeaseHeld'
  BY LeaseHeldStep
<1>3. Locked /\ IInv /\ Owned /\ [Next]_vars => Owned'
  BY OwnedStep
<1>4. (LeaseHeld => Solo) /\ (Owned => Solo)
  BY LeaseIsSolo, OwnedIsSolo
<1>5. Calm /\ IInv /\ NoneAppends /\ [Next]_vars => NoneAppends'
  BY NoneBegins
<1>6. IInv /\ NoneAppends /\ Solo /\ Core /\ [Next]_vars => Core'
  BY CoreStep
<1>7. (Leased => Leased') /\ (Locked => Locked') /\ (Calm => Calm') /\ (Orderly <=> Calm /\ (Leased \/ Locked))
  BY DEF Calm, Orderly
<1> HIDE DEF Leased, Locked
<1>8. Leased /\ Spec => []Solo
  BY <1>1, <1>2, <1>4, <1>7, Invariance, PTL DEF Spec
<1>9. Locked /\ Spec => []Solo
  BY <1>1, <1>3, <1>4, <1>7, Invariance, PTL DEF Spec
<1> QED BY <1>1, <1>5, <1>6, <1>7, <1>8, <1>9, Invariance, PTL DEF Spec

\* Recorded progress never goes back: overlapping deliveries, retries and lost replies
\* never make a retry resume before a step that is already recorded (activateEtsy).
THEOREM PublicationOnlyAdvances ==
  "queue" \notin Faults /\ ("lease" \notin Faults \/ "stall" \notin Faults) /\ Spec => ProgressOnlyAdvances
<1>1. IInv /\ NoneAppends /\ Core /\ [Next]_vars =>
        [\A r \in Request : Rank[progress'[r]] >= Rank[progress[r]]]_vars
  BY Advances DEF Core
<1>2. Orderly /\ Spec => ProgressOnlyAdvances
  BY <1>1, OneAtATime, PTL DEF Spec, ProgressOnlyAdvances
<1> QED BY <1>2 DEF Orderly, Calm

\* The reconciliation queue is only ever given activations the marketplace has accepted,
\* and its runs call the marketplace to read and for nothing else.
THEOREM PublicationReconciliationReads ==
  "queue" \notin Faults /\ ("lease" \notin Faults \/ "stall" \notin Faults) /\ Spec => []ReconciliationOnlyReads
<1>1. Core => ReconciliationOnlyReads
  BY PublicationAssumption DEF Core, Placed, Mutating, Stepping, ReconciliationOnlyReads, Worker
<1>2. Orderly /\ Spec => []ReconciliationOnlyReads
  BY <1>1, OneAtATime, PTL
<1> QED BY <1>2 DEF Orderly, Calm

\* The provider acts for a run that is at a mutation, and for its request only.
LEMMA ActsForOne ==
  ASSUME IInv, [Next]_vars, sent' # sent
  PROVE  \E w \in Worker : /\ Mutating(w) /\ run[w].pc = "call" /\ run[w].req \in Request
                           /\ \A r \in Request : r # run[w].req => sent'[r] = sent[r]
<1>1. \E w \in Worker : Mutate(w) \/ LoseReply(w)
  BY ZenonT(40) DEF Next, vars, rows, Api, Submit, Cancel, ReadLatest, Enqueue, QueueUnavailable, AppendRetryPending, RemoveJob,
     Hangup, TakeLease, Work, Break, Claim, ClaimNothing, RefuseClaim, Guard, ReadStatus, RecordMutation,
     RecordStatus, RefuseRecord, Fail, Schedule, Exhaust, ClaimBreaks, GuardBreaks, RateLimited,
     Rejected, MediaRefused, RecordBreaks, FailBreaks, ScheduleUnavailable, ExhaustBreaks, Crash,
     Deliver, Redeliver, Stall, Evict, LoseLease, ChangeGrounds
<1>2. PICK w \in Worker : run[w].pc = "call" /\ run[w].step # "status" /\ Acts(w)
  BY <1>1 DEF Mutate, LoseReply
<1>3. run[w].req \in Request
  BY <1>2, RunRows DEF IInv
<1>4. \A r \in Request : r # run[w].req => sent'[r] = sent[r]
  BY <1>2, <1>3 DEF Acts, IInv, TypeOK
<1> QED BY <1>2, <1>3, <1>4 DEF Mutating, Stepping

LEMMA EndsAreQuiet ==
  ASSUME IInv, Core, [Next]_vars, NEW r \in Request, status[r] \in Terminal
  PROVE  sent'[r] = sent[r]
<1>1. \A w \in Worker : Mutating(w) => status[run[w].req] \in Begun
  BY DEF Core, Placed
<1>2. Begun \cap Terminal = {}
  BY DEF Begun, Progress, Terminal
<1> QED BY <1>1, <1>2, ActsForOne

\* Nothing reaches the provider for a request that reads cancelled, failed or ended: a
\* cancellation that is recorded has won its race with the delivery.
THEOREM PublicationEndsAreQuiet ==
  "queue" \notin Faults /\ ("lease" \notin Faults \/ "stall" \notin Faults) /\ Spec => EndedStaysQuiet
<1>1. IInv /\ Core /\ [Next]_vars => [\A r \in Request : status[r] \in Terminal => sent'[r] = sent[r]]_vars
  BY EndsAreQuiet
<1>2. Orderly /\ Spec => EndedStaysQuiet
  BY <1>1, OneAtATime, PTL DEF Spec, EndedStaysQuiet
<1> QED BY <1>2 DEF Orderly, Calm
=============================================================================
