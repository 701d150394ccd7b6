------------------------ MODULE PublicationPromiseProofs ------------------------
(***************************************************************************)
(* That marketplace publication keeps the promise of ADR-003 where no      *)
(* worker process dies and the database answers: each provider request is  *)
(* made once (NoMutationRepeats), a draft that reads cancelled or failed   *)
(* has left no listing behind (NoDraftLeftBehind), an activation that is   *)
(* polled in vain is handed over (HandedOver), and every step is one of    *)
(* PublicationPromise (KeepsPromise).                                      *)
(***************************************************************************)
EXTENDS PublicationProofs, MCPublication

\* No process dies, the database answers, and runs on one request do not overlap.
Steady == Orderly /\ "crash" \notin Faults /\ "database" \notin Faults

\* A rate limit between two images of an upload gives up the images already there.
Counted(r) == r \in Draft \/ Images = 1 \/ "rate_limit" \notin Faults

\* The run has made this provider request and has not recorded it yet.
Covers(w, p) ==
  \/ run[w].pc \in Stepping /\ p[1] = run[w].step /\ (p[2] < run[w].image \/ run[w].pc = "record")
  \/ run[w].pc = "fail" /\ run[w].event # "retry_pending"

\* What the provider was asked is a step of the request, and was asked once; it is
\* recorded, or the request has ended, or the run that asked is still there.
Answerable(r, p) ==
  \/ p \in StepsThrough(progress[r])
  \/ Finished(r)
  \/ \E w \in PublicationWorker : run[w].pc # "idle" /\ run[w].req = r /\ Covers(w, p)

Ahead ==
  \A r \in Request, p \in Part : sent[r][p] > 0 =>
    /\ p[1] \in StepsOf(r)
    /\ Counted(r) => sent[r][p] = 1 /\ Answerable(r, p)

\* Past the wait for the lease a run on a draft has the draft to itself.
LEMMA StepsGrow ==
  ASSUME IInv, NoneAppends, Core, [Next]_vars, NEW r \in Request, NEW p \in StepsThrough(progress[r])
  PROVE  p \in StepsThrough(progress'[r])
<1>1. Rank[progress'[r]] >= Rank[progress[r]]
  BY Advances DEF Core
<1>2. Rank[progress[r]] \in 0..4
  BY Ranks DEF IInv, TypeOK
<1>3. Rank[progress'[r]] \in 0..4
  <2>1. IInv'
    BY Inductive
  <2>2. progress'[r] \in Progress \cup {"none"}
    BY <2>1 DEF IInv, TypeOK
  <2> QED BY <2>2, Ranks
<1> QED BY <1>1, <1>2, <1>3 DEF StepsThrough

LEMMA NoPartIsARead == \A p \in Part : p[1] # "status" /\ p[2] >= 1
BY Parts, PartIsPair, PublicationAssumption

\* At a call that mutates, nothing was sent yet for the part the run is at.
LEMMA Untried ==
  ASSUME IInv, Solo, Core, Ahead, NEW w \in Worker, run[w].pc = "call", run[w].step # "status", Counted(run[w].req)
  PROVE  sent[run[w].req][PartOf(w)] = 0
<1>1. /\ w \in PublicationWorker /\ status[run[w].req] \in Begun /\ progress[run[w].req] = Prior[run[w].step]
      /\ Mutating(w) /\ Past(w)
  BY DEF Core, Placed, Mutating, Stepping, Past
<1>2. run[w] \in RunRow /\ run[w].req \in Request /\ Sound(run[w], sent)
  BY RunRows DEF IInv
<1>3. PICK r \in Request : r = run[w].req
  BY <1>2
<1>4. run[w].step \in {"create", "configure", "upload", "activate"} /\ run[w].image \in 1..Images
  BY <1>2 DEF Sound, Stepping, StepsOf, RunRow
<1>5. PICK p \in Part : p = PartOf(w) /\ p[1] = run[w].step /\ p[2] = run[w].image
  <2>1. run[w].step # "upload" => run[w].image = 1
    BY <1>2 DEF Sound, Stepping
  <2>2. <<run[w].step, run[w].image>> \in Part
    BY <1>4, <2>1, Parts
  <2> QED BY <2>2 DEF PartOf
<1>6. sent[r][p] \in 0..2
  BY DEF IInv, TypeOK
<1> SUFFICES ASSUME sent[r][p] > 0 PROVE FALSE
  BY <1>3, <1>5, <1>6
<1>7. Answerable(r, p)
  BY <1>3 DEF Ahead
<1>8. p \notin StepsThrough(progress[r])
  BY <1>1, <1>3, <1>4, <1>5 DEF StepsThrough, Prior, Rank
<1>9. ~Finished(r)
  BY <1>1, <1>3 DEF Begun, Finished, Progress, Terminal
<1>10. ASSUME NEW v \in PublicationWorker, run[v].req = r, Covers(v, p) PROVE FALSE
  <2>1. Past(v)
    BY <1>10 DEF Covers, Past, Stepping
  <2>2. v = w
    BY <1>1, <1>3, <1>10, <2>1 DEF Solo
  <2> QED BY <1>4, <1>5, <1>10, <2>2 DEF Covers
<1> QED BY <1>7, <1>8, <1>9, <1>10 DEF Answerable

LEMMA FinishesBy ==
  ASSUME IInv, NEW r \in Request, NEW s \in Terminal, AppendUnlessTerminal(r, s) \/ Append(r, s)
  PROVE  Finished(r)'
<1>1. s \in Status
  BY DEF Status
<1> QED BY <1>1, AppendIs DEF IInv, AppendUnlessTerminal, Finished

\* The run that asked stays until its outcome is recorded or the request has ended.
LEMMA CoverStays ==
  ASSUME Steady, IInv, Core, NEW w \in Worker, NEW r \in Request, NEW p \in Part,
         run[w].pc # "idle", run[w].req = r, Covers(w, p), Counted(r), Work(w) \/ Break(w)
  PROVE  \/ p \in StepsThrough(progress'[r]) \/ Finished(r)'
         \/ run'[w].pc # "idle" /\ run'[w].req = r /\ Covers(w, p)'
<1> DEFINE Goal == \/ p \in StepsThrough(progress'[r]) \/ Finished(r)'
                   \/ run'[w].pc # "idle" /\ run'[w].req = r /\ Covers(w, p)'
<1>1. TypeOK /\ run[w] \in RunRow /\ Sound(run[w], sent) /\ p[1] # "status" /\ p[2] >= 1 /\ p[2] \in Nat
  BY RunRows, NoPartIsARead, PartIsPair DEF IInv
<1>2. run[w].pc \in {"guard", "call", "record", "fail"}
  BY DEF Covers, Stepping
<1>3. run[w].pc # "fail" => run[w].step # "status" /\ p[1] = run[w].step /\ (p[2] < run[w].image \/ run[w].pc = "record")
  BY <1>1, <1>2 DEF Covers
<1>4. ASSUME NEW e, e # "retry_pending", GoFail(w, e) PROVE Goal
  BY <1>1, <1>4, GoFailIs DEF Covers
<1>5. CASE Guard(w)
  <2>1. CASE MayRequest(w)
    <3>1. run[w].pc = "guard" /\ run'[w].pc = "call" /\ run'[w].req = r /\ run'[w].step = run[w].step /\ run'[w].image = run[w].image
      BY <1>1, <1>5, <2>1, GoToIs DEF Guard
    <3> QED BY <1>3, <3>1 DEF Covers, Stepping
  <2>2. CASE ~MayRequest(w)
    BY <1>4, <1>5, <2>2 DEF Guard
  <2> QED BY <2>1, <2>2
<1>6. CASE Mutate(w)
  <2>1. run[w].pc = "call" /\ run[w].image \in Nat
    BY <1>1, <1>6 DEF Mutate, RunRow
  <2>2. run'[w].req = r /\ run'[w].step = run[w].step
    BY <1>1, <1>6, MutateIs
  <2>3. run'[w].pc = "record" \/ (run'[w].pc = "guard" /\ run'[w].image = run[w].image + 1)
    BY <1>1, <1>6, MutateIs
  <2> QED BY <1>1, <1>3, <2>1, <2>2, <2>3 DEF Covers, Stepping
<1>7. CASE RecordMutation(w)
  <2>1. run[w].pc = "record" /\ run[w].step # "status" /\ Writes(w, ResultOf[run[w].step])
    BY <1>7 DEF RecordMutation
  <2>2. CASE Finished(r)
    BY <2>1, <2>2 DEF Writes, Finished
  <2>3. CASE ~Finished(r)
    <3>1. Append(r, ResultOf[run[w].step])
      BY <2>1, <2>3 DEF Writes
    <3>2. CASE run[w].step = "create"
      BY <1>1, <2>1, <3>1, <3>2, Steps, FinishesBy DEF Terminal
    <3>3. CASE run[w].step # "create"
      <4>1. ResultOf[run[w].step] \in Progress
        BY <2>1, <3>3, Steps
      <4>2. progress'[r] = ResultOf[run[w].step]
        BY <1>1, <3>1, <4>1, AppendIs DEF Status
      <4>3. p \in StepsThrough(ResultOf[run[w].step])
        BY <1>3, <2>1, <3>3, ResultIsNext DEF Core, ResultOf, StepsThrough, Rank
      <4> QED BY <4>2, <4>3
    <3> QED BY <3>2, <3>3
  <2> QED BY <2>2, <2>3
<1>8. CASE RateLimited(w)
  <2>1. run[w].pc = "call" /\ run[w].image \in 1..Images /\ (run[w].step # "upload" => run[w].image = 1)
    BY <1>1, <1>8 DEF RateLimited, RunRow, Sound, Stepping
  <2>2. run[w].step = "upload" /\ Images # 1
    BY <1>1, <1>3, <2>1, PublicationAssumption
  <2>3. r \notin Draft
    BY <1>1, <2>1, <2>2 DEF Sound, Stepping, StepsOf
  <2> QED BY <1>8, <2>2, <2>3 DEF Counted, RateLimited, Fault
<1>9. CASE Fail(w)
  <2>1. run[w].pc = "fail" /\ run[w].event # "retry_pending"
    BY <1>9 DEF Fail, Covers, Stepping
  <2>2. (IF run[w].event = "unauthorized" THEN "failed" ELSE run[w].event) \in Terminal
    BY <2>1, FailEvent DEF Failure, Terminal
  <2> QED BY <1>9, <2>2, FinishesBy DEF Fail
<1>10. CASE LoseReply(w) \/ Rejected(w) \/ MediaRefused(w) \/ RefuseRecord(w) \/ RecordBreaks(w)
  <2>1. run[w].step # "status"
    BY <1>3, <1>10 DEF LoseReply, Rejected, MediaRefused, RefuseRecord, RecordBreaks
  <2> QED BY <1>4, <1>10, <2>1 DEF LoseReply, Rejected, MediaRefused, RefuseRecord, RecordBreaks, WritebackFailure
<1>11. ~ReadStatus(w) /\ ~RecordStatus(w)
  BY <1>3 DEF ReadStatus, RecordStatus
<1>12. ~GuardBreaks(w) /\ ~FailBreaks(w) /\ ~Crash(w) /\ ~ClaimBreaks(w) /\ ~ExhaustBreaks(w)
  BY DEF Steady, GuardBreaks, FailBreaks, Crash, ClaimBreaks, ExhaustBreaks, Fault
<1>13. ~Claim(w) /\ ~ClaimNothing(w) /\ ~RefuseClaim(w) /\ ~Schedule(w) /\ ~ScheduleUnavailable(w) /\ ~Exhaust(w)
  BY <1>2 DEF Claim, ClaimNothing, RefuseClaim, Schedule, ScheduleUnavailable, Exhaust
<1> QED BY <1>5, <1>6, <1>7, <1>8, <1>9, <1>10, <1>11, <1>12, <1>13 DEF Work, Break

\* A provider request is made by the run that is at it, and no other changes.
LEMMA SentBy ==
  ASSUME IInv, [Next]_vars, sent' # sent
  PROVE  \E w \in Worker :
           /\ Mutate(w) \/ LoseReply(w)
           /\ run[w].pc = "call" /\ run[w].step # "status" /\ run[w].req \in Request /\ PartOf(w) \in Part
           /\ sent[run[w].req][PartOf(w)] = 0 => sent'[run[w].req][PartOf(w)] = 1
           /\ \A r \in Request, p \in Part : r # run[w].req \/ p # PartOf(w) => sent'[r][p] = sent[r][p]
<1>1. \E w \in Worker : Mutate(w) \/ LoseReply(w)
  BY ZenonT(40) DEF Next, vars, rows, Api, Submit, Cancel, ReadLatest, Enqueue, QueueUnavailable, AppendRetryPending, RemoveJob,
     Hangup, TakeLease, Work, Break, Claim, ClaimNothing, RefuseClaim, Guard, ReadStatus, RecordMutation,
     RecordStatus, RefuseRecord, Fail, Schedule, Exhaust, ClaimBreaks, GuardBreaks, RateLimited,
     Rejected, MediaRefused, RecordBreaks, FailBreaks, ScheduleUnavailable, ExhaustBreaks, Crash,
     Deliver, Redeliver, Stall, Evict, LoseLease, ChangeGrounds
<1>2. PICK w \in Worker : Mutate(w) \/ LoseReply(w)
  BY <1>1
<1>3. run[w].pc = "call" /\ run[w].step # "status" /\ Acts(w)
  BY <1>2 DEF Mutate, LoseReply
<1>4. /\ run[w].req \in Request /\ PartOf(w) \in Part
      /\ \A r \in Request, p \in Part : r # run[w].req \/ p # PartOf(w) => sent'[r][p] = sent[r][p]
  BY <1>3, ActsOnce
<1>5. PICK r \in Request, p \in Part : r = run[w].req /\ p = PartOf(w)
  BY <1>4
<1>6. sent' = [sent EXCEPT ![r][p] = IF sent[r][p] = 2 THEN 2 ELSE sent[r][p] + 1]
  BY <1>3, <1>5 DEF Acts, IInv, TypeOK
<1>7. sent[r][p] = 0 => sent'[r][p] = 1
  BY <1>6 DEF IInv, TypeOK
<1> QED BY <1>2, <1>3, <1>4, <1>5, <1>7

\* What can be answered for stays so, as long as no other provider request is made of it.
LEMMA AnswerStays ==
  ASSUME Steady, IInv, NoneAppends, Core, [Next]_vars, NEW r \in Request, NEW p \in Part, Counted(r), Answerable(r, p)
  PROVE  Answerable(r, p)'
<1>1. CASE p \in StepsThrough(progress[r])
  <2>1. p \in StepsThrough(progress'[r])
    BY <1>1, StepsGrow
  <2> QED BY <2>1 DEF Answerable, StepsThrough
<1>2. CASE Finished(r)
  BY <1>2, EndsAreFinal DEF Finished, Answerable
<1>3. ASSUME NEW w \in PublicationWorker, run[w].pc # "idle", run[w].req = r, Covers(w, p) PROVE Answerable(r, p)'
  <2>1. w \in Worker
    BY DEF Worker
  <2>2. CASE run'[w] = run[w]
    BY <1>3, <2>2 DEF Answerable, Covers
  <2>3. CASE Work(w) \/ Break(w)
    <3>1. \/ p \in StepsThrough(progress'[r]) \/ Finished(r)'
          \/ run'[w].pc # "idle" /\ run'[w].req = r /\ Covers(w, p)'
      BY <1>3, <2>1, <2>3, CoverStays
    <3> QED BY <3>1 DEF Answerable, StepsThrough, Finished, Covers
  <2>4. ~TakeLease(w) /\ \A u \in Request : ~Deliver(w, u)
    BY <1>3 DEF Covers, Stepping, TakeLease, Deliver
  <2>5. ASSUME NEW v \in Worker, v # w, TakeLease(v) \/ Work(v) \/ Break(v) PROVE run'[w] = run[w]
    BY <2>1, <2>5, StepOf DEF OthersStay
  <2>6. ASSUME NEW v \in Worker, NEW u \in Request, Deliver(v, u), v # w PROVE run'[w] = run[w]
    BY <2>1, <2>6, DeliverIs DEF OthersStay, IInv
  <2> QED BY <2>1, <2>2, <2>3, <2>4, <2>5, <2>6, RunsStand DEF Next
<1> QED BY <1>1, <1>2, <1>3 DEF Answerable

LEMMA AheadStep ==
  ASSUME Steady, IInv, NoneAppends, Solo, Core, Ahead, [Next]_vars
  PROVE  Ahead'
<1> SUFFICES ASSUME NEW r \in Request, NEW p \in Part, sent'[r][p] > 0
             PROVE  p[1] \in StepsOf(r) /\ (Counted(r) => sent'[r][p] = 1 /\ Answerable(r, p)')
  BY DEF Ahead, Answerable, Counted, StepsOf, Finished, Covers, StepsThrough
<1>1. CASE sent'[r][p] = sent[r][p]
  BY <1>1, AnswerStays DEF Ahead
<1>2. CASE sent'[r][p] # sent[r][p]
  <2>1. PICK w \in Worker :
           /\ Mutate(w) \/ LoseReply(w)
           /\ run[w].pc = "call" /\ run[w].step # "status" /\ run[w].req = r /\ PartOf(w) = p
           /\ sent[r][p] = 0 => sent'[r][p] = 1
    BY <1>2, SentBy
  <2>2. run[w] \in RunRow /\ Sound(run[w], sent) /\ run[w].image \in Nat
    BY <2>1, RunRows DEF IInv, RunRow
  <2>3. p[1] = run[w].step /\ p[2] = run[w].image /\ p[1] \in StepsOf(r)
    BY <2>1, <2>2 DEF PartOf, Sound, Stepping
  <2>4. ASSUME Counted(r) PROVE sent'[r][p] = 1
    BY <2>1, <2>4, Untried
  <2>5. w \in PublicationWorker
    BY <2>1 DEF Core, Placed, Mutating, Stepping
  <2>6. run'[w].pc # "idle" /\ run'[w].req = r /\ Covers(w, p)'
    <3>1. CASE Mutate(w)
      <4>1. run'[w].req = r /\ run'[w].step = run[w].step
        BY <2>1, <3>1, MutateIs DEF IInv
      <4>2. run'[w].pc = "record" \/ (run'[w].pc = "guard" /\ run'[w].image = run[w].image + 1)
        BY <2>1, <3>1, MutateIs DEF IInv
      <4> QED BY <2>2, <2>3, <4>1, <4>2 DEF Covers, Stepping
    <3>2. CASE LoseReply(w)
      <4>1. GoFail(w, "reconciliation_required")
        BY <2>1, <3>2 DEF LoseReply
      <4> QED BY <2>1, <4>1, GoFailIs DEF Covers, IInv
    <3> QED BY <2>1, <3>1, <3>2
  <2> QED BY <2>3, <2>4, <2>5, <2>6 DEF Answerable, Covers
<1> QED BY <1>1, <1>2
-----------------------------------------------------------------------------
(***************************************************************************)
(* Drafts.                                                                 *)
(***************************************************************************)
Made(r) == sent[r][<<"create", 1>>]

\* A run that fails a draft has found it in execution, and reports it failed only when
\* nothing was asked of the provider.
Failing ==
  \A w \in PublicationWorker : run[w].pc = "fail" /\ run[w].req \in Draft =>
    /\ status[run[w].req] \in Begun \cup Terminal
    /\ run[w].event \in {"failed", "unauthorized"} => Made(run[w].req) = 0

\* Past the wait for the lease a run on a draft is alone with it.
LEMMA Alone ==
  ASSUME Solo, Core, NEW w \in PublicationWorker, Past(w), run[w].req \in Draft,
         NEW v \in Worker, v # w, Past(v)
  PROVE  run[v].req # run[w].req
<1>1. CASE v \in PublicationWorker
  BY <1>1 DEF Solo
<1>2. CASE v \in ReconciliationWorker
  BY <1>2, PublicationAssumption DEF Core, Placed, Past, Accepted
<1> QED BY <1>1, <1>2 DEF Worker

LEMMA CreatePart == <<"create", 1>> \in Part /\ <<"create", 1>>[1] = "create" /\ <<"create", 1>>[2] = 1
BY Parts

\* A draft that was made and has not ended is with the run that made it.
LEMMA MadeByRun ==
  ASSUME IInv, Ahead, NEW r \in Draft, ~Finished(r), Made(r) > 0
  PROVE  \E w \in PublicationWorker : Past(w) /\ run[w].req = r /\ Covers(w, <<"create", 1>>)
<1>1. r \in Request
  BY DEF Request
<1>2. Answerable(r, <<"create", 1>>)
  BY <1>1, CreatePart DEF Ahead, Counted, Made
<1>3. <<"create", 1>> \notin StepsThrough(progress[r])
  BY CreatePart DEF StepsThrough
<1>4. \A w \in PublicationWorker : Covers(w, <<"create", 1>>) => Past(w)
  BY DEF Covers, Past, Stepping
<1> QED BY <1>2, <1>3, <1>4 DEF Answerable

LEMMA MadeIsCount == ASSUME IInv, NEW r \in Draft PROVE Made(r) \in 0..2
BY CreatePart DEF IInv, TypeOK, Made, Request

LEMMA WaitingUnmade ==
  ASSUME IInv, Core, Ahead, Failing, NEW r \in Draft, status[r] \in Waiting \cup {"absent"}
  PROVE  Made(r) = 0
<1> SUFFICES ASSUME Made(r) > 0 PROVE FALSE
  BY MadeIsCount
<1>1. ~Finished(r) /\ status[r] \notin Begun
  BY DEF Finished, Terminal, Waiting, Begun, Progress
<1>2. PICK w \in PublicationWorker : Past(w) /\ run[w].req = r /\ Covers(w, <<"create", 1>>)
  BY <1>1, MadeByRun
<1>3. CASE run[w].pc \in Stepping
  <2>1. run[w].step # "status"
    BY <1>3, CreatePart, <1>2 DEF Covers, Stepping
  <2> QED BY <1>1, <1>2, <1>3, <2>1 DEF Core, Placed, Mutating, Worker
<1>4. CASE run[w].pc = "fail"
  BY <1>1, <1>2, <1>4 DEF Failing, Finished
<1> QED BY <1>2, <1>3, <1>4 DEF Covers

\* While a run is alone with a draft no other step changes it.
LEMMA LeftAlone ==
  ASSUME IInv, NoneAppends, Solo, Core, [Next]_vars, NEW w \in PublicationWorker, Past(w), run[w].req \in Draft,
         ~(TakeLease(w) \/ Work(w) \/ Break(w)), status[run[w].req] \in Begun \cup Terminal
  PROVE  run'[w] = run[w] /\ status'[run[w].req] = status[run[w].req] /\ Made(run[w].req)' = Made(run[w].req)
<1>1. w \in Worker /\ run[w].req \in Request /\ run[w].pc # "idle"
  BY DEF Worker, Request, Past
<1>2. \A v \in Worker : v # w /\ Past(v) => run[v].req # run[w].req
  BY Alone
<1>3. Made(run[w].req)' = Made(run[w].req) \/ run'[w] # run[w]
  <2>1. CASE sent' = sent
    BY <2>1 DEF Made
  <2>2. CASE sent' # sent
    <3>1. PICK v \in Worker :
            /\ Mutate(v) \/ LoseReply(v)
            /\ run[v].pc = "call"
            /\ \A r \in Request, p \in Part : r # run[v].req \/ p # PartOf(v) => sent'[r][p] = sent[r][p]
      BY <2>2, SentBy
    <3>2. v # w
      BY <3>1 DEF Work, Break
    <3>3. run[v].req # run[w].req
      BY <1>2, <3>1, <3>2 DEF Past
    <3> QED BY <1>1, <3>1, <3>3, CreatePart DEF Made
  <2> QED BY <2>1, <2>2
<1>4. ASSUME NEW v \in Worker, TakeLease(v) \/ Work(v) \/ Break(v)
      PROVE  run'[w] = run[w] /\ status'[run[w].req] = status[run[w].req]
  <2>1. v # w /\ run'[w] = run[w]
    BY <1>1, <1>4, StepOf DEF OthersStay
  <2>2. CASE UNCHANGED <<status, progress>>
    BY <2>1, <2>2
  <2>3. ASSUME run[v].pc \notin {"idle", "lease"}, NEW s \in Status, Append(run[v].req, s)
        PROVE  status'[run[w].req] = status[run[w].req]
    <3>1. run[v].req # run[w].req /\ run[v].req \in Request
      BY <1>2, <2>1, <2>3, RunRows DEF Past, IInv
    <3> QED BY <1>1, <2>3, <3>1, AppendIs DEF IInv
  <2> QED BY <1>4, <2>1, <2>2, <2>3, WorkIsForward DEF Forward, Core
<1>5. ASSUME NEW v \in Worker, NEW u \in Request, Deliver(v, u) PROVE run'[w] = run[w]
  <2>1. v # w
    BY <1>1, <1>5 DEF Deliver
  <2> QED BY <1>1, <1>5, <2>1, DeliverIs DEF OthersStay, IInv
<1> QED BY <1>1, <1>3, <1>4, <1>5, RunsStand, OthersEvents DEF Next

LEMMA FailingStep ==
  ASSUME Steady, IInv, NoneAppends, Solo, Core, Ahead, Failing, [Next]_vars
  PROVE  Failing'
<1> SUFFICES ASSUME NEW w \in PublicationWorker, run'[w].pc = "fail", run'[w].req \in Draft
             PROVE  /\ status'[run'[w].req] \in Begun \cup Terminal
                    /\ run'[w].event \in {"failed", "unauthorized"} => sent'[run'[w].req][<<"create", 1>>] = 0
  BY DEF Failing, Made, Begun
<1>1. w \in Worker
  BY DEF Worker
<1>2. CASE TakeLease(w) \/ Work(w) \/ Break(w)
  <2>1. run[w].pc # "idle" /\ run[w] \in RunRow
    BY <1>1, <1>2, NotIdle, RunRows DEF IInv
  <2>2. run'[w].req = run[w].req
    BY <1>1, <1>2, StepOf
  <2>3. PICK r \in Draft : r = run[w].req
    BY <2>2
  <2>4. r \in Request /\ r \notin Activation
    BY PublicationAssumption DEF Request
  <2>5. ASSUME run[w].pc \in Stepping PROVE run[w].step = "create" /\ run[w].image = 1 /\ status[r] \in Begun /\ Past(w)
    <3>1. run[w].step \in StepsOf(r)
      BY <1>1, <2>3, <2>5 DEF IInv, Sound, Stepping
    <3>2. run[w].step = "create" /\ Mutating(w)
      BY <2>5, <3>1 DEF StepsOf, Mutating
    <3> QED BY <1>1, <2>3, <2>5, <3>2 DEF Core, Placed, IInv, Sound, Stepping, Past
  <2>6. ASSUME run[w].pc = "call" PROVE Made(r) = 0
    BY <1>1, <2>3, <2>5, <2>6, Untried DEF Stepping, Counted, PartOf, Made
  <2>7. CASE Guard(w)
    <3>1. ~MayRequest(w) /\ run'[w].event = "reconciliation_required" /\ status' = status /\ run[w].pc = "guard"
      BY <1>1, <2>1, <2>7, GoToIs, GoFailIs DEF Guard, rows, IInv
    <3> QED BY <2>2, <2>3, <2>5, <3>1 DEF Stepping
  <2>8. CASE RateLimited(w) \/ Rejected(w)
    <3>1. run[w].pc = "call" /\ status' = status /\ sent' = sent
      BY <2>8 DEF RateLimited, Rejected, rows
    <3> QED BY <2>2, <2>3, <2>5, <2>6, <3>1 DEF Stepping, Made
  <2>9. CASE LoseReply(w) \/ RefuseRecord(w) \/ RecordBreaks(w)
    <3>1. run[w].pc \in Stepping /\ status' = status
      BY <2>9 DEF LoseReply, RefuseRecord, RecordBreaks, rows, Stepping
    <3>2. GoFail(w, "reconciliation_required")
      BY <2>5, <2>9, <3>1 DEF LoseReply, RefuseRecord, RecordBreaks, WritebackFailure
    <3> QED BY <1>1, <2>1, <2>2, <2>3, <2>5, <3>1, <3>2, GoFailIs DEF IInv
  <2>10. ~GuardBreaks(w) /\ ~MediaRefused(w) /\ ~ScheduleUnavailable(w)
    BY <2>5 DEF Steady, Orderly, Calm, Fault, GuardBreaks, MediaRefused, ScheduleUnavailable, Stepping
  <2>11. ~(Claim(w) \/ Mutate(w) \/ ReadStatus(w) \/ TakeLease(w))
    <3>1. TakeLease(w) => GoTo(w, "claim")
      BY DEF TakeLease, GoTo
    <3>2. ReadStatus(w) => GoTo(w, "record")
      BY DEF ReadStatus
    <3> QED BY <1>1, <2>1, <3>1, <3>2, GoToIs, ClaimIs, MutateIs DEF IInv
  <2>12. ~(Quits(w) \/ RecordMutation(w) \/ RecordStatus(w) \/ Schedule(w) \/ ExhaustBreaks(w) \/ Crash(w))
    <3>1. ~(Return(w) \/ Throw(w))
      BY <1>1, <2>1, LeaveIs DEF IInv
    <3>2. ~(RecordMutation(w) /\ run[w].step # "create")
      BY <1>1, NextMutationIs DEF IInv
    <3>3. ~RecordStatus(w)
      BY <2>5 DEF RecordStatus, Stepping
    <3>4. ~(Schedule(w) \/ ExhaustBreaks(w) \/ Crash(w))
      BY <1>1, EndsIs DEF Schedule, ExhaustBreaks, Crash, JobFails, IInv
    <3> QED BY <3>1, <3>2, <3>3, <3>4 DEF Quits, ClaimNothing, RefuseClaim, ClaimBreaks, Fail, FailBreaks, Exhaust, RecordMutation
  <2> QED BY <1>2, <2>7, <2>8, <2>9, <2>10, <2>11, <2>12 DEF Work, Break, Quits
<1>3. CASE ~(TakeLease(w) \/ Work(w) \/ Break(w))
  <2>1. CASE run'[w] = run[w]
    <3>1. Past(w) /\ run[w].req \in Draft /\ status[run[w].req] \in Begun \cup Terminal
      BY <2>1 DEF Past, Failing
    <3>2. status'[run[w].req] = status[run[w].req] /\ Made(run[w].req)' = Made(run[w].req)
      BY <1>3, <3>1, LeftAlone
    <3> QED BY <2>1, <3>1, <3>2 DEF Failing, Made
  <2>2. CASE run'[w] # run[w]
    <3>1. \A v \in Worker : v # w => ~(TakeLease(v) \/ Work(v) \/ Break(v))
      BY <1>1, <2>2, StepOf DEF OthersStay
    <3>2. PICK v \in Worker, u \in Request : Deliver(v, u)
      BY <1>3, <2>2, <3>1, RunsStand DEF Next
    <3> QED BY <1>1, <2>2, <3>2, DeliverIs DEF OthersStay, IInv
  <2> QED BY <2>1, <2>2
<1> QED BY <1>2, <1>3

\* The events of a step of a run that ends a draft.
LEMMA DraftEnds ==
  ASSUME Steady, IInv, NoneAppends, Solo, Core, Ahead, Failing, NEW w \in Worker, TakeLease(w) \/ Work(w) \/ Break(w),
         NEW r \in Draft, ~Finished(r), status'[r] \in {"cancelled", "failed"}
  PROVE  Made(r) = 0 /\ sent' = sent
<1>1. TypeOK /\ r \in Request /\ r \notin Activation /\ status[r] \notin {"cancelled", "failed"} /\ run[w].pc # "idle"
  BY PublicationAssumption, NotIdle DEF IInv, Request, Finished, Terminal
<1>2. run[w].req \in Request
  BY <1>1, RunRows
<1>3. ASSUME NEW s \in Status, Append(run[w].req, s) PROVE r = run[w].req /\ s \in {"cancelled", "failed"}
  BY <1>1, <1>2, <1>3, AppendIs
<1>4. ASSUME r = run[w].req PROVE w \in PublicationWorker
  BY <1>1, <1>4 DEF Core, Placed, Accepted, Worker
<1>5. CASE RefuseClaim(w)
  <2>1. r = run[w].req /\ run[w].pc = "claim" /\ sent' = sent
    BY <1>3, <1>5, RefusalIs, Statuses DEF RefuseClaim, Failure
  <2>2. w \in PublicationWorker /\ Past(w)
    BY <1>4, <2>1 DEF Past
  <2>3. \A v \in PublicationWorker : Past(v) /\ run[v].req = r => v = w
    BY <2>1, <2>2 DEF Solo
  <2>4. ~Covers(w, <<"create", 1>>)
    BY <2>1 DEF Covers, Stepping
  <2> QED BY <1>1, <2>1, <2>3, <2>4, MadeByRun, MadeIsCount
<1>6. CASE Fail(w)
  <2> DEFINE s == IF run[w].event = "unauthorized" THEN "failed" ELSE run[w].event
  <2>1. run[w].pc = "fail" /\ sent' = sent /\ AppendUnlessTerminal(run[w].req, s)
    BY <1>6 DEF Fail
  <2>2. s \in Failure /\ s \in Status
    BY <2>1, FailStatus, Statuses
  <2>3. r = run[w].req /\ s = "failed"
    <3>1. Append(run[w].req, s)
      BY <1>1, <2>1 DEF AppendUnlessTerminal
    <3> HIDE DEF s
    <3> QED BY <1>3, <2>2, <3>1 DEF Failure
  <2>4. run[w].event \in {"failed", "unauthorized"} /\ w \in PublicationWorker
    BY <1>4, <2>3
  <2> QED BY <2>1, <2>3, <2>4 DEF Failing
<1>7. CASE Claim(w)
  BY <1>3, <1>7, Statuses DEF Claim
<1>8. CASE RecordMutation(w)
  <2>1. ResultOf[run[w].step] \in Progress \cup {"draft_created"}
    BY <1>8, Steps DEF RecordMutation
  <2>2. Progress \cup {"draft_created"} \subseteq Status \ {"cancelled", "failed"}
    BY DEF Progress, Status, Terminal
  <2> QED BY <1>1, <1>3, <1>8, <2>1, <2>2 DEF RecordMutation, Writes
<1>9. CASE RecordStatus(w)
  <2>1. PICK s \in {"sync_pending", "published", "deactivated"} : Writes(w, s)
    BY <1>9, ReadingsAre DEF RecordStatus
  <2> QED BY <1>1, <1>3, <2>1, Statuses DEF Writes
<1>10. CASE Exhaust(w)
  BY <1>1, <1>3, <1>10, Statuses DEF Exhaust, AppendUnlessTerminal, Failure
<1>11. ~UNCHANGED <<status, progress>>
  BY <1>1
<1> QED BY <1>5, <1>6, <1>7, <1>8, <1>9, <1>10, <1>11, Silent DEF Work, Break

LEMMA NoDraftLeftStep ==
  ASSUME Steady, IInv, NoneAppends, Solo, Core, Ahead, Failing, NoDraftLeftBehind, [Next]_vars
  PROVE  NoDraftLeftBehind'
<1> SUFFICES ASSUME NEW r \in Draft, status'[r] \in {"cancelled", "failed"} PROVE Made(r)' = 0
  BY DEF NoDraftLeftBehind, Made
<1>0. r \in Request
  BY DEF Request
<1>1. CASE Finished(r)
  <2>1. status'[r] = status[r] /\ sent'[r] = sent[r]
    BY <1>0, <1>1, EndsAreFinal, EndsAreQuiet DEF Finished
  <2> QED BY <2>1 DEF NoDraftLeftBehind, Made
<1>2. ASSUME ~Finished(r), NEW w \in Worker, TakeLease(w) \/ Work(w) \/ Break(w) PROVE Made(r)' = 0
  BY <1>2, DraftEnds DEF Made
<1>3. CASE ~Finished(r) /\ \A w \in Worker : ~(TakeLease(w) \/ Work(w) \/ Break(w))
  <2>1. status'[r] # status[r]
    BY <1>3 DEF Finished, Terminal
  <2>2. status[r] \in Waiting \cup {"absent"}
    <3>1. status[r] \notin Begun \cup Terminal
      BY <1>0, <1>3, <2>1, OthersEvents DEF Next
    <3> QED BY <1>0, <3>1 DEF IInv, TypeOK, Status, Begun
  <2>3. sent' = sent
    BY <1>3, SentBy DEF Work, Break
  <2> QED BY <2>2, <2>3, WaitingUnmade DEF Made
<1> QED BY <1>2, <1>1, <1>3

LEMMA SteadyHolds == Steady /\ Spec => [](IInv /\ NoneAppends /\ Solo /\ Core /\ Ahead /\ Failing /\ NoDraftLeftBehind)
<1>1. Init => Ahead /\ Failing /\ NoDraftLeftBehind
  BY CreatePart DEF Init, Idle, Ahead, Failing, NoDraftLeftBehind, Request, Worker
<1>2. Steady /\ IInv /\ NoneAppends /\ Solo /\ Core /\ Ahead /\ [Next]_vars => Ahead'
  BY AheadStep
<1>3. Steady /\ IInv /\ NoneAppends /\ Solo /\ Core /\ Ahead /\ Failing /\ [Next]_vars => Failing'
  BY FailingStep
<1>4. Steady /\ IInv /\ NoneAppends /\ Solo /\ Core /\ Ahead /\ Failing /\ NoDraftLeftBehind /\ [Next]_vars
        => NoDraftLeftBehind'
  BY NoDraftLeftStep
<1>5. (Steady => Steady') /\ (Steady => Orderly)
  BY DEF Steady, Orderly, Calm
<1> QED BY <1>1, <1>2, <1>3, <1>4, <1>5, OneAtATime, PTL DEF Spec

\* A draft that is reported cancelled or failed is not on the marketplace: where no worker
\* dies and the database answers, whatever replies are lost, rate limits met, credentials
\* refused and leases or job locks lost (fail, cancel, complete).
THEOREM PublicationLeavesNoDraft ==
  /\ "queue" \notin Faults /\ "crash" \notin Faults /\ "database" \notin Faults
  /\ "lease" \notin Faults \/ "stall" \notin Faults
  /\ Spec
  => []NoDraftLeftBehind
<1>1. Steady /\ Spec => []NoDraftLeftBehind
  BY SteadyHolds, PTL
<1> QED BY <1>1 DEF Steady, Orderly, Calm

\* An upload of several images is not given up between two of them.
Whole == Images = 1 \/ "rate_limit" \notin Faults

\* No provider request is made a second time, where workers live, the database answers, a
\* run keeps the lease or its job, and no upload is rate limited between two images.
THEOREM PublicationRepeatsNothing == "queue" \notin Faults /\ Spec => []NoMutationRepeats
<1>1. Whole /\ IInv /\ Ahead => NoMutationRepeats
  <2> SUFFICES ASSUME Whole, IInv, Ahead, NEW r \in Request, NEW p \in Part PROVE sent[r][p] <= 1
    BY DEF NoMutationRepeats
  <2>1. sent[r][p] \in 0..2
    BY DEF IInv, TypeOK
  <2>2. Counted(r)
    BY DEF Counted, Whole
  <2> QED BY <2>1, <2>2 DEF Ahead
<1>2. (Whole => Whole') /\ (~Unbroken => (~Unbroken)')
  BY DEF Whole, Unbroken
<1>3. CASE ~Unbroken
  <2>1. ~Unbroken => NoMutationRepeats
    BY DEF NoMutationRepeats
  <2> QED BY <1>2, <1>3, <2>1, PTL
<1>4. CASE Unbroken
  <2>1. "queue" \notin Faults => Steady /\ Whole
    BY <1>4 DEF Unbroken, Steady, Orderly, Calm, Whole
  <2> QED BY <1>1, <1>2, <2>1, SteadyHolds, PTL
<1> QED BY <1>3, <1>4
-----------------------------------------------------------------------------
(***************************************************************************)
(* Jobs, where their locks are kept.                                       *)
(***************************************************************************)
Smooth == Steady /\ "stall" \notin Faults

MaxOf(q) == IF q = "publication" THEN Attempts ELSE Reads

\* A waiting job has an attempt left, and an active one a run.
Held ==
  \A q \in Queue, r \in Request :
    /\ job[q][r].state = "waiting" => job[q][r].made \in Nat /\ job[q][r].made < MaxOf(q)
    /\ job[q][r].state = "active" =>
         /\ job[q][r].owner \in Worker /\ QueueOf(job[q][r].owner) = q
         /\ run[job[q][r].owner].pc # "idle" /\ run[job[q][r].owner].req = r

\* A run is one of the attempts of its job, and is retried only while one is left.
Left ==
  \A w \in Worker : run[w].pc # "idle" =>
    /\ run[w].attempt < MaxAttempts(w)
    /\ run[w].pc = "fail" /\ run[w].event = "retry_pending" => MayRetry(w)
    /\ run[w].pc = "schedule" => w \in PublicationWorker

\* A publication job is done when the request has ended or its reconciliation has a job;
\* a reconciliation job is done when the request has ended.
Over ==
  /\ \A r \in Activation : job["publication"][r].state = "done" =>
       Finished(r) \/ job["reconciliation"][r].state # "none"
  /\ \A r \in Request : job["reconciliation"][r].state = "done" => Finished(r)

LEMMA MaxIs == \A w \in Worker : MaxAttempts(w) = MaxOf(QueueOf(w)) /\ MaxOf(QueueOf(w)) \in Nat \ {0}
BY PublicationAssumption DEF MaxAttempts, MaxOf, QueueOf

LEMMA RetryLeft ==
  ASSUME TypeOK, Left, NEW w \in Worker, run[w].pc # "idle", MayRetry(w), Throw(w)
  PROVE  (job' = job /\ run'[w].pc = "exhausted") \/ (JobFails(w) /\ run[w].attempt + 1 < MaxAttempts(w))
<1>1. run[w].attempt \in Nat /\ run[w].attempt < MaxAttempts(w)
  BY RunRows DEF RunRow, Left
<1>2. CASE LastRead(w)
  <2>1. GoTo(w, "exhausted") /\ job' = job
    BY <1>2 DEF Throw, GoTo
  <2> QED BY <2>1, GoToIs
<1>3. CASE ~LastRead(w)
  <2>1. run[w].attempt + 1 < MaxAttempts(w)
    BY <1>1, <1>3, PublicationAssumption DEF LastRead, MayRetry, MaxAttempts, Worker
  <2> QED BY <1>3, <2>1 DEF Throw
<1> QED BY <1>2, <1>3

\* How a run ends: with the request, with another attempt left, or by handing over.
LEMMA Ending ==
  ASSUME Steady, IInv, Left, NEW w \in Worker,
         NEW r \in Request, r = run[w].req, TakeLease(w) \/ Work(w) \/ Break(w)
  PROVE  \/ job' = job /\ run'[w].pc # "idle"
         \/ Finished(r)' /\ Return(w)
         \/ JobFails(w) /\ run[w].attempt + 1 < MaxAttempts(w)
         \/ Schedule(w)
<1> DEFINE Goal == \/ job' = job /\ run'[w].pc # "idle"
                   \/ Finished(r)' /\ Return(w)
                   \/ JobFails(w) /\ run[w].attempt + 1 < MaxAttempts(w)
                   \/ Schedule(w)
<1>1. TypeOK /\ run[w].pc # "idle"
  BY NotIdle DEF IInv
<1>4. ASSUME Throw(w), MayRetry(w) PROVE Goal
  <2>1. (job' = job /\ run'[w].pc = "exhausted") \/ (JobFails(w) /\ run[w].attempt + 1 < MaxAttempts(w))
    BY <1>1, <1>4, RetryLeft
  <2> QED BY <2>1
<1>5. CASE ClaimNothing(w)
  BY <1>5 DEF ClaimNothing, Finished
<1>6. CASE RefuseClaim(w)
  BY <1>6, RefusalIs, FinishesBy DEF RefuseClaim, Terminal
<1>7. CASE RecordMutation(w) /\ run[w].step = "create"
  <2>1. Writes(w, "draft_created") /\ Return(w)
    BY <1>7 DEF RecordMutation, ResultOf
  <2>2. CASE Finished(r)
    BY <2>1, <2>2 DEF Writes, Finished
  <2>3. CASE ~Finished(r)
    BY <2>1, <2>3, FinishesBy DEF Writes, Terminal
  <2> QED BY <2>2, <2>3
<1>8. CASE RecordMutation(w) /\ run[w].step # "create"
  BY <1>1, <1>8, NextMutationIs
<1>9. CASE RecordStatus(w)
  <2>1. PICK s \in Readings(run[w].req) :
           /\ Writes(w, s)
           /\ \/ s # "sync_pending" /\ Return(w)
              \/ s = "sync_pending" /\ MayRetry(w) /\ Throw(w)
              \/ s = "sync_pending" /\ ~MayRetry(w) /\ GoTo(w, "schedule") /\ UNCHANGED <<claimed, lease, job>>
    BY <1>9, RecordStatusIs
  <2>2. CASE s # "sync_pending" /\ Return(w)
    <3>1. s \in Terminal
      BY <2>2, ReadingsAre DEF Terminal
    <3>2. CASE Finished(r)
      BY <2>1, <2>2, <3>2 DEF Writes, Finished
    <3>3. CASE ~Finished(r)
      BY <2>1, <2>2, <3>1, <3>3, FinishesBy DEF Writes
    <3> QED BY <3>2, <3>3
  <2>3. CASE GoTo(w, "schedule") /\ UNCHANGED <<claimed, lease, job>>
    BY <1>1, <2>3, GoToIs
  <2> QED BY <1>4, <2>1, <2>2, <2>3
<1>10. CASE Fail(w)
  <2>1. CASE run[w].event = "retry_pending"
    BY <1>1, <1>4, <1>10, <2>1 DEF Fail, Left
  <2>2. CASE run[w].event # "retry_pending"
    <3>1. (IF run[w].event = "unauthorized" THEN "failed" ELSE run[w].event) \in Terminal
      BY <1>10, <2>2, FailEvent DEF Fail, Failure, Terminal
    <3> QED BY <1>10, <2>2, <3>1, FinishesBy DEF Fail
  <2> QED BY <2>1, <2>2
<1>11. CASE Exhaust(w)
  BY <1>11, FinishesBy DEF Exhaust, Terminal
<1>12. CASE Abandons(w)
  BY <1>1, <1>12, AbandonIs, GoFailIs
<1>13. CASE LoseReply(w)
  <2>1. job' = job /\ \E e : GoFail(w, e)
    BY <1>13 DEF LoseReply
  <2> QED BY <1>1, <2>1, GoFailIs
<1>14. CASE TakeLease(w) \/ ReadStatus(w)
  <2>1. job' = job /\ (GoTo(w, "claim") \/ GoTo(w, "record"))
    BY <1>14 DEF TakeLease, ReadStatus, GoTo
  <2> QED BY <1>1, <2>1, GoToIs
<1>15. CASE Guard(w)
  BY <1>1, <1>15, GoToIs, GoFailIs DEF Guard
<1>16. CASE Claim(w) \/ Mutate(w)
  BY <1>1, <1>16, ClaimIs, MutateIs DEF Claim, Mutate
<1>17. ~FailBreaks(w) /\ ~Crash(w) /\ ~ClaimBreaks(w) /\ ~ExhaustBreaks(w)
  BY DEF Steady, FailBreaks, Crash, ClaimBreaks, ExhaustBreaks, Fault
<1> QED BY <1>5, <1>6, <1>7, <1>8, <1>9, <1>10, <1>11, <1>12, <1>13, <1>14, <1>15, <1>16, <1>17 DEF Work, Break, Abandons

\* What a step of a worker does to the jobs when its run owns its own.
LEMMA OwnJob ==
  ASSUME Steady, IInv, Left, Owned, NEW w \in Worker, NEW r \in Request, r = run[w].req,
         TakeLease(w) \/ Work(w) \/ Break(w), ~Schedule(w)
  PROVE  /\ \A q \in Queue, u \in Request : q # QueueOf(w) \/ u # r => job'[q][u] = job[q][u]
         /\ \/ run'[w].pc # "idle" /\ job' = job
            \/ run'[w].pc = "idle" /\ Finished(r)' /\ job'[QueueOf(w)][r].state = "done"
            \/ /\ run'[w].pc = "idle" /\ job'[QueueOf(w)][r].state = "waiting"
               /\ job'[QueueOf(w)][r].made = run[w].attempt + 1 /\ run[w].attempt + 1 < MaxAttempts(w)
<1>1. TypeOK /\ run[w].pc # "idle"
  BY NotIdle DEF IInv
<1>2. run[w] \in RunRow /\ JobOf(w) \in JobRow /\ JobOf(w).owner = w
  BY <1>1, RunRows DEF Owned
<1>3. CASE job' = job /\ run'[w].pc # "idle"
  BY <1>3
<1>4. CASE Finished(r)' /\ Return(w)
  <2> DEFINE j == [JobOf(w) EXCEPT !.state = "done"]
  <2>1. j \in JobRow /\ j.state = "done" /\ JobEnds(w, j)
    BY <1>2, <1>4 DEF JobRow, Return
  <2> HIDE DEF j
  <2>2. /\ \A q \in Queue, u \in Request : q # QueueOf(w) \/ u # r => job'[q][u] = job[q][u]
        /\ job'[QueueOf(w)][r].state = "done"
    BY <1>1, <1>2, <2>1, JobEndsIs DEF Becomes
  <2> QED BY <1>1, <1>4, <2>2, EndsIs DEF Return
<1>5. CASE JobFails(w) /\ run[w].attempt + 1 < MaxAttempts(w)
  <2> DEFINE j == [JobOf(w) EXCEPT !.made = run[w].attempt + 1, !.state = "waiting"]
  <2>1. j \in JobRow /\ j.state = "waiting" /\ j.made = run[w].attempt + 1
    <3>1. run[w].attempt + 1 \in Nat
      BY <1>2 DEF RunRow
    <3>2. j \in JobRow
      BY <1>2, <3>1, JobEdit
    <3>3. DOMAIN JobOf(w) = {"state", "made", "stalled", "owner"}
      BY <1>2 DEF JobRow
    <3> QED BY <3>2, <3>3
  <2>2. JobEnds(w, j)
    <3> DEFINE k == [JobOf(w) EXCEPT !.made = run[w].attempt + 1,
                       !.state = IF run[w].attempt + 1 < MaxAttempts(w) THEN "waiting" ELSE "done"]
    <3>1. k = j
      BY <1>5
    <3>2. JobEnds(w, k)
      BY <1>5 DEF JobFails
    <3> HIDE DEF k, j
    <3> QED BY <3>1, <3>2
  <2> HIDE DEF j
  <2>3. /\ \A q \in Queue, u \in Request : q # QueueOf(w) \/ u # r => job'[q][u] = job[q][u]
        /\ job'[QueueOf(w)][r].state = "waiting" /\ job'[QueueOf(w)][r].made = run[w].attempt + 1
    BY <1>1, <1>2, <2>1, <2>2, JobEndsIs DEF Becomes
  <2> QED BY <1>1, <1>5, <2>3, EndsIs DEF JobFails
<1> QED BY <1>3, <1>4, <1>5, Ending

\* A schedule ends the job of the polling, and leaves one for the reconciliation.
LEMMA ScheduledJobs ==
  ASSUME IInv, Left, Owned, NEW w \in Worker, NEW r \in Request, r = run[w].req, Schedule(w)
  PROVE  /\ run'[w].pc = "idle" /\ OthersStay(w) /\ QueueOf(w) = "publication"
         /\ \A q \in Queue, u \in Request : u # r => job'[q][u] = job[q][u]
         /\ job'["publication"][r].state = "done"
         /\ \/ job'["reconciliation"][r] = job["reconciliation"][r] /\ job["reconciliation"][r].state # "none"
            \/ job'["reconciliation"][r].state = "waiting" /\ job'["reconciliation"][r].made = 0
<1>1. TypeOK /\ run[w].pc = "schedule" /\ w \in PublicationWorker
  BY DEF IInv, Schedule, Left
<1>2. QueueOf(w) = "publication" /\ JobOf(w) \in JobRow /\ JobOf(w).owner = w /\ JobOf(w) = job["publication"][r]
  BY <1>1, RunRows DEF QueueOf, Owned
<1>3. CASE job["reconciliation"][r].state = "none"
  BY <1>2, <1>3, ScheduleIs DEF Becomes
<1>4. CASE job["reconciliation"][r].state # "none"
  <2> DEFINE j == [JobOf(w) EXCEPT !.state = "done"]
  <2>1. j \in JobRow /\ j.state = "done" /\ JobEnds(w, j)
    BY <1>2, <1>4, ScheduleIs DEF JobRow
  <2> HIDE DEF j
  <2>2. /\ \A q \in Queue, u \in Request : q # "publication" \/ u # r => job'[q][u] = job[q][u]
        /\ job'["publication"][r].state = "done"
    BY <1>1, <1>2, <2>1, JobEndsIs DEF Becomes
  <2> QED BY <1>2, <1>4, <2>2, ScheduleIs DEF Queue
<1> QED BY <1>3, <1>4

\* What the API and the queue do to a job: it is added, removed, forgotten or left alone.
LEMMA OuterJob ==
  ASSUME Smooth, TypeOK, Held, NEW q \in Queue, NEW r \in Request,
         (\E c \in Client : Api(c)) \/ (\E p \in Queue, u \in Request : Redeliver(p, u) \/ Stall(p, u) \/ Evict(p, u))
         \/ LoseLease \/ (\E g \in Grounds : ChangeGrounds(g)) \/ UNCHANGED vars
  PROVE  \/ job'[q][r] = job[q][r]
         \/ q = "publication" /\ job'[q][r].state = "waiting" /\ job'[q][r].made = 0
         \/ job'[q][r].state = "none" /\ (q = "publication" \/ job[q][r].state = "done")
<1>1. job \in [Queue -> [Request -> JobRow]] /\ "publication" \in Queue /\ NoJob.state = "none" /\ NoJob.made = 0
  BY DEF TypeOK, Queue, NoJob
<1>2. [NoJob EXCEPT !.state = "waiting"].state = "waiting" /\ [NoJob EXCEPT !.state = "waiting"].made = 0
  BY DEF NoJob
<1>3. ASSUME NEW c \in Client, Enqueue(c)
      PROVE  job'[q][r] = job[q][r] \/ (q = "publication" /\ job'[q][r].state = "waiting" /\ job'[q][r].made = 0)
  <2>1. PICK u \in Request : u = client[c].req
    BY <1>3, ClientRows DEF Enqueue
  <2> DEFINE x == [NoJob EXCEPT !.state = "waiting"]
             y == IF job["publication"][u].state = "none" THEN x ELSE job["publication"][u]
  <2>2. job' = [job EXCEPT !["publication"][u] = y]
    BY <1>3, <2>1 DEF Enqueue, Add
  <2>3. y = x \/ y = job["publication"][u]
    OBVIOUS
  <2>4. x.state = "waiting" /\ x.made = 0
    BY <1>2
  <2> HIDE DEF x, y
  <2> QED BY <1>1, <2>2, <2>3, <2>4
<1>4. ASSUME NEW c \in Client, RemoveJob(c)
      PROVE  job'[q][r] = job[q][r] \/ (q = "publication" /\ job'[q][r].state = "none")
  <2>1. PICK u \in Request : u = client[c].req
    BY <1>4, ClientRows DEF RemoveJob
  <2>2. job' = job \/ job' = [job EXCEPT !["publication"][u] = NoJob]
    BY <1>4, <2>1 DEF RemoveJob
  <2> QED BY <1>1, <2>2
<1>5. ASSUME NEW p \in Queue, NEW u \in Request, Evict(p, u)
      PROVE  job'[q][r] = job[q][r] \/ (job[q][r].state = "done" /\ job'[q][r].state = "none")
  BY <1>1, <1>5 DEF Evict
<1>6. \A p \in Queue, u \in Request : ~Redeliver(p, u) /\ ~Stall(p, u)
  BY DEF Held, Redeliver, Abandoned, Stall, Fault, Smooth
<1> QED BY <1>3, <1>4, <1>5, <1>6 DEF Api, Submit, Cancel, ReadLatest, QueueUnavailable, AppendRetryPending, Hangup,
     LoseLease, ChangeGrounds, vars

LEMMA HeldStep ==
  ASSUME Smooth, IInv, Left, Owned, Held, [Next]_vars
  PROVE  Held'
<1>0. TypeOK /\ IInv'
  BY Inductive DEF IInv
<1> SUFFICES ASSUME NEW q \in Queue, NEW r \in Request
             PROVE  /\ job'[q][r].state = "waiting" => job'[q][r].made \in Nat /\ job'[q][r].made < MaxOf(q)
                    /\ job'[q][r].state = "active" =>
                         /\ job'[q][r].owner \in Worker /\ QueueOf(job'[q][r].owner) = q
                         /\ run'[job'[q][r].owner].pc # "idle" /\ run'[job'[q][r].owner].req = r
  BY DEF Held, QueueOf, MaxOf
<1>1. ASSUME job'[q][r] = job[q][r], NEW w \in Worker, OthersStay(w),
             run'[w] = run[w] \/ run[w].pc = "idle" \/ (run'[w].pc # "idle" /\ run'[w].req = run[w].req)
                \/ q # QueueOf(w) \/ run[w].req # r
      PROVE  job'[q][r].state = "active" =>
                         /\ job'[q][r].owner \in Worker /\ QueueOf(job'[q][r].owner) = q
                         /\ run'[job'[q][r].owner].pc # "idle" /\ run'[job'[q][r].owner].req = r
  BY <1>1 DEF Held, OthersStay
<1>2. ASSUME NEW w \in Worker, TakeLease(w) \/ Work(w) \/ Break(w), ~Schedule(w)
      PROVE  /\ job'[q][r].state = "waiting" => job'[q][r].made \in Nat /\ job'[q][r].made < MaxOf(q)
             /\ job'[q][r].state = "active" =>
                  /\ job'[q][r].owner \in Worker /\ QueueOf(job'[q][r].owner) = q
                  /\ run'[job'[q][r].owner].pc # "idle" /\ run'[job'[q][r].owner].req = r
  <2>1. PICK u \in Request : u = run[w].req /\ run[w].attempt \in Nat
    BY <1>0, <1>2, RunRows, NotIdle DEF RunRow
  <2>2. OthersStay(w) /\ (run'[w].pc = "idle" \/ run'[w].req = run[w].req)
    BY <1>2, StepOf
  <2>3. /\ \A p \in Queue, v \in Request : p # QueueOf(w) \/ v # u => job'[p][v] = job[p][v]
        /\ \/ run'[w].pc # "idle" /\ job' = job
           \/ run'[w].pc = "idle" /\ job'[QueueOf(w)][u].state = "done"
           \/ /\ run'[w].pc = "idle" /\ job'[QueueOf(w)][u].state = "waiting"
              /\ job'[QueueOf(w)][u].made = run[w].attempt + 1 /\ run[w].attempt + 1 < MaxAttempts(w)
    BY <1>2, <2>1, OwnJob DEF Smooth
  <2>4. CASE q = QueueOf(w) /\ r = u /\ run'[w].pc = "idle"
    BY <2>1, <2>3, <2>4, MaxIs
  <2>5. CASE job'[q][r] = job[q][r] /\ (q # QueueOf(w) \/ r # u \/ run'[w].pc # "idle")
    BY <1>1, <2>1, <2>2, <2>5 DEF Held
  <2> QED BY <2>3, <2>4, <2>5
<1>3. ASSUME NEW w \in Worker, Schedule(w)
      PROVE  /\ job'[q][r].state = "waiting" => job'[q][r].made \in Nat /\ job'[q][r].made < MaxOf(q)
             /\ job'[q][r].state = "active" =>
                  /\ job'[q][r].owner \in Worker /\ QueueOf(job'[q][r].owner) = q
                  /\ run'[job'[q][r].owner].pc # "idle" /\ run'[job'[q][r].owner].req = r
  <2>1. run[w].pc # "idle"
    BY <1>3 DEF Schedule
  <2>2. PICK u \in Request : u = run[w].req
    BY <1>0, <2>1, RunRows
  <2>3. /\ OthersStay(w) /\ QueueOf(w) = "publication"
        /\ \A p \in Queue, v \in Request : v # u => job'[p][v] = job[p][v]
        /\ job'["publication"][u].state = "done"
        /\ \/ job'["reconciliation"][u] = job["reconciliation"][u]
           \/ job'["reconciliation"][u].state = "waiting" /\ job'["reconciliation"][u].made = 0
    BY <1>3, <2>2, ScheduledJobs
  <2>4. MaxOf("reconciliation") > 0
    BY PublicationAssumption DEF MaxOf
  <2>5. CASE job'[q][r] = job[q][r] /\ (q # "publication" \/ r # u)
    BY <1>1, <2>2, <2>3, <2>5 DEF Held
  <2>6. CASE r = u /\ q = "publication"
    BY <2>3, <2>6
  <2>7. CASE job'[q][r].state = "waiting" /\ job'[q][r].made = 0 /\ q = "reconciliation"
    BY <2>4, <2>7
  <2> QED BY <2>3, <2>5, <2>6, <2>7 DEF Queue
<1>4. ASSUME NEW w \in Worker, NEW u \in Request, Deliver(w, u)
      PROVE  /\ job'[q][r].state = "waiting" => job'[q][r].made \in Nat /\ job'[q][r].made < MaxOf(q)
             /\ job'[q][r].state = "active" =>
                  /\ job'[q][r].owner \in Worker /\ QueueOf(job'[q][r].owner) = q
                  /\ run'[job'[q][r].owner].pc # "idle" /\ run'[job'[q][r].owner].req = r
  <2>1. /\ OthersStay(w) /\ run[w].pc = "idle" /\ run'[w].pc = "lease" /\ run'[w].req = u
        /\ job'[QueueOf(w)][u].state = "active" /\ job'[QueueOf(w)][u].owner = w
        /\ \A p \in Queue, v \in Request : p # QueueOf(w) \/ v # u => job'[p][v] = job[p][v]
    BY <1>0, <1>4, DeliverIs DEF Becomes
  <2>2. CASE q = QueueOf(w) /\ r = u
    BY <2>1, <2>2
  <2>3. CASE job'[q][r] = job[q][r]
    BY <1>1, <2>1, <2>3 DEF Held
  <2> QED BY <2>1, <2>2, <2>3
<1>5. CASE (\E c \in Client : Api(c)) \/ (\E p \in Queue, u \in Request : Redeliver(p, u) \/ Stall(p, u) \/ Evict(p, u))
           \/ LoseLease \/ (\E g \in Grounds : ChangeGrounds(g)) \/ UNCHANGED vars
  <2>1. run' = run
    BY <1>5, RunsStand
  <2>2. MaxOf(q) > 0
    BY PublicationAssumption DEF MaxOf
  <2>3. \/ job'[q][r] = job[q][r]
        \/ job'[q][r].state = "waiting" /\ job'[q][r].made = 0
        \/ job'[q][r].state = "none"
    BY <1>0, <1>5, OuterJob
  <2> QED BY <2>1, <2>2, <2>3 DEF Held
<1> QED BY <1>2, <1>3, <1>4, <1>5 DEF Next

\* A run fails to be retried only while its job has an attempt left for it.
LEMMA FailsToRetry ==
  ASSUME Steady, IInv, NEW w \in Worker, TakeLease(w) \/ Work(w) \/ Break(w), run'[w].pc = "fail",
         run'[w].event = "retry_pending"
  PROVE  MayRetry(w)
<1>1. TypeOK /\ run[w].pc # "idle"
  BY NotIdle DEF IInv
<1>2. \A e : GoFail(w, e) => e = "retry_pending"
  BY <1>1, GoFailIs
<1>3. CASE Guard(w)
  BY <1>1, <1>2, <1>3, GoToIs DEF Guard
<1>4. CASE LoseReply(w) \/ Rejected(w) \/ MediaRefused(w) \/ RefuseRecord(w) \/ RateLimited(w) \/ ScheduleUnavailable(w)
  BY <1>2, <1>4 DEF LoseReply, Rejected, MediaRefused, RefuseRecord, RateLimited, ScheduleUnavailable, RetryOrFail
<1>5. ~Claim(w) /\ ~Mutate(w) /\ ~(RecordMutation(w) /\ run[w].step # "create")
  BY <1>1, ClaimIs, MutateIs, NextMutationIs
<1>6. ~ReadStatus(w) /\ ~TakeLease(w)
  <2>1. ReadStatus(w) \/ TakeLease(w) => GoTo(w, "record") \/ GoTo(w, "claim")
    BY DEF ReadStatus, TakeLease, GoTo
  <2> QED BY <1>1, <2>1, GoToIs
<1>7. ~Return(w) /\ ~Throw(w)
  BY <1>1, LeaveIs
<1>8. ~ClaimNothing(w) /\ ~RefuseClaim(w) /\ ~Fail(w) /\ ~Exhaust(w) /\ ~(RecordMutation(w) /\ run[w].step = "create")
  BY <1>7 DEF ClaimNothing, RefuseClaim, Fail, Exhaust, RecordMutation
<1>9. ~RecordStatus(w)
  BY <1>1, <1>7, RecordStatusIs, GoToIs
<1>10. ~Schedule(w)
  BY ScheduleIs
<1>11. ~RecordBreaks(w) /\ ~GuardBreaks(w) /\ ~FailBreaks(w) /\ ~Crash(w) /\ ~ClaimBreaks(w) /\ ~ExhaustBreaks(w)
  BY DEF Steady, RecordBreaks, GuardBreaks, FailBreaks, Crash, ClaimBreaks, ExhaustBreaks, Fault
<1> QED BY <1>3, <1>4, <1>5, <1>6, <1>8, <1>9, <1>10, <1>11 DEF Work, Break

\* Only the last attempt of a polling schedules a reconciliation; a reconciliation throws.
LEMMA Schedules ==
  ASSUME IInv, NEW w \in Worker, TakeLease(w) \/ Work(w) \/ Break(w), run'[w].pc = "schedule"
  PROVE  w \in PublicationWorker
<1>1. TypeOK /\ run[w].pc # "idle"
  BY NotIdle DEF IInv
<1>2. \A pc : GoTo(w, pc) => pc = "schedule"
  BY <1>1, GoToIs
<1>3. \A e : ~GoFail(w, e)
  BY <1>1, GoFailIs
<1>4. ~Return(w) /\ ~Throw(w)
  BY <1>1, LeaveIs
<1>5. CASE RecordStatus(w)
  BY <1>4, <1>5, RecordStatusIs DEF MayRetry, Worker
<1>6. ~Claim(w) /\ ~Mutate(w) /\ ~(RecordMutation(w) /\ run[w].step # "create")
  BY <1>1, ClaimIs, MutateIs, NextMutationIs
<1>7. ~ReadStatus(w) /\ ~TakeLease(w) /\ ~Guard(w) /\ ~LoseReply(w)
  <2>1. ReadStatus(w) \/ TakeLease(w) => GoTo(w, "record") \/ GoTo(w, "claim")
    BY DEF ReadStatus, TakeLease, GoTo
  <2>2. ~Guard(w) /\ ~LoseReply(w)
    BY <1>2, <1>3 DEF Guard, LoseReply
  <2> QED BY <1>2, <2>1, <2>2
<1>8. ~Abandons(w)
  BY <1>3, AbandonIs
<1>9. ~Schedule(w) /\ ~Crash(w) /\ ~ExhaustBreaks(w)
  BY <1>1, ScheduleIs, EndsIs DEF Crash, ExhaustBreaks, JobFails
<1>10. ~ClaimNothing(w) /\ ~RefuseClaim(w) /\ ~Fail(w) /\ ~Exhaust(w) /\ ~(RecordMutation(w) /\ run[w].step = "create")
       /\ ~ClaimBreaks(w) /\ ~FailBreaks(w)
  BY <1>4 DEF ClaimNothing, RefuseClaim, Fail, Exhaust, RecordMutation, ClaimBreaks, FailBreaks
<1> QED BY <1>5, <1>6, <1>7, <1>8, <1>9, <1>10 DEF Work, Break, Abandons

LEMMA LeftStep ==
  ASSUME Smooth, IInv, Left, Held, [Next]_vars
  PROVE  Left'
<1>0. TypeOK
  BY DEF IInv
<1> SUFFICES ASSUME NEW v \in Worker, run'[v].pc # "idle"
             PROVE  /\ run'[v].attempt < MaxAttempts(v)
                    /\ run'[v].pc = "fail" /\ run'[v].event = "retry_pending" => MayRetry(v)'
                    /\ run'[v].pc = "schedule" => v \in PublicationWorker
  BY DEF Left, MaxAttempts
<1>1. CASE run'[v] = run[v]
  BY <1>1 DEF Left, MayRetry
<1>2. CASE TakeLease(v) \/ Work(v) \/ Break(v)
  <2>1. run[v].pc # "idle" /\ run'[v].attempt = run[v].attempt
    BY <1>2, StepOf, NotIdle
  <2>2. run'[v].pc = "fail" /\ run'[v].event = "retry_pending" => MayRetry(v)
    BY <1>2, FailsToRetry DEF Smooth
  <2>3. MayRetry(v)' <=> MayRetry(v)
    BY <2>1 DEF MayRetry
  <2>4. run'[v].pc = "schedule" => v \in PublicationWorker
    BY <1>2, Schedules
  <2> QED BY <2>1, <2>2, <2>3, <2>4 DEF Left
<1>3. ASSUME NEW u \in Request, Deliver(v, u) PROVE run'[v].pc = "lease" /\ run'[v].attempt < MaxAttempts(v)
  <2>1. run'[v].pc = "lease" /\ run'[v].attempt = job[QueueOf(v)][u].made /\ job[QueueOf(v)][u].state = "waiting"
    BY <1>0, <1>3, DeliverIs
  <2> QED BY <2>1, Queues, MaxIs DEF Held
<1>4. ASSUME NEW w \in Worker, TakeLease(w) \/ Work(w) \/ Break(w), w # v PROVE run'[v] = run[v]
  BY <1>4, StepOf DEF OthersStay
<1>5. ASSUME NEW w \in Worker, NEW u \in Request, Deliver(w, u), w # v PROVE run'[v] = run[v]
  BY <1>0, <1>5, DeliverIs DEF OthersStay
<1> QED BY <1>1, <1>2, <1>3, <1>4, <1>5, RunsStand DEF Next

LEMMA OverStep ==
  ASSUME Smooth, IInv, NoneAppends, Left, Owned, Held, Over, [Next]_vars
  PROVE  Over'
<1>0. TypeOK /\ "publication" \in Queue /\ "reconciliation" \in Queue
  BY DEF IInv, Queue
<1>1. \A r \in Request : Finished(r) => Finished(r)'
  BY EndsAreFinal DEF Finished
\* A job that is done stays, or its request has ended.
<1>2. ASSUME NEW r \in Request, job["reconciliation"][r].state # "none"
      PROVE  job'["reconciliation"][r].state # "none" \/ Finished(r)'
  <2>1. CASE job'["reconciliation"][r] = job["reconciliation"][r]
    BY <1>2, <2>1
  <2>2. ASSUME NEW w \in Worker, TakeLease(w) \/ Work(w) \/ Break(w), ~Schedule(w)
        PROVE  job'["reconciliation"][r].state # "none"
    <3>1. PICK u \in Request : u = run[w].req
      BY <1>0, <2>2, RunRows, NotIdle
    <3> QED BY <1>0, <1>2, <2>2, <3>1, OwnJob DEF Smooth
  <2>3. ASSUME NEW w \in Worker, Schedule(w) PROVE job'["reconciliation"][r].state # "none"
    <3>1. PICK u \in Request : u = run[w].req
      BY <1>0, <2>3, RunRows DEF Schedule
    <3> QED BY <1>0, <1>2, <2>3, <3>1, ScheduledJobs
  <2>4. ASSUME NEW w \in Worker, NEW u \in Request, Deliver(w, u) PROVE job'["reconciliation"][r].state # "none"
    BY <1>0, <1>2, <2>4, DeliverIs DEF Becomes
  <2>5. CASE (\E c \in Client : Api(c)) \/ (\E p \in Queue, u \in Request : Redeliver(p, u) \/ Stall(p, u) \/ Evict(p, u))
           \/ LoseLease \/ (\E g \in Grounds : ChangeGrounds(g)) \/ UNCHANGED vars
    <3>1. \/ job'["reconciliation"][r] = job["reconciliation"][r]
          \/ job["reconciliation"][r].state = "done"
      BY <1>0, <2>5, OuterJob
    <3> QED BY <1>1, <1>2, <3>1 DEF Over
  <2> QED BY <2>1, <2>2, <2>3, <2>4, <2>5 DEF Next
\* A job is done by the run that ends it.
<1>3. ASSUME NEW q \in Queue, NEW r \in Request, job'[q][r].state = "done"
      PROVE  \/ job[q][r].state = "done"
             \/ Finished(r)'
             \/ q = "publication" /\ job'["reconciliation"][r].state # "none"
  <2>1. ASSUME NEW w \in Worker, TakeLease(w) \/ Work(w) \/ Break(w), ~Schedule(w)
        PROVE  job[q][r].state = "done" \/ Finished(r)'
    <3>1. PICK u \in Request : u = run[w].req
      BY <1>0, <2>1, RunRows, NotIdle
    <3>2. /\ \A p \in Queue, v \in Request : p # QueueOf(w) \/ v # u => job'[p][v] = job[p][v]
          /\ job' = job \/ Finished(u)' \/ job'[QueueOf(w)][u].state = "waiting"
      BY <2>1, <3>1, OwnJob DEF Smooth
    <3>3. CASE q = QueueOf(w) /\ r = u
      BY <1>3, <3>2, <3>3 DEF Finished
    <3>4. CASE q # QueueOf(w) \/ r # u
      BY <1>3, <3>2, <3>4
    <3> QED BY <3>3, <3>4
  <2>2. ASSUME NEW w \in Worker, Schedule(w)
        PROVE  job[q][r].state = "done" \/ (q = "publication" /\ job'["reconciliation"][r].state # "none")
    <3>1. PICK u \in Request : u = run[w].req
      BY <1>0, <2>2, RunRows DEF Schedule
    <3>2. /\ \A p \in Queue, v \in Request : v # u => job'[p][v] = job[p][v]
          /\ \/ job'["reconciliation"][u] = job["reconciliation"][u] /\ job["reconciliation"][u].state # "none"
             \/ job'["reconciliation"][u].state = "waiting"
      BY <2>2, <3>1, ScheduledJobs
    <3> QED BY <1>3, <3>2 DEF Queue
  <2>3. ASSUME NEW w \in Worker, NEW u \in Request, Deliver(w, u) PROVE job[q][r].state = "done"
    <3>1. /\ job'[QueueOf(w)][u].state = "active"
          /\ \A p \in Queue, v \in Request : p # QueueOf(w) \/ v # u => job'[p][v] = job[p][v]
      BY <1>0, <2>3, DeliverIs DEF Becomes
    <3> QED BY <1>3, <3>1
  <2>4. CASE (\E c \in Client : Api(c)) \/ (\E p \in Queue, u \in Request : Redeliver(p, u) \/ Stall(p, u) \/ Evict(p, u))
           \/ LoseLease \/ (\E g \in Grounds : ChangeGrounds(g)) \/ UNCHANGED vars
    <3>1. \/ job'[q][r] = job[q][r] \/ job'[q][r].state = "waiting" \/ job'[q][r].state = "none"
      BY <1>0, <2>4, OuterJob
    <3> QED BY <1>3, <3>1
  <2> QED BY <2>1, <2>2, <2>3, <2>4 DEF Next
<1>4. ASSUME NEW r \in Activation, job'["publication"][r].state = "done"
      PROVE  Finished(r)' \/ job'["reconciliation"][r].state # "none"
  <2>1. r \in Request
    BY DEF Request
  <2> QED BY <1>0, <1>1, <1>2, <1>3, <1>4, <2>1 DEF Over
<1>5. ASSUME NEW r \in Request, job'["reconciliation"][r].state = "done" PROVE Finished(r)'
  BY <1>0, <1>1, <1>3, <1>5 DEF Over
<1> QED BY <1>4, <1>5 DEF Over, Finished

\* When the polling of an activation the marketplace has accepted ends without an answer, a
\* reconciliation job goes on with it, whatever leases and replies are lost, rate limits
\* met and old jobs forgotten (scheduleReconciliation, retryPendingStatus).
THEOREM PublicationHandsOver ==
  /\ "queue" \notin Faults /\ "crash" \notin Faults /\ "database" \notin Faults /\ "stall" \notin Faults
  /\ Spec
  => []HandedOver
<1>1. Init => Left /\ Owned /\ Held /\ Over
  BY DEF Init, Idle, NoJob, Left, Owned, Held, Over, Queue, Request
<1>2. "stall" \notin Faults /\ IInv /\ Owned /\ [Next]_vars => Owned'
  BY OwnedStep
<1>3. Smooth /\ IInv /\ Left /\ Owned /\ Held /\ [Next]_vars => Held'
  BY HeldStep
<1>4. Smooth /\ IInv /\ Left /\ Held /\ [Next]_vars => Left'
  BY LeftStep
<1>5. Smooth /\ IInv /\ NoneAppends /\ Left /\ Owned /\ Held /\ Over /\ [Next]_vars => Over'
  BY OverStep
<1>6. (Smooth => Smooth') /\ (Smooth => Steady /\ "stall" \notin Faults)
  BY DEF Smooth, Steady, Orderly, Calm
<1>7. Over => HandedOver
  BY DEF Over, HandedOver, Finished, Terminal
<1>8. Smooth /\ Spec => []HandedOver
  BY <1>1, <1>2, <1>3, <1>4, <1>5, <1>6, <1>7, SteadyHolds, PTL DEF Spec
<1> QED BY <1>8 DEF Smooth, Steady, Orderly, Calm
-----------------------------------------------------------------------------
(***************************************************************************)
(* Every step is one the promise allows.                                   *)
(***************************************************************************)
\* Whatever a call, a job or a run is about has been admitted.
Known ==
  /\ \A c \in Client : client[c].pc # "idle" => status[client[c].req] # "absent"
  /\ \A q \in Queue, r \in Request : job[q][r].state # "none" => status[r] # "absent"
  /\ \A w \in Worker : run[w].pc # "idle" => status[run[w].req] # "absent"

Open(r) == status[r] \in Waiting \cup Begun

\* The events, each with what it follows.
Follows(r, s) ==
  \/ status[r] = "absent" /\ s \in Waiting /\ (r \in Activation => status[DraftOf[r]] = "draft_created")
  \/ status[r] \in Waiting /\ s = "cancelled"
  \/ Open(r) /\ s \in {"processing", "failed", "reconciliation_required", "published", "deactivated"}
  \/ /\ Open(r) /\ s = "retry_pending"
     /\ \E w \in Worker : run[w].pc = "fail" /\ run[w].event = "retry_pending" /\ run[w].req = r
  \/ status[r] \in Begun /\ s = "sync_pending" /\ r \in Activation /\ progress[r] \in Answered
  \/ \E w \in Worker : /\ run[w].pc = "record" /\ run[w].step # "status" /\ run[w].req = r
                       /\ status[r] \in Begun /\ s = ResultOf[run[w].step]

Tells == UNCHANGED <<status, progress>> \/ (sent' = sent /\ \E r \in Request, s \in Status : Append(r, s) /\ Follows(r, s))

LEMMA OpenIs == ASSUME IInv, NEW r \in Request, status[r] # "absent", ~Finished(r) PROVE Open(r)
BY DEF IInv, TypeOK, Status, Finished, Open, Begun

LEMMA WorkMoves ==
  ASSUME IInv, Core, Known, NEW w \in Worker, TakeLease(w) \/ Work(w) \/ Break(w)
  PROVE  Tells
<1>1. TypeOK /\ run[w].pc # "idle"
  BY NotIdle DEF IInv
<1>2. PICK r \in Request : r = run[w].req /\ status[r] # "absent"
  BY <1>1, RunRows DEF Known
<1>3. ~Finished(r) => Open(r)
  BY <1>2, OpenIs
<1>4. ASSUME Append(r, "failed") \/ Append(r, "reconciliation_required") \/ Append(r, "processing"), ~Finished(r), sent' = sent
      PROVE  Tells
  <2>1. {"failed", "reconciliation_required", "processing"} \subseteq Status
    BY DEF Status, Terminal
  <2> QED BY <1>3, <1>4, <2>1 DEF Follows, Tells
<1>5. CASE Claim(w)
  BY <1>2, <1>4, <1>5 DEF Claim
<1>6. CASE RefuseClaim(w)
  BY <1>2, <1>4, <1>6, RefusalIs DEF RefuseClaim
<1>7. CASE RecordMutation(w)
  <2>1. run[w].pc = "record" /\ run[w].step # "status" /\ Writes(w, ResultOf[run[w].step]) /\ sent' = sent
    BY <1>7 DEF RecordMutation
  <2>2. status[r] \in Begun /\ ResultOf[run[w].step] \in Status
    BY <1>2, <2>1, Steps DEF Core, Placed, Mutating, Stepping, Status, Terminal
  <2>3. UNCHANGED <<status, progress>> \/ Append(r, ResultOf[run[w].step])
    BY <1>2, <2>1 DEF Writes
  <2>4. Follows(r, ResultOf[run[w].step])
    BY <1>2, <2>1, <2>2 DEF Follows
  <2> QED BY <2>1, <2>2, <2>3, <2>4 DEF Tells
<1>8. CASE RecordStatus(w)
  <2>1. sent' = sent /\ \E s \in Readings(r) : Writes(w, s)
    BY <1>2, <1>8 DEF RecordStatus
  <2>2. PICK s \in {"sync_pending", "published", "deactivated"} : Writes(w, s) /\ s \in Status
    BY <2>1, ReadingsAre, Statuses
  <2>3. CASE Finished(r)
    BY <1>2, <2>2, <2>3 DEF Writes, Tells, Finished
  <2>4. CASE ~Finished(r) /\ s # "sync_pending"
    BY <1>2, <1>3, <2>1, <2>2, <2>4 DEF Writes, Tells, Finished, Follows
  <2>5. CASE ~Finished(r) /\ s = "sync_pending"
    <3>1. Append(r, s) /\ MayRecord(w, s)
      BY <1>2, <2>2, <2>5 DEF Writes
    <3>2. r \in Activation /\ progress[r] \in Answered
      <4>1. Accepted(r)
        BY <1>2, <1>8 DEF Core, Placed, RecordStatus, Stepping
      <4> QED BY <2>5, <4>1 DEF Accepted
    <3>3. OwnStatusRead(w, s)
      BY <1>2, <2>5, <3>1, <3>2 DEF MayRecord, SafeRead, Answered
    <3>4. status[r] \in Begun
      BY <1>2, <3>3 DEF OwnStatusRead, Begun
    <3> QED BY <2>1, <2>2, <2>5, <3>1, <3>2, <3>4 DEF Tells, Follows
  <2> QED BY <2>3, <2>4, <2>5
<1>9. CASE Fail(w)
  <2> DEFINE e == IF run[w].event = "unauthorized" THEN "failed" ELSE run[w].event
  <2>1. run[w].pc = "fail" /\ sent' = sent /\ AppendUnlessTerminal(r, e)
    BY <1>2, <1>9 DEF Fail
  <2>2. e \in Failure /\ (e = "retry_pending" => run[w].event = "retry_pending")
    BY <2>1, FailStatus
  <2>3. e \in Status
    BY <2>2, Statuses
  <2> HIDE DEF e
  <2>4. CASE Finished(r)
    BY <2>1, <2>4 DEF AppendUnlessTerminal, Finished, Tells
  <2>5. CASE ~Finished(r) /\ e = "retry_pending"
    BY <1>2, <1>3, <2>1, <2>2, <2>3, <2>5 DEF AppendUnlessTerminal, Finished, Tells, Follows
  <2>6. CASE ~Finished(r) /\ e # "retry_pending"
    BY <1>4, <2>1, <2>2, <2>6 DEF AppendUnlessTerminal, Finished, Failure
  <2> QED BY <2>4, <2>5, <2>6
<1>10. CASE Exhaust(w)
  BY <1>2, <1>4, <1>10 DEF Exhaust, AppendUnlessTerminal, Finished, Tells
<1> QED BY <1>5, <1>6, <1>7, <1>8, <1>9, <1>10, Silent DEF Work, Break, Tells

LEMMA EachMoves == ASSUME IInv, NoneAppends, Core, Known, [Next]_vars PROVE Tells
<1>1. ASSUME NEW c \in Client, NEW r \in Request, Submit(c, r) PROVE Tells
  <2>1. {"scheduled", "queued"} \subseteq Waiting /\ Waiting \subseteq Status
    BY DEF Waiting, Status
  <2>2. UNCHANGED <<status, progress>>
        \/ (/\ status[r] = "absent" /\ (r \in Activation => status[DraftOf[r]] = "draft_created")
            /\ \E s \in {"scheduled", "queued"} : Append(r, s))
    BY <1>1 DEF Submit
  <2>3. sent' = sent
    BY <1>1 DEF Submit
  <2> QED BY <2>1, <2>2, <2>3 DEF Tells, Follows
<1>2. ASSUME NEW c \in Client, NEW r \in Request, Cancel(c, r) PROVE Tells
  <2>1. "cancelled" \in Status
    BY DEF Status, Terminal
  <2> QED BY <1>2, <2>1 DEF Cancel, Cancellable, Tells, Follows
<1>3. ASSUME NEW c \in Client, Api(c) PROVE Tells
  BY <1>1, <1>2, <1>3 DEF Api, ReadLatest, Enqueue, QueueUnavailable, AppendRetryPending, RemoveJob, Hangup, rows,
     NoneAppends, Tells
<1> QED BY <1>3, WorkMoves DEF Next, Deliver, Redeliver, Stall, Evict, LoseLease, ChangeGrounds, rows, vars, Tells

LEMMA StaysKnown ==
  ASSUME IInv, NoneAppends, Core, Known, [Next]_vars, NEW r \in Request, status[r] # "absent"
  PROVE  status'[r] # "absent"
<1>1. \A u \in Request : \A s : Follows(u, s) => s # "absent"
  <2>1. "absent" \notin Waiting
    BY DEF Waiting
  <2>2. \A w \in Worker : run[w].pc = "record" /\ run[w].step # "status" => ResultOf[run[w].step] # "absent"
    BY Steps DEF Progress
  <2> QED BY <2>1, <2>2 DEF Follows
<1> QED BY <1>1, EachMoves, AppendIs DEF Tells, IInv

LEMMA JobsKnown ==
  ASSUME IInv, Known, [Next]_vars, NEW q \in Queue, NEW r \in Request, job'[q][r].state # "none"
  PROVE  status[r] # "absent"
<1>0. TypeOK /\ "publication" \in Queue /\ NoJob.state = "none"
  BY DEF IInv, Queue, NoJob
<1>1. CASE job'[q][r] = job[q][r]
  BY <1>1 DEF Known
<1>2. ASSUME NEW w \in Worker, TakeLease(w) \/ Work(w) \/ Break(w) PROVE status[r] # "absent"
  <2>1. run[w].pc # "idle" /\ JobOf(w) \in JobRow
    BY <1>0, <1>2, NotIdle, RunRows
  <2>2. CASE r = run[w].req
    BY <2>1, <2>2 DEF Known
  <2>3. CASE r # run[w].req
    <3>1. ASSUME NEW j \in JobRow, JobEnds(w, j) PROVE job'[q][r] = job[q][r]
      BY <1>0, <2>1, <2>3, <3>1, JobEndsIs
    <3>2. [JobOf(w) EXCEPT !.state = "done"] \in JobRow
      BY <2>1 DEF JobRow
    <3>3. ASSUME Schedule(w) PROVE job'[q][r] = job[q][r]
      <4>1. CASE job["reconciliation"][run[w].req].state = "none"
        BY <2>3, <3>3, <4>1, ScheduleIs
      <4>2. CASE job["reconciliation"][run[w].req].state # "none"
        <5>1. JobEnds(w, [JobOf(w) EXCEPT !.state = "done"])
          BY <3>3, <4>2 DEF Schedule
        <5> QED BY <3>1, <3>2, <5>1
      <4> QED BY <4>1, <4>2
    <3> QED BY <1>1, <1>2, <3>1, <3>3, JobsOf
  <2> QED BY <2>2, <2>3
<1>3. ASSUME NEW w \in Worker, NEW u \in Request, Deliver(w, u) PROVE status[r] # "absent"
  BY <1>0, <1>1, <1>3, DeliverIs DEF Known
<1>4. ASSUME NEW p \in Queue, NEW u \in Request, Redeliver(p, u) \/ Stall(p, u) \/ Evict(p, u) PROVE status[r] # "absent"
  <2>1. job[p][u].state # "none"
    BY <1>4 DEF Redeliver, Abandoned, Stall, Evict
  <2>2. CASE p = q /\ u = r
    BY <2>1, <2>2 DEF Known
  <2>3. CASE p # q \/ u # r
    <3>1. job'[q][r] = job[q][r]
      <4>1. TakeBack(p, u) => job'[q][r] = job[q][r]
        BY <1>0, <2>3, TakeBackIs
      <4>2. Evict(p, u) => job'[q][r] = job[q][r]
        BY <1>0, <2>3 DEF TypeOK, Evict
      <4> QED BY <1>4, <4>1, <4>2 DEF Redeliver, Stall
    <3> QED BY <1>1, <3>1
  <2> QED BY <2>2, <2>3
<1>5. ASSUME NEW c \in Client, Enqueue(c) \/ RemoveJob(c) PROVE status[r] # "absent"
  <2>1. PICK u \in Request : u = client[c].req /\ status[u] # "absent"
    BY <1>0, <1>5, ClientRows DEF Enqueue, RemoveJob, Known
  <2>2. CASE u # r
    <3>1. job'[q][r] = job[q][r]
      <4>1. \A x : job' = [job EXCEPT !["publication"][u] = x] => job'[q][r] = job[q][r]
        BY <1>0, <2>2 DEF TypeOK
      <4> QED BY <1>5, <2>1, <4>1 DEF Enqueue, RemoveJob, Add
    <3> QED BY <1>1, <3>1
  <2> QED BY <2>1, <2>2
<1>6. ASSUME NEW c \in Client, Api(c) PROVE job' = job \/ Enqueue(c) \/ RemoveJob(c)
  BY <1>6 DEF Api, Submit, Cancel, ReadLatest, QueueUnavailable, AppendRetryPending, Hangup
<1>7. LoseLease \/ (\E g \in Grounds : ChangeGrounds(g)) \/ UNCHANGED vars => job' = job
  BY DEF LoseLease, ChangeGrounds, vars
<1> QED BY <1>1, <1>2, <1>3, <1>4, <1>5, <1>6, <1>7 DEF Next

\* What a call is about is admitted by the call, or was before it.
LEMMA CallsKnown ==
  ASSUME IInv, NoneAppends, Core, Known, [Next]_vars, NEW d \in Client, client'[d].pc # "idle"
  PROVE  status'[client'[d].req] # "absent"
<1>0. TypeOK /\ Idle.pc = "idle" /\ \A pc, r : Call(pc, r).req = r
  BY DEF IInv, Idle, Call
<1>1. ASSUME client'[d] = client[d] \/ (client[d].pc # "idle" /\ client'[d].req = client[d].req)
      PROVE  status'[client'[d].req] # "absent"
  <2>1. PICK u \in Request : u = client[d].req /\ status[u] # "absent" /\ client'[d].req = u
    BY <1>0, <1>1, ClientRows DEF Known
  <2>2. status'[u] # "absent"
    BY <2>1, StaysKnown
  <2> QED BY <2>1, <2>2
<1>2. ASSUME NEW c \in Client, Api(c), c = d PROVE status'[client'[d].req] # "absent"
  <2>1. ASSUME NEW r \in Request, Submit(c, r) PROVE status'[client'[d].req] # "absent"
    <3>1. client'[d] = Call("latest", r) /\ client'[d].req = r
      BY <1>0, <1>2, <2>1 DEF Submit, TypeOK
    <3>2. {"scheduled", "queued"} \subseteq Status \ {"absent"}
      BY DEF Waiting, Status
    <3>3. status'[r] # "absent"
      BY <1>0, <2>1, <3>2, AppendIs DEF Submit
    <3> QED BY <3>1, <3>3
  <2>2. ASSUME NEW r \in Request, Cancel(c, r) PROVE status'[client'[d].req] # "absent"
    <3>1. client'[d] = Call("remove", r) /\ client'[d].req = r
      BY <1>0, <1>2, <2>2 DEF Cancel, TypeOK
    <3>2. "cancelled" \in Status
      BY DEF Status, Terminal
    <3>3. status'[r] # "absent"
      BY <1>0, <2>2, <3>2, AppendIs DEF Cancel
    <3> QED BY <3>1, <3>3
  <2>3. CASE ReadLatest(c) \/ QueueUnavailable(c)
    <3>1. client[d].pc # "idle" /\ (client'[d] = Idle \/ client'[d] = Call("enqueue", client[c].req)
                                     \/ client'[d] = Call("append", client[c].req))
      BY <1>0, <1>2, <2>3 DEF ReadLatest, QueueUnavailable, TypeOK
    <3> QED BY <1>0, <1>1, <1>2, <3>1
  <2>4. CASE Enqueue(c) \/ AppendRetryPending(c) \/ RemoveJob(c) \/ Hangup(c)
    BY <1>0, <1>2, <2>4 DEF Enqueue, AppendRetryPending, RemoveJob, Hangup, TypeOK
  <2> QED BY <1>2, <2>1, <2>2, <2>3, <2>4 DEF Api
<1>3. ASSUME NEW c \in Client, Api(c), c # d PROVE client'[d] = client[d]
  BY <1>0, <1>3 DEF TypeOK, Api, Submit, Cancel, ReadLatest, Enqueue, QueueUnavailable, AppendRetryPending, RemoveJob, Hangup
<1>4. ASSUME NEW w \in Worker, TakeLease(w) \/ Work(w) \/ Break(w) PROVE client' = client
  BY <1>4 DEF TakeLease, Work, Break, Claim, ClaimNothing, RefuseClaim, Guard, Mutate, ReadStatus, RecordMutation,
     RecordStatus, RefuseRecord, Fail, Schedule, Exhaust, ClaimBreaks, GuardBreaks, LoseReply, RateLimited,
     Rejected, MediaRefused, RecordBreaks, FailBreaks, ScheduleUnavailable, ExhaustBreaks, Crash
<1> QED BY <1>1, <1>2, <1>3, <1>4 DEF Next, vars, Deliver, Redeliver, Stall, Evict, LoseLease, ChangeGrounds

LEMMA KnownStep == ASSUME IInv, NoneAppends, Core, Known, [Next]_vars PROVE Known'
<1>0. TypeOK
  BY DEF IInv
<1>1. ASSUME NEW v \in Worker, run'[v].pc # "idle" PROVE status'[run'[v].req] # "absent"
  <2>1. ASSUME run[v].pc # "idle", run'[v].req = run[v].req PROVE status'[run'[v].req] # "absent"
    <3>1. PICK u \in Request : u = run[v].req /\ status[u] # "absent"
      BY <1>0, <2>1, RunRows DEF Known
    <3>2. status'[u] # "absent"
      BY <3>1, StaysKnown
    <3> QED BY <2>1, <3>1, <3>2
  <2>2. CASE TakeLease(v) \/ Work(v) \/ Break(v)
    BY <1>1, <2>1, <2>2, StepOf, NotIdle
  <2>3. ASSUME NEW u \in Request, Deliver(v, u) PROVE status'[run'[v].req] # "absent"
    <3>1. run'[v].req = u /\ job[QueueOf(v)][u].state = "waiting"
      BY <1>0, <2>3, DeliverIs
    <3>2. status'[u] # "absent"
      BY <3>1, Queues, StaysKnown DEF Known
    <3> QED BY <3>1, <3>2
  <2>4. ASSUME NEW w \in Worker, w # v, (TakeLease(w) \/ Work(w) \/ Break(w)) \/ \E u \in Request : Deliver(w, u)
        PROVE  run'[v] = run[v]
    BY <1>0, <2>4, StepOf, DeliverIs DEF OthersStay
  <2> QED BY <1>1, <2>1, <2>2, <2>3, <2>4, RunsStand DEF Next
<1>2. ASSUME NEW q \in Queue, NEW r \in Request, job'[q][r].state # "none" PROVE status'[r] # "absent"
  BY <1>2, JobsKnown, StaysKnown
<1> QED BY <1>1, <1>2, CallsKnown DEF Known

\* What the promise sees of the rows and of the provider.
Phases == [r \in Request |-> PhaseOf(status[r])]
RecordedSteps == [r \in Request |-> Recorded(r)]
DoneParts == [r \in Request |-> {p \in Part : sent[r][p] > 0}]
Seen == <<Phases, RecordedSteps, DoneParts>>
PromiseStep == [Promise!Next]_(Promise!vars)

LEMMA PhaseIs ==
  /\ \A s \in Waiting : PhaseOf(s) = "waiting"
  /\ \A s \in Begun : PhaseOf(s) = "working"
  /\ \A s \in {"published", "deactivated", "reconciliation_required", "failed"} : PhaseOf(s) = "ended"
  /\ PhaseOf("draft_created") = "created" /\ PhaseOf("absent") = "absent" /\ PhaseOf("cancelled") = "cancelled"
BY DEF PhaseOf, Waiting, Begun, Progress

LEMMA SeenSame == ASSUME UNCHANGED Seen PROVE PromiseStep
BY DEF Seen, Phases, RecordedSteps, DoneParts, PromiseStep, Promise!vars

LEMMA Request_ == Promise!Request = Request /\ Promise!Part = Part
BY DEF Promise!Request, Request, Promise!Part, Part

\* A request that moves from one phase to another.
LEMMA PhaseMoves ==
  ASSUME NEW r \in Request, NEW x, Phases' = [Phases EXCEPT ![r] = x],
         UNCHANGED <<RecordedSteps, DoneParts>>,
         \/ Phases[r] = "absent" /\ x = "waiting" /\ (r \in Activation => Phases[DraftOf[r]] = "created")
         \/ Phases[r] = "waiting" /\ x \in {"working", "cancelled", "waiting"}
         \/ Phases[r] \in {"waiting", "working"} /\ x = "ended"
         \/ Phases[r] = "working" /\ x = "working"
         \/ Phases[r] = "working" /\ x = "waiting" /\ \A p \in DoneParts[r] : p[1] \in RecordedSteps[r]
  PROVE  PromiseStep
<1>1. CASE x = Phases[r]
  <2>1. Phases' = Phases
    BY <1>1 DEF Phases
  <2> QED BY <2>1, SeenSame DEF Seen
<1>2. CASE Phases[r] = "absent"
  BY <1>2, Request_ DEF PromiseStep, Promise!Next, Promise!Admit, Phases, RecordedSteps, DoneParts
<1>3. CASE Phases[r] = "waiting" /\ x = "working"
  BY <1>3, Request_ DEF PromiseStep, Promise!Next, Promise!Start, Phases, RecordedSteps, DoneParts
<1>4. CASE Phases[r] = "waiting" /\ x = "cancelled"
  BY <1>4, Request_ DEF PromiseStep, Promise!Next, Promise!Cancel, Phases, RecordedSteps, DoneParts
<1>5. CASE Phases[r] \in {"waiting", "working"} /\ x = "ended"
  BY <1>5, Request_ DEF PromiseStep, Promise!Next, Promise!End, Phases, RecordedSteps, DoneParts
<1>6. CASE Phases[r] = "working" /\ x = "waiting" /\ \A p \in DoneParts[r] : p[1] \in RecordedSteps[r]
  BY <1>6, Request_ DEF PromiseStep, Promise!Next, Promise!Pause, Phases, RecordedSteps, DoneParts
<1> QED BY <1>1, <1>2, <1>3, <1>4, <1>5, <1>6

\* A step that is recorded.
LEMMA StepRecorded ==
  ASSUME NEW r \in Request, NEW k \in Promise!StepsOf(r), k \notin RecordedSteps[r], Phases[r] = "working",
         Promise!PartsOf(k) \subseteq DoneParts[r],
         RecordedSteps' = [RecordedSteps EXCEPT ![r] = RecordedSteps[r] \cup {k}],
         Phases' = IF k = "create" THEN [Phases EXCEPT ![r] = "created"] ELSE Phases,
         DoneParts' = DoneParts
  PROVE  PromiseStep
<1>1. Promise!Record(r, k)
  BY DEF Promise!Record, Phases, RecordedSteps, DoneParts
<1> QED BY <1>1, Request_ DEF PromiseStep, Promise!Next

\* A provider request that takes effect.
LEMMA PartApplied ==
  ASSUME NEW r \in Request, NEW p \in Part, p[1] \in Promise!StepsOf(r), p \notin DoneParts[r], Phases[r] = "working",
         Promise!Before[p[1]] \subseteq RecordedSteps[r], p[1] \notin RecordedSteps[r],
         \A i \in 1..(p[2] - 1) : <<p[1], i>> \in DoneParts[r],
         DoneParts' = [DoneParts EXCEPT ![r] = DoneParts[r] \cup {p}],
         UNCHANGED <<Phases, RecordedSteps>>
  PROVE  PromiseStep
<1>1. Promise!Apply(r, p) /\ Promise!InOrder(r, p)
  BY DEF Promise!Apply, Promise!InOrder, Phases, RecordedSteps, DoneParts
<1> QED BY <1>1, Request_ DEF PromiseStep, Promise!Next

LEMMA EventSeen ==
  ASSUME TypeOK, NEW r \in Request, NEW s \in Status, Append(r, s), sent' = sent
  PROVE  /\ Phases' = [Phases EXCEPT ![r] = PhaseOf(s)] /\ DoneParts' = DoneParts
         /\ RecordedSteps' = [RecordedSteps EXCEPT ![r] = Recorded(r)']
<1>1. /\ status'[r] = s
      /\ \A u \in Request : u # r => status'[u] = status[u] /\ progress'[u] = progress[u]
  BY AppendIs
<1>2. Phases' = [Phases EXCEPT ![r] = PhaseOf(s)]
  BY <1>1 DEF Phases
<1>3. \A u \in Request : u # r => Recorded(u)' = Recorded(u)
  BY <1>1 DEF Recorded, StepsThrough
<1>4. RecordedSteps' = [RecordedSteps EXCEPT ![r] = Recorded(r)']
  BY <1>3 DEF RecordedSteps
<1> QED BY <1>2, <1>4 DEF DoneParts

\* An event that is no result leaves what is recorded alone.
LEMMA NothingRecorded ==
  ASSUME TypeOK, NEW r \in Request, NEW s \in Status, Append(r, s), sent' = sent,
         r \in Draft => s # "draft_created" /\ status[r] # "draft_created",
         r \in Activation => progress'[r] = progress[r]
  PROVE  RecordedSteps' = RecordedSteps
<1>1. status'[r] = s
  BY AppendIs
<1>2. Recorded(r)' = Recorded(r)
  <2>1. CASE r \in Draft
    BY <1>1, <2>1 DEF Recorded
  <2>2. CASE r \notin Draft
    BY <2>2 DEF Recorded, StepsThrough, Request
  <2> QED BY <2>1, <2>2
<1> QED BY <1>2, EventSeen DEF RecordedSteps

LEMMA Recordings ==
  /\ \A r \in Activation : progress[r] = "none" => Recorded(r) = {}
  /\ \A r \in Activation : progress[r] = "configuration_applied" => Recorded(r) = {"configure"}
  /\ \A r \in Activation : progress[r] = "media_uploaded" => Recorded(r) = {"configure", "upload"}
  /\ \A r \in Activation : progress[r] \in Answered => Recorded(r) = {"configure", "upload", "activate"}
<1>1. <<"configure", 1>> \in Part /\ <<"upload", 1>> \in Part /\ <<"activate", 1>> \in Part
  BY Parts, PublicationAssumption
<1>2. \A s : {p[1] : p \in StepsThrough(s)} \subseteq {"configure", "upload", "activate"}
  BY DEF StepsThrough
<1>3. \A s : /\ Rank[s] >= 1 => <<"configure", 1>> \in StepsThrough(s)
             /\ Rank[s] >= 2 => <<"upload", 1>> \in StepsThrough(s)
             /\ Rank[s] >= 3 => <<"activate", 1>> \in StepsThrough(s)
  BY <1>1 DEF StepsThrough
<1>4. \A s : /\ Rank[s] >= 1 => "configure" \in {p[1] : p \in StepsThrough(s)}
             /\ Rank[s] >= 2 => "upload" \in {p[1] : p \in StepsThrough(s)}
             /\ Rank[s] >= 3 => "activate" \in {p[1] : p \in StepsThrough(s)}
  BY <1>3
<1>5. \A s : /\ Rank[s] = 0 => {p[1] : p \in StepsThrough(s)} = {}
             /\ Rank[s] = 1 => {p[1] : p \in StepsThrough(s)} \subseteq {"configure"}
             /\ Rank[s] = 2 => {p[1] : p \in StepsThrough(s)} \subseteq {"configure", "upload"}
  BY DEF StepsThrough
<1>6. \A r \in Activation : Recorded(r) = {p[1] : p \in StepsThrough(progress[r])}
  BY PublicationAssumption DEF Recorded
<1>7. Rank["none"] = 0 /\ Rank["configuration_applied"] = 1 /\ Rank["media_uploaded"] = 2
  BY DEF Rank
<1>8. \A r \in Activation : progress[r] = "none" => Recorded(r) = {}
  BY <1>5, <1>6, <1>7
<1>9. \A r \in Activation : progress[r] = "configuration_applied" => Recorded(r) = {"configure"}
  BY <1>4, <1>5, <1>6, <1>7
<1>10. \A r \in Activation : progress[r] = "media_uploaded" => Recorded(r) = {"configure", "upload"}
  BY <1>4, <1>5, <1>6, <1>7
<1>11. \A r \in Activation : progress[r] \in Answered => Recorded(r) = {"configure", "upload", "activate"}
  <2>1. \A s \in Answered : Rank[s] >= 3
    BY Ranks
  <2>2. \A s \in Answered : Rank[s] >= 1 /\ Rank[s] >= 2
    BY DEF Rank, Answered
  <2> QED BY <1>2, <1>4, <1>6, <2>1, <2>2
<1> QED BY <1>8, <1>9, <1>10, <1>11

\* The same, one step later.
LEMMA RecordingsNext ==
  /\ \A r \in Activation : progress'[r] = "configuration_applied" => Recorded(r)' = {"configure"}
  /\ \A r \in Activation : progress'[r] = "media_uploaded" => Recorded(r)' = {"configure", "upload"}
  /\ \A r \in Activation : progress'[r] \in Answered => Recorded(r)' = {"configure", "upload", "activate"}
<1>1. (/\ \A r \in Activation : progress[r] = "configuration_applied" => Recorded(r) = {"configure"}
       /\ \A r \in Activation : progress[r] = "media_uploaded" => Recorded(r) = {"configure", "upload"}
       /\ \A r \in Activation : progress[r] \in Answered => Recorded(r) = {"configure", "upload", "activate"})'
  BY Recordings, PTL
<1> QED BY <1>1 DEF Answered

\* A run that fails to be retried leaves nothing half done at the provider.
LEMMA RetrySettled ==
  ASSUME Whole, IInv, Solo, Core, Ahead, NEW r \in Request, status[r] \in Begun,
         NEW w \in Worker, run[w].pc = "fail", run[w].event = "retry_pending", run[w].req = r
  PROVE  \A p \in DoneParts[r] : p[1] \in RecordedSteps[r]
<1> SUFFICES ASSUME NEW p \in Part, sent[r][p] > 0 PROVE p[1] \in Recorded(r)
  BY DEF DoneParts, RecordedSteps
<1>1. p[1] \in StepsOf(r) /\ Answerable(r, p) /\ p[1] # "status"
  BY NoPartIsARead DEF Ahead, Counted, Whole
<1>2. ~Finished(r)
  BY DEF Begun, Finished, Progress, Terminal
<1>3. CASE p \in StepsThrough(progress[r])
  <2>1. r \in Activation
    <3>1. r \in Draft => progress[r] = "none"
      BY DEF IInv
    <3> QED BY <1>3, <3>1 DEF StepsThrough, Rank, Request
  <2> QED BY <1>3, <2>1, PublicationAssumption DEF Recorded
<1>4. ASSUME NEW v \in PublicationWorker, run[v].pc # "idle", run[v].req = r, Covers(v, p) PROVE p[1] \in Recorded(r)
  <2>1. CASE w \in PublicationWorker
    <3>1. Past(v) /\ Past(w)
      BY <1>4 DEF Covers, Past, Stepping
    <3>2. v = w
      BY <1>4, <2>1, <3>1 DEF Solo
    <3> QED BY <1>4, <3>2 DEF Covers, Stepping
  <2>2. CASE w \in ReconciliationWorker
    <3>1. r \in Activation /\ progress[r] \in Answered
      BY <1>2, <2>2 DEF Core, Placed, Accepted
    <3>2. p[1] \in {"configure", "upload", "activate"}
      BY <1>1, <3>1, PublicationAssumption DEF StepsOf
    <3> QED BY <3>1, <3>2, Recordings
  <2> QED BY <2>1, <2>2 DEF Worker
<1> QED BY <1>1, <1>2, <1>3, <1>4 DEF Answerable

LEMMA ResultIsPromised ==
  ASSUME IInv, Core, NEW r \in Request, NEW w \in Worker, run[w].pc = "record", run[w].step # "status", run[w].req = r,
         status[r] \in Begun, Append(r, ResultOf[run[w].step]), sent' = sent
  PROVE  PromiseStep
<1>1. TypeOK /\ ResultOf[run[w].step] \in Status
  BY Steps DEF IInv, Status, Terminal
<1>2. Sound(run[w], sent) /\ run[w].step \in StepsOf(r) /\ progress[r] = Prior[run[w].step]
  BY DEF IInv, Sound, Core, Placed, Mutating, Stepping
<1>3. PICK k \in {"create", "configure", "upload", "activate"} : k = run[w].step
  BY <1>2 DEF StepsOf
<1>4. k \in Promise!StepsOf(r)
  BY <1>2, <1>3 DEF StepsOf, Promise!StepsOf
<1>5. Promise!PartsOf(k) \subseteq DoneParts[r]
  <2>1. \A p \in Part : p[1] = k => sent[r][p] > 0
    <3>1. \A p \in Part : p[1] = k => sent[r][p] >= 1
      BY <1>2, <1>3 DEF Sound, Stepping
    <3>2. \A p \in Part : sent[r][p] \in 0..2
      BY <1>1 DEF TypeOK
    <3> QED BY <3>1, <3>2
  <2>2. \A p \in Promise!PartsOf(k) : p \in Part /\ p[1] = k
    BY <1>3 DEF Promise!PartsOf, Promise!Images_, Part
  <2> QED BY <2>1, <2>2 DEF DoneParts
<1>6. Phases[r] = "working"
  BY PhaseIs DEF Phases
<1>7. /\ Phases' = [Phases EXCEPT ![r] = PhaseOf(ResultOf[k])] /\ DoneParts' = DoneParts
      /\ RecordedSteps' = [RecordedSteps EXCEPT ![r] = Recorded(r)']
      /\ status'[r] = ResultOf[k]
      /\ progress'[r] = IF ResultOf[k] \in Progress THEN ResultOf[k] ELSE progress[r]
  BY <1>1, <1>3, EventSeen, AppendIs
<1>8. CASE k = "create"
  <2>1. r \in Draft /\ ResultOf[k] = "draft_created"
    BY <1>2, <1>3, <1>8 DEF StepsOf, ResultOf
  <2>2. Recorded(r) = {} /\ Recorded(r)' = {"create"}
    BY <1>7, <2>1 DEF Recorded, Begun, Progress
  <2>3. RecordedSteps' = [RecordedSteps EXCEPT ![r] = RecordedSteps[r] \cup {k}] /\ k \notin RecordedSteps[r]
    BY <1>7, <1>8, <2>2 DEF RecordedSteps
  <2>4. Phases' = [Phases EXCEPT ![r] = "created"]
    BY <1>7, <2>1, PhaseIs
  <2> QED BY <1>4, <1>5, <1>6, <1>7, <1>8, <2>3, <2>4, StepRecorded
<1>9. CASE k # "create"
  <2>1. r \in Activation /\ ResultOf[k] \in Progress
    BY <1>3, <1>9, Steps
  <2>2. progress'[r] = ResultOf[k] /\ PhaseOf(ResultOf[k]) = "working"
    BY <1>7, <2>1, PhaseIs DEF Begun
  <2>3. Recorded(r)' = Recorded(r) \cup {k} /\ k \notin Recorded(r)
    <3>1. CASE k = "configure"
      BY <1>2, <1>3, <2>1, <2>2, <3>1, Recordings, RecordingsNext DEF Prior, ResultOf
    <3>2. CASE k = "upload"
      BY <1>2, <1>3, <2>1, <2>2, <3>2, Recordings, RecordingsNext DEF Prior, ResultOf
    <3>3. CASE k = "activate"
      BY <1>2, <1>3, <2>1, <2>2, <3>3, Recordings, RecordingsNext DEF Prior, ResultOf, Answered
    <3> QED BY <1>9, <3>1, <3>2, <3>3
  <2>4. RecordedSteps' = [RecordedSteps EXCEPT ![r] = RecordedSteps[r] \cup {k}] /\ k \notin RecordedSteps[r]
    BY <1>7, <2>3 DEF RecordedSteps
  <2>5. Phases' = Phases
    BY <1>6, <1>7, <2>2 DEF Phases
  <2> QED BY <1>4, <1>5, <1>6, <1>7, <1>9, <2>4, <2>5, StepRecorded
<1> QED BY <1>8, <1>9

LEMMA EventKeeps ==
  ASSUME Whole, IInv, Solo, Core, Ahead, NEW r \in Request, NEW s \in Status, Append(r, s), Follows(r, s), sent' = sent
  PROVE  PromiseStep
<1>0. TypeOK /\ Phases[r] = PhaseOf(status[r])
  BY DEF IInv, Phases
<1>1. Phases' = [Phases EXCEPT ![r] = PhaseOf(s)] /\ DoneParts' = DoneParts
  BY <1>0, EventSeen
<1>2. progress'[r] = IF s \in Progress THEN s ELSE progress[r]
  BY <1>0, AppendIs
<1>3. ASSUME s \notin Progress \cup {"draft_created"}, status[r] # "draft_created" PROVE RecordedSteps' = RecordedSteps
  BY <1>0, <1>2, <1>3, NothingRecorded
<1>4. "draft_created" \notin Waiting \cup Begun \cup {"absent"} /\ Waiting \cap Progress = {}
  BY DEF Waiting, Begun, Progress
<1>5. CASE status[r] = "absent" /\ s \in Waiting /\ (r \in Activation => status[DraftOf[r]] = "draft_created")
  <2>1. RecordedSteps' = RecordedSteps
    BY <1>3, <1>4, <1>5
  <2>2. r \in Activation => Phases[DraftOf[r]] = "created"
    BY <1>5, PhaseIs, PublicationAssumption DEF Phases, Request
  <2> QED BY <1>0, <1>1, <1>5, <2>1, <2>2, PhaseIs, PhaseMoves
<1>6. CASE status[r] \in Waiting /\ s = "cancelled"
  <2>1. RecordedSteps' = RecordedSteps
    BY <1>3, <1>4, <1>6 DEF Progress
  <2> QED BY <1>0, <1>1, <1>6, <2>1, PhaseIs, PhaseMoves
<1>7. CASE Open(r) /\ s \in {"processing", "failed", "reconciliation_required", "published", "deactivated"}
  <2>1. RecordedSteps' = RecordedSteps
    BY <1>3, <1>4, <1>7 DEF Progress, Open
  <2>2. Phases[r] \in {"waiting", "working"}
    BY <1>0, <1>7, PhaseIs DEF Open
  <2>3. PhaseOf(s) = "working" \/ PhaseOf(s) = "ended"
    BY <1>7, PhaseIs DEF Begun
  <2> QED BY <1>1, <2>1, <2>2, <2>3, PhaseMoves
<1>8. CASE /\ Open(r) /\ s = "retry_pending"
           /\ \E w \in Worker : run[w].pc = "fail" /\ run[w].event = "retry_pending" /\ run[w].req = r
  <2>1. RecordedSteps' = RecordedSteps
    BY <1>3, <1>4, <1>8 DEF Progress, Open
  <2>2. PhaseOf(s) = "waiting"
    BY <1>8, PhaseIs DEF Waiting
  <2>3. CASE status[r] \in Waiting
    BY <1>0, <1>1, <2>1, <2>2, <2>3, PhaseIs, PhaseMoves
  <2>4. CASE status[r] \in Begun
    <3>1. \A p \in DoneParts[r] : p[1] \in RecordedSteps[r]
      BY <1>8, <2>4, RetrySettled
    <3> QED BY <1>0, <1>1, <2>1, <2>2, <2>4, <3>1, PhaseIs, PhaseMoves
  <2> QED BY <1>8, <2>3, <2>4 DEF Open
<1>9. CASE status[r] \in Begun /\ s = "sync_pending" /\ r \in Activation /\ progress[r] \in Answered
  <2>1. progress'[r] \in Answered
    BY <1>2, <1>9 DEF Answered, Progress
  <2>2. Recorded(r)' = Recorded(r)
    BY <1>9, <2>1, Recordings, RecordingsNext
  <2>3. RecordedSteps' = RecordedSteps
    BY <1>0, <2>2, EventSeen DEF RecordedSteps
  <2>4. PhaseOf(s) = "working" /\ Phases[r] = "working"
    BY <1>0, <1>9, PhaseIs DEF Begun, Progress
  <2> QED BY <1>1, <2>3, <2>4, PhaseMoves
<1>10. CASE \E w \in Worker : /\ run[w].pc = "record" /\ run[w].step # "status" /\ run[w].req = r
                              /\ status[r] \in Begun /\ s = ResultOf[run[w].step]
  BY <1>10, ResultIsPromised
<1> QED BY <1>5, <1>6, <1>7, <1>8, <1>9, <1>10 DEF Follows

LEMMA ActsKeeps ==
  ASSUME Whole, IInv, Solo, Core, Ahead, [Next]_vars, sent' # sent
  PROVE  PromiseStep
<1>1. PICK w \in Worker :
        /\ Mutate(w) \/ LoseReply(w)
        /\ run[w].pc = "call" /\ run[w].step # "status" /\ run[w].req \in Request /\ PartOf(w) \in Part
        /\ sent[run[w].req][PartOf(w)] = 0 => sent'[run[w].req][PartOf(w)] = 1
        /\ \A r \in Request, p \in Part : r # run[w].req \/ p # PartOf(w) => sent'[r][p] = sent[r][p]
  BY SentBy
<1>2. PICK r \in Request, p \in Part : r = run[w].req /\ p = PartOf(w)
  BY <1>1
<1>3. UNCHANGED <<status, progress>>
  BY <1>1, Silent
<1>4. UNCHANGED <<Phases, RecordedSteps>>
  BY <1>3 DEF Phases, RecordedSteps, Recorded, StepsThrough
<1>5. sent[r][p] = 0 /\ sent'[r][p] = 1
  BY <1>1, <1>2, Untried DEF Counted, Whole
<1>6. /\ Sound(run[w], sent) /\ status[r] \in Begun /\ progress[r] = Prior[run[w].step]
      /\ run[w].step \in StepsOf(r) /\ run[w].image \in Nat /\ run[w].image >= 1 /\ run[w].image \in 1..Images
  <2>1. run[w] \in RunRow /\ Sound(run[w], sent)
    BY <1>1, RunRows DEF IInv
  <2>2. run[w].image \in 1..Images
    BY <2>1 DEF RunRow
  <2> QED BY <1>1, <1>2, <2>1, <2>2, PublicationAssumption DEF Sound, Stepping, Core, Placed, Mutating
<1>7. PICK k \in {"create", "configure", "upload", "activate"} : k = run[w].step
  BY <1>1, <1>6 DEF StepsOf
<1>8. p[1] = k /\ p[2] = run[w].image /\ k \in Promise!StepsOf(r)
  BY <1>2, <1>6, <1>7 DEF PartOf, StepsOf, Promise!StepsOf
<1>9. Phases[r] = "working" /\ RecordedSteps[r] = Recorded(r)
  BY <1>6, PhaseIs DEF Phases, RecordedSteps
<1>10. p \notin DoneParts[r]
  BY <1>5 DEF DoneParts
<1>11. DoneParts' = [DoneParts EXCEPT ![r] = DoneParts[r] \cup {p}]
  <2>1. \A u \in Request, q \in Part : u # r \/ q # p => sent'[u][q] = sent[u][q]
    BY <1>1, <1>2
  <2>2. \A u \in Request : u # r => {q \in Part : sent'[u][q] > 0} = {q \in Part : sent[u][q] > 0}
    BY <2>1
  <2>3. {q \in Part : sent'[r][q] > 0} = {q \in Part : sent[r][q] > 0} \cup {p}
    BY <1>5, <2>1
  <2> QED BY <2>2, <2>3 DEF DoneParts
<1>12. Promise!Before[k] \subseteq Recorded(r) /\ k \notin Recorded(r)
  <2>1. CASE k = "create"
    <3>1. r \in Draft /\ status[r] # "draft_created"
      BY <1>6, <1>7, <2>1 DEF StepsOf, Begun, Progress
    <3> QED BY <2>1, <3>1 DEF Promise!Before, Recorded
  <2>2. CASE k # "create"
    <3>1. r \in Activation
      BY <1>6, <1>7, <2>2 DEF StepsOf, Request
    <3>2. CASE k = "configure"
      BY <1>6, <1>7, <3>1, <3>2, Recordings DEF Prior, Promise!Before
    <3>3. CASE k = "upload"
      BY <1>6, <1>7, <3>1, <3>3, Recordings DEF Prior, Promise!Before
    <3>4. CASE k = "activate"
      BY <1>6, <1>7, <3>1, <3>4, Recordings DEF Prior, Promise!Before
    <3> QED BY <1>7, <2>2, <3>2, <3>3, <3>4
  <2> QED BY <2>1, <2>2
<1>13. \A i \in 1..(p[2] - 1) : <<p[1], i>> \in DoneParts[r]
  <2> SUFFICES ASSUME NEW i \in 1..(run[w].image - 1) PROVE <<k, i>> \in DoneParts[r]
    BY <1>8
  <2>1. k = "upload" /\ i \in 1..Images /\ i < run[w].image
    <3>1. i \in Nat /\ i >= 1 /\ i < run[w].image /\ run[w].image # 1 /\ i \in 1..Images
      BY <1>6, PublicationAssumption
    <3>2. run[w].step = "upload"
      BY <1>1, <1>6, <3>1 DEF Sound, Stepping
    <3> QED BY <1>7, <3>1, <3>2
  <2>2. <<k, i>> \in Part /\ <<k, i>>[1] = k /\ <<k, i>>[2] = i
    BY <2>1, Parts
  <2>3. sent[r][<<k, i>>] >= 1
    BY <1>1, <1>2, <1>6, <1>7, <2>1, <2>2 DEF Sound, Stepping
  <2>4. sent[r][<<k, i>>] \in 0..2
    BY <2>2 DEF IInv, TypeOK
  <2> QED BY <2>2, <2>3, <2>4 DEF DoneParts
<1> QED BY <1>4, <1>8, <1>9, <1>10, <1>11, <1>12, <1>13, PartApplied

LEMMA PromiseKept ==
  ASSUME Whole, IInv, NoneAppends, Solo, Core, Ahead, Known, [Next]_vars PROVE PromiseStep
<1>1. CASE sent' # sent
  BY <1>1, ActsKeeps
<1>2. CASE sent' = sent /\ UNCHANGED <<status, progress>>
  BY <1>2, SeenSame DEF Seen, Phases, RecordedSteps, DoneParts, Recorded, StepsThrough
<1> QED BY <1>1, <1>2, EachMoves, EventKeeps DEF Tells

\* Where no worker dies, the database answers and a rate limit is not met between two images
\* of an upload, everything the rows and the provider go through is what ADR-003 promises:
\* each step is taken once, in order, recorded before the next, and an end is an end,
\* whatever replies, leases or job locks are lost, credentials refused and old jobs forgotten.
THEOREM PublicationKeepsPromise ==
  /\ "queue" \notin Faults /\ "crash" \notin Faults /\ "database" \notin Faults
  /\ "lease" \notin Faults \/ "stall" \notin Faults
  /\ Images = 1 \/ "rate_limit" \notin Faults
  /\ Spec
  => KeepsPromise
<1>1. Init => Known /\ Promise!Init
  <2>1. ASSUME Init PROVE Phases = [r \in Request |-> "absent"]
    BY <2>1, PhaseIs DEF Init, Phases
  <2>2. ASSUME Init PROVE RecordedSteps = [r \in Request |-> {}]
    <3>1. \A r \in Request : Recorded(r) = {}
      BY <2>2 DEF Init, Recorded, StepsThrough, Rank
    <3> QED BY <3>1 DEF RecordedSteps
  <2>3. ASSUME Init PROVE DoneParts = [r \in Request |-> {}]
    BY <2>3 DEF Init, DoneParts
  <2>4. Init => Known
    BY DEF Init, Idle, NoJob, Known
  <2> QED BY <2>1, <2>2, <2>3, <2>4, Request_ DEF Promise!Init, Phases, RecordedSteps, DoneParts
<1>2. IInv /\ NoneAppends /\ Core /\ Known /\ [Next]_vars => Known'
  BY KnownStep
<1>3. Whole /\ IInv /\ NoneAppends /\ Solo /\ Core /\ Ahead /\ Known /\ [Next]_vars => [Promise!Next]_(Promise!vars)
  BY PromiseKept DEF PromiseStep
<1>4. Whole => Whole'
  BY DEF Whole
<1>5. Steady /\ Whole /\ Spec => KeepsPromise
  BY <1>1, <1>2, <1>3, <1>4, SteadyHolds, PTL DEF Spec, KeepsPromise, Promise!Spec
<1> QED BY <1>5 DEF Steady, Orderly, Calm, Whole
=============================================================================
