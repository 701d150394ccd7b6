--------------------------- MODULE PodArtworkProofs ---------------------------
(***************************************************************************)
(* What holds of paid POD artwork for any number of tasks, workers,        *)
(* attempts and faults: the provider is paid once (PaidOnce), a design     *)
(* version comes from the one stored and valid answer (AdoptedIsSaved); a  *)
(* paid request ends as an ordinary failure only with its receipt recorded *)
(* and for cause (GivenUpForCause), unless a refused claim stalls; and in  *)
(* the end that PodArtwork implements PodPromise.                          *)
(***************************************************************************)
EXTENDS MCPodArtwork, TLAPS

Sent == {"submitted", "received"}
Stall == "stall" \in Faults
Claimed == Working \ {"claim", "fail"}
Answered == {"put", "staged", "read", "fetch", "confirm", "stage", "upload", "commit"}

\* What the rows of a task prove about its payment and its answer.
RowInv(t) ==
  LET r == row[t] IN
  /\ paid[t] <= 1
  /\ r.status = "absent" => r.call = "none"
  /\ r.call \notin Sent => paid[t] = 0
  /\ r.pinned => r.call = "received" /\ paid[t] = 1
  /\ r.retention # "kept" => r.pinned
  /\ r.token <= r.tries
  /\ r.phase = "failed" /\ r.call \in Sent => r.pinned \/ Stall
  /\ r.versions > 0 => r.versions = 1 /\ r.pinned /\ r.manifest /\ outputs[t] /\ reply[t] = "valid"

Leases(w) == run[w].token = row[run[w].task].token /\ row[run[w].task].live

\* What a worker may rely on at each point of its run, its lease lost or not.
RunInv(w) ==
  LET t == run[w].task  r == row[t]  pc == run[w].pc IN
  pc # "idle" =>
    /\ t \in Task
    /\ run[w].token <= r.tries
    /\ pc \in Claimed => run[w].token # 0
    /\ pc = "call" => r.call \in Sent /\ paid[t] = 0
    /\ pc = "record" => r.call \in Sent /\ paid[t] = 1
    /\ pc \in Answered \/ run[w].had => r.pinned
    /\ pc \in {"stage", "upload", "commit"} => reply[t] = "valid"
    /\ pc \in {"upload", "commit"} => r.manifest
    /\ pc = "commit" /\ Leases(w) => outputs[t]
    /\ pc \in {"load", "submit"} /\ Leases(w) => ~Unknown(r)
    /\ pc = "fail" /\ run[w].code = "blocked" =>
         IF run[w].token # 0 THEN Leases(w) => ~Unknown(r)
         ELSE r.live \/ ~InProgress(r) \/ ~Unknown(r) \/ Stall

\* Two runs of one task have different tokens, and one of them at most is about to pay.
Distinct(v, w) ==
  v # w /\ run[v].pc # "idle" /\ run[w].pc # "idle" /\ run[v].task = run[w].task =>
    /\ run[v].token # 0 => run[v].token # run[w].token
    /\ ~(run[v].pc = "call" /\ run[w].pc = "call")

IInv ==
  /\ TypeOK
  /\ \A t \in Task : RowInv(t)
  /\ \A w \in Worker : RunInv(w)
  /\ \A v, w \in Worker : Distinct(v, w)
-----------------------------------------------------------------------------
(***************************************************************************)
(* Steps that only move a run.                                             *)
(***************************************************************************)
\* What a run keeps when it moves: its task and its token, or it starts without one.
Keeps(w, x) ==
  x.token = 0 \/ (x.token = run[w].token /\ x.task = run[w].task /\ run[w].pc # "idle")

\* A run that goes on without touching a row or the provider disturbs nothing but what is
\* said of the run itself.
LEMMA Moving ==
  ASSUME IInv, NEW w \in Worker, NEW x \in Runs,
         run' = [run EXCEPT ![w] = x], UNCHANGED <<row, outputs, reply, paid>>,
         x.pc # "call", Keeps(w, x), TypeOK', RunInv(w)'
  PROVE  IInv'
<1>1. ASSUME NEW t \in Task PROVE RowInv(t)'
  BY DEF IInv, RowInv
<1>2. ASSUME NEW v \in Worker PROVE RunInv(v)'
  <2>1. CASE v = w
    BY <2>1
  <2>2. CASE v # w
    BY <2>2 DEF IInv, TypeOK, RunInv, Leases
  <2> QED BY <2>1, <2>2
<1>3. ASSUME NEW u \in Worker, NEW v \in Worker PROVE Distinct(u, v)'
  BY DEF IInv, TypeOK, Distinct, Keeps
<1> QED BY <1>1, <1>2, <1>3 DEF IInv

\* The job is done with, or its process is gone.
LEMMA Ending ==
  ASSUME IInv, NEW w \in Worker, Ends(w), queue' \in [Task -> 0..Backlog], faults' \in 0..MaxFaults,
         UNCHANGED <<row, storage, reply, paid, intents, grounds>>
  PROVE  IInv'
<1>1. Idle \in Runs /\ run' = [run EXCEPT ![w] = Idle]
  BY PodAssumption DEF Idle, Runs, Ends
<1>2. TypeOK'
  BY <1>1 DEF IInv, TypeOK, storage
<1>3. RunInv(w)'
  BY <1>1 DEF IInv, TypeOK, RunInv, Idle
<1> QED BY <1>1, <1>2, <1>3, Moving DEF Idle, Keeps, storage

\* A run that gives up keeps its token.
LEMMA Failing ==
  ASSUME IInv, NEW w \in Worker, run[w].pc # "idle",
         NEW code \in {"trouble", "paused", "blocked", "invalid"}, Fails(w, code),
         code = "blocked" => IF run[w].token # 0 THEN Leases(w) => ~Unknown(row[run[w].task])
                             ELSE ~Unknown(row[run[w].task]),
         object' \in [Task -> BOOLEAN], faults' \in 0..MaxFaults,
         UNCHANGED <<row, outputs, reply, paid, queue, intents, grounds>>
  PROVE  IInv'
<1> DEFINE x == [run[w] EXCEPT !.pc = "fail", !.code = code]
<1>1. x \in Runs /\ run' = [run EXCEPT ![w] = x]
  BY DEF IInv, TypeOK, Runs, Working, Fails
<1>2. TypeOK'
  BY <1>1 DEF IInv, TypeOK
<1>3. RunInv(w)'
  BY <1>1, run[w] \in Runs DEF IInv, TypeOK, RunInv, Runs, Leases, Claimed, Answered
<1>4. Keeps(w, x) /\ x.pc # "call"
  BY run[w] \in Runs DEF IInv, TypeOK, Runs, Keeps
<1> QED BY <1>1, <1>2, <1>3, <1>4, Moving

LEMMA FaultCounts == ASSUME TypeOK, NEW kind, Fault(kind) PROVE faults' \in 0..MaxFaults
BY PodAssumption DEF TypeOK, Fault

LEMMA OwedCounts == ASSUME TypeOK, NEW t \in Task PROVE Owed(t) \in [Task -> 0..Backlog]
BY PodAssumption DEF TypeOK, Owed

LEMMA ComesAgain == ASSUME TypeOK, NEW t \in Task, MayComeAgain(t) PROVE queue' \in [Task -> 0..Backlog]
BY OwedCounts DEF TypeOK, MayComeAgain

\* A refused or broken transaction, by a run that has an answer or holds its lease.
LEMMA TurnedBack ==
  ASSUME IInv, NEW w \in Worker, NEW admits \in BOOLEAN, NotLetThrough(w, admits),
         run[w].pc \in Answered \cup {"submit", "record"}, admits => run[w].pc # "record"
  PROVE  IInv'
<1>1. run[w] \in Runs /\ run[w].pc # "idle" /\ run[w].task \in Task /\ row[run[w].task] \in Rows
  BY DEF IInv, TypeOK, RunInv, Answered
<1>2. CASE Unowned(w)
  <2>1. faults' \in 0..MaxFaults
    BY <1>2, FaultCounts DEF IInv, TypeOK, Unowned
  <2> QED BY <1>1, <1>2, <2>1, Failing DEF IInv, TypeOK, Unowned, NotLetThrough, storage
<1>3. CASE admits /\ Owns(w) /\ Refusal(w)
  <2>1. Leases(w) => ~Unknown(row[run[w].task])
    BY <1>1, <1>3 DEF IInv, RunInv, RowInv, Unknown, Answered
  <2>2. run[w].token # 0
    BY <1>1 DEF IInv, RunInv, Claimed, Answered, Working
  <2> QED BY <1>1, <1>3, <2>1, <2>2, Failing DEF IInv, TypeOK, Refusal, NotLetThrough, storage
<1> QED BY <1>2, <1>3 DEF NotLetThrough

LEMMA LoadStep == ASSUME IInv, NEW w \in Worker, Load(w) PROVE IInv'
<1> DEFINE t == run[w].task
<1>1. /\ run[w] \in Runs /\ run[w].pc = "load" /\ t \in Task /\ row[t] \in Rows /\ run[w].token # 0
      /\ UNCHANGED <<row, storage, reply, paid, queue, intents, grounds>>
  BY DEF IInv, TypeOK, RunInv, Claimed, Working, Load, At
<1>2. CASE grounds[t] = "current" /\ Goes(w, IF run[w].had THEN "read" ELSE "submit") /\ UNCHANGED faults
  <2> DEFINE x == [run[w] EXCEPT !.pc = IF run[w].had THEN "read" ELSE "submit"]
  <2>1. x \in Runs /\ run' = [run EXCEPT ![w] = x]
    BY <1>1, <1>2 DEF IInv, TypeOK, Runs, Working, Goes
  <2>2. TypeOK'
    BY <1>1, <1>2, <2>1 DEF IInv, TypeOK, storage
  <2>3. RunInv(w)'
    BY <1>1, <2>1 DEF IInv, TypeOK, RunInv, Runs, Leases, Claimed, Answered, Working
  <2>4. Keeps(w, x) /\ x.pc # "call"
    BY <1>1 DEF Runs, Keeps
  <2> QED BY <1>1, <2>1, <2>2, <2>3, <2>4, Moving DEF storage
<1>3. CASE Refusal(w)
  <2>1. Leases(w) => ~Unknown(row[t])
    BY <1>1 DEF IInv, RunInv
  <2> QED BY <1>1, <1>3, <2>1, Failing DEF IInv, TypeOK, Refusal, storage
<1>4. CASE Fault("storage") /\ Fails(w, "trouble")
  BY <1>1, <1>4, Failing, FaultCounts DEF IInv, TypeOK, storage
<1> QED BY <1>2, <1>3, <1>4 DEF Load


LEMMA ClaimNothingStep == ASSUME IInv, NEW w \in Worker, ClaimNothing(w) PROVE IInv'
BY Ending DEF IInv, TypeOK, ClaimNothing

LEMMA ClaimRefusedStep == ASSUME IInv, NEW w \in Worker, ClaimRefused(w) PROVE IInv'
<1>1. run[w].pc # "idle" /\ ~Unknown(row[run[w].task])
  BY DEF ClaimRefused, At, Ended
<1> QED BY <1>1, Failing DEF IInv, TypeOK, ClaimRefused, storage

LEMMA SubmitRefusedStep == ASSUME IInv, NEW w \in Worker, SubmitRefused(w) PROVE IInv'
<1>1. CASE NotLetThrough(w, TRUE)
  BY <1>1, TurnedBack DEF SubmitRefused, At
<1>2. CASE ~NotLetThrough(w, TRUE)
  BY <1>2, Failing DEF IInv, TypeOK, SubmitRefused, At, storage
<1> QED BY <1>1, <1>2

LEMMA RecordRefusedStep == ASSUME IInv, NEW w \in Worker, RecordRefused(w) PROVE IInv'
BY TurnedBack DEF RecordRefused, At, Answered

LEMMA PutStep == ASSUME IInv, NEW w \in Worker, PutResponse(w) PROVE IInv'
<1> DEFINE t == run[w].task
<1>1. /\ run[w] \in Runs /\ run[w].pc = "put" /\ t \in Task
      /\ UNCHANGED <<row, outputs, reply, paid, queue, intents, grounds>>
  BY DEF IInv, TypeOK, RunInv, PutResponse, At
<1>2. CASE Goes(w, "staged") /\ object' = [object EXCEPT ![t] = TRUE] /\ UNCHANGED faults
  <2> DEFINE x == [run[w] EXCEPT !.pc = "staged"]
  <2>1. x \in Runs /\ run' = [run EXCEPT ![w] = x]
    BY <1>1, <1>2 DEF IInv, TypeOK, Runs, Working, Goes
  <2>2. TypeOK' /\ RunInv(w)'
    BY <1>1, <1>2, <2>1 DEF IInv, TypeOK, RunInv, Runs, Claimed, Answered, Working
  <2>3. Keeps(w, x) /\ x.pc # "call"
    BY <1>1 DEF Runs, Keeps
  <2> QED BY <1>1, <2>1, <2>2, <2>3, Moving
<1>3. CASE /\ Fault("storage") /\ Fails(w, "trouble")
           /\ \E stored \in {object[t], TRUE} : object' = [object EXCEPT ![t] = stored]
  <2>1. object' \in [Task -> BOOLEAN] /\ faults' \in 0..MaxFaults
    BY <1>1, <1>3, FaultCounts, ZenonT(40) DEF IInv, TypeOK
  <2> QED BY <1>1, <1>3, <2>1, Failing
<1> QED BY <1>2, <1>3 DEF PutResponse

LEMMA ReadStep == ASSUME IInv, NEW w \in Worker, ReadResponse(w) PROVE IInv'
<1> DEFINE t == run[w].task
<1>1. run[w] \in Runs /\ run[w].pc = "read" /\ t \in Task /\ row[t] \in Rows
  BY DEF IInv, TypeOK, RunInv, ReadResponse, At
<1>2. CASE NotLetThrough(w, TRUE)
  BY <1>1, <1>2, TurnedBack DEF Answered
<1>3. CASE ~NotLetThrough(w, TRUE) /\ row[t].retention = "kept" /\ row[t].pinned
  <2> DEFINE x == [run[w] EXCEPT !.pc = "fetch"]
  <2>1. x \in Runs /\ run' = [run EXCEPT ![w] = x] /\ UNCHANGED <<row, outputs, reply, paid>>
    BY <1>1, <1>3 DEF IInv, TypeOK, Runs, Working, Goes, ReadResponse, storage
  <2>2. TypeOK' /\ RunInv(w)'
    <3>1. UNCHANGED <<object, queue, intents, grounds, faults>>
      BY <1>1, <1>3 DEF ReadResponse, storage
    <3>2. TypeOK'
      BY <2>1, <3>1 DEF IInv, TypeOK
    <3>3. run'[w] = x /\ x.pc = "fetch" /\ x.task = t /\ x.token = run[w].token /\ x.had = run[w].had
      BY <1>1, <2>1 DEF IInv, TypeOK, Runs
    <3>4. run[w].token # 0 /\ run[w].token <= row[t].tries
      BY <1>1 DEF IInv, RunInv, Claimed, Working
    <3> QED BY <1>1, <1>3, <2>1, <3>2, <3>3, <3>4 DEF RunInv, Claimed
  <2>3. Keeps(w, x) /\ x.pc # "call"
    BY <1>1 DEF Runs, Keeps
  <2> QED BY <1>1, <2>1, <2>2, <2>3, Moving
<1>4. CASE ~NotLetThrough(w, TRUE) /\ ~(row[t].retention = "kept" /\ row[t].pinned)
  BY <1>1, <1>4, Failing DEF IInv, TypeOK, ReadResponse, storage
<1> QED BY <1>2, <1>3, <1>4

LEMMA FetchStep == ASSUME IInv, NEW w \in Worker, FetchResponse(w) PROVE IInv'
<1>1. /\ run[w] \in Runs /\ run[w].pc = "fetch" /\ run[w].task \in Task
      /\ UNCHANGED <<row, storage, reply, paid, queue, intents, grounds>>
  BY DEF IInv, TypeOK, RunInv, FetchResponse, At
<1>2. CASE Goes(w, "confirm") /\ UNCHANGED faults
  <2> DEFINE x == [run[w] EXCEPT !.pc = "confirm"]
  <2>1. x \in Runs /\ run' = [run EXCEPT ![w] = x]
    BY <1>1, <1>2 DEF IInv, TypeOK, Runs, Working, Goes
  <2>2. TypeOK' /\ RunInv(w)'
    BY <1>1, <1>2, <2>1 DEF IInv, TypeOK, RunInv, Runs, Claimed, Answered, Working, storage
  <2>3. Keeps(w, x) /\ x.pc # "call"
    BY <1>1 DEF Runs, Keeps
  <2> QED BY <1>1, <2>1, <2>2, <2>3, Moving DEF storage
<1>3. CASE Fails(w, "trouble") /\ (UNCHANGED faults \/ Fault("storage"))
  <2>1. faults' \in 0..MaxFaults
    BY <1>3, FaultCounts DEF IInv, TypeOK
  <2> QED BY <1>1, <1>3, <2>1, Failing DEF IInv, TypeOK, storage
<1> QED BY <1>2, <1>3 DEF FetchResponse

LEMMA DieStep == ASSUME IInv, NEW w \in Worker, WorkerDies(w) PROVE IInv'
<1>1. faults' \in 0..MaxFaults /\ run[w].task \in Task
  BY FaultCounts DEF IInv, RunInv, WorkerDies, At
<1> QED BY <1>1, ComesAgain, Ending DEF IInv, WorkerDies

LEMMA DeliverStep == ASSUME IInv, NEW w \in Worker, NEW t \in Task, Deliver(w, t) PROVE IInv'
<1> DEFINE x == [Idle EXCEPT !.pc = "claim", !.task = t]
<1>1. Idle \in Runs /\ Idle.token = 0 /\ Idle.had = FALSE /\ Idle.code = "none"
  BY PodAssumption DEF Idle, Runs
<1>2. /\ x \in Runs /\ x.pc = "claim" /\ x.task = t
      /\ x.token = Idle.token /\ x.had = Idle.had /\ x.code = Idle.code
  BY <1>1 DEF Runs, Working
<1> HIDE DEF x
<1>3. run' = [run EXCEPT ![w] = x] /\ UNCHANGED <<row, outputs, reply, paid>>
  BY DEF Deliver, storage, x
<1>4. queue' \in [Task -> 0..Backlog]
  <2>1. queue[t] \in 0..Backlog /\ queue[t] > 0
    BY DEF IInv, TypeOK, Deliver
  <2>2. queue[t] - 1 \in 0..Backlog
    BY <2>1, PodAssumption
  <2> QED BY <2>2 DEF IInv, TypeOK, Deliver
<1>5. TypeOK'
  BY <1>2, <1>3, <1>4 DEF IInv, TypeOK, Deliver, storage
<1>6. run'[w] = x /\ row' = row /\ row[t] \in Rows
  BY <1>3 DEF IInv, TypeOK
<1>7. RunInv(w)'
  BY <1>1, <1>2, <1>6 DEF RunInv, Rows, Claimed, Answered
<1> QED BY <1>1, <1>2, <1>3, <1>5, <1>7, Moving DEF Keeps
-----------------------------------------------------------------------------
(***************************************************************************)
(* Steps of a run that change a row or call the provider.                  *)
(***************************************************************************)
LEMMA SubmitStep == ASSUME IInv, NEW w \in Worker, Submit(w) PROVE IInv'
<1> DEFINE t == run[w].task
<1> USE DEF IInv
<1>1. /\ t \in Task /\ run[w] \in Runs /\ row[t] \in Rows
      /\ run' = [run EXCEPT ![w].pc = "call"]
      /\ row' = [row EXCEPT ![t].call = "submitted"]
      /\ UNCHANGED <<storage, reply, paid, queue, intents, grounds, faults>>
      /\ run[w].pc = "submit" /\ row[t].call = "pending" /\ Leases(w)
      /\ row[t].phase \notin TerminalPhase /\ row[t].versions = 0
  BY DEF Submit, Admitted, Owns, At, Goes, TypeOK, RunInv, Leases
<1>2. TypeOK'
  BY <1>1 DEF TypeOK, Rows, Runs, Working, storage
<1>3. ASSUME NEW s \in Task PROVE RowInv(s)'
  BY <1>1 DEF TypeOK, Rows, RowInv, Sent, TerminalPhase, storage
<1>4. ASSUME NEW v \in Worker PROVE RunInv(v)'
  <2>1. CASE v = w
    BY <1>1, <2>1 DEF TypeOK, Rows, Runs, RowInv, RunInv, Sent, Claimed, Answered, Leases, Unknown, InProgress, Working
  <2>2. CASE v # w
    <3>1. run'[v] = run[v] /\ RunInv(v)
      BY <1>1, <2>2 DEF TypeOK
    <3>2. row'[t] = [row[t] EXCEPT !.call = "submitted"] /\ \A s \in Task : s # t => row'[s] = row[s]
      BY <1>1 DEF TypeOK
    <3>0. UNCHANGED <<reply, paid, outputs>>
      BY <1>1 DEF storage
    <3>3. CASE run[v].pc = "idle" \/ run[v].task # t
      <4>1. run[v].pc # "idle" => run[v].task \in Task /\ row'[run[v].task] = row[run[v].task]
        BY <3>1, <3>2, <3>3 DEF RunInv
      <4> QED BY <3>0, <3>1, <4>1 DEF RunInv, Leases
    <3>4. CASE run[v].pc # "idle" /\ run[v].task = t
      <4>0. run[w].token # 0 /\ Distinct(w, v)
        BY <1>1 DEF RunInv, Claimed, Working
      <4>1. run[v].token # run[w].token
        BY <1>1, <2>2, <3>4, <4>0 DEF Distinct
      <4>2. ~Leases(v) /\ ~Leases(v)' /\ row'[t].live
        BY <1>1, <3>1, <3>2, <3>4, <4>1 DEF Leases, Rows
      <4>3. /\ row'[t].tries = row[t].tries /\ row'[t].pinned = row[t].pinned
            /\ row'[t].manifest = row[t].manifest /\ row'[t].call \in Sent
        BY <1>1, <3>2 DEF Rows, Sent
      <4> QED BY <3>0, <3>1, <3>4, <4>2, <4>3 DEF RunInv
    <3> QED BY <3>3, <3>4
  <2> QED BY <2>1, <2>2
<1>5. ASSUME NEW u \in Worker, NEW v \in Worker PROVE Distinct(u, v)'
  BY <1>1 DEF TypeOK, Rows, Runs, RunInv, Distinct, Sent
<1> QED BY <1>2, <1>3, <1>4, <1>5

\* The row of a started attempt.
Started(r, n) ==
  [r EXCEPT !.phase = IF r.pinned THEN @ ELSE "preparing",
            !.status = "running", !.error = "none",
            !.tries = n, !.token = n, !.live = TRUE,
            !.call = IF @ = "none" THEN "pending" ELSE @]

LEMMA StartedIsRow == ASSUME NEW r \in Rows, NEW n \in 0..Tries PROVE Started(r, n) \in Rows
<1> DEFINE a == [r EXCEPT !.phase = IF r.pinned THEN @ ELSE "preparing"]
           b == [a EXCEPT !.status = "running", !.error = "none"]
           c == [b EXCEPT !.tries = n, !.token = n, !.live = TRUE]
           d == [c EXCEPT !.call = IF @ = "none" THEN "pending" ELSE @]
<1>1. a \in Rows
  BY DEF Rows, Phase
<1>2. b \in Rows
  <2> HIDE DEF a
  <2> QED BY <1>1, ZenonT(40) DEF Rows
<1>3. c \in Rows
  <2> HIDE DEF b
  <2> QED BY <1>2 DEF Rows
<1>4. d \in Rows
  <2> HIDE DEF c
  <2> QED BY <1>3 DEF Rows
<1>5. d = Started(r, n)
  BY DEF Rows, Started
<1> QED BY <1>4, <1>5

LEMMA ClaimStep == ASSUME IInv, NEW w \in Worker, Claim(w) PROVE IInv'
<1> DEFINE t == run[w].task
           n == row[t].tries + 1
           r == Started(row[t], n)
           x == [run[w] EXCEPT !.pc = "load", !.token = n, !.had = row[t].pinned]
<1> USE DEF IInv
<1>1. /\ t \in Task /\ run[w] \in Runs /\ row[t] \in Rows
      /\ UNCHANGED <<storage, reply, paid, queue, intents, grounds, faults>>
      /\ run[w].pc = "claim" /\ row[t].versions = 0 /\ row[t].phase \notin TerminalPhase
      /\ ~row[t].live /\ ~Unknown(row[t]) /\ row[t].tries < Tries
  <2>1. At(w, "claim") /\ Claimable(row[t]) /\ Ended(row[t]) = "none"
        /\ UNCHANGED <<storage, reply, paid, queue, intents, grounds, faults>>
    BY DEF Claim
  <2>2. t \in Task /\ run[w] \in Runs /\ row[t] \in Rows
    BY <2>1 DEF At, TypeOK, RunInv
  <2>3. ~Unknown(row[t]) /\ ~(row[t].tries >= Tries)
    BY <2>1 DEF Ended
  <2>4. row[t].tries < Tries
    BY <2>2, <2>3, PodAssumption DEF Rows
  <2> QED BY <2>1, <2>2, <2>3, <2>4 DEF At, Claimable, InProgress
<1>2. n \in 0..Tries /\ n # 0 /\ row[t].tries < n
  BY <1>1, PodAssumption DEF Rows
<1>3. row' = [row EXCEPT ![t] = r] /\ run' = [run EXCEPT ![w] = x]
  <2>1. run' = [run EXCEPT ![w].pc = "load", ![w].token = row[t].tries + 1, ![w].had = row[t].pinned]
    BY DEF Claim
  <2>2. row' = [row EXCEPT ![t].phase = IF row[t].pinned THEN @ ELSE "preparing",
                           ![t].status = "running", ![t].error = "none",
                           ![t].tries = @ + 1, ![t].token = row[t].tries + 1, ![t].live = TRUE,
                           ![t].call = IF @ = "none" THEN "pending" ELSE @]
    BY DEF Claim
  <2>3. row' = [row EXCEPT ![t] = r]
    BY <2>2, ZenonT(40) DEF Started
  <2> QED BY <2>1, <2>3
<1>4. r \in Rows /\ x \in Runs
  <2>1. r \in Rows
    BY <1>1, <1>2, StartedIsRow
  <2>2. x \in Runs
    BY <1>1, <1>2 DEF Rows, Runs, Working
  <2> QED BY <2>1, <2>2
<1>5. /\ r.tries = n /\ r.token = n /\ r.live /\ r.pinned = row[t].pinned /\ r.manifest = row[t].manifest
      /\ r.versions = 0 /\ r.retention = row[t].retention /\ r.status = "running"
      /\ r.phase \notin TerminalPhase
      /\ r.call = IF row[t].call = "none" THEN "pending" ELSE row[t].call
  BY <1>1 DEF Rows, TerminalPhase, Started
<1>6. x.pc = "load" /\ x.token = n /\ x.had = row[t].pinned /\ x.task = t
  BY <1>1 DEF Runs
<1> HIDE DEF r, x
<1>7. TypeOK'
  BY <1>1, <1>3, <1>4 DEF TypeOK, storage
<1>8. /\ \A s \in Task : row'[s] = IF s = t THEN r ELSE row[s]
      /\ \A v \in Worker : run'[v] = IF v = w THEN x ELSE run[v]
  BY <1>3 DEF TypeOK
<1>9. ASSUME NEW s \in Task PROVE RowInv(s)'
  BY <1>1, <1>2, <1>5, <1>8 DEF TypeOK, Rows, RowInv, Sent, TerminalPhase, storage
<1>10. ASSUME NEW v \in Worker PROVE RunInv(v)'
  <2>1. CASE v = w
    <3>1. run'[v] = x /\ row'[t] = r
      BY <1>1, <1>8, <2>1
    <3>2. ~Unknown(r)
      BY <1>1, <1>5 DEF Unknown
    <3>3. n # 0 /\ n <= n
      BY <1>2
    <3> QED BY <1>1, <1>5, <1>6, <3>1, <3>2, <3>3 DEF RunInv, Answered
  <2>2. CASE v # w
    <3>1. run'[v] = run[v] /\ RunInv(v) /\ run[v] \in Runs
      BY <1>8, <2>2 DEF TypeOK
    <3>2. CASE run[v].task = t /\ run[v].pc # "idle"
      <4>1. row'[run'[v].task] = r /\ run[v].token < n /\ run[v].token \in Nat
        BY <1>1, <1>2, <1>8, <3>1, <3>2 DEF RunInv, Runs, Rows
      <4>2. ~Leases(v)'
        BY <1>5, <3>1, <4>1 DEF Leases
      <4>3. run[v].token <= r.tries
        BY <1>1, <1>2, <1>5, <4>1 DEF Rows
      <4>4. row[t].call \in Sent => r.call \in Sent
        BY <1>5 DEF Sent
      <4> QED BY <1>1, <1>5, <3>1, <3>2, <4>1, <4>2, <4>3, <4>4 DEF RunInv, storage
    <3>3. CASE run[v].task # t
      BY <1>1, <1>8, <3>1, <3>3 DEF RunInv, Leases, storage
    <3>4. CASE run[v].pc = "idle"
      BY <3>1, <3>4 DEF RunInv
    <3> QED BY <3>2, <3>3, <3>4
  <2> QED BY <2>1, <2>2
<1>11. ASSUME NEW u \in Worker, NEW v \in Worker PROVE Distinct(u, v)'
  BY <1>1, <1>2, <1>6, <1>8 DEF TypeOK, Runs, Rows, RunInv, Distinct
<1> QED BY <1>7, <1>9, <1>10, <1>11

\* A row that proves no less than before and takes no new lease.
Grows(t, r) ==
  LET o == row[t] IN
  /\ row' = [row EXCEPT ![t] = r] /\ r \in Rows
  /\ r.tries = o.tries
  /\ o.call \in Sent => r.call \in Sent
  /\ o.pinned => r.pinned
  /\ o.manifest => r.manifest
  /\ r.live => o.live /\ r.token = o.token
  /\ Unknown(r) => Unknown(o)
  /\ InProgress(r) /\ Unknown(r) => InProgress(o)

\* A refusal that is about to be recorded still finds the task in other hands, or ended.
Spares(t, r) ==
  \A v \in Worker : Refusing(v, t) /\ row[t].live =>
    r.live \/ ~InProgress(r) \/ ~Unknown(r) \/ Stall

LEMMA Unmoved ==
  ASSUME IInv, NEW t \in Task, NEW r, Grows(t, r), Spares(t, r),
         UNCHANGED <<reply, paid>>, r.live /\ outputs[t] => outputs'[t],
         NEW v \in Worker, run'[v] = run[v],
         \A s \in Task \ {t} : outputs'[s] = outputs[s]
  PROVE  RunInv(v)'
<1>1. RunInv(v) /\ run[v] \in Runs /\ row'[t] = r
  BY DEF IInv, TypeOK, Grows
<1>2. CASE run[v].task = t /\ run[v].pc # "idle"
  <2>1. row'[run'[v].task] = r /\ row[t] \in Rows
    BY <1>1, <1>2 DEF IInv, TypeOK
  <2>2. Leases(v)' => Leases(v) /\ r.live
    BY <1>2, <2>1 DEF Grows, Leases
  <2>3. run[v].pc = "fail" /\ run[v].code = "blocked" /\ run[v].token = 0 =>
          r.live \/ ~InProgress(r) \/ ~Unknown(r) \/ Stall
    BY <1>1, <1>2 DEF RunInv, Grows, Spares, Refusing, At
  <2> QED BY <1>1, <1>2, <2>1, <2>2, <2>3 DEF RunInv, Grows, Claimed
<1>3. CASE run[v].task # t /\ run[v].pc # "idle"
  <2>1. row'[run[v].task] = row[run[v].task] /\ outputs'[run[v].task] = outputs[run[v].task]
    BY <1>1, <1>3 DEF IInv, TypeOK, RunInv, Grows
  <2> QED BY <1>1, <1>3, <2>1 DEF RunInv, Leases
<1>4. CASE run[v].pc = "idle"
  BY <1>1, <1>4 DEF RunInv
<1> QED BY <1>2, <1>3, <1>4

\* A run's step on such a row.
LEMMA Growing ==
  ASSUME IInv, NEW t \in Task, NEW r, Grows(t, r), Spares(t, r),
         NEW w \in Worker, NEW x \in Runs, run' = [run EXCEPT ![w] = x],
         x.pc # "call", Keeps(w, x), UNCHANGED <<reply, paid, outputs>>,
         TypeOK', RowInv(t)', RunInv(w)'
  PROVE  IInv'
<1>1. ASSUME NEW s \in Task PROVE RowInv(s)'
  <2>1. CASE s = t
    BY <2>1
  <2>2. CASE s # t
    BY <2>2 DEF IInv, TypeOK, RowInv, Grows
  <2> QED BY <2>1, <2>2
<1>2. ASSUME NEW v \in Worker PROVE RunInv(v)'
  <2>1. CASE v = w
    BY <2>1
  <2>2. CASE v # w
    <3>1. run'[v] = run[v]
      BY <2>2 DEF IInv, TypeOK
    <3> QED BY <3>1, Unmoved
  <2> QED BY <2>1, <2>2
<1>3. ASSUME NEW u \in Worker, NEW v \in Worker PROVE Distinct(u, v)'
  BY DEF IInv, TypeOK, Distinct, Keeps
<1> QED BY <1>1, <1>2, <1>3 DEF IInv

\* The end of a task.
Code == {"expired", "uncertain", "local", "blocked", "invalid"}

LEMMA StoppedIsRow ==
  ASSUME NEW r \in Rows, NEW code \in Code
  PROVE  LET s == Stopped(r, code) IN
         /\ s \in Rows /\ s.status # "absent" /\ s.phase \in TerminalPhase
         /\ s.phase = "failed" <=> code # "uncertain"
         /\ s.token = 0 /\ ~s.live
         /\ s.call = r.call /\ s.pinned = r.pinned /\ s.versions = r.versions /\ s.tries = r.tries
         /\ s.manifest = r.manifest /\ s.retention = r.retention
<1> DEFINE s == Stopped(r, code)
           a == [r EXCEPT !.phase = IF code = "uncertain" THEN "uncertain" ELSE "failed"]
           b == [a EXCEPT !.status = IF code = "blocked" THEN "blocked" ELSE "failed"]
           c == [b EXCEPT !.error = code]
           d == [c EXCEPT !.token = 0]
           e == [d EXCEPT !.live = FALSE]
<1>1. a \in Rows
  BY DEF Rows, Phase, TerminalPhase
<1>2. b \in Rows
  <2> HIDE DEF a
  <2> QED BY <1>1 DEF Rows
<1>3. c \in Rows
  <2> HIDE DEF b
  <2> QED BY <1>2 DEF Rows, Code
<1>4. d \in Rows
  <2>1. 0 \in 0..Tries
    BY PodAssumption
  <2> HIDE DEF c
  <2> QED BY <1>3, <2>1 DEF Rows
<1>5. e \in Rows
  <2> HIDE DEF d
  <2> QED BY <1>4 DEF Rows
<1>6. e = s
  BY DEF Rows, Stopped
<1>7. /\ s.status # "absent" /\ s.phase \in TerminalPhase
      /\ s.phase = "failed" <=> code # "uncertain"
      /\ s.token = 0 /\ ~s.live
      /\ s.call = r.call /\ s.pinned = r.pinned /\ s.versions = r.versions /\ s.tries = r.tries
      /\ s.manifest = r.manifest /\ s.retention = r.retention
  BY DEF Rows, TerminalPhase, Stopped, Code
<1> QED BY <1>5, <1>6, <1>7

LEMMA Stopping ==
  ASSUME IInv, NEW t \in Task, NEW code \in Code, row' = [row EXCEPT ![t] = Stopped(row[t], code)],
         code # "uncertain" => ~Unknown(row[t]) \/ Stall, UNCHANGED <<reply, paid, outputs>>
  PROVE  LET r == Stopped(row[t], code) IN r \in Rows /\ Grows(t, r) /\ Spares(t, r) /\ RowInv(t)'
<1> DEFINE r == Stopped(row[t], code)
<1>1. row[t] \in Rows /\ row' = [row EXCEPT ![t] = r] /\ row'[t] = r /\ RowInv(t)
  BY DEF IInv, TypeOK
<1>2. /\ r \in Rows /\ r.status # "absent" /\ r.phase \in TerminalPhase
      /\ r.phase = "failed" <=> code # "uncertain"
      /\ r.token = 0 /\ ~r.live
      /\ r.call = row[t].call /\ r.pinned = row[t].pinned /\ r.versions = row[t].versions
      /\ r.tries = row[t].tries /\ r.manifest = row[t].manifest /\ r.retention = row[t].retention
  BY <1>1, StoppedIsRow
<1> HIDE DEF r
<1>3. ~InProgress(r) /\ r.tries \in Nat /\ (Unknown(r) <=> Unknown(row[t]))
  BY <1>2 DEF InProgress, Rows, Unknown
<1>4. RowInv(t)'
  BY <1>1, <1>2, <1>3 DEF RowInv, Unknown, Sent
<1>5. Grows(t, r) /\ Spares(t, r)
  BY <1>1, <1>2, <1>3 DEF Grows, Spares
<1> QED BY <1>2, <1>4, <1>5 DEF r

LEMMA ClaimStopsStep == ASSUME IInv, NEW w \in Worker, ClaimStops(w) PROVE IInv'
<1>1. PICK t \in Task : t = run[w].task
  BY DEF IInv, RunInv, ClaimStops, At
<1>2. PICK code \in Code : code = Ended(row[t])
  BY <1>1 DEF ClaimStops, Ended, Code
<1> DEFINE r == Stopped(row[t], code)
<1>3. /\ row[t] \in Rows /\ row' = [row EXCEPT ![t] = r] /\ run' = [run EXCEPT ![w] = Idle]
      /\ UNCHANGED <<object, outputs, reply, paid, queue, intents, grounds, faults>>
  BY <1>1, <1>2 DEF IInv, TypeOK, ClaimStops, Ends, storage
<1>4. code # "uncertain" => ~Unknown(row[t])
  BY <1>2 DEF IInv, RowInv, Unknown, Ended
<1>5. r \in Rows /\ Grows(t, r) /\ Spares(t, r) /\ RowInv(t)'
  BY <1>3, <1>4, Stopping
<1> HIDE DEF r
<1>6. Idle \in Runs /\ Idle.token = 0 /\ Idle.pc = "idle"
  BY PodAssumption DEF Idle, Runs
<1>7. TypeOK'
  BY <1>3, <1>5, <1>6 DEF IInv, TypeOK
<1>8. RunInv(w)'
  BY <1>3, <1>6 DEF IInv, TypeOK, RunInv
<1> QED BY <1>3, <1>5, <1>6, <1>7, <1>8, Growing DEF Keeps

\* A run that goes on to pc and holds its lease.
LEMMA Going ==
  ASSUME IInv, NEW w \in Worker, run[w].pc \in Claimed,
         NEW pc \in Working \ {"call", "claim", "fail"}, Goes(w, pc)
  PROVE  LET x == [run[w] EXCEPT !.pc = pc] IN
         /\ x \in Runs /\ run' = [run EXCEPT ![w] = x] /\ x.pc = pc
         /\ x.task = run[w].task /\ x.token = run[w].token /\ x.had = run[w].had
         /\ x.code = run[w].code /\ Keeps(w, x) /\ x.pc # "call"
BY DEF IInv, TypeOK, Runs, Working, Goes, Keeps, Claimed

LEMMA StageStep == ASSUME IInv, NEW w \in Worker, StageArtifacts(w) PROVE IInv'
<1>1. PICK t \in Task : t = run[w].task
  BY DEF IInv, RunInv, StageArtifacts, At
<1>2. /\ run[w] \in Runs /\ run[w].pc = "stage" /\ row[t] \in Rows /\ RunInv(w) /\ RowInv(t)
  BY <1>1 DEF IInv, TypeOK, StageArtifacts, At
<1>3. CASE NotLetThrough(w, TRUE)
  BY <1>2, <1>3, TurnedBack DEF Answered
<1>4. CASE ~NotLetThrough(w, TRUE) /\ row[t].phase = "response_ready"
  <2> DEFINE r == [row[t] EXCEPT !.manifest = TRUE]  x == [run[w] EXCEPT !.pc = "upload"]
  <2>1. /\ row' = [row EXCEPT ![t] = r] /\ Goes(w, "upload") /\ Owns(w)
        /\ UNCHANGED <<object, outputs, reply, paid, queue, intents, grounds, faults>>
    BY <1>1, <1>4 DEF StageArtifacts, Admitted, storage
  <2>2. /\ x \in Runs /\ run' = [run EXCEPT ![w] = x] /\ x.pc = "upload"
        /\ x.task = run[w].task /\ x.token = run[w].token /\ x.had = run[w].had
        /\ x.code = run[w].code /\ Keeps(w, x)
    BY <1>2, <2>1, Going DEF Claimed, Working
  <2>3. /\ r \in Rows /\ r.manifest /\ r.status = row[t].status /\ r.phase = row[t].phase
        /\ r.versions = row[t].versions /\ r.tries = row[t].tries /\ r.token = row[t].token
        /\ r.live = row[t].live /\ r.call = row[t].call /\ r.pinned = row[t].pinned
    BY <1>2 DEF Rows
  <2>4. RowInv(t)'
    BY <1>2, <2>1 DEF IInv, TypeOK, Rows, RowInv
  <2> HIDE DEF r, x
  <2>5. Grows(t, r) /\ Spares(t, r)
    BY <1>2, <2>1, <2>3 DEF Grows, Spares, Unknown, InProgress
  <2>6. TypeOK'
    BY <2>1, <2>2, <2>3 DEF IInv, TypeOK
  <2>7. row'[t] = r /\ run'[w] = x /\ reply' = reply
    BY <2>1, <2>2 DEF IInv, TypeOK
  <2>8. RunInv(w)'
    BY <1>1, <1>2, <2>2, <2>3, <2>7 DEF RunInv, Answered, Claimed, Working
  <2> QED BY <2>1, <2>2, <2>4, <2>5, <2>6, <2>8, Growing
<1>5. CASE ~NotLetThrough(w, TRUE) /\ row[t].phase # "response_ready"
  BY <1>1, <1>2, <1>5, Failing DEF IInv, TypeOK, StageArtifacts, storage
<1> QED BY <1>3, <1>4, <1>5

\* The receipt is there to be read, and the run goes on or gives up.
LEMMA Readying ==
  ASSUME IInv, NEW w \in Worker, NEW t \in Task, t = run[w].task, run[w].pc \in {"staged", "confirm"}, Owns(w),
         row' = [row EXCEPT ![t].phase = "response_ready"],
         UNCHANGED <<object, outputs, reply, paid, queue, intents, grounds, faults>>,
         \/ Goes(w, "read")
         \/ Goes(w, "stage") /\ reply[t] = "valid"
         \/ Refuses(w)
  PROVE  IInv'
<1> DEFINE r == [row[t] EXCEPT !.phase = "response_ready"]
<1>1. run[w] \in Runs /\ row[t] \in Rows /\ RunInv(w) /\ RowInv(t) /\ row' = [row EXCEPT ![t] = r]
  BY DEF IInv, TypeOK
<1>2. /\ r \in Rows /\ r.status = row[t].status /\ r.phase = "response_ready"
      /\ r.versions = row[t].versions /\ r.tries = row[t].tries /\ r.token = row[t].token
      /\ r.live = row[t].live /\ r.call = row[t].call /\ r.pinned = row[t].pinned
      /\ r.manifest = row[t].manifest
  BY <1>1 DEF Rows, Phase
<1>3. RowInv(t)'
  BY <1>1 DEF IInv, TypeOK, Rows, RowInv
<1> HIDE DEF r
<1>4. Grows(t, r) /\ Spares(t, r)
  BY <1>1, <1>2 DEF Grows, Spares, Unknown, InProgress, Owns
<1>5. row'[t] = r /\ reply' = reply
  BY <1>1 DEF IInv, TypeOK
<1>6. ASSUME NEW pc \in {"read", "stage"}, Goes(w, pc), pc = "stage" => reply[t] = "valid" PROVE IInv'
  <2> DEFINE x == [run[w] EXCEPT !.pc = pc]
  <2>1. /\ x \in Runs /\ run' = [run EXCEPT ![w] = x] /\ x.pc = pc
        /\ x.task = run[w].task /\ x.token = run[w].token /\ x.had = run[w].had
        /\ x.code = run[w].code /\ Keeps(w, x)
    BY <1>6, Going DEF Claimed, Working
  <2> HIDE DEF x
  <2>2. TypeOK' /\ run'[w] = x
    BY <1>1, <1>2, <2>1 DEF IInv, TypeOK
  <2>3. RunInv(w)'
    BY <1>1, <1>2, <1>5, <1>6, <2>1, <2>2 DEF RunInv, Answered, Claimed, Working
  <2> QED BY <1>3, <1>4, <1>6, <2>1, <2>2, <2>3, Growing
<1>7. ASSUME NEW code \in {"invalid", "trouble"}, Fails(w, code) PROVE IInv'
  <2> DEFINE x == [run[w] EXCEPT !.pc = "fail", !.code = code]
  <2>1. /\ x \in Runs /\ run' = [run EXCEPT ![w] = x] /\ x.pc = "fail"
        /\ x.task = run[w].task /\ x.token = run[w].token /\ x.had = run[w].had
        /\ x.code = code
    BY <1>1, <1>7 DEF IInv, TypeOK, Runs, Working, Fails
  <2> HIDE DEF x
  <2>2. TypeOK' /\ run'[w] = x
    BY <1>1, <1>2, <2>1 DEF IInv, TypeOK
  <2>3. RunInv(w)'
    BY <1>1, <1>2, <1>5, <2>1, <2>2 DEF RunInv, Answered, Claimed, Working
  <2> QED BY <1>3, <1>4, <2>1, <2>2, <2>3, Growing DEF Keeps
<1> QED BY <1>6, <1>7 DEF Refuses

LEMMA ReadyStep == ASSUME IInv, NEW w \in Worker, MarkReady(w) PROVE IInv'
<1>1. PICK t \in Task : t = run[w].task
  BY DEF IInv, RunInv, MarkReady, At
<1> QED BY <1>1, Readying DEF MarkReady, At, storage

LEMMA ConfirmStep == ASSUME IInv, NEW w \in Worker, ConfirmResponse(w) PROVE IInv'
<1>1. PICK t \in Task : t = run[w].task
  BY DEF IInv, RunInv, ConfirmResponse, At
<1>2. CASE NotLetThrough(w, FALSE)
  BY <1>2, TurnedBack DEF Answered, ConfirmResponse, At
<1>3. CASE ~NotLetThrough(w, FALSE)
  BY <1>1, <1>3, Readying DEF ConfirmResponse, At, storage
<1> QED BY <1>2, <1>3

LEMMA RecordStep == ASSUME IInv, NEW w \in Worker, RecordReceipt(w) PROVE IInv'
<1>1. PICK t \in Task : t = run[w].task
  BY DEF IInv, RunInv, RecordReceipt, At
<1> DEFINE r == [row[t] EXCEPT !.call = "received", !.pinned = TRUE, !.phase = "response_staging"]
           x == [run[w] EXCEPT !.pc = "put"]
<1>2. /\ run[w] \in Runs /\ run[w].pc = "record" /\ row[t] \in Rows /\ RunInv(w) /\ RowInv(t) /\ Owns(w)
      /\ row' = [row EXCEPT ![t] = r] /\ Goes(w, "put")
      /\ UNCHANGED <<object, outputs, reply, paid, queue, intents, grounds, faults>>
  BY <1>1 DEF IInv, TypeOK, RecordReceipt, At, storage
<1>3. /\ x \in Runs /\ run' = [run EXCEPT ![w] = x] /\ x.pc = "put"
      /\ x.task = run[w].task /\ x.token = run[w].token /\ x.had = run[w].had
      /\ x.code = run[w].code /\ Keeps(w, x)
  BY <1>2, Going DEF Claimed, Working
<1>4. /\ r \in Rows /\ r.status = row[t].status /\ r.phase = "response_staging"
      /\ r.versions = row[t].versions /\ r.tries = row[t].tries /\ r.token = row[t].token
      /\ r.live = row[t].live /\ r.call = "received" /\ r.pinned
      /\ r.manifest = row[t].manifest /\ r.retention = row[t].retention
  BY <1>2 DEF Rows, Phase
<1> HIDE DEF r, x
<1>5. TypeOK' /\ row'[t] = r /\ run'[w] = x
  BY <1>2, <1>3, <1>4 DEF IInv, TypeOK
<1>6. Grows(t, r) /\ Spares(t, r)
  BY <1>1, <1>2, <1>4 DEF Grows, Spares, Unknown, InProgress, Sent, Owns
<1>7. RowInv(t)'
  BY <1>1, <1>2, <1>4, <1>5 DEF RowInv, RunInv, Sent, Owns, Rows
<1>8. RunInv(w)'
  BY <1>1, <1>2, <1>3, <1>4, <1>5 DEF RunInv, Answered, Claimed, Working
<1> QED BY <1>2, <1>3, <1>5, <1>6, <1>7, <1>8, Growing

LEMMA CompleteStep == ASSUME IInv, NEW w \in Worker, Complete(w) PROVE IInv'
<1>1. PICK t \in Task : t = run[w].task
  BY DEF IInv, RunInv, Complete, At
<1>2. CASE NotLetThrough(w, TRUE)
  BY <1>2, TurnedBack DEF Answered, Complete, At
<1>3. CASE ~NotLetThrough(w, TRUE)
  <2> DEFINE r == [row[t] EXCEPT !.versions = @ + 1, !.status = "adopted", !.phase = "completed",
                                 !.token = 0, !.live = FALSE]
  <2>1. /\ run[w] \in Runs /\ run[w].pc = "commit" /\ row[t] \in Rows /\ RunInv(w) /\ RowInv(t) /\ Owns(w)
        /\ row' = [row EXCEPT ![t] = r] /\ run' = [run EXCEPT ![w] = Idle]
        /\ UNCHANGED <<object, outputs, reply, paid, queue, intents, grounds, faults>>
    BY <1>1, <1>3 DEF IInv, TypeOK, Complete, Admitted, At, Ends, storage
  <2>2. /\ r.status = "adopted" /\ r.phase = "completed" /\ r.versions = 1 /\ r.token = 0 /\ ~r.live
        /\ r.tries = row[t].tries /\ r.call = row[t].call /\ r.pinned = row[t].pinned
        /\ r.manifest = row[t].manifest /\ r.retention = row[t].retention
    BY <1>1, <2>1 DEF Rows, Owns
  <2>3. r \in Rows
    <3> DEFINE a == [row[t] EXCEPT !.versions = 1, !.status = "adopted", !.phase = "completed"]
    <3>1. a \in Rows
      BY <2>1 DEF Rows, Phase, TerminalPhase
    <3>2. 0 \in 0..Tries
      BY PodAssumption
    <3>3. r = [a EXCEPT !.token = 0, !.live = FALSE]
      BY <1>1, <2>1 DEF Rows, Owns
    <3> HIDE DEF a, r
    <3> QED BY <3>1, <3>2, <3>3 DEF Rows
  <2> HIDE DEF r
  <2>4. Idle \in Runs /\ Idle.token = 0 /\ Idle.pc = "idle"
    BY PodAssumption DEF Idle, Runs
  <2>5. TypeOK' /\ row'[t] = r /\ run'[w] = Idle
    BY <2>1, <2>3, <2>4 DEF IInv, TypeOK
  <2>6. Grows(t, r) /\ Spares(t, r)
    BY <2>1, <2>2, <2>3 DEF Grows, Spares, Unknown, InProgress, TerminalPhase
  <2>7. r.pinned /\ r.manifest /\ outputs[t] /\ reply[t] = "valid"
    BY <1>1, <2>1, <2>2 DEF RunInv, Answered, Owns, Leases
  <2>8. RowInv(t)'
    BY <2>1, <2>2, <2>5, <2>7 DEF RowInv, Rows
  <2>9. RunInv(w)'
    BY <2>4, <2>5 DEF RunInv
  <2> QED BY <2>1, <2>4, <2>5, <2>6, <2>8, <2>9, Growing DEF Keeps
<1> QED BY <1>2, <1>3

\* The outputs of a task are stored, or some of them, and the run goes on or gives up.
LEMMA UploadStep == ASSUME IInv, NEW w \in Worker, UploadOutputs(w) PROVE IInv'
<1>1. PICK t \in Task : t = run[w].task
  BY DEF IInv, RunInv, UploadOutputs, At
<1>2. /\ run[w] \in Runs /\ run[w].pc = "upload" /\ row[t] \in Rows /\ RunInv(w)
      /\ UNCHANGED <<row, object, reply, paid, queue, intents, grounds>>
  BY <1>1 DEF IInv, TypeOK, UploadOutputs, At
<1>3. PICK stored \in BOOLEAN : outputs' = [outputs EXCEPT ![t] = stored] /\ (outputs[t] => stored)
                                /\ (Goes(w, "commit") => stored) /\ faults' \in 0..MaxFaults
                                /\ (Goes(w, "commit") \/ Fails(w, "trouble"))
  <2>1. CASE Goes(w, "commit") /\ outputs' = [outputs EXCEPT ![t] = TRUE] /\ UNCHANGED faults
    BY <2>1 DEF IInv, TypeOK
  <2>2. CASE /\ Fault("storage") /\ Fails(w, "trouble")
             /\ \E stored \in {outputs[t], TRUE} : outputs' = [outputs EXCEPT ![t] = stored]
    <3>1. ~Goes(w, "commit")
      BY <1>2, <2>2 DEF IInv, TypeOK, Goes, Fails, Runs
    <3> QED BY <2>2, <3>1, FaultCounts DEF IInv, TypeOK
  <2> QED BY <1>1, <2>1, <2>2 DEF UploadOutputs
<1>4. /\ run' \in [Worker -> Runs] /\ \A v \in Worker \ {w} : run'[v] = run[v]
      /\ run'[w].task = t /\ run'[w].token = run[w].token /\ run'[w].had = run[w].had
      /\ \/ run'[w].pc = "fail" /\ run'[w].code = "trouble"
         \/ run'[w].pc = "commit" /\ stored
  <2>1. CASE Goes(w, "commit")
    <3>1. [run[w] EXCEPT !.pc = "commit"] \in Runs
      BY <1>2 DEF Runs, Working
    <3> QED BY <1>1, <1>2, <1>3, <2>1, <3>1 DEF IInv, TypeOK, Goes, Runs
  <2>2. CASE Fails(w, "trouble")
    <3>1. [run[w] EXCEPT !.pc = "fail", !.code = "trouble"] \in Runs
      BY <1>2 DEF Runs, Working
    <3> QED BY <1>1, <1>2, <2>2, <3>1 DEF IInv, TypeOK, Fails, Runs
  <2> QED BY <1>3, <2>1, <2>2
<1>5. TypeOK' /\ row' = row /\ reply' = reply /\ outputs'[t] = stored
  BY <1>2, <1>3, <1>4 DEF IInv, TypeOK
<1>6. RunInv(w)'
  BY <1>1, <1>2, <1>4, <1>5 DEF RunInv, Answered, Claimed, Working
<1>7. ASSUME NEW s \in Task PROVE RowInv(s)'
  BY <1>2, <1>3 DEF IInv, TypeOK, RowInv
<1>8. Grows(t, row[t]) /\ Spares(t, row[t])
  BY <1>2 DEF IInv, TypeOK, Grows, Spares
<1>9. ASSUME NEW v \in Worker, v # w PROVE RunInv(v)'
  <2>1. run'[v] = run[v] /\ (row[t].live /\ outputs[t] => outputs'[t]) /\ \A s \in Task \ {t} : outputs'[s] = outputs[s]
    BY <1>3, <1>4, <1>9 DEF IInv, TypeOK
  <2> QED BY <1>2, <1>8, <2>1, Unmoved
<1>10. ASSUME NEW u \in Worker, NEW v \in Worker PROVE Distinct(u, v)'
  BY <1>1, <1>2, <1>4 DEF IInv, TypeOK, Distinct
<1> QED BY <1>5, <1>6, <1>7, <1>9, <1>10 DEF IInv

LEMMA CallStep == ASSUME IInv, NEW w \in Worker, CallGateway(w) PROVE IInv'
<1>1. PICK t \in Task : t = run[w].task
  BY DEF IInv, RunInv, CallGateway, At
<1>2. /\ run[w] \in Runs /\ run[w].pc = "call" /\ row[t] \in Rows /\ RunInv(w) /\ RowInv(t)
      /\ paid' = [paid EXCEPT ![t] = @ + 1] /\ paid[t] = 0
      /\ UNCHANGED <<row, object, outputs, queue, intents, grounds>>
  BY <1>1 DEF IInv, TypeOK, RunInv, CallGateway, At, storage
<1>3. row[t].call \in Sent /\ ~row[t].pinned /\ row[t].versions = 0
  BY <1>1, <1>2 DEF RunInv, RowInv, Rows
<1>4. /\ run' \in [Worker -> Runs] /\ \A v \in Worker \ {w} : run'[v] = run[v]
      /\ run'[w].task = t /\ run'[w].token = run[w].token /\ run'[w].had = run[w].had
      /\ \/ run'[w].pc = "record"
         \/ run'[w].pc = "fail" /\ run'[w].code = "trouble"
  <2>1. CASE Goes(w, "record")
    <3>1. [run[w] EXCEPT !.pc = "record"] \in Runs
      BY <1>2 DEF Runs, Working
    <3> QED BY <1>1, <1>2, <2>1, <3>1 DEF IInv, TypeOK, Goes, Runs
  <2>2. CASE Fails(w, "trouble")
    <3>1. [run[w] EXCEPT !.pc = "fail", !.code = "trouble"] \in Runs
      BY <1>2 DEF Runs, Working
    <3> QED BY <1>1, <1>2, <2>2, <3>1 DEF IInv, TypeOK, Fails, Runs
  <2> QED BY <2>1, <2>2 DEF CallGateway
<1>5. reply' \in [Task -> {"none", "valid", "invalid"}] /\ \A s \in Task \ {t} : reply'[s] = reply[s]
  BY <1>1 DEF IInv, TypeOK, CallGateway
<1>6. faults' \in 0..MaxFaults
  BY FaultCounts DEF IInv, TypeOK, CallGateway
<1>7. paid' = [paid EXCEPT ![t] = 1]
  BY <1>2
<1>12. paid'[t] = 1 /\ \A s \in Task \ {t} : paid'[s] = paid[s]
  BY <1>7 DEF IInv, TypeOK
<1>13. TypeOK'
  <2>1. paid' \in [Task -> Nat]
    BY <1>7 DEF IInv, TypeOK
  <2>2. UNCHANGED <<row, object, outputs, queue, intents, grounds>> /\ TypeOK
    BY <1>2 DEF IInv
  <2> QED BY <1>4, <1>5, <1>6, <2>1, <2>2 DEF TypeOK
<1>8. ASSUME NEW s \in Task PROVE RowInv(s)'
  <2>1. CASE s = t
    BY <1>2, <1>3, <1>12, <2>1 DEF RowInv
  <2>2. CASE s # t
    BY <1>2, <1>5, <1>12, <2>2 DEF IInv, RowInv
  <2> QED BY <2>1, <2>2
<1>9. RunInv(w)'
  BY <1>1, <1>2, <1>3, <1>4, <1>12 DEF RunInv, Answered, Claimed, Working
<1>10. ASSUME NEW v \in Worker, v # w PROVE RunInv(v)'
  <2>1. run'[v] = run[v] /\ RunInv(v) /\ Distinct(v, w) /\ row' = row /\ outputs' = outputs
    BY <1>2, <1>4, <1>10 DEF IInv, TypeOK
  <2>2. CASE run[v].task = t
    BY <1>1, <1>2, <1>3, <1>12, <1>10, <2>1, <2>2 DEF RunInv, Leases, Distinct, Answered
  <2>3. CASE run[v].task # t
    BY <1>5, <1>12, <2>1, <2>3 DEF RunInv, Leases
  <2> QED BY <2>2, <2>3
<1>11. ASSUME NEW u \in Worker, NEW v \in Worker PROVE Distinct(u, v)'
  BY <1>1, <1>2, <1>4 DEF IInv, TypeOK, Distinct
<1> QED BY <1>13, <1>8, <1>9, <1>10, <1>11 DEF IInv

LEMMA FailStep == ASSUME IInv, NEW w \in Worker, Fail(w) PROVE IInv'
<1>1. PICK t \in Task : t = run[w].task
  BY DEF IInv, RunInv, Fail, At
<1> DEFINE code == run[w].code
<1>2. /\ run[w] \in Runs /\ run[w].pc = "fail" /\ row[t] \in Rows /\ RunInv(w) /\ RowInv(t)
      /\ run' = [run EXCEPT ![w] = Idle] /\ queue' \in [Task -> 0..Backlog]
      /\ UNCHANGED <<object, outputs, reply, paid, intents, grounds, faults>>
  BY <1>1, ComesAgain DEF IInv, TypeOK, Fail, At, Ends, storage
<1>3. Idle \in Runs /\ Idle.token = 0 /\ Idle.pc = "idle"
  BY PodAssumption DEF Idle, Runs
<1>4. CASE Lost(w)
  <2>1. UNCHANGED row
    BY <1>4 DEF Fail
  <2> QED BY <1>2, <2>1, Ending DEF Fail, IInv, TypeOK
<1>5. ASSUME ~Lost(w), NEW r \in Rows, row' = [row EXCEPT ![t] = r], Grows(t, r), Spares(t, r), RowInv(t)'
      PROVE  IInv'
  <2>1. TypeOK'
    BY <1>2, <1>3, <1>5 DEF IInv, TypeOK
  <2>2. RunInv(w)'
    BY <1>2, <1>3 DEF IInv, TypeOK, RunInv
  <2> QED BY <1>2, <1>3, <1>5, <2>1, <2>2, Growing DEF Keeps
<1>6. ~Lost(w) => InProgress(row[t]) /\ (run[w].token = 0 => ~row[t].live)
                  /\ (run[w].token # 0 => Leases(w))
  BY <1>1 DEF Lost, Leases
<1>7. CASE ~Lost(w) /\ Retries(row[t], code)
  <2> DEFINE r == [row[t] EXCEPT !.phase = IF row[t].pinned THEN @ ELSE "pending",
                             !.status = IF row[t].pinned THEN "running" ELSE "queued",
                             !.error = "pending", !.token = 0, !.live = FALSE,
                             !.due = FALSE]
  <2>1. row' = [row EXCEPT ![t] = r] /\ ~Unknown(row[t])
    BY <1>1, <1>7, ZenonT(40) DEF Fail, Retries
  <2>2. /\ r.phase = (IF row[t].pinned THEN row[t].phase ELSE "pending")
        /\ r.status \in {"running", "queued"} /\ r.token = 0 /\ ~r.live
        /\ r.versions = row[t].versions /\ r.tries = row[t].tries /\ r.call = row[t].call
        /\ r.pinned = row[t].pinned /\ r.manifest = row[t].manifest /\ r.retention = row[t].retention
    BY <1>2 DEF Rows
  <2>3. r \in Rows
    <3> DEFINE a == [row[t] EXCEPT !.phase = IF row[t].pinned THEN @ ELSE "pending"]
               b == [a EXCEPT !.status = IF row[t].pinned THEN "running" ELSE "queued"]
               c == [b EXCEPT !.error = "pending", !.token = 0, !.live = FALSE, !.due = FALSE]
    <3>1. a \in Rows
      BY <1>2 DEF Rows, Phase
    <3>2. b \in Rows
      <4> HIDE DEF a
      <4> QED BY <1>2, <3>1 DEF Rows
    <3>3. c \in Rows
      <4>1. 0 \in 0..Tries
        BY PodAssumption
      <4> HIDE DEF b
      <4> QED BY <3>2, <4>1 DEF Rows
    <3>4. r = c
      BY <1>2 DEF Rows
    <3> QED BY <3>3, <3>4
  <2> HIDE DEF r
  <2>4. row'[t] = r /\ ~Unknown(r)
    BY <2>1, <2>2 DEF IInv, TypeOK, Unknown
  <2>5. Grows(t, r) /\ Spares(t, r)
    BY <2>1, <2>2, <2>3, <2>4 DEF Grows, Spares
  <2>6. RowInv(t)'
    <3>1. r.tries \in Nat /\ row[t].phase \notin TerminalPhase
      BY <1>2, <1>6, <1>7, <2>2 DEF Rows, InProgress
    <3> QED BY <1>2, <2>2, <2>4, <3>1 DEF RowInv, TerminalPhase
  <2> QED BY <1>5, <1>7, <2>1, <2>3, <2>5, <2>6
<1>8. CASE ~Lost(w) /\ ~Retries(row[t], code)
  <2>1. PICK end \in Code : end = EndOf(row[t], code)
    BY DEF EndOf, Code
  <2>2. row' = [row EXCEPT ![t] = Stopped(row[t], end)]
    BY <1>1, <1>8, <2>1 DEF Fail
  <2>3. end # "uncertain" => ~Unknown(row[t]) \/ Stall
    BY <1>1, <1>2, <1>6, <1>8, <2>1 DEF EndOf, RunInv
  <2>4. /\ Stopped(row[t], end) \in Rows /\ Grows(t, Stopped(row[t], end))
        /\ Spares(t, Stopped(row[t], end)) /\ RowInv(t)'
    BY <1>2, <2>2, <2>3, Stopping
  <2> QED BY <1>5, <1>8, <2>2, <2>4
<1> QED BY <1>4, <1>7, <1>8
-----------------------------------------------------------------------------
(***************************************************************************)
(* Steps of the dispatchers, of time and of the world.                     *)
(***************************************************************************)
\* No run moves.
LEMMA Resting ==
  ASSUME IInv, NEW t \in Task, NEW r, Grows(t, r), Spares(t, r),
         UNCHANGED <<reply, paid, run>>, r.live /\ outputs[t] => outputs'[t],
         \A s \in Task \ {t} : outputs'[s] = outputs[s],
         TypeOK', RowInv(t)'
  PROVE  IInv'
<1>1. ASSUME NEW s \in Task PROVE RowInv(s)'
  <2>1. CASE s = t
    BY <2>1
  <2>2. CASE s # t
    BY <2>2 DEF IInv, TypeOK, RowInv, Grows
  <2> QED BY <2>1, <2>2
<1>2. ASSUME NEW v \in Worker PROVE RunInv(v)'
  BY Unmoved
<1>3. ASSUME NEW u \in Worker, NEW v \in Worker PROVE Distinct(u, v)'
  BY DEF IInv, Distinct
<1> QED BY <1>1, <1>2, <1>3 DEF IInv

\* Only when and by whom the task is to be run next changes, or a new task is there.
Same(r, o) ==
  /\ r.phase = o.phase /\ r.versions = o.versions /\ r.tries = o.tries /\ r.token = o.token
  /\ r.live = o.live /\ r.call = o.call /\ r.pinned = o.pinned /\ r.retention = o.retention
  /\ r.manifest = o.manifest
  /\ r.status = o.status \/ (o.status = "absent" /\ r.status = "queued")

LEMMA Outward ==
  ASSUME IInv, NEW t \in Task, NEW r \in Rows, row' = [row EXCEPT ![t] = r], Same(r, row[t]),
         UNCHANGED <<object, outputs, reply, paid, run>>,
         queue' \in [Task -> 0..Backlog], intents' \subseteq Dispatcher \X Task,
         grounds' \in [Task -> {"current", "paused", "revoked"}], faults' \in 0..MaxFaults
  PROVE  IInv'
<1>1. TypeOK' /\ row'[t] = r /\ row[t] \in Rows /\ RowInv(t)
  BY DEF IInv, TypeOK
<1>2. RowInv(t)'
  BY <1>1 DEF RowInv, Same
<1>3. row[t].status = "absent" => ~Unknown(r)
  BY <1>1 DEF RowInv, Same, Unknown
<1>4. Grows(t, r) /\ Spares(t, r)
  BY <1>1, <1>3 DEF Grows, Spares, Same, Unknown, InProgress
<1> QED BY <1>1, <1>2, <1>4, Resting DEF IInv, TypeOK

LEMMA GroundsStep == ASSUME IInv, NEW t \in Task, GroundsChange(t) PROVE IInv'
<1>1. row[t] \in Rows /\ row' = [row EXCEPT ![t] = row[t]] /\ Same(row[t], row[t])
  BY DEF IInv, TypeOK, Same, GroundsChange
<1>2. grounds' \in [Task -> {"current", "paused", "revoked"}] /\ faults' \in 0..MaxFaults
  BY FaultCounts DEF IInv, TypeOK, GroundsChange
<1> QED BY <1>1, <1>2, Outward DEF IInv, TypeOK, GroundsChange, storage

LEMMA IntentStep ==
  ASSUME IInv, NEW t \in Task, NEW d \in Dispatcher, Enqueue(d, t) \/ DispatcherDies(d, t)
  PROVE  IInv'
<1>1. row[t] \in Rows /\ row' = [row EXCEPT ![t] = row[t]] /\ Same(row[t], row[t])
  BY DEF IInv, TypeOK, Same, Enqueue, DispatcherDies
<1>2. queue' \in [Task -> 0..Backlog] /\ faults' \in 0..MaxFaults /\ intents' \subseteq Dispatcher \X Task
  BY OwedCounts, FaultCounts DEF IInv, TypeOK, Enqueue, DispatcherDies
<1> QED BY <1>1, <1>2, Outward DEF IInv, TypeOK, Enqueue, DispatcherDies, storage

LEMMA EnqueueFailsStep ==
  ASSUME IInv, NEW t \in Task, NEW d \in Dispatcher, EnqueueFails(d, t) PROVE IInv'
<1> DEFINE r == [row[t] EXCEPT !.throttled = IF Reopened(d, t) THEN FALSE ELSE @,
                               !.error = IF d # "scheduler" /\ row[t].status = "queued"
                                         THEN "queue" ELSE @]
<1>1. row[t] \in Rows /\ row' = [row EXCEPT ![t] = r]
  BY DEF IInv, TypeOK, EnqueueFails
<1>2. r \in Rows /\ Same(r, row[t])
  <2>1. CASE Reopened(d, t)
    BY <1>1, <2>1, ZenonT(40) DEF Rows, Same
  <2>2. CASE ~Reopened(d, t)
    BY <1>1, <2>2 DEF Rows, Same
  <2> QED BY <2>1, <2>2
<1>3. faults' \in 0..MaxFaults /\ intents' \subseteq Dispatcher \X Task
  BY FaultCounts DEF IInv, TypeOK, EnqueueFails
<1> HIDE DEF r
<1> QED BY <1>1, <1>2, <1>3, Outward DEF IInv, TypeOK, EnqueueFails, storage

LEMMA CreateStep == ASSUME IInv, NEW t \in Task, Create(t) PROVE IInv'
<1>1. row[t] \in Rows /\ row[t].status = "absent"
      /\ UNCHANGED <<object, outputs, reply, paid, queue, run, grounds, faults>>
  BY DEF IInv, TypeOK, Create, storage
<1>2. CASE /\ "owner" \in Dispatcher
           /\ row' = [row EXCEPT ![t].status = "queued", ![t].sentBy = "owner", ![t].throttled = TRUE]
           /\ intents' = intents \cup {<<"owner", t>>}
  <2> DEFINE r == [row[t] EXCEPT !.status = "queued", !.sentBy = "owner", !.throttled = TRUE]
  <2>1. r \in Rows /\ Same(r, row[t]) /\ row' = [row EXCEPT ![t] = r]
    BY <1>1, <1>2 DEF Rows, Same
  <2>2. intents' \subseteq Dispatcher \X Task
    BY <1>2 DEF IInv, TypeOK
  <2> HIDE DEF r
  <2> QED BY <1>1, <2>1, <2>2, Outward DEF IInv, TypeOK
<1>3. CASE row' = [row EXCEPT ![t].status = "queued"] /\ UNCHANGED intents
  <2> DEFINE r == [row[t] EXCEPT !.status = "queued"]
  <2>1. r \in Rows /\ Same(r, row[t]) /\ row' = [row EXCEPT ![t] = r]
    BY <1>1, <1>3 DEF Rows, Same
  <2> HIDE DEF r
  <2> QED BY <1>1, <1>3, <2>1, Outward DEF IInv, TypeOK
<1> QED BY <1>2, <1>3 DEF Create

LEMMA SendStep ==
  ASSUME IInv, NEW t \in Task, DispatchPending(t) \/ Reserve(t) PROVE IInv'
<1>1. PICK d \in Dispatcher : /\ intents' = intents \cup {<<d, t>>}
                              /\ \/ row' = [row EXCEPT ![t].sentBy = d, ![t].throttled = TRUE]
                                 \/ row' = row
  BY DEF DispatchPending, Reserve
<1>2. row[t] \in Rows /\ UNCHANGED <<object, outputs, reply, paid, queue, run, grounds, faults>>
      /\ intents' \subseteq Dispatcher \X Task
  BY <1>1 DEF IInv, TypeOK, DispatchPending, Reserve, storage
<1>3. CASE row' = [row EXCEPT ![t].sentBy = d, ![t].throttled = TRUE]
  <2> DEFINE r == [row[t] EXCEPT !.sentBy = d, !.throttled = TRUE]
  <2>1. r \in Rows /\ Same(r, row[t]) /\ row' = [row EXCEPT ![t] = r]
    BY <1>2, <1>3 DEF Rows, Same
  <2> HIDE DEF r
  <2> QED BY <1>2, <2>1, Outward DEF IInv, TypeOK
<1>4. CASE row' = row
  <2>1. Same(row[t], row[t]) /\ row' = [row EXCEPT ![t] = row[t]]
    BY <1>4 DEF IInv, TypeOK, Same
  <2> QED BY <1>2, <2>1, Outward DEF IInv, TypeOK
<1> QED BY <1>1, <1>3, <1>4

LEMMA TimeStep ==
  ASSUME IInv, NEW t \in Task, BecomesDue(t) \/ ThrottleLapses(t) PROVE IInv'
<1>1. row[t] \in Rows /\ UNCHANGED <<object, outputs, reply, paid, queue, intents, run, grounds, faults>>
  BY DEF IInv, TypeOK, BecomesDue, ThrottleLapses, storage
<1>2. CASE row' = [row EXCEPT ![t].due = TRUE]
  <2> DEFINE r == [row[t] EXCEPT !.due = TRUE]
  <2>1. r \in Rows /\ Same(r, row[t]) /\ row' = [row EXCEPT ![t] = r]
    BY <1>1, <1>2 DEF Rows, Same
  <2> HIDE DEF r
  <2> QED BY <1>1, <2>1, Outward DEF IInv, TypeOK
<1>3. CASE row' = [row EXCEPT ![t].throttled = FALSE]
  <2> DEFINE r == [row[t] EXCEPT !.throttled = FALSE]
  <2>1. r \in Rows /\ Same(r, row[t]) /\ row' = [row EXCEPT ![t] = r]
    BY <1>1, <1>3 DEF Rows, Same
  <2> HIDE DEF r
  <2> QED BY <1>1, <2>1, Outward DEF IInv, TypeOK
<1> QED BY <1>2, <1>3 DEF BecomesDue, ThrottleLapses

LEMMA LapseStep == ASSUME IInv, NEW t \in Task, LeaseLapses(t) PROVE IInv'
<1> DEFINE r == [row[t] EXCEPT !.live = FALSE]
<1>1. row[t] \in Rows /\ RowInv(t) /\ row' = [row EXCEPT ![t] = r]
      /\ UNCHANGED <<object, outputs, reply, paid, queue, intents, run, grounds>>
  BY DEF IInv, TypeOK, LeaseLapses, storage
<1>2. /\ r \in Rows /\ ~r.live /\ r.status = row[t].status /\ r.phase = row[t].phase
      /\ r.versions = row[t].versions /\ r.tries = row[t].tries /\ r.token = row[t].token
      /\ r.call = row[t].call /\ r.pinned = row[t].pinned /\ r.retention = row[t].retention
      /\ r.manifest = row[t].manifest
  BY <1>1 DEF Rows
<1>3. faults' \in 0..MaxFaults /\ ((\E w \in Worker : Refusing(w, t)) => Stall)
  <2>1. CASE \E w \in Worker : Refusing(w, t)
    BY <2>1, FaultCounts DEF LeaseLapses, IInv, Fault, Stall
  <2>2. CASE ~\E w \in Worker : Refusing(w, t)
    BY <2>2, FaultCounts DEF LeaseLapses, IInv, TypeOK
  <2> QED BY <2>1, <2>2
<1> HIDE DEF r
<1>4. TypeOK' /\ row'[t] = r
  BY <1>1, <1>2, <1>3 DEF IInv, TypeOK
<1>5. RowInv(t)'
  BY <1>1, <1>2, <1>4 DEF RowInv
<1>6. Grows(t, r) /\ Spares(t, r)
  BY <1>1, <1>2, <1>3 DEF Grows, Spares, Unknown, InProgress
<1> QED BY <1>1, <1>2, <1>4, <1>5, <1>6, Resting

LEMMA ExpireStep == ASSUME IInv, NEW t \in Task, ResponseExpires(t) PROVE IInv'
<1> DEFINE r == [row[t] EXCEPT !.retention = "expired"]
<1>1. row[t] \in Rows /\ RowInv(t) /\ row' = [row EXCEPT ![t] = r] /\ row[t].pinned
      /\ UNCHANGED <<object, outputs, reply, paid, queue, intents, run, grounds, faults>>
  BY DEF IInv, TypeOK, ResponseExpires, storage
<1>2. /\ r \in Rows /\ r.live = row[t].live /\ r.status = row[t].status /\ r.phase = row[t].phase
      /\ r.versions = row[t].versions /\ r.tries = row[t].tries /\ r.token = row[t].token
      /\ r.call = row[t].call /\ r.pinned = row[t].pinned /\ r.manifest = row[t].manifest
  BY <1>1 DEF Rows
<1> HIDE DEF r
<1>3. TypeOK' /\ row'[t] = r
  BY <1>1, <1>2 DEF IInv, TypeOK
<1>4. RowInv(t)'
  BY <1>1, <1>2, <1>3 DEF RowInv
<1>5. Grows(t, r) /\ Spares(t, r)
  BY <1>1, <1>2 DEF Grows, Spares, Unknown, InProgress
<1> QED BY <1>1, <1>2, <1>3, <1>4, <1>5, Resting

LEMMA PurgeStep == ASSUME IInv, NEW t \in Task, Purge(t) PROVE IInv'
<1> DEFINE s == IF row[t].phase \in TerminalPhase THEN row[t] ELSE Stopped(row[t], "expired")
           r == [s EXCEPT !.retention = "purged"]
<1>1. row[t] \in Rows /\ RowInv(t) /\ row' = [row EXCEPT ![t] = r] /\ row[t].pinned /\ ~row[t].live
      /\ outputs' = [outputs EXCEPT ![t] = @ /\ ~(row[t].manifest /\ row[t].versions = 0)]
      /\ object' = [object EXCEPT ![t] = FALSE]
      /\ UNCHANGED <<reply, paid, queue, intents, run, grounds, faults>>
  BY DEF IInv, TypeOK, RowInv, Purge
<1>2. /\ s \in Rows /\ ~s.live /\ s.phase \in TerminalPhase
      /\ s.status # "absent" \/ s.status = row[t].status
      /\ s.versions = row[t].versions /\ s.tries = row[t].tries /\ s.token \in {0, row[t].token}
      /\ s.call = row[t].call /\ s.pinned = row[t].pinned /\ s.manifest = row[t].manifest
  <2>1. CASE row[t].phase \in TerminalPhase
    BY <1>1, <2>1
  <2>2. CASE row[t].phase \notin TerminalPhase
    BY <1>1, <2>2, StoppedIsRow DEF Code
  <2> QED BY <2>1, <2>2
<1> HIDE DEF s
<1>3. /\ r \in Rows /\ ~r.live /\ r.phase \in TerminalPhase /\ r.status = s.status
      /\ r.versions = row[t].versions /\ r.tries = row[t].tries /\ r.token = s.token
      /\ r.call = row[t].call /\ r.pinned = row[t].pinned /\ r.manifest = row[t].manifest
  BY <1>2 DEF Rows
<1> HIDE DEF r
<1>4. TypeOK' /\ row'[t] = r
  BY <1>1, <1>3 DEF IInv, TypeOK
<1>5. Grows(t, r) /\ Spares(t, r)
  BY <1>1, <1>3 DEF Grows, Spares, Unknown, InProgress
<1>6. row[t].versions > 0 => outputs'[t] = outputs[t]
  BY <1>1 DEF IInv, TypeOK, Rows
<1>7. RowInv(t)'
  <2>1. r.token <= r.tries
    BY <1>1, <1>2, <1>3 DEF Rows, RowInv
  <2>2. r.status # "absent"
    BY <1>1, <1>2, <1>3 DEF RowInv
  <2> QED BY <1>1, <1>3, <1>4, <1>6, <2>1, <2>2 DEF RowInv
<1>8. \A u \in Task \ {t} : outputs'[u] = outputs[u]
  BY <1>1 DEF IInv, TypeOK
<1> QED BY <1>1, <1>3, <1>4, <1>5, <1>7, <1>8, Resting

LEMMA PurgeBreaksStep == ASSUME IInv, NEW t \in Task, PurgeBreaks(t) PROVE IInv'
<1>1. row[t] \in Rows /\ RowInv(t) /\ ~row[t].live
      /\ outputs' = [outputs EXCEPT ![t] = @ /\ ~(row[t].manifest /\ row[t].versions = 0)]
      /\ object' \in [Task -> BOOLEAN] /\ faults' \in 0..MaxFaults
      /\ UNCHANGED <<row, reply, paid, queue, intents, run, grounds>>
  BY FaultCounts DEF IInv, TypeOK, PurgeBreaks
<1>2. TypeOK'
  BY <1>1 DEF IInv, TypeOK
<1>3. Grows(t, row[t]) /\ Spares(t, row[t])
  BY <1>1 DEF IInv, TypeOK, Grows, Spares
<1>4. row[t].versions > 0 => outputs'[t] = outputs[t]
  BY <1>1 DEF IInv, TypeOK, Rows
<1>5. RowInv(t)'
  BY <1>1, <1>4 DEF RowInv
<1>6. \A u \in Task \ {t} : outputs'[u] = outputs[u]
  BY <1>1 DEF IInv, TypeOK
<1> QED BY <1>1, <1>2, <1>3, <1>5, <1>6, Resting
-----------------------------------------------------------------------------
(***************************************************************************)
(* The theorems.                                                           *)
(***************************************************************************)
LEMMA Start == ASSUME Init PROVE IInv
<1>1. NoRow \in Rows /\ Idle \in Runs
  BY PodAssumption DEF NoRow, Idle, Rows, Runs, Phase
<1>2. TypeOK
  BY <1>1, PodAssumption DEF Init, TypeOK
<1>3. ASSUME NEW t \in Task PROVE RowInv(t)
  BY DEF Init, RowInv, NoRow, Sent
<1>4. ASSUME NEW w \in Worker PROVE RunInv(w)
  BY DEF Init, RunInv, Idle
<1>5. ASSUME NEW v \in Worker, NEW w \in Worker PROVE Distinct(v, w)
  BY DEF Init, Distinct, Idle
<1> QED BY <1>2, <1>3, <1>4, <1>5 DEF IInv

LEMMA Inductive == ASSUME IInv, [Next]_vars PROVE IInv'
<1>1. ASSUME NEW t \in Task, Dispatch(t) PROVE IInv'
  BY <1>1, CreateStep, SendStep, IntentStep, EnqueueFailsStep DEF Dispatch
<1>2. ASSUME NEW t \in Task, Maintain(t) PROVE IInv'
  BY <1>2, PurgeStep, PurgeBreaksStep, TimeStep, LapseStep, ExpireStep, GroundsStep DEF Maintain
<1>3. ASSUME NEW w \in Worker, Step(w) PROVE IInv'
  BY <1>3, ClaimNothingStep, ClaimStopsStep, ClaimRefusedStep, ClaimStep, LoadStep, SubmitStep,
     SubmitRefusedStep, CallStep, RecordStep, RecordRefusedStep, PutStep, ReadyStep, ReadStep,
     FetchStep, ConfirmStep, StageStep, UploadStep, CompleteStep, FailStep DEF Step
<1>4. ASSUME NEW w \in Worker, WorkerDies(w) \/ \E t \in Task : Deliver(w, t) PROVE IInv'
  BY <1>4, DieStep, DeliverStep
<1>5. CASE UNCHANGED vars
  BY <1>5 DEF IInv, TypeOK, RowInv, RunInv, Distinct, Leases, vars, storage
<1> QED BY <1>1, <1>2, <1>3, <1>4, <1>5 DEF Next

\* The inductive invariant behind the theorems below: what the rows prove about the payment
\* and the answer, and what a worker's run may rely on, whoever holds the lease
\* (pod-artwork-recovery.ts).
THEOREM PodInvariance == Spec => []IInv
<1>1. Init => IInv
  BY Start
<1>2. IInv /\ [Next]_vars => IInv'
  BY Inductive
<1> QED BY <1>1, <1>2, PTL DEF Spec

\* The rows, the storage and the runs keep their shape, and no task is attempted more often
\* than Tries (pod-artwork-recovery.ts:45, claim).
THEOREM PodTypes == Spec => []TypeOK
<1>1. IInv => TypeOK
  BY DEF IInv
<1> QED BY <1>1, PodInvariance, PTL

\* Whatever is delivered, dies or lapses, in any order and number, the provider is called at
\* most once for a task (markSubmitted, before the call, under the row's lock).
THEOREM PodPaysOnce == Spec => []PaidOnce
<1>1. IInv => PaidOnce
  BY DEF IInv, RowInv, PaidOnce
<1> QED BY <1>1, PodInvariance, PTL

\* A design version comes from the one answer that was paid for, recorded and found valid, and
\* there is one at most (complete and read of pod-artwork-recovery.ts).
THEOREM PodAdoptsWhatIsSaved == Spec => []AdoptedIsSaved
<1>1. IInv => AdoptedIsSaved
  <2> SUFFICES ASSUME IInv, NEW t \in Task, row[t].versions > 0
               PROVE  /\ row[t].versions = 1 /\ paid[t] = 1
                      /\ row[t].pinned /\ row[t].manifest /\ outputs[t]
                      /\ reply[t] = "valid"
    BY DEF AdoptedIsSaved
  <2> QED BY DEF IInv, RowInv
<1> QED BY <1>1, PodInvariance, PTL

-----------------------------------------------------------------------------
(***************************************************************************)
(* What the storage keeps, where no worker is slower than its lease.       *)
(***************************************************************************)
Punctual == "slow" \notin Faults /\ ~Stall

\* Whoever was given a lease holds it until it ends.
Held(w) == run[w].pc # "idle" /\ run[w].token # 0 => Leases(w)

\* Outputs are where the manifest says, and a purged task is over.
Clean(t) ==
  /\ outputs[t] => row[t].manifest
  /\ row[t].retention = "purged" =>
       /\ row[t].phase \in TerminalPhase /\ ~row[t].live
       /\ ~object[t] /\ (outputs[t] => row[t].versions = 1)

Kept ==
  /\ \A w \in Worker : Held(w)
  /\ \A t \in Task : Clean(t)

\* A run that is still the one it was, or has no token.
Follows(v) ==
  \/ run'[v].pc = "idle" \/ run'[v].token = 0
  \/ run'[v].token = run[v].token /\ run'[v].task = run[v].task /\ run[v].pc # "idle"

LEMMA LeaseStays ==
  ASSUME IInv, Kept, \A v \in Worker : Follows(v),
         \A t \in Task : row'[t].token = row[t].token /\ row'[t].live = row[t].live
  PROVE  \A v \in Worker : Held(v)'
<1> SUFFICES ASSUME NEW v \in Worker, run'[v].pc # "idle", run'[v].token # 0
             PROVE  Leases(v)'
  BY DEF Held
<1>1. run'[v].token = run[v].token /\ run'[v].task = run[v].task /\ run[v].pc # "idle"
  BY DEF Follows
<1>2. run[v].task \in Task
  BY <1>1 DEF IInv, RunInv
<1>3. Leases(v)
  BY <1>1 DEF Kept, Held
<1> QED BY <1>1, <1>2, <1>3 DEF Leases

\* The lease of a task that nobody holds any more changes.
LEMMA LeaseChanges ==
  ASSUME IInv, Kept, \A v \in Worker : Follows(v), NEW t \in Task, \A u \in Task : u # t => row'[u] = row[u],
         \A v \in Worker : run[v].pc # "idle" /\ run[v].task = t /\ run[v].token # 0 => run'[v].pc = "idle"
  PROVE  \A v \in Worker : Held(v)'
<1> SUFFICES ASSUME NEW v \in Worker, run'[v].pc # "idle", run'[v].token # 0
             PROVE  Leases(v)'
  BY DEF Held
<1>1. run'[v].token = run[v].token /\ run'[v].task = run[v].task /\ run[v].pc # "idle"
  BY DEF Follows
<1>2. run[v].task \in Task /\ run[v].task # t
  BY <1>1 DEF IInv, RunInv
<1>3. Leases(v)
  BY <1>1 DEF Kept, Held
<1> QED BY <1>1, <1>2, <1>3 DEF Leases

\* Nobody holds a lease that has run out; one run at most holds one that has not.
LEMMA NobodyHolds ==
  ASSUME IInv, Kept, NEW t \in Task, ~row[t].live, NEW v \in Worker,
         run[v].pc # "idle", run[v].task = t
  PROVE  run[v].token = 0
BY DEF Kept, Held, Leases

LEMMA OneHolds ==
  ASSUME IInv, Kept, NEW v \in Worker, NEW w \in Worker, run[v].pc # "idle", run[w].pc # "idle",
         run[v].task = run[w].task, run[v].token # 0, run[w].token # 0
  PROVE  v = w
<1>1. run[v].token = run[w].token
  BY DEF Kept, Held, Leases
<1> QED BY <1>1 DEF IInv, Distinct

LEMMA CleanBefore ==
  ASSUME NEW t \in Task, row'[t].retention # "purged", outputs'[t] => row'[t].manifest
  PROVE  Clean(t)'
BY DEF Clean

LEMMA CleanAsWas ==
  ASSUME Kept, NEW t \in Task, UNCHANGED storage,
         row'[t].manifest = row[t].manifest, row'[t].retention = row[t].retention,
         row'[t].phase = row[t].phase, row'[t].live = row[t].live, row'[t].versions = row[t].versions
  PROVE  Clean(t)'
BY DEF Kept, Clean, storage

LEMMA CleanElsewhere ==
  ASSUME IInv, Kept, NEW t \in Task, \A u \in Task : u # t => row'[u] = row[u],
         \A u \in Task : u # t => object'[u] = object[u] /\ outputs'[u] = outputs[u], Clean(t)'
  PROVE  \A u \in Task : Clean(u)'
BY DEF Kept, Clean

\* A step of a run that leaves the rows and the storage alone.
LEMMA RunKept ==
  ASSUME IInv, Kept, UNCHANGED <<row, storage>>, \A v \in Worker : Follows(v)
  PROVE  Kept'
<1>1. \A v \in Worker : Held(v)'
  BY LeaseStays
<1> QED BY <1>1 DEF Kept, Clean, storage

\* A step of w that leaves it where it is, moves it on or ends it.
LEMMA Moves ==
  ASSUME IInv, NEW w \in Worker, NEW x,
         run' = [run EXCEPT ![w] = x],
         x.pc = "idle" \/ x.token = 0 \/ (x.token = run[w].token /\ x.task = run[w].task /\ run[w].pc # "idle")
  PROVE  \A v \in Worker : Follows(v)
<1>1. \A v \in Worker : run[v] \in Runs /\ (run[v].pc = "idle" \/ run[v].pc # "idle")
  BY DEF IInv, TypeOK
<1>2. run'[w] = x /\ \A v \in Worker : v # w => run'[v] = run[v]
  BY DEF IInv, TypeOK
<1> QED BY <1>1, <1>2 DEF Follows

LEMMA GoesOn ==
  ASSUME IInv, NEW w \in Worker, run[w].pc # "idle",
         (\E pc : Goes(w, pc)) \/ (\E code : Fails(w, code)) \/ Ends(w)
  PROVE  \A v \in Worker : Follows(v)
<1>1. run[w] \in Runs
  BY DEF IInv, TypeOK
<1>2. ASSUME NEW pc, Goes(w, pc) PROVE \A v \in Worker : Follows(v)
  <2> DEFINE x == [run[w] EXCEPT !.pc = pc]
  <2>1. run' = [run EXCEPT ![w] = x] /\ x.token = run[w].token /\ x.task = run[w].task
    BY <1>1, <1>2 DEF Goes, Runs
  <2> HIDE DEF x
  <2> QED BY <2>1, Moves
<1>3. ASSUME NEW code, Fails(w, code) PROVE \A v \in Worker : Follows(v)
  <2> DEFINE x == [run[w] EXCEPT !.pc = "fail", !.code = code]
  <2>1. run' = [run EXCEPT ![w] = x] /\ x.token = run[w].token /\ x.task = run[w].task
    BY <1>1, <1>3 DEF Fails, Runs, IInv, TypeOK
  <2> HIDE DEF x
  <2> QED BY <2>1, Moves
<1>4. CASE Ends(w)
  BY <1>4, Moves DEF Ends, Idle
<1> QED BY <1>2, <1>3, <1>4

LEMMA Standing == ASSUME IInv, run' = run PROVE \A v \in Worker : Follows(v)
<1>1. \A v \in Worker : run[v].token = 0 \/ run[v].pc # "idle" \/ run[v].pc = "idle"
  OBVIOUS
<1> QED BY <1>1 DEF Follows

\* What a step changes of a row that is neither its lease nor its end.
Mild(r, o) ==
  /\ r.token = o.token /\ r.live = o.live
  /\ r.manifest = o.manifest /\ r.retention = o.retention /\ r.phase = o.phase /\ r.versions = o.versions

LEMMA RowKept ==
  ASSUME IInv, Kept, UNCHANGED storage, \A v \in Worker : Follows(v),
         \A t \in Task : Mild(row'[t], row[t])
  PROVE  Kept'
<1>1. \A v \in Worker : Held(v)'
  BY LeaseStays DEF Mild
<1>2. \A t \in Task : Clean(t)'
  BY CleanAsWas DEF Mild
<1> QED BY <1>1, <1>2 DEF Kept

\* One row changes, but not its lease, and its storage with it.
LEMMA RowWritten ==
  ASSUME IInv, Kept, \A v \in Worker : Follows(v), NEW t \in Task,
         \A u \in Task : u # t => row'[u] = row[u] /\ object'[u] = object[u] /\ outputs'[u] = outputs[u],
         row'[t].token = row[t].token, row'[t].live = row[t].live,
         row'[t].retention # "purged", outputs'[t] => row'[t].manifest
  PROVE  Kept'
<1>1. \A v \in Worker : Held(v)'
  BY LeaseStays
<1>2. Clean(t)'
  BY CleanBefore
<1> QED BY <1>1, <1>2, CleanElsewhere DEF Kept

\* One row changes with its lease, which nobody holds any more.
LEMMA LeaseWritten ==
  ASSUME IInv, Kept, \A v \in Worker : Follows(v), NEW t \in Task,
         \A u \in Task : u # t => row'[u] = row[u] /\ object'[u] = object[u] /\ outputs'[u] = outputs[u],
         \A v \in Worker : run[v].pc # "idle" /\ run[v].task = t /\ run[v].token # 0 => run'[v].pc = "idle",
         Clean(t)'
  PROVE  Kept'
<1>1. \A v \in Worker : Held(v)'
  BY LeaseChanges
<1> QED BY <1>1, CleanElsewhere DEF Kept

LEMMA WithLease ==
  ASSUME IInv, Kept, NEW w \in Worker, run[w].pc \in Claimed
  PROVE  run[w].task \in Task /\ Leases(w) /\ row[run[w].task].retention # "purged"
<1>1. run[w].pc # "idle" /\ run[w].task \in Task /\ run[w].token # 0
  BY DEF IInv, RunInv, Claimed, Working
<1> QED BY <1>1 DEF Kept, Held, Clean, Leases

\* The transactions that are not let through.
LEMMA TurnsBack ==
  ASSUME IInv, NEW w \in Worker, NEW admits \in BOOLEAN, NotLetThrough(w, admits), run[w].pc # "idle"
  PROVE  UNCHANGED <<row, storage>> /\ \A v \in Worker : Follows(v)
<1>1. UNCHANGED <<row, storage>> /\ \E code : Fails(w, code)
  BY DEF NotLetThrough, Unowned, Refusal
<1> QED BY <1>1, GoesOn

LEMMA KeptOutside ==
  ASSUME IInv, Kept, NEW t \in Task, Dispatch(t) \/ BecomesDue(t) \/ ThrottleLapses(t) \/ GroundsChange(t)
  PROVE  Kept'
<1>1. \A v \in Worker : Follows(v)
  BY Standing DEF Dispatch, Create, DispatchPending, Reserve, Enqueue, EnqueueFails, DispatcherDies,
     BecomesDue, ThrottleLapses, GroundsChange
<1>2. UNCHANGED storage
  BY DEF Dispatch, Create, DispatchPending, Reserve, Enqueue, EnqueueFails, DispatcherDies,
     BecomesDue, ThrottleLapses, GroundsChange
<1>3. \A u \in Task : row[u] \in Rows
  BY DEF IInv, TypeOK
<1>4. \A u \in Task : Mild(row'[u], row[u])
  <2>1. CASE Create(t)
    <3>1. CASE row' = [row EXCEPT ![t].status = "queued", ![t].sentBy = "owner", ![t].throttled = TRUE]
      BY <1>3, <3>1 DEF IInv, TypeOK, Mild, Rows
    <3>2. CASE row' = [row EXCEPT ![t].status = "queued"]
      BY <1>3, <3>2 DEF IInv, TypeOK, Mild, Rows
    <3> QED BY <2>1, <3>1, <3>2 DEF Create
  <2>2. CASE DispatchPending(t)
    BY <1>3, <2>2 DEF IInv, TypeOK, DispatchPending, Mild, Rows
  <2>3. CASE Reserve(t)
    BY <1>3, <2>3 DEF IInv, TypeOK, Reserve, Mild, Rows
  <2>4. CASE \E d \in Dispatcher : Enqueue(d, t) \/ DispatcherDies(d, t)
    BY <2>4 DEF Enqueue, DispatcherDies, Mild
  <2>5. CASE \E d \in Dispatcher : EnqueueFails(d, t)
    BY <1>3, <2>5 DEF IInv, TypeOK, EnqueueFails, Mild, Rows
  <2>6. CASE BecomesDue(t)
    BY <1>3, <2>6 DEF IInv, TypeOK, BecomesDue, Mild, Rows
  <2>7. CASE ThrottleLapses(t)
    BY <1>3, <2>7 DEF IInv, TypeOK, ThrottleLapses, Mild, Rows
  <2>8. CASE GroundsChange(t)
    BY <2>8 DEF GroundsChange, Mild
  <2> QED BY <2>1, <2>2, <2>3, <2>4, <2>5, <2>6, <2>7, <2>8 DEF Dispatch
<1> QED BY <1>1, <1>2, <1>4, RowKept

\* The steps of a run that write no row and store nothing.
LEMMA KeptMoving ==
  ASSUME IInv, Kept, NEW w \in Worker,
         ClaimNothing(w) \/ ClaimRefused(w) \/ Load(w) \/ SubmitRefused(w) \/ CallGateway(w)
         \/ RecordRefused(w) \/ ReadResponse(w) \/ FetchResponse(w) \/ WorkerDies(w)
  PROVE  Kept'
<1>1. run[w].pc # "idle"
  BY DEF ClaimNothing, ClaimRefused, Load, SubmitRefused, CallGateway, RecordRefused, ReadResponse,
     FetchResponse, WorkerDies, At
<1>2. UNCHANGED <<row, storage>>
  BY DEF ClaimNothing, ClaimRefused, Load, SubmitRefused, CallGateway, RecordRefused, ReadResponse,
     FetchResponse, WorkerDies, NotLetThrough
<1>3. (\E pc : Goes(w, pc)) \/ (\E code : Fails(w, code)) \/ Ends(w)
  BY DEF ClaimNothing, ClaimRefused, Load, SubmitRefused, CallGateway, RecordRefused, ReadResponse,
     FetchResponse, WorkerDies, NotLetThrough, Unowned, Refusal
<1> QED BY <1>1, <1>2, <1>3, GoesOn, RunKept

LEMMA KeptDelivered ==
  ASSUME IInv, Kept, NEW w \in Worker, NEW t \in Task, Deliver(w, t)
  PROVE  Kept'
<1> DEFINE x == [Idle EXCEPT !.pc = "claim", !.task = t]
<1>1. run' = [run EXCEPT ![w] = x] /\ x.token = 0 /\ UNCHANGED <<row, storage>>
  BY DEF Deliver, Idle
<1> HIDE DEF x
<1> QED BY <1>1, Moves, RunKept

LEMMA KeptSubmitting == ASSUME IInv, Kept, NEW w \in Worker, Submit(w) PROVE Kept'
<1>1. run[w].pc # "idle" /\ UNCHANGED storage /\ run[w].task \in Task
  BY DEF Submit, At, IInv, RunInv
<1>2. \A v \in Worker : Follows(v)
  BY <1>1, GoesOn DEF Submit
<1>3. \A u \in Task : Mild(row'[u], row[u])
  BY <1>1 DEF Submit, IInv, TypeOK, Rows, Mild
<1> QED BY <1>1, <1>2, <1>3, RowKept

LEMMA KeptRecording ==
  ASSUME IInv, Kept, NEW w \in Worker, RecordReceipt(w) \/ MarkReady(w) \/ ConfirmResponse(w) \/ StageArtifacts(w)
  PROVE  Kept'
<1> DEFINE t == run[w].task
<1>1. run[w].pc # "idle" /\ run[w].pc \in Claimed /\ UNCHANGED storage
  BY DEF RecordReceipt, MarkReady, ConfirmResponse, StageArtifacts, NotLetThrough, At, Claimed, Working
<1>2. \A v \in Worker : Follows(v)
  <2>1. (\E pc : Goes(w, pc)) \/ (\E code : Fails(w, code))
    BY DEF RecordReceipt, MarkReady, ConfirmResponse, StageArtifacts, NotLetThrough, Unowned, Refusal, Refuses
  <2> QED BY <1>1, <2>1, GoesOn
<1>3. t \in Task /\ row[t].retention # "purged" /\ row \in [Task -> Rows] /\ row[t] \in Rows
  BY <1>1, WithLease DEF IInv, TypeOK
<1>4. CASE row' = row
  BY <1>1, <1>2, <1>4, RunKept
<1>5. CASE row' = [row EXCEPT ![t].call = "received", ![t].pinned = TRUE, ![t].phase = "response_staging"]
  <2>1. row'[t].token = row[t].token /\ row'[t].live = row[t].live
        /\ row'[t].retention = row[t].retention /\ row'[t].manifest = row[t].manifest
    BY <1>3, <1>5 DEF Rows
  <2>2. \A u \in Task : u # t => row'[u] = row[u]
    BY <1>3, <1>5
  <2> QED BY <1>1, <1>2, <1>3, <2>1, <2>2, RowWritten DEF Kept, Clean, storage
<1>6. CASE row' = [row EXCEPT ![t].phase = "response_ready"]
  <2>1. row'[t].token = row[t].token /\ row'[t].live = row[t].live
        /\ row'[t].retention = row[t].retention /\ row'[t].manifest = row[t].manifest
    BY <1>3, <1>6 DEF Rows
  <2>2. \A u \in Task : u # t => row'[u] = row[u]
    BY <1>3, <1>6
  <2> QED BY <1>1, <1>2, <1>3, <2>1, <2>2, RowWritten DEF Kept, Clean, storage
<1>7. CASE row' = [row EXCEPT ![t].manifest = TRUE]
  <2>1. row'[t].token = row[t].token /\ row'[t].live = row[t].live
        /\ row'[t].retention = row[t].retention /\ row'[t].manifest
    BY <1>3, <1>7 DEF Rows
  <2>2. \A u \in Task : u # t => row'[u] = row[u]
    BY <1>3, <1>7
  <2> QED BY <1>1, <1>2, <1>3, <2>1, <2>2, RowWritten DEF storage
<1> QED BY <1>4, <1>5, <1>6, <1>7
     DEF RecordReceipt, MarkReady, ConfirmResponse, StageArtifacts, NotLetThrough

LEMMA KeptStoring ==
  ASSUME IInv, Kept, NEW w \in Worker, PutResponse(w) \/ UploadOutputs(w)
  PROVE  Kept'
<1> DEFINE t == run[w].task
<1>1. run[w].pc # "idle" /\ run[w].pc \in Claimed /\ UNCHANGED row
  BY DEF PutResponse, UploadOutputs, At, Claimed, Working
<1>2. \A v \in Worker : Follows(v)
  <2>1. (\E pc : Goes(w, pc)) \/ (\E code : Fails(w, code))
    BY DEF PutResponse, UploadOutputs
  <2> QED BY <1>1, <2>1, GoesOn
<1>3. t \in Task /\ row[t].retention # "purged"
  BY <1>1, WithLease
<1>4. \A u \in Task : u # t => object'[u] = object[u] /\ outputs'[u] = outputs[u]
  BY <1>3 DEF PutResponse, UploadOutputs, IInv, TypeOK
<1>5. outputs'[t] => row[t].manifest
  <2>1. CASE PutResponse(w)
    BY <1>3, <2>1 DEF PutResponse, Kept, Clean
  <2>2. CASE UploadOutputs(w)
    BY <1>3, <2>2 DEF UploadOutputs, IInv, RunInv, At
  <2> QED BY <2>1, <2>2
<1> QED BY <1>1, <1>2, <1>3, <1>4, <1>5, RowWritten

LEMMA KeptStopping ==
  ASSUME NEW r \in Rows, NEW code
  PROVE  /\ Stopped(r, code).retention = r.retention /\ Stopped(r, code).manifest = r.manifest
         /\ Stopped(r, code).versions = r.versions
         /\ Stopped(r, code).phase \in TerminalPhase /\ ~Stopped(r, code).live
BY DEF Stopped, Rows, TerminalPhase

\* A task in progress was never purged.
LEMMA NotPurged ==
  ASSUME Kept, NEW t \in Task, row[t].phase \notin TerminalPhase
  PROVE  row[t].retention # "purged"
BY DEF Kept, Clean

LEMMA KeptClaiming == ASSUME IInv, Kept, NEW w \in Worker, Claim(w) PROVE Kept'
<1>0. PICK t \in Task : t = run[w].task
  BY DEF IInv, RunInv, Claim, At
<1>1. /\ run[w] \in Runs /\ run[w].pc # "idle" /\ row \in [Task -> Rows] /\ row[t] \in Rows
      /\ ~row[t].live /\ row[t].phase \notin TerminalPhase /\ UNCHANGED storage /\ run \in [Worker -> Runs]
  BY <1>0 DEF IInv, TypeOK, RunInv, Claim, Claimable, InProgress, At
<1>2. row[t].retention # "purged"
  BY <1>1, NotPurged
<1>3. /\ row'[t].retention = row[t].retention /\ row'[t].manifest = row[t].manifest
      /\ row'[t].token = row[t].tries + 1 /\ row'[t].live
  <2>1. row' = [row EXCEPT ![t].phase = IF row[t].pinned THEN @ ELSE "preparing",
                          ![t].status = "running", ![t].error = "none",
                          ![t].tries = @ + 1, ![t].token = row[t].tries + 1, ![t].live = TRUE,
                          ![t].call = IF @ = "none" THEN "pending" ELSE @]
    BY <1>0 DEF Claim
  <2> QED BY <1>1, <2>1, SMTT(30) DEF Rows
<1>4. \A u \in Task : u # t => row'[u] = row[u]
  BY <1>0, <1>1 DEF Claim
<1>5. run'[w].token = row[t].tries + 1 /\ run'[w].task = t
  BY <1>0, <1>1 DEF Claim, Runs
<1>6. \A v \in Worker : v # w => run'[v] = run[v]
  BY <1>0, <1>1 DEF Claim
<1>7. ASSUME NEW v \in Worker PROVE Held(v)'
  <2>1. CASE v = w
    BY <1>1, <1>3, <1>5, <2>1 DEF Held, Leases
  <2>2. CASE v # w
    <3>1. SUFFICES ASSUME run[v].pc # "idle", run[v].token # 0 PROVE Leases(v)'
      BY <1>6, <2>2 DEF Held
    <3>2. run[v].task \in Task /\ run[v].task # t
      BY <1>1, <3>1, NobodyHolds DEF IInv, RunInv
    <3> QED BY <1>4, <1>6, <2>2, <3>1, <3>2 DEF Kept, Held, Leases
  <2> QED BY <2>1, <2>2
<1>8. Clean(t)'
  BY <1>1, <1>2, <1>3, CleanBefore DEF Kept, Clean, storage
<1> QED BY <1>1, <1>4, <1>7, <1>8, CleanElsewhere DEF Kept, storage

LEMMA KeptClaimStopping == ASSUME IInv, Kept, NEW w \in Worker, ClaimStops(w) PROVE Kept'
<1>0. PICK t \in Task : t = run[w].task
  BY DEF IInv, RunInv, ClaimStops, At
<1>1. /\ run[w].pc # "idle" /\ row \in [Task -> Rows] /\ row[t] \in Rows
      /\ ~row[t].live /\ row[t].phase \notin TerminalPhase /\ UNCHANGED storage /\ Ends(w)
      /\ row' = [row EXCEPT ![t] = Stopped(@, Ended(@))]
  BY <1>0 DEF IInv, TypeOK, RunInv, ClaimStops, Claimable, InProgress, At
<1>2. \A v \in Worker : Follows(v)
  BY <1>1, GoesOn
<1>3. row'[t] = Stopped(row[t], Ended(row[t])) /\ \A u \in Task : u # t => row'[u] = row[u]
  BY <1>1
<1>4. Clean(t)'
  BY <1>1, <1>3, NotPurged, CleanBefore, KeptStopping DEF Kept, Clean, storage
<1> QED BY <1>1, <1>2, <1>3, <1>4, NobodyHolds, LeaseWritten DEF storage

LEMMA KeptCompleting == ASSUME IInv, Kept, NEW w \in Worker, Complete(w) PROVE Kept'
<1>0. PICK t \in Task : t = run[w].task
  BY DEF IInv, RunInv, Complete, At
<1>1. run[w].pc = "commit" /\ UNCHANGED storage
  BY DEF Complete, NotLetThrough, At
<1>2. Leases(w) /\ row[t].retention # "purged" /\ run[w].token # 0
  BY <1>0, <1>1, WithLease DEF Claimed, Working, IInv, RunInv
<1>3. CASE NotLetThrough(w, TRUE)
  BY <1>1, <1>3, TurnsBack, RunKept
<1>4. CASE Admitted(w) /\ Ends(w)
           /\ row' = [row EXCEPT ![t].versions = @ + 1, ![t].status = "adopted",
                                 ![t].phase = "completed", ![t].token = 0, ![t].live = FALSE]
  <2>1. \A v \in Worker : Follows(v)
    BY <1>1, <1>4, GoesOn
  <2>2. row'[t].retention = row[t].retention /\ row'[t].manifest = row[t].manifest
    BY <1>2, <1>4 DEF IInv, TypeOK, Rows
  <2>3. \A u \in Task : u # t => row'[u] = row[u]
    BY <1>2, <1>4 DEF IInv, TypeOK
  <2>4. Clean(t)'
    BY <1>1, <1>2, <2>2, CleanBefore DEF Kept, Clean, storage
  <2>5. run'[w].pc = "idle"
    BY <1>4 DEF Ends, Idle, IInv, TypeOK
  <2>6. \A v \in Worker : run[v].pc # "idle" /\ run[v].task = t /\ run[v].token # 0 => v = w
    BY <1>0, <1>1, <1>2, OneHolds
  <2> QED BY <1>1, <1>2, <2>1, <2>3, <2>4, <2>5, <2>6, LeaseWritten DEF storage
<1> QED BY <1>0, <1>3, <1>4 DEF Complete

LEMMA KeptFailing == ASSUME IInv, Kept, NEW w \in Worker, Fail(w) PROVE Kept'
<1>0. PICK t \in Task : t = run[w].task
  BY DEF IInv, RunInv, Fail, At
<1>1. run[w].pc # "idle" /\ UNCHANGED storage /\ Ends(w) /\ row \in [Task -> Rows] /\ row[t] \in Rows
  BY DEF Fail, At, IInv, TypeOK
<1>2. \A v \in Worker : Follows(v)
  BY <1>1, GoesOn
<1>3. CASE Lost(w)
  BY <1>1, <1>2, <1>3, RunKept DEF Fail
<1>4. CASE ~Lost(w)
  <2> DEFINE o == [row[t] EXCEPT !.phase = IF row[t].pinned THEN @ ELSE "pending",
                                 !.status = IF row[t].pinned THEN "running" ELSE "queued",
                                 !.error = "pending", !.token = 0, !.live = FALSE, !.due = FALSE]
  <2>1. row' = [row EXCEPT ![t] = o] \/ row' = [row EXCEPT ![t] = Stopped(@, EndOf(row[t], run[w].code))]
    <3>1. CASE Retries(row[t], run[w].code)
      <4>1. row' = [row EXCEPT ![t].phase = IF row[t].pinned THEN @ ELSE "pending",
                               ![t].status = IF row[t].pinned THEN "running" ELSE "queued",
                               ![t].error = "pending", ![t].token = 0, ![t].live = FALSE,
                               ![t].due = FALSE]
        BY <1>0, <1>4, <3>1 DEF Fail
      <4> QED BY <1>1, <4>1
    <3> QED BY <1>0, <1>4, <3>1 DEF Fail
  <2>2. o.retention = row[t].retention /\ o.manifest = row[t].manifest
    BY <1>1 DEF Rows
  <2> HIDE DEF o
  <2>3. row'[t].retention = row[t].retention /\ row'[t].manifest = row[t].manifest
    BY <1>1, <2>1, <2>2, KeptStopping
  <2>4. \A u \in Task : u # t => row'[u] = row[u]
    BY <1>1, <2>1
  <2>5. row[t].phase \notin TerminalPhase
    BY <1>0, <1>4 DEF Lost, InProgress
  <2>6. Clean(t)'
    BY <1>1, <2>3, <2>5, NotPurged, CleanBefore DEF Kept, Clean, storage
  <2>7. ASSUME NEW v \in Worker, run[v].pc # "idle", run[v].task = t, run[v].token # 0
        PROVE  run'[v].pc = "idle"
    <3>1. run[w].token # 0
      BY <1>0, <1>4, <2>7, NobodyHolds DEF Lost
    <3>2. v = w
      BY <1>0, <1>1, <2>7, <3>1, OneHolds
    <3> QED BY <1>1, <3>2 DEF Ends, Idle, IInv, TypeOK
  <2> QED BY <1>1, <1>2, <2>4, <2>6, <2>7, LeaseWritten DEF storage
<1> QED BY <1>3, <1>4

LEMMA KeptPurging == ASSUME IInv, Kept, NEW t \in Task, Purge(t) PROVE Kept'
<1>1. /\ ~row[t].live /\ row \in [Task -> Rows] /\ row[t] \in Rows /\ run' = run
      /\ object \in [Task -> BOOLEAN] /\ outputs \in [Task -> BOOLEAN]
  BY DEF Purge, IInv, TypeOK
<1> DEFINE o == IF row[t].phase \in TerminalPhase THEN row[t] ELSE Stopped(row[t], "expired")
<1>2. /\ o \in Rows /\ o.phase \in TerminalPhase /\ ~o.live
      /\ o.manifest = row[t].manifest /\ o.versions = row[t].versions
  <2>1. Stopped(row[t], "expired") \in Rows
    BY <1>1, StoppedIsRow DEF Code
  <2> QED BY <1>1, <2>1, KeptStopping
<1>3. row' = [row EXCEPT ![t] = [o EXCEPT !.retention = "purged"]]
  BY <1>1 DEF Purge
<1> HIDE DEF o
<1>4. /\ row'[t].phase \in TerminalPhase /\ ~row'[t].live
      /\ row'[t].manifest = row[t].manifest /\ row'[t].versions = row[t].versions
  BY <1>1, <1>2, <1>3 DEF Rows
<1>5. ~object'[t] /\ (outputs'[t] <=> outputs[t] /\ ~(row[t].manifest /\ row[t].versions = 0))
  BY <1>1 DEF Purge
<1>6. outputs[t] => row[t].manifest
  BY DEF Kept, Clean
<1>7. row[t].versions # 0 => row[t].versions = 1
  BY <1>1 DEF IInv, RowInv, Rows
<1>8. Clean(t)'
  BY <1>4, <1>5, <1>6, <1>7 DEF Clean
<1>9. \A u \in Task : u # t => row'[u] = row[u] /\ object'[u] = object[u] /\ outputs'[u] = outputs[u]
  BY <1>1, <1>3 DEF Purge
<1>10. \A v \in Worker : Follows(v)
  BY <1>1, Standing
<1> QED BY <1>1, <1>8, <1>9, <1>10, NobodyHolds, LeaseWritten

LEMMA KeptPurgeBreaking == ASSUME IInv, Kept, NEW t \in Task, PurgeBreaks(t) PROVE Kept'
<1>1. /\ row[t].retention # "purged" /\ row' = row /\ run' = run
      /\ object \in [Task -> BOOLEAN] /\ outputs \in [Task -> BOOLEAN]
  BY DEF PurgeBreaks, IInv, TypeOK
<1>2. \A u \in Task : u # t => object'[u] = object[u] /\ outputs'[u] = outputs[u]
  BY <1>1 DEF PurgeBreaks
<1>3. outputs'[t] => row'[t].manifest
  BY <1>1 DEF PurgeBreaks, Kept, Clean
<1> QED BY <1>1, <1>2, <1>3, Standing, RowWritten

LEMMA KeptExpiring == ASSUME IInv, Kept, NEW t \in Task, ResponseExpires(t) PROVE Kept'
<1>1. row \in [Task -> Rows] /\ row[t] \in Rows /\ run' = run /\ UNCHANGED storage
  BY DEF ResponseExpires, IInv, TypeOK
<1>2. /\ row'[t].token = row[t].token /\ row'[t].live = row[t].live
      /\ row'[t].retention # "purged" /\ row'[t].manifest = row[t].manifest
  BY <1>1 DEF ResponseExpires, Rows
<1>3. \A u \in Task : u # t => row'[u] = row[u]
  BY <1>1 DEF ResponseExpires
<1>4. outputs'[t] => row'[t].manifest
  BY <1>1, <1>2 DEF Kept, Clean, storage
<1> QED BY <1>1, <1>2, <1>3, <1>4, Standing, RowWritten DEF storage

\* Where nobody is slow, a lease lapses only when nobody holds it.
LEMMA KeptLapsing == ASSUME Punctual, IInv, Kept, NEW t \in Task, LeaseLapses(t) PROVE Kept'
<1>1. row \in [Task -> Rows] /\ row[t] \in Rows /\ run' = run /\ UNCHANGED storage
  BY DEF LeaseLapses, IInv, TypeOK
<1>2. ~\E w \in Worker : Holds(w, t)
  BY DEF LeaseLapses, Fault, Punctual, Stall
<1>3. ASSUME NEW v \in Worker, run[v].pc # "idle", run[v].task = t, run[v].token # 0 PROVE FALSE
  <2>1. run[v].pc \in Working
    BY <1>3 DEF IInv, TypeOK, Runs
  <2> QED BY <1>2, <1>3, <2>1 DEF Kept, Held, Leases, Holds
<1>4. /\ row'[t].manifest = row[t].manifest /\ row'[t].retention = row[t].retention
      /\ row'[t].phase = row[t].phase /\ row'[t].versions = row[t].versions /\ ~row'[t].live
  BY <1>1 DEF LeaseLapses, Rows
<1>5. \A u \in Task : u # t => row'[u] = row[u]
  BY <1>1 DEF LeaseLapses
<1>6. Clean(t)'
  BY <1>1, <1>4 DEF Kept, Clean, storage
<1> QED BY <1>1, <1>3, <1>5, <1>6, Standing, LeaseWritten DEF storage

LEMMA KeptAtFirst == ASSUME Init PROVE Kept
BY DEF Init, NoRow, Idle, Kept, Held, Clean

LEMMA KeptByStep == ASSUME Punctual, IInv, Kept, [Next]_vars PROVE Kept'
<1>1. CASE UNCHANGED vars
  BY <1>1 DEF vars, storage, Kept, Held, Leases, Clean
<1>2. ASSUME NEW t \in Task, Dispatch(t) \/ Maintain(t) PROVE Kept'
  BY <1>2, KeptOutside, KeptPurging, KeptPurgeBreaking, KeptExpiring, KeptLapsing DEF Maintain
<1>3. ASSUME NEW w \in Worker, Step(w) PROVE Kept'
  BY <1>3, KeptMoving, KeptClaimStopping, KeptClaiming, KeptSubmitting, KeptRecording, KeptStoring,
     KeptCompleting, KeptFailing DEF Step
<1> QED BY <1>1, <1>2, <1>3, KeptMoving, KeptDelivered DEF Next

\* Where every worker keeps its lease for as long as it works and no refused claim stalls,
\* a purged task has nothing left in either storage but what a design version refers to,
\* through crashes, failing storage and half purges (claim, fail and the purge of
\* pod-artwork.repository.ts).
THEOREM PodLeavesNothing == "slow" \notin Faults /\ "stall" \notin Faults /\ Spec => []NothingLeftBehind
<1> DEFINE Premise == "slow" \notin Faults /\ "stall" \notin Faults
<1>1. Premise => Punctual
  BY DEF Punctual, Stall
<1>2. Init => Kept
  BY KeptAtFirst
<1>3. Punctual /\ IInv /\ Kept /\ [Next]_vars => Kept'
  BY KeptByStep
<1>4. Punctual => Punctual'
  BY DEF Punctual, Stall
<1>5. Kept => NothingLeftBehind
  BY DEF Kept, Clean, NothingLeftBehind
<1> HIDE DEF Premise
<1>6. Premise /\ Spec => []NothingLeftBehind
  BY <1>1, <1>2, <1>3, <1>4, <1>5, PodInvariance, PTL DEF Spec
<1> QED BY <1>6 DEF Premise
-----------------------------------------------------------------------------
(***************************************************************************)
(* PodArtwork implements PodPromise where no refused claim stalls: every   *)
(* step of the rows, workers and queues is a step of the promise or        *)
(* changes nothing it speaks of.                                           *)
(***************************************************************************)
\* A task that is not there has not begun, and a completed one has its design version.
ShapeInv(t) ==
  /\ row[t].status = "absent" => row[t].phase = "pending"
  /\ row[t].phase = "completed" => row[t].versions > 0

Shaped == \A t \in Task : ShapeInv(t)

\* A step as the promise sees it.
PromiseStep == [Promise!Next]_(Promise!vars)

Elsewhere(t) == \A u \in Task : u # t => row'[u] = row[u]
-----------------------------------------------------------------------------
(***************************************************************************)
(* Steps of the rows and steps of the promise.                             *)
(***************************************************************************)
LEMMA Quiet == ASSUME Shaped, UNCHANGED <<row, paid>> PROVE Shaped' /\ PromiseStep
BY DEF Shaped, ShapeInv, PromiseStep, Promise!vars

\* A row changes without its task going on.
LEMMA Still ==
  ASSUME Shaped, NEW t \in Task, Elsewhere(t), paid' = paid, ShapeInv(t)',
         StageOf(row'[t]) = StageOf(row[t])
  PROVE  Shaped' /\ PromiseStep
<1>1. Shaped'
  BY DEF Shaped, ShapeInv, Elsewhere
<1>2. [u \in Task |-> StageOf(row'[u])] = [u \in Task |-> StageOf(row[u])]
  BY DEF Elsewhere
<1> QED BY <1>1, <1>2 DEF PromiseStep, Promise!vars

LEMMA Moved ==
  ASSUME Shaped, NEW t \in Task, Elsewhere(t), paid' = paid, ShapeInv(t)',
         NEW from, NEW to, StageOf(row[t]) \in from, StageOf(row'[t]) = to
  PROVE  Shaped' /\ Promise!Move(t, from, to)
<1>1. Shaped'
  BY DEF Shaped, ShapeInv, Elsewhere
<1>2. [u \in Task |-> StageOf(row'[u])] = [[u \in Task |-> StageOf(row[u])] EXCEPT ![t] = to]
  BY DEF Elsewhere
<1> QED BY <1>1, <1>2 DEF Promise!Move
LEMMA Creates ==
  ASSUME Shaped, NEW t \in Task, Elsewhere(t), paid' = paid, ShapeInv(t)',
         StageOf(row[t]) = "absent", StageOf(row'[t]) = "waiting"
  PROVE  Shaped' /\ PromiseStep
BY Moved DEF PromiseStep, Promise!Next, Promise!Create

LEMMA Asks ==
  ASSUME Shaped, NEW t \in Task, Elsewhere(t), paid' = paid, ShapeInv(t)',
         StageOf(row[t]) = "waiting", StageOf(row'[t]) = "asked"
  PROVE  Shaped' /\ PromiseStep
BY Moved DEF PromiseStep, Promise!Next, Promise!Ask

LEMMA Saves ==
  ASSUME Shaped, NEW t \in Task, Elsewhere(t), paid' = paid, ShapeInv(t)', paid[t] = 1,
         StageOf(row[t]) = "asked", StageOf(row'[t]) = "answered"
  PROVE  Shaped' /\ PromiseStep
BY Moved DEF PromiseStep, Promise!Next, Promise!Save

LEMMA Adopts ==
  ASSUME Shaped, NEW t \in Task, Elsewhere(t), paid' = paid, ShapeInv(t)',
         StageOf(row[t]) = "answered", StageOf(row'[t]) = "adopted"
  PROVE  Shaped' /\ PromiseStep
BY Moved DEF PromiseStep, Promise!Next, Promise!Adopt

LEMMA Loses ==
  ASSUME Shaped, NEW t \in Task, Elsewhere(t), paid' = paid, ShapeInv(t)',
         StageOf(row[t]) = "asked", StageOf(row'[t]) = "uncertain"
  PROVE  Shaped' /\ PromiseStep
BY Moved DEF PromiseStep, Promise!Next, Promise!Lose

LEMMA Stops ==
  ASSUME Shaped, NEW t \in Task, Elsewhere(t), paid' = paid, ShapeInv(t)',
         StageOf(row[t]) \in {"waiting", "answered"}, StageOf(row'[t]) = "stopped"
  PROVE  Shaped' /\ PromiseStep
BY Moved DEF PromiseStep, Promise!Next, Promise!Stop

\* A task that stops: uncertain exactly when its answer may be out and has no receipt.
LEMMA StopsAs ==
  ASSUME IInv, Shaped, NEW t \in Task, row[t].status # "absent", row[t].phase \notin TerminalPhase,
         NEW code, code = "uncertain" <=> Unknown(row[t]),
         Elsewhere(t), paid' = paid,
         row'[t].status # "absent", row'[t].phase = IF code = "uncertain" THEN "uncertain" ELSE "failed"
  PROVE  Shaped' /\ PromiseStep
<1>1. ShapeInv(t)'
  BY DEF ShapeInv
<1>2. StageOf(row[t]) = IF row[t].pinned THEN "answered" ELSE IF Unknown(row[t]) THEN "asked" ELSE "waiting"
  BY DEF StageOf, TerminalPhase
<1>3. CASE code = "uncertain"
  <2>1. StageOf(row[t]) = "asked"
    BY <1>2, <1>3 DEF Unknown
  <2>2. StageOf(row'[t]) = "uncertain"
    BY <1>3 DEF StageOf, TerminalPhase
  <2> QED BY <1>1, <2>1, <2>2, Loses
<1>4. CASE code # "uncertain"
  <2>1. StageOf(row[t]) \in {"waiting", "answered"}
    BY <1>2, <1>4
  <2>2. StageOf(row'[t]) = "stopped"
    BY <1>4 DEF StageOf, TerminalPhase
  <2> QED BY <1>1, <2>1, <2>2, Stops
<1> QED BY <1>3, <1>4
-----------------------------------------------------------------------------
(***************************************************************************)
(* The steps of a worker.                                                  *)
(***************************************************************************)
\* Rows of tasks, and what IInv says of them.
LEMMA RowOf == ASSUME IInv, NEW t \in Task PROVE row \in [Task -> Rows] /\ row[t] \in Rows /\ RowInv(t)
BY DEF IInv, TypeOK

LEMMA CreateKeeps == ASSUME IInv, Shaped, NEW t \in Task, Create(t) PROVE Shaped' /\ PromiseStep
<1>1. row \in [Task -> Rows] /\ row[t] \in Rows /\ RowInv(t) /\ row[t].status = "absent" /\ ShapeInv(t)
  BY RowOf DEF Create, Shaped
<1>2. /\ Elsewhere(t) /\ paid' = paid
      /\ row'[t].status = "queued" /\ row'[t].phase = row[t].phase
      /\ row'[t].pinned = row[t].pinned /\ row'[t].call = row[t].call
  BY <1>1 DEF Create, Elsewhere, Rows
<1>3. ~row[t].pinned /\ row[t].phase = "pending" /\ row[t].call = "none"
  BY <1>1 DEF ShapeInv, RowInv
<1>4. ShapeInv(t)' /\ StageOf(row[t]) = "absent" /\ StageOf(row'[t]) = "waiting"
  BY <1>1, <1>2, <1>3 DEF ShapeInv, StageOf, TerminalPhase, Unknown
<1> QED BY <1>2, <1>4, Creates

LEMMA SubmitKeeps == ASSUME IInv, Shaped, NEW w \in Worker, Submit(w) PROVE Shaped' /\ PromiseStep
<1>1. PICK t \in Task : t = run[w].task
  BY DEF IInv, RunInv, Submit, At
<1>2. row \in [Task -> Rows] /\ row[t] \in Rows /\ RowInv(t) /\ ShapeInv(t)
  BY <1>1, RowOf DEF Shaped
<1>3. /\ row[t].status = "running" /\ row[t].phase \notin TerminalPhase /\ row[t].call = "pending"
      /\ row' = [row EXCEPT ![t].call = "submitted"] /\ paid' = paid
  BY <1>1 DEF Submit, Admitted, Owns
<1>4. /\ Elsewhere(t) /\ row'[t].status = row[t].status /\ row'[t].phase = row[t].phase
      /\ row'[t].pinned = row[t].pinned /\ row'[t].call = "submitted"
  BY <1>1, <1>2, <1>3 DEF Elsewhere, Rows
<1>5. ~row[t].pinned
  BY <1>2, <1>3 DEF RowInv
<1>6. ShapeInv(t)' /\ StageOf(row[t]) = "waiting" /\ StageOf(row'[t]) = "asked"
  BY <1>3, <1>4, <1>5 DEF ShapeInv, StageOf, TerminalPhase, Unknown
<1> QED BY <1>1, <1>3, <1>4, <1>6, Asks

\* The one paid request: the submission was recorded before it.
LEMMA CallKeeps ==
  ASSUME IInv, Shaped, ~Stall, NEW w \in Worker, CallGateway(w) PROVE Shaped' /\ PromiseStep
<1> DEFINE t == run[w].task
<1>1. t \in Task /\ row[t].call \in Sent /\ paid[t] = 0
  BY DEF IInv, RunInv, CallGateway, At
<1>2. row \in [Task -> Rows] /\ row[t] \in Rows /\ RowInv(t) /\ ShapeInv(t)
  BY <1>1, RowOf DEF Shaped
<1>3. ~row[t].pinned /\ row[t].versions = 0
  BY <1>1, <1>2 DEF RowInv, Rows
<1>4. row[t].phase # "failed" /\ row[t].phase # "completed" /\ row[t].status # "absent"
  BY <1>1, <1>2, <1>3 DEF RowInv, ShapeInv, Sent
<1>5. StageOf(row[t]) \in {"asked", "uncertain"}
  BY <1>1, <1>3, <1>4 DEF StageOf, TerminalPhase, Unknown, Sent
<1>6. row' = row /\ paid' = [paid EXCEPT ![t] = 1]
  BY <1>1 DEF CallGateway
<1>7. Promise!Pay(t)
  BY <1>1, <1>5, <1>6 DEF Promise!Pay
<1>8. Shaped'
  BY <1>6 DEF Shaped, ShapeInv
<1> QED BY <1>1, <1>7, <1>8 DEF PromiseStep, Promise!Next

LEMMA RecordKeeps ==
  ASSUME IInv, Shaped, NEW w \in Worker, RecordReceipt(w) PROVE Shaped' /\ PromiseStep
<1>1. PICK t \in Task : t = run[w].task
  BY DEF IInv, RunInv, RecordReceipt, At
<1>2. row \in [Task -> Rows] /\ row[t] \in Rows /\ RowInv(t) /\ ShapeInv(t)
  BY RowOf DEF Shaped
<1>3. row[t].call \in Sent /\ paid[t] = 1
  BY <1>1 DEF IInv, RunInv, RecordReceipt, At
<1>4. /\ row[t].status = "running" /\ row[t].phase \notin TerminalPhase /\ paid' = paid
      /\ row' = [row EXCEPT ![t].call = "received", ![t].pinned = TRUE, ![t].phase = "response_staging"]
  BY <1>1 DEF RecordReceipt, Owns
<1>5. /\ Elsewhere(t) /\ row'[t].status = "running" /\ row'[t].phase = "response_staging"
      /\ row'[t].pinned = TRUE
  BY <1>2, <1>4 DEF Elsewhere, Rows
<1>6. ShapeInv(t)' /\ StageOf(row'[t]) = "answered"
  BY <1>5 DEF ShapeInv, StageOf, TerminalPhase
<1>7. CASE row[t].pinned
  <2>1. StageOf(row[t]) = "answered"
    BY <1>4, <1>7 DEF StageOf, TerminalPhase
  <2> QED BY <1>4, <1>5, <1>6, <2>1, Still
<1>8. CASE ~row[t].pinned
  <2>1. StageOf(row[t]) = "asked"
    BY <1>3, <1>4, <1>8 DEF StageOf, TerminalPhase, Unknown, Sent
  <2> QED BY <1>3, <1>4, <1>5, <1>6, <2>1, Saves
<1> QED BY <1>7, <1>8

\* A run that has its answer moves the phase of its task.
LEMMA PhaseKeeps ==
  ASSUME IInv, Shaped, NEW t \in Task, row[t].pinned,
         row[t].status = "running", row[t].phase \notin TerminalPhase,
         row' = [row EXCEPT ![t].phase = "response_ready"], paid' = paid
  PROVE  Shaped' /\ PromiseStep
<1>1. row \in [Task -> Rows] /\ row[t] \in Rows
  BY RowOf
<1>2. /\ Elsewhere(t) /\ row'[t].status = "running" /\ row'[t].phase = "response_ready"
      /\ row'[t].pinned
  BY <1>1 DEF Elsewhere, Rows
<1>3. ShapeInv(t)' /\ StageOf(row'[t]) = "answered" /\ StageOf(row[t]) = "answered"
  BY <1>2 DEF ShapeInv, StageOf, TerminalPhase
<1> QED BY <1>2, <1>3, Still

LEMMA ReadyKeeps ==
  ASSUME IInv, Shaped, NEW w \in Worker, MarkReady(w) PROVE Shaped' /\ PromiseStep
<1>1. PICK t \in Task : t = run[w].task
  BY DEF IInv, RunInv, MarkReady, At
<1>2. row[t].pinned
  BY <1>1 DEF IInv, RunInv, MarkReady, At, Answered
<1>3. /\ row[t].status = "running" /\ row[t].phase \notin TerminalPhase
      /\ row' = [row EXCEPT ![t].phase = "response_ready"] /\ paid' = paid
  BY <1>1 DEF MarkReady, Owns
<1> QED BY <1>2, <1>3, PhaseKeeps

LEMMA ConfirmKeeps ==
  ASSUME IInv, Shaped, NEW w \in Worker, ConfirmResponse(w) PROVE Shaped' /\ PromiseStep
<1>1. PICK t \in Task : t = run[w].task
  BY DEF IInv, RunInv, ConfirmResponse, At
<1>2. row[t].pinned
  BY <1>1 DEF IInv, RunInv, ConfirmResponse, At, Answered
<1>3. CASE Owns(w) /\ row' = [row EXCEPT ![t].phase = "response_ready"] /\ paid' = paid
  BY <1>1, <1>2, <1>3, PhaseKeeps DEF Owns
<1>4. CASE UNCHANGED <<row, paid>>
  BY <1>4, Quiet
<1> QED BY <1>1, <1>3, <1>4 DEF ConfirmResponse, NotLetThrough

LEMMA StageKeeps ==
  ASSUME IInv, Shaped, NEW w \in Worker, StageArtifacts(w) PROVE Shaped' /\ PromiseStep
<1>1. PICK t \in Task : t = run[w].task
  BY DEF IInv, RunInv, StageArtifacts, At
<1>2. row \in [Task -> Rows] /\ row[t] \in Rows /\ ShapeInv(t)
  BY RowOf DEF Shaped
<1>3. CASE row' = [row EXCEPT ![t].manifest = TRUE] /\ paid' = paid
  <2>1. /\ Elsewhere(t) /\ row'[t].status = row[t].status /\ row'[t].phase = row[t].phase
        /\ row'[t].pinned = row[t].pinned /\ row'[t].call = row[t].call
        /\ row'[t].versions = row[t].versions
    BY <1>2, <1>3 DEF Elsewhere, Rows
  <2>2. ShapeInv(t)' /\ StageOf(row'[t]) = StageOf(row[t])
    BY <1>2, <2>1 DEF ShapeInv, StageOf, Unknown
  <2> QED BY <1>3, <2>1, <2>2, Still
<1>4. CASE UNCHANGED <<row, paid>>
  BY <1>4, Quiet
<1> QED BY <1>1, <1>3, <1>4 DEF StageArtifacts, NotLetThrough

LEMMA CompleteKeeps ==
  ASSUME IInv, Shaped, NEW w \in Worker, Complete(w) PROVE Shaped' /\ PromiseStep
<1>1. PICK t \in Task : t = run[w].task
  BY DEF IInv, RunInv, Complete, At
<1>2. row \in [Task -> Rows] /\ row[t] \in Rows
  BY RowOf
<1>3. CASE /\ Owns(w) /\ paid' = paid
           /\ row' = [row EXCEPT ![t].versions = @ + 1, ![t].status = "adopted",
                                 ![t].phase = "completed", ![t].token = 0, ![t].live = FALSE]
  <2>1. row[t].pinned /\ row[t].versions \in Nat
    BY <1>1, <1>2 DEF IInv, RunInv, Complete, At, Answered, Rows
  <2>2. row[t].status = "running" /\ row[t].phase \notin TerminalPhase
    BY <1>1, <1>3 DEF Owns
  <2>3. /\ Elsewhere(t) /\ row'[t].status = "adopted" /\ row'[t].phase = "completed"
        /\ row'[t].versions = row[t].versions + 1
    BY <1>2, <1>3 DEF Elsewhere, Rows
  <2>4. ShapeInv(t)' /\ StageOf(row[t]) = "answered" /\ StageOf(row'[t]) = "adopted"
    BY <2>1, <2>2, <2>3 DEF ShapeInv, StageOf, TerminalPhase
  <2> QED BY <1>3, <2>3, <2>4, Adopts
<1>4. CASE UNCHANGED <<row, paid>>
  BY <1>4, Quiet
<1> QED BY <1>1, <1>3, <1>4 DEF Complete, NotLetThrough, Admitted

LEMMA StoppingKeeps ==
  ASSUME IInv, Shaped, NEW t \in Task, row[t].status # "absent", row[t].phase \notin TerminalPhase,
         NEW code \in Code, code = "uncertain" <=> Unknown(row[t]),
         row' = [row EXCEPT ![t] = Stopped(row[t], code)], paid' = paid
  PROVE  Shaped' /\ PromiseStep
<1>1. row \in [Task -> Rows] /\ row[t] \in Rows
  BY RowOf
<1>2. row'[t] = Stopped(row[t], code) /\ Elsewhere(t)
  BY <1>1 DEF Elsewhere
<1>3. row'[t].status # "absent" /\ row'[t].phase = IF code = "uncertain" THEN "uncertain" ELSE "failed"
  BY <1>1, <1>2 DEF Stopped, Rows
<1> QED BY <1>2, <1>3, StopsAs

LEMMA ClaimStopsKeeps ==
  ASSUME IInv, Shaped, NEW w \in Worker, ClaimStops(w) PROVE Shaped' /\ PromiseStep
<1>1. PICK t \in Task : t = run[w].task
  BY DEF IInv, RunInv, ClaimStops, At
<1>2. PICK code \in Code : code = Ended(row[t])
  BY <1>1 DEF ClaimStops, Ended, Code
<1>3. /\ row[t].status # "absent" /\ row[t].phase \notin TerminalPhase /\ Ended(row[t]) # "none"
      /\ row' = [row EXCEPT ![t] = Stopped(row[t], code)] /\ paid' = paid
  BY <1>1, <1>2 DEF ClaimStops, Claimable, InProgress, IInv, TypeOK
<1>4. RowInv(t)
  BY RowOf
<1>5. code = "uncertain" <=> Unknown(row[t])
  BY <1>2, <1>4 DEF Ended, RowInv, Unknown
<1> QED BY <1>3, <1>5, StoppingKeeps

LEMMA ClaimKeeps == ASSUME IInv, Shaped, NEW w \in Worker, Claim(w) PROVE Shaped' /\ PromiseStep
<1>1. PICK t \in Task : t = run[w].task
  BY DEF IInv, RunInv, Claim, At
<1>2. row \in [Task -> Rows] /\ row[t] \in Rows /\ RowInv(t)
  BY RowOf
<1>3. /\ row[t].status \in {"queued", "running"} /\ row[t].phase \notin TerminalPhase
      /\ ~Unknown(row[t]) /\ paid' = paid
      /\ row' = [row EXCEPT ![t].phase = IF row[t].pinned THEN @ ELSE "preparing",
                            ![t].status = "running", ![t].error = "none",
                            ![t].tries = @ + 1, ![t].token = row[t].tries + 1, ![t].live = TRUE,
                            ![t].call = IF @ = "none" THEN "pending" ELSE @]
  BY <1>1 DEF Claim, Claimable, InProgress, Ended
<1>4. /\ Elsewhere(t) /\ row'[t].status = "running" /\ row'[t].pinned = row[t].pinned
      /\ row'[t].phase = IF row[t].pinned THEN row[t].phase ELSE "preparing"
      /\ row'[t].call = IF row[t].call = "none" THEN "pending" ELSE row[t].call
  BY <1>2, <1>3 DEF Elsewhere, Rows
<1>5. ~Unknown(row'[t]) /\ row'[t].phase \notin TerminalPhase
  <2>1. ~Unknown(row'[t])
    <3>1. row'[t].call \in {"submitted", "received"} => row'[t].call = row[t].call
      BY <1>4
    <3> QED BY <1>3, <1>4, <3>1 DEF Unknown
  <2>2. CASE row[t].pinned
    <3>1. row'[t].phase = row[t].phase
      BY <1>4, <2>2
    <3> QED BY <1>3, <2>1, <3>1, Zenon
  <2>3. CASE ~row[t].pinned
    BY <1>4, <2>1, <2>3 DEF TerminalPhase
  <2> QED BY <2>2, <2>3
<1>6. ShapeInv(t)' /\ StageOf(row'[t]) = StageOf(row[t])
  BY <1>3, <1>4, <1>5 DEF ShapeInv, StageOf, TerminalPhase
<1> QED BY <1>3, <1>4, <1>6, Still

LEMMA FailKeeps ==
  ASSUME IInv, Shaped, ~Stall, NEW w \in Worker, Fail(w) PROVE Shaped' /\ PromiseStep
<1>1. PICK t \in Task : t = run[w].task
  BY DEF IInv, RunInv, Fail, At
<1>2. /\ row \in [Task -> Rows] /\ row[t] \in Rows /\ RowInv(t) /\ RunInv(w) /\ run[w] \in Runs
      /\ run[w].pc = "fail" /\ paid' = paid
  BY <1>1, RowOf DEF Fail, At, IInv, TypeOK
<1> DEFINE code == run[w].code
<1>3. CASE Lost(w)
  BY <1>2, <1>3, Quiet DEF Fail
<1>4. ~Lost(w) =>
        /\ row[t].status # "absent" /\ row[t].phase \notin TerminalPhase
        /\ run[w].token = 0 => ~row[t].live /\ InProgress(row[t])
        /\ run[w].token # 0 => Leases(w)
  BY <1>1 DEF Lost, Leases, InProgress
<1>5. CASE ~Lost(w) /\ Retries(row[t], code)
  <2>1. /\ ~Unknown(row[t])
        /\ row' = [row EXCEPT ![t].phase = IF row[t].pinned THEN @ ELSE "pending",
                              ![t].status = IF row[t].pinned THEN "running" ELSE "queued",
                              ![t].error = "pending", ![t].token = 0, ![t].live = FALSE,
                              ![t].due = FALSE]
    BY <1>1, <1>5 DEF Fail, Retries
  <2>2. /\ Elsewhere(t) /\ row'[t].status \in {"running", "queued"}
        /\ row'[t].phase = IF row[t].pinned THEN row[t].phase ELSE "pending"
        /\ row'[t].pinned = row[t].pinned /\ row'[t].call = row[t].call
    BY <1>2, <2>1 DEF Elsewhere, Rows
  <2>3. ~Unknown(row'[t]) /\ row'[t].phase \notin TerminalPhase
    <3>1. ~Unknown(row'[t])
      BY <2>1, <2>2 DEF Unknown
    <3>2. "pending" \notin TerminalPhase
      BY DEF TerminalPhase
    <3> QED BY <1>4, <1>5, <2>2, <3>1, <3>2
  <2>4. ShapeInv(t)' /\ StageOf(row'[t]) = StageOf(row[t])
    BY <1>4, <1>5, <2>1, <2>2, <2>3 DEF ShapeInv, StageOf, TerminalPhase
  <2> QED BY <1>2, <2>2, <2>4, Still
<1>6. CASE ~Lost(w) /\ ~Retries(row[t], code)
  <2>1. PICK end \in Code : end = EndOf(row[t], code)
    BY DEF EndOf, Code
  <2>2. row' = [row EXCEPT ![t] = Stopped(row[t], end)]
    BY <1>1, <1>6, <2>1 DEF Fail
  <2>3. code = "blocked" => ~Unknown(row[t])
    BY <1>1, <1>2, <1>4, <1>6 DEF RunInv
  <2>4. end = "uncertain" <=> Unknown(row[t])
    BY <2>1, <2>3 DEF EndOf
  <2> QED BY <1>2, <1>4, <1>6, <2>2, <2>4, StoppingKeeps
<1> QED BY <1>3, <1>5, <1>6

LEMMA StepKeeps ==
  ASSUME IInv, Shaped, ~Stall, NEW w \in Worker, Step(w) PROVE Shaped' /\ PromiseStep
<1>1. CASE ClaimNothing(w) \/ ClaimRefused(w) \/ Load(w) \/ RecordRefused(w) \/ PutResponse(w)
             \/ ReadResponse(w) \/ FetchResponse(w) \/ UploadOutputs(w) \/ SubmitRefused(w)
  <2>1. UNCHANGED <<row, paid>>
    BY <1>1 DEF ClaimNothing, ClaimRefused, Load, RecordRefused, PutResponse, ReadResponse,
                FetchResponse, UploadOutputs, SubmitRefused, NotLetThrough
  <2> QED BY <2>1, Quiet
<1> QED BY <1>1, ClaimStopsKeeps, ClaimKeeps, SubmitKeeps, CallKeeps, RecordKeeps, ReadyKeeps,
           ConfirmKeeps, StageKeeps, CompleteKeeps, FailKeeps DEF Step
-----------------------------------------------------------------------------
(***************************************************************************)
(* The steps of dispatchers, of time and of the world.                     *)
(***************************************************************************)
\* What the promise reads of a row stays as it was.
LEMMA SameKeeps ==
  ASSUME Shaped, NEW t \in Task, Elsewhere(t), paid' = paid,
         row'[t].status = row[t].status, row'[t].phase = row[t].phase, row'[t].call = row[t].call,
         row'[t].pinned = row[t].pinned, row'[t].versions = row[t].versions
  PROVE  Shaped' /\ PromiseStep
<1>1. ShapeInv(t)' /\ StageOf(row'[t]) = StageOf(row[t])
  BY DEF Shaped, ShapeInv, StageOf, Unknown
<1> QED BY <1>1, Still

LEMMA DispatchKeeps ==
  ASSUME IInv, Shaped, NEW t \in Task, Dispatch(t) PROVE Shaped' /\ PromiseStep
<1>1. row \in [Task -> Rows] /\ row[t] \in Rows
  BY RowOf
<1>2. CASE DispatchPending(t) \/ Reserve(t)
  <2>1. \/ UNCHANGED row
        \/ \E d : row' = [row EXCEPT ![t].sentBy = d, ![t].throttled = TRUE]
    BY <1>2 DEF DispatchPending, Reserve
  <2>2. paid' = paid
    BY <1>2 DEF DispatchPending, Reserve
  <2>3. /\ Elsewhere(t) /\ row'[t].status = row[t].status /\ row'[t].phase = row[t].phase
        /\ row'[t].call = row[t].call /\ row'[t].pinned = row[t].pinned
        /\ row'[t].versions = row[t].versions
    <3>1. CASE UNCHANGED row
      BY <3>1 DEF Elsewhere
    <3>2. ASSUME NEW d, row' = [row EXCEPT ![t].sentBy = d, ![t].throttled = TRUE] PROVE <2>3
      BY <1>1, <3>2 DEF Elsewhere, Rows
    <3> QED BY <2>1, <3>1, <3>2
  <2> QED BY <2>2, <2>3, SameKeeps
<1>3. CASE \E d \in Dispatcher : EnqueueFails(d, t)
  <2>1. paid' = paid /\ \E b, e : row' = [row EXCEPT ![t].throttled = b, ![t].error = e]
    BY <1>3 DEF EnqueueFails
  <2>2. /\ Elsewhere(t) /\ row'[t].status = row[t].status /\ row'[t].phase = row[t].phase
        /\ row'[t].call = row[t].call /\ row'[t].pinned = row[t].pinned
        /\ row'[t].versions = row[t].versions
    BY <1>1, <2>1 DEF Elsewhere, Rows
  <2> QED BY <2>1, <2>2, SameKeeps
<1>4. CASE \E d \in Dispatcher : Enqueue(d, t) \/ DispatcherDies(d, t)
  BY <1>4, Quiet DEF Enqueue, DispatcherDies
<1> QED BY <1>2, <1>3, <1>4, CreateKeeps DEF Dispatch

\* A response past its days stops a task that has not ended: its receipt is recorded.
LEMMA PurgeKeeps == ASSUME IInv, Shaped, NEW t \in Task, Purge(t) PROVE Shaped' /\ PromiseStep
<1>1. row \in [Task -> Rows] /\ row[t] \in Rows /\ RowInv(t) /\ ShapeInv(t)
  BY RowOf DEF Shaped
<1> DEFINE stops == row[t].phase \notin TerminalPhase
           r == IF stops THEN Stopped(row[t], "expired") ELSE row[t]
<1>2. row' = [row EXCEPT ![t] = [r EXCEPT !.retention = "purged"]] /\ paid' = paid
  BY <1>1 DEF Purge
<1>3. row[t].pinned /\ row[t].call = "received" /\ row[t].status # "absent"
  BY <1>1 DEF Purge, RowInv
<1>4. CASE stops
  <2>1. row'[t].status = "failed" /\ row'[t].phase = "failed" /\ Elsewhere(t)
    BY <1>1, <1>2, <1>4 DEF Stopped, Rows, Elsewhere
  <2> QED BY <1>2, <1>3, <1>4, <2>1, StopsAs DEF Unknown
<1>5. CASE ~stops
  <2>1. /\ Elsewhere(t) /\ row'[t].status = row[t].status /\ row'[t].phase = row[t].phase
        /\ row'[t].call = row[t].call /\ row'[t].pinned = row[t].pinned
        /\ row'[t].versions = row[t].versions
    BY <1>1, <1>2, <1>5 DEF Elsewhere, Rows
  <2> QED BY <1>2, <2>1, SameKeeps
<1> QED BY <1>4, <1>5

LEMMA MaintainKeeps ==
  ASSUME IInv, Shaped, NEW t \in Task, Maintain(t) PROVE Shaped' /\ PromiseStep
<1>1. row \in [Task -> Rows] /\ row[t] \in Rows
  BY RowOf
<1>2. CASE PurgeBreaks(t) \/ GroundsChange(t)
  BY <1>2, Quiet DEF PurgeBreaks, GroundsChange
<1>3. CASE BecomesDue(t) \/ ThrottleLapses(t) \/ LeaseLapses(t) \/ ResponseExpires(t)
  <2>1. /\ paid' = paid
        /\ \/ row' = [row EXCEPT ![t].due = TRUE]
           \/ row' = [row EXCEPT ![t].throttled = FALSE]
           \/ row' = [row EXCEPT ![t].live = FALSE]
           \/ row' = [row EXCEPT ![t].retention = "expired"]
    BY <1>3 DEF BecomesDue, ThrottleLapses, LeaseLapses, ResponseExpires
  <2>2. /\ Elsewhere(t) /\ row'[t].status = row[t].status /\ row'[t].phase = row[t].phase
        /\ row'[t].call = row[t].call /\ row'[t].pinned = row[t].pinned
        /\ row'[t].versions = row[t].versions
    BY <1>1, <2>1 DEF Elsewhere, Rows
  <2> QED BY <2>1, <2>2, SameKeeps
<1> QED BY <1>2, <1>3, PurgeKeeps DEF Maintain

LEMMA EveryStepKeeps ==
  ASSUME IInv, Shaped, ~Stall, [Next]_vars PROVE Shaped' /\ PromiseStep
<1>1. ASSUME NEW w \in Worker, WorkerDies(w) \/ \E t \in Task : Deliver(w, t)
      PROVE  Shaped' /\ PromiseStep
  BY <1>1, Quiet DEF WorkerDies, Deliver
<1>2. CASE UNCHANGED vars
  BY <1>2, Quiet DEF vars
<1> QED BY <1>1, <1>2, StepKeeps, DispatchKeeps, MaintainKeeps DEF Next

LEMMA StartKeeps == ASSUME Init PROVE Shaped /\ Promise!Init
<1>1. \A t \in Task : StageOf(row[t]) = "absent"
  BY DEF Init, NoRow, StageOf
<1> QED BY <1>1 DEF Init, NoRow, Shaped, ShapeInv, Promise!Init

\* Where no refused claim stalls for five minutes, everything the rows and the provider go
\* through is what docs/integration/pod-response-recovery.md promises: a task asks after it
\* has recorded that it is about to, is paid for once, and its answer is adopted, given up
\* or declared uncertain (artwork-task.ts, pod-artwork-recovery.ts).
THEOREM PodKeepsPromise == "stall" \notin Faults /\ Spec => KeepsPromise
<1>1. "stall" \notin Faults => ~Stall
  BY DEF Stall
<1>2. Init => Shaped /\ Promise!Init
  BY StartKeeps
<1>3. IInv /\ Shaped /\ ~Stall /\ [Next]_vars => Shaped' /\ [Promise!Next]_(Promise!vars)
  BY EveryStepKeeps DEF PromiseStep
<1>4. ~Stall => [](~Stall)
  BY DEF Stall
<1> QED BY <1>1, <1>2, <1>3, <1>4, PodInvariance, PTL DEF Spec, KeepsPromise, Promise!Spec
-----------------------------------------------------------------------------
(***************************************************************************)
(* Why a stopped task was stopped.                                         *)
(***************************************************************************)
\* A task is not stopped without a cause, and what was recorded as answered was answered.
RowCause(t) ==
  /\ reply[t] # "none" => paid[t] > 0
  /\ row[t].pinned => reply[t] # "none"
  /\ row[t].phase = "failed" => row[t].status \in {"failed", "blocked"} /\ ForCause(t)

\* A run that speaks of a refused answer has met one, or the answer's days were over.
RunCause(w) ==
  LET t == run[w].task IN
  /\ run[w].pc = "record" => reply[t] # "none"
  /\ run[w].pc = "fail" /\ run[w].code = "invalid" =>
       row[t].retention # "kept" \/ reply[t] = "invalid"

Caused ==
  /\ \A t \in Task : RowCause(t)
  /\ \A w \in Worker : RunCause(w)

\* A row that keeps its cause, or does not need one.
KeepsCause(t) ==
  /\ row[t].retention # "kept" => row'[t].retention # "kept"
  /\ row'[t].pinned => row[t].pinned \/ reply[t] # "none"
  /\ \/ row'[t].phase # "failed"
     \/ /\ row[t].phase = "failed"
        /\ row'[t].status = row[t].status /\ row'[t].error = row[t].error
        /\ row'[t].tries = row[t].tries
     \/ row'[t].status \in {"failed", "blocked"} /\ ForCause(t)'

\* A run that goes on says nothing new of the answer, or what is true of it.
KeepsWord(w) ==
  \/ run'[w] = run[w]
  \/ run'[w].pc \notin {"record", "fail"}
  \/ run'[w].pc = "fail" /\ run'[w].code # "invalid"
  \/ RunCause(w)'

LEMMA Causing ==
  ASSUME IInv, Caused, UNCHANGED <<reply, paid>>, \A t \in Task : KeepsCause(t),
         \A w \in Worker : KeepsWord(w)
  PROVE  Caused'
<1>1. ASSUME NEW t \in Task PROVE RowCause(t)'
  <2>1. RowCause(t) /\ KeepsCause(t)
    BY <1>1 DEF Caused
  <2> QED BY <2>1 DEF RowCause, KeepsCause, ForCause
<1>2. ASSUME NEW w \in Worker PROVE RunCause(w)'
  <2>1. RunCause(w) /\ KeepsWord(w)
    BY <1>2 DEF Caused
  <2>2. ASSUME run'[w] = run[w], run[w].pc # "idle" PROVE RunCause(w)'
    <3>1. run[w].task \in Task /\ KeepsCause(run[w].task)
      BY <2>2 DEF IInv, RunInv
    <3> QED BY <2>1, <2>2, <3>1 DEF RunCause, KeepsCause
  <2> QED BY <2>1, <2>2 DEF KeepsWord, RunCause
<1> QED BY <1>1, <1>2 DEF Caused

\* A step that leaves the rows alone.
LEMMA RowsRest == ASSUME UNCHANGED row PROVE \A t \in Task : KeepsCause(t)
BY DEF KeepsCause

\* A step that writes one row.
LEMMA RowMoves ==
  ASSUME NEW t \in Task, Elsewhere(t), KeepsCause(t) PROVE \A u \in Task : KeepsCause(u)
BY DEF Elsewhere, KeepsCause

LEMMA RunsRest == ASSUME UNCHANGED run PROVE \A w \in Worker : KeepsWord(w)
BY DEF KeepsWord

\* A step that moves one run.
LEMMA RunMoves ==
  ASSUME IInv, NEW w \in Worker, NEW x, run' = [run EXCEPT ![w] = x],
         \/ x.pc \notin {"record", "fail"}
         \/ x.pc = "fail" /\ x.code # "invalid"
         \/ RunCause(w)'
  PROVE  \A v \in Worker : KeepsWord(v)
BY DEF IInv, TypeOK, KeepsWord

\* The ways a run moves in the model.
LEMMA RunGoes ==
  ASSUME IInv, NEW w \in Worker,
         \/ Ends(w)
         \/ \E pc \in (Working \cup {"idle"}) \ {"record", "fail"} : Goes(w, pc)
         \/ \E code \in {"trouble", "paused", "blocked"} : Fails(w, code)
         \/ Fails(w, "invalid") /\ RunCause(w)'
  PROVE  \A v \in Worker : KeepsWord(v)
<1>1. run \in [Worker -> Runs] /\ run[w] \in Runs
  BY DEF IInv, TypeOK
<1>2. CASE Ends(w)
  BY <1>2, RunMoves DEF Ends, Idle
<1>3. ASSUME NEW pc \in (Working \cup {"idle"}) \ {"record", "fail"}, Goes(w, pc)
      PROVE  \A v \in Worker : KeepsWord(v)
  <2>1. run' = [run EXCEPT ![w] = [run[w] EXCEPT !.pc = pc]]
    BY <1>1, <1>3 DEF Goes
  <2>2. [run[w] EXCEPT !.pc = pc].pc = pc
    BY <1>1 DEF Runs
  <2> QED BY <1>3, <2>1, <2>2, RunMoves
<1>4. ASSUME NEW code \in {"trouble", "paused", "blocked", "invalid"}, Fails(w, code),
             code = "invalid" => RunCause(w)'
      PROVE  \A v \in Worker : KeepsWord(v)
  <2> DEFINE x == [[run[w] EXCEPT !.pc = "fail"] EXCEPT !.code = code]
  <2>1. run' = [run EXCEPT ![w] = x]
    BY <1>1, <1>4 DEF Fails
  <2>2. x.pc = "fail" /\ x.code = code
    BY <1>1 DEF Runs
  <2> QED BY <1>4, <2>1, <2>2, RunMoves
<1> QED BY <1>2, <1>3, <1>4

\* The steps of a run that leave the rows and the provider alone.
LEMMA CauseRunning ==
  ASSUME IInv, Caused, NEW w \in Worker,
         \/ ClaimNothing(w) \/ ClaimRefused(w) \/ Load(w) \/ SubmitRefused(w) \/ RecordRefused(w)
         \/ PutResponse(w) \/ FetchResponse(w) \/ UploadOutputs(w) \/ WorkerDies(w)
         \/ NotLetThrough(w, TRUE) \/ NotLetThrough(w, FALSE)
  PROVE  Caused'
<1>1. UNCHANGED <<row, reply, paid>>
  BY DEF ClaimNothing, ClaimRefused, Load, SubmitRefused, RecordRefused, PutResponse, FetchResponse,
         UploadOutputs, WorkerDies, NotLetThrough
<1>2. \/ Ends(w)
      \/ \E pc \in (Working \cup {"idle"}) \ {"record", "fail"} : Goes(w, pc)
      \/ \E code \in {"trouble", "paused", "blocked"} : Fails(w, code)
  BY DEF ClaimNothing, ClaimRefused, Load, SubmitRefused, RecordRefused, PutResponse, FetchResponse,
         UploadOutputs, WorkerDies, NotLetThrough, Unowned, Refusal, Working
<1> QED BY <1>1, <1>2, RowsRest, RunGoes, Causing

LEMMA CauseDelivering ==
  ASSUME IInv, Caused, NEW w \in Worker, NEW t \in Task, Deliver(w, t) PROVE Caused'
<1>1. run' = [run EXCEPT ![w] = [Idle EXCEPT !.pc = "claim", !.task = t]]
  BY DEF Deliver
<1>2. [Idle EXCEPT !.pc = "claim", !.task = t].pc = "claim"
  BY DEF Idle
<1>3. UNCHANGED <<row, reply, paid>>
  BY DEF Deliver
<1> QED BY <1>1, <1>2, <1>3, RowsRest, RunMoves, Causing

\* An answer that has no receipt to be read with is one whose days are over.
LEMMA CauseReading == ASSUME IInv, Caused, NEW w \in Worker, ReadResponse(w) PROVE Caused'
<1>1. PICK t \in Task : t = run[w].task
  BY DEF IInv, RunInv, ReadResponse, At
<1>2. row[t].pinned
  BY <1>1 DEF IInv, RunInv, ReadResponse, At, Answered
<1>3. CASE NotLetThrough(w, TRUE)
  BY <1>3, CauseRunning
<1>4. CASE ~NotLetThrough(w, TRUE)
  <2>1. UNCHANGED <<row, reply, paid>>
    BY <1>4 DEF ReadResponse
  <2>2. CASE row[t].retention = "kept"
    BY <1>1, <1>2, <1>4, <2>1, <2>2, RowsRest, RunGoes, Causing DEF ReadResponse, Working
  <2>3. CASE row[t].retention # "kept"
    <3>1. Fails(w, "invalid")
      BY <1>1, <1>4, <2>3 DEF ReadResponse
    <3>2. run'[w].task = t
      BY <1>1, <3>1 DEF Fails, IInv, TypeOK, Runs
    <3>3. run'[w].pc = "fail"
      BY <3>1 DEF Fails, IInv, TypeOK, Runs
    <3>4. RunCause(w)'
      BY <2>1, <2>3, <3>2, <3>3 DEF RunCause
    <3> QED BY <2>1, <3>1, <3>4, RowsRest, RunGoes, Causing
  <2> QED BY <2>2, <2>3
<1> QED BY <1>3, <1>4

\* An answer is refused when it is not valid.
LEMMA CauseRefusing ==
  ASSUME IInv, NEW w \in Worker, reply[run[w].task] = "invalid", UNCHANGED reply, Refuses(w)
  PROVE  \A v \in Worker : KeepsWord(v)
<1>1. PICK code \in {"invalid", "trouble"} : Fails(w, code)
  BY DEF Refuses
<1>2. run \in [Worker -> Runs]
  BY DEF IInv, TypeOK
<1>3. run'[w].task = run[w].task /\ run'[w].pc = "fail"
  BY <1>1, <1>2 DEF Fails, Runs
<1>4. RunCause(w)'
  BY <1>3 DEF RunCause
<1> QED BY <1>1, <1>4, RunGoes

LEMMA CauseConfirming ==
  ASSUME IInv, Caused, NEW w \in Worker, MarkReady(w) \/ ConfirmResponse(w) PROVE Caused'
<1>1. PICK t \in Task : t = run[w].task
  BY DEF IInv, RunInv, MarkReady, ConfirmResponse, At
<1>2. row[t].pinned /\ row \in [Task -> Rows] /\ row[t] \in Rows
  BY <1>1, RowOf DEF IInv, RunInv, MarkReady, ConfirmResponse, At, Answered
<1>3. reply[t] \in {"valid", "invalid"}
  BY <1>2 DEF Caused, RowCause, IInv, TypeOK
<1>4. CASE NotLetThrough(w, FALSE)
  BY <1>4, CauseRunning
<1>5. CASE ~NotLetThrough(w, FALSE)
  <2>1. row' = [row EXCEPT ![t].phase = "response_ready"] /\ UNCHANGED <<reply, paid>>
    BY <1>1, <1>5 DEF MarkReady, ConfirmResponse
  <2>2. Elsewhere(t) /\ KeepsCause(t)
    BY <1>2, <2>1 DEF Elsewhere, KeepsCause, Rows
  <2>3. Goes(w, "read") \/ Goes(w, "stage") \/ (reply[t] = "invalid" /\ Refuses(w))
    BY <1>1, <1>3, <1>5 DEF MarkReady, ConfirmResponse
  <2>4. \A v \in Worker : KeepsWord(v)
    BY <1>1, <2>1, <2>3, RunGoes, CauseRefusing DEF Working
  <2> QED BY <2>1, <2>2, <2>4, RowMoves, Causing
<1> QED BY <1>4, <1>5

\* Steps that write a row of a task that has not ended and does not end as a failure.
LEMMA CauseWorking ==
  ASSUME IInv, Caused, NEW w \in Worker,
         Submit(w) \/ RecordReceipt(w) \/ StageArtifacts(w) \/ Complete(w)
  PROVE  Caused'
<1>1. PICK t \in Task : t = run[w].task
  BY DEF IInv, RunInv, Submit, RecordReceipt, StageArtifacts, Complete, At
<1>2. row \in [Task -> Rows] /\ row[t] \in Rows
  BY RowOf
<1>3. CASE NotLetThrough(w, TRUE)
  BY <1>3, CauseRunning
<1>4. CASE ~NotLetThrough(w, TRUE)
  <2>1. /\ UNCHANGED <<reply, paid>>
        /\ \/ Ends(w)
           \/ \E pc \in (Working \cup {"idle"}) \ {"record", "fail"} : Goes(w, pc)
           \/ Fails(w, "trouble")
    BY <1>4 DEF Submit, RecordReceipt, StageArtifacts, Complete, Working
  <2>2. row[t].phase \notin TerminalPhase
    BY <1>1, <1>4 DEF Submit, RecordReceipt, StageArtifacts, Complete, Admitted, Owns
  <2>3. CASE Submit(w)
    <3>1. row' = [row EXCEPT ![t].call = "submitted"]
      BY <1>1, <2>3 DEF Submit
    <3>2. Elsewhere(t) /\ KeepsCause(t)
      BY <1>2, <2>2, <3>1 DEF Elsewhere, KeepsCause, Rows, TerminalPhase
    <3> QED BY <2>1, <3>2, RowMoves, RunGoes, Causing
  <2>4. CASE RecordReceipt(w)
    <3>1. row' = [row EXCEPT ![t].call = "received", ![t].pinned = TRUE,
                             ![t].phase = "response_staging"]
      BY <1>1, <2>4 DEF RecordReceipt
    <3>2. reply[t] # "none"
      BY <1>1, <2>4 DEF Caused, RunCause, RecordReceipt, At
    <3>3. Elsewhere(t) /\ row'[t].phase = "response_staging" /\ row'[t].retention = row[t].retention
      BY <1>2, <3>1 DEF Elsewhere, Rows
    <3>4. KeepsCause(t)
      BY <3>2, <3>3 DEF KeepsCause
    <3> QED BY <2>1, <3>3, <3>4, RowMoves, RunGoes, Causing
  <2>5. CASE StageArtifacts(w)
    <3>1. UNCHANGED row \/ row' = [row EXCEPT ![t].manifest = TRUE]
      BY <1>1, <1>4, <2>5 DEF StageArtifacts
    <3>2. Elsewhere(t) /\ KeepsCause(t)
      BY <1>2, <2>2, <3>1 DEF Elsewhere, KeepsCause, Rows, TerminalPhase
    <3> QED BY <2>1, <3>2, RowMoves, RunGoes, Causing
  <2>6. CASE Complete(w)
    <3>1. row' = [row EXCEPT ![t].versions = @ + 1, ![t].status = "adopted",
                             ![t].phase = "completed", ![t].token = 0, ![t].live = FALSE]
      BY <1>1, <1>4, <2>6 DEF Complete
    <3>2. /\ Elsewhere(t) /\ row'[t].phase = "completed" /\ row'[t].retention = row[t].retention
          /\ row'[t].pinned = row[t].pinned
      BY <1>2, <3>1 DEF Elsewhere, Rows
    <3>3. KeepsCause(t)
      BY <3>2 DEF KeepsCause
    <3> QED BY <2>1, <3>2, <3>3, RowMoves, RunGoes, Causing
  <2> QED BY <2>3, <2>4, <2>5, <2>6
<1> QED BY <1>3, <1>4

\* The provider answers a task nobody has an answer of.
LEMMA CauseCalling == ASSUME IInv, Caused, NEW w \in Worker, CallGateway(w) PROVE Caused'
<1>1. PICK t \in Task : t = run[w].task
  BY DEF IInv, RunInv, CallGateway, At
<1>2. /\ RunInv(w) /\ RowInv(t) /\ RowCause(t) /\ run[w].pc = "call" /\ UNCHANGED row
      /\ run \in [Worker -> Runs] /\ paid \in [Task -> Nat]
      /\ reply \in [Task -> {"none", "valid", "invalid"}]
  BY <1>1 DEF IInv, TypeOK, Caused, CallGateway, At
<1>3. paid[t] = 0 /\ ~row[t].pinned /\ row[t].retention = "kept" /\ reply[t] = "none"
  BY <1>1, <1>2 DEF RunInv, RowInv, RowCause
<1>4. /\ paid' = [paid EXCEPT ![t] = @ + 1]
      /\ \/ Goes(w, "record") /\ \E a \in {"valid", "invalid"} : reply' = [reply EXCEPT ![t] = a]
         \/ Fails(w, "trouble") /\ UNCHANGED reply
  BY <1>1 DEF CallGateway
<1>5. /\ paid'[t] = 1 /\ \A u \in Task : u # t => paid'[u] = paid[u] /\ reply'[u] = reply[u]
      /\ run'[w].task = t /\ \A v \in Worker : v # w => run'[v] = run[v]
  BY <1>1, <1>2, <1>3, <1>4 DEF Goes, Fails, Runs
<1>6. ASSUME NEW u \in Task PROVE RowCause(u)'
  <2>1. RowCause(u)
    BY DEF Caused
  <2>2. CASE u # t
    BY <1>2, <1>5, <2>1, <2>2 DEF RowCause, ForCause
  <2>3. CASE u = t
    <3>1. row[t].phase = "failed" => row[t].error # "invalid" \/ row[t].retention # "kept"
      BY <1>2, <1>3 DEF RowCause, ForCause
    <3> QED BY <1>2, <1>3, <1>5, <2>3, <3>1 DEF RowCause, ForCause
  <2> QED BY <2>2, <2>3
<1>7. ASSUME NEW v \in Worker PROVE RunCause(v)'
  <2>1. CASE v = w
    <3>1. \/ run'[w].pc = "record" /\ reply'[t] # "none"
          \/ run'[w].pc = "fail" /\ run'[w].code = "trouble"
      BY <1>2, <1>4 DEF Goes, Fails, Runs
    <3> QED BY <1>5, <2>1, <3>1 DEF RunCause
  <2>2. CASE v # w
    <3>1. RunCause(v) /\ run'[v] = run[v]
      BY <1>5, <2>2 DEF Caused
    <3>2. CASE run[v].pc # "idle" /\ run[v].task # t
      <4>1. run[v].task \in Task
        BY <3>2 DEF IInv, RunInv
      <4> QED BY <1>2, <1>5, <3>1, <3>2, <4>1 DEF RunCause
    <3>3. CASE run[v].pc # "idle" /\ run[v].task = t
      BY <1>2, <1>3, <3>1, <3>3 DEF RunCause
    <3>4. CASE run[v].pc = "idle"
      BY <3>1, <3>4 DEF RunCause
    <3> QED BY <3>2, <3>3, <3>4
  <2> QED BY <2>1, <2>2
<1> QED BY <1>6, <1>7 DEF Caused

\* A task that is stopped for cause.
LEMMA CauseStopping ==
  ASSUME IInv, NEW t \in Task, NEW code \in Code,
         row' = [row EXCEPT ![t] = Stopped(row[t], code)], UNCHANGED reply,
         code = "local" => row[t].tries = Tries,
         code = "expired" => row[t].retention # "kept",
         code = "invalid" => row[t].retention # "kept" \/ reply[t] = "invalid"
  PROVE  \A u \in Task : KeepsCause(u)
<1>1. row \in [Task -> Rows] /\ row[t] \in Rows
  BY RowOf
<1>2. row'[t] = Stopped(row[t], code) /\ Elsewhere(t)
  BY <1>1 DEF Elsewhere
<1>3. /\ row'[t].phase = IF code = "uncertain" THEN "uncertain" ELSE "failed"
      /\ row'[t].status \in {"blocked", "failed"} /\ row'[t].error = code
      /\ row'[t].tries = row[t].tries /\ row'[t].retention = row[t].retention
      /\ row'[t].pinned = row[t].pinned
  BY <1>1, <1>2 DEF Stopped, Rows
<1>4. code # "uncertain" => code \in {"blocked", "local", "expired", "invalid"}
  BY DEF Code
<1>5. KeepsCause(t)
  BY <1>3, <1>4 DEF KeepsCause, ForCause
<1> QED BY <1>2, <1>5, RowMoves

LEMMA CauseClaimStopping == ASSUME IInv, Caused, NEW w \in Worker, ClaimStops(w) PROVE Caused'
<1>1. PICK t \in Task : t = run[w].task
  BY DEF IInv, RunInv, ClaimStops, At
<1>2. row[t] \in Rows
  BY RowOf
<1>3. PICK code \in Code : code = Ended(row[t])
  BY <1>1 DEF ClaimStops, Ended, Code
<1>4. row' = [row EXCEPT ![t] = Stopped(row[t], code)] /\ UNCHANGED <<reply, paid>> /\ Ends(w)
  BY <1>1, <1>3 DEF ClaimStops, IInv, TypeOK
<1>5. /\ code = "local" => row[t].tries = Tries
      /\ code = "expired" => row[t].retention # "kept"
      /\ code # "invalid"
  BY <1>2, <1>3, PodAssumption DEF Ended, Rows
<1> QED BY <1>4, <1>5, CauseStopping, RunGoes, Causing

LEMMA CauseClaiming == ASSUME IInv, Caused, NEW w \in Worker, Claim(w) PROVE Caused'
<1>1. PICK t \in Task : t = run[w].task
  BY DEF IInv, RunInv, Claim, At
<1>2. row \in [Task -> Rows] /\ row[t] \in Rows
  BY RowOf
<1>3. /\ row[t].phase \notin TerminalPhase /\ UNCHANGED <<reply, paid>>
      /\ row' = [row EXCEPT ![t].phase = IF row[t].pinned THEN @ ELSE "preparing",
                            ![t].status = "running", ![t].error = "none",
                            ![t].tries = @ + 1, ![t].token = row[t].tries + 1, ![t].live = TRUE,
                            ![t].call = IF @ = "none" THEN "pending" ELSE @]
      /\ run' = [run EXCEPT ![w].pc = "load", ![w].token = row[t].tries + 1,
                            ![w].had = row[t].pinned]
  BY <1>1 DEF Claim, Claimable, InProgress
<1>4. /\ Elsewhere(t) /\ row'[t].pinned = row[t].pinned /\ row'[t].retention = row[t].retention
      /\ row'[t].phase = IF row[t].pinned THEN row[t].phase ELSE "preparing"
  BY <1>2, <1>3 DEF Elsewhere, Rows
<1>5. row'[t].phase # "failed"
  BY <1>3, <1>4 DEF TerminalPhase
<1>6. KeepsCause(t)
  BY <1>4, <1>5 DEF KeepsCause
<1>7. run \in [Worker -> Runs]
  BY DEF IInv, TypeOK
<1>8. run'[w].pc = "load" /\ \A v \in Worker : v # w => run'[v] = run[v]
  BY <1>3, <1>7 DEF Runs
<1>9. \A v \in Worker : KeepsWord(v)
  BY <1>8 DEF KeepsWord
<1> QED BY <1>3, <1>4, <1>6, <1>9, RowMoves, Causing

LEMMA CauseFailing == ASSUME IInv, Caused, NEW w \in Worker, Fail(w) PROVE Caused'
<1>1. PICK t \in Task : t = run[w].task
  BY DEF IInv, RunInv, Fail, At
<1>2. /\ row \in [Task -> Rows] /\ row[t] \in Rows /\ RunCause(w)
      /\ run[w].pc = "fail" /\ UNCHANGED <<reply, paid>> /\ Ends(w)
  BY <1>1, RowOf DEF Fail, At, Caused
<1> DEFINE code == run[w].code
<1>3. CASE Lost(w)
  BY <1>2, <1>3, RowsRest, RunGoes, Causing DEF Fail
<1>4. CASE ~Lost(w) /\ Retries(row[t], code)
  <2>1. /\ row[t].phase \notin TerminalPhase
        /\ row' = [row EXCEPT ![t].phase = IF row[t].pinned THEN @ ELSE "pending",
                              ![t].status = IF row[t].pinned THEN "running" ELSE "queued",
                              ![t].error = "pending", ![t].token = 0, ![t].live = FALSE,
                              ![t].due = FALSE]
    BY <1>1, <1>4 DEF Fail, Lost, InProgress
  <2>2. /\ Elsewhere(t) /\ row'[t].pinned = row[t].pinned /\ row'[t].retention = row[t].retention
        /\ row'[t].phase = IF row[t].pinned THEN row[t].phase ELSE "pending"
    BY <1>2, <2>1 DEF Elsewhere, Rows
  <2>3. row'[t].phase # "failed"
    BY <2>1, <2>2 DEF TerminalPhase
  <2>4. KeepsCause(t)
    BY <2>2, <2>3 DEF KeepsCause
  <2> QED BY <1>2, <2>2, <2>4, RowMoves, RunGoes, Causing
<1>5. CASE ~Lost(w) /\ ~Retries(row[t], code)
  <2>1. PICK end \in Code : end = EndOf(row[t], code)
    BY DEF EndOf, Code
  <2>2. row' = [row EXCEPT ![t] = Stopped(row[t], end)]
    BY <1>1, <1>5, <2>1 DEF Fail
  <2>3. end = "local" => row[t].tries = Tries
    <3>1. SUFFICES ASSUME end = "local" PROVE row[t].tries >= Tries
      BY <1>2, <3>1, PodAssumption DEF Rows
    <3>2. code \notin {"blocked", "invalid"} /\ ~Unknown(row[t])
      BY <2>1, <3>1 DEF EndOf
    <3> QED BY <1>2, <1>5, <3>2, PodAssumption DEF Retries, Rows
  <2>4. end # "expired" /\ (end = "invalid" => code = "invalid")
    BY <2>1 DEF EndOf
  <2>5. end = "invalid" => row[t].retention # "kept" \/ reply[t] = "invalid"
    BY <1>1, <1>2, <2>4 DEF RunCause
  <2> QED BY <1>2, <2>2, <2>3, <2>4, <2>5, CauseStopping, RunGoes, Causing
<1> QED BY <1>3, <1>4, <1>5

LEMMA CauseDispatching ==
  ASSUME IInv, Shaped, Caused, NEW t \in Task, Dispatch(t) PROVE Caused'
<1>1. row \in [Task -> Rows] /\ row[t] \in Rows /\ ShapeInv(t) /\ RowCause(t)
  BY RowOf DEF Shaped, Caused
<1>2. UNCHANGED <<reply, paid, run>>
  BY DEF Dispatch, Create, DispatchPending, Reserve, Enqueue, EnqueueFails, DispatcherDies
<1>3. CASE Create(t)
  <2>1. row[t].phase = "pending"
    BY <1>1, <1>3 DEF Create, ShapeInv
  <2>2. \/ row' = [row EXCEPT ![t].status = "queued", ![t].sentBy = "owner", ![t].throttled = TRUE]
        \/ row' = [row EXCEPT ![t].status = "queued"]
    BY <1>3 DEF Create
  <2>3. /\ Elsewhere(t) /\ row'[t].phase = row[t].phase /\ row'[t].pinned = row[t].pinned
        /\ row'[t].retention = row[t].retention
    BY <1>1, <2>2 DEF Elsewhere, Rows
  <2>4. KeepsCause(t)
    BY <2>1, <2>3 DEF KeepsCause
  <2> QED BY <1>2, <2>3, <2>4, RowMoves, RunsRest, Causing
<1>4. CASE DispatchPending(t) \/ Reserve(t)
  <2>1. UNCHANGED row \/ \E d : row' = [row EXCEPT ![t].sentBy = d, ![t].throttled = TRUE]
    BY <1>4 DEF DispatchPending, Reserve
  <2>2. Elsewhere(t) /\ KeepsCause(t)
    <3>1. CASE UNCHANGED row
      BY <3>1 DEF Elsewhere, KeepsCause
    <3>2. ASSUME NEW d, row' = [row EXCEPT ![t].sentBy = d, ![t].throttled = TRUE] PROVE <2>2
      BY <1>1, <3>2 DEF Elsewhere, KeepsCause, Rows
    <3> QED BY <2>1, <3>1, <3>2
  <2> QED BY <1>2, <2>2, RowMoves, RunsRest, Causing
<1>5. CASE \E d \in Dispatcher : EnqueueFails(d, t)
  <2>1. PICK b, e : /\ row' = [row EXCEPT ![t].throttled = b, ![t].error = e]
                    /\ row[t].status # "queued" => e = row[t].error
    BY <1>1, <1>5 DEF EnqueueFails
  <2>2. /\ Elsewhere(t) /\ row'[t].phase = row[t].phase /\ row'[t].pinned = row[t].pinned
        /\ row'[t].retention = row[t].retention /\ row'[t].status = row[t].status
        /\ row'[t].tries = row[t].tries /\ row'[t].error = e
    BY <1>1, <2>1 DEF Elsewhere, Rows
  <2>3. KeepsCause(t)
    BY <1>1, <2>1, <2>2 DEF KeepsCause, RowCause
  <2> QED BY <1>2, <2>2, <2>3, RowMoves, RunsRest, Causing
<1>6. CASE \E d \in Dispatcher : Enqueue(d, t) \/ DispatcherDies(d, t)
  <2>1. UNCHANGED row
    BY <1>6 DEF Enqueue, DispatcherDies
  <2> QED BY <1>2, <2>1, RowsRest, RunsRest, Causing
<1> QED BY <1>3, <1>4, <1>5, <1>6 DEF Dispatch

LEMMA CauseMaintaining == ASSUME IInv, Caused, NEW t \in Task, Maintain(t) PROVE Caused'
<1>1. row \in [Task -> Rows] /\ row[t] \in Rows
  BY RowOf
<1>2. UNCHANGED <<reply, paid, run>>
  BY DEF Maintain, Purge, PurgeBreaks, BecomesDue, ThrottleLapses, LeaseLapses, ResponseExpires,
         GroundsChange
<1>3. CASE PurgeBreaks(t) \/ GroundsChange(t)
  <2>1. UNCHANGED row
    BY <1>3 DEF PurgeBreaks, GroundsChange
  <2> QED BY <1>2, <2>1, RowsRest, RunsRest, Causing
<1>4. CASE BecomesDue(t) \/ ThrottleLapses(t) \/ LeaseLapses(t) \/ ResponseExpires(t)
  <2>1. \/ row' = [row EXCEPT ![t].due = TRUE]
        \/ row' = [row EXCEPT ![t].throttled = FALSE]
        \/ row' = [row EXCEPT ![t].live = FALSE]
        \/ row' = [row EXCEPT ![t].retention = "expired"]
    BY <1>4 DEF BecomesDue, ThrottleLapses, LeaseLapses, ResponseExpires
  <2>2. Elsewhere(t) /\ KeepsCause(t)
    BY <1>1, <2>1 DEF Elsewhere, KeepsCause, Rows
  <2> QED BY <1>2, <2>2, RowMoves, RunsRest, Causing
<1>5. CASE Purge(t)
  <2> DEFINE stops == row[t].phase \notin TerminalPhase
             r == IF stops THEN Stopped(row[t], "expired") ELSE row[t]
  <2>1. row' = [row EXCEPT ![t] = [r EXCEPT !.retention = "purged"]]
    BY <1>1, <1>5 DEF Purge
  <2>2. /\ Elsewhere(t) /\ row'[t].retention = "purged" /\ row'[t].pinned = row[t].pinned
    BY <1>1, <2>1 DEF Elsewhere, Rows, Stopped
  <2>3. CASE stops
    <3>1. row'[t].status = "failed" /\ row'[t].error = "expired"
      BY <1>1, <2>1, <2>3 DEF Rows, Stopped
    <3>2. KeepsCause(t)
      BY <2>2, <3>1 DEF KeepsCause, ForCause
    <3> QED BY <1>2, <2>2, <3>2, RowMoves, RunsRest, Causing
  <2>4. CASE ~stops
    <3>1. /\ row'[t].status = row[t].status /\ row'[t].error = row[t].error
          /\ row'[t].tries = row[t].tries /\ row'[t].phase = row[t].phase
      BY <1>1, <2>1, <2>4 DEF Rows
    <3>2. KeepsCause(t)
      BY <2>2, <3>1 DEF KeepsCause
    <3> QED BY <1>2, <2>2, <3>2, RowMoves, RunsRest, Causing
  <2> QED BY <2>3, <2>4
<1> QED BY <1>3, <1>4, <1>5 DEF Maintain

LEMMA CausedByStep == ASSUME IInv, Shaped, Caused, [Next]_vars PROVE Caused'
<1>1. ASSUME NEW w \in Worker, Step(w) PROVE Caused'
  BY <1>1, CauseRunning, CauseReading, CauseConfirming, CauseWorking, CauseCalling,
     CauseClaimStopping, CauseClaiming, CauseFailing DEF Step
<1>2. CASE UNCHANGED vars
  BY <1>2, RowsRest, RunsRest, Causing DEF vars
<1> QED BY <1>1, <1>2, CauseRunning, CauseDelivering, CauseDispatching, CauseMaintaining DEF Next

\* Where no refused claim stalls for five minutes, a task whose provider was paid ends as an
\* ordinary failure only with its receipt recorded, and with the error that is true of it:
\* no claim, failure, purge or refused dispatch, in whatever order, turns one end into
\* another (claim and fail of pod-artwork-recovery.ts, purge of its retention).
THEOREM PodGivesUpForCause == "stall" \notin Faults /\ Spec => []GivenUpForCause
<1>1. "stall" \notin Faults => ~Stall
  BY DEF Stall
<1>2. Init => Shaped /\ Caused
  BY StartKeeps DEF Init, NoRow, Idle, Caused, RowCause, RunCause
<1>3. IInv /\ Shaped /\ Caused /\ ~Stall /\ [Next]_vars => Shaped' /\ Caused'
  BY EveryStepKeeps, CausedByStep
<1>4. IInv /\ Caused /\ ~Stall => GivenUpForCause
  <2> SUFFICES ASSUME IInv, Caused, ~Stall, NEW t \in Task, row[t].phase = "failed", paid[t] > 0
               PROVE  row[t].pinned /\ ForCause(t)
    BY DEF GivenUpForCause
  <2>1. RowInv(t) /\ RowCause(t)
    BY DEF IInv, Caused
  <2> QED BY <2>1 DEF RowInv, RowCause
<1>5. ~Stall => [](~Stall)
  BY DEF Stall
<1> QED BY <1>1, <1>2, <1>3, <1>4, <1>5, PodInvariance, PTL DEF Spec
=============================================================================
