------------------------ MODULE PublicationRepeatProofs ------------------------
(***************************************************************************)
(* A draft is created a second time only when the queue has redelivered    *)
(* its job (RepeatNeedsRedelivery), through crashes, stalls or lost        *)
(* leases, broken transactions, lost replies and rate limits.              *)
(*                                                                         *)
(* The argument counts.  A job that has not been taken back has one        *)
(* creation to give away, and one more once it has: to a run that may      *)
(* still create, or to the job and the row that may bring such a run.      *)
(***************************************************************************)
EXTENDS PublicationProofs

Pub(r) == job["publication"][r]
Creations(r) == sent[r][<<"create", 1>>]

On(w, r) == run[w].pc # "idle" /\ run[w].req = r

\* A first attempt claims a request whatever its latest event; past its claim a run goes on.
MayCreate(w) ==
  \/ run[w].pc \in {"lease", "claim"} /\ run[w].attempt = 0
  \/ run[w].pc \in {"guard", "call"}
  \/ run[w].pc = "fail" /\ run[w].event = "retry_pending"

\* Runs that may still create although their job has been taken back.
Strays(r) == {w \in PublicationWorker : On(w, r) /\ Pub(r).owner # w /\ MayCreate(w)}

Unbegun(r) == status[r] \in Waiting \cup {"absent"}

\* A later attempt claims a request that waits, but not one in execution.
Carried(r) ==
  \/ Pub(r).state \in {"none", "waiting"}
  \/ \E w \in PublicationWorker :
       On(w, r) /\ run[w].pc \in {"lease", "claim"} /\ (Pub(r).owner = w \/ run[w].attempt > 0)

\* The job, as it stands, leads to one more creation.
Due(r) ==
  \/ Unbegun(r) /\ Carried(r)
  \/ Pub(r).state = "waiting" /\ Pub(r).made = 0
  \/ \E w \in PublicationWorker : On(w, r) /\ Pub(r).owner = w /\ MayCreate(w)

\* The n creations made, the one that is due (m) and the strays O are two at most.
Budget(n, m, O) ==
  /\ n = 2 => ~m /\ O = {}
  /\ n = 1 /\ m => O = {}
  /\ n = 1 \/ m => \A u, v \in O : u = v
  /\ \A u, v, w \in O : u = v \/ v = w \/ u = w

\* What the row, the job and the runs of a draft say of one another.
Tied(r) ==
  /\ status[r] \notin Progress
  /\ Pub(r).state = "none" => Unbegun(r) /\ ~Pub(r).stalled
  /\ Pub(r).owner # NoWorker => Pub(r).state = "active"
  /\ \A w \in PublicationWorker : On(w, r) =>
       /\ run[w].attempt <= Pub(r).made
       /\ Pub(r).owner = w => run[w].attempt = Pub(r).made
       /\ Pub(r).owner # w => Pub(r).stalled
       /\ run[w].pc \in {"lease", "claim"} \/ status[r] = "processing"

Credit(r) ==
  /\ Unbegun(r) => Creations(r) <= 1
  /\ ~Pub(r).stalled => Creations(r) <= 1 /\ (Creations(r) = 1 => ~Due(r))
  /\ Pub(r).stalled => Budget(Creations(r), Due(r), Strays(r))

\* A draft is cancelled before its second creation, and its job is forgotten only then.
Credits ==
  /\ \A r \in Draft : ~Finished(r) => Tied(r) /\ Credit(r)
  /\ RepeatNeedsRedelivery
  /\ \A r \in Draft : Pub(r).state = "none" => ~Pub(r).stalled
  /\ \A c \in Client : client[c].pc = "remove" =>
       Finished(client[c].req) /\ (client[c].req \in Draft => Creations(client[c].req) <= 1)
-----------------------------------------------------------------------------
(***************************************************************************)
(* The budget.                                                             *)
(***************************************************************************)
LEMMA Less ==
  ASSUME NEW n, NEW m \in BOOLEAN, NEW O, Budget(n, m, O), NEW k \in BOOLEAN, NEW S, k => m, S \subseteq O
  PROVE  Budget(n, k, S)
BY DEF Budget

\* A stray creates, or gives up.
LEMMA StrayPays ==
  ASSUME NEW n \in 0..2, NEW m \in BOOLEAN, NEW O, Budget(n, m, O), NEW i \in 0..2, i = n \/ i = n + 1,
         NEW k \in BOOLEAN, NEW S, k => m, NEW w \in O, S \subseteq O \ {w}
  PROVE  Budget(i, k, S)
<1>1. n # 2 /\ (i = 2 => n = 1) /\ (i = 1 => n \in {0, 1})
  BY DEF Budget
<1>2. i = 2 => ~k /\ S = {}
  BY <1>1 DEF Budget
<1>3. i = 1 /\ k => S = {}
  BY <1>1 DEF Budget
<1>4. i = 1 \/ k => \A u, v \in S : u = v
  BY DEF Budget
<1>5. \A u, v, x \in S : u = v \/ v = x \/ u = x
  BY DEF Budget
<1> QED BY <1>2, <1>3, <1>4, <1>5 DEF Budget

\* The creation that is due is made, or not.
LEMMA DuePays ==
  ASSUME NEW n \in 0..2, NEW O, Budget(n, TRUE, O), NEW i \in 0..2, i = n \/ i = n + 1, NEW S, S \subseteq O
  PROVE  Budget(i, FALSE, S)
BY DEF Budget

\* A stray puts the request back to waiting.
LEMMA StrayHands ==
  ASSUME NEW n \in 0..2, NEW m \in BOOLEAN, NEW O, Budget(n, m, O), NEW k \in BOOLEAN, NEW S, NEW w \in O, S \subseteq O \ {w}
  PROVE  Budget(n, k, S) /\ n <= 1
<1>1. n # 2
  BY DEF Budget
<1>2. n = 1 /\ k => S = {}
  BY DEF Budget
<1>3. \A u, v \in S : u = v
  BY DEF Budget
<1> QED BY <1>1, <1>2, <1>3 DEF Budget

\* What was due is now a stray's.
LEMMA DueStrays ==
  ASSUME NEW n \in 0..2, NEW O, Budget(n, TRUE, O), NEW S, NEW w, S \subseteq O \cup {w}
  PROVE  Budget(n, FALSE, S)
<1>1. n # 2
  BY DEF Budget
<1>2. n = 1 => \A u, v \in S : u = v
  BY DEF Budget
<1>3. \A u, v, x \in S : u = v \/ v = x \/ u = x
  BY DEF Budget
<1> QED BY <1>1, <1>2, <1>3 DEF Budget
-----------------------------------------------------------------------------
(***************************************************************************)
(* A step of a run, of the queue or of the API, as one draft sees it.      *)
(***************************************************************************)
LEMMA Numbers ==
  ASSUME TypeOK, NEW r \in Draft
  PROVE  /\ Creations(r) \in 0..2 /\ Pub(r) \in JobRow /\ NoWorker \notin PublicationWorker
         /\ \A w \in PublicationWorker : On(w, r) => run[w].attempt \in Nat /\ w \in Worker
<1>1. Creations(r) \in 0..2 /\ Pub(r) \in JobRow
  BY Parts DEF TypeOK, Creations, Pub, Request, Queue
<1>2. ASSUME NEW w \in PublicationWorker, On(w, r) PROVE run[w].attempt \in Nat
  BY <1>2, RunRows DEF On, RunRow, Worker
<1> QED BY <1>1, <1>2, PublicationAssumption DEF Worker

\* Nothing is added to what is due or astray.
LEMMA Calmer ==
  ASSUME NEW r \in Draft, Credit(r), Creations(r)' = Creations(r), Pub(r)'.stalled = Pub(r).stalled,
         Due(r)' => Due(r), Strays(r)' \subseteq Strays(r), Unbegun(r)' => Unbegun(r) \/ Due(r),
         Creations(r) \in 0..2
  PROVE  Credit(r)'
<1> DEFINE n == Creations(r)  m == Due(r)  k == Due(r)'
<1>0. m \in BOOLEAN /\ k \in BOOLEAN
  BY DEF Due
<1>1. ASSUME Due(r) PROVE Creations(r) <= 1
  <2>1. CASE Pub(r).stalled
    <3>1. Budget(Creations(r), Due(r), Strays(r))
      BY <2>1 DEF Credit
    <3>2. Creations(r) # 2
      BY <1>1, <3>1 DEF Budget
    <3> QED BY <3>2
  <2>2. CASE ~Pub(r).stalled
    BY <2>2 DEF Credit
  <2> QED BY <2>1, <2>2
<1>2. Unbegun(r)' => Creations(r)' <= 1
  BY <1>1 DEF Credit
<1>3. ~Pub(r)'.stalled => Creations(r)' <= 1 /\ (Creations(r)' = 1 => ~Due(r)')
  BY DEF Credit
<1>4. ASSUME Pub(r)'.stalled PROVE Budget(Creations(r)', Due(r)', Strays(r)')
  <2>1. Budget(n, m, Strays(r))
    BY <1>4 DEF Credit
  <2>2. Budget(n, k, Strays(r)')
    BY <1>0, <2>1, Less
  <2> QED BY <2>2
<1>5. ~Pub(r)'.stalled \/ Budget(Creations(r)', Due(r)', Strays(r)')
  BY <1>4
<1> QED BY <1>2, <1>3, <1>5 DEF Credit

\* Nothing of the draft changes, but a request that waits may wait in another way.
LEMMA Elsewhere ==
  ASSUME TypeOK, NEW r \in Draft, Tied(r), Credit(r), Creations(r)' = Creations(r), Pub(r)' = Pub(r),
         \A v \in PublicationWorker : On(v, r) \/ On(v, r)' => run'[v] = run[v],
         status'[r] = status[r] \/ (Unbegun(r) /\ status'[r] \in Waiting)
  PROVE  Tied(r)' /\ Credit(r)'
<1>1. \A v \in PublicationWorker : On(v, r)' <=> On(v, r)
  BY DEF On
<1>2. \A v \in PublicationWorker : On(v, r) => (MayCreate(v)' <=> MayCreate(v))
  BY DEF MayCreate
<1>3. (Unbegun(r)' <=> Unbegun(r)) /\ (status[r] = "processing" => status'[r] = "processing")
  BY DEF Unbegun, Waiting
<1>4. Carried(r)' <=> Carried(r)
  BY <1>1 DEF Carried
<1>5. Due(r)' <=> Due(r)
  BY <1>1, <1>2, <1>3, <1>4 DEF Due
<1>6. Strays(r)' \subseteq Strays(r)
  BY <1>1, <1>2 DEF Strays
<1>7. Credit(r)'
  BY <1>3, <1>5, <1>6, Numbers, Calmer
<1>8. Tied(r)'
  <2>1. status'[r] \notin Progress
    BY DEF Tied, Waiting, Progress
  <2> QED BY <1>1, <1>3, <2>1 DEF Tied
<1> QED BY <1>7, <1>8

\* A run goes on without a creation.
LEMMA GoesOn ==
  ASSUME TypeOK, NEW r \in Draft, Tied(r), Credit(r), Creations(r)' = Creations(r), Pub(r)' = Pub(r),
         status'[r] = status[r], NEW w \in PublicationWorker, On(w, r), On(w, r)', OthersStay(w),
         run'[w].attempt = run[w].attempt, MayCreate(w)' => MayCreate(w),
         run'[w].pc \in {"lease", "claim"} <=> run[w].pc \in {"lease", "claim"}
  PROVE  Tied(r)' /\ Credit(r)'
<1>0. \A v \in PublicationWorker : v # w => run'[v] = run[v]
  BY DEF OthersStay, Worker
<1>1. \A v \in PublicationWorker : On(v, r)' <=> On(v, r)
  BY <1>0 DEF On
<1>2. \A v \in PublicationWorker : MayCreate(v)' => MayCreate(v)
  BY <1>0 DEF MayCreate
<1>3. \A v \in PublicationWorker : /\ run'[v].attempt = run[v].attempt
                                   /\ run'[v].pc \in {"lease", "claim"} <=> run[v].pc \in {"lease", "claim"}
  BY <1>0
<1>4. Unbegun(r)' <=> Unbegun(r)
  BY DEF Unbegun
<1>5. Carried(r)' <=> Carried(r)
  BY <1>1, <1>3 DEF Carried
<1>6. Due(r)' => Due(r)
  BY <1>1, <1>2, <1>4, <1>5 DEF Due
<1>7. Strays(r)' \subseteq Strays(r)
  BY <1>1, <1>2 DEF Strays
<1>8. Credit(r)'
  BY <1>4, <1>6, <1>7, Numbers, Calmer
<1>9. Tied(r)'
  BY <1>1, <1>3, <1>4 DEF Tied
<1> QED BY <1>8, <1>9

\* A run creates the draft, or tries to.
LEMMA Creates ==
  ASSUME TypeOK, TypeOK', NEW r \in Draft, Tied(r), Credit(r), Creations(r)' \in {Creations(r), Creations(r) + 1},
         Pub(r)' = Pub(r), status'[r] = status[r], NEW w \in PublicationWorker, On(w, r), On(w, r)', OthersStay(w),
         run[w].pc = "call", run'[w].attempt = run[w].attempt, ~MayCreate(w)', run'[w].pc \notin {"lease", "claim"}
  PROVE  Tied(r)' /\ Credit(r)'
<1>0. \A v \in PublicationWorker : v # w => run'[v] = run[v]
  BY DEF OthersStay, Worker
<1>1. \A v \in PublicationWorker : On(v, r)' <=> On(v, r)
  BY <1>0 DEF On
<1>2. \A v \in PublicationWorker : MayCreate(v)' => v # w /\ MayCreate(v)
  BY <1>0 DEF MayCreate
<1>3. status[r] = "processing" /\ ~Unbegun(r)'
  BY DEF Tied, Unbegun, Waiting
<1>4. Due(r)' => \/ Pub(r).state = "waiting" /\ Pub(r).made = 0
                 \/ \E v \in PublicationWorker : v # w /\ On(v, r) /\ Pub(r).owner = v /\ MayCreate(v)
  BY <1>1, <1>2, <1>3 DEF Due
<1>5. Due(r)' => Due(r)
  BY <1>4 DEF Due
<1>6. Strays(r)' \subseteq Strays(r) \ {w} /\ MayCreate(w)
  BY <1>1, <1>2 DEF Strays, MayCreate
<1>7. Creations(r) \in 0..2 /\ Creations(r)' \in 0..2
  <2>1. sent' \in [Request -> [Part -> 0..2]] /\ r \in Request /\ <<"create", 1>> \in Part
    BY Parts DEF TypeOK, Request
  <2> QED BY <2>1, Numbers DEF Creations
<1>8. Credit(r)'
  <2>1. CASE Pub(r).owner = w
    <3>1. Due(r) /\ ~Due(r)'
      <4>1. Pub(r).state = "active" /\ NoWorker \notin PublicationWorker
        BY <2>1, Numbers DEF Tied
      <4> QED BY <1>4, <1>6, <2>1, <4>1 DEF Due
    <3>2. Strays(r)' \subseteq Strays(r)
      BY <1>6
    <3>3. CASE Pub(r).stalled
      <4>1. Budget(Creations(r), TRUE, Strays(r))
        BY <3>1, <3>3 DEF Credit, Budget
      <4>2. Budget(Creations(r)', FALSE, Strays(r)')
        BY <1>7, <3>2, <4>1, DuePays
      <4>3. Budget(Creations(r)', Due(r)', Strays(r)')
        BY <3>1, <4>2 DEF Budget
      <4> QED BY <1>3, <3>3, <4>3 DEF Credit
    <3>4. CASE ~Pub(r).stalled
      BY <1>3, <1>7, <3>1, <3>4 DEF Credit
    <3> QED BY <3>3, <3>4
  <2>2. CASE Pub(r).owner # w
    <3>1. Pub(r).stalled /\ w \in Strays(r)
      BY <1>6, <2>2 DEF Tied, Strays
    <3>2. Due(r) \in BOOLEAN /\ Due(r)' \in BOOLEAN
      BY DEF Due
    <3>3. Budget(Creations(r), Due(r), Strays(r))
      BY <3>1 DEF Credit
    <3>4. Budget(Creations(r)', Due(r)', Strays(r)')
      BY <1>5, <1>6, <1>7, <3>1, <3>2, <3>3, StrayPays
    <3> QED BY <1>3, <3>1, <3>4 DEF Credit
  <2> QED BY <2>1, <2>2
<1>9. Tied(r)'
  BY <1>0, <1>1, <1>3 DEF Tied, Unbegun
<1> QED BY <1>8, <1>9

\* A run claims the request: its job's creation is now its own, or a stray's.
LEMMA ClaimsIt ==
  ASSUME TypeOK, NEW r \in Draft, Solo, ~Finished(r), Tied(r), Credit(r), Creations(r)' = Creations(r), Pub(r)' = Pub(r),
         NEW w \in PublicationWorker, On(w, r), On(w, r)', OthersStay(w), run[w].pc = "claim",
         run'[w].attempt = run[w].attempt, run'[w].pc = "guard", ~Uncertain(w), status'[r] = "processing"
  PROVE  Tied(r)' /\ Credit(r)'
<1>0. \A v \in PublicationWorker : v # w => run'[v] = run[v]
  BY DEF OthersStay, Worker
<1>1. \A v \in PublicationWorker : On(v, r)' <=> On(v, r)
  BY <1>0 DEF On
<1>2. \A v \in PublicationWorker : v # w => (MayCreate(v)' <=> MayCreate(v))
  BY <1>0 DEF MayCreate
<1>3. ~Unbegun(r)'
  BY DEF Unbegun, Waiting
<1>4. run[w].attempt > 0 => Unbegun(r)
  <2>1. status[r] \in Status /\ r \notin Activation /\ run[w].req = r
    BY RequestKinds DEF TypeOK, On, Request
  <2> QED BY <2>1 DEF Uncertain, SafeRead, Tied, Finished, Unbegun, Status
<1>5. run[w].attempt \in Nat /\ NoWorker \notin PublicationWorker /\ Pub(r).made \in Nat
  BY Numbers DEF JobRow
<1>6. Pub(r).state # "none"
  BY <1>5 DEF Tied
<1>7. run[w].attempt = 0 => MayCreate(w)
  BY DEF MayCreate
<1>8. Tied(r)'
  BY <1>0, <1>1, <1>6 DEF Tied, Progress
<1>9. CASE Pub(r).owner = w \/ run[w].attempt = 0
  <2>1. Due(r)' => Due(r)
    <3>1. CASE Pub(r).owner = w
      <4>1. Due(r)
        BY <1>4, <1>5, <1>7, <3>1 DEF Due, Carried
      <4> QED BY <4>1
    <3>2. CASE Pub(r).owner # w
      BY <1>1, <1>2, <1>3, <3>2 DEF Due
    <3> QED BY <3>1, <3>2
  <2>2. Strays(r)' \subseteq Strays(r)
    BY <1>1, <1>2, <1>7, <1>9 DEF Strays
  <2> QED BY <1>3, <1>8, <2>1, <2>2, Numbers, Calmer
<1>10. CASE Pub(r).owner # w /\ run[w].attempt > 0
  <2>1. Pub(r).stalled /\ Pub(r).made > 0
    BY <1>5, <1>10 DEF Tied
  <2>2. Due(r)
    BY <1>4, <1>10 DEF Due, Carried
  <2>3. \A v \in PublicationWorker : v # w /\ On(v, r) => run[v].pc = "lease"
    BY <1>10 DEF Solo, Past, On
  <2>4. ~Due(r)'
    <3>1. \A v \in PublicationWorker : On(v, r) /\ Pub(r).owner = v /\ v # w => ~MayCreate(v)
      BY <2>1, <2>3 DEF Tied, MayCreate
    <3> QED BY <1>1, <1>2, <1>3, <1>5, <1>10, <2>1, <3>1 DEF Due
  <2>5. Strays(r)' \subseteq Strays(r) \cup {w}
    BY <1>1, <1>2 DEF Strays
  <2>6. Budget(Creations(r), TRUE, Strays(r))
    BY <2>1, <2>2 DEF Credit, Budget
  <2>7. Budget(Creations(r), FALSE, Strays(r)')
    BY <2>5, <2>6, Numbers, DueStrays
  <2>8. Budget(Creations(r)', Due(r)', Strays(r)')
    BY <2>4, <2>7 DEF Budget
  <2> QED BY <1>3, <1>8, <2>1, <2>8 DEF Credit
<1> QED BY <1>5, <1>9, <1>10

\* What the job of a draft is when its run w has ended.
EndedJob(w, r) ==
  \/ Pub(r).owner # w /\ Pub(r)' = Pub(r)
  \/ /\ Pub(r).owner = w /\ Pub(r)'.state \in {"waiting", "done"} /\ Pub(r)'.made = run[w].attempt + 1
     /\ Pub(r)'.stalled = Pub(r).stalled /\ Pub(r)'.owner = NoWorker

\* A run is over; the job is told, if the run still owns it, and the request may wait again.
LEMMA RunEnds ==
  ASSUME TypeOK, NEW r \in Draft, Solo, Tied(r), Credit(r), Creations(r)' = Creations(r),
         NEW w \in PublicationWorker, On(w, r), ~On(w, r)', OthersStay(w),
         EndedJob(w, r) \/ (Pub(r)' = Pub(r) /\ status'[r] = status[r]),
         status'[r] = status[r] \/ (status'[r] = "retry_pending" /\ run[w].pc = "fail" /\ run[w].event = "retry_pending")
  PROVE  Tied(r)' /\ Credit(r)'
<1>0. \A v \in PublicationWorker : v # w => run'[v] = run[v]
  BY DEF OthersStay, Worker
<1>1. \A v \in PublicationWorker : On(v, r)' => v # w /\ On(v, r)
  BY <1>0 DEF On
<1>2. \A v \in PublicationWorker : v # w => (MayCreate(v)' <=> MayCreate(v))
  BY <1>0 DEF MayCreate
<1>3. /\ run[w].attempt \in Nat /\ NoWorker \notin PublicationWorker /\ Pub(r).made \in Nat
      /\ \A v \in PublicationWorker : On(v, r) => run[v].attempt \in Nat
  BY Numbers DEF JobRow
<1>4. status'[r] # status[r] => \A v \in PublicationWorker : v # w /\ On(v, r) => run[v].pc = "lease"
  BY DEF Solo, Past, On
<1>5. "retry_pending" \in Waiting /\ "retry_pending" \notin Progress
  BY DEF Waiting, Progress
<1>6. Strays(r)' \subseteq Strays(r) \ {w}
  BY <1>1, <1>2 DEF Strays, EndedJob, Tied
<1>7. status'[r] # status[r] => MayCreate(w)
  BY DEF MayCreate
<1>8. Tied(r)'
  <2>1. status'[r] \notin Progress
    BY <1>5 DEF Tied
  <2>2. \A v \in PublicationWorker : On(v, r)' => run'[v].pc \in {"lease", "claim"} \/ status'[r] = "processing"
    BY <1>0, <1>1, <1>4 DEF Tied
  <2>3. CASE Pub(r)' = Pub(r)
    BY <1>0, <1>1, <1>3, <1>5, <2>1, <2>2, <2>3 DEF Tied, Unbegun
  <2>4. CASE Pub(r)' # Pub(r)
    <3>1. Pub(r).owner = w /\ Pub(r)'.state \in {"waiting", "done"} /\ Pub(r)'.made = run[w].attempt + 1
          /\ Pub(r)'.stalled = Pub(r).stalled /\ Pub(r)'.owner = NoWorker
      BY <2>4 DEF EndedJob
    <3>2. \A v \in PublicationWorker : On(v, r)' => /\ run'[v].attempt <= Pub(r)'.made /\ Pub(r)'.owner # v
                                                    /\ Pub(r)'.stalled
      BY <1>0, <1>1, <1>3, <3>1 DEF Tied
    <3> QED BY <2>1, <2>2, <3>1, <3>2 DEF Tied
  <2> QED BY <2>3, <2>4
<1>9. CASE Pub(r).owner # w /\ status'[r] # status[r]
  <2>1. Pub(r).stalled /\ w \in Strays(r) /\ Pub(r)' = Pub(r)
    BY <1>7, <1>9 DEF Tied, Strays, EndedJob
  <2>2. Budget(Creations(r), Due(r), Strays(r)) /\ Due(r) \in BOOLEAN /\ Due(r)' \in BOOLEAN
    BY <2>1 DEF Credit, Due
  <2>3. Budget(Creations(r)', Due(r)', Strays(r)') /\ Creations(r)' <= 1
    <3> DEFINE n == Creations(r)  m == Due(r)  k == Due(r)'  O == Strays(r)  S == Strays(r)'
    <3>1. n \in 0..2 /\ m \in BOOLEAN /\ k \in BOOLEAN /\ Budget(n, m, O) /\ w \in O /\ S \subseteq O \ {w}
      BY <1>6, <2>1, <2>2, Numbers
    <3> HIDE DEF n, m, k, O, S
    <3>2. Budget(n, k, S) /\ n <= 1
      BY <3>1, StrayHands
    <3> QED BY <3>2 DEF n, k, S
  <2> QED BY <1>8, <2>1, <2>3 DEF Credit
<1>10. CASE status'[r] = status[r] \/ Pub(r).owner = w
  <2>1. Pub(r)'.stalled = Pub(r).stalled
    BY DEF EndedJob
  <2>2. Pub(r).owner = w /\ status'[r] # status[r] => Due(r)
    BY <1>7 DEF Due
  <2>3. Unbegun(r)' => Unbegun(r) \/ Due(r)
    BY <1>10, <2>2 DEF Unbegun
  <2>4. Due(r)' => Due(r)
    <3>1. CASE Pub(r)' = Pub(r) /\ status'[r] = status[r]
      <4>1. Carried(r)' => Carried(r)
        BY <1>0, <1>1, <3>1 DEF Carried
      <4>2. Unbegun(r)' <=> Unbegun(r)
        BY <3>1 DEF Unbegun
      <4> QED BY <1>1, <1>2, <3>1, <4>1, <4>2 DEF Due
    <3>2. CASE Pub(r).owner = w /\ Pub(r)' # Pub(r)
      <4>1. Pub(r)'.made # 0 /\ Pub(r)'.owner \notin PublicationWorker
        BY <1>3, <3>2 DEF EndedJob
      <4>2. Due(r)' => Unbegun(r)'
        BY <4>1 DEF Due
      <4>3. Unbegun(r) => run[w].pc \in {"lease", "claim"}
        BY DEF Tied, Unbegun, Waiting
      <4>4. Unbegun(r) => Due(r)
        BY <3>2, <4>3 DEF Due, Carried
      <4> QED BY <2>3, <4>2, <4>4
    <3>3. CASE Pub(r).owner = w /\ status'[r] # status[r]
      BY <2>2, <3>3
    <3> QED BY <1>10, <3>1, <3>2, <3>3 DEF EndedJob
  <2> QED BY <1>6, <1>8, <2>1, <2>3, <2>4, Numbers, Calmer
<1> QED BY <1>9, <1>10

\* The job is delivered.
LEMMA Delivered ==
  ASSUME TypeOK, NEW r \in Draft, Tied(r), Credit(r), Creations(r)' = Creations(r), status'[r] = status[r],
         NEW w \in PublicationWorker, ~On(w, r), On(w, r)', OthersStay(w),
         Pub(r).state = "waiting", run'[w].pc = "lease", run'[w].attempt = Pub(r).made,
         Pub(r)'.state = "active", Pub(r)'.made = Pub(r).made, Pub(r)'.stalled = Pub(r).stalled, Pub(r)'.owner = w
  PROVE  Tied(r)' /\ Credit(r)'
<1>0. \A v \in PublicationWorker : v # w => run'[v] = run[v]
  BY DEF OthersStay, Worker
<1>1. \A v \in PublicationWorker : v # w => (On(v, r)' <=> On(v, r))
  BY <1>0 DEF On
<1>2. \A v \in PublicationWorker : v # w => (MayCreate(v)' <=> MayCreate(v))
  BY <1>0 DEF MayCreate
<1>3. NoWorker \notin PublicationWorker /\ Pub(r).made \in Nat /\ Pub(r).owner = NoWorker
  BY Numbers DEF JobRow, Tied
<1>4. Unbegun(r)' <=> Unbegun(r)
  BY DEF Unbegun
<1>5. Due(r)' => Due(r)
  <2>1. Unbegun(r) => Due(r)
    BY DEF Due, Carried
  <2>2. MayCreate(w)' => Pub(r).made = 0
    BY DEF MayCreate
  <2> QED BY <1>4, <2>1, <2>2 DEF Due
<1>6. Strays(r)' \subseteq Strays(r)
  BY <1>1, <1>2, <1>3 DEF Strays
<1>7. Tied(r)'
  <2>1. \A v \in PublicationWorker : On(v, r)' =>
          /\ run'[v].attempt <= Pub(r)'.made
          /\ Pub(r)'.owner = v => run'[v].attempt = Pub(r)'.made
          /\ Pub(r)'.owner # v => Pub(r)'.stalled
          /\ run'[v].pc \in {"lease", "claim"} \/ status'[r] = "processing"
    BY <1>0, <1>1, <1>3 DEF Tied
  <2> QED BY <2>1 DEF Tied
<1> QED BY <1>4, <1>5, <1>6, <1>7, Numbers, Calmer

\* The queue takes the job back from a run, which goes on as a stray or has died.
LEMMA TakenBack ==
  ASSUME TypeOK, NEW r \in Draft, Tied(r), Credit(r), Creations(r)' = Creations(r), status'[r] = status[r], run' = run,
         Pub(r).state = "active", Pub(r)'.state = (IF Pub(r).stalled THEN "done" ELSE "waiting"),
         Pub(r)'.made = Pub(r).made, Pub(r)'.stalled = TRUE, Pub(r)'.owner = NoWorker
  PROVE  Tied(r)' /\ Credit(r)'
<1>1. \A v \in PublicationWorker : (On(v, r)' <=> On(v, r)) /\ (MayCreate(v)' <=> MayCreate(v))
  BY DEF On, MayCreate
<1>2. NoWorker \notin PublicationWorker /\ Pub(r).made \in Nat /\ Creations(r) \in 0..2 /\ Pub(r).stalled \in BOOLEAN
  BY Numbers DEF JobRow
<1>3. Unbegun(r)' <=> Unbegun(r)
  BY DEF Unbegun
<1>4. Tied(r)'
  BY <1>1, <1>2, <1>3 DEF Tied
<1>5. Strays(r)' \subseteq Strays(r) \cup {v \in PublicationWorker : On(v, r) /\ Pub(r).owner = v /\ MayCreate(v)}
  BY <1>1 DEF Strays
<1>6. CASE ~Pub(r).stalled
  <2>1. \A v \in PublicationWorker : On(v, r) => Pub(r).owner = v
    BY <1>6 DEF Tied
  <2>2. Creations(r) <= 1 /\ (Creations(r) = 1 => ~Due(r))
    BY <1>6 DEF Credit
  <2>3. Strays(r)' \subseteq {Pub(r).owner} /\ (~Due(r) => Strays(r)' = {})
    BY <1>5, <2>1 DEF Strays, Due
  <2>4. Budget(Creations(r)', Due(r)', Strays(r)')
    BY <1>2, <2>2, <2>3 DEF Budget
  <2> QED BY <1>4, <2>2, <2>4 DEF Credit
<1>7. CASE Pub(r).stalled
  <2>1. Due(r)' => Unbegun(r) /\ \E v \in PublicationWorker : On(v, r) /\ run[v].pc \in {"lease", "claim"} /\ run[v].attempt > 0
    BY <1>1, <1>2, <1>3, <1>7 DEF Due, Carried
  <2>2. Due(r)' => Due(r)
    BY <2>1 DEF Due, Carried
  <2>3. CASE \E u \in PublicationWorker : On(u, r) /\ Pub(r).owner = u /\ MayCreate(u)
    <3>1. PICK u \in PublicationWorker : On(u, r) /\ Pub(r).owner = u /\ MayCreate(u)
      BY <2>3
    <3>2. Due(r)
      BY <3>1 DEF Due
    <3>3. ~Due(r)'
      <4>1. SUFFICES ASSUME Unbegun(r), NEW v \in PublicationWorker, On(v, r), run[v].attempt > 0 PROVE FALSE
        BY <2>1
      <4>2. run[u].attempt = 0 /\ run[u].attempt = Pub(r).made
        BY <3>1, <4>1 DEF Tied, MayCreate, Unbegun, Waiting
      <4>3. run[v].attempt <= Pub(r).made /\ run[v].attempt \in Nat
        BY <4>1, Numbers DEF Tied
      <4> QED BY <4>1, <4>2, <4>3
    <3>4. Strays(r)' \subseteq Strays(r) \cup {u}
      BY <1>5, <3>1
    <3>5. Budget(Creations(r), TRUE, Strays(r))
      BY <1>7, <3>2 DEF Credit, Budget
    <3>6. Budget(Creations(r), FALSE, Strays(r)')
      BY <1>2, <3>4, <3>5, DueStrays
    <3>7. Budget(Creations(r)', Due(r)', Strays(r)')
      BY <3>3, <3>6 DEF Budget
    <3> QED BY <1>3, <1>4, <3>7 DEF Credit
  <2>4. CASE ~\E u \in PublicationWorker : On(u, r) /\ Pub(r).owner = u /\ MayCreate(u)
    <3>1. Strays(r)' \subseteq Strays(r)
      BY <1>5, <2>4
    <3> QED BY <1>2, <1>3, <1>4, <1>7, <2>2, <3>1, Calmer
  <2> QED BY <2>3, <2>4
<1> QED BY <1>6, <1>7

\* A job is added: nothing has been created.
LEMMA Added ==
  ASSUME TypeOK, NEW r \in Draft, Tied(r), Credit(r), Creations(r)' = Creations(r), status'[r] = status[r], run' = run,
         Pub(r).state = "none", Pub(r)'.state = "waiting", Pub(r)'.made = 0, ~Pub(r)'.stalled, Pub(r)'.owner = NoWorker
  PROVE  Tied(r)' /\ Credit(r)'
<1>1. Unbegun(r) /\ ~Pub(r).stalled /\ \A v \in PublicationWorker : ~On(v, r)
  BY Numbers DEF Tied
<1>2. Due(r)
  BY <1>1 DEF Due, Carried
<1>3. Creations(r) = 0
  BY <1>1, <1>2, Numbers DEF Credit
<1>4. \A v \in PublicationWorker : ~On(v, r)'
  BY <1>1 DEF On
<1> QED BY <1>3, <1>4 DEF Tied, Credit
-----------------------------------------------------------------------------
(***************************************************************************)
(* The steps, one by one.                                                  *)
(***************************************************************************)
LEMMA Publishing ==
  ASSUME TypeOK, NEW w \in PublicationWorker, NEW r \in Draft, On(w, r)
  PROVE  /\ w \in Worker /\ w \notin ReconciliationWorker /\ r \in Request /\ r \notin Activation
         /\ run[w].pc # "idle" /\ run[w].req = r /\ run[w] \in RunRow
         /\ QueueOf(w) = "publication" /\ "publication" \in Queue /\ JobOf(w) = Pub(r) /\ JobOf(w) \in JobRow
<1>1. w \in Worker /\ w \notin ReconciliationWorker /\ r \in Request /\ r \notin Activation
  BY PublicationAssumption DEF Worker, Request
<1> QED BY <1>1, RunRows DEF On, QueueOf, Queue, JobOf, Pub

\* A step of a run on another request.
LEMMA Foreign ==
  ASSUME IInv, NEW r \in Draft, Tied(r), Credit(r),
         NEW w \in Worker, TakeLease(w) \/ Work(w) \/ Break(w), run[w].req # r
  PROVE  Tied(r)' /\ Credit(r)'
<1>1. TypeOK /\ run[w].pc # "idle" /\ run[w].req \in Request /\ r \in Request /\ "publication" \in Queue
  BY NotIdle, RunRows DEF IInv, Request, Queue
<1>2. Pub(r)' = Pub(r)
  <2>1. ASSUME NEW j \in JobRow, JobEnds(w, j) PROVE Pub(r)' = Pub(r)
    BY <1>1, <2>1, JobEndsIs DEF Pub
  <2>2. CASE Schedule(w)
    <3>1. CASE \A q \in Queue, u \in Request : u # run[w].req => job'[q][u] = job[q][u]
      BY <1>1, <3>1 DEF Pub
    <3>2. CASE JobEnds(w, [JobOf(w) EXCEPT !.state = "done"])
      <4>1. [JobOf(w) EXCEPT !.state = "done"] \in JobRow
        BY <1>1, RunRows DEF JobRow
      <4> QED BY <2>1, <3>2, <4>1
    <3> QED BY <2>2, <3>1, <3>2, ScheduleIs
  <2>3. CASE job' = job
    BY <2>3 DEF Pub
  <2> QED BY <2>1, <2>2, <2>3, JobsOf
<1>3. status'[r] = status[r]
  BY <1>1, WorkSpeaks, AppendIs DEF Speaks
<1>4. Creations(r)' = Creations(r)
  <2>1. CASE Mutate(w) \/ LoseReply(w)
    <3>1. <<"create", 1>> \in Part
      BY Parts
    <3>2. CASE sent' = sent
      BY <3>2 DEF Creations
    <3>3. CASE sent' # sent
      <4>1. run[w].pc = "call" /\ run[w].step # "status" /\ Acts(w)
        BY <2>1, <3>3 DEF Mutate, LoseReply
      <4> QED BY <1>1, <3>1, <4>1, ActsOnce DEF Creations
    <3> QED BY <3>2, <3>3
  <2>2. CASE ~(Mutate(w) \/ LoseReply(w))
    <3>1. sent' = sent
      BY <2>2 DEF TakeLease, Work, Break, Claim, ClaimNothing, RefuseClaim, Guard, ReadStatus, RecordMutation,
         RecordStatus, RefuseRecord, Fail, Schedule, Exhaust, ClaimBreaks, GuardBreaks, RateLimited, Rejected,
         MediaRefused, RecordBreaks, FailBreaks, ScheduleUnavailable, ExhaustBreaks, Crash
    <3> QED BY <3>1 DEF Creations
  <2> QED BY <2>1, <2>2
<1>5. \A v \in PublicationWorker : On(v, r) \/ On(v, r)' => run'[v] = run[v]
  <2>1. OthersStay(w) /\ (run'[w].pc = "idle" \/ run'[w].req = run[w].req)
    BY StepOf
  <2> QED BY <2>1 DEF On, OthersStay, Worker
<1> QED BY <1>1, <1>2, <1>3, <1>4, <1>5, Elsewhere

\* The end of a run of the publication queue.
LEMMA Ended ==
  ASSUME TypeOK, NEW r \in Draft, NEW w \in PublicationWorker, On(w, r), Throw(w) \/ JobFails(w)
  PROVE  EndedJob(w, r) /\ OthersStay(w) /\ run'[w].pc = "idle"
<1>1. JobFails(w)
  BY Publishing DEF Throw, LastRead
<1> DEFINE s == IF run[w].attempt + 1 < MaxAttempts(w) THEN "waiting" ELSE "done"
           j == [JobOf(w) EXCEPT !.made = run[w].attempt + 1, !.state = s]
<1>2. run[w].attempt + 1 \in Nat /\ s \in {"waiting", "done"} /\ JobOf(w) \in JobRow
  BY Publishing DEF RunRow
<1>3. j \in JobRow
  BY <1>2, JobEdit
<1>4. j.state = s /\ j.made = run[w].attempt + 1 /\ j.stalled = JobOf(w).stalled
  BY <1>2 DEF JobRow
<1>5. JobEnds(w, j) /\ run' = [run EXCEPT ![w] = Idle]
  BY <1>1 DEF JobFails
<1>6. s \in {"waiting", "done"}
  BY <1>2
<1> HIDE DEF j, s
<1>7. EndedJob(w, r)
  <2>1. /\ JobOf(w).owner # w => job'["publication"][r] = job["publication"][r]
        /\ JobOf(w).owner = w => Becomes("publication", r, j.state, j.made, j.stalled, NoWorker)
    BY <1>3, <1>5, JobEndsIs, Publishing
  <2> QED BY <1>4, <1>6, <2>1, Publishing DEF EndedJob, Becomes, Pub
<1> QED BY <1>5, <1>7, EndsIs, Publishing

\* What a run of the publication queue is at: a draft is created, and nothing else is.
LEMMA AtWork ==
  ASSUME IInv, NEW w \in PublicationWorker, NEW r \in Draft, On(w, r)
  PROVE  /\ run[w].pc \in Stepping => run[w].step = "create" /\ run[w].image = 1
         /\ run[w].pc # "schedule"
<1>1. Sound(run[w], sent) /\ run[w].req = r /\ r \in Draft /\ r \notin Activation
  BY Publishing DEF IInv
<1> QED BY <1>1 DEF Sound, StepsOf

LEMMA OneMore ==
  ASSUME IInv, NEW w \in PublicationWorker, NEW r \in Draft, On(w, r), run[w].pc = "call", Acts(w)
  PROVE  Creations(r)' \in {Creations(r), Creations(r) + 1}
<1>1. PartOf(w) = <<"create", 1>> /\ run[w].req = r /\ r \in Request
  BY AtWork, Publishing DEF IInv, PartOf, Stepping
<1>2. PICK p \in Part : p = <<"create", 1>>
  BY Parts
<1>3. sent \in [Request -> [Part -> 0..2]] /\ p = PartOf(w)
  BY <1>1, <1>2 DEF IInv, TypeOK
<1> DEFINE n == IF sent[r][p] = 2 THEN 2 ELSE sent[r][p] + 1
<1>4. sent' = [sent EXCEPT ![r][p] = n]
  BY <1>1, <1>3 DEF Acts
<1>5. n \in {sent[r][p], sent[r][p] + 1}
  OBVIOUS
<1> HIDE DEF n
<1>6. sent'[r][p] = n
  BY <1>1, <1>3, <1>4
<1> QED BY <1>2, <1>5, <1>6 DEF Creations

\* A step of a run on the request itself.
LEMMA Own ==
  ASSUME IInv, TypeOK', Solo, NEW r \in Draft, ~Finished(r), ~Finished(r)', Tied(r), Credit(r),
         NEW w \in PublicationWorker, TakeLease(w) \/ Work(w) \/ Break(w), run[w].req = r
  PROVE  Tied(r)' /\ Credit(r)'
<1>0. /\ TypeOK /\ w \in Worker /\ w \notin ReconciliationWorker /\ On(w, r) /\ run[w].pc # "idle"
      /\ r \in Request /\ run[w] \in RunRow
  <2>1. w \in Worker
    BY DEF Worker
  <2>2. On(w, r)
    BY <2>1, NotIdle DEF On
  <2> QED BY <2>1, <2>2, Publishing DEF IInv
<1>1. run[w].pc \in Stepping => run[w].step = "create" /\ run[w].image = 1
  BY <1>0, AtWork
<1>2. {"failed", "reconciliation_required", "draft_created"} \subseteq Status \cap Terminal /\ "processing" \in Status \ Terminal
      /\ "retry_pending" \in Status
  BY DEF Status, Terminal, Waiting
<1>3. ASSUME NEW s \in Status, Append(r, s) PROVE status'[r] = s /\ s \notin Terminal
  BY <1>0, <1>3, AppendIs DEF Finished
<1>4. ASSUME UNCHANGED <<status, sent, job>>, OthersStay(w), run'[w].req = r, run'[w].attempt = run[w].attempt,
             run'[w].pc # "idle", MayCreate(w)' => MayCreate(w),
             run'[w].pc \in {"lease", "claim"} <=> run[w].pc \in {"lease", "claim"}
      PROVE  Tied(r)' /\ Credit(r)'
  <2>1. On(w, r)' /\ Creations(r)' = Creations(r) /\ Pub(r)' = Pub(r)
    BY <1>4 DEF On, Creations, Pub
  <2> QED BY <1>0, <1>4, <2>1, GoesOn
<1>5. ASSUME UNCHANGED sent, Throw(w) \/ JobFails(w), status'[r] # status[r] =>
               status'[r] = "retry_pending" /\ run[w].pc = "fail" /\ run[w].event = "retry_pending"
      PROVE  Tied(r)' /\ Credit(r)'
  <2>1. EndedJob(w, r) /\ OthersStay(w) /\ ~On(w, r)' /\ Creations(r)' = Creations(r)
    BY <1>0, <1>5, Ended DEF On, Creations
  <2> QED BY <1>0, <1>5, <2>1, RunEnds
<1>6. CASE TakeLease(w)
  <2>1. GoTo(w, "claim") /\ run[w].pc = "lease" /\ UNCHANGED <<status, sent, job>>
    BY <1>6 DEF TakeLease, GoTo, rows
  <2>2. OthersStay(w) /\ run'[w].pc = "claim" /\ run'[w].req = r /\ run'[w].attempt = run[w].attempt
    BY <1>0, <2>1, GoToIs
  <2>3. MayCreate(w)' => MayCreate(w)
    BY <2>1, <2>2 DEF MayCreate
  <2> QED BY <1>4, <2>1, <2>2, <2>3
<1>7. CASE Claim(w)
  <2>1. run[w].pc = "claim" /\ ~Uncertain(w) /\ Append(r, "processing") /\ UNCHANGED <<sent, job>>
    BY <1>7 DEF Claim
  <2>2. OthersStay(w) /\ run'[w].pc = "guard" /\ run'[w].req = r /\ run'[w].attempt = run[w].attempt
    BY <1>0, <1>7, ClaimIs
  <2>3. On(w, r)' /\ Creations(r)' = Creations(r) /\ Pub(r)' = Pub(r) /\ status'[r] = "processing"
    BY <1>2, <1>3, <2>1, <2>2 DEF On, Creations, Pub
  <2> QED BY <1>0, <2>1, <2>2, <2>3, ClaimsIt
<1>8. CASE ClaimNothing(w) \/ RefuseClaim(w)
  BY <1>0, <1>2, <1>3, <1>8, RefusalIs DEF ClaimNothing, RefuseClaim
<1>9. CASE Guard(w)
  <2>1. run[w].pc = "guard" /\ (GoTo(w, "call") \/ GoFail(w, "reconciliation_required")) /\ UNCHANGED <<status, sent, job>>
    BY <1>9 DEF Guard, rows
  <2>2. OthersStay(w) /\ run'[w].pc \in {"call", "fail"} /\ run'[w].req = r /\ run'[w].attempt = run[w].attempt
    BY <1>0, <2>1, GoToIs, GoFailIs
  <2>3. MayCreate(w)
    BY <2>1 DEF MayCreate
  <2> QED BY <1>4, <2>1, <2>2, <2>3
<1>10. ASSUME run[w].pc = "call", UNCHANGED <<status, job>>, Acts(w) \/ UNCHANGED sent, OthersStay(w), run'[w].req = r,
              run'[w].attempt = run[w].attempt,
              run'[w].pc = "record" \/ (run'[w].pc = "fail" /\ run'[w].event = "reconciliation_required")
       PROVE  Tied(r)' /\ Credit(r)'
  <2>1. Creations(r)' \in {Creations(r), Creations(r) + 1}
    BY <1>0, <1>10, OneMore DEF Creations
  <2>2. On(w, r)' /\ Pub(r)' = Pub(r) /\ ~MayCreate(w)' /\ run'[w].pc \notin {"lease", "claim"}
    BY <1>10 DEF On, Pub, MayCreate
  <2> QED BY <1>0, <1>10, <2>1, <2>2, Creates
<1>11. CASE Mutate(w)
  <2>1. run[w].pc = "call" /\ Acts(w) /\ UNCHANGED <<status, job>> /\ ~MoreImages(w)
    BY <1>1, <1>11 DEF Mutate, rows, MoreImages, Stepping
  <2>2. OthersStay(w) /\ run'[w].pc = "record" /\ run'[w].req = r /\ run'[w].attempt = run[w].attempt
    BY <1>0, <1>11, <2>1, MutateIs
  <2> QED BY <1>10, <2>1, <2>2
<1>12. CASE LoseReply(w)
  <2>1. /\ run[w].pc = "call" /\ GoFail(w, "reconciliation_required") /\ (Acts(w) \/ UNCHANGED sent)
        /\ UNCHANGED <<status, job>>
    BY <1>1, <1>12 DEF LoseReply, rows, Stepping
  <2>2. /\ OthersStay(w) /\ run'[w].pc = "fail" /\ run'[w].event = "reconciliation_required"
        /\ run'[w].req = r /\ run'[w].attempt = run[w].attempt
    BY <1>0, <2>1, GoFailIs
  <2> QED BY <1>10, <2>1, <2>2
<1>13. CASE ReadStatus(w) \/ RecordStatus(w) \/ Schedule(w) \/ ScheduleUnavailable(w)
  BY <1>0, <1>1, <1>13, AtWork DEF ReadStatus, RecordStatus, Schedule, ScheduleUnavailable, Stepping
<1>14. CASE RecordMutation(w)
  BY <1>0, <1>1, <1>2, <1>3, <1>14 DEF RecordMutation, Writes, ResultOf, Stepping
<1>15. CASE Abandons(w)
  <2>1. run[w].pc \in Stepping /\ UNCHANGED <<status, sent, job>>
    BY <1>0, <1>15, AbandonIs, AtWork DEF rows
  <2>2. PICK e \in Failure \cup {"unauthorized"} : GoFail(w, e) /\ (run[w].pc = "record" => e # "retry_pending")
    <3>1. CASE RefuseRecord(w) \/ RecordBreaks(w)
      BY <1>1, <3>1 DEF RefuseRecord, RecordBreaks, WritebackFailure, Failure, Stepping
    <3>2. CASE ~(RefuseRecord(w) \/ RecordBreaks(w))
      <4>1. run[w].pc \in {"guard", "call", "schedule"}
        BY <1>15, <3>2 DEF Abandons, GuardBreaks, RateLimited, Rejected, MediaRefused, ScheduleUnavailable
      <4> QED BY <1>0, <1>15, <4>1, AbandonIs
    <3> QED BY <3>1, <3>2
  <2>3. /\ OthersStay(w) /\ run'[w].pc = "fail" /\ run'[w].event = e
        /\ run'[w].req = r /\ run'[w].attempt = run[w].attempt
    BY <1>0, <2>2, GoFailIs
  <2>4. MayCreate(w)' => MayCreate(w)
    BY <2>1, <2>2, <2>3 DEF MayCreate, Stepping
  <2> QED BY <1>4, <2>1, <2>3, <2>4 DEF Stepping
<1>16. CASE Fail(w)
  <2>1. run[w].pc = "fail" /\ UNCHANGED sent
    BY <1>16 DEF Fail
  <2> DEFINE e == run[w].event
             s == IF e = "unauthorized" THEN "failed" ELSE e
  <2>2. s \in Failure /\ Append(r, s)
    BY <1>0, <1>16, <2>1, FailStatus DEF Fail, AppendUnlessTerminal, Finished
  <2>3. s \in Status /\ s \notin Terminal /\ status'[r] = s
    BY <1>2, <1>3, <2>2 DEF Failure
  <2>4. e = "retry_pending" /\ status'[r] = "retry_pending"
    BY <1>2, <2>2, <2>3 DEF Failure
  <2>5. Throw(w)
    BY <1>16, <2>4 DEF Fail
  <2> QED BY <1>5, <2>1, <2>4, <2>5
<1>17. CASE ClaimBreaks(w) \/ FailBreaks(w) \/ ExhaustBreaks(w)
  <2>1. (Throw(w) \/ JobFails(w)) /\ UNCHANGED <<sent, status>>
    BY <1>17 DEF ClaimBreaks, FailBreaks, ExhaustBreaks, rows
  <2> QED BY <1>5, <2>1
<1>18. CASE Exhaust(w)
  BY <1>0, <1>2, <1>3, <1>18 DEF Exhaust, AppendUnlessTerminal, Finished
<1>19. CASE Crash(w)
  <2>1. run' = [run EXCEPT ![w] = Idle] /\ UNCHANGED <<status, job, sent>>
    BY <1>19 DEF Crash
  <2>2. OthersStay(w) /\ ~On(w, r)' /\ Pub(r)' = Pub(r) /\ Creations(r)' = Creations(r) /\ status'[r] = status[r]
    BY <1>0, <2>1, EndsIs DEF On, Pub, Creations
  <2> QED BY <1>0, <2>2, RunEnds
<1> QED BY <1>6, <1>7, <1>8, <1>9, <1>11, <1>12, <1>13, <1>14, <1>15, <1>16, <1>17, <1>18, <1>19 DEF Work, Break, Abandons

\* A step of the API, of the queue or of the environment.
LEMMA Beside ==
  ASSUME IInv, Core, NoneAppends, "evict" \notin Faults, NEW r \in Draft, ~Finished(r), ~Finished(r)', Tied(r), Credit(r),
         \A c \in Client : client[c].pc = "remove" => Finished(client[c].req),
         (\E c \in Client : Api(c)) \/ (\E q \in Queue, u \in Request : Redeliver(q, u) \/ Stall(q, u) \/ Evict(q, u))
         \/ LoseLease \/ (\E g \in Grounds : ChangeGrounds(g)) \/ UNCHANGED vars
  PROVE  Tied(r)' /\ Credit(r)'
<1>0. TypeOK /\ r \in Request /\ "publication" \in Queue /\ run' = run
  BY RunsStand DEF IInv, Request, Queue
<1>1. ASSUME UNCHANGED sent, Pub(r)' = Pub(r), status'[r] = status[r] \/ (Unbegun(r) /\ status'[r] \in Waiting)
      PROVE  Tied(r)' /\ Credit(r)'
  <2>1. Creations(r)' = Creations(r)
    BY <1>1 DEF Creations
  <2> QED BY <1>0, <1>1, <2>1, Elsewhere
<1>2. ASSUME NEW c \in Client, NEW u \in Request, Submit(c, u) PROVE Tied(r)' /\ Credit(r)'
  <2>1. UNCHANGED <<sent, job>>
    BY <1>2 DEF Submit
  <2>2. UNCHANGED <<status, progress>> \/ \E s \in Waiting : status[u] = "absent" /\ Append(u, s)
    BY <1>2 DEF Submit, Waiting
  <2>3. status'[r] = status[r] \/ (Unbegun(r) /\ status'[r] \in Waiting)
    BY <1>0, <2>2, AppendIs DEF Unbegun, Status
  <2> QED BY <1>1, <2>1, <2>3 DEF Pub
<1>3. ASSUME NEW c \in Client, NEW u \in Request, Cancel(c, u) PROVE Tied(r)' /\ Credit(r)'
  <2>1. Append(u, "cancelled") /\ "cancelled" \in Status \cap Terminal /\ UNCHANGED <<sent, job>>
    BY <1>3 DEF Cancel, Status, Terminal
  <2>2. u # r
    BY <1>0, <2>1, AppendIs DEF Finished
  <2> QED BY <1>0, <1>1, <2>1, <2>2, AppendIs DEF Pub
<1>4. ASSUME NEW c \in Client, Enqueue(c) PROVE Tied(r)' /\ Credit(r)'
  <2>1. PICK u \in Request : u = client[c].req
    BY <1>0, <1>4, ClientRows DEF Enqueue
  <2>2. Add("publication", u) /\ UNCHANGED <<status, sent>> /\ Creations(r)' = Creations(r)
    BY <1>4, <2>1 DEF Enqueue, rows, Creations
  <2>3. CASE u = r /\ Pub(r).state = "none"
    <3>1. Pub(r)' = [NoJob EXCEPT !.state = "waiting"]
      BY <1>0, <2>2, <2>3 DEF Add, Pub, TypeOK
    <3>2. Pub(r)'.state = "waiting" /\ Pub(r)'.made = 0 /\ ~Pub(r)'.stalled /\ Pub(r)'.owner = NoWorker
      BY <3>1 DEF NoJob
    <3> QED BY <1>0, <2>2, <2>3, <3>2, Added
  <2>4. CASE u # r \/ Pub(r).state # "none"
    <3>1. Pub(r)' = Pub(r)
      BY <1>0, <2>2, <2>4 DEF Add, Pub, TypeOK
    <3> QED BY <1>1, <2>2, <3>1
  <2> QED BY <2>3, <2>4
<1>5. ASSUME NEW c \in Client, RemoveJob(c) PROVE Tied(r)' /\ Credit(r)'
  <2>1. PICK u \in Request : u = client[c].req
    BY <1>0, <1>5, ClientRows DEF RemoveJob
  <2>2. u # r
    BY <1>5, <2>1 DEF RemoveJob
  <2>3. UNCHANGED <<status, sent>> /\ Pub(r)' = Pub(r)
    BY <1>0, <1>5, <2>1, <2>2 DEF RemoveJob, rows, Pub, TypeOK
  <2> QED BY <1>1, <2>3
<1>6. ASSUME NEW c \in Client, ReadLatest(c) \/ QueueUnavailable(c) \/ AppendRetryPending(c) \/ Hangup(c)
      PROVE  Tied(r)' /\ Credit(r)'
  BY <1>1, <1>6 DEF ReadLatest, QueueUnavailable, AppendRetryPending, Hangup, NoneAppends, rows, Pub
<1>7. ASSUME NEW q \in Queue, NEW u \in Request, Redeliver(q, u) \/ Stall(q, u) PROVE Tied(r)' /\ Credit(r)'
  <2>1. TakeBack(q, u) /\ job[q][u].state = "active" /\ UNCHANGED <<status, sent>> /\ Creations(r)' = Creations(r)
    BY <1>7 DEF Redeliver, Stall, Abandoned, rows, Creations
  <2>2. CASE q = "publication" /\ u = r
    <3>1. /\ Pub(r).state = "active" /\ Pub(r)'.state = (IF Pub(r).stalled THEN "done" ELSE "waiting")
          /\ Pub(r)'.made = Pub(r).made /\ Pub(r)'.stalled = TRUE /\ Pub(r)'.owner = NoWorker
      BY <1>0, <2>1, <2>2, TakeBackIs DEF Becomes, Pub
    <3> QED BY <1>0, <2>1, <3>1, TakenBack
  <2>3. CASE q # "publication" \/ u # r
    <3>1. Pub(r)' = Pub(r)
      BY <1>0, <2>1, <2>3, TakeBackIs DEF Pub
    <3> QED BY <1>1, <2>1, <3>1
  <2> QED BY <2>2, <2>3
<1>8. \A q \in Queue, u \in Request : ~Evict(q, u)
  BY DEF Evict, Fault
<1>9. CASE LoseLease \/ (\E g \in Grounds : ChangeGrounds(g)) \/ UNCHANGED vars
  BY <1>1, <1>9 DEF LoseLease, ChangeGrounds, vars, rows, Pub
<1> QED BY <1>2, <1>3, <1>4, <1>5, <1>6, <1>7, <1>8, <1>9 DEF Api

\* A delivery.
LEMMA Delivery ==
  ASSUME IInv, Core, NEW r \in Draft, Tied(r), Credit(r), NEW w \in Worker, NEW u \in Request, Deliver(w, u)
  PROVE  Tied(r)' /\ Credit(r)'
<1>1. TypeOK /\ r \in Request /\ r \notin Activation /\ "publication" \in Queue
  BY RequestKinds DEF IInv, Request, Queue
<1>2. /\ OthersStay(w) /\ run'[w].pc = "lease" /\ run'[w].req = u /\ run[w].pc = "idle"
      /\ run'[w].attempt = job[QueueOf(w)][u].made /\ job[QueueOf(w)][u].state = "waiting"
      /\ Becomes(QueueOf(w), u, "active", job[QueueOf(w)][u].made, job[QueueOf(w)][u].stalled, w)
      /\ \A p \in Queue, t \in Request : p # QueueOf(w) \/ t # u => job'[p][t] = job[p][t]
  BY <1>1, DeliverIs
<1>3. UNCHANGED <<status, sent>> /\ Creations(r)' = Creations(r)
  BY DEF Deliver, rows, Creations
<1>4. CASE u = r
  <2>1. w \in PublicationWorker /\ QueueOf(w) = "publication"
    BY <1>1, <1>2, <1>4 DEF Core, Accepted, QueueOf, Worker
  <2>2. ~On(w, r) /\ On(w, r)' /\ run'[w].attempt = Pub(r).made /\ Pub(r).state = "waiting"
    BY <1>2, <1>4, <2>1 DEF On, Pub
  <2>3. Pub(r)'.state = "active" /\ Pub(r)'.made = Pub(r).made /\ Pub(r)'.stalled = Pub(r).stalled /\ Pub(r)'.owner = w
    BY <1>2, <1>4, <2>1 DEF Becomes, Pub
  <2> QED BY <1>1, <1>2, <1>3, <2>1, <2>2, <2>3, Delivered
<1>5. CASE u # r
  <2>1. Pub(r)' = Pub(r)
    BY <1>1, <1>2, <1>5 DEF Pub
  <2>2. \A v \in PublicationWorker : On(v, r) \/ On(v, r)' => run'[v] = run[v]
    BY <1>2, <1>5 DEF On, OthersStay, Worker
  <2> QED BY <1>1, <1>3, <2>1, <2>2, Elsewhere
<1> QED BY <1>4, <1>5

\* The queue remembers that it took a job back until the job is removed.
Recalls(r) ==
  \/ Pub(r)' = Pub(r)
  \/ Pub(r)'.state # "none" /\ (Pub(r)'.stalled \/ ~Pub(r).stalled)
  \/ Pub(r).state = "none" /\ ~Pub(r)'.stalled
  \/ ~Pub(r)'.stalled /\ status' = status
       /\ \E c \in Client : client[c].pc = "remove" /\ client[c].req = r

LEMMA Remembers ==
  ASSUME IInv, "evict" \notin Faults, [Next]_vars, NEW r \in Draft
  PROVE  Recalls(r)
<1>0. TypeOK /\ r \in Request /\ r \notin Activation /\ "publication" \in Queue /\ Pub(r) \in JobRow
  BY RequestKinds, Numbers DEF IInv, Request, Queue
<1>1. CASE Pub(r)' = Pub(r)
  BY <1>1 DEF Recalls
<1>2. ASSUME NEW w \in Worker, TakeLease(w) \/ Work(w) \/ Break(w) PROVE Recalls(r)
  <2>1. run[w].pc # "idle" /\ JobOf(w) \in JobRow /\ run[w].req \in Request /\ run[w] \in RunRow
    BY <1>0, <1>2, NotIdle, RunRows
  <2>2. ASSUME NEW j \in JobRow, JobEnds(w, j), j.state # "none", j.stalled = JobOf(w).stalled PROVE Recalls(r)
    <3>1. CASE QueueOf(w) = "publication" /\ run[w].req = r /\ JobOf(w).owner = w
      <4>1. Becomes("publication", r, j.state, j.made, j.stalled, NoWorker) /\ JobOf(w) = Pub(r)
        BY <1>0, <2>1, <2>2, <3>1, JobEndsIs DEF JobOf, Pub
      <4> QED BY <2>2, <4>1 DEF Becomes, Pub, Recalls
    <3>2. CASE ~(QueueOf(w) = "publication" /\ run[w].req = r /\ JobOf(w).owner = w)
      BY <1>0, <1>1, <2>1, <2>2, <3>2, JobEndsIs DEF Pub
    <3> QED BY <3>1, <3>2
  <2>3. [JobOf(w) EXCEPT !.state = "done"] \in JobRow /\ [JobOf(w) EXCEPT !.state = "done"].state # "none"
        /\ [JobOf(w) EXCEPT !.state = "done"].stalled = JobOf(w).stalled
    BY <2>1 DEF JobRow
  <2>4. ASSUME JobFails(w) PROVE Recalls(r)
    <3> DEFINE s == IF run[w].attempt + 1 < MaxAttempts(w) THEN "waiting" ELSE "done"
               j == [JobOf(w) EXCEPT !.made = run[w].attempt + 1, !.state = s]
    <3>1. run[w].attempt + 1 \in Nat /\ s \in {"waiting", "done"}
      BY <2>1 DEF RunRow
    <3>2. j \in JobRow
      BY <2>1, <3>1, JobEdit
    <3>3. j.state = s /\ j.stalled = JobOf(w).stalled
      BY <2>1 DEF JobRow
    <3>4. JobEnds(w, j)
      BY <2>4 DEF JobFails
    <3> HIDE DEF j, s
    <3> QED BY <2>2, <3>1, <3>2, <3>3, <3>4
  <2>5. ASSUME Return(w) \/ Throw(w) PROVE Recalls(r)
    <3>1. CASE Return(w)
      BY <2>2, <2>3, <3>1 DEF Return
    <3>2. CASE Throw(w)
      BY <1>1, <2>4, <3>2 DEF Throw, Pub
    <3> QED BY <2>5, <3>1, <3>2
  <2>6. CASE Schedule(w)
    <3>1. run[w].req # r
      BY <1>0, <2>6, ScheduleIs
    <3>2. CASE \A q \in Queue, u \in Request : u # run[w].req => job'[q][u] = job[q][u]
      BY <1>0, <1>1, <3>1, <3>2 DEF Pub
    <3>3. CASE JobEnds(w, [JobOf(w) EXCEPT !.state = "done"])
      BY <2>2, <2>3, <3>3
    <3> QED BY <2>6, <3>2, <3>3, ScheduleIs
  <2>7. CASE job' = job
    BY <1>1, <2>7 DEF Pub
  <2>8. CASE RecordStatus(w)
    BY <2>5, <2>7, <2>8, RecordStatusIs
  <2>9. CASE RecordMutation(w)
    BY <2>5, <2>7, <2>9 DEF RecordMutation
  <2>10. CASE ExhaustBreaks(w)
    BY <2>4, <2>10 DEF ExhaustBreaks
  <2>11. CASE Quits(w)
    BY <2>5, <2>11 DEF Quits, ClaimNothing, RefuseClaim, ClaimBreaks, Fail, FailBreaks, Exhaust
  <2>12. CASE TakeLease(w) \/ Claim(w) \/ Guard(w) \/ Mutate(w) \/ ReadStatus(w) \/ Abandons(w) \/ LoseReply(w) \/ Crash(w)
    BY <2>7, <2>12 DEF TakeLease, Claim, Guard, Mutate, ReadStatus, Abandons, GuardBreaks, RateLimited, Rejected,
       MediaRefused, RefuseRecord, RecordBreaks, ScheduleUnavailable, LoseReply, Crash
  <2> QED BY <1>2, <2>6, <2>8, <2>9, <2>10, <2>11, <2>12 DEF Work, Break, Quits, Abandons
<1>3. ASSUME NEW w \in Worker, NEW u \in Request, Deliver(w, u) PROVE Recalls(r)
  <2>1. CASE QueueOf(w) = "publication" /\ u = r
    BY <1>0, <1>3, <2>1, DeliverIs DEF Becomes, Pub, Recalls
  <2>2. CASE QueueOf(w) # "publication" \/ u # r
    BY <1>0, <1>1, <1>3, <2>2, DeliverIs DEF Pub
  <2> QED BY <2>1, <2>2
<1>4. ASSUME NEW q \in Queue, NEW u \in Request, Redeliver(q, u) \/ Stall(q, u) PROVE Recalls(r)
  <2>1. TakeBack(q, u)
    BY <1>4 DEF Redeliver, Stall
  <2>2. CASE q = "publication" /\ u = r
    BY <1>0, <2>1, <2>2, TakeBackIs DEF Becomes, Pub, Recalls
  <2>3. CASE q # "publication" \/ u # r
    <3>1. Pub(r)' = Pub(r)
      BY <1>0, <2>1, <2>3, TakeBackIs DEF Pub
    <3> QED BY <1>1, <3>1
  <2> QED BY <2>2, <2>3
<1>5. \A q \in Queue, u \in Request : ~Evict(q, u)
  BY DEF Evict, Fault
<1>6. ASSUME NEW c \in Client, Enqueue(c) PROVE Recalls(r)
  <2>1. PICK u \in Request : u = client[c].req
    BY <1>0, <1>6, ClientRows DEF Enqueue
  <2>2. Add("publication", u)
    BY <1>6, <2>1 DEF Enqueue
  <2>3. CASE u = r /\ Pub(r).state = "none"
    <3>1. Pub(r)' = [NoJob EXCEPT !.state = "waiting"]
      BY <1>0, <2>2, <2>3 DEF Add, Pub, TypeOK
    <3>2. ~Pub(r)'.stalled
      BY <3>1 DEF NoJob
    <3> QED BY <2>3, <3>2 DEF Recalls
  <2>4. CASE u # r \/ Pub(r).state # "none"
    BY <1>0, <1>1, <2>2, <2>4 DEF Add, Pub, TypeOK
  <2> QED BY <2>3, <2>4
<1>7. ASSUME NEW c \in Client, RemoveJob(c) PROVE Recalls(r)
  <2>1. PICK u \in Request : u = client[c].req
    BY <1>0, <1>7, ClientRows DEF RemoveJob
  <2>2. CASE u = r /\ job' # job
    <3>1. Pub(r)' = NoJob /\ client[c].pc = "remove" /\ status' = status
      BY <1>0, <1>7, <2>1, <2>2 DEF RemoveJob, Pub, TypeOK, rows
    <3>2. ~NoJob.stalled
      BY DEF NoJob
    <3> QED BY <2>1, <2>2, <3>1, <3>2 DEF Recalls
  <2>3. CASE u # r \/ job' = job
    BY <1>0, <1>1, <1>7, <2>1, <2>3 DEF RemoveJob, Pub, TypeOK
  <2> QED BY <2>2, <2>3
<1>8. CASE UNCHANGED job
  BY <1>1, <1>8 DEF Pub
<1>9. ASSUME NEW c \in Client, Api(c) PROVE Recalls(r)
  BY <1>6, <1>7, <1>8, <1>9 DEF Api, Submit, Cancel, ReadLatest, QueueUnavailable, AppendRetryPending, Hangup
<1>10. CASE LoseLease \/ (\E g \in Grounds : ChangeGrounds(g)) \/ UNCHANGED vars
  BY <1>8, <1>10 DEF LoseLease, ChangeGrounds, vars
<1> QED BY <1>2, <1>3, <1>4, <1>5, <1>9, <1>10 DEF Next

\* A client that removes a job has cancelled the request, and nobody else begins to.
LEMMA Removing ==
  ASSUME IInv, [Next]_vars, NEW d \in Client, client'[d].pc = "remove"
  PROVE  client'[d] = client[d] \/ \E r \in Request : Cancel(d, r) /\ client'[d].req = r
<1>1. client \in [Client -> {Idle} \cup ClientRow] /\ Idle.pc = "idle" /\ \A pc, r : Call(pc, r).pc = pc /\ Call(pc, r).req = r
  BY DEF IInv, TypeOK, ClientRow, Idle, Call
<1>2. CASE client' = client
  BY <1>2
<1>3. ASSUME NEW c \in Client, Api(c) PROVE client'[d] = client[d] \/ \E r \in Request : Cancel(d, r) /\ client'[d].req = r
  <2>1. ASSUME NEW x, x.pc # "remove", client' = [client EXCEPT ![c] = x] PROVE client'[d] = client[d]
    BY <1>1, <2>1
  <2>2. ASSUME NEW r \in Request, Cancel(c, r)
        PROVE client'[d] = client[d] \/ (c = d /\ Cancel(d, r) /\ client'[d].req = r)
    BY <1>1, <2>2, ZenonT(40) DEF Cancel
  <2>3. ASSUME NEW r \in Request, Submit(c, r) PROVE client'[d] = client[d]
    <3>1. Call("latest", r).pc # "remove" /\ client' = [client EXCEPT ![c] = Call("latest", r)]
      BY <1>1, <2>3 DEF Submit
    <3> QED BY <2>1, <3>1
  <2>4. CASE ReadLatest(c)
    <3> DEFINE x == IF status[client[c].req] \in Terminal THEN Idle ELSE Call("enqueue", client[c].req)
    <3>1. x.pc # "remove" /\ client' = [client EXCEPT ![c] = x]
      BY <1>1, <2>4 DEF ReadLatest
    <3> HIDE DEF x
    <3> QED BY <2>1, <3>1
  <2>5. CASE QueueUnavailable(c)
    <3>1. Call("append", client[c].req).pc # "remove" /\ client' = [client EXCEPT ![c] = Call("append", client[c].req)]
      BY <1>1, <2>5 DEF QueueUnavailable
    <3> QED BY <2>1, <3>1
  <2>6. CASE Enqueue(c) \/ AppendRetryPending(c) \/ RemoveJob(c) \/ Hangup(c)
    <3>1. Idle.pc # "remove" /\ client' = [client EXCEPT ![c] = Idle]
      BY <1>1, <2>6 DEF Enqueue, AppendRetryPending, RemoveJob, Hangup
    <3> QED BY <2>1, <3>1
  <2> QED BY <1>3, <2>2, <2>3, <2>4, <2>5, <2>6 DEF Api
<1>4. client' = client \/ \E c \in Client : Api(c)
  <2>1. ASSUME NEW w \in Worker, TakeLease(w) \/ Work(w) \/ Break(w) PROVE client' = client
    BY <2>1 DEF TakeLease, Work, Break, Claim, ClaimNothing, RefuseClaim, Guard, Mutate, ReadStatus, RecordMutation,
       RecordStatus, RefuseRecord, Fail, Schedule, Exhaust, ClaimBreaks, GuardBreaks, LoseReply, RateLimited,
       Rejected, MediaRefused, RecordBreaks, FailBreaks, ScheduleUnavailable, ExhaustBreaks, Crash
  <2> QED BY <2>1 DEF Next, vars, Deliver, Redeliver, Stall, Evict, LoseLease, ChangeGrounds
<1> QED BY <1>2, <1>3, <1>4

LEMMA DraftStep ==
  ASSUME IInv, NoneAppends, Solo, Core, "evict" \notin Faults, Credits, [Next]_vars,
         NEW r \in Draft, ~Finished(r)'
  PROVE  Tied(r)' /\ Credit(r)'
<1>1. ~Finished(r) /\ r \in Request /\ r \notin Activation
  BY EndsAreFinal, RequestKinds DEF Finished, Request
<1>2. Tied(r) /\ Credit(r) /\ TypeOK'
  BY <1>1, Inductive DEF Credits, IInv
<1>3. ASSUME NEW w \in Worker, TakeLease(w) \/ Work(w) \/ Break(w) PROVE Tied(r)' /\ Credit(r)'
  <2>1. CASE run[w].req # r
    BY <1>2, <1>3, <2>1, Foreign
  <2>2. CASE run[w].req = r
    <3>1. w \in PublicationWorker
      BY <1>1, <1>3, <2>2, NotIdle DEF Core, Placed, Accepted, Worker
    <3> QED BY <1>1, <1>2, <1>3, <2>2, <3>1, Own
  <2> QED BY <2>1, <2>2
<1>4. ASSUME NEW w \in Worker, NEW u \in Request, Deliver(w, u) PROVE Tied(r)' /\ Credit(r)'
  BY <1>2, <1>4, Delivery
<1>5. \A c \in Client : client[c].pc = "remove" => Finished(client[c].req)
  BY DEF Credits
<1> QED BY <1>1, <1>2, <1>3, <1>4, <1>5, Beside DEF Next

\* A request that ends is not created in that step, and one that has ended is left alone.
LEMMA EndsUncreated ==
  ASSUME IInv, NoneAppends, Core, [Next]_vars, NEW r \in Draft, Finished(r)'
  PROVE  Creations(r)' = Creations(r)
<1>1. r \in Request
  BY DEF Request
<1>2. CASE Finished(r)
  BY <1>1, <1>2, EndsAreQuiet DEF Finished, Creations
<1>3. CASE ~Finished(r)
  <2>1. status' # status
    BY <1>3 DEF Finished
  <2>2. sent' = sent
    BY <2>1, ZenonT(40) DEF Next, vars, rows, Api, Submit, Cancel, ReadLatest, Enqueue, QueueUnavailable, AppendRetryPending, RemoveJob,
       Hangup, TakeLease, Work, Break, Claim, ClaimNothing, RefuseClaim, Guard, Mutate, ReadStatus, RecordMutation,
       RecordStatus, RefuseRecord, Fail, Schedule, Exhaust, ClaimBreaks, GuardBreaks, LoseReply, RateLimited,
       Rejected, MediaRefused, RecordBreaks, FailBreaks, ScheduleUnavailable, ExhaustBreaks, Crash,
       Deliver, Redeliver, Stall, Evict, LoseLease, ChangeGrounds
  <2> QED BY <2>2 DEF Creations
<1> QED BY <1>2, <1>3

LEMMA CreditsStep ==
  ASSUME IInv, NoneAppends, Solo, Core, "evict" \notin Faults, Credits, [Next]_vars
  PROVE  Credits'
<1>0. TypeOK' /\ TypeOK
  BY Inductive DEF IInv
<1>1. ASSUME NEW r \in Draft, ~Finished(r)' PROVE Tied(r)' /\ Credit(r)'
  BY <1>1, DraftStep
<1>2. ASSUME NEW r \in Draft PROVE Pub(r)'.state = "none" => ~Pub(r)'.stalled
  BY <1>2, Remembers DEF Recalls, Credits
<1>3. ASSUME NEW r \in Draft, Creations(r)' > 1 PROVE Pub(r)'.stalled
  <2>1. CASE ~Finished(r)'
    <3>1. Creations(r)' \in 0..2
      BY <1>0, Parts DEF TypeOK, Request, Creations
    <3>2. ~Pub(r)'.stalled => Creations(r)' <= 1
      BY <1>1, <2>1 DEF Credit
    <3> QED BY <1>3, <3>1, <3>2
  <2>2. CASE Finished(r)'
    <3>1. Creations(r) > 1 /\ Pub(r).stalled
      <4>1. Creations(r) > 1
        BY <1>3, <2>2, EndsUncreated
      <4> QED BY <4>1 DEF Credits, RepeatNeedsRedelivery, Redelivered, Creations, Pub
    <3>2. Pub(r).state # "none"
      BY <3>1 DEF Credits
    <3>3. \A c \in Client : client[c].pc = "remove" => client[c].req # r
      <4>1. Creations(r) \in 0..2
        BY <1>0, Numbers
      <4> QED BY <3>1, <4>1 DEF Credits
    <3> QED BY <3>1, <3>2, <3>3, Remembers DEF Recalls
  <2> QED BY <2>1, <2>2
<1>4. RepeatNeedsRedelivery'
  BY <1>3 DEF RepeatNeedsRedelivery, Redelivered, Creations, Pub
<1>5. ASSUME NEW c \in Client, NEW u \in Request, client'[c].pc = "remove", client'[c].req = u
      PROVE  Finished(u)' /\ (u \in Draft => Creations(u)' <= 1)
  <2>1. CASE client'[c] = client[c]
    <3>1. Finished(u) /\ (u \in Draft => Creations(u) <= 1)
      BY <1>5, <2>1 DEF Credits
    <3>2. Finished(u)'
      BY <3>1, EndsAreFinal DEF Finished
    <3>3. u \in Draft => Creations(u)' = Creations(u)
      BY <3>2, EndsUncreated
    <3> QED BY <3>1, <3>2, <3>3
  <2>2. CASE Cancel(c, u)
    <3>1. status[u] \in Waiting /\ Append(u, "cancelled") /\ "cancelled" \in Status \cap Terminal /\ sent' = sent
      BY <2>2 DEF Cancel, Cancellable, Status, Terminal
    <3>2. Finished(u)'
      BY <1>0, <3>1, AppendIs DEF Finished
    <3>3. u \in Draft => Credit(u) /\ Unbegun(u)
      BY <3>1 DEF Credits, Finished, Waiting, Terminal, Unbegun
    <3>4. u \in Draft => Creations(u)' = Creations(u) /\ Creations(u) <= 1
      BY <3>1, <3>3 DEF Credit, Creations
    <3> QED BY <3>2, <3>4
  <2> QED BY <1>5, <2>1, <2>2, Removing
<1>6. ASSUME NEW c \in Client, client'[c].pc = "remove" PROVE \E u \in Request : u = client'[c].req
  BY <1>0, <1>6 DEF TypeOK, Idle
<1>7. \A c \in Client : client'[c].pc = "remove" =>
        \E u \in Request : u = client'[c].req /\ Finished(u)' /\ (u \in Draft => Creations(u)' <= 1)
  BY <1>5, <1>6
<1>8. \A c \in Client : client'[c].pc = "remove" =>
        status'[client'[c].req] \in Terminal
        /\ (client'[c].req \in Draft => sent'[client'[c].req][<<"create", 1>>] <= 1)
  BY <1>7 DEF Finished, Creations
<1>9. \A r \in Draft : ~Finished(r)' => Tied(r)' /\ Credit(r)'
  BY <1>1
<1> QED BY <1>2, <1>4, <1>8, <1>9 DEF Credits, Finished, Creations

LEMMA CreditsStart == ASSUME Init PROVE Credits
<1>1. ASSUME NEW r \in Draft PROVE
        /\ status[r] = "absent" /\ Pub(r) = NoJob /\ Creations(r) = 0 /\ Creations(r) <= 1 /\ ~(Creations(r) > 1)
        /\ \A w \in PublicationWorker : ~On(w, r)
  BY Parts DEF Init, Request, Worker, Queue, Pub, Creations, On, Idle
<1>2. ~NoJob.stalled /\ NoJob.state = "none" /\ NoJob.owner = NoWorker
  BY DEF NoJob
<1>3. ASSUME NEW r \in Draft PROVE Tied(r) /\ Credit(r)
  BY <1>1, <1>2 DEF Tied, Credit, Unbegun, Progress
<1>4. RepeatNeedsRedelivery
  BY <1>1 DEF RepeatNeedsRedelivery, Creations
<1>5. \A c \in Client : client[c].pc # "remove"
  BY DEF Init, Idle
<1> QED BY <1>1, <1>2, <1>3, <1>4, <1>5 DEF Credits

\* A draft is created a second time only where the queue redelivered its job: no retry,
\* crash, lost reply or broken transaction repeats the creation, and neither does a run
\* that outlives its job together with the one that follows it.  (Where the queue forgets
\* old ids it forgets with them that it redelivered.)
THEOREM PublicationRepeatsAreRedelivered ==
  /\ "queue" \notin Faults /\ "evict" \notin Faults
  /\ "lease" \notin Faults \/ "stall" \notin Faults
  /\ Spec
  => []RepeatNeedsRedelivery
<1> DEFINE Remembered == "evict" \notin Faults
<1>1. Init => Credits
  BY CreditsStart
<1>2. Remembered /\ IInv /\ NoneAppends /\ Solo /\ Core /\ Credits /\ [Next]_vars => Credits'
  BY CreditsStep
<1>3. Credits => RepeatNeedsRedelivery
  BY DEF Credits
<1>4. Remembered => Remembered'
  OBVIOUS
<1> HIDE DEF Remembered
<1>5. Orderly /\ Remembered /\ Spec => []RepeatNeedsRedelivery
  BY <1>1, <1>2, <1>3, <1>4, OneAtATime, PTL DEF Spec
<1> QED BY <1>5 DEF Orderly, Calm, Remembered
=============================================================================
