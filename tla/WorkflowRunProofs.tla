--------------------------- MODULE WorkflowRunProofs ---------------------------
(***************************************************************************)
(* What holds of workflow runs for any graph and any number of runs,       *)
(* members, workers, attempts and faults: what has ended stays             *)
(* (EndedAttemptsStay), every change is numbered (ChangesAreNumbered), a   *)
(* node is completed by its verified result (CompletedIsVerified) and a    *)
(* result counts once (ResultUsedOnce), a member's retry buys nothing      *)
(* twice (RetryBuysNothingTwice); and, where the graph's array follows its *)
(* flow, one node is open at a time (OneOpenNode) and only its latest      *)
(* attempt is live (OneLiveAttempt).                                       *)
(***************************************************************************)
EXTENDS WorkflowRun, TLAPS

Over == {"failed", "completed", "cancelled"}
Untouched == {"not_started", "skipped", "cancelled"}
Inner(n) == Kind[n] \notin {"start", "end"}
Spent(o) == stage[o] \in {"absent", "waiting", "adopted", "stopped"}
Verified(x) == IF x.node \in Delegates THEN stage[x.op] = "adopted" ELSE x.op \in receipts
Used(a) == attempt[a].status # "absent"
Sibling(a, b) == attempt[a].run = attempt[b].run /\ attempt[a].node = attempt[b].node

\* What an attempt's row says of its node, its operation and its result.
AttemptInv(a) ==
  LET x == attempt[a] IN
  /\ x.status = "absent" => x.op = NoAttempt
  /\ x.status # "absent" =>
       /\ Kind[x.node] = "internal_action"
       /\ x.number >= 1 /\ x.number <= node[x.run][x.node].attempts
       /\ x.status \in Live \cup {"completed"} => x.op # NoAttempt
       /\ x.op # NoAttempt => Used(x.op) /\ attempt[x.op].op = x.op /\ attempt[x.op].node = x.node
       /\ x.delegated => x.node \in Delegates
       /\ x.status = "completed" => Verified(x)

\* Two attempts of a node have different numbers, and an operation passes from a failed
\* attempt to a later one of the same node.
PairInv(a, b) ==
  a # b /\ Used(a) /\ Used(b) =>
    /\ Sibling(a, b) => attempt[a].number # attempt[b].number
    /\ attempt[a].op = attempt[b].op /\ attempt[a].op # NoAttempt =>
         /\ Sibling(a, b)
         /\ attempt[a].number < attempt[b].number => attempt[a].status = "failed"

\* An operation that has been given up is not taken up again ...
ChainInv(a, b, c) ==
  /\ Used(a) /\ Used(b) /\ Used(c) /\ Sibling(a, b) /\ Sibling(b, c)
  /\ attempt[a].number < attempt[b].number /\ attempt[b].number < attempt[c].number
  /\ attempt[a].op = attempt[c].op /\ attempt[a].op # NoAttempt
  => attempt[b].op = attempt[a].op
\* ... and was given up by a member's retry only where nothing of it could be out.
RetryInv(a, b) ==
  Follows(b, a) /\ attempt[b].number = attempt[a].number + 1 /\ attempt[b].by = attempt[a].by
    => attempt[b].op = attempt[a].op \/ Spent(attempt[a].op)

\* Only the operation of a POD node has an artwork task.
StageInv(o) == stage[o] # "absent" => Used(o) /\ attempt[o].node \in Delegates

\* What a worker may rely on between its transactions.
SlotInv(w) ==
  LET a == slot[w].at IN
  slot[w].pc # "idle" =>
    /\ a \in Attempt /\ Used(a) /\ attempt[a].op # NoAttempt
    /\ slot[w].pc = "finish" => Verified(attempt[a])
    /\ slot[w].pc \in {"look", "wait"} => attempt[a].node \in Delegates

\* A completed internal node has its completed latest attempt.
Proved(r, n, N, A) ==
  \E a \in Attempt :
    /\ A[a].status = "completed" /\ A[a].run = r /\ A[a].node = n
    /\ A[a].number = N[n].attempts
NodeInv(r, n) ==
  node[r][n].status = "completed" /\ Kind[n] = "internal_action" => Proved(r, n, node[r], attempt)

RunInv(r) == run[r].status = "not_started" => run[r] = NoRun /\ node[r] = NoRows

\* Behind an open node nothing is begun.
Ahead(N) ==
  \A n, x \in Node :
    Kind[n] # "end" /\ N[n].status \in Open /\ x > n /\ Inner(x) => N[x].status \in Untouched
\* A current node that is put back waits alone.
Waits(R, N) ==
  R.current \in Node /\ N[R.current].status = "not_started" =>
    /\ \A n \in Node : Kind[n] # "end" => N[n].status \notin Open
    /\ \A x \in Node : x > R.current /\ Inner(x) => N[x].status \in Untouched
\* A live attempt is the latest of the current node, which is open.
OnIt(r, R, N, A) ==
  \A a \in OfRun(A, r) : A[a].status \in Live =>
    /\ R.current = A[a].node /\ A[a].number = N[A[a].node].attempts
    /\ N[A[a].node].status \in {"in_progress", "blocked"}
Focus(r, R, N, A) == Ahead(N) /\ Waits(R, N) /\ OnIt(r, R, N, A)

IInv ==
  /\ TypeOK
  /\ \A a \in Attempt : AttemptInv(a) /\ StageInv(a)
  /\ \A a, b \in Attempt : PairInv(a, b) /\ RetryInv(a, b)
  /\ \A a, b, c \in Attempt : ChainInv(a, b, c)
  /\ \A w \in Worker : SlotInv(w)
  /\ \A r \in Run : RunInv(r) /\ \A n \in Node : NodeInv(r, n)
  /\ InFlowOrder => \A r \in Run : Focus(r, run[r], node[r], attempt)

\* The steps of the two action properties.
Stays ==
  \A a \in Attempt :
    attempt[a].status \in Over =>
      attempt'[a].status = attempt[a].status /\ attempt'[a].op = attempt[a].op
Numbers == \A r \in Run : Shape(r)' # Shape(r) => run'[r].revision > run[r].revision
-----------------------------------------------------------------------------
(***************************************************************************)
(* The graph: where its array follows its flow, the nodes a step puts      *)
(* forward or back leave one node open.                                    *)
(***************************************************************************)
LEMMA Graph ==
  /\ Node \subseteq Nat /\ 1 \in Node /\ NoNode \notin Node
  /\ Attempt \subseteq Nat /\ NoAttempt \notin Attempt
  /\ \A n \in Node : Succ[n] \subseteq Node /\ Kind[n] \in NodeKind
  /\ \A n \in Node : Kind[n] = "start" => n = 1
  /\ \A n \in Node : \A x \in Node : x >= 1
BY WorkflowAssumption DEF Node, NoNode, Attempt, NoAttempt

NodeStatus ==
  {"not_started", "in_progress", "blocked", "failed", "completed", "skipped", "cancelled"}

RunStatus == {"not_started", "active", "blocked", "failed", "completed", "cancelled"}

LEMMA MovedRow ==
  ASSUME NEW R \in RunRow, NEW s \in RunStatus, NEW c \in Node \cup {NoNode}
  PROVE  LET M == Moved(R, s, c) IN
         M \in RunRow /\ M.status = s /\ M.current = c /\ M.revision = R.revision + 1 /\ M.revision > R.revision
<1> DEFINE M == Moved(R, s, c)
<1>1. R.revision \in Nat
  BY DEF RunRow
<1>2. M.status = s /\ M.current = c /\ M.revision = R.revision + 1
  BY DEF Moved, RunRow
<1>3. M \in RunRow
  <2> DEFINE X == [R EXCEPT !.status = s]
             Y == [X EXCEPT !.current = c]
             Z == [Y EXCEPT !.revision = R.revision + 1]
  <2>1. X \in RunRow
    BY DEF RunRow, RunStatus
  <2>2. Y \in RunRow
    BY <2>1 DEF RunRow
  <2>3. R.revision + 1 \in Nat
    BY <1>1
  <2>4. Z \in RunRow
    BY <2>2, <2>3 DEF RunRow
  <2>5. M = Z
    BY DEF Moved, RunRow
  <2> QED BY <2>4, <2>5
<1> QED BY <1>1, <1>2, <1>3

LEMMA SetRow ==
  ASSUME NEW x \in NodeRow, NEW s \in NodeStatus
  PROVE  LET y == [x EXCEPT !.status = s] IN y \in NodeRow /\ y.status = s /\ y.attempts = x.attempts
BY DEF NodeRow, NodeStatus

\* What the three helpers make of a node's row.
LEMMA SetAt ==
  ASSUME NEW N \in [Node -> NodeRow], NEW n \in Node, NEW s \in NodeStatus
  PROVE  LET M == SetNode(N, n, s) IN
         /\ M \in [Node -> NodeRow]
         /\ \A x \in Node : M[x].attempts = N[x].attempts
         /\ \A x \in Node : M[x].status = IF x = n THEN s ELSE N[x].status
<1> DEFINE M == SetNode(N, n, s)
<1>1. ASSUME NEW x \in Node
      PROVE  /\ M[x] \in NodeRow /\ M[x].attempts = N[x].attempts
             /\ M[x].status = IF x = n THEN s ELSE N[x].status
  <2>1. M[x] = IF x = n THEN [N[x] EXCEPT !.status = s] ELSE N[x]
    BY DEF SetNode
  <2> HIDE DEF M
  <2> QED BY <2>1, SetRow, N[x] \in NodeRow
<1> QED BY <1>1 DEF SetNode

LEMMA CompletedAt ==
  ASSUME NEW N \in [Node -> NodeRow], NEW n \in Node, NEW next \in Node
  PROVE  LET M == CompletedNodes(N, n, next) IN
         /\ M \in [Node -> NodeRow]
         /\ \A x \in Node : M[x].attempts = N[x].attempts
         /\ \A x \in Node : M[x].status =
              IF x = next THEN (IF Kind[next] = "end" THEN "completed" ELSE "in_progress")
              ELSE IF x = n THEN "completed"
              ELSE IF x \in Succ[n] THEN "skipped" ELSE N[x].status
<1> DEFINE M == CompletedNodes(N, n, next)
           s(x) == IF x = next THEN (IF Kind[next] = "end" THEN "completed" ELSE "in_progress")
                   ELSE IF x = n THEN "completed"
                   ELSE IF x \in Succ[n] THEN "skipped" ELSE N[x].status
<1>1. ASSUME NEW x \in Node
      PROVE  M[x] \in NodeRow /\ M[x].attempts = N[x].attempts /\ M[x].status = s(x)
  <2>1. M[x] = [N[x] EXCEPT !.status = s(x)]
    BY DEF CompletedNodes
  <2>2. s(x) \in NodeStatus /\ N[x] \in NodeRow
    BY DEF NodeRow, NodeStatus
  <2> HIDE DEF M, s
  <2> QED BY <2>1, <2>2, SetRow
<1> QED BY <1>1 DEF CompletedNodes

LEMMA ReopenedAt ==
  ASSUME NEW N \in [Node -> NodeRow], NEW target \in Node
  PROVE  LET M == ReopenedNodes(N, target) IN
         /\ M \in [Node -> NodeRow]
         /\ \A x \in Node : M[x].attempts = N[x].attempts
         /\ \A x \in Node : M[x].status =
              IF x = target THEN "in_progress"
              ELSE IF x > target /\ Inner(x) THEN "not_started" ELSE N[x].status
<1> DEFINE M == ReopenedNodes(N, target)
           s(x) == IF x = target THEN "in_progress"
                   ELSE IF x > target /\ Inner(x) THEN "not_started" ELSE N[x].status
<1>1. ASSUME NEW x \in Node
      PROVE  M[x] \in NodeRow /\ M[x].attempts = N[x].attempts /\ M[x].status = s(x)
  <2>1. M[x] = [N[x] EXCEPT !.status = s(x)]
    BY DEF ReopenedNodes, Inner
  <2>2. s(x) \in NodeStatus /\ N[x] \in NodeRow
    BY DEF NodeRow, NodeStatus
  <2> HIDE DEF M, s
  <2> QED BY <2>1, <2>2, SetRow
<1> QED BY <1>1 DEF ReopenedNodes

LEMMA OneOpen ==
  ASSUME NEW N \in [Node -> NodeRow], Ahead(N),
         NEW m \in Node, NEW n \in Node, Kind[m] # "end", Kind[n] # "end",
         N[m].status \in Open, N[n].status \in Open
  PROVE  m = n
<1>1. ASSUME NEW i \in Node, NEW j \in Node, Kind[i] # "end", Kind[j] # "end",
             N[i].status \in Open, N[j].status \in Open, i < j
      PROVE  FALSE
  <2>1. Inner(j)
    BY <1>1, Graph DEF Inner
  <2> QED BY <1>1, <2>1, Graph DEF Ahead, Open, Untouched
<1> QED BY <1>1, Graph

LEMMA CompletedAhead ==
  ASSUME InFlowOrder, NEW N \in [Node -> NodeRow], Ahead(N),
         NEW n \in Node, NEW next \in Succ[n], N[n].status = "in_progress"
  PROVE  Ahead(CompletedNodes(N, n, next))
<1> DEFINE M == CompletedNodes(N, n, next)
<1>1. next \in Node /\ next > n /\ n \in Nat /\ next \in Nat /\ Kind[n] # "end"
  BY Graph, WorkflowAssumption DEF InFlowOrder
<1>2. \A x \in Node : M[x].status =
        IF x = next THEN (IF Kind[next] = "end" THEN "completed" ELSE "in_progress")
        ELSE IF x = n THEN "completed"
        ELSE IF x \in Succ[n] THEN "skipped" ELSE N[x].status
  BY <1>1, CompletedAt
<1> HIDE DEF M
<1>3. SUFFICES ASSUME NEW m \in Node, NEW x \in Node,
                      Kind[m] # "end", M[m].status \in Open, x > m, Inner(x)
               PROVE  M[x].status \in Untouched
  BY DEF Ahead, M
<1>4. m = next
  <2>1. SUFFICES ASSUME m # next PROVE FALSE
    OBVIOUS
  <2>2. m # n /\ N[m].status \in Open
    BY <1>2, <1>3, <2>1 DEF Open
  <2> QED BY <2>2, OneOpen, <1>1, <1>3 DEF Open
<1>5. N[x].status \in Untouched
  BY <1>1, <1>3, <1>4, Graph DEF Ahead, Open
<1> QED BY <1>1, <1>2, <1>3, <1>4, <1>5, Graph DEF Untouched

LEMMA ReopenedAhead ==
  ASSUME NEW N \in [Node -> NodeRow], Ahead(N), NEW target \in Node,
         N[target].status = "completed"
  PROVE  Ahead(ReopenedNodes(N, target))
<1> DEFINE M == ReopenedNodes(N, target)
<1>1. \A x \in Node : M[x].status =
        IF x = target THEN "in_progress"
        ELSE IF x > target /\ Inner(x) THEN "not_started" ELSE N[x].status
  BY ReopenedAt
<1> HIDE DEF M
<1>2. SUFFICES ASSUME NEW m \in Node, NEW x \in Node,
                      Kind[m] # "end", M[m].status \in Open, x > m, Inner(x)
               PROVE  M[x].status \in Untouched
  BY DEF Ahead, M
<1>3. CASE m = target
  BY <1>1, <1>2, <1>3, Graph DEF Untouched
<1>4. CASE m # target
  <2>1. N[m].status \in Open /\ ~(m > target)
    BY <1>1, <1>2, <1>4, Graph DEF Open, Inner
  <2>2. ~Inner(target)
    BY <1>2, <1>4, <2>1, Graph DEF Ahead, Untouched
  <2>3. x # target
    BY <1>2, <2>2
  <2> QED BY <1>1, <1>2, <2>1, <2>3 DEF Ahead, Untouched
<1> QED BY <1>3, <1>4

\* A rejected gate is put back and the work is taken up again elsewhere, or nowhere yet.
LEMMA RejectedAhead ==
  ASSUME NEW N \in [Node -> NodeRow], Ahead(N), NEW target \in Node, NEW n \in Node,
         N[n].status = "in_progress", Kind[n] = "approval_gate",
         NEW R, R.current = target
  PROVE  LET M == SetNode(ReopenedNodes(N, target), n, "not_started") IN Ahead(M) /\ Waits(R, M)
<1> DEFINE M == SetNode(ReopenedNodes(N, target), n, "not_started")
<1>1. \A x \in Node : M[x].status =
        IF x = n THEN "not_started" ELSE IF x = target THEN "in_progress"
        ELSE IF x > target /\ Inner(x) THEN "not_started" ELSE N[x].status
  <2>1. ReopenedNodes(N, target) \in [Node -> NodeRow] /\ "not_started" \in NodeStatus
    BY ReopenedAt DEF NodeStatus
  <2> QED BY <2>1, ReopenedAt, SetAt
<1> HIDE DEF M
<1>2. ASSUME NEW m \in Node, Kind[m] # "end", M[m].status \in Open
      PROVE  m = target /\ m # n
  <2>1. m # n
    BY <1>1, <1>2 DEF Open
  <2>2. m = target \/ N[m].status \in Open
    BY <1>1, <1>2, <2>1 DEF Open
  <2> QED BY <1>2, <2>1, <2>2, OneOpen DEF Open
<1>3. ASSUME NEW x \in Node, x > target, Inner(x) PROVE M[x].status \in Untouched
  BY <1>1, <1>3, Graph DEF Untouched
<1>4. Ahead(M)
  BY <1>2, <1>3 DEF Ahead
<1>5. Waits(R, M)
  <2>1. SUFFICES ASSUME M[target].status = "not_started"
                 PROVE  \A m \in Node : Kind[m] # "end" => M[m].status \notin Open
    BY <1>3 DEF Waits
  <2> QED BY <2>1, <1>2 DEF Open
<1> QED BY <1>4, <1>5 DEF M
-----------------------------------------------------------------------------
(***************************************************************************)
(* The attempts: a step that inserts none leaves every attempt what it is, *)
(* ends only live ones, and proves what it completes.                      *)
(***************************************************************************)
Same(x, y) ==
  x.run = y.run /\ x.node = y.node /\ x.number = y.number /\ x.op = y.op /\ x.by = y.by

Carries(A) ==
  /\ A \in [Attempt -> AttemptRow]
  /\ \A a \in Attempt :
       /\ Same(attempt[a], A[a])
       /\ A[a].status = "absent" <=> attempt[a].status = "absent"
       /\ attempt[a].status \in Over => A[a].status = attempt[a].status
       /\ A[a].live => A[a].status = "running"
       /\ A[a].status \in Live => attempt[a].status \in Live
       /\ A[a].delegated => attempt[a].delegated \/ attempt[a].node \in Delegates
       /\ A[a].status = "completed" => attempt[a].status = "completed" \/ Verified(attempt[a])
       /\ A[a].status = "failed" =>
            \/ attempt[a].status = "failed"
            \/ attempt[a].number = node[attempt[a].run][attempt[a].node].attempts

Taken(o) == \E c \in Attempt : attempt[c].status \in Live /\ attempt[c].op = o

\* What a step may do to the catalog's receipts and the artwork tasks.
Proceeds ==
  /\ receipts \subseteq receipts'
  /\ \A o \in Attempt :
       /\ stage[o] = "adopted" => stage'[o] = "adopted"
       /\ stage[o] = "absent" /\ stage'[o] # "absent" => Used(o) /\ attempt[o].node \in Delegates
       /\ Spent(o) => Spent(o)' \/ Taken(o)

Counts == \A r \in Run, n \in Node : node'[r][n].attempts = node[r][n].attempts

LEMMA RowTypes ==
  ASSUME TypeOK, NEW a \in Attempt
  PROVE  /\ attempt[a] \in AttemptRow
         /\ attempt[a].run \in Run /\ attempt[a].node \in Node /\ attempt[a].number \in Nat
         /\ attempt[a].op \in Attempt \cup {NoAttempt}
         /\ attempt[a].status \in Live \cup {"absent"} \cup Over
         /\ node[attempt[a].run][attempt[a].node].attempts \in Nat
BY DEF TypeOK, AttemptRow, NodeRow, Over

\* What a retry has left behind is in nobody's hands.
LEMMA LeftBehind ==
  ASSUME IInv, NEW a \in Attempt, NEW b \in Attempt, Follows(b, a),
         attempt[b].number = attempt[a].number + 1, attempt[b].op # attempt[a].op
  PROVE  ~Taken(attempt[a].op)
<1>1. SUFFICES ASSUME NEW c \in Attempt, attempt[c].status \in Live, attempt[c].op = attempt[a].op
               PROVE  FALSE
  BY DEF Taken
<1>2. a # c /\ a # b /\ b # c /\ Used(a) /\ Used(b) /\ Used(c) /\ Sibling(a, b)
  BY <1>1, Graph DEF IInv, AttemptInv, Follows, Used, Sibling, Live
<1>3. PairInv(a, c) /\ PairInv(c, a) /\ PairInv(b, c) /\ ChainInv(a, b, c)
  BY DEF IInv
<1>4. Sibling(a, c) /\ attempt[a].number < attempt[c].number
  <2>1. Sibling(a, c) /\ Sibling(c, a) /\ attempt[a].number # attempt[c].number
    BY <1>1, <1>2, <1>3 DEF PairInv, Follows, Sibling
  <2>2. ~(attempt[c].number < attempt[a].number)
    BY <1>1, <1>2, <1>3 DEF PairInv, Follows, Live
  <2>3. attempt[a].number \in Nat /\ attempt[c].number \in Nat
    BY RowTypes DEF IInv
  <2> QED BY <2>1, <2>2, <2>3
<1>5. Sibling(b, c) /\ attempt[b].number < attempt[c].number
  <2>1. Sibling(b, c) /\ attempt[b].number # attempt[c].number
    BY <1>2, <1>3, <1>4 DEF PairInv, Sibling
  <2>2. attempt[a].number \in Nat /\ attempt[b].number \in Nat /\ attempt[c].number \in Nat
    BY RowTypes DEF IInv
  <2> QED BY <1>4, <2>1, <2>2
<1> QED BY <1>1, <1>2, <1>3, <1>4, <1>5 DEF ChainInv, Follows

AttemptsInv ==
  /\ \A a \in Attempt : AttemptInv(a) /\ StageInv(a)
  /\ \A a, b \in Attempt : PairInv(a, b) /\ RetryInv(a, b)
  /\ \A a, b, c \in Attempt : ChainInv(a, b, c)

LEMMA VerifiedStays ==
  ASSUME IInv, Proceeds, NEW a \in Attempt, attempt[a].op # NoAttempt, Verified(attempt[a]),
         NEW y, Same(attempt[a], y)
  PROVE  IF y.node \in Delegates THEN stage'[y.op] = "adopted" ELSE y.op \in receipts'
<1>1. attempt[a].op \in Attempt
  BY RowTypes DEF IInv
<1> QED BY <1>1 DEF Verified, Proceeds, Same

LEMMA Carried ==
  ASSUME IInv, Carries(attempt'), Counts, Proceeds
  PROVE  AttemptsInv' /\ Stays
<1>1. \A a \in Attempt :
        /\ Same(attempt[a], attempt'[a]) /\ (Used(a)' <=> Used(a))
        /\ attempt'[a].status = "failed" =>
             \/ attempt[a].status = "failed"
             \/ attempt[a].number = node[attempt[a].run][attempt[a].node].attempts
        /\ attempt[a].status = "failed" => attempt'[a].status = "failed"
  BY DEF Carries, Used, Over
<1>2. \A a, b \in Attempt : Sibling(a, b)' <=> Sibling(a, b)
  BY <1>1 DEF Sibling, Same
<1>3. ASSUME NEW a \in Attempt PROVE AttemptInv(a)'
  <2>1. AttemptInv(a) /\ attempt[a].op \in Attempt \cup {NoAttempt}
    BY RowTypes DEF IInv
  <2>2. /\ attempt[a].run \in Run /\ attempt[a].node \in Node
        /\ node'[attempt[a].run][attempt[a].node].attempts
             = node[attempt[a].run][attempt[a].node].attempts
    BY RowTypes DEF IInv, Counts
  <2>3. SUFFICES ASSUME Used(a), Used(a)' 
                 PROVE  /\ attempt'[a].status \in Live \cup {"completed"} => attempt'[a].op # NoAttempt
                        /\ attempt'[a].op # NoAttempt =>
                             /\ Used(attempt[a].op)'
                             /\ attempt'[attempt'[a].op].op = attempt'[a].op
                             /\ attempt'[attempt'[a].op].node = attempt'[a].node
                        /\ attempt'[a].delegated => attempt'[a].node \in Delegates
                        /\ attempt'[a].status = "completed" => Verified(attempt[a])'
    BY <1>1, <2>1, <2>2 DEF AttemptInv, Same, Used, Verified
  <2>4. attempt'[a].status \in Live \cup {"completed"} => attempt[a].status \in Live \cup {"completed"}
    BY <1>1, <2>3, RowTypes DEF IInv, Carries, Used, Over
  <2>5. attempt'[a].op = attempt[a].op /\ attempt'[a].node = attempt[a].node
    BY <1>1 DEF Same
  <2>6. attempt'[a].op # NoAttempt =>
          /\ Used(attempt[a].op)'
          /\ attempt'[attempt'[a].op].op = attempt'[a].op
          /\ attempt'[attempt'[a].op].node = attempt'[a].node
    <3>1. SUFFICES ASSUME NEW o \in Attempt, attempt[a].op = o
                   PROVE  Used(o)' /\ attempt'[o].op = o /\ attempt'[o].node = attempt[a].node
      BY <2>1, <2>5
    <3>2. Used(o) /\ attempt[o].op = o /\ attempt[o].node = attempt[a].node
      BY <2>1, <2>3, <3>1, Graph DEF AttemptInv, Used
    <3> QED BY <1>1, <3>2 DEF Same
  <2>7. attempt'[a].delegated => attempt'[a].node \in Delegates
    BY <2>1, <2>3, <2>5 DEF AttemptInv, Carries, Used
  <2>8. attempt'[a].status = "completed" => Verified(attempt[a])'
    <3>1. ASSUME attempt'[a].status = "completed" PROVE Verified(attempt[a]) /\ attempt[a].op # NoAttempt
      BY <2>1, <2>3, <2>4, <3>1 DEF AttemptInv, Carries, Used
    <3> QED BY <1>1, <3>1, VerifiedStays DEF Verified
  <2> QED BY <2>1, <2>3, <2>4, <2>5, <2>6, <2>7, <2>8 DEF AttemptInv, Used
<1>4. ASSUME NEW o \in Attempt PROVE StageInv(o)'
  <2>1. StageInv(o) /\ attempt'[o].node = attempt[o].node
    BY <1>1 DEF IInv, Same
  <2> QED BY <1>1, <2>1 DEF StageInv, Proceeds
<1>5. ASSUME NEW a \in Attempt, NEW b \in Attempt PROVE PairInv(a, b)'
  <2>1. PairInv(a, b)
    BY DEF IInv
  <2> QED BY <1>1, <1>2, <2>1 DEF PairInv, Same
<1>6. ASSUME NEW a \in Attempt, NEW b \in Attempt PROVE RetryInv(a, b)'
  <2>1. SUFFICES ASSUME Follows(b, a)', attempt'[b].number = attempt'[a].number + 1,
                        attempt'[b].by = attempt'[a].by, attempt'[b].op # attempt'[a].op
                 PROVE  Spent(attempt[a].op)'
    BY DEF RetryInv
  <2>2. Same(attempt[a], attempt'[a]) /\ Same(attempt[b], attempt'[b])
    BY <1>1
  <2>3. Follows(b, a)
    <3>1. attempt[a].status = "failed"
      <4>1. attempt[b].number <= node[attempt[b].run][attempt[b].node].attempts
        BY <2>1, <2>2, Graph DEF Follows, Same, IInv, AttemptInv
      <4>2. /\ attempt[a].number \in Nat /\ attempt[b].number \in Nat
            /\ node[attempt[b].run][attempt[b].node].attempts \in Nat
        BY RowTypes DEF IInv
      <4> QED BY <1>1, <2>1, <2>2, <4>1, <4>2 DEF Follows, Same
    <3> QED BY <2>1, <2>2, <3>1 DEF Follows, Same
  <2>4. Spent(attempt[a].op) /\ ~Taken(attempt[a].op) /\ attempt[a].op \in Attempt
    <3>1. RetryInv(a, b)
      BY DEF IInv
    <3>2. attempt[b].number = attempt[a].number + 1 /\ attempt[b].by = attempt[a].by
            /\ attempt[b].op # attempt[a].op
      BY <2>1, <2>2 DEF Same
    <3> QED BY <2>3, <3>1, <3>2, LeftBehind, RowTypes DEF RetryInv, Follows, IInv
  <2> QED BY <2>2, <2>4 DEF Proceeds, Same, Spent
<1>7. ASSUME NEW a \in Attempt, NEW b \in Attempt, NEW c \in Attempt PROVE ChainInv(a, b, c)'
  <2>1. ChainInv(a, b, c)
    BY DEF IInv
  <2> QED BY <1>1, <1>2, <2>1 DEF ChainInv, Same
<1>8. Stays
  BY DEF Stays, Carries, Same
<1> QED BY <1>3, <1>4, <1>5, <1>6, <1>7, <1>8 DEF AttemptsInv
-----------------------------------------------------------------------------
(***************************************************************************)
(* Steps that insert no attempt: those that change at most the attempts    *)
(* (Keeping), and those that write the rows of one run (Writing).          *)
(***************************************************************************)
SlotRow ==
  [pc : Holding \cup {"idle"}, at : Attempt \cup {NoAttempt}, code : {"none", "retryable", "final"}]

\* Whatever is not a row of the workflow keeps its shape.
Around ==
  /\ receipts' \subseteq Attempt /\ stage' \in [Attempt -> Stage]
  /\ queue' \in [Attempt -> 0..Backlog] /\ intents' \subseteq {"api", "scheduler"} \X Attempt
  /\ slot' \in [Worker -> SlotRow] /\ faults' \in 0..MaxFaults

\* A worker stays where it is, or what it may rely on at its next point holds there.
Slots == \A w \in Worker : slot'[w] = slot[w] \/ slot'[w].pc = "idle" \/ SlotInv(w)'

LEMMA SlotsCarried ==
  ASSUME IInv, Proceeds, Slots,
         \A a \in Attempt : Used(a) => Used(a)' /\ Same(attempt[a], attempt'[a])
  PROVE  \A w \in Worker : SlotInv(w)'
<1>1. SUFFICES ASSUME NEW w \in Worker, slot'[w] = slot[w], slot[w].pc # "idle" PROVE SlotInv(w)'
  BY DEF Slots, SlotInv
<1>2. SUFFICES ASSUME NEW a \in Attempt, a = slot[w].at PROVE SlotInv(w)'
  BY <1>1 DEF IInv, SlotInv
<1>3. /\ Used(a) /\ attempt[a].op # NoAttempt
      /\ slot[w].pc = "finish" => Verified(attempt[a])
      /\ slot[w].pc \in {"look", "wait"} => attempt[a].node \in Delegates
  BY <1>1, <1>2 DEF IInv, SlotInv
<1>4. Used(a)' /\ Same(attempt[a], attempt'[a])
  BY <1>3
<1>5. slot[w].pc = "finish" => Verified(attempt[a])'
  BY <1>3, <1>4, VerifiedStays DEF Verified
<1> QED BY <1>1, <1>2, <1>3, <1>4, <1>5 DEF SlotInv, Same

\* Nobody becomes live.
LEMMA OnItCarried ==
  ASSUME TypeOK, NEW A, Carries(A), NEW r \in Run, NEW R, NEW N, OnIt(r, R, N, attempt)
  PROVE  OnIt(r, R, N, A)
BY DEF OnIt, OfRun, Carries, Same, Live

LEMMA ProvedCarried ==
  ASSUME NEW A, Carries(A), NEW r \in Run, NEW n \in Node, NEW N, Proved(r, n, N, attempt)
  PROVE  Proved(r, n, N, A)
BY DEF Proved, Carries, Same, Over

LEMMA Keeping ==
  ASSUME IInv, Carries(attempt'), UNCHANGED <<run, node>>, Proceeds, Around, Slots
  PROVE  IInv' /\ Stays /\ Numbers
<1>1. AttemptsInv' /\ Stays
  BY Carried DEF Counts
<1>2. TypeOK'
  BY DEF IInv, TypeOK, Carries, Around, SlotRow
<1>3. \A w \in Worker : SlotInv(w)'
  <2>1. \A a \in Attempt : Used(a) => Used(a)' /\ Same(attempt[a], attempt'[a])
    BY DEF Carries, Used
  <2> QED BY <2>1, SlotsCarried
<1>4. ASSUME NEW r \in Run PROVE RunInv(r)' /\ \A n \in Node : NodeInv(r, n)'
  <2>1. RunInv(r)'
    BY DEF IInv, RunInv
  <2>2. ASSUME NEW n \in Node PROVE NodeInv(r, n)'
    <3>1. NodeInv(r, n)
      BY DEF IInv
    <3> QED BY <3>1, ProvedCarried DEF NodeInv
  <2> QED BY <2>1, <2>2
<1>5. ASSUME InFlowOrder, NEW r \in Run PROVE Focus(r, run[r], node[r], attempt)'
  <2>1. Focus(r, run[r], node[r], attempt) /\ TypeOK
    BY <1>5 DEF IInv
  <2> QED BY <2>1, OnItCarried DEF Focus
<1>6. Numbers
  BY DEF Numbers, Shape
<1> QED BY <1>1, <1>2, <1>3, <1>4, <1>5, <1>6 DEF IInv, AttemptsInv

\* The new rows of a run, before its current node is given an attempt.
Shaped(r, R, N, A) ==
  /\ R \in RunRow /\ N \in [Node -> NodeRow]
  /\ R.status # "not_started" /\ R.revision > run[r].revision
  /\ Carries(A)
  /\ \A n \in Node : N[n].attempts = node[r][n].attempts
  /\ \A n \in Node :
       N[n].status = "completed" /\ Kind[n] = "internal_action" => Proved(r, n, N, A)
  /\ InFlowOrder => Focus(r, R, N, A)

LEMMA Writing ==
  ASSUME IInv, NEW r \in Run, NEW R, NEW N, NEW A, Shaped(r, R, N, A), Write(r, R, N, A),
         UNCHANGED <<receipts, stage>>, Around, Slots
  PROVE  IInv' /\ Stays /\ Numbers
<1>0. /\ run' = [run EXCEPT ![r] = R] /\ node' = [node EXCEPT ![r] = N] /\ attempt' = A
      /\ run \in [Run -> RunRow] /\ node \in [Run -> [Node -> NodeRow]]
  BY DEF Write, IInv, TypeOK
<1>1. AttemptsInv' /\ Stays
  <2>1. Carries(attempt') /\ Counts
    BY <1>0 DEF Shaped, Counts
  <2>2. Proceeds
    BY DEF Proceeds, Spent
  <2> QED BY <2>1, <2>2, Carried
<1>2. TypeOK'
  BY <1>0 DEF TypeOK, Carries, Around, SlotRow, Shaped
<1>3. \A w \in Worker : SlotInv(w)'
  <2>1. \A a \in Attempt : Used(a) => Used(a)' /\ Same(attempt[a], attempt'[a])
    BY <1>0 DEF Shaped, Carries, Used
  <2> QED BY <2>1, SlotsCarried DEF Proceeds, Spent
<1>4. ASSUME NEW q \in Run PROVE RunInv(q)' /\ \A n \in Node : NodeInv(q, n)'
  <2>1. RunInv(q)'
    BY <1>0 DEF IInv, RunInv, Shaped
  <2>2. ASSUME NEW n \in Node PROVE NodeInv(q, n)'
    <3>1. CASE q = r
      BY <1>0, <3>1 DEF NodeInv, Shaped
    <3>2. CASE q # r
      <4>1. NodeInv(q, n) /\ node'[q] = node[q]
        BY <1>0, <3>2 DEF IInv
      <4> QED BY <1>0, <4>1, ProvedCarried DEF NodeInv, Shaped
    <3> QED BY <3>1, <3>2
  <2> QED BY <2>1, <2>2
<1>5. ASSUME InFlowOrder, NEW q \in Run PROVE Focus(q, run[q], node[q], attempt)'
  <2>1. CASE q = r
    BY <1>0, <1>5, <2>1 DEF Shaped
  <2>2. CASE q # r
    <3>1. Focus(q, run[q], node[q], attempt) /\ run'[q] = run[q] /\ node'[q] = node[q] /\ TypeOK
      BY <1>0, <1>5, <2>2 DEF IInv
    <3> QED BY <1>0, <3>1, OnItCarried DEF Focus, Shaped
  <2> QED BY <2>1, <2>2
<1>6. Numbers
  BY <1>0 DEF Numbers, Shape, Shaped
<1> QED BY <1>1, <1>2, <1>3, <1>4, <1>5, <1>6 DEF IInv, AttemptsInv
-----------------------------------------------------------------------------
(***************************************************************************)
(* A node's new attempt: the live one before it is cancelled, and an       *)
(* operation is passed on by a failed attempt or is new.                   *)
(***************************************************************************)
\* Whom an attempt is for.
Decider == Member \cup {NoMember}

LEMMA LatestIs ==
  ASSUME NEW A, NEW N, NEW r \in Run, NEW n \in Node, NEW p, p = Latest(N, A, r, n)
  PROVE  /\ p # NoAttempt =>
              p \in Attempt /\ A[p].status # "absent" /\ A[p].run = r /\ A[p].node = n
                /\ A[p].number = N[n].attempts
         /\ \A b \in Attempt :
              A[b].status # "absent" /\ A[b].run = r /\ A[b].node = n /\ A[b].number = N[n].attempts
                => p # NoAttempt
<1>1. CASE \E b \in OfRun(A, r) : A[b].node = n /\ A[b].number = N[n].attempts
  <2>1. p \in OfRun(A, r) /\ A[p].node = n /\ A[p].number = N[n].attempts
    BY <1>1 DEF Latest
  <2> QED BY <2>1, Graph DEF OfRun
<1>2. CASE ~\E b \in OfRun(A, r) : A[b].node = n /\ A[b].number = N[n].attempts
  BY <1>2, Graph DEF Latest, OfRun
<1> QED BY <1>1, <1>2

LEMMA EndedRow ==
  ASSUME NEW x \in AttemptRow, NEW s \in {"failed", "completed", "cancelled"}
  PROVE  LET y == EndedAs(x, s) IN
         y \in AttemptRow /\ Same(x, y) /\ y.status = s /\ ~y.live /\ ~y.delegated
<1> DEFINE y == EndedAs(x, s)
<1>1. 0 \in 0..Recoveries
  BY WorkflowAssumption
<1>2. y \in AttemptRow
  BY <1>1 DEF EndedAs, AttemptRow
<1>3. Same(x, y) /\ y.status = s /\ ~y.live /\ ~y.delegated
  BY DEF EndedAs, AttemptRow, Same
<1> QED BY <1>2, <1>3

LEMMA NewRow ==
  /\ NewAttempt \in AttemptRow /\ NewAttempt.live = FALSE /\ NewAttempt.delegated = FALSE
  /\ NewAttempt.status = "absent" /\ NewAttempt.op = NoAttempt
<1>1. PICK r \in Run : r = CHOOSE q \in Run : TRUE
  BY WorkflowAssumption
<1>2. 0 \in Nat /\ 0 \in 0..Recoveries /\ 1 \in Node
  BY WorkflowAssumption, Graph
<1> QED BY <1>1, <1>2 DEF NewAttempt, AttemptRow

\* What the insertion makes of the attempts A, where p was the latest.
InsertedAs(r, n, N, A, B, m, override, a, p, status) ==
  /\ B \in [Attempt -> AttemptRow]
  /\ \A b \in Attempt \ {a} :
       IF b = p /\ A[p].status \in Live
       THEN Same(A[p], B[p]) /\ B[p].status = "cancelled" /\ ~B[p].live /\ ~B[p].delegated
       ELSE B[b] = A[b]
  /\ B[a].status = status /\ B[a].run = r /\ B[a].node = n /\ B[a].by = m
  /\ B[a].number = N[n].attempts + 1 /\ ~B[a].live /\ ~B[a].delegated
  /\ B[a].op = IF status = "failed" THEN NoAttempt
               ELSE IF Reuses(A, p, m, override) THEN A[p].op ELSE a

LEMMA InsertedRows ==
  ASSUME NEW A \in [Attempt -> AttemptRow], NEW N \in [Node -> NodeRow],
         NEW r \in Run, NEW n \in Node, NEW m \in Decider, NEW override \in BOOLEAN,
         NEW a \in Unused(A), NEW status \in {"queued", "failed"},
         NEW p, p = Latest(N, A, r, n)
  PROVE  InsertedAs(r, n, N, A, Inserted(r, n, N, A, m, override, a, status),
                    m, override, a, p, status)
<1> DEFINE A1 == IF p # NoAttempt /\ A[p].status \in Live
                 THEN [A EXCEPT ![p] = EndedAs(@, "cancelled")] ELSE A
           op == IF status = "failed" THEN NoAttempt
                 ELSE IF Reuses(A, p, m, override) THEN A[p].op ELSE a
           x == [NewAttempt EXCEPT !.status = status, !.run = r, !.node = n,
                   !.number = N[n].attempts + 1, !.by = m, !.op = op]
           B == Inserted(r, n, N, A, m, override, a, status)
<1>1. a \in Attempt /\ A[a].status = "absent" /\ (p # NoAttempt => p \in Attempt /\ p # a)
  BY LatestIs DEF Unused
<1>2. op \in Attempt \cup {NoAttempt}
  BY <1>1 DEF AttemptRow, Reuses
<1>3. N[n].attempts + 1 \in Nat
  BY DEF NodeRow
<1>4. /\ x \in AttemptRow /\ x.status = status /\ x.run = r /\ x.node = n /\ x.by = m
      /\ x.number = N[n].attempts + 1 /\ ~x.live /\ ~x.delegated /\ x.op = op
  <2> HIDE DEF op
  <2> QED BY <1>2, <1>3, NewRow DEF AttemptRow, Live, Decider
<1>5. B = [A1 EXCEPT ![a] = x]
  BY DEF Inserted
<1>6. A1 \in [Attempt -> AttemptRow]
  BY <1>1, EndedRow
<1>7. \A b \in Attempt : b # p => A1[b] = A[b]
  BY <1>1
<1>8. p # NoAttempt /\ A[p].status \in Live =>
        Same(A[p], A1[p]) /\ A1[p].status = "cancelled" /\ ~A1[p].live /\ ~A1[p].delegated
  BY <1>1, EndedRow
<1>9. ~(p # NoAttempt /\ A[p].status \in Live) => A1 = A
  OBVIOUS
<1>10. NoAttempt \notin Attempt
  BY Graph
<1> HIDE DEF A1, x, op, B
<1>11. B \in [Attempt -> AttemptRow] /\ B[a] = x /\ \A b \in Attempt \ {a} : B[b] = A1[b]
  BY <1>1, <1>4, <1>5, <1>6
<1> QED BY <1>1, <1>4, <1>7, <1>8, <1>9, <1>10, <1>11 DEF InsertedAs, B, op

LEMMA InsertedAttempts ==
  ASSUME IInv, NEW r \in Run, NEW n \in Node, NEW m \in Decider, NEW override \in BOOLEAN,
         NEW A, Carries(A), NEW N,
         N[n].attempts = node[r][n].attempts, Kind[n] = "internal_action",
         NEW a \in Unused(A), NEW p, p = Latest(N, A, r, n), NEW status \in {"queued", "failed"},
         InsertedAs(r, n, N, A, attempt', m, override, a, p, status),
         node'[r][n].attempts = N[n].attempts + 1,
         \A q \in Run, x \in Node : q # r \/ x # n => node'[q][x].attempts = node[q][x].attempts,
         UNCHANGED <<receipts, stage>>,
         override /\ p # NoAttempt /\ A[p].op # NoAttempt => Spent(A[p].op)
  PROVE  AttemptsInv' /\ Stays
<1> DEFINE top == N[n].attempts
           Old(b) ==
             /\ Same(attempt[b], attempt'[b]) /\ (Used(b)' <=> Used(b))
             /\ attempt[b].status \in Over => attempt'[b].status = attempt[b].status
             /\ attempt'[b].status \in Live => attempt[b].status \in Live
             /\ attempt'[b].delegated => attempt[b].delegated \/ attempt[b].node \in Delegates
             /\ attempt'[b].status = "completed" => attempt[b].status = "completed" \/ Verified(attempt[b])
             /\ attempt'[b].status = "failed" =>
                  \/ attempt[b].status = "failed"
                  \/ attempt[b].number = node[attempt[b].run][attempt[b].node].attempts
<1>1. a \in Attempt /\ ~Used(a) /\ attempt[a].status = "absent" /\ a # NoAttempt
  BY Graph DEF Unused, Carries, Used
<1>2. /\ p # NoAttempt => p \in Attempt /\ p # a /\ Used(p) /\ attempt[p].run = r
                            /\ attempt[p].node = n /\ attempt[p].number = top
      /\ \A b \in Attempt : Used(b) /\ attempt[b].run = r /\ attempt[b].node = n
                              /\ attempt[b].number = top => p # NoAttempt
  <2>1. \A b \in Attempt : Same(attempt[b], A[b]) /\ (A[b].status = "absent" <=> ~Used(b))
    BY DEF Carries, Used
  <2>2. /\ p # NoAttempt =>
              p \in Attempt /\ A[p].status # "absent" /\ A[p].run = r /\ A[p].node = n
                /\ A[p].number = N[n].attempts
        /\ \A b \in Attempt :
              A[b].status # "absent" /\ A[b].run = r /\ A[b].node = n /\ A[b].number = N[n].attempts
                => p # NoAttempt
    BY LatestIs
  <2> QED BY <1>1, <2>1, <2>2 DEF Same
<1>3. ASSUME NEW b \in Attempt, b # a PROVE Old(b)
  <2>1. /\ Same(attempt[b], A[b]) /\ (A[b].status = "absent" <=> attempt[b].status = "absent")
        /\ attempt[b].status \in Over => A[b].status = attempt[b].status
        /\ A[b].status \in Live => attempt[b].status \in Live
        /\ A[b].delegated => attempt[b].delegated \/ attempt[b].node \in Delegates
        /\ A[b].status = "completed" => attempt[b].status = "completed" \/ Verified(attempt[b])
        /\ A[b].status = "failed" =>
             \/ attempt[b].status = "failed"
             \/ attempt[b].number = node[attempt[b].run][attempt[b].node].attempts
    BY DEF Carries
  <2>2. \/ attempt'[b] = A[b]
        \/ /\ A[b].status \in Live /\ Same(A[b], attempt'[b])
           /\ attempt'[b].status = "cancelled" /\ ~attempt'[b].delegated
    BY <1>3 DEF InsertedAs
  <2>3. CASE attempt'[b] = A[b]
    BY <2>1, <2>3 DEF Used
  <2>4. CASE /\ A[b].status \in Live /\ Same(A[b], attempt'[b])
             /\ attempt'[b].status = "cancelled" /\ ~attempt'[b].delegated
    BY <2>1, <2>4 DEF Used, Same, Live, Over
  <2> QED BY <2>2, <2>3, <2>4
<1>4. /\ attempt'[a].status = status /\ attempt'[a].run = r /\ attempt'[a].node = n
      /\ attempt'[a].by = m /\ attempt'[a].number = top + 1 /\ ~attempt'[a].delegated
      /\ Used(a)'
      /\ attempt'[a].op = IF status = "failed" THEN NoAttempt
                          ELSE IF Reuses(A, p, m, override) THEN A[p].op ELSE a
  BY DEF InsertedAs, Used
<1>5. /\ top \in Nat
      /\ \A b \in Attempt : attempt[b].number \in Nat
      /\ \A b \in Attempt : Used(b) /\ attempt[b].run = r /\ attempt[b].node = n => attempt[b].number <= top
      /\ \A b \in Attempt : attempt[b].op # a
  <2>1. top \in Nat
    BY DEF IInv, TypeOK, NodeRow
  <2>2. \A b \in Attempt : AttemptInv(b) /\ attempt[b].number \in Nat
    BY RowTypes DEF IInv
  <2>3. \A b \in Attempt : attempt[b].op # a
    BY <1>1, <2>2 DEF AttemptInv, Used
  <2>4. \A b \in Attempt : Used(b) /\ attempt[b].run = r /\ attempt[b].node = n => attempt[b].number <= top
    BY <2>2 DEF AttemptInv, Used
  <2> QED BY <2>1, <2>2, <2>3, <2>4
\* Where the new attempt has an old operation, it is that of the failed latest one.
<1>6. attempt'[a].op \notin {a, NoAttempt} =>
        /\ p # NoAttempt /\ attempt'[p].status = "failed" /\ attempt[p].op = attempt'[a].op
        /\ attempt[p].op # NoAttempt
  <2>1. SUFFICES ASSUME attempt'[a].op \notin {a, NoAttempt}
                 PROVE  /\ p # NoAttempt /\ attempt'[p].status = "failed"
                        /\ attempt[p].op = attempt'[a].op /\ attempt[p].op # NoAttempt
    OBVIOUS
  <2>2. Reuses(A, p, m, override) /\ attempt'[a].op = A[p].op
    BY <1>4, <2>1
  <2>3. p \in Attempt /\ p # a /\ A[p].status = "failed" /\ A[p].op # NoAttempt
    BY <1>2, <2>2 DEF Reuses
  <2>4. attempt'[p] = A[p]
    BY <2>3 DEF InsertedAs, Live
  <2>5. A[p].op = attempt[p].op
    BY <2>3 DEF Carries, Same
  <2> QED BY <1>2, <2>2, <2>3, <2>4, <2>5 DEF Reuses
<1>7. \A b \in Attempt : attempt[b].status = "failed" => b # a /\ attempt'[b].status = "failed"
  BY <1>1, <1>3 DEF Over
<1> HIDE DEF Old, top
<1>8. ASSUME NEW b \in Attempt PROVE AttemptInv(b)'
  <2>0. \A o \in Attempt :
          Used(o) /\ attempt[o].op = o => Used(o)' /\ attempt'[o].op = o /\ attempt'[o].node = attempt[o].node
    BY <1>1, <1>3 DEF Old, Same
  <2>1. CASE b = a
    <3>1. attempt'[a].op \notin {a, NoAttempt} =>
            /\ attempt'[a].op \in Attempt /\ Used(attempt'[a].op) /\ attempt[attempt'[a].op].op = attempt'[a].op
            /\ attempt[attempt'[a].op].node = n
      <4>1. SUFFICES ASSUME attempt'[a].op \notin {a, NoAttempt}
                     PROVE  /\ attempt'[a].op \in Attempt /\ Used(attempt'[a].op)
                            /\ attempt[attempt'[a].op].op = attempt'[a].op /\ attempt[attempt'[a].op].node = n
        OBVIOUS
      <4>2. p \in Attempt /\ Used(p) /\ attempt[p].node = n /\ attempt[p].op = attempt'[a].op
              /\ attempt[p].op # NoAttempt
        BY <1>2, <1>6, <4>1
      <4>3. AttemptInv(p) /\ attempt[p].op \in Attempt \cup {NoAttempt}
        BY <4>2, RowTypes DEF IInv
      <4> QED BY <4>2, <4>3 DEF AttemptInv, Used
    <3>2. attempt'[a].op # NoAttempt =>
            /\ attempt'[attempt'[a].op].status # "absent"
            /\ attempt'[attempt'[a].op].op = attempt'[a].op /\ attempt'[attempt'[a].op].node = n
      <4>1. CASE attempt'[a].op = a
        BY <1>4, <4>1 DEF Used
      <4>2. CASE attempt'[a].op \notin {a, NoAttempt}
        BY <2>0, <3>1, <4>2 DEF Used
      <4> QED BY <4>1, <4>2
    <3>3. status = "queued" => attempt'[a].op # NoAttempt
      BY <1>1, <1>4 DEF Reuses
    <3>4. node'[r][n].attempts = top + 1
      BY DEF top
    <3> QED BY <1>4, <1>5, <2>1, <3>2, <3>3, <3>4 DEF AttemptInv, Used, Live
  <2>2. CASE b # a
    <3>1. Old(b) /\ AttemptInv(b) /\ attempt[b].op \in Attempt \cup {NoAttempt}
      BY <1>3, <2>2, RowTypes DEF IInv
    <3>2. /\ attempt[b].run \in Run /\ attempt[b].node \in Node /\ attempt[b].number \in Nat
          /\ node[attempt[b].run][attempt[b].node].attempts \in Nat
          /\ attempt[b].status \in Live \cup {"absent"} \cup Over
      BY RowTypes DEF IInv
    <3>3. Same(attempt[b], attempt'[b]) /\ (Used(b)' <=> Used(b))
      BY <3>1 DEF Old
    <3>4. node[attempt[b].run][attempt[b].node].attempts
            <= node'[attempt[b].run][attempt[b].node].attempts
      <4>1. CASE attempt[b].run = r /\ attempt[b].node = n
        BY <1>5, <4>1, N[n].attempts = node[r][n].attempts DEF top
      <4>2. CASE attempt[b].run # r \/ attempt[b].node # n
        BY <3>2, <4>2
      <4> QED BY <4>1, <4>2
    <3>5. SUFFICES ASSUME Used(b), Used(b)'
                   PROVE  /\ attempt'[b].number >= 1
                          /\ attempt'[b].number <= node'[attempt'[b].run][attempt'[b].node].attempts
                          /\ attempt'[b].status \in Live \cup {"completed"} => attempt'[b].op # NoAttempt
                          /\ attempt'[b].op # NoAttempt =>
                               /\ attempt'[attempt'[b].op].status # "absent"
                               /\ attempt'[attempt'[b].op].op = attempt'[b].op
                               /\ attempt'[attempt'[b].op].node = attempt'[b].node
                          /\ attempt'[b].delegated => attempt'[b].node \in Delegates
                          /\ attempt'[b].status = "completed" => Verified(attempt[b])'
      BY <3>1, <3>3 DEF AttemptInv, Same, Used, Verified
    <3>6. /\ attempt[b].number >= 1
          /\ attempt[b].number <= node[attempt[b].run][attempt[b].node].attempts
          /\ attempt[b].status \in Live \cup {"completed"} => attempt[b].op # NoAttempt
          /\ attempt[b].op # NoAttempt =>
               Used(attempt[b].op) /\ attempt[attempt[b].op].op = attempt[b].op
                 /\ attempt[attempt[b].op].node = attempt[b].node
          /\ attempt[b].delegated => attempt[b].node \in Delegates
          /\ attempt[b].status = "completed" => Verified(attempt[b])
      BY <3>1, <3>5 DEF AttemptInv, Used
    <3>7. attempt'[b].number >= 1 /\ attempt'[b].number <= node'[attempt'[b].run][attempt'[b].node].attempts
      <4>1. node'[attempt[b].run][attempt[b].node].attempts \in Nat
        <5>1. CASE attempt[b].run = r /\ attempt[b].node = n
          BY <1>5, <5>1 DEF top
        <5>2. CASE attempt[b].run # r \/ attempt[b].node # n
          BY <3>2, <5>2
        <5> QED BY <5>1, <5>2
      <4>2. attempt'[b].number = attempt[b].number /\ attempt'[b].run = attempt[b].run
              /\ attempt'[b].node = attempt[b].node
        BY <3>3 DEF Same
      <4>3. attempt[b].number <= node'[attempt[b].run][attempt[b].node].attempts
        BY <3>2, <3>4, <3>6, <4>1
      <4> QED BY <3>6, <4>2, <4>3
    <3>8. attempt'[b].status \in Live \cup {"completed"} =>
            attempt[b].status \in Live \cup {"completed"}
      BY <3>1, <3>2, <3>5 DEF Old, Over, Used
    <3>9. attempt'[b].op # NoAttempt =>
            /\ attempt'[attempt'[b].op].status # "absent"
            /\ attempt'[attempt'[b].op].op = attempt'[b].op
            /\ attempt'[attempt'[b].op].node = attempt'[b].node
      <4>1. SUFFICES ASSUME NEW o \in Attempt, attempt[b].op = o, o # NoAttempt
                     PROVE  Used(o)' /\ attempt'[o].op = o /\ attempt'[o].node = attempt[b].node
        BY <3>1, <3>3 DEF Same, Used
      <4> QED BY <2>0, <3>6, <4>1
    <3>10. attempt'[b].status = "completed" => Verified(attempt[b])'
      <4>1. ASSUME attempt'[b].status = "completed" PROVE Verified(attempt[b])
        BY <3>1, <3>6, <4>1 DEF Old
      <4> QED BY <3>3, <4>1 DEF Verified, Same
    <3>11. attempt'[b].delegated => attempt'[b].node \in Delegates
      BY <3>1, <3>3, <3>6 DEF Old, Same
    <3>12. attempt'[b].status \in Live \cup {"completed"} => attempt'[b].op # NoAttempt
      BY <3>3, <3>6, <3>8 DEF Same
    <3> QED BY <3>7, <3>9, <3>10, <3>11, <3>12
  <2> QED BY <2>1, <2>2
<1>9. ASSUME NEW o \in Attempt PROVE StageInv(o)'
  <2>1. StageInv(o)
    BY DEF IInv
  <2> QED BY <1>1, <1>3, <2>1 DEF StageInv, Old, Same
<1>10. ASSUME NEW b \in Attempt, NEW c \in Attempt, b # a, c # a
       PROVE  (Sibling(b, c)' <=> Sibling(b, c)) /\ attempt'[b].number = attempt[b].number
                /\ attempt'[b].op = attempt[b].op /\ attempt'[b].by = attempt[b].by
  BY <1>3, <1>10 DEF Sibling, Old, Same
\* Whoever shares the operation of the new attempt is a failed attempt of the node.
<1>11. ASSUME NEW b \in Attempt, b # a, Used(b), attempt[b].op = attempt'[a].op, attempt'[a].op # NoAttempt
       PROVE  /\ p \in Attempt /\ Used(p) /\ attempt[p].op = attempt[b].op /\ attempt[p].number = top
              /\ attempt[b].run = r /\ attempt[b].node = n /\ attempt'[b].status = "failed"
              /\ attempt[p].run = r /\ attempt[p].node = n
  <2>1. attempt'[a].op \notin {a, NoAttempt}
    BY <1>5, <1>11
  <2>2. /\ p # NoAttempt /\ attempt'[p].status = "failed" /\ attempt[p].op = attempt[b].op
        /\ attempt[p].op # NoAttempt
    BY <1>6, <1>11, <2>1
  <2>3. p \in Attempt /\ p # a /\ Used(p) /\ attempt[p].run = r /\ attempt[p].node = n
          /\ attempt[p].number = top
    BY <1>2, <2>2
  <2>4. CASE b = p
    BY <2>2, <2>3, <2>4
  <2>5. CASE b # p
    <3>1. PairInv(b, p)
      BY <2>3 DEF IInv
    <3>2. Sibling(b, p) /\ attempt[b].number # attempt[p].number
            /\ (attempt[b].number < attempt[p].number => attempt[b].status = "failed")
      BY <1>11, <2>2, <2>3, <2>5, <3>1 DEF PairInv
    <3>3. attempt[b].number < attempt[p].number
      BY <1>5, <1>11, <2>3, <3>2 DEF Sibling
    <3> QED BY <1>7, <2>2, <2>3, <3>2, <3>3 DEF Sibling
  <2> QED BY <2>4, <2>5
<1>12. ASSUME NEW b \in Attempt, NEW c \in Attempt PROVE PairInv(b, c)'
  <2>1. CASE b # a /\ c # a
    <3>1. PairInv(b, c) /\ Old(b) /\ Old(c)
      BY <1>3, <2>1 DEF IInv
    <3> QED BY <1>7, <1>10, <2>1, <3>1 DEF PairInv, Old
  <2>2. CASE b = a /\ c # a
    <3>1. SUFFICES ASSUME Used(c)'
                   PROVE  /\ Sibling(a, c)' => attempt'[a].number # attempt'[c].number
                          /\ attempt'[a].op = attempt'[c].op /\ attempt'[a].op # NoAttempt =>
                               Sibling(a, c)' /\ ~(attempt'[a].number < attempt'[c].number)
      BY <2>2 DEF PairInv
    <3>2. Same(attempt[c], attempt'[c]) /\ Used(c) /\ attempt[c].number \in Nat
      BY <1>3, <1>5, <2>2, <3>1 DEF Old
    <3>3. Sibling(a, c)' <=> attempt[c].run = r /\ attempt[c].node = n
      BY <1>4, <3>2 DEF Sibling, Same
    <3>4. Sibling(a, c)' => attempt'[c].number < attempt'[a].number
      BY <1>4, <1>5, <3>2, <3>3 DEF Same
    <3>5. attempt'[a].op = attempt'[c].op /\ attempt'[a].op # NoAttempt => Sibling(a, c)'
      BY <1>11, <2>2, <3>2, <3>3 DEF Same
    <3> QED BY <1>4, <1>5, <3>2, <3>4, <3>5 DEF Same
  <2>3. CASE b # a /\ c = a
    <3>1. SUFFICES ASSUME Used(b)'
                   PROVE  /\ Sibling(b, a)' => attempt'[b].number # attempt'[a].number
                          /\ attempt'[b].op = attempt'[a].op /\ attempt'[b].op # NoAttempt =>
                               Sibling(b, a)' /\ attempt'[b].status = "failed"
      BY <2>3 DEF PairInv
    <3>2. Same(attempt[b], attempt'[b]) /\ Used(b) /\ attempt[b].number \in Nat
      BY <1>3, <1>5, <2>3, <3>1 DEF Old
    <3>3. Sibling(b, a)' <=> attempt[b].run = r /\ attempt[b].node = n
      BY <1>4, <3>2 DEF Sibling, Same
    <3>4. Sibling(b, a)' => attempt'[b].number < attempt'[a].number
      BY <1>4, <1>5, <3>2, <3>3 DEF Same
    <3>5. attempt'[b].op = attempt'[a].op /\ attempt'[b].op # NoAttempt =>
            Sibling(b, a)' /\ attempt'[b].status = "failed"
      BY <1>11, <2>3, <3>2, <3>3 DEF Same
    <3> QED BY <1>4, <1>5, <3>2, <3>4, <3>5 DEF Same
  <2>4. CASE b = c
    BY <2>4 DEF PairInv
  <2> QED BY <2>1, <2>2, <2>3, <2>4
<1>13. ASSUME NEW b \in Attempt, NEW c \in Attempt PROVE RetryInv(b, c)'
  <2>1. SUFFICES ASSUME Follows(c, b)', attempt'[c].number = attempt'[b].number + 1,
                        attempt'[c].by = attempt'[b].by, attempt'[c].op # attempt'[b].op
                 PROVE  Spent(attempt'[b].op)
    BY DEF RetryInv, Spent
  <2>2. Sibling(b, c)' /\ attempt'[b].status = "failed" /\ attempt'[b].op # NoAttempt /\ attempt'[c].op # NoAttempt
    BY <2>1 DEF Follows, Sibling
  <2>3. b # a
    <3>1. SUFFICES ASSUME b = a PROVE FALSE
      OBVIOUS
    <3>2. c # a
      BY <1>4, <1>5, <2>1, <3>1
    <3>3. Same(attempt[c], attempt'[c]) /\ Used(c)
      <4>1. AttemptInv(c) /\ Old(c)
        BY <1>3, <3>2 DEF IInv
      <4> QED BY <2>2, <4>1 DEF Old, AttemptInv, Same, Used
    <3>4. attempt[c].run = r /\ attempt[c].node = n /\ attempt[c].number = top + 1 + 1
      BY <1>4, <2>1, <2>2, <3>1, <3>3 DEF Sibling, Same
    <3> QED BY <1>5, <3>3, <3>4
  <2>4. Old(b) /\ AttemptInv(b) /\ Same(attempt[b], attempt'[b]) /\ Used(b)
    <3>1. Old(b) /\ AttemptInv(b)
      BY <1>3, <2>3 DEF IInv
    <3> QED BY <2>2, <3>1 DEF Old, Used
  <2>5. CASE c = a
    <3>1. attempt[b].run = r /\ attempt[b].node = n /\ attempt[b].number = top
      BY <1>4, <1>5, <2>1, <2>2, <2>4, <2>5 DEF Sibling, Same
    <3>2. p \in Attempt /\ Used(p) /\ attempt[p].run = r /\ attempt[p].node = n /\ attempt[p].number = top
            /\ p # NoAttempt
      BY <1>2, <2>4, <3>1
    <3>3. b = p
      <4>1. PairInv(b, p)
        BY <3>2 DEF IInv
      <4> QED BY <2>4, <3>1, <3>2, <4>1 DEF PairInv, Sibling
    <3>4. A[p].op = attempt[p].op /\ A[p].by = attempt[p].by
      BY <3>2 DEF Carries, Same
    <3>5. A[p].status = "failed"
      BY <2>2, <2>3, <3>3 DEF InsertedAs
    <3>6. ~Reuses(A, p, m, override)
      BY <1>4, <2>1, <2>2, <2>4, <2>5, <3>3, <3>4 DEF Same
    <3>7. attempt[b].by = m
      BY <1>4, <2>1, <2>4, <2>5 DEF Same
    <3>8. override
      BY <2>2, <2>4, <3>2, <3>3, <3>4, <3>5, <3>6, <3>7 DEF Reuses, Same
    <3> QED BY <2>2, <2>4, <3>2, <3>3, <3>4, <3>8 DEF Same
  <2>6. CASE c # a
    <3>1. Old(c) /\ AttemptInv(c) /\ RetryInv(b, c)
      BY <1>3, <2>6 DEF IInv
    <3>2. Same(attempt[c], attempt'[c])
      BY <3>1 DEF Old
    <3>3. attempt[c].op # NoAttempt /\ Used(c)
      BY <2>2, <3>1, <3>2 DEF Same, AttemptInv, Used
    <3>4. Sibling(b, c) /\ attempt[c].number = attempt[b].number + 1 /\ attempt[c].by = attempt[b].by
            /\ attempt[b].op # NoAttempt /\ attempt[c].op # attempt[b].op
            /\ attempt[b].op = attempt'[b].op
      BY <2>1, <2>2, <2>4, <3>2 DEF Sibling, Same
    <3>5. attempt[c].number <= node[attempt[b].run][attempt[b].node].attempts
      BY <3>1, <3>3, <3>4 DEF AttemptInv, Used, Sibling
    <3>6. /\ attempt[b].number \in Nat /\ node[attempt[b].run][attempt[b].node].attempts \in Nat
      BY RowTypes DEF IInv
    <3>7. attempt[b].status = "failed"
      BY <2>2, <2>4, <3>4, <3>5, <3>6 DEF Old
    <3>8. Follows(c, b)
      BY <3>3, <3>4, <3>6, <3>7 DEF Follows, Sibling
    <3> QED BY <3>1, <3>4, <3>8 DEF RetryInv
  <2> QED BY <2>5, <2>6
<1>14. ASSUME NEW b \in Attempt, NEW c \in Attempt, NEW d \in Attempt PROVE ChainInv(b, c, d)'
  <2>1. SUFFICES ASSUME Used(b)', Used(c)', Used(d)', Sibling(b, c)', Sibling(c, d)',
                        attempt'[b].number < attempt'[c].number, attempt'[c].number < attempt'[d].number,
                        attempt'[b].op = attempt'[d].op, attempt'[b].op # NoAttempt
                 PROVE  attempt'[c].op = attempt'[b].op
    BY DEF ChainInv
  <2>2. ASSUME NEW x \in Attempt, NEW y \in Attempt, Used(y)', Sibling(x, y)',
               attempt'[x].number < attempt'[y].number
        PROVE  x # a
    <3>1. SUFFICES ASSUME x = a PROVE FALSE
      OBVIOUS
    <3>2. y # a
      BY <1>4, <1>5, <2>2, <3>1
    <3>3. Same(attempt[y], attempt'[y]) /\ Used(y)
      BY <1>3, <2>2, <3>2 DEF Old
    <3>4. attempt[y].run = r /\ attempt[y].node = n /\ top + 1 < attempt[y].number
      BY <1>4, <2>2, <3>1, <3>3 DEF Sibling, Same
    <3> QED BY <1>5, <3>3, <3>4
  <2>3. b # a /\ c # a
    BY <2>1, <2>2
  <2>4. /\ Same(attempt[b], attempt'[b]) /\ Used(b) /\ Same(attempt[c], attempt'[c]) /\ Used(c)
    BY <1>3, <2>1, <2>3 DEF Old
  <2>5. CASE d # a
    <3>1. Same(attempt[d], attempt'[d]) /\ Used(d) /\ ChainInv(b, c, d)
      BY <1>3, <2>1, <2>5 DEF Old, IInv
    <3>2. Sibling(b, c) /\ Sibling(c, d)
      BY <2>1, <2>4, <3>1 DEF Sibling, Same
    <3> QED BY <2>1, <2>4, <3>1, <3>2 DEF ChainInv, Same
  <2>6. CASE d = a
    <3>1. attempt[b].op = attempt'[a].op /\ attempt'[a].op # NoAttempt
      BY <2>1, <2>4, <2>6 DEF Same
    <3>2. /\ p \in Attempt /\ Used(p) /\ attempt[p].op = attempt[b].op /\ attempt[p].number = top
          /\ attempt[p].run = r /\ attempt[p].node = n
      BY <1>11, <2>3, <2>4, <3>1
    <3>3. Sibling(b, c) /\ attempt[c].run = r /\ attempt[c].node = n /\ attempt[b].number < attempt[c].number
      BY <1>4, <2>1, <2>4, <2>6 DEF Sibling, Same
    <3>4. CASE c = p
      BY <2>4, <3>2, <3>4 DEF Same
    <3>5. CASE c # p
      <4>1. PairInv(c, p) /\ ChainInv(b, c, p)
        BY <3>2 DEF IInv
      <4>2. Sibling(c, p) /\ attempt[c].number # attempt[p].number
        BY <2>4, <3>2, <3>3, <3>5, <4>1 DEF PairInv, Sibling
      <4>3. attempt[c].number < attempt[p].number
        BY <1>5, <2>4, <3>2, <3>3, <4>2
      <4> QED BY <2>4, <3>1, <3>2, <3>3, <4>1, <4>2, <4>3 DEF ChainInv, Same
    <3> QED BY <3>4, <3>5
  <2> QED BY <2>5, <2>6
<1>15. Stays
  <2>1. ASSUME NEW b \in Attempt, attempt[b].status \in Over
        PROVE  attempt'[b].status = attempt[b].status /\ attempt'[b].op = attempt[b].op
    BY <1>1, <1>3, <2>1 DEF Old, Same, Over
  <2> QED BY <2>1 DEF Stays
<1> QED BY <1>8, <1>9, <1>12, <1>13, <1>14, <1>15 DEF AttemptsInv

\* The rows of the run once its current node has its new attempt.
Counted(n, R, N, R2, N2, status) ==
  /\ R2 \in RunRow /\ R2.status # "not_started" /\ R2.current = n /\ R2.revision >= R.revision
  /\ N2 \in [Node -> NodeRow]
  /\ \A x \in Node : N2[x].attempts = IF x = n THEN N[x].attempts + 1 ELSE N[x].attempts
  /\ \A x \in Node : N2[x].status =
       IF x # n THEN N[x].status ELSE IF status = "queued" THEN "in_progress" ELSE "failed"

LEMMA InsertedFocus ==
  ASSUME IInv, InFlowOrder, NEW r \in Run, NEW n \in Node, NEW m, NEW override,
         NEW R, NEW N \in [Node -> NodeRow], NEW A, Carries(A), Focus(r, R, N, A),
         R.current = n, N[n].status = "in_progress", Kind[n] = "internal_action",
         NEW a \in Unused(A), NEW p, p = Latest(N, A, r, n), NEW status \in {"queued", "failed"},
         NEW B, InsertedAs(r, n, N, A, B, m, override, a, p, status),
         NEW R2, NEW N2, Counted(n, R, N, R2, N2, status)
  PROVE  Focus(r, R2, N2, B)
<1>1. \A x \in Node : (N2[x].status \in Open <=> N[x].status \in Open) /\ (x # n => N2[x].status = N[x].status)
  BY DEF Counted, Open
<1>2. Ahead(N2)
  <2>1. SUFFICES ASSUME NEW k \in Node, NEW x \in Node, Kind[k] # "end", N2[k].status \in Open,
                        x > k, Inner(x)
                 PROVE  N2[x].status \in Untouched
    BY DEF Ahead
  <2>2. N[x].status \in Untouched
    BY <1>1, <2>1 DEF Focus, Ahead
  <2> QED BY <1>1, <2>2 DEF Untouched
<1>3. Waits(R2, N2)
  BY DEF Waits, Counted
<1>4. OnIt(r, R2, N2, B)
  <2>1. SUFFICES ASSUME NEW b \in Attempt, B[b].status \in Live, B[b].run = r
                 PROVE  /\ R2.current = B[b].node /\ B[b].number = N2[B[b].node].attempts
                        /\ N2[B[b].node].status \in {"in_progress", "blocked"}
    BY DEF OnIt, OfRun
  <2>2. b = a
    <3>1. SUFFICES ASSUME b # a PROVE FALSE
      OBVIOUS
    <3>2. B[b] = A[b] /\ ~(b = p /\ A[p].status \in Live)
      BY <2>1, <3>1 DEF InsertedAs, Live
    <3>3. A[b].status \in Live /\ A[b].run = r /\ A[b].status # "absent"
      BY <2>1, <3>2 DEF Live
    <3>4. A[b].node = n /\ A[b].number = N[n].attempts
      BY <3>3 DEF Focus, OnIt, OfRun
    <3>5. p # NoAttempt /\ p \in Attempt /\ A[p].status # "absent" /\ A[p].run = r /\ A[p].node = n
            /\ A[p].number = N[n].attempts /\ b # p
      BY <3>2, <3>3, <3>4, LatestIs
    <3>6. Used(b) /\ Used(p) /\ Same(attempt[b], A[b]) /\ Same(attempt[p], A[p]) /\ PairInv(b, p)
      BY <3>3, <3>5 DEF Carries, Used, IInv
    <3> QED BY <3>3, <3>4, <3>5, <3>6 DEF PairInv, Sibling, Same
  <2>3. status = "queued" /\ B[a].node = n /\ B[a].number = N[n].attempts + 1
    BY <2>1, <2>2 DEF InsertedAs, Live
  <2> QED BY <2>2, <2>3 DEF Counted
<1> QED BY <1>2, <1>3, <1>4 DEF Focus

LEMMA Inserting ==
  ASSUME IInv, NEW r \in Run, NEW n \in Node, NEW m \in Decider, NEW override \in BOOLEAN,
         NEW R, NEW N, NEW A, Shaped(r, R, N, A),
         R.current = n, N[n].status = "in_progress", Kind[n] = "internal_action",
         NEW a \in Unused(A), NEW p, p = Latest(N, A, r, n), NEW status \in {"queued", "failed"},
         override /\ p # NoAttempt /\ A[p].op # NoAttempt => Spent(A[p].op),
         NEW R2, NEW N2, Counted(n, R, N, R2, N2, status),
         Write(r, R2, N2, Inserted(r, n, N, A, m, override, a, status)),
         UNCHANGED <<receipts, stage>>, Around, Slots
  PROVE  IInv' /\ Stays /\ Numbers
<1>0. /\ run' = [run EXCEPT ![r] = R2] /\ node' = [node EXCEPT ![r] = N2]
      /\ run \in [Run -> RunRow] /\ node \in [Run -> [Node -> NodeRow]]
      /\ N \in [Node -> NodeRow] /\ Carries(A) /\ A \in [Attempt -> AttemptRow]
      /\ \A x \in Node : N[x].attempts = node[r][x].attempts
  BY DEF Write, IInv, TypeOK, Shaped, Carries
<1>1. InsertedAs(r, n, N, A, attempt', m, override, a, p, status)
  BY <1>0, InsertedRows, SMTT(30) DEF Write
<1>2. AttemptsInv' /\ Stays
  <2>1. node'[r][n].attempts = N[n].attempts + 1
    BY <1>0 DEF Counted
  <2>2. \A q \in Run, x \in Node : q # r \/ x # n => node'[q][x].attempts = node[q][x].attempts
    BY <1>0 DEF Counted
  <2>3. N[n].attempts = node[r][n].attempts
    BY <1>0
  <2> QED BY <1>0, <1>1, <2>1, <2>2, <2>3, InsertedAttempts
<1>3. a \in Attempt /\ A[a].status = "absent"
  BY DEF Unused
<1>4. \A b \in Attempt : b # a =>
        \/ attempt'[b] = A[b]
        \/ A[b].status \in Live /\ Same(A[b], attempt'[b]) /\ attempt'[b].status = "cancelled" /\ ~attempt'[b].live
  BY <1>1 DEF InsertedAs
<1>5. TypeOK'
  <2>1. attempt' \in [Attempt -> AttemptRow] /\ \A b \in Attempt : attempt'[b].live => attempt'[b].status = "running"
    BY <1>0, <1>1, <1>4 DEF InsertedAs, Carries
  <2>2. run' \in [Run -> RunRow] /\ node' \in [Run -> [Node -> NodeRow]]
    BY <1>0 DEF Counted
  <2> QED BY <2>1, <2>2 DEF TypeOK, Around, SlotRow
<1>6. \A w \in Worker : SlotInv(w)'
  <2>1. ASSUME NEW b \in Attempt, Used(b) PROVE Used(b)' /\ Same(attempt[b], attempt'[b])
    <3>1. b # a /\ A[b].status # "absent" /\ Same(attempt[b], A[b])
      BY <1>0, <1>3, <2>1 DEF Carries, Used
    <3> QED BY <1>4, <3>1 DEF Used, Same, Live
  <2> QED BY <2>1, SlotsCarried DEF Proceeds, Spent
<1>7. ASSUME NEW q \in Run PROVE RunInv(q)' /\ \A x \in Node : NodeInv(q, x)'
  <2>1. RunInv(q)'
    BY <1>0 DEF IInv, RunInv, Counted
  <2>2. ASSUME NEW x \in Node PROVE NodeInv(q, x)'
    <3>1. SUFFICES ASSUME node'[q][x].status = "completed", Kind[x] = "internal_action"
                   PROVE  Proved(q, x, node'[q], attempt')
      BY DEF NodeInv
    <3>2. Proved(q, x, node'[q], A)
      <4>1. CASE q = r
        <5>1. x # n /\ N[x].status = "completed" /\ N2[x].attempts = N[x].attempts /\ node'[r] = N2
          BY <1>0, <3>1, <4>1 DEF Counted
        <5> QED BY <3>1, <4>1, <5>1 DEF Shaped, Proved
      <4>2. CASE q # r
        <5>1. NodeInv(q, x) /\ node'[q] = node[q]
          BY <1>0, <4>2 DEF IInv
        <5> QED BY <1>0, <3>1, <5>1, ProvedCarried DEF NodeInv
      <4> QED BY <4>1, <4>2
    <3>3. PICK b \in Attempt : A[b].status = "completed" /\ A[b].run = q /\ A[b].node = x
                                 /\ A[b].number = node'[q][x].attempts
      BY <3>2 DEF Proved
    <3>4. attempt'[b] = A[b]
      BY <1>3, <1>4, <3>3 DEF Live
    <3> QED BY <3>3, <3>4 DEF Proved
  <2> QED BY <2>1, <2>2
<1>8. ASSUME InFlowOrder, NEW q \in Run PROVE Focus(q, run[q], node[q], attempt)'
  <2>1. CASE q = r
    <3>1. Focus(r, R, N, A)
      BY <1>8 DEF Shaped
    <3>2. Focus(r, R2, N2, attempt')
      BY <1>0, <1>1, <1>8, <3>1, InsertedFocus
    <3> QED BY <1>0, <2>1, <3>2
  <2>2. CASE q # r
    <3>1. Focus(q, run[q], node[q], attempt) /\ run'[q] = run[q] /\ node'[q] = node[q] /\ TypeOK
      BY <1>0, <1>8, <2>2 DEF IInv
    <3>2. OnIt(q, run[q], node[q], A)
      BY <1>0, <3>1, OnItCarried DEF Focus
    <3>3. attempt'[a].run = r
      BY <1>1 DEF InsertedAs
    <3>4. OnIt(q, run[q], node[q], attempt')
      BY <1>4, <2>2, <3>2, <3>3 DEF OnIt, OfRun, Live
    <3> QED BY <3>1, <3>4 DEF Focus
  <2> QED BY <2>1, <2>2
<1>9. Numbers
  <2>1. R2.revision > run[r].revision
    BY <1>0 DEF Counted, Shaped, RunRow
  <2> QED BY <1>0, <2>1 DEF Numbers, Shape
<1> QED BY <1>2, <1>5, <1>6, <1>7, <1>8, <1>9 DEF IInv, AttemptsInv
-----------------------------------------------------------------------------
(***************************************************************************)
(* A step that opens the run's current node gives it an attempt, leaves it *)
(* the live one, or fails it with the run.                                 *)
(***************************************************************************)
LEMMA Preparing ==
  ASSUME IInv, NEW r \in Run, NEW n \in Node, NEW m \in Decider, NEW override \in BOOLEAN,
         NEW R, NEW N, NEW A, Shaped(r, R, N, A), NEW sender, sender \subseteq {"api", "scheduler"},
         override /\ Kind[n] = "internal_action" /\ R.current = n =>
           LET p == Latest(N, A, r, n) IN p # NoAttempt /\ A[p].op # NoAttempt => Spent(A[p].op),
         Prepare(m, r, n, R, N, A, override, sender),
         UNCHANGED <<receipts, stage, queue>>, slot' \in [Worker -> SlotRow], Slots
  PROVE  IInv' /\ Stays /\ Numbers
<1> DEFINE p == Latest(N, A, r, n)
           counted == [N EXCEPT ![n].attempts = @ + 1]
<1>0. /\ R \in RunRow /\ N \in [Node -> NodeRow] /\ A \in [Attempt -> AttemptRow]
      /\ intents \subseteq {"api", "scheduler"} \X Attempt /\ faults \in 0..MaxFaults
      /\ receipts \subseteq Attempt /\ stage \in [Attempt -> Stage] /\ queue \in [Attempt -> 0..Backlog]
  BY DEF Shaped, Carries, IInv, TypeOK
<1>1. p # NoAttempt => p \in Attempt
  BY LatestIs
<1>2. intents' \subseteq {"api", "scheduler"} \X Attempt /\ faults' \in 0..MaxFaults => Around
  BY <1>0 DEF Around
<1>3. CASE Write(r, R, N, A) /\ UNCHANGED <<intents, faults>>
  BY <1>0, <1>2, <1>3, Writing
<1>4. CASE /\ p # NoAttempt /\ Write(r, R, N, A)
           /\ intents' = IF A[p].status = "queued" THEN intents \cup {<<s, p>> : s \in sender} ELSE intents
           /\ UNCHANGED faults
  <2>1. intents' \subseteq {"api", "scheduler"} \X Attempt
    BY <1>0, <1>1, <1>4
  <2> QED BY <1>0, <1>2, <1>4, <2>1, Writing
<1>5. ASSUME R.current = n, N[n].status = "in_progress", Kind[n] = "internal_action", R.status = "active",
             NEW a \in Unused(A),
             Write(r, R, counted, Inserted(r, n, N, A, m, override, a, "queued")),
             intents' = intents \cup {<<s, a>> : s \in sender}, UNCHANGED faults
      PROVE  IInv' /\ Stays /\ Numbers
  <2>1. intents' \subseteq {"api", "scheduler"} \X Attempt
    BY <1>0, <1>5 DEF Unused
  <2>2. Counted(n, R, N, R, counted, "queued")
    BY <1>0, <1>5 DEF Counted, NodeRow, RunRow
  <2>3. Around
    BY <1>0, <1>2, <1>5, <2>1
  <2> HIDE DEF counted
  <2> QED BY <1>5, <2>2, <2>3, Inserting
<1>6. ASSUME R.current = n, N[n].status = "in_progress", Kind[n] = "internal_action", R.status = "active",
             NEW a \in Unused(A), Fault("input"),
             Write(r, FailedRun(R), FailedNodes(counted, n), Inserted(r, n, N, A, m, override, a, "failed")),
             UNCHANGED intents
      PROVE  IInv' /\ Stays /\ Numbers
  <2>1. faults' \in 0..MaxFaults
    BY <1>0, <1>6, WorkflowAssumption DEF Fault
  <2>2. Counted(n, R, N, FailedRun(R), FailedNodes(counted, n), "failed")
    <3>1. FailedRun(R) \in RunRow /\ FailedRun(R).status = "failed" /\ FailedRun(R).current = n
            /\ FailedRun(R).revision >= R.revision
      <4>1. R.current \in Node \cup {NoNode} /\ R.revision \in Nat /\ "failed" \in RunStatus
        BY <1>0 DEF RunRow, RunStatus
      <4> QED BY <1>0, <1>6, <4>1, MovedRow DEF FailedRun
    <3>2. /\ counted \in [Node -> NodeRow] /\ "failed" \in NodeStatus
          /\ \A x \in Node : counted[x].attempts = IF x = n THEN N[x].attempts + 1 ELSE N[x].attempts
          /\ \A x \in Node : counted[x].status = N[x].status
      BY <1>0 DEF NodeRow, NodeStatus
    <3> HIDE DEF counted
    <3> QED BY <3>1, <3>2, SetAt DEF Counted, FailedNodes
  <2>3. Around
    BY <1>0, <1>2, <1>6, <2>1
  <2> HIDE DEF counted
  <2> QED BY <1>6, <2>2, <2>3, Inserting
<1> QED BY <1>3, <1>4, <1>5, <1>6 DEF Prepare
-----------------------------------------------------------------------------
(***************************************************************************)
(* The attempts that the steps write.                                      *)
(***************************************************************************)
LEMMA Unmoved == ASSUME IInv PROVE Carries(attempt)
BY DEF Carries, Same, IInv, TypeOK

LEMMA CarriesOne ==
  ASSUME IInv, NEW a \in Attempt, Used(a), NEW y \in AttemptRow, Same(attempt[a], y), y.status # "absent",
         attempt[a].status \in Over => y.status = attempt[a].status,
         y.live => y.status = "running",
         y.status \in Live => attempt[a].status \in Live,
         y.delegated => attempt[a].delegated \/ attempt[a].node \in Delegates,
         y.status = "completed" => attempt[a].status = "completed" \/ Verified(attempt[a]),
         y.status = "failed" =>
           \/ attempt[a].status = "failed"
           \/ attempt[a].number = node[attempt[a].run][attempt[a].node].attempts
  PROVE  Carries([attempt EXCEPT ![a] = y])
BY Unmoved DEF Carries, Used

LEMMA CancelledCarries ==
  ASSUME IInv, NEW r \in Run
  PROVE  Carries(Cancelled(attempt, r)) /\ \A b \in OfRun(Cancelled(attempt, r), r) : Cancelled(attempt, r)[b].status \notin Live
<1> DEFINE A == Cancelled(attempt, r)
<1>1. ASSUME NEW b \in Attempt
      PROVE  \/ /\ A[b] = attempt[b] /\ (attempt[b].run # r \/ attempt[b].status \notin Live)
             \/ /\ A[b] \in AttemptRow /\ Same(attempt[b], A[b]) /\ A[b].status = "cancelled"
                /\ ~A[b].live /\ ~A[b].delegated /\ attempt[b].status \in Live
  <2>1. attempt[b] \in AttemptRow
    BY RowTypes DEF IInv
  <2>2. CASE b \in OfRun(attempt, r) /\ attempt[b].status \in Live
    <3>1. A[b] = EndedAs(attempt[b], "cancelled")
      BY <2>2 DEF Cancelled
    <3> HIDE DEF A
    <3> QED BY <2>1, <2>2, <3>1, EndedRow
  <2>3. CASE ~(b \in OfRun(attempt, r) /\ attempt[b].status \in Live)
    <3>1. A[b] = attempt[b]
      BY <2>3 DEF Cancelled
    <3> QED BY <2>3, <3>1 DEF OfRun, Live
  <2> QED BY <2>2, <2>3
<1>2. A \in [Attempt -> AttemptRow]
  <2>1. A = [b \in Attempt |-> A[b]]
    BY DEF Cancelled
  <2>2. \A b \in Attempt : attempt[b] \in AttemptRow
    BY RowTypes DEF IInv
  <2> HIDE DEF A
  <2> QED BY <1>1, <2>1, <2>2
<1>3. Carries(attempt)
  BY Unmoved
<1> HIDE DEF A
<1>4. Carries(A)
  BY <1>1, <1>2, <1>3 DEF Carries, Live, Over
<1>5. \A b \in OfRun(A, r) : A[b].status \notin Live
  BY <1>1 DEF OfRun, Live, Same
<1> QED BY <1>4, <1>5 DEF A

LEMMA PausedCarries ==
  ASSUME IInv, NEW r \in Run
  PROVE  Carries(Paused(attempt, r))
<1> DEFINE A == Paused(attempt, r)
<1>1. ASSUME NEW b \in Attempt
      PROVE  \/ A[b] = attempt[b]
             \/ /\ A[b] \in AttemptRow /\ Same(attempt[b], A[b]) /\ A[b].status = "queued"
                /\ ~A[b].live /\ A[b].delegated = attempt[b].delegated /\ attempt[b].status \in Live
  <2>1. attempt[b] \in AttemptRow
    BY RowTypes DEF IInv
  <2>2. CASE b \in OfRun(attempt, r) /\ attempt[b].status \in Live
    <3>1. A[b] = [attempt[b] EXCEPT !.status = "queued", !.token = NoWorker, !.live = FALSE, !.throttled = FALSE]
      BY <2>2 DEF Paused
    <3>2. A[b] \in AttemptRow
      BY <2>1, <3>1 DEF AttemptRow, Live
    <3>3. Same(attempt[b], A[b]) /\ A[b].status = "queued" /\ ~A[b].live /\ A[b].delegated = attempt[b].delegated
      BY <2>1, <3>1 DEF AttemptRow, Same
    <3> QED BY <2>2, <3>2, <3>3
  <2>3. CASE ~(b \in OfRun(attempt, r) /\ attempt[b].status \in Live)
    BY <2>3 DEF Paused
  <2> QED BY <2>2, <2>3
<1>2. A \in [Attempt -> AttemptRow]
  <2>1. A = [b \in Attempt |-> A[b]]
    BY DEF Paused
  <2>2. \A b \in Attempt : attempt[b] \in AttemptRow
    BY RowTypes DEF IInv
  <2> HIDE DEF A
  <2> QED BY <1>1, <2>1, <2>2
<1>3. Carries(attempt)
  BY Unmoved
<1> HIDE DEF A
<1>4. Carries(A)
  BY <1>1, <1>2, <1>3 DEF Carries, Live, Over
<1> QED BY <1>4 DEF A

\* An attempt that is current ends with its node.
LEMMA EndedCarries ==
  ASSUME IInv, NEW a \in Attempt, IsCurrent(a), attempt[a].status \in Live,
         NEW s \in {"failed", "completed"}, s = "completed" => Verified(attempt[a])
  PROVE  LET A == [attempt EXCEPT ![a] = EndedAs(@, s)] IN
         Carries(A) /\ A[a].status = s /\ Same(attempt[a], A[a])
           /\ (InFlowOrder => \A b \in OfRun(A, attempt[a].run) : A[b].status \notin Live)
<1> DEFINE y == EndedAs(attempt[a], s)
           A == [attempt EXCEPT ![a] = y]
<1>1. attempt[a] \in AttemptRow /\ attempt \in [Attempt -> AttemptRow]
  BY RowTypes DEF IInv, TypeOK
<1>2. y \in AttemptRow /\ Same(attempt[a], y) /\ y.status = s /\ ~y.live /\ ~y.delegated
  BY <1>1, EndedRow
<1>3. Used(a) /\ attempt[a].status \notin Over
  BY DEF Used, Live, Over
<1>4. attempt[a].number = node[attempt[a].run][attempt[a].node].attempts
      /\ run[attempt[a].run].current = attempt[a].node
  BY DEF IsCurrent
<1> HIDE DEF y
<1>5. Carries(A)
  BY <1>2, <1>3, <1>4, CarriesOne DEF Live
<1>6. A[a] = y /\ \A b \in Attempt \ {a} : A[b] = attempt[b]
  BY <1>1
<1>7. ASSUME InFlowOrder, NEW b \in OfRun(A, attempt[a].run) PROVE A[b].status \notin Live
  <2>1. SUFFICES ASSUME A[b].status \in Live, b # a PROVE FALSE
    BY <1>2, <1>6 DEF Live
  <2>2. b \in Attempt /\ attempt[b].status \in Live /\ attempt[b].run = attempt[a].run /\ Used(b)
          /\ b \in OfRun(attempt, attempt[a].run)
    BY <1>6, <1>7, <2>1 DEF OfRun, Used, Live
  <2>3. attempt[a].run \in Run
    BY RowTypes DEF IInv
  <2>4. attempt[b].node = attempt[a].node /\ attempt[b].number = attempt[a].number
    BY <1>4, <1>7, <2>2, <2>3 DEF IInv, Focus, OnIt
  <2>5. PairInv(a, b)
    BY <2>2 DEF IInv
  <2> QED BY <1>3, <2>1, <2>2, <2>4, <2>5 DEF PairInv, Sibling
<1> QED BY <1>2, <1>5, <1>6, <1>7 DEF y
-----------------------------------------------------------------------------
(***************************************************************************)
(* The rows that the commands write.                                       *)
(***************************************************************************)
LEMMA ShapedIf ==
  ASSUME IInv, NEW r \in Run, NEW s \in RunStatus \ {"not_started"}, NEW c \in Node \cup {NoNode},
         NEW N \in [Node -> NodeRow], NEW A, Carries(A),
         \A x \in Node : N[x].attempts = node[r][x].attempts,
         \A x \in Node : N[x].status = "completed" /\ Kind[x] = "internal_action" =>
           node[r][x].status = "completed" \/ Proved(r, x, N, A),
         InFlowOrder => \A R : R.current = c => Focus(r, R, N, A)
  PROVE  Shaped(r, Moved(run[r], s, c), N, A)
<1>1. run[r] \in RunRow
  BY DEF IInv, TypeOK
<1>2. LET M == Moved(run[r], s, c) IN
      M \in RunRow /\ M.status = s /\ M.current = c /\ M.revision > run[r].revision
  BY <1>1, MovedRow
<1>3. ASSUME NEW x \in Node, N[x].status = "completed", Kind[x] = "internal_action"
      PROVE  Proved(r, x, N, A)
  <2>1. CASE node[r][x].status = "completed"
    <3>1. Proved(r, x, node[r], attempt)
      BY <1>3, <2>1 DEF IInv, NodeInv
    <3>2. Proved(r, x, node[r], A)
      BY <3>1, ProvedCarried
    <3> QED BY <3>2 DEF Proved
  <2> QED BY <1>3, <2>1
<1> QED BY <1>2, <1>3 DEF Shaped

\* Nothing of the run is live while no node that is executed is open.
LEMMA NoneLive ==
  ASSUME IInv, InFlowOrder, NEW r \in Run,
         \A x \in Node : Kind[x] = "internal_action" => node[r][x].status \notin {"in_progress", "blocked"}
  PROVE  \A b \in OfRun(attempt, r) : attempt[b].status \notin Live
<1>1. SUFFICES ASSUME NEW b \in OfRun(attempt, r), attempt[b].status \in Live PROVE FALSE
  OBVIOUS
<1>2. b \in Attempt /\ AttemptInv(b) /\ attempt[b].node \in Node
  BY <1>1, RowTypes DEF OfRun, IInv
<1>3. node[r][attempt[b].node].status \in {"in_progress", "blocked"}
  BY <1>1 DEF IInv, Focus, OnIt
<1>4. Kind[attempt[b].node] = "internal_action"
  BY <1>1, <1>2 DEF AttemptInv, Live
<1> QED BY <1>2, <1>3, <1>4

LEMMA OpenStays ==
  ASSUME NEW r, NEW R, NEW N \in [Node -> NodeRow], NEW A \in [Attempt -> AttemptRow], NEW n \in Node, NEW R2,
         N[n].status \in Open, NEW s \in {"in_progress", "blocked"}, R2.current = R.current,
         Focus(r, R, N, A)
  PROVE  Focus(r, R2, SetNode(N, n, s), A)
<1> DEFINE M == SetNode(N, n, s)
<1>1. /\ \A x \in Node : M[x].attempts = N[x].attempts
      /\ \A x \in Node : M[x].status = IF x = n THEN s ELSE N[x].status
  <2>1. s \in NodeStatus
    BY DEF NodeStatus
  <2> QED BY <2>1, SetAt
<1> HIDE DEF M
<1>2. \A x \in Node : (M[x].status \in Open <=> N[x].status \in Open)
                        /\ (M[x].status \in Untouched <=> N[x].status \in Untouched)
                        /\ (M[x].status = "not_started" <=> N[x].status = "not_started")
  BY <1>1 DEF Open, Untouched
<1>3. Ahead(M) /\ Waits(R2, M)
  BY <1>2 DEF Focus, Ahead, Waits
<1>4. OnIt(r, R2, M, A)
  <2>1. SUFFICES ASSUME NEW b \in OfRun(A, r), A[b].status \in Live
                 PROVE  /\ R2.current = A[b].node /\ A[b].number = M[A[b].node].attempts
                        /\ M[A[b].node].status \in {"in_progress", "blocked"}
    BY DEF OnIt
  <2>2. R.current = A[b].node /\ A[b].number = N[A[b].node].attempts
          /\ N[A[b].node].status \in {"in_progress", "blocked"}
    BY <2>1 DEF Focus, OnIt
  <2>3. A[b].node \in Node
    BY <2>1 DEF OfRun, AttemptRow
  <2> QED BY <1>1, <2>2, <2>3
<1> QED BY <1>3, <1>4 DEF Focus, M
-----------------------------------------------------------------------------
(***************************************************************************)
(* Each step keeps the invariant: the commands.                            *)
(***************************************************************************)
LEMMA Commanding ==
  ASSUME IInv, NEW m \in Member, NEW r \in Run, NEW n \in Node, NEW override \in BOOLEAN,
         NEW R, NEW N, NEW A, Shaped(r, R, N, A), Prepare(m, r, n, R, N, A, override, Api), Unchanged,
         override /\ Kind[n] = "internal_action" /\ R.current = n =>
           LET p == Latest(N, A, r, n) IN p # NoAttempt /\ A[p].op # NoAttempt => Spent(A[p].op)
  PROVE  IInv' /\ Stays /\ Numbers
<1>1. UNCHANGED <<receipts, stage, queue>> /\ slot' \in [Worker -> SlotRow] /\ Slots
  BY DEF Unchanged, IInv, TypeOK, SlotRow, Slots
<1>2. Api \subseteq {"api", "scheduler"} /\ m \in Decider
  BY DEF Api, Decider
<1> HIDE DEF Api
<1> QED BY <1>1, <1>2, Preparing

LEMMA DecidesRow ==
  ASSUME IInv, NEW r \in Run
  PROVE  /\ run[r] \in RunRow /\ run[r].current \in Node \cup {NoNode} /\ run[r].revision \in Nat
         /\ node[r] \in [Node -> NodeRow] /\ attempt \in [Attempt -> AttemptRow]
         /\ {"active", "blocked", "failed", "completed", "cancelled"} \subseteq RunStatus \ {"not_started"}
         /\ {"not_started", "in_progress", "blocked", "failed", "cancelled"} \subseteq NodeStatus
BY DEF IInv, TypeOK, RunRow, RunStatus, NodeStatus

LEMMA StartStep ==
  ASSUME IInv, NEW m \in Member, NEW r \in Run, Start(m, r)
  PROVE  IInv' /\ Stays /\ Numbers
<1>1. PICK first \in Succ[1] :
        Prepare(m, r, first, Advanced(NoRun, first), CompletedNodes(NoRows, 1, first), attempt, FALSE, Api)
  BY DEF Start
<1>2. first \in Node /\ 1 \in Node /\ Kind[1] = "start"
  BY <1>1, WorkflowAssumption, Graph
<1>3. run[r] = NoRun /\ node[r] = NoRows /\ Unchanged
  BY DEF Start, IInv, RunInv, NoRun
<1> DEFINE N == CompletedNodes(node[r], 1, first)
<1>4. /\ N \in [Node -> NodeRow]
      /\ \A x \in Node : N[x].attempts = node[r][x].attempts
      /\ \A x \in Node : N[x].status =
           IF x = first THEN (IF Kind[first] = "end" THEN "completed" ELSE "in_progress")
           ELSE IF x = 1 THEN "completed"
           ELSE IF x \in Succ[1] THEN "skipped" ELSE "not_started"
  <2>1. /\ N \in [Node -> NodeRow]
        /\ \A x \in Node : N[x].attempts = node[r][x].attempts
        /\ \A x \in Node : N[x].status =
             IF x = first THEN (IF Kind[first] = "end" THEN "completed" ELSE "in_progress")
             ELSE IF x = 1 THEN "completed"
             ELSE IF x \in Succ[1] THEN "skipped" ELSE node[r][x].status
    BY <1>2, CompletedAt, DecidesRow
  <2>2. \A x \in Node : node[r][x].status = "not_started"
    BY <1>3 DEF NoRows
  <2> HIDE DEF N
  <2> QED BY <2>1, <2>2
<1>5. \A b \in OfRun(attempt, r) : FALSE
  <2>1. SUFFICES ASSUME NEW b \in Attempt, Used(b), attempt[b].run = r PROVE FALSE
    BY DEF OfRun, Used
  <2>2. AttemptInv(b) /\ attempt[b].node \in Node /\ attempt[b].number \in Nat
    BY RowTypes DEF IInv
  <2>3. node[r][attempt[b].node].attempts = 0
    BY <1>3, <2>2 DEF NoRows
  <2> QED BY <2>1, <2>2, <2>3 DEF AttemptInv, Used
<1> HIDE DEF N
<1>6. ASSUME NEW R, R.current = (IF Kind[first] = "end" THEN NoNode ELSE first)
      PROVE  Focus(r, R, N, attempt)
  <2>1. Ahead(N)
    BY <1>2, <1>4, Graph DEF Ahead, Open, Untouched, Inner
  <2>2. Waits(R, N)
    BY <1>4, <1>6, Graph DEF Waits
  <2>3. OnIt(r, R, N, attempt)
    BY <1>5 DEF OnIt
  <2> QED BY <2>1, <2>2, <2>3 DEF Focus
<1>7. Shaped(r, Advanced(run[r], first), N, attempt)
  <2>1. Carries(attempt)
    BY Unmoved
  <2>2. \A x \in Node : N[x].status = "completed" /\ Kind[x] = "internal_action" => node[r][x].status = "completed"
    BY <1>2, <1>4
  <2>3. CASE Kind[first] = "end"
    <3>1. Shaped(r, Moved(run[r], "completed", NoNode), N, attempt)
      BY <1>4, <1>6, <2>1, <2>2, <2>3, ShapedIf, DecidesRow
    <3> QED BY <2>3, <3>1 DEF Advanced
  <2>4. CASE Kind[first] # "end"
    <3>1. Shaped(r, Moved(run[r], "active", first), N, attempt)
      BY <1>2, <1>4, <1>6, <2>1, <2>2, <2>4, ShapedIf, DecidesRow
    <3> QED BY <2>4, <3>1 DEF Advanced
  <2> QED BY <2>3, <2>4
<1>8. Prepare(m, r, first, Advanced(run[r], first), N, attempt, FALSE, Api)
  BY <1>1, <1>3 DEF N
<1> QED BY <1>2, <1>3, <1>7, <1>8, Commanding

\* A completed node hands over to the next one.
LEMMA HandsOver ==
  ASSUME IInv, NEW r \in Run, NEW n \in Node, NEW next \in Succ[n], node[r][n].status = "in_progress",
         NEW A, Carries(A),
         Kind[n] = "internal_action" => Proved(r, n, node[r], A),
         InFlowOrder => \A b \in OfRun(A, r) : A[b].status \notin Live
  PROVE  next \in Node /\ Shaped(r, Advanced(run[r], next), CompletedNodes(node[r], n, next), A)
<1> DEFINE N == CompletedNodes(node[r], n, next)
<1>1. next \in Node
  BY Graph
<1>2. /\ N \in [Node -> NodeRow]
      /\ \A x \in Node : N[x].attempts = node[r][x].attempts
      /\ \A x \in Node : N[x].status =
           IF x = next THEN (IF Kind[next] = "end" THEN "completed" ELSE "in_progress")
           ELSE IF x = n THEN "completed"
           ELSE IF x \in Succ[n] THEN "skipped" ELSE node[r][x].status
  BY <1>1, CompletedAt, DecidesRow
<1>3. ASSUME InFlowOrder PROVE Ahead(N)
  BY <1>3, CompletedAhead, DecidesRow DEF IInv, Focus
<1> HIDE DEF N
<1>4. ASSUME InFlowOrder, NEW R, R.current = (IF Kind[next] = "end" THEN NoNode ELSE next)
      PROVE  Focus(r, R, N, A)
  <2>1. Waits(R, N)
    BY <1>2, <1>4, Graph DEF Waits
  <2>2. OnIt(r, R, N, A)
    BY <1>4 DEF OnIt
  <2> QED BY <1>3, <1>4, <2>1, <2>2 DEF Focus
<1>5. ASSUME NEW x \in Node, N[x].status = "completed", Kind[x] = "internal_action"
      PROVE  node[r][x].status = "completed" \/ Proved(r, x, N, A)
  <2>1. CASE x = n
    BY <1>2, <1>5, <2>1 DEF Proved
  <2>2. CASE x # n
    BY <1>2, <1>5, <2>2
  <2> QED BY <2>1, <2>2
<1>6. CASE Kind[next] = "end"
  <2>1. Shaped(r, Moved(run[r], "completed", NoNode), N, A)
    BY <1>2, <1>4, <1>5, <1>6, ShapedIf, DecidesRow
  <2> QED BY <1>1, <1>6, <2>1 DEF Advanced, N
<1>7. CASE Kind[next] # "end"
  <2>1. Shaped(r, Moved(run[r], "active", next), N, A)
    BY <1>1, <1>2, <1>4, <1>5, <1>7, ShapedIf, DecidesRow
  <2> QED BY <1>1, <1>7, <2>1 DEF Advanced, N
<1> QED BY <1>6, <1>7

LEMMA CompleteStep ==
  ASSUME IInv, NEW m \in Member, NEW r \in Run, NEW n \in Node, Complete(m, r, n)
  PROVE  IInv' /\ Stays /\ Numbers
<1>1. PICK next \in Succ[n] :
        Prepare(m, r, next, Advanced(run[r], next), CompletedNodes(node[r], n, next), attempt, FALSE, Api)
  BY DEF Complete
<1>2. node[r][n].status = "in_progress" /\ Kind[n] # "internal_action" /\ Unchanged
  BY DEF Complete
<1>3. ASSUME InFlowOrder PROVE \A b \in OfRun(attempt, r) : attempt[b].status \notin Live
  <2>1. Kind[n] # "end" /\ Ahead(node[r]) /\ node[r] \in [Node -> NodeRow]
    BY <1>1, <1>3, WorkflowAssumption, DecidesRow DEF IInv, Focus
  <2>2. \A x \in Node : Kind[x] = "internal_action" => node[r][x].status \notin {"in_progress", "blocked"}
    BY <1>2, <2>1, OneOpen DEF Open
  <2> QED BY <1>3, <2>2, NoneLive
<1>4. next \in Node /\ Shaped(r, Advanced(run[r], next), CompletedNodes(node[r], n, next), attempt)
  BY <1>2, <1>3, HandsOver, Unmoved
<1> QED BY <1>1, <1>2, <1>4, Commanding

LEMMA StartNodeStep ==
  ASSUME IInv, NEW m \in Member, NEW r \in Run, NEW n \in Node, StartNode(m, r, n)
  PROVE  IInv' /\ Stays /\ Numbers
<1> DEFINE N == SetNode(node[r], n, "in_progress")
<1>1. node[r][n].status = "not_started" /\ run[r].current = n /\ Unchanged
  BY DEF StartNode
<1>2. /\ N \in [Node -> NodeRow]
      /\ \A x \in Node : N[x].attempts = node[r][x].attempts
      /\ \A x \in Node : N[x].status = IF x = n THEN "in_progress" ELSE node[r][x].status
  BY SetAt, DecidesRow
<1> HIDE DEF N
<1>3. ASSUME InFlowOrder, NEW R, R.current = n PROVE Focus(r, R, N, attempt)
  <2>1. /\ \A x \in Node : Kind[x] # "end" => node[r][x].status \notin Open
        /\ \A x \in Node : x > n /\ Inner(x) => node[r][x].status \in Untouched
    BY <1>1, <1>3 DEF IInv, Focus, Waits
  <2>2. Ahead(N)
    BY <1>2, <2>1, Graph DEF Ahead, Untouched
  <2>3. Waits(R, N)
    BY <1>2, <1>3 DEF Waits
  <2>4. \A b \in OfRun(attempt, r) : attempt[b].status \notin Live
    BY <1>3, <2>1, NoneLive DEF Open
  <2> QED BY <2>2, <2>3, <2>4 DEF Focus, OnIt
<1>4. Shaped(r, Moved(run[r], "active", n), N, attempt)
  <2>1. \A x \in Node : N[x].status = "completed" => node[r][x].status = "completed"
    BY <1>2
  <2> QED BY <1>2, <1>3, <2>1, ShapedIf, DecidesRow, Unmoved
<1>5. Prepare(m, r, n, Moved(run[r], "active", n), N, attempt, FALSE, Api)
  BY DEF StartNode, N
<1> QED BY <1>1, <1>4, <1>5, Commanding

LEMMA OpenShaped ==
  ASSUME IInv, NEW r \in Run, NEW n \in Node, node[r][n].status \in Open,
         NEW s \in RunStatus \ {"not_started"}, NEW t \in {"in_progress", "blocked"},
         NEW A, Carries(A)
  PROVE  Shaped(r, Moved(run[r], s, run[r].current), SetNode(node[r], n, t), A)
<1> DEFINE N == SetNode(node[r], n, t)
<1>1. t \in NodeStatus
  BY DEF NodeStatus
<1>2. /\ N \in [Node -> NodeRow]
      /\ \A x \in Node : N[x].attempts = node[r][x].attempts
      /\ \A x \in Node : N[x].status = IF x = n THEN t ELSE node[r][x].status
  BY <1>1, SetAt, DecidesRow
<1>3. ASSUME InFlowOrder, NEW R, R.current = run[r].current PROVE Focus(r, R, N, A)
  <2>1. Focus(r, run[r], node[r], attempt) /\ TypeOK
    BY <1>3 DEF IInv
  <2>2. OnIt(r, run[r], node[r], A)
    BY <2>1, OnItCarried DEF Focus
  <2>3. Focus(r, run[r], node[r], A)
    BY <2>1, <2>2 DEF Focus
  <2>4. A \in [Attempt -> AttemptRow]
    BY DEF Carries
  <2> QED BY <1>3, <2>3, <2>4, OpenStays, DecidesRow
<1> HIDE DEF N
<1>4. \A x \in Node : N[x].status = "completed" => node[r][x].status = "completed"
  BY <1>2
<1>5. Shaped(r, Moved(run[r], s, run[r].current), N, A)
  BY <1>2, <1>3, <1>4, ShapedIf, DecidesRow
<1> QED BY <1>5 DEF N

LEMMA Still ==
  ASSUME IInv, UNCHANGED <<receipts, stage, queue, slot>>,
         intents' \subseteq {"api", "scheduler"} \X Attempt, faults' \in 0..MaxFaults
  PROVE  Around /\ Slots
BY DEF IInv, TypeOK, Around, Slots, SlotRow

LEMMA BlockStep ==
  ASSUME IInv, NEW m \in Member, NEW r \in Run, NEW n \in Node, Block(m, r, n)
  PROVE  IInv' /\ Stays /\ Numbers
<1>1. node[r][n].status \in Open /\ UNCHANGED <<intents, faults>>
        /\ Write(r, Moved(run[r], "blocked", run[r].current), SetNode(node[r], n, "blocked"), Paused(attempt, r))
        /\ UNCHANGED <<receipts, stage, queue, slot>>
  BY DEF Block, Open, Unchanged
<1>2. Shaped(r, Moved(run[r], "blocked", run[r].current), SetNode(node[r], n, "blocked"), Paused(attempt, r))
  BY <1>1, OpenShaped, PausedCarries, DecidesRow
<1>3. Around /\ Slots
  BY <1>1, Still DEF IInv, TypeOK
<1> QED BY <1>1, <1>2, <1>3, Writing

LEMMA UnblockStep ==
  ASSUME IInv, NEW m \in Member, NEW r \in Run, NEW n \in Node, Unblock(m, r, n)
  PROVE  IInv' /\ Stays /\ Numbers
<1>1. node[r][n].status \in Open /\ Unchanged
        /\ Prepare(m, r, n, Moved(run[r], "active", run[r].current), SetNode(node[r], n, "in_progress"),
                   attempt, FALSE, Api)
  BY DEF Unblock, Open
<1>2. Shaped(r, Moved(run[r], "active", run[r].current), SetNode(node[r], n, "in_progress"), attempt)
  BY <1>1, OpenShaped, Unmoved, DecidesRow
<1> QED BY <1>1, <1>2, Commanding

LEMMA RetryStep ==
  ASSUME IInv, NEW m \in Member, NEW r \in Run, NEW n \in Node, NEW override \in BOOLEAN,
         Retry(m, r, n, override)
  PROVE  IInv' /\ Stays /\ Numbers
<1> DEFINE R == Moved(run[r], "active", run[r].current)
           N == SetNode(node[r], n, "in_progress")
           p == Latest(N, attempt, r, n)
<1>1. /\ node[r][n].status \in Open /\ Unchanged
      /\ override /\ run[r].current = n => ReconfigurationSafe(r, n)
      /\ Prepare(m, r, n, R, N, attempt, override, Api)
  BY DEF Retry, Open
<1>2. Shaped(r, R, N, attempt)
  BY <1>1, OpenShaped, Unmoved, DecidesRow
<1>3. p = Latest(node[r], attempt, r, n)
  <2>1. N[n].attempts = node[r][n].attempts
    BY SetAt, DecidesRow
  <2> HIDE DEF N
  <2> QED BY <2>1 DEF Latest
<1>4. R.current = run[r].current
  BY MovedRow, DecidesRow
<1>5. ASSUME override, R.current = n, p # NoAttempt, attempt[p].op # NoAttempt
      PROVE  Spent(attempt[p].op)
  <2>1. p \in Attempt /\ Used(p) /\ attempt[p].node = n
    BY <1>3, <1>5, LatestIs DEF Used
  <2>2. /\ attempt[p].op \in Attempt /\ attempt[attempt[p].op].node = n
        /\ stage[attempt[p].op] \in Stage
    <3>1. AttemptInv(p) /\ attempt[p].op \in Attempt \cup {NoAttempt}
      BY <2>1, RowTypes DEF IInv
    <3> QED BY <1>5, <2>1, <3>1 DEF AttemptInv, Used, IInv, TypeOK
  <2>3. CASE n \in Delegates
    BY <1>1, <1>3, <1>4, <1>5, <2>2, <2>3 DEF ReconfigurationSafe, PodRunning, Spent, Stage
  <2>4. CASE n \notin Delegates
    <3>1. StageInv(attempt[p].op)
      BY <2>2 DEF IInv
    <3> QED BY <2>2, <2>4, <3>1 DEF StageInv, Spent
  <2> QED BY <2>3, <2>4
<1> HIDE DEF R, N, p
<1>6. override /\ Kind[n] = "internal_action" /\ R.current = n =>
        LET q == Latest(N, attempt, r, n) IN q # NoAttempt /\ attempt[q].op # NoAttempt => Spent(attempt[q].op)
  BY <1>5 DEF p
<1> QED BY <1>1, <1>2, <1>6, Commanding

LEMMA CancelStep ==
  ASSUME IInv, NEW m \in Member, NEW r \in Run, NEW n \in Node, Cancel(m, r, n)
  PROVE  IInv' /\ Stays /\ Numbers
<1> DEFINE N == SetNode(node[r], n, "cancelled")
           A == Cancelled(attempt, r)
<1>1. Write(r, Moved(run[r], "cancelled", NoNode), N, A)
        /\ UNCHANGED <<intents, faults>> /\ UNCHANGED <<receipts, stage, queue, slot>>
  BY DEF Cancel, Unchanged
<1>2. /\ N \in [Node -> NodeRow]
      /\ \A x \in Node : N[x].attempts = node[r][x].attempts
      /\ \A x \in Node : N[x].status = IF x = n THEN "cancelled" ELSE node[r][x].status
  BY SetAt, DecidesRow
<1>3. Carries(A) /\ \A b \in OfRun(A, r) : A[b].status \notin Live
  BY CancelledCarries
<1> HIDE DEF N, A
<1>4. ASSUME InFlowOrder, NEW R, R.current = NoNode PROVE Focus(r, R, N, A)
  <2>1. Ahead(node[r])
    BY <1>4 DEF IInv, Focus
  <2>2. Ahead(N)
    BY <1>2, <2>1 DEF Ahead, Open, Untouched
  <2>3. Waits(R, N)
    BY <1>4, Graph DEF Waits
  <2> QED BY <1>3, <2>2, <2>3 DEF Focus, OnIt
<1>5. Shaped(r, Moved(run[r], "cancelled", NoNode), N, A)
  <2>1. \A x \in Node : N[x].status = "completed" => node[r][x].status = "completed"
    BY <1>2
  <2> QED BY <1>2, <1>3, <1>4, <2>1, ShapedIf, DecidesRow
<1>6. Around /\ Slots
  BY <1>1, Still DEF IInv, TypeOK
<1> QED BY <1>1, <1>5, <1>6, Writing

LEMMA ReopenStep ==
  ASSUME IInv, NEW m \in Member, NEW r \in Run, NEW n \in Node, Reopen(m, r, n)
  PROVE  IInv' /\ Stays /\ Numbers
<1> DEFINE N == ReopenedNodes(node[r], n)
           A == Cancelled(attempt, r)
<1>1. node[r][n].status = "completed" /\ Unchanged
        /\ Prepare(m, r, n, Moved(run[r], "active", n), N, A, FALSE, Api)
  BY DEF Reopen
<1>2. /\ N \in [Node -> NodeRow]
      /\ \A x \in Node : N[x].attempts = node[r][x].attempts
      /\ \A x \in Node : N[x].status =
           IF x = n THEN "in_progress" ELSE IF x > n /\ Inner(x) THEN "not_started" ELSE node[r][x].status
  BY ReopenedAt, DecidesRow
<1>3. Carries(A) /\ \A b \in OfRun(A, r) : A[b].status \notin Live
  BY CancelledCarries
<1>4. ASSUME InFlowOrder PROVE Ahead(N)
  BY <1>1, <1>4, ReopenedAhead, DecidesRow DEF IInv, Focus
<1> HIDE DEF N, A
<1>5. ASSUME InFlowOrder, NEW R, R.current = n PROVE Focus(r, R, N, A)
  <2>1. Waits(R, N)
    BY <1>2, <1>5 DEF Waits
  <2> QED BY <1>3, <1>4, <1>5, <2>1 DEF Focus, OnIt
<1>6. Shaped(r, Moved(run[r], "active", n), N, A)
  <2>1. \A x \in Node : N[x].status = "completed" => node[r][x].status = "completed"
    BY <1>2
  <2> QED BY <1>2, <1>3, <1>5, <2>1, ShapedIf, DecidesRow
<1> QED BY <1>1, <1>6, Commanding

LEMMA RejectStep ==
  ASSUME IInv, NEW m \in Member, NEW r \in Run, NEW n \in Node, NEW target \in Node, Reject(m, r, n, target)
  PROVE  IInv' /\ Stays /\ Numbers
<1> DEFINE N == SetNode(ReopenedNodes(node[r], target), n, "not_started")
           A == Cancelled(attempt, r)
<1>1. node[r][n].status = "in_progress" /\ Kind[n] = "approval_gate" /\ Unchanged
        /\ Prepare(m, r, target, Moved(run[r], "active", target), N, A, FALSE, Api)
  BY DEF Reject
<1>2. /\ N \in [Node -> NodeRow]
      /\ \A x \in Node : N[x].attempts = node[r][x].attempts
      /\ \A x \in Node : N[x].status = "completed" => node[r][x].status = "completed"
  <2>1. /\ ReopenedNodes(node[r], target) \in [Node -> NodeRow]
        /\ \A x \in Node : ReopenedNodes(node[r], target)[x].attempts = node[r][x].attempts
        /\ \A x \in Node : ReopenedNodes(node[r], target)[x].status =
             IF x = target THEN "in_progress" ELSE IF x > target /\ Inner(x) THEN "not_started" ELSE node[r][x].status
    BY ReopenedAt, DecidesRow
  <2> DEFINE M == ReopenedNodes(node[r], target)
  <2>2. M \in [Node -> NodeRow] /\ "not_started" \in NodeStatus
    BY <2>1, DecidesRow
  <2> HIDE DEF M
  <2>3. /\ SetNode(M, n, "not_started") \in [Node -> NodeRow]
        /\ \A x \in Node : SetNode(M, n, "not_started")[x].attempts = M[x].attempts
        /\ \A x \in Node : SetNode(M, n, "not_started")[x].status =
             IF x = n THEN "not_started" ELSE M[x].status
    BY <2>2, SetAt
  <2> DEFINE L == SetNode(M, n, "not_started")
  <2>4. N = L
    BY DEF M
  <2> HIDE DEF L, N
  <2>5. /\ \A x \in Node : M[x].attempts = node[r][x].attempts
        /\ \A x \in Node : M[x].status =
             IF x = target THEN "in_progress" ELSE IF x > target /\ Inner(x) THEN "not_started" ELSE node[r][x].status
    BY <2>1 DEF M
  <2> QED BY <2>3, <2>4, <2>5 DEF L
<1>3. Carries(A) /\ \A b \in OfRun(A, r) : A[b].status \notin Live
  BY CancelledCarries
<1>4. ASSUME InFlowOrder, NEW R, R.current = target PROVE Ahead(N) /\ Waits(R, N)
  <2>1. Ahead(node[r]) /\ node[r] \in [Node -> NodeRow]
    BY <1>4, DecidesRow DEF IInv, Focus
  <2> QED BY <1>1, <1>4, <2>1, RejectedAhead
<1> HIDE DEF N, A
<1>5. ASSUME InFlowOrder, NEW R, R.current = target PROVE Focus(r, R, N, A)
  BY <1>3, <1>4, <1>5 DEF Focus, OnIt
<1>6. Shaped(r, Moved(run[r], "active", target), N, A)
  BY <1>2, <1>3, <1>5, ShapedIf, DecidesRow
<1> QED BY <1>1, <1>6, Commanding
-----------------------------------------------------------------------------
(***************************************************************************)
(* The dispatch, the runtime, the artwork tasks and time.                  *)
(***************************************************************************)
LEMMA Quiet ==
  ASSUME UNCHANGED <<receipts, stage>> PROVE Proceeds
BY DEF Proceeds, Spent

LEMMA FaultsTyped ==
  ASSUME IInv, NEW kind, Fault(kind) PROVE faults' \in 0..MaxFaults
BY WorkflowAssumption DEF IInv, TypeOK, Fault

LEMMA QueueTyped ==
  ASSUME IInv, NEW a \in Attempt
  PROVE  /\ queue \in [Attempt -> 0..Backlog] /\ Owed(a) \in [Attempt -> 0..Backlog]
         /\ queue[a] > 0 => [queue EXCEPT ![a] = @ - 1] \in [Attempt -> 0..Backlog]
<1>1. queue \in [Attempt -> 0..Backlog] /\ Backlog \in Nat
  BY WorkflowAssumption DEF IInv, TypeOK
<1>2. queue[a] < Backlog => queue[a] + 1 \in 0..Backlog
  BY <1>1
<1>3. queue[a] > 0 => queue[a] - 1 \in 0..Backlog
  BY <1>1
<1> QED BY <1>1, <1>2, <1>3 DEF Owed

\* A step that changes at most one attempt, in what belongs to no command.
LEMMA Touching ==
  ASSUME IInv, NEW a \in Attempt, Used(a), NEW y \in AttemptRow,
         attempt' = [attempt EXCEPT ![a] = y], UNCHANGED <<run, node>>,
         Same(attempt[a], y), y.status # "absent",
         y.status = attempt[a].status \/ (attempt[a].status \in Live /\ y.status \in Live),
         y.live => y.status = "running",
         y.delegated => attempt[a].delegated \/ attempt[a].node \in Delegates,
         Proceeds, Around, Slots
  PROVE  IInv' /\ Stays /\ Numbers
<1>1. Carries([attempt EXCEPT ![a] = y])
  BY CarriesOne DEF Live, Over
<1> QED BY <1>1, Keeping

LEMMA Resting ==
  ASSUME IInv, UNCHANGED rows, Proceeds, Around, Slots
  PROVE  IInv' /\ Stays /\ Numbers
BY Unmoved, Keeping DEF rows

LEMMA AttemptRowIs ==
  ASSUME IInv, NEW a \in Attempt
  PROVE  /\ attempt[a] \in AttemptRow /\ (attempt[a].live => attempt[a].status = "running")
         /\ attempt[a].recovery \in 0..Recoveries /\ Recoveries \in Nat
BY WorkflowAssumption DEF IInv, TypeOK, AttemptRow

LEMMA FailNodeStep ==
  ASSUME IInv, NEW a \in Attempt, IsCurrent(a), attempt[a].status \in Live, FailNode(a),
         UNCHANGED <<receipts, stage>>, Around, Slots
  PROVE  IInv' /\ Stays /\ Numbers
<1> DEFINE r == attempt[a].run
           n == attempt[a].node
           N == FailedNodes(node[r], n)
           A == [attempt EXCEPT ![a] = EndedAs(@, "failed")]
<1>1. r \in Run /\ n \in Node
  BY RowTypes DEF IInv
<1>2. Carries(A) /\ (InFlowOrder => \A b \in OfRun(A, r) : A[b].status \notin Live)
  BY EndedCarries
<1>3. node[r][n].status = "in_progress"
  BY DEF IsCurrent
<1>4. /\ N \in [Node -> NodeRow]
      /\ \A x \in Node : N[x].attempts = node[r][x].attempts
      /\ \A x \in Node : N[x].status = IF x = n THEN "failed" ELSE node[r][x].status
  BY <1>1, SetAt, DecidesRow DEF FailedNodes
<1>5. Write(r, FailedRun(run[r]), N, A)
  BY DEF FailNode
<1> HIDE DEF N, A, r, n
<1>6. ASSUME InFlowOrder, NEW R, R.current = run[r].current PROVE Focus(r, R, N, A)
  <2>1. Focus(r, run[r], node[r], attempt)
    BY <1>1, <1>6 DEF IInv
  <2>2. \A x \in Node : (N[x].status \in Open <=> node[r][x].status \in Open)
                          /\ (N[x].status \in Untouched <=> node[r][x].status \in Untouched)
                          /\ (N[x].status = "not_started" <=> node[r][x].status = "not_started")
    BY <1>3, <1>4 DEF Open, Untouched
  <2>3. Ahead(N) /\ Waits(R, N)
    BY <1>6, <2>1, <2>2 DEF Focus, Ahead, Waits
  <2> QED BY <1>2, <1>6, <2>3 DEF Focus, OnIt
<1>7. Shaped(r, FailedRun(run[r]), N, A)
  <2>1. \A x \in Node : N[x].status = "completed" => node[r][x].status = "completed"
    BY <1>4
  <2> QED BY <1>1, <1>2, <1>4, <1>6, <2>1, ShapedIf, DecidesRow DEF FailedRun
<1> QED BY <1>1, <1>5, <1>7, Writing

LEMMA DispatchStep ==
  ASSUME IInv, NEW a \in Attempt, Dispatch(a)
  PROVE  IInv' /\ Stays /\ Numbers
<1>0. /\ attempt[a] \in AttemptRow /\ (attempt[a].live => attempt[a].status = "running")
      /\ intents \subseteq {"api", "scheduler"} \X Attempt /\ faults \in 0..MaxFaults
      /\ queue \in [Attempt -> 0..Backlog] /\ Owed(a) \in [Attempt -> 0..Backlog]
      /\ receipts \subseteq Attempt /\ stage \in [Attempt -> Stage] /\ slot \in [Worker -> SlotRow]
      /\ attempt \in [Attempt -> AttemptRow]
  BY AttemptRowIs, QueueTyped DEF IInv, TypeOK, SlotRow
<1> DEFINE y(b) == [attempt[a] EXCEPT !.throttled = b]
<1>1. ASSUME NEW b \in BOOLEAN
      PROVE  y(b) \in AttemptRow /\ Same(attempt[a], y(b)) /\ y(b).status = attempt[a].status
               /\ y(b).live = attempt[a].live /\ y(b).delegated = attempt[a].delegated
  BY <1>0 DEF AttemptRow, Same
\* The throttle of an attempt is nobody's invariant.
<1>2. ASSUME NEW b \in BOOLEAN, attempt' = [attempt EXCEPT ![a] = y(b)],
             UNCHANGED <<run, node, receipts, stage>>, Around, Slots
      PROVE  IInv' /\ Stays /\ Numbers
  <2>1. Carries([attempt EXCEPT ![a] = y(b)])
    <3>1. Carries(attempt)
      BY Unmoved
    <3> QED BY <1>0, <1>1, <3>1 DEF Carries, Same
  <2> HIDE DEF y
  <2> QED BY <1>2, <2>1, Keeping, Quiet
<1>3. CASE Reserve(a)
  <2>1. attempt' = [attempt EXCEPT ![a] = y(TRUE)]
    BY <1>0, <1>3 DEF Reserve
  <2>2. Around /\ Slots
    BY <1>0, <1>3 DEF Reserve, Around, Slots
  <2> HIDE DEF y
  <2> QED BY <1>2, <1>3, <2>1, <2>2 DEF Reserve
<1>4. ASSUME NEW by \in {"api", "scheduler"}, Enqueue(by, a) PROVE IInv' /\ Stays /\ Numbers
  <2>1. Around /\ Slots
    BY <1>0, <1>4 DEF Enqueue, Around, Slots
  <2>2. CASE by = "api" /\ attempt[a].status # "queued"
    BY <1>4, <2>1, <2>2, Resting, Quiet DEF Enqueue, rows
  <2>3. CASE ~(by = "api" /\ attempt[a].status # "queued")
    <3> DEFINE b == attempt[a].throttled \/ attempt[a].status = "queued"
    <3>1. b \in BOOLEAN /\ attempt' = [attempt EXCEPT ![a] = y(b)]
      BY <1>0, <1>4, <2>3 DEF Enqueue, AttemptRow
    <3> HIDE DEF y, b
    <3> QED BY <1>2, <1>4, <2>1, <3>1 DEF Enqueue
  <2> QED BY <2>2, <2>3
<1>5. ASSUME NEW by \in {"api", "scheduler"}, EnqueueFails(by, a) PROVE IInv' /\ Stays /\ Numbers
  <2>1. Around /\ Slots
    BY <1>0, <1>5, FaultsTyped DEF EnqueueFails, Around, Slots
  <2> DEFINE b == IF attempt[a].status \in (IF by = "api" THEN {"queued"} ELSE Live)
                  THEN FALSE ELSE attempt[a].throttled
  <2>2. b \in BOOLEAN
    BY <1>0 DEF AttemptRow
  <2>3. attempt' = [attempt EXCEPT ![a] = y(b)]
    BY <1>0, <1>5 DEF EnqueueFails
  <2> HIDE DEF y, b
  <2> QED BY <1>2, <1>5, <2>1, <2>2, <2>3 DEF EnqueueFails
<1>6. ASSUME NEW by \in {"api", "scheduler"}, DispatcherDies(by, a) PROVE IInv' /\ Stays /\ Numbers
  <2>1. Around /\ Slots
    BY <1>0, <1>6, FaultsTyped DEF DispatcherDies, Around, Slots
  <2> QED BY <1>6, <2>1, Resting, Quiet DEF DispatcherDies
<1> QED BY <1>3, <1>4, <1>5, <1>6 DEF Dispatch

LEMMA DeliverStep ==
  ASSUME IInv, NEW w \in Worker, NEW a \in Attempt, Deliver(w, a) \/ DeliveryDies(w, a)
  PROVE  IInv' /\ Stays /\ Numbers
<1>0. /\ attempt[a] \in AttemptRow /\ attempt \in [Attempt -> AttemptRow]
      /\ intents \subseteq {"api", "scheduler"} \X Attempt /\ faults \in 0..MaxFaults
      /\ receipts \subseteq Attempt /\ stage \in [Attempt -> Stage] /\ slot \in [Worker -> SlotRow]
  BY AttemptRowIs DEF IInv, TypeOK, SlotRow
<1>1. Delivered(w, a)
  BY DEF Deliver, DeliveryDies, ClaimNothing, ClaimFails, Claim
<1>2. queue' \in [Attempt -> 0..Backlog]
  BY <1>1, QueueTyped DEF Delivered
<1>3. CASE ClaimNothing(w, a)
  <2>1. Around /\ Slots
    BY <1>0, <1>2, <1>3 DEF ClaimNothing, Around, Slots
  <2> QED BY <1>3, <2>1, Resting, Quiet DEF ClaimNothing
<1>4. CASE DeliveryDies(w, a)
  <2>1. Around /\ Slots
    BY <1>0, <1>2, <1>4, FaultsTyped DEF DeliveryDies, Around, Slots
  <2> QED BY <1>4, <2>1, Resting, Quiet DEF DeliveryDies
<1>5. CASE ClaimFails(w, a)
  <2>1. faults' \in 0..MaxFaults
    BY <1>0, <1>5, FaultsTyped DEF ClaimFails
  <2>2. Around /\ Slots
    BY <1>0, <1>2, <1>5, <2>1 DEF ClaimFails, Around, Slots
  <2> QED BY <1>5, <2>2, FailNodeStep DEF ClaimFails, Claimable
<1>6. CASE Claim(w, a)
  <2> DEFINE recovery == IF attempt[a].status = "running" THEN attempt[a].recovery + 1 ELSE attempt[a].recovery
             y == [attempt[a] EXCEPT !.status = "running", !.token = w, !.live = TRUE, !.recovery = recovery]
             pc == IF attempt[a].delegated THEN "look" ELSE "work"
  <2>1. attempt[a].status \in Live /\ IsCurrent(a) /\ Used(a)
    BY <1>6 DEF Claim, Claimable, IsCurrent, Used
  <2>2. recovery \in 0..Recoveries
    BY <1>6, AttemptRowIs DEF Claim, Spoilt
  <2>3. attempt' = [attempt EXCEPT ![a] = y]
    BY <1>0, <1>6 DEF Claim
  <2> HIDE DEF recovery
  <2>4. y \in AttemptRow /\ Same(attempt[a], y) /\ y.status = "running" /\ y.delegated = attempt[a].delegated
    BY <1>0, <2>2 DEF AttemptRow, Same, Live
  <2> DEFINE s == [Idle EXCEPT !.pc = pc, !.at = a]
  <2>5. slot' = [slot EXCEPT ![w] = s] /\ s.pc = pc /\ s.at = a
    BY <1>6 DEF Claim, Idle
  <2>6. slot' \in [Worker -> SlotRow]
    <3>1. s \in SlotRow
      BY DEF SlotRow, Holding, Idle
    <3> HIDE DEF s
    <3> QED BY <1>0, <2>5, <3>1
  <2> HIDE DEF s
  <2> HIDE DEF y
  <2>7. SlotInv(w)'
    <3>1. slot'[w].at = a /\ slot'[w].pc = pc
      BY <1>0, <2>5
    <3>2. attempt'[a] = y
      BY <1>0, <2>3
    <3>3. attempt[a].op # NoAttempt /\ (attempt[a].delegated => attempt[a].node \in Delegates)
      BY <2>1 DEF IInv, AttemptInv, Used, Live
    <3> QED BY <2>1, <2>4, <3>1, <3>2, <3>3 DEF SlotInv, Used, Same, Live
  <2>8. Around /\ Slots
    BY <1>0, <1>2, <1>6, <2>5, <2>6, <2>7 DEF Claim, Around, Slots
  <2>9. UNCHANGED <<run, node, receipts, stage>>
    BY <1>6 DEF Claim
  <2> QED BY <2>1, <2>3, <2>4, <2>8, <2>9, Touching, Quiet DEF Live
<1> QED BY <1>3, <1>4, <1>5, <1>6 DEF Deliver

\* Where a worker that is busy goes next.
LEMMA Moves ==
  ASSUME IInv, NEW w \in Worker, slot[w].pc # "idle"
  PROVE  LET a == slot[w].at IN
         /\ a \in Attempt /\ Used(a) /\ attempt[a].op \in Attempt /\ attempt[a].op # NoAttempt
         /\ slot \in [Worker -> SlotRow] /\ Idle \in SlotRow
         /\ \A pc \in Holding : Goes(w, pc) =>
              slot' \in [Worker -> SlotRow] /\ slot'[w].pc = pc /\ slot'[w].at = a
                /\ \A v \in Worker \ {w} : slot'[v] = slot[v]
         /\ \A code \in {"retryable", "final"} : Fails(w, code) =>
              slot' \in [Worker -> SlotRow] /\ slot'[w].pc = "fail" /\ slot'[w].at = a
                /\ \A v \in Worker \ {w} : slot'[v] = slot[v]
         /\ Ends(w) => slot' \in [Worker -> SlotRow] /\ Slots
<1> DEFINE a == slot[w].at
<1>1. a \in Attempt /\ Used(a) /\ attempt[a].op # NoAttempt /\ attempt[a].op \in Attempt
  <2>1. a \in Attempt /\ Used(a) /\ attempt[a].op # NoAttempt
    BY DEF IInv, SlotInv
  <2> QED BY <2>1, RowTypes DEF IInv
<1>2. slot \in [Worker -> SlotRow] /\ slot[w] \in SlotRow
  BY DEF IInv, TypeOK, SlotRow
<1>3. Idle \in SlotRow /\ Idle.pc = "idle"
  BY DEF Idle, SlotRow, Holding
<1>4. ASSUME NEW pc \in Holding, Goes(w, pc)
      PROVE  slot' \in [Worker -> SlotRow] /\ slot'[w].pc = pc /\ slot'[w].at = a
               /\ \A v \in Worker \ {w} : slot'[v] = slot[v]
  <2> DEFINE s == [slot[w] EXCEPT !.pc = pc]
  <2>1. s \in SlotRow /\ s.pc = pc /\ s.at = a
    BY <1>2 DEF SlotRow
  <2>2. slot' = [slot EXCEPT ![w] = s]
    BY <1>2, <1>4 DEF Goes
  <2> HIDE DEF s
  <2> QED BY <1>2, <2>1, <2>2
<1>5. ASSUME NEW code \in {"retryable", "final"}, Fails(w, code)
      PROVE  slot' \in [Worker -> SlotRow] /\ slot'[w].pc = "fail" /\ slot'[w].at = a
               /\ \A v \in Worker \ {w} : slot'[v] = slot[v]
  <2> DEFINE s == [slot[w] EXCEPT !.pc = "fail", !.code = code]
  <2>1. s \in SlotRow /\ s.pc = "fail" /\ s.at = a
    BY <1>2 DEF SlotRow, Holding
  <2>2. slot' = [slot EXCEPT ![w] = s]
    BY <1>2, <1>5 DEF Fails
  <2> HIDE DEF s
  <2> QED BY <1>2, <2>1, <2>2
<1>6. Ends(w) => slot' \in [Worker -> SlotRow] /\ Slots
  BY <1>2, <1>3 DEF Ends, Slots
<1> QED BY <1>1, <1>2, <1>3, <1>4, <1>5, <1>6

LEMMA RestTyped ==
  ASSUME IInv
  PROVE  /\ intents \subseteq {"api", "scheduler"} \X Attempt /\ faults \in 0..MaxFaults
         /\ receipts \subseteq Attempt /\ stage \in [Attempt -> Stage] /\ queue \in [Attempt -> 0..Backlog]
         /\ slot \in [Worker -> SlotRow]
         /\ attempt \in [Attempt -> AttemptRow]
BY DEF IInv, TypeOK, SlotRow

LEMMA Guarded ==
  ASSUME IInv, NEW w \in Worker, slot[w].pc # "idle", Guard(w)
  PROVE  LET a == slot[w].at IN
         IsCurrent(a) /\ attempt[a].status \in Live /\ attempt[a].run \in Run /\ attempt[a].node \in Node
           /\ node[attempt[a].run][attempt[a].node].status = "in_progress"
<1>1. slot[w].at \in Attempt
  BY Moves
<1> QED BY <1>1, RowTypes DEF Guard, IsCurrent, Live, IInv

LEMMA TripsStep ==
  ASSUME IInv, NEW w \in Worker, Trips(w)
  PROVE  IInv' /\ Stays /\ Numbers
<1>1. slot[w].pc # "idle" /\ UNCHANGED <<rows, receipts, stage, queue, intents>>
  BY DEF Trips, At
<1>2. faults' \in 0..MaxFaults
  BY FaultsTyped, RestTyped DEF Trips
<1>3. slot' \in [Worker -> SlotRow] /\ Slots
  <2>1. CASE Ends(w)
    BY <1>1, <2>1, Moves
  <2>2. ASSUME NEW code \in {"retryable", "final"}, Fails(w, code)
        PROVE  slot' \in [Worker -> SlotRow] /\ Slots
    <3>1. slot' \in [Worker -> SlotRow] /\ slot'[w].pc = "fail" /\ slot'[w].at = slot[w].at
            /\ \A v \in Worker \ {w} : slot'[v] = slot[v]
      BY <1>1, <2>2, Moves
    <3>2. SlotInv(w)'
      <4>1. slot[w].at \in Attempt /\ Used(slot[w].at) /\ attempt[slot[w].at].op # NoAttempt
        BY <1>1, Moves
      <4> QED BY <1>1, <3>1, <4>1 DEF SlotInv, Used, rows
    <3> QED BY <3>1, <3>2 DEF Slots
  <2> QED BY <2>1, <2>2 DEF Trips
<1>4. Around
  BY <1>1, <1>2, <1>3, RestTyped DEF Around
<1> QED BY <1>1, <1>3, <1>4, Resting, Quiet

LEMMA ProduceStep ==
  ASSUME IInv, NEW w \in Worker, Produce(w)
  PROVE  IInv' /\ Stays /\ Numbers
<1> DEFINE a == slot[w].at
<1>1. slot[w].pc # "idle" /\ UNCHANGED <<rows, stage, queue, intents, faults>>
        /\ receipts' = receipts \cup {attempt[a].op} /\ attempt[a].node \notin Delegates /\ Goes(w, "finish")
  BY DEF Produce, At, Row
<1>2. a \in Attempt /\ Used(a) /\ attempt[a].op \in Attempt /\ attempt[a].op # NoAttempt
  BY <1>1, Moves
<1>3. slot' \in [Worker -> SlotRow] /\ slot'[w].pc = "finish" /\ slot'[w].at = a
        /\ \A v \in Worker \ {w} : slot'[v] = slot[v]
  BY <1>1, Moves DEF Holding
<1> HIDE DEF a
<1>4. SlotInv(w)'
  BY <1>1, <1>2, <1>3 DEF SlotInv, Used, Verified, rows
<1>5. Slots
  BY <1>3, <1>4 DEF Slots
<1>6. Around
  BY <1>1, <1>2, <1>3, RestTyped DEF Around
<1>7. Proceeds
  BY <1>1 DEF Proceeds, Spent
<1> QED BY <1>1, <1>5, <1>6, <1>7, Resting

LEMMA DelegateStep ==
  ASSUME IInv, NEW w \in Worker, Delegate(w)
  PROVE  IInv' /\ Stays /\ Numbers
<1> DEFINE a == slot[w].at
           o == attempt[a].op
           y == [attempt[a] EXCEPT !.delegated = TRUE]
<1>1. /\ slot[w].pc # "idle" /\ UNCHANGED <<run, node, receipts, queue, intents, faults>>
      /\ attempt[a].node \in Delegates /\ Goes(w, "look")
      /\ stage' = IF stage[o] = "absent" THEN [stage EXCEPT ![o] = "waiting"] ELSE stage
      /\ attempt' = [attempt EXCEPT ![a].delegated = TRUE]
  BY DEF Delegate, At, Row
<1>2. a \in Attempt /\ Used(a) /\ o \in Attempt /\ o # NoAttempt
  BY <1>1, Moves
<1>3. slot' \in [Worker -> SlotRow] /\ slot'[w].pc = "look" /\ slot'[w].at = a
        /\ \A v \in Worker \ {w} : slot'[v] = slot[v]
  BY <1>1, Moves DEF Holding
<1>4. attempt[a] \in AttemptRow /\ (attempt[a].live => attempt[a].status = "running")
  BY <1>2, AttemptRowIs
<1>5. attempt' = [attempt EXCEPT ![a] = y]
  BY <1>1, <1>2, RestTyped
<1>6. Used(o) /\ attempt[o].node \in Delegates
  BY <1>1, <1>2 DEF IInv, AttemptInv, Used
<1> HIDE DEF a, o
<1>7. y \in AttemptRow /\ Same(attempt[a], y) /\ y.status = attempt[a].status /\ y.live = attempt[a].live
  BY <1>4 DEF AttemptRow, Same
<1> HIDE DEF y
<1>8. Proceeds
  <2>1. stage \in [Attempt -> Stage]
    BY RestTyped
  <2>2. \A x \in Attempt : stage'[x] = stage[x] \/ (x = o /\ stage[x] = "absent" /\ stage'[x] = "waiting")
    BY <1>1, <1>2, <2>1
  <2> QED BY <1>1, <1>6, <2>2 DEF Proceeds, Spent
<1>9. stage' \in [Attempt -> Stage]
  BY <1>1, RestTyped DEF Stage
<1>10. Around
  BY <1>1, <1>3, <1>9, RestTyped DEF Around
<1>11. Slots
  <2>1. attempt'[a] = y
    BY <1>2, <1>5, RestTyped
  <2>2. SlotInv(w)'
    BY <1>1, <1>2, <1>3, <1>7, <2>1 DEF SlotInv, Used, Same, o
  <2> QED BY <1>3, <2>2 DEF Slots
<1> QED BY <1>1, <1>2, <1>4, <1>5, <1>7, <1>8, <1>10, <1>11, Touching DEF Used

LEMMA LookStep ==
  ASSUME IInv, NEW w \in Worker, Look(w)
  PROVE  IInv' /\ Stays /\ Numbers
<1> DEFINE a == slot[w].at
<1>1. slot[w].pc = "look" /\ UNCHANGED <<rows, receipts, stage, queue, intents>>
  BY DEF Look, At
<1>2. a \in Attempt /\ Used(a) /\ attempt[a].op \in Attempt /\ attempt[a].op # NoAttempt
        /\ attempt[a].node \in Delegates
  <2>1. attempt[a].node \in Delegates
    BY <1>1 DEF IInv, SlotInv
  <2> QED BY <1>1, <2>1, Moves
<1>3. faults' \in 0..MaxFaults
  BY FaultsTyped, RestTyped DEF Look
<1>4. \/ Goes(w, "finish") /\ stage[attempt[a].op] = "adopted"
      \/ Goes(w, "wait")
      \/ \E code \in {"retryable", "final"} : Fails(w, code)
  BY DEF Look, Row
<1>5. /\ slot' \in [Worker -> SlotRow] /\ slot'[w].at = a
      /\ slot'[w].pc = "finish" => stage[attempt[a].op] = "adopted"
      /\ \A v \in Worker \ {w} : slot'[v] = slot[v]
  <2>1. "finish" \in Holding /\ "wait" \in Holding /\ slot[w].pc # "idle"
    BY <1>1 DEF Holding
  <2>2. CASE Goes(w, "finish") /\ stage[attempt[a].op] = "adopted"
    BY <2>1, <2>2, Moves
  <2>3. CASE Goes(w, "wait")
    BY <2>1, <2>3, Moves
  <2>4. CASE \E code \in {"retryable", "final"} : Fails(w, code)
    BY <2>1, <2>4, Moves
  <2> QED BY <1>4, <2>2, <2>3, <2>4
<1> HIDE DEF a
<1>6. SlotInv(w)'
  BY <1>1, <1>2, <1>5 DEF SlotInv, Used, Verified, rows
<1>7. Slots
  BY <1>5, <1>6 DEF Slots
<1>8. Around
  BY <1>1, <1>3, <1>5, RestTyped DEF Around
<1> QED BY <1>1, <1>7, <1>8, Resting, Quiet

LEMMA WaitStep ==
  ASSUME IInv, NEW w \in Worker, Wait(w)
  PROVE  IInv' /\ Stays /\ Numbers
<1> DEFINE a == slot[w].at
           y == [attempt[a] EXCEPT !.status = "waiting", !.delegated = TRUE, !.token = NoWorker,
                                   !.live = FALSE, !.due = FALSE]
<1>1. slot[w].pc = "wait" /\ Guard(w) /\ Ends(w)
        /\ UNCHANGED <<run, node, receipts, stage, queue, intents, faults>>
  BY DEF Wait, At
<1>2. a \in Attempt /\ Used(a) /\ attempt[a].node \in Delegates /\ attempt[a].status \in Live
  <2>1. attempt[a].node \in Delegates
    BY <1>1 DEF IInv, SlotInv
  <2> QED BY <1>1, <2>1, Moves, Guarded
<1>3. slot' \in [Worker -> SlotRow] /\ Slots
  BY <1>1, Moves
<1>4. attempt[a] \in AttemptRow
  BY <1>2, AttemptRowIs
<1>5. attempt' = [attempt EXCEPT ![a] = y]
  BY <1>2, RestTyped DEF Wait
<1> HIDE DEF a
<1>6. y \in AttemptRow /\ Same(attempt[a], y) /\ y.status = "waiting" /\ ~y.live
  BY <1>4 DEF AttemptRow, Same, Live
<1> HIDE DEF y
<1>7. Around
  BY <1>1, <1>3, RestTyped DEF Around
<1> QED BY <1>1, <1>2, <1>3, <1>5, <1>6, <1>7, Touching, Quiet DEF Live

LEMMA FinishStep ==
  ASSUME IInv, NEW w \in Worker, Finish(w)
  PROVE  IInv' /\ Stays /\ Numbers
<1> DEFINE a == slot[w].at
           r == attempt[a].run
           n == attempt[a].node
           A == [attempt EXCEPT ![a] = EndedAs(@, "completed")]
<1>1. PICK next \in Succ[n] :
        Prepare(attempt[a].by, r, next, Advanced(run[r], next), CompletedNodes(node[r], n, next), A, FALSE, {})
  BY DEF Finish
<1>2. slot[w].pc = "finish" /\ Guard(w) /\ Ends(w) /\ UNCHANGED <<receipts, stage, queue>>
  BY DEF Finish, At
<1>3. a \in Attempt /\ Verified(attempt[a])
  <2>1. Verified(attempt[a])
    BY <1>2 DEF IInv, SlotInv
  <2> QED BY <1>2, <2>1, Moves
<1>4. IsCurrent(a) /\ attempt[a].status \in Live /\ r \in Run /\ n \in Node
        /\ node[r][n].status = "in_progress"
  BY <1>2, Guarded
<1>5. Carries(A) /\ A[a].status = "completed" /\ Same(attempt[a], A[a])
        /\ (InFlowOrder => \A b \in OfRun(A, r) : A[b].status \notin Live)
  BY <1>3, <1>4, EndedCarries
<1>6. slot' \in [Worker -> SlotRow] /\ Slots
  BY <1>2, Moves
<1>7. attempt[a].by \in Decider
  BY <1>3, AttemptRowIs DEF AttemptRow, Decider
<1> HIDE DEF A
<1>8. Proved(r, n, node[r], A)
  BY <1>3, <1>4, <1>5 DEF Proved, Same, IsCurrent
<1>9. next \in Node /\ Shaped(r, Advanced(run[r], next), CompletedNodes(node[r], n, next), A)
  BY <1>4, <1>5, <1>8, HandsOver
<1> HIDE DEF a, r, n
<1> DEFINE R == Advanced(run[r], next)
           N == CompletedNodes(node[r], n, next)
           m == attempt[a].by
           override == FALSE
           nobody == {}
<1>10. /\ Shaped(r, R, N, A) /\ Prepare(m, r, next, R, N, A, override, nobody)
       /\ m \in Decider /\ override \in BOOLEAN /\ ~override
       /\ nobody \subseteq {"api", "scheduler"}
  BY <1>1, <1>7, <1>9
<1> HIDE DEF R, N, m, override, nobody
<1> QED BY <1>2, <1>4, <1>6, <1>9, <1>10, Preparing

LEMMA FailStep ==
  ASSUME IInv, NEW w \in Worker, Fail(w)
  PROVE  IInv' /\ Stays /\ Numbers
<1> DEFINE a == slot[w].at
<1>1. slot[w].pc # "idle" /\ Ends(w) /\ UNCHANGED <<receipts, stage, queue, intents, faults>>
  BY DEF Fail, At
<1>2. slot' \in [Worker -> SlotRow] /\ Slots /\ a \in Attempt /\ Used(a)
  BY <1>1, Moves
<1>3. Around
  BY <1>1, <1>2, RestTyped DEF Around
<1>4. CASE ~Guard(w)
  <2>1. UNCHANGED rows
    BY <1>4 DEF Fail
  <2> QED BY <1>1, <1>2, <1>3, <2>1, Resting, Quiet
<1>5. CASE Guard(w) /\ slot[w].code = "retryable" /\ attempt[a].recovery < Recoveries
  <2> DEFINE recovery == attempt[a].recovery + 1
             y == [attempt[a] EXCEPT !.status = "queued", !.token = NoWorker, !.live = FALSE,
                                     !.recovery = recovery, !.due = FALSE]
  <2>1. attempt' = [attempt EXCEPT ![a] = y] /\ UNCHANGED <<run, node>>
    BY <1>2, <1>5, RestTyped DEF Fail
  <2>2. recovery \in 0..Recoveries /\ attempt[a] \in AttemptRow
    BY <1>2, <1>5, AttemptRowIs
  <2>3. attempt[a].status \in Live
    BY <1>1, <1>5, Guarded
  <2> HIDE DEF recovery, a
  <2>4. y \in AttemptRow /\ Same(attempt[a], y) /\ y.status = "queued" /\ ~y.live
          /\ y.delegated = attempt[a].delegated
    BY <2>2 DEF AttemptRow, Same, Live
  <2> HIDE DEF y
  <2> QED BY <1>1, <1>2, <1>3, <2>1, <2>3, <2>4, Touching, Quiet DEF Live
<1>6. CASE Guard(w) /\ ~(slot[w].code = "retryable" /\ attempt[a].recovery < Recoveries)
  <2>1. FailNode(a)
    BY <1>6 DEF Fail
  <2>2. IsCurrent(a) /\ attempt[a].status \in Live
    BY <1>1, <1>6, Guarded
  <2> QED BY <1>1, <1>2, <1>3, <2>1, <2>2, FailNodeStep
<1> QED BY <1>4, <1>5, <1>6

LEMMA WorkerDiesStep ==
  ASSUME IInv, NEW w \in Worker, WorkerDies(w)
  PROVE  IInv' /\ Stays /\ Numbers
<1>1. slot[w].pc # "idle" /\ Ends(w) /\ UNCHANGED <<rows, receipts, stage, intents>>
        /\ Fault("crash") /\ queue' \in {queue, Owed(slot[w].at)}
  BY DEF WorkerDies, At
<1>2. slot' \in [Worker -> SlotRow] /\ Slots /\ slot[w].at \in Attempt
  BY <1>1, Moves
<1>3. queue' \in [Attempt -> 0..Backlog] /\ faults' \in 0..MaxFaults
  BY <1>1, <1>2, QueueTyped, FaultsTyped
<1>4. Around
  BY <1>1, <1>2, <1>3, RestTyped DEF Around
<1> QED BY <1>1, <1>2, <1>4, Resting, Quiet

LEMMA PodMovesStep ==
  ASSUME IInv, NEW o \in Attempt, PodMoves(o)
  PROVE  IInv' /\ Stays /\ Numbers
<1>1. PICK s \in Stage :
        /\ stage' = [stage EXCEPT ![o] = s]
        /\ stage[o] # "adopted" /\ stage[o] # "absent"
        /\ Spent(o) => s \in {"absent", "waiting", "adopted", "stopped"} \/ Taken(o)
        /\ UNCHANGED <<rows, receipts, queue, intents, slot, faults>>
  <2>1. CASE PodTakes(o)
    <3>1. Taken(o)
      BY <2>1 DEF PodTakes, Admissible, Originates, Taken
    <3>2. CASE PodStep(o, {"waiting"}, "running")
      BY <3>1, <3>2 DEF PodStep, Stage
    <3>3. CASE PodStep(o, {"kept"}, "answered")
      BY <3>1, <3>3 DEF PodStep, Stage
    <3> QED BY <2>1, <3>2, <3>3 DEF PodTakes
  <2>2. CASE PodLetsGo(o)
    <3>1. CASE PodStep(o, {"running"}, "waiting")
      BY <3>1 DEF PodStep, Stage, Spent
    <3>2. CASE PodStep(o, {"answered"}, "kept")
      BY <3>2 DEF PodStep, Stage, Spent
    <3> QED BY <2>2, <3>1, <3>2 DEF PodLetsGo
  <2>3. CASE PodAsks(o)
    BY <2>3 DEF PodAsks, PodStep, Stage, Spent
  <2>4. CASE PodSaves(o)
    BY <2>4 DEF PodSaves, PodStep, Stage, Spent
  <2>5. CASE PodLoses(o)
    BY <2>5 DEF PodLoses, PodStep, Stage, Spent
  <2>6. CASE PodAdopts(o)
    BY <2>6 DEF PodAdopts, PodStep, Stage, Spent
  <2>7. CASE PodStops(o)
    <3>1. CASE PodStep(o, {"running", "answered", "kept"}, "stopped")
      BY <3>1 DEF PodStep, Stage, Spent
    <3>2. CASE PodStep(o, {"waiting"}, "stopped")
      BY <3>2 DEF PodStep, Stage, Spent
    <3> QED BY <2>7, <3>1, <3>2 DEF PodStops
  <2> QED BY <2>1, <2>2, <2>3, <2>4, <2>5, <2>6, <2>7 DEF PodMoves
<1>2. stage \in [Attempt -> Stage]
  BY RestTyped
<1>3. Proceeds
  <2>1. stage'[o] = s /\ \A x \in Attempt \ {o} : stage'[x] = stage[x]
    BY <1>1, <1>2
  <2> QED BY <1>1, <2>1 DEF Proceeds, Spent
<1>4. Around /\ Slots
  BY <1>1, <1>2, RestTyped DEF Around, Slots
<1> QED BY <1>1, <1>3, <1>4, Resting

LEMMA TimesStep ==
  ASSUME IInv, NEW a \in Attempt, Times(a)
  PROVE  IInv' /\ Stays /\ Numbers
<1>0. attempt[a] \in AttemptRow /\ (attempt[a].live => attempt[a].status = "running")
        /\ attempt \in [Attempt -> AttemptRow]
  BY AttemptRowIs, RestTyped
<1>1. UNCHANGED <<run, node, receipts, stage, queue, intents, slot>>
  BY DEF Times, BecomesDue, ThrottleLapses, LeaseLapses, TimeOf
<1>2. faults' \in 0..MaxFaults
  BY FaultsTyped, RestTyped DEF Times, BecomesDue, ThrottleLapses, LeaseLapses
<1>3. Around /\ Slots
  BY <1>1, <1>2, RestTyped DEF Around, Slots
<1>4. attempt[a].status \in Live
  BY <1>0 DEF Times, BecomesDue, ThrottleLapses, LeaseLapses, Live
<1>5. PICK y \in AttemptRow :
        /\ attempt' = [attempt EXCEPT ![a] = y] /\ Same(attempt[a], y) /\ y.status = attempt[a].status
        /\ (y.live => attempt[a].live) /\ y.delegated = attempt[a].delegated
  <2>1. CASE BecomesDue(a)
    <3> DEFINE y == [attempt[a] EXCEPT !.due = TRUE]
    <3>1. y \in AttemptRow /\ Same(attempt[a], y) /\ y.status = attempt[a].status
            /\ y.live = attempt[a].live /\ y.delegated = attempt[a].delegated
      BY <1>0 DEF AttemptRow, Same
    <3>2. attempt' = [attempt EXCEPT ![a] = y]
      BY <1>0, <2>1 DEF BecomesDue
    <3> HIDE DEF y
    <3> QED BY <3>1, <3>2
  <2>2. CASE ThrottleLapses(a)
    <3> DEFINE y == [attempt[a] EXCEPT !.throttled = FALSE]
    <3>1. y \in AttemptRow /\ Same(attempt[a], y) /\ y.status = attempt[a].status
            /\ y.live = attempt[a].live /\ y.delegated = attempt[a].delegated
      BY <1>0 DEF AttemptRow, Same
    <3>2. attempt' = [attempt EXCEPT ![a] = y]
      BY <1>0, <2>2 DEF ThrottleLapses
    <3> HIDE DEF y
    <3> QED BY <3>1, <3>2
  <2>3. CASE LeaseLapses(a)
    <3> DEFINE y == [attempt[a] EXCEPT !.live = FALSE]
    <3>1. y \in AttemptRow /\ Same(attempt[a], y) /\ y.status = attempt[a].status
            /\ ~y.live /\ y.delegated = attempt[a].delegated
      BY <1>0 DEF AttemptRow, Same
    <3>2. attempt' = [attempt EXCEPT ![a] = y]
      BY <1>0, <2>3 DEF LeaseLapses
    <3> HIDE DEF y
    <3> QED BY <3>1, <3>2
  <2> QED BY <2>1, <2>2, <2>3 DEF Times
<1> QED BY <1>0, <1>1, <1>3, <1>4, <1>5, Touching, Quiet DEF Used, Live
-----------------------------------------------------------------------------
(***************************************************************************)
(* The theorems.                                                           *)
(***************************************************************************)
LEMMA Initially == ASSUME Init PROVE IInv
<1>1. /\ run = [r \in Run |-> NoRun] /\ node = [r \in Run |-> NoRows]
      /\ \A a \in Attempt : attempt[a] = NewAttempt
      /\ attempt \in [Attempt -> AttemptRow]
      /\ \A a \in Attempt : stage[a] = "absent"
      /\ \A w \in Worker : slot[w].pc = "idle"
  <2>1. NewAttempt \in AttemptRow
    BY NewRow
  <2>2. run = [r \in Run |-> NoRun] /\ node = [r \in Run |-> NoRows]
          /\ attempt = [a \in Attempt |-> NewAttempt] /\ stage = [a \in Attempt |-> "absent"]
          /\ slot = [w \in Worker |-> Idle]
    BY DEF Init
  <2>3. Idle.pc = "idle"
    BY DEF Idle
  <2> QED BY <2>1, <2>2, <2>3
<1>2. \A a \in Attempt : attempt[a].status = "absent" /\ attempt[a].op = NoAttempt /\ ~attempt[a].live
  BY <1>1, NewRow
<1>3. \A r \in Run : run[r] = NoRun /\ node[r] = NoRows
  BY <1>1
<1>4. TypeOK
  <2>1. NoRun \in RunRow
    BY DEF NoRun, RunRow
  <2>2. NoRows \in [Node -> NodeRow]
    BY DEF NoRows, NodeRow
  <2>3. 0 \in 0..Backlog /\ 0 \in 0..MaxFaults
    BY WorkflowAssumption
  <2>4. queue \in [Attempt -> 0..Backlog] /\ faults \in 0..MaxFaults
    BY <2>3 DEF Init
  <2>5. stage \in [Attempt -> Stage] /\ receipts \subseteq Attempt /\ intents \subseteq {"api", "scheduler"} \X Attempt
    BY DEF Init, Stage
  <2>6. slot \in [Worker -> [pc : Holding \cup {"idle"}, at : Attempt \cup {NoAttempt},
                             code : {"none", "retryable", "final"}]]
    BY DEF Init, Idle
  <2>7. run \in [Run -> RunRow] /\ node \in [Run -> [Node -> NodeRow]]
    BY <1>1, <2>1, <2>2
  <2> QED BY <1>1, <1>2, <2>4, <2>5, <2>6, <2>7 DEF TypeOK
<1>5. \A a \in Attempt : AttemptInv(a) /\ StageInv(a)
  BY <1>1, <1>2 DEF AttemptInv, StageInv
<1>6. \A a, b \in Attempt : PairInv(a, b) /\ RetryInv(a, b)
  BY <1>2 DEF PairInv, RetryInv, Follows, Used
<1>7. \A a, b, c \in Attempt : ChainInv(a, b, c)
  BY <1>2 DEF ChainInv, Used
<1>8. \A w \in Worker : SlotInv(w)
  BY <1>1 DEF SlotInv
<1>9. \A r \in Run : RunInv(r) /\ \A n \in Node : NodeInv(r, n)
  <2>1. SUFFICES ASSUME NEW r \in Run, NEW n \in Node PROVE node[r][n].status # "completed"
    BY <1>3 DEF RunInv, NodeInv
  <2>2. node[r] = NoRows /\ NoRows[n].status = "not_started"
    BY <1>3 DEF NoRows
  <2> QED BY <2>2
<1>10. ASSUME NEW r \in Run PROVE Focus(r, run[r], node[r], attempt)
  <2>1. Ahead(node[r])
    BY <1>3 DEF Ahead, NoRows, Open
  <2>2. Waits(run[r], node[r])
    BY <1>3, Graph DEF Waits, NoRun
  <2>3. OnIt(r, run[r], node[r], attempt)
    BY <1>2 DEF OnIt, OfRun
  <2> QED BY <2>1, <2>2, <2>3 DEF Focus
<1> QED BY <1>4, <1>5, <1>6, <1>7, <1>8, <1>9, <1>10 DEF IInv

LEMMA Preserved == ASSUME IInv, [Next]_vars PROVE IInv' /\ Stays /\ Numbers
<1>1. CASE UNCHANGED vars
  <2>1. UNCHANGED rows /\ UNCHANGED <<receipts, stage, queue, intents, slot, faults>>
    BY <1>1 DEF vars, rows
  <2>2. Around /\ Slots
    BY <2>1, RestTyped DEF Around, Slots
  <2> QED BY <2>1, <2>2, Resting, Quiet
<1>2. ASSUME NEW m \in Member, NEW r \in Run, Commands(m, r) PROVE IInv' /\ Stays /\ Numbers
  <2>1. CASE Start(m, r)
    BY <2>1, StartStep
  <2>2. ASSUME NEW n \in Node,
               \/ Complete(m, r, n) \/ StartNode(m, r, n) \/ Block(m, r, n) \/ Unblock(m, r, n)
               \/ Cancel(m, r, n) \/ Reopen(m, r, n)
               \/ \E override \in BOOLEAN : Retry(m, r, n, override)
               \/ \E target \in Node : Reject(m, r, n, target)
        PROVE  IInv' /\ Stays /\ Numbers
    <3>1. CASE Complete(m, r, n)
      BY <3>1, CompleteStep
    <3>2. CASE StartNode(m, r, n)
      BY <3>2, StartNodeStep
    <3>3. CASE Block(m, r, n)
      BY <3>3, BlockStep
    <3>4. CASE Unblock(m, r, n)
      BY <3>4, UnblockStep
    <3>5. CASE Cancel(m, r, n)
      BY <3>5, CancelStep
    <3>6. CASE Reopen(m, r, n)
      BY <3>6, ReopenStep
    <3>7. CASE \E override \in BOOLEAN : Retry(m, r, n, override)
      BY <3>7, RetryStep
    <3>8. CASE \E target \in Node : Reject(m, r, n, target)
      BY <3>8, RejectStep
    <3> QED BY <2>2, <3>1, <3>2, <3>3, <3>4, <3>5, <3>6, <3>7, <3>8
  <2> QED BY <1>2, <2>1, <2>2 DEF Commands
<1>3. ASSUME NEW a \in Attempt, Dispatch(a) \/ PodMoves(a) \/ Times(a) PROVE IInv' /\ Stays /\ Numbers
  BY <1>3, DispatchStep, PodMovesStep, TimesStep
<1>4. ASSUME NEW w \in Worker,
             Step(w) \/ WorkerDies(w) \/ \E a \in Attempt : Deliver(w, a) \/ DeliveryDies(w, a)
      PROVE  IInv' /\ Stays /\ Numbers
  <2>1. CASE Step(w)
    BY <2>1, TripsStep, ProduceStep, DelegateStep, LookStep, WaitStep, FinishStep, FailStep DEF Step
  <2>2. CASE WorkerDies(w)
    BY <2>2, WorkerDiesStep
  <2>3. CASE \E a \in Attempt : Deliver(w, a) \/ DeliveryDies(w, a)
    BY <2>3, DeliverStep
  <2> QED BY <1>4, <2>1, <2>2, <2>3
<1> QED BY <1>1, <1>2, <1>3, <1>4 DEF Next

\* The inductive invariant of workflow runs.
THEOREM WorkflowInvariance == Spec => []IInv
<1>1. Init => IInv
  BY Initially
<1>2. IInv /\ [Next]_vars => IInv'
  BY Preserved
<1> QED BY <1>1, <1>2, PTL DEF Spec

\* The rows and the processes keep the shape the code gives them.
THEOREM WorkflowTypes == Spec => []TypeOK
<1>1. IInv => TypeOK
  BY DEF IInv
<1> QED BY <1>1, WorkflowInvariance, PTL

\* An attempt that has ended stays as it ended, whatever a worker that lost it still does
\* (guard, claim, the cancellations of transition.ts).
THEOREM WorkflowEndedStay == Spec => EndedAttemptsStay
<1>1. IInv /\ [Next]_vars =>
        [\A a \in Attempt :
           attempt[a].status \in {"failed", "completed", "cancelled"} =>
             attempt'[a].status = attempt[a].status /\ attempt'[a].op = attempt[a].op]_vars
  BY Preserved DEF Stays, Over
<1> QED BY <1>1, WorkflowInvariance, PTL DEF Spec, EndedAttemptsStay

\* Every change of a run, the worker's included, gives it a new revision, so that a command
\* decided on older rows is refused.
THEOREM WorkflowNumbered == Spec => ChangesAreNumbered
<1>1. IInv /\ [Next]_vars =>
        [\A r \in Run : Shape(r)' # Shape(r) => run'[r].revision > run[r].revision]_vars
  BY Preserved DEF Numbers
<1> QED BY <1>1, WorkflowInvariance, PTL DEF Spec, ChangesAreNumbered

LEMMA ProvedIsLatest ==
  ASSUME IInv, NEW r \in Run, NEW n \in Node, Proved(r, n, node[r], attempt),
         NEW a, a = Latest(node[r], attempt, r, n)
  PROVE  a # NoAttempt /\ a \in Attempt /\ attempt[a].status = "completed" /\ attempt[a].node = n
<1>1. PICK b \in Attempt : /\ attempt[b].status = "completed" /\ attempt[b].run = r /\ attempt[b].node = n
                           /\ attempt[b].number = node[r][n].attempts
  BY DEF Proved
<1>2. /\ a # NoAttempt /\ a \in Attempt /\ Used(a) /\ attempt[a].run = r /\ attempt[a].node = n
      /\ attempt[a].number = node[r][n].attempts
  BY <1>1, LatestIs DEF Used
<1>3. PairInv(a, b)
  BY <1>2 DEF IInv
<1> QED BY <1>1, <1>2, <1>3 DEF PairInv, Used, Sibling

\* An internal node is completed only by the verified result of its latest attempt (finish):
\* no sequence of commands completes it by hand or with a result that was overtaken.
THEOREM WorkflowVerified == Spec => []CompletedIsVerified
<1>1. ASSUME IInv PROVE CompletedIsVerified
  <2>1. SUFFICES ASSUME NEW r \in Run, NEW n \in Node,
                        node[r][n].status = "completed", Kind[n] = "internal_action",
                        NEW a, a = Latest(node[r], attempt, r, n)
                 PROVE  /\ a # NoAttempt /\ attempt[a].status = "completed"
                        /\ IF n \in Delegates THEN stage[attempt[a].op] = "adopted" ELSE attempt[a].op \in receipts
    BY DEF CompletedIsVerified
  <2>2. Proved(r, n, node[r], attempt)
    BY <1>1, <2>1 DEF IInv, NodeInv
  <2>3. a # NoAttempt /\ a \in Attempt /\ attempt[a].status = "completed" /\ attempt[a].node = n
    BY <1>1, <2>1, <2>2, ProvedIsLatest
  <2>4. Verified(attempt[a])
    BY <1>1, <2>3 DEF IInv, AttemptInv
  <2> QED BY <2>3, <2>4 DEF Verified
<1> QED BY <1>1, WorkflowInvariance, PTL

\* One result is counted once: an operation passes only from a failed attempt to a later
\* one, so no two attempts are completed by it (the reused input snapshot of prepare).
THEOREM WorkflowResultOnce == Spec => []ResultUsedOnce
<1>1. ASSUME IInv PROVE ResultUsedOnce
  <2>1. SUFFICES ASSUME NEW a \in Attempt, NEW b \in Attempt, a # b,
                        attempt[a].status = "completed", attempt[b].status = "completed",
                        attempt[a].op = attempt[b].op
                 PROVE  FALSE
    BY DEF ResultUsedOnce
  <2>2. PairInv(a, b) /\ PairInv(b, a) /\ AttemptInv(a) /\ AttemptInv(b)
    BY <1>1 DEF IInv
  <2>3. Sibling(a, b) /\ attempt[a].number # attempt[b].number
          /\ ~(attempt[a].number < attempt[b].number) /\ ~(attempt[b].number < attempt[a].number)
    BY <2>1, <2>2 DEF AttemptInv, PairInv, Used
  <2>4. attempt[a].number \in Nat /\ attempt[b].number \in Nat
    BY <1>1, RowTypes DEF IInv
  <2> QED BY <2>3, <2>4
<1> QED BY <1>1, WorkflowInvariance, PTL

\* A failed POD attempt that its member retries leads to no second request while the first
\* may have been paid for nothing (assertReconfigurationSafe).
THEOREM WorkflowRetryBuysNothing == Spec => []RetryBuysNothingTwice
<1>1. ASSUME IInv PROVE RetryBuysNothingTwice
  <2>1. \A a, b \in Attempt : RetryInv(a, b)
    BY <1>1 DEF IInv
  <2> QED BY <2>1 DEF RetryBuysNothingTwice, RetryInv, Out, Spent
<1> QED BY <1>1, WorkflowInvariance, PTL

\* Where the array follows the flow, what rework overtakes is put back: one node is open at
\* a time (reopenFrom, completeWorkflowNode).
THEOREM WorkflowOneOpen == Spec => [](InFlowOrder => OneOpenNode)
<1>1. ASSUME IInv PROVE InFlowOrder => OneOpenNode
  <2>1. SUFFICES ASSUME InFlowOrder, NEW r \in Run, NEW m \in Node, NEW n \in Node,
                        Kind[m] # "end", Kind[n] # "end",
                        node[r][m].status \in Open, node[r][n].status \in Open
                 PROVE  m = n
    BY DEF OneOpenNode
  <2>2. Ahead(node[r]) /\ node[r] \in [Node -> NodeRow]
    BY <1>1, <2>1, DecidesRow DEF IInv, Focus
  <2> QED BY <2>1, <2>2, OneOpen
<1> QED BY <1>1, WorkflowInvariance, PTL

\* And two workers never act for one run: the live attempt is the latest one of the current
\* node (cancelWorkflowAttempts, prepare).
THEOREM WorkflowOneLive == Spec => [](InFlowOrder => OneLiveAttempt)
<1>1. ASSUME IInv PROVE InFlowOrder => OneLiveAttempt
  BY <1>1 DEF IInv, Focus, OnIt, OneLiveAttempt
<1> QED BY <1>1, WorkflowInvariance, PTL
=============================================================================
