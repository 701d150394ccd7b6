SPECIFICATION Spec
CONSTANTS
  Run = {r1}
  Last = 5
  Kind <- LineKind
  Succ <- LineSucc
  Delegates = {2}
  Member = {m1}
  NoMember = NoMember
  Worker = {w1, w2}
  NoWorker = NoWorker
  MaxAttempts = 2
  MaxRevision = 3
  Recoveries = 1
  Backlog = 1
  Faults = {"crash", "slow", "database", "grounds", "input"}
  MaxFaults = 1
SYMMETRY Interchange
INVARIANT TypeOK
INVARIANT OneLiveAttempt
INVARIANT CompletedIsVerified
INVARIANT ResultUsedOnce
INVARIANT RetryBuysNothingTwice
INVARIANT OneOpenNode
PROPERTY EndedAttemptsStay
PROPERTY ChangesAreNumbered
CHECK_DEADLOCK FALSE
