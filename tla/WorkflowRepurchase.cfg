SPECIFICATION Spec
CONSTANTS
  Run = {r1}
  Last = 5
  Kind <- LineKind
  Succ <- LineSucc
  Delegates = {2}
  Member = {m1}
  NoMember = NoMember
  Worker = {w1}
  NoWorker = NoWorker
  MaxAttempts = 3
  MaxRevision = 6
  Recoveries = 1
  Backlog = 1
  Faults = {"input"}
  MaxFaults = 1
INVARIANT NoPaidRequestAnew
CHECK_DEADLOCK FALSE
