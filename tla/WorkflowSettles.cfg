SPECIFICATION FairSpec
CONSTANTS
  Run = {r1}
  Last = 6
  Kind <- ForkKind
  Succ <- ForkSucc
  Delegates = {4}
  Member = {m1}
  NoMember = NoMember
  Worker = {w1}
  NoWorker = NoWorker
  MaxAttempts = 1
  MaxRevision = 4
  Recoveries = 1
  Backlog = 1
  Faults = {"crash", "slow", "queue", "database"}
  MaxFaults = 1
PROPERTY NodesSettle
CHECK_DEADLOCK FALSE
