SPECIFICATION Spec
CONSTANTS
  Task = {t1}
  NoTask = NoTask
  Worker = {w1, w2}
  Submittable = {t1}
  Dispatcher = {"owner", "scheduler"}
  Tries = 3
  Backlog = 1
  Faults = {"crash", "slow", "storage", "database", "lost_reply", "bad_reply", "grounds"}
  MaxFaults = 3
SYMMETRY Interchange
INVARIANT TypeOK
INVARIANT PaidOnce
INVARIANT GivenUpForCause
INVARIANT AdoptedIsSaved
PROPERTY KeepsPromise
CHECK_DEADLOCK FALSE
