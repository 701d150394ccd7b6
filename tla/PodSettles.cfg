SPECIFICATION FairSpec
CONSTANTS
  Task = {t1}
  NoTask = NoTask
  Worker = {w1, w2}
  Submittable = {t1}
  Dispatcher = {"owner", "workflow", "scheduler"}
  Tries = 3
  Backlog = 1
  Faults = {"crash", "queue", "storage", "database"}
  MaxFaults = 2
INVARIANT NothingLeftBehind
PROPERTY TasksEnd
PROPERTY SavedIsAdopted
CHECK_DEADLOCK FALSE
