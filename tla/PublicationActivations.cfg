SPECIFICATION Spec
CONSTANTS
  Draft = {d1}
  d1 = d1
  Activation = {a1}
  DraftOf <- MCDraftOf
  Client = {c1, c2}
  PublicationWorker = {w1, w2}
  ReconciliationWorker = {v1}
  NoWorker = NoWorker
  Images = 1
  Attempts = 2
  Reads = 2
  Faults = {"lease", "evict", "lost_reply", "rate_limit", "reject", "grounds"}
  MaxFaults = 3
SYMMETRY Interchange
INVARIANT NoMutationRepeats
INVARIANT HandedOver
INVARIANT NoDraftLeftBehind
PROPERTY KeepsPromise
CHECK_DEADLOCK FALSE
