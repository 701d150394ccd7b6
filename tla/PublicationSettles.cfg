SPECIFICATION FairSpec
CONSTANTS
  Draft = {d1}
  d1 = d1
  Activation = {a1}
  DraftOf <- MCDraftOf
  Client = {c1}
  PublicationWorker = {w1}
  ReconciliationWorker = {v1}
  NoWorker = NoWorker
  Images = 1
  Attempts = 2
  Reads = 2
  Faults = {"queue", "lease", "rate_limit", "lost_reply", "reject", "grounds"}
  MaxFaults = 2
PROPERTY BegunIsSettled
CHECK_DEADLOCK FALSE
