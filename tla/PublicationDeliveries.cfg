SPECIFICATION Spec
CONSTANTS
  Draft = {d1}
  d1 = d1
  Activation = {a1}
  DraftOf <- MCDraftOf
  Client = {c1}
  PublicationWorker = {w1, w2}
  ReconciliationWorker = {v1}
  NoWorker = NoWorker
  Images = 1
  Attempts = 2
  Reads = 2
  Faults = {"crash", "stall", "database", "lost_reply", "rate_limit", "reject", "grounds"}
  MaxFaults = 3
SYMMETRY Interchange
INVARIANT TypeOK
INVARIANT RecordedIsDone
INVARIANT ReconciliationOnlyReads
INVARIANT RepeatNeedsRedelivery
PROPERTY ProgressOnlyAdvances
PROPERTY EndedStaysQuiet
PROPERTY TerminalIsFinal
CHECK_DEADLOCK FALSE
