SPECIFICATION Spec
CONSTANTS
  Draft = {d1}
  d1 = d1
  Activation = {}
  DraftOf <- MCDraftOf
  Client = {c1}
  PublicationWorker = {w1}
  ReconciliationWorker = {v1}
  NoWorker = NoWorker
  Images = 1
  Attempts = 2
  Reads = 2
  Faults = {"queue"}
  MaxFaults = 1
PROPERTY EndedStaysQuiet
CHECK_DEADLOCK FALSE
