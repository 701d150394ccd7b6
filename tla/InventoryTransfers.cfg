SPECIFICATION Spec
CONSTANTS
  Session = {s1, s2}
  Dim = {1, 2}
  Lot = {L1}
  NoLot = NoLot
  L1 = L1
  LotDims = {1, 2}
  LotOf <- MCLotOf
  MoveKey = {k1, k2}
  EventKey = {e1, e2}
  RebuildKey = {}
  Resv = {}
  NoResv = NoResv
  Xfer = {x1, x2}
  Qty = {1}
  Delta <- MCDelta
  MaxStock = 2
  Ops = {"return", "receipt", "create_lot", "create_transfer", "dispatch", "receive", "cancel"}
  Closable = {1}
SYMMETRY Interchange
INVARIANT TypeOK
INVARIANT TransfersConserveStock
INVARIANT ReadsAreFresh
PROPERTY ImplementsBook
