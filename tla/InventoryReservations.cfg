SPECIFICATION Spec
CONSTANTS
  Session = {s1, s2}
  Dim = {1}
  Lot = {}
  NoLot = NoLot
  L1 = L1
  LotDims = {}
  LotOf <- MCLotOf
  MoveKey = {k1, k2}
  EventKey = {e1}
  RebuildKey = {b1}
  Resv = {r1, r2}
  NoResv = NoResv
  Xfer = {}
  Qty = {1, 2}
  Delta <- MCDelta
  MaxStock = 3
  Ops = {"move", "reserve", "release", "rebuild", "consume"}
  Closable = {}
SYMMETRY Interchange
INVARIANT BalanceIsEvidence
INVARIANT NoOversell
INVARIANT AggregatesAreSums
PROPERTY RetryIsAnswered
PROPERTY ReservationLife
PROPERTY ImplementsBook
