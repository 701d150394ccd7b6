SPECIFICATION FairSpec
CONSTANTS
  Session = {s1, s2}
  Dim = {1, 2}
  Lot = {}
  NoLot = NoLot
  L1 = L1
  LotDims = {}
  LotOf <- MCLotOf
  MoveKey = {k1}
  EventKey = {e1}
  RebuildKey = {b1}
  Resv = {r1}
  NoResv = NoResv
  Xfer = {x1, x2}
  Qty = {1}
  Delta <- MCDelta
  MaxStock = 1
  Ops = {"return", "reserve", "consume", "create_transfer", "dispatch", "rebuild"}
  Closable = {}
PROPERTY CommandsEnd
