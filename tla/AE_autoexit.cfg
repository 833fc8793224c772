SPECIFICATION AutoExitSpec
CONSTANTS
  k1 = k1
  k2 = k2
  p1 = p1
  p2 = p2
  l1 = l1
  l2 = l2
  t1 = t1
  t2 = t2
  NoTask = NoTask
  NoLot = NoLot
  Key = {k1, k2}
  Pos = {p1, p2}
  KeyOf <- EachKey
  StartQty <- TwoOne
  Lot = {}
  PosOf <- NoLots
  LotQty <- NoLots
  Age <- NoLots
  SymTargets = {k1}
  LotTargets = {}
  ExchTarget = TRUE
  Task = {t1, t2}
  MaxOrders = 3
  MaxFetches = 2
  MaxReenables = 0
  Faults = {"broker_kills"}
INVARIANT MixedFillsCounted
INVARIANT LotsMatchAccount
PROPERTY ImplementsDesk
PROPERTY FiredIsNotDead
