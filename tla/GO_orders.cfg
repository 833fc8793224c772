SPECIFICATION Spec
CONSTANTS
  a1 = a1
  c1 = c1
  i1 = i1
  i2 = i2
  k1 = k1
  k2 = k2
  s1 = s1
  s2 = s2
  l1 = l1
  p1 = p1
  None = None
  Account = {a1}
  Contract = {c1}
  Intent = {i1, i2}
  AccountOf <- MCAccountOf
  ContractOf <- MCContractOf
  Router = {k1, k2}
  Submitter = {s1, s2}
  DedupTTL = 0
  InflightTTL = 0
  MaxTime = 1
  Lot = {l1}
  LotQty <- TwoShares
  Carry <- TwoShares
  NRolls = 2
  MaxNearExits = 2
  Reconcilers = {k1, k2}
  FarOf <- FarOfL1
  Faults = {"unheard", "cancels"}
  MaxCrashes = 1
  PO = {p1}
  Want <- TwoWanted
  MaxDays = 2
  MaxAttempts = 2
  MaxSweeps = 2
  MaxDeaths = 1
  MaxLost = 1
  MaxOrders = 2
  MaxLots = 3
  MaxExits = 3
  MaxQty = 2
  Sources = {"entry", "exit", "outside", "card", "lost", "sync", "reentry"}
  Held = 1
  o1 = o1
  o2 = o2
  Orders = {o1, o2}
  ProxyCount = 2
  Mode = "auto"
  Sticky = 1
  LostAnswers = FALSE
  MaxMoves = 2
INVARIANT OneInFlight
INVARIANT FarCovered
INVARIANT CarryConserved
INVARIANT RemainderExact
INVARIANT OncePerDay
INVARIANT LedgerMatches
INVARIANT ClosedIsSwept
INVARIANT PlacedOnce
CHECK_DEADLOCK FALSE
