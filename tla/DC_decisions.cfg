SPECIFICATION DecisionsSpec
SYMMETRY Alike
CONSTANTS
  t1 = t1
  t2 = t2
  r1 = r1
  r2 = r2
  Bars <- AllBars
  Band = 6
  Zone = 2
  Chase = 3
  PqfMin = 3
  PqfMax = 32
  TouchValid = 1
  MinFlipBars = 2
  MaxPerLeg = 2
  Cooldown = 3
  MinFlipAge = 3
  Warm = 2
  Strikes = {2, 4, 6, 8, 10}
  Chains <- Snapshots
  MaxQuote = 3
  LotSize = 1
  FrictionPerLeg = 10
  MaxPerType = 4
  MaxExact = 2
  MaxResults = 1
  Tokens = {t1, t2}
  Requests = {r1, r2}
  Batch = 1
  MaxFrames = 3
  MaxFailures = 1
  Names = {"a"}
  Budgets = {1000, 900}
  Prices = {50}
  Stops = {25}
  Reprices = {0, 49}
  FoundLots = {1}
  Results <- SessionResults
  Lot = 1
  MaxPositions = 2
  MaxLots = 2
  RiskPct = 6
  HeatPct = 4
  PremiumPct = 20
  HardPct = 13
  PremiumLossPct = 40
  LossPct = 12
  DayLoss = 600
  MinRisk = 1
  Slip = 1
  MaxSurprises = 1
  Marks = {2, 4}
  Factor = 3
  MaxHeld = 2
  MaxTrades = 3
  MaxNights = 1
INVARIANT FramesAgree
INVARIANT FloorIsHonest
INVARIANT OiIsIdentified
INVARIANT SweepsLeaveNothing
INVARIANT LotsMatchPosition
PROPERTY EntryIsCovered
CHECK_DEADLOCK FALSE
