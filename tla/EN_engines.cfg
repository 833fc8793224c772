SPECIFICATION EnginesSpec
CONSTANTS
  s1 = s1
  s2 = s2
  Sym = {s1}
  EntryQty = 2
  MaxPositions = 2
  MaxEntries = 2
  MaxCrashes = 1
  MaxToggles = 1
  MaxSlips = 1
  Faults = {"slow_fill", "dead_part", "unheard"}
  Symbols = {s1}
  Cap = 2
  MaxOpen = 1
  Days = 2
  MaxPauses = 2
  MaxSwitches = 1
  MaxDeaths = 2
  MaxTrades = 3
  Prices <- BarPrices
  Strikes <- StrikePrices
  HardStop = 3
  FallbackStop = 2
  MinGap = 1
  Buffer = 1
  FirstAt = 2
  SecondAt = 3
  WallNear = 1
  WallFar = 3
  UnwindStop = 1
  UnwindTrail = 2
  Spots <- UnderlyingSpots
  Lots = 3
  FirstStop = 2
  Trails = {1, 9}
INVARIANT NothingDropped
INVARIANT LegMatchesAccount
INVARIANT SimulationAgrees
PROPERTY EntryIsSafe
PROPERTY SquaredOff
PROPERTY CapHolds
PROPERTY PauseSettles
PROPERTY RiskFree
CHECK_DEADLOCK FALSE
