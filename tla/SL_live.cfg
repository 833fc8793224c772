SPECIFICATION FairSpec
CONSTANTS
  s1 = s1
  s2 = s2
  Sym = {s1, s2}
  EntryQty = 1
  MaxPositions = 2
  MaxDay = 1
  MaxEntries = 2
  MaxCrashes = 0
  MaxOps = 2
  MaxSlips = 0
  Faults = {}
PROPERTY KillFlattens
PROPERTY SquareOffFlat
PROPERTY NoEntryAfterKill
