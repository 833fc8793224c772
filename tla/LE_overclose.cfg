SPECIFICATION Spec
CONSTANTS
  Sym = {"INFY"}
  EntryQty = 2
  MaxPositions = 2
  MaxEntries = 1
  MaxCrashes = 0
  MaxToggles = 0
  MaxSlips = 0
  Faults = {}
INVARIANT NoReversal
