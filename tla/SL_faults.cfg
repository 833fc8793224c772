SPECIFICATION Spec
CONSTANTS
  s1 = s1
  s2 = s2
  Sym = {s1}
  EntryQty = 2
  MaxPositions = 1
  MaxDay = 2
  MaxEntries = 1
  MaxCrashes = 1
  MaxOps = 1
  MaxSlips = 1
  Faults = {"cancel_fails", "rest_fills", "unheard", "blind_positions", "rms_square_off", "mode_toggle"}
INVARIANT JournalMatchesTracked
INVARIANT LedgerBalanced
