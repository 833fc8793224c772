SPECIFICATION Spec
CONSTANTS
  s1 = s1
  s2 = s2
  Sym = {s1}
  EntryQty = 2
  MaxPositions = 1
  MaxDay = 2
  MaxEntries = 2
  MaxCrashes = 1
  MaxOps = 2
  MaxSlips = 0
  Faults = {}
INVARIANT BrokerMatchesTracked
PROPERTY NoEntryAfterJournalledHalt
