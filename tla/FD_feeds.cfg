SPECIFICATION FeedsSpec
CONSTANTS
  k1 = k1
  k2 = k2
  ta = ta
  da = da
  w1 = w1
  w2 = w2
  Touch = {ta}
  Depth = {da}
  Attempts = 3
  MaxFaults = 3
  MaxCalls = 3
  Keys = {k1, k2}
  MaxAge = 1
  StaleAfter = 1
  PollTime = 1
  Keeper = TRUE
  MaxDrops = 2
  MaxAsks = 3
  Threads = {w1, w2}
  BreakerFails = 2
  BreakerHold = 2
  QuoteTtl = 1
  CandleTtl = 2
  ChainTtl = 2
  FeedFresh = 1
  CallTime = 1
  MaxTroubles = 1
  r1 = r1
  r2 = r2
  Requests = {r1, r2}
  MaxMishaps = 3
INVARIANT StreamsAgree
INVARIANT StreamsRestored
INVARIANT FreshIsRecent
INVARIANT ServedIsRecent
PROPERTY FeedHeals
PROPERTY DataReturns
CHECK_DEADLOCK FALSE

PROPERTY SessionHeals
