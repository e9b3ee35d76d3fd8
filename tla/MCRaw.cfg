SPECIFICATION RawFairSpec
CONSTANTS
  Callers = {c1, c2}
  small = small
  large = large
  Urls <- MCUrls
  Size <- MCSize
  T2Budget = 2
  Attempts = 2
  MaxTier = 2
  NoUrl = NoUrl
  MaxFetches = 3
INVARIANTS RestWithinBudget BurstCountsOnce
PROPERTIES FetchEnds
CHECK_DEADLOCK FALSE
