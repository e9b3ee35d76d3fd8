\* Both lanes of one slot and both smaller than their load, one epoch bump.
SPECIFICATION FairSpec
CONSTANTS
  h1 = h1
  h2 = h2
  l1 = l1
  l2 = l2
  w1 = w1
  w2 = w2
  NoJob = NoJob
  Jobs = {h1, h2, l1, l2}
  High = {h1, h2}
  Sticky = {h1}
  Workers = {w1}
  HighCap = 1
  LowCap = 1
  MaxEpoch = 1
INVARIANTS AtMostOnce HighNeverShed CloseHearsAll
PROPERTIES ServiceSpec AcceptedIsHeard
