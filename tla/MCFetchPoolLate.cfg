\* The exactly-once promise to the letter, with Close racing Submit.
SPECIFICATION Spec
CONSTANTS
  h1 = h1
  h2 = h2
  l1 = l1
  l2 = l2
  w1 = w1
  w2 = w2
  NoJob = NoJob
  Jobs = {h1, l1}
  High = {h1}
  Sticky = {}
  Workers = {w1}
  HighCap = 1
  LowCap = 1
  MaxEpoch = 1
INVARIANT WaitersAlwaysHear
