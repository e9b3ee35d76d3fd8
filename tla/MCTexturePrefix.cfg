SPECIFICATION TextureSpec
CONSTANTS
  Bases <- MCBases
  Assets <- MCRefused
  Scenes <- MCScenes
  Covered = {"b"}
  Jobs = {j1}
  MainBudget = 2
  SmallBudget = 1
  OverCap = 4
  HeldMax = 2
  QueueCap = 1
  DrainMax = 2
  Ids <- MCIds
  NoBase = NoBase
  NoId = NoId
  NoPage = NoPage
  NoJob = NoJob
  Nil = Nil
  MaxDemands = 1
  MaxCuts = 0
INVARIANT FullReplacesPrefix
CHECK_DEADLOCK FALSE
