SPECIFICATION TextureSpec
CONSTANTS
  Bases <- MCBases
  Assets <- MCAssets
  Scenes <- MCScenes
  Covered = {"b"}
  Jobs = {j1, j2}
  MainBudget = 2
  SmallBudget = 1
  OverCap = 4
  HeldMax = 2
  QueueCap = 1
  DrainMax = 2
  Ids <- MCIds
  NoBase = NoBase
  NoId = NoId
  NoPage = NoPage
  NoJob = NoJob
  Nil = Nil
  MaxDemands = 3
  MaxCuts = 1
INVARIANTS NoDangling OnePlace BytesAreTrue
SYMMETRY SymJobs
CHECK_DEADLOCK FALSE
