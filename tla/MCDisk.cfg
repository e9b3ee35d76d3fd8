SPECIFICATION Spec
CONSTANTS
  k1 = k1
  k2 = k2
  Keys = {k1, k2}
  Size <- MCSize
  Callers = {c1}
  Budgets = {0, 2}
  QueueCap = 2
  PruneEvery = 2
  NoKey = NoKey
  NoBlob = NoBlob
  Torn = Torn
  Damaged = Damaged
  MaxOps = 3
  MaxBudgets = 1
  MaxUpsets = 1
INVARIANTS
  BudgetEnforced
  CloseDrains
PROPERTIES
  StoreSpec
  CloseEnds
