SPECIFICATION Spec
CONSTANTS
  Workers = {w1}
  Imported = Imported
  MaxChanges = 3
  MaxApplies = 2
  MaxFails = 1
INVARIANTS
  CloseSaves
  QuietIsSaved
PROPERTIES
  Converges
