SPECIFICATION Spec
CONSTANTS
  Workers = {w1}
  Imported = Imported
  MaxChanges = 2
  MaxApplies = 1
  MaxFails = 0
INVARIANT
  NewestLands
