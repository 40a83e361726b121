CONSTANTS
  Key = {1, 2, 3}
  NumLevels = 4
  MaxMemCompactLevel = 2
  SplitKeys = FALSE
  ManualFiles = 2
  MaxWrites = 4
  MaxSnapshots = 0
SPECIFICATION Spec
INVARIANTS LevelsDisjoint
CHECK_DEADLOCK FALSE
