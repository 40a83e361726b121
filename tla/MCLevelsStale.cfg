CONSTANTS
  Key = {1, 2}
  NumLevels = 3
  MaxMemCompactLevel = 1
  SplitKeys = TRUE
  ManualFiles = 1
  MaxWrites = 4
  MaxSnapshots = 1
SPECIFICATION Spec
INVARIANTS SearchByLevelIsEnough
CHECK_DEADLOCK FALSE
