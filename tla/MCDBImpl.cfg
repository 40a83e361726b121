CONSTANTS
  Readers = {r1}
  MemCap = 1
  L0Trigger = 1
  L0Stop = 2
  ReuseLogs = FALSE
  MaxWrites = 2
  MaxFile = 8
  MaxIncidents = 2
SPECIFICATION FairSpec
INVARIANTS TypeOK NothingLost AlwaysRecoverable OpensAgain UsedFilesExist LaterWins
PROPERTIES WriterServed ImplementsStore
CHECK_DEADLOCK FALSE
