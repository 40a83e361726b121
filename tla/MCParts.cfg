CONSTANTS
  Key = {1, 2, 3}
  NumLevels = 4
  MaxMemCompactLevel = 2
  SplitKeys = FALSE
  ManualFiles = 0
  MaxWrites = 3
  MaxSnapshots = 1
  IterKey = {1, 2}
  IterWrites = 3
  CacheReader = {r1, r2}
  CacheFile = {f1, f2}
  CacheCapacity = 2
  CacheCharge = {1, 2}
  MaxInserts = 4
  ListKey = {1, 2, 3}
  ListHeight = 3
  ListReader = {r1}
  BlockSize = 6
  HeaderSize = 2
  RecordSizes = {1, 5}
  MaxRecords = 3
  MaxMishaps = 2
  UserKeys <- MCUserKeys
  MaxByte = 2
  Sequence = {1, 2}
  Interval = 2
  FilterBase = 2
  MaxBlockBytes = 3
  MaxEntries = 3
  Thread = {t1, t2, t3}
  BatchSize = {1, 2}
  SmallSize = 1
  GroupSize = 3
  CompactAt = 1
  SlowAt = 1
  StopAt = 2
  MaxCalls = 3
  Phone = {p1, p2}
  NoPhone = NoPhone
  MaxRequests = 2
  MaxSignIns = 2
  DbUser = {u1}
  NoUser = NoUser
  Query = {q1}
  MaxPuts = 2
  MaxInFlight = 2
SPECIFICATION PartsSpec
INVARIANTS
  TypeOK LevelsOrdered ReadsRight
  CursorRight TablesKept SearchExact ReadBackExactly TableExact
  WritesKept NobodyForgotten PhoneLoginSound ConnectionSound
CHECK_DEADLOCK FALSE
