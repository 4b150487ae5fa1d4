SPECIFICATION Spec
CONSTANTS
  Key = {k1, k2}
  Val = {v1, v2}
  BigVal = {v2}
  NoVal = NoVal
  Unknown = Unknown
  RemovalMayFail = TRUE
  MaxFile = 3
  MaxWrites = 2
  MaxTtl = 0
  MaxClock = 0
  MaxFailures = 1
  MaxCrashes = 1
INVARIANTS
  TypeOK
  ReadsFindTheLastWrite
  ReadsInFlightFindIt
  LiveDataIsOnDisk
