SPECIFICATION Spec
CONSTANTS
  Key = {k1}
  Val = {v1, v2}
  BigVal = {v2}
  NoVal = NoVal
  Unknown = Unknown
  RemovalMayFail = FALSE
  MaxFile = 3
  MaxWrites = 2
  MaxTtl = 1
  MaxClock = 1
  MaxFailures = 1
  MaxCrashes = 0
INVARIANTS
  ReadsFindTheLastWrite
PROPERTIES
  CompactionEnds
