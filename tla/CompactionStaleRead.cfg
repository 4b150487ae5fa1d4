SPECIFICATION Spec
CONSTANTS
  Key = {k1, k2}
  Val = {v1}
  BigVal = {}
  NoVal = NoVal
  Unknown = Unknown
  RemovalMayFail = FALSE
  MaxFile = 2
  MaxWrites = 2
  MaxTtl = 0
  MaxClock = 0
  MaxFailures = 0
  MaxCrashes = 0
INVARIANTS
  GetsReadTheirKey
