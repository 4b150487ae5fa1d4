SPECIFICATION Spec
CONSTANTS
  Key = {k1, k2}
  Val = {v1}
  NoVal = NoVal
  Torn = Torn
  MaxTtl = 1
  MaxLog = 4
  MaxClock = 2
INVARIANTS
  TypeOK
  EntryPointsAtItsKey
  RestartLosesNothing
PROPERTIES
  DeadKeysStayDead
  ImplementsKVStore
