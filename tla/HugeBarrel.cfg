SPECIFICATION Spec
CONSTANTS
  MaxKey = 3
  MaxEntriesPerRange = 1
  RangeCacheSize = 1
  RangesPerFile = 1
  MaxPacked = 1
  Recovery = {TRUE, FALSE}
  MaxWrites = 4
  MaxOpens = 2
INVARIANTS
  TypeOK
  EntriesPointAtRecords
  ReadsFindTheLastWrite
PROPERTIES
  NoStepLosesSavedKeys
  CloseSavesEverything
  RecoveryFindsEveryKey
CHECK_DEADLOCK FALSE
