SPECIFICATION Spec
CONSTANTS
  MaxPieces = 6
  MaxConnects = 3
INVARIANTS
  TypeOK
  NeverDeaf
PROPERTIES
  NoLossWhileThereIsRoom
  ImplementsLossyChannel
CHECK_DEADLOCK FALSE
