SPECIFICATION Spec
CONSTANTS
  MaxPieces = 6
  MaxConnects = 3

INVARIANT
  MessagesAreWhole
CHECK_DEADLOCK FALSE
