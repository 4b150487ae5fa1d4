SPECIFICATION Spec
CONSTANTS
  t1 = t1
  t2 = t2
  Thread = {t1, t2}
  Barrel = {b1, b2}
  NoBarrel = NoBarrel
  NoThread = NoThread
  OpsOf <- AnswerOps
  MaxAttempts = 2
  MaxCalls = 3
  MaxEvents = 1
INVARIANTS
  TypeOK
  OwnAnswer
  NoAnswerLeftBehind
  BarrelAgrees
  SuccessIsEarned
PROPERTIES
  CallsEnd
CHECK_DEADLOCK FALSE
