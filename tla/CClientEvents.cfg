SPECIFICATION Spec
CONSTANTS
  t1 = t1
  t2 = t2
  Thread = {t1, t2}
  Barrel = {b1}
  NoBarrel = NoBarrel
  NoThread = NoThread
  OpsOf <- EventOps
  MaxAttempts = 2
  MaxCalls = 4
  MaxEvents = 2
INVARIANTS
  OwnAnswer

  
CHECK_DEADLOCK FALSE
