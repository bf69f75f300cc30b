SPECIFICATION LiveSpec
CONSTANTS
  Thread = {t1, t2}
  MaxCalls = 4
  Nobody = Nobody
INVARIANTS
  ExitDetaches
  LockHeld
PROPERTIES
  DestroyReturns
  MonitorServed
CHECK_DEADLOCK FALSE
