SPECIFICATION LiveSpec
CONSTANTS
  Ref = {r1, r2}
  Null = Null
  SIZE = 1
  WaitMayEndEarly = FALSE
  MaxSentinels = 1
PROPERTIES
  CollectedIsReleased
  StopReturns
  KeepsPromise
CHECK_DEADLOCK FALSE
