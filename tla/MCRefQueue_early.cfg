SPECIFICATION Spec
CONSTANTS
  Ref = {r1, r2, r3}
  Null = Null
  SIZE = 2
  WaitMayEndEarly = TRUE
  MaxSentinels = 1
SYMMETRY RefSymmetry
INVARIANTS
  TypeOK
  ReleasedOnce
  KeptWhileLive
  AddInBounds
  FlushComplete
CHECK_DEADLOCK FALSE
