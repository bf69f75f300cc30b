SPECIFICATION Spec
CONSTANTS
  Conn = {c1}
  Cursors = {k1}
  Thread = {t1, t2}
  Query <- MCQuery
  UserType <- MCUserType
  MaxStmt = 2
  MaxRows = 2
INVARIANTS
  TypeOK
  CachesCurrent
  NothingLeaked
  LookupTotal
SYMMETRY Threads
CHECK_DEADLOCK FALSE
