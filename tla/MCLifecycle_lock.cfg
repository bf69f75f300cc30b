SPECIFICATION Spec
CONSTANTS
  PyThread = {Main}
  Main = Main
  Func = {}
  Configs <- AnyConfig
  Nobody = Nobody
  Daemon = {d1}
  User = {}
  Hook = {}
  MaxHooks = 0
INVARIANTS
  LockNotLost
CHECK_DEADLOCK FALSE
