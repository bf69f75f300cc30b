SPECIFICATION LiveSpec
CONSTANTS
  PyThread = {Main, t2}
  Main = Main
  Func = {f1}
  Configs <- DefaultConfig
  Nobody = Nobody
  Daemon = {}
  User = {u1}
  Hook = {h1}
  MaxHooks = 1
INVARIANTS
  InitializersOnce
PROPERTIES
  ShutdownReturns
CHECK_DEADLOCK FALSE
