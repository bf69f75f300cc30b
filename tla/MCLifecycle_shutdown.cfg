SPECIFICATION Spec
CONSTANTS
  PyThread = {Main}
  Main = Main
  Func = {}
  Configs <- AnyConfig
  Nobody = Nobody
  Daemon = {d1}
  User = {}
  Hook = {h1, h2}
  MaxHooks = 2
SYMMETRY Symmetric
INVARIANTS
  FreedUntouched
  HooksServed
  HandlersRestored
CHECK_DEADLOCK FALSE
