SPECIFICATION Spec
CONSTANTS
  Class <- MCClass
  Thread = {t1, t2}
  Proto <- MCProto
  Bases <- MCBases
  Mro <- MCMro
  Inner <- MCInner
  Owners <- MCOwners
INVARIANTS
  OneType
  EveryHookRuns
  OriginalKept
PROPERTIES
  RequestsReturn
CHECK_DEADLOCK FALSE
