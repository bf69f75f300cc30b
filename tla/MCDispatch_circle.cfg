SPECIFICATION Spec
CONSTANTS
  Quality <- findJavaConversion
  Super <- TheSuper
  Component <- TheComponent
  Hints <- TheHints
  Functional <- TheFunctional
  Receiver <- TheReceiver
  NoMethod = NoMethod
  Orders <- CircleOrder
  Method <- CircleMethods
  MaxMethods = 0
  MaxTypes = 0
  MaxCircle = 4
  Dispatches <- ClassesABC
  Arguments <- AnyArguments
  MaxCalls <- AnyCalls
INVARIANTS
  SortGoesOn
CHECK_DEADLOCK FALSE
