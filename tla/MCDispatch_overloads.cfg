SPECIFICATION Spec
CONSTANTS
  Quality <- findJavaConversion
  Super <- TheSuper
  Component <- TheComponent
  Hints <- TheHints
  Functional <- TheFunctional
  Receiver <- TheReceiver
  NoMethod = NoMethod
  Orders <- AnyOrder
  Method <- AllMethods
  MaxMethods = 3
  MaxTypes = 2
  MaxCircle = 4
  Dispatches <- ClassesABC
  Arguments <- AnyArguments
  MaxCalls <- AnyCalls
INVARIANTS
  SortedOut
  SortNeverStuck
  MostSpecificWins
  AmbiguityIsReal
  HiddenFitsToo
  CacheTransparent
  ArgumentsArrive
CHECK_DEADLOCK FALSE
