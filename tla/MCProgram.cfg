SPECIFICATION Spec
CONSTANTS
  Jars = {"a", "b"}
  Lib = {"a"}
  Env <- MCEnv
  Machines <- MCMachines
  Adders = {"t1"}
  Keyword = {"with"}
  Escaped <- MCEscaped
  Boot <- MCBoot
  Provides <- MCProvides
  Names <- MCNames
  Domains <- MCDomains
  Customized <- MCCustomized
  PyClass <- MCPyClass
  Mro <- MCMro
  Overrides <- MCOverrides
  Implements <- MCImplements
  Interface = {"Runnable", "Callable", "Future"}
  Abstract <- MCAbstract
  HomeJar <- MCHomeJar
  Workloads <- MCWorkloads
  Elem = {"a", "b"}
  MaxLen = 3
  MapUser = {"u1", "u2"}
  Object = {"a", "b"}
  Dumps <- MCDumps
  MaxDumps = 3
  MaxVersion = 1
  Link = {"c1", "c2"}
  DbUser = {"d1", "d2"}
  Row = {"r1", "r2"}
  Level = {"low", "high", "none"}
  Supported = {"low", "high"}
INVARIANTS TypeOK PathsReachLoader ImportsResolve ProxyComplete FinderFallsBack ConnectionHonest
           ContainersAgree PickleRoundTrip
CHECK_DEADLOCK FALSE
