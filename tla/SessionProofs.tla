----------------------------- MODULE SessionProofs -----------------------------
(***************************************************************************)
(* The class path, the search for the JVM and the proxies of a session,    *)
(* for any jars, threads, machines, Python classes and interfaces, and for *)
(* programs of any length.                                                 *)
(***************************************************************************)
EXTENDS Program, WellFoundedInduction, FiniteSetTheorems, TLAPS

StartType(U) == [pc : {"idle", "failed", "launch", "initialize", "done"}, path : SUBSET U, found : U,
                 machine : Machines \cup {NoMachine}, next : Nat]
AdderType == [pc : {"idle", "add"}, path : Entry, running : BOOLEAN]

PathTyped(U) ==
  /\ jvm \in {"off", "on", "down"} /\ started \in BOOLEAN
  /\ disk \subseteq Jars /\ loader \subseteq disk /\ owed \subseteq disk
  /\ CLASSPATHS \in Seq(Entry) /\ initializers \in Seq(Entry)
  /\ start \in StartType(U)
  /\ adder \in [Adders -> AdderType]

\* The state of the JVM and that of the call of startJVM
InStep ==
  /\ jvm = "off" <=> start.pc \in {"idle", "failed", "launch"}
  /\ started => start.pc = "done" /\ (jvm = "on" => initializers = <<>>)

\* What is owed to the program is on the path that startJVM has read, or in the
\* loader, or in the hands of a thread that has seen the JVM running.
OnTheWay(x) ==
  \E t \in Adders : adder[t].pc = "add" /\ adder[t].running /\ x \in Owed(adder[t].path)
Delivered ==
  /\ start.pc \in {"idle", "failed"} => owed = {}
  /\ start.pc = "launch" => owed \subseteq start.path
  /\ jvm = "on" => \A x \in owed : x \in loader \/ OnTheWay(x)

\* The search has failed on the machine that startJVM remembers.
Searched ==
  start.pc = "failed" =>
    /\ start.machine \in Machines
    /\ getDefaultJVMPath(start.machine.fs, start.machine.platform).kind \in {"notfound", "unsupported"}

\* Every method of the interfaces is overridden in the class or in a base.
Provided(c, intf) ==
  \A i \in intf : \A m \in Abstract[i] : \E d \in ToSet(Mro[c]) : m \in Overrides[d]

ProxyTyped ==
  /\ declared \in [PyClass -> {"no", "plain", "checked", "deferred"}]
  /\ interfaces \in [PyClass -> SUBSET Interface]

\* What was checked was checked against the class itself, and what a class keeps
\* in __jpype_interfaces__ against a class it derives from.
Checked ==
  /\ \A c \in PyClass : declared[c] = "checked" => checkInterfaceOverrides(c, Implements[c])
  /\ \A c \in PyClass : Provided(c, interfaces[c])
  /\ ProxyComplete

PathInv == (\E U : PathTyped(U)) /\ InStep /\ Delivered /\ Searched
ProxyInv == ProxyTyped /\ Checked
IInv == PathInv /\ ProxyInv /\ imported.answer \in {"module", "ImportError"}

-------------------------------------------------------------------------------
\* Min of a set of natural numbers
LEMMA LeastIn ==
  ASSUME NEW S \in SUBSET Nat, S # {}
  PROVE  Min(S) \in S
<1> DEFINE Below(n) == 0 .. n
<1>1. PICK k \in S : TRUE
  OBVIOUS
<1> DEFINE T == {Below(n) : n \in {m \in S : m <= k}}
<1>2. IsFiniteSet(Below(k))
  BY FS_Interval
<1>3. T \subseteq FiniteSubsetsOf(Below(k)) /\ T # {}
  <2>1. \A n \in Nat : n <= k => Below(n) \subseteq Below(k)
    OBVIOUS
  <2> QED  BY <2>1, <1>1, <1>2, FS_Subset DEF FiniteSubsetsOf
<1>4. PICK X \in T : \A Y \in T : <<Y, X>> \notin StrictSubsetOrdering(Below(k))
  <2> HIDE DEF T, Below
  <2>1. IsWellFoundedOn(StrictSubsetOrdering(Below(k)), FiniteSubsetsOf(Below(k)))
    BY FS_StrictSubsetOrderingWellFounded
  <2> QED  BY <2>1, <1>3, WFMin
<1>5. PICK x \in S : x <= k /\ X = Below(x)
  BY <1>4
<1>6. \A y \in S : x <= y
  <2> SUFFICES ASSUME NEW y \in S, y < x PROVE FALSE
    OBVIOUS
  <2>1. Below(y) \in T /\ y <= k
    BY <1>5
  <2>2. Below(y) \subseteq Below(x) /\ Below(y) # Below(x) /\ Below(x) \subseteq Below(k)
    <3>1. x \in Below(x) /\ x \notin Below(y)
      OBVIOUS
    <3>2. Below(y) \subseteq Below(x) /\ Below(x) \subseteq Below(k)
      BY <1>5
    <3> QED  BY <3>1, <3>2
  <2>3. <<Below(y), Below(x)>> \in StrictSubsetOrdering(Below(k))
    BY <2>2 DEF StrictSubsetOrdering
  <2> QED  BY <2>1, <2>3, <1>4, <1>5
<1> QED  BY <1>5, <1>6 DEF Min

\* Attribute lookup finds a class of the mro that has the attribute.
LEMMA LookupFinds ==
  ASSUME NEW c \in PyClass, NEW having, Lookup(c, having) # "object"
  PROVE  Lookup(c, having) \in ToSet(Mro[c]) \cap having
<1> DEFINE hits == {i \in DOMAIN Mro[c] : Mro[c][i] \in having}
<1>1. hits # {} /\ Lookup(c, having) = Mro[c][Min(hits)]
  BY DEF Lookup
<1>2. hits \in SUBSET Nat
  BY MroAssumption
<1>3. Min(hits) \in hits
  <2> HIDE DEF hits
  <2> QED  BY <1>1, <1>2, LeastIn
<1> QED  BY <1>1, <1>3 DEF ToSet

\* A search that answers with an error has heard no other answer.
LEMMA SearchIsComplete ==
  ASSUME NEW fs, NEW platform \in {"linux", "darwin", "win32"},
         getDefaultJVMPath(fs, platform).kind \in {"notfound", "unsupported"}
  PROVE  answering(fs, platform, {"library", "directory"}) = {}
<1> DEFINE hits == answering(fs, platform, {"library", "directory"})
<1> SUFFICES ASSUME hits # {} PROVE FALSE
  OBVIOUS
<1>1. hits \in SUBSET Nat
  BY DEF answering, _methods
<1>2. Min(hits) \in hits
  <2> HIDE DEF hits
  <2> QED  BY <1>1, LeastIn
<1>3. getDefaultJVMPath(fs, platform) = tried(fs, platform)[Min(hits)]
  BY DEF getDefaultJVMPath
<1>4. tried(fs, platform)[Min(hits)].kind \in {"library", "directory"}
  BY <1>2 DEF answering
<1> QED  BY <1>3, <1>4

-------------------------------------------------------------------------------
\* The class path
LEMMA GlobExists == glob \subseteq disk /\ \A e : Owed(e) \subseteq disk /\ Findable(e) \subseteq disk
  BY DEF glob, Owed, Findable, Meant

LEMMA PathStarts == PathInit => PathInv
<1> SUFFICES ASSUME PathInit PROVE PathInv
  OBVIOUS
<1>1. PathTyped({Nothing})
  <2>1. <<>> \in Seq(Entry)
    OBVIOUS
  <2>2. start \in StartType({Nothing})
    BY DEF PathInit, NotStarting, StartType
  <2>3. adder \in [Adders -> AdderType]
    BY DEF PathInit, NotAdding, AdderType, Entry
  <2> QED  BY <2>1, <2>2, <2>3 DEF PathInit, PathTyped
<1>2. InStep /\ Delivered /\ Searched
  BY DEF PathInit, InStep, Delivered, Searched, NotStarting
<1> QED  BY <1>1, <1>2 DEF PathInv

LEMMA PathStutters == PathInv /\ UNCHANGED pathVars => PathInv'
  BY DEF PathInv, pathVars, PathTyped, InStep, Delivered, Searched, OnTheWay, Owed, Meant, glob

LEMMA AddTestInv ==
  ASSUME PathInv, NEW t \in Adders, NEW e \in Entry, AddTest(t, e)
  PROVE  PathInv'
<1>1. PICK U : PathTyped(U)
  BY DEF PathInv
<1>2. adder' \in [Adders -> AdderType] /\ owed' \subseteq disk
  <2>1. adder' \in [Adders -> AdderType]
    BY <1>1 DEF AddTest, PathTyped, AdderType
  <2> QED  BY <1>1, <2>1, GlobExists DEF AddTest, PathTyped
<1>3. PathTyped(U)'
  BY <1>1, <1>2 DEF AddTest, PathTyped
<1>4. InStep' /\ Searched'
  BY DEF PathInv, AddTest, InStep, Searched
<1>5. Delivered'
  <2>1. (start.pc \in {"idle", "failed"} => owed = {})' /\ (start.pc = "launch" => owed \subseteq start.path)'
    BY DEF PathInv, AddTest, InStep, Delivered
  <2>2. ASSUME jvm' = "on", NEW x \in owed' PROVE (x \in loader \/ OnTheWay(x))'
    <3>1. adder'[t].pc = "add" /\ adder'[t].running /\ adder'[t].path = e
      BY <1>1, <2>2 DEF AddTest, PathTyped
    <3>2. CASE x \in Owed(e)
      BY <3>1, <3>2 DEF OnTheWay, Owed, Meant, glob, AddTest
    <3>3. CASE x \in owed
      <4>1. x \in loader \/ OnTheWay(x)
        BY <3>3, <2>2 DEF PathInv, Delivered, AddTest
      <4>2. \A u \in Adders : adder[u].pc = "add" => adder'[u] = adder[u]
        BY <1>1 DEF AddTest, PathTyped
      <4> QED  BY <4>1, <4>2 DEF OnTheWay, Owed, Meant, glob, AddTest
    <3> QED  BY <2>2, <3>2, <3>3 DEF AddTest
  <2> QED  BY <2>1, <2>2 DEF Delivered
<1> QED  BY <1>3, <1>4, <1>5 DEF PathInv

LEMMA AddDoInv ==
  ASSUME PathInv, NEW t \in Adders, AddDo(t)
  PROVE  PathInv'
<1> DEFINE e == adder[t].path
           reached == adder[t].running /\ jvm = "on"
<1>1. PICK U : PathTyped(U)
  BY DEF PathInv
<1>2. e \in Entry /\ adder' \in [Adders -> AdderType]
  BY <1>1 DEF AddDo, PathTyped, AdderType, NotAdding, Entry
<1>3. CLASSPATHS' \in Seq(Entry)
  BY <1>1, <1>2 DEF AddDo, PathTyped
<1>4. loader \subseteq loader' /\ loader' \subseteq disk
  BY <1>1, GlobExists DEF AddDo, PathTyped
<1>5. PathTyped(U)'
  BY <1>1, <1>2, <1>3, <1>4 DEF AddDo, PathTyped
<1>6. InStep' /\ Searched'
  BY DEF PathInv, AddDo, InStep, Searched
<1>7. Delivered'
  <2>1. (start.pc \in {"idle", "failed"} => owed = {})' /\ (start.pc = "launch" => owed \subseteq start.path)'
    BY DEF PathInv, AddDo, Delivered
  <2>2. ASSUME jvm' = "on", NEW x \in owed' PROVE (x \in loader \/ OnTheWay(x))'
    <3>1. x \in loader \/ OnTheWay(x)
      BY <2>2 DEF PathInv, Delivered, AddDo
    <3>2. CASE x \in loader
      BY <3>2, <1>4
    <3>3. CASE OnTheWay(x)
      <4>1. PICK u \in Adders : adder[u].pc = "add" /\ adder[u].running /\ x \in Owed(adder[u].path)
        BY <3>3 DEF OnTheWay
      <4>2. CASE u = t
        <5>1. Loadable(e)
          BY <4>1, <4>2 DEF Loadable, Owed, Findable, Meant
        <5>2. loader' = loader \cup Findable(e)
          BY <5>1, <4>1, <4>2, <2>2 DEF AddDo
        <5>3. x \in Findable(e)
          BY <4>1, <4>2 DEF Owed, Findable, Meant
        <5> QED  BY <5>2, <5>3
      <4>3. CASE u # t
        <5>1. adder'[u] = adder[u]
          BY <4>3, <1>1 DEF AddDo, PathTyped
        <5> QED  BY <5>1, <4>1 DEF OnTheWay, Owed, Meant, glob, AddDo
      <4> QED  BY <4>2, <4>3
    <3> QED  BY <3>1, <3>2, <3>3
  <2> QED  BY <2>1, <2>2 DEF Delivered
<1> QED  BY <1>5, <1>6, <1>7 DEF PathInv

LEMMA RegisterInv ==
  ASSUME PathInv, NEW e \in Entry, Register(e)
  PROVE  PathInv'
<1>1. PICK U : PathTyped(U)
  BY DEF PathInv
<1>2. PathTyped(U)'
  BY <1>1 DEF Register, PathTyped
<1>3. InStep' /\ Searched' /\ Delivered'
  BY DEF PathInv, Register, InStep, Searched, Delivered, OnTheWay, Owed, Meant, glob
<1> QED  BY <1>2, <1>3 DEF PathInv

LEMMA StartFailsInv ==
  ASSUME PathInv, NEW m \in Machines, StartFails(m)
  PROVE  PathInv'
<1> DEFINE found == getDefaultJVMPath(m.fs, m.platform)
<1>1. PICK U : PathTyped(U)
  BY DEF PathInv
<1> DEFINE V == U \cup {found, Nothing}
<1>2. start' \in StartType(V)
  <2> HIDE DEF found
  <2>1. NotStarting \in StartType(V)
    BY DEF NotStarting, StartType
  <2>2. [NotStarting EXCEPT !.pc = "failed", !.found = found, !.machine = m] \in StartType(V)
    BY <2>1 DEF StartType
  <2>3. start' \in {NotStarting, [NotStarting EXCEPT !.pc = "failed", !.found = found, !.machine = m]}
    BY DEF StartFails, found
  <2> QED  BY <2>1, <2>2, <2>3
<1>3. PathTyped(V)'
  BY <1>1, <1>2 DEF StartFails, PathTyped
<1>4. /\ start'.pc \in {"idle", "failed"}
      /\ start'.pc = "failed" => start'.machine = m /\ found.kind \in {"notfound", "unsupported"}
  <2>1. CASE /\ found.kind \in {"notfound", "unsupported"}
             /\ start' = [NotStarting EXCEPT !.pc = "failed", !.found = found, !.machine = m]
    <3> HIDE DEF found
    <3> QED  BY <2>1 DEF NotStarting
  <2>2. CASE start' = NotStarting
    BY <2>2 DEF NotStarting
  <2> QED  BY <2>1, <2>2 DEF StartFails
<1>5. Searched'
  BY <1>4 DEF Searched
<1>6. InStep' /\ Delivered'
  <2>1. jvm = "off" /\ jvm' = jvm /\ ~started /\ started' = started /\ owed' = owed /\ owed = {}
    BY DEF StartFails, PathInv, Delivered
  <2> QED  BY <1>4, <2>1 DEF InStep, Delivered
<1> QED  BY <1>3, <1>5, <1>6 DEF PathInv

LEMMA StartReadInv ==
  ASSUME PathInv, NEW m \in Machines, StartRead(m)
  PROVE  PathInv'
<1> DEFINE found == getDefaultJVMPath(m.fs, m.platform)
           default == CLASSPATHS \o Env
           read(path) == [NotStarting EXCEPT !.pc = "launch", !.path = path, !.found = found]
           jars == UNION {Owed(default[i]) : i \in DOMAIN default}
<1>1. PICK U : PathTyped(U)
  BY DEF PathInv
<1>2. PICK path : /\ start' = read(path) /\ owed' \subseteq path
                  /\ owed' = {} \/ owed' = jars
  <2>1. CASE \E e \in Entry : start' = read(expandElements(<<e>>) \cup {"support"}) /\ owed' = {}
    BY <2>1
  <2>2. CASE /\ start' = read(expandJoined(default) \cup {"support"})
             /\ owed' = IF endsWithPattern(default) THEN {} ELSE jars
    <3>1. CASE endsWithPattern(default)
      BY <2>2, <3>1
    <3>2. CASE ~endsWithPattern(default)
      <4>1. \A i \in DOMAIN default : Owed(default[i]) \subseteq globbed(default[i])
        BY DEF Owed, Meant, globbed
      <4>2. jars \subseteq getClassPath(default)
        BY <4>1 DEF getClassPath
      <4>3. jars \subseteq expandJoined(default)
        BY <4>2, <3>2 DEF expandJoined
      <4> HIDE DEF jars, default, read
      <4> QED  BY <2>2, <3>2, <4>3
    <3> QED  BY <3>1, <3>2
  <2> QED  BY <2>1, <2>2 DEF StartRead
<1>3. owed' \subseteq disk
  <2>1. jars \subseteq disk
    BY GlobExists
  <2> HIDE DEF jars
  <2> QED  BY <2>1, <1>2
<1> DEFINE V == U \cup path \cup {found}
<1>4. start' \in StartType(V) /\ start'.pc = "launch" /\ start'.path = path
  <2> HIDE DEF found
  <2> QED  BY <1>2 DEF NotStarting, StartType
<1>5. jvm = "off" /\ ~started /\ UNCHANGED <<jvm, started, disk, CLASSPATHS, loader, initializers, adder>>
  BY DEF StartRead
<1>6. PathTyped(V)'
  BY <1>1, <1>3, <1>4, <1>5 DEF PathTyped
<1>7. InStep' /\ Delivered' /\ Searched'
  BY <1>2, <1>4, <1>5 DEF InStep, Delivered, Searched
<1> QED  BY <1>6, <1>7 DEF PathInv

LEMMA StartLaunchInv ==
  ASSUME PathInv, StartLaunch
  PROVE  PathInv'
<1>1. PICK U : PathTyped(U)
  BY DEF PathInv
<1> DEFINE V == U \cup {Nothing}
<1>2. jvm = "off" /\ ~started /\ UNCHANGED <<started, disk, CLASSPATHS, initializers, adder>>
  BY DEF StartLaunch, PathInv, InStep
<1>3. CASE /\ jvm' = "on" /\ loader' = start.path \cap disk
           /\ start' = [start EXCEPT !.pc = "initialize"] /\ owed' = owed
  <2>1. start' \in StartType(V) /\ start'.pc = "initialize"
    BY <1>1, <1>3 DEF PathTyped, StartType
  <2>2. PathTyped(V)'
    BY <1>1, <1>2, <1>3, <2>1 DEF PathTyped
  <2>3. owed' \subseteq loader'
    BY <1>1, <1>3 DEF PathInv, Delivered, StartLaunch, PathTyped
  <2>4. InStep' /\ Delivered' /\ Searched'
    BY <1>2, <1>3, <2>1, <2>3 DEF InStep, Delivered, Searched
  <2> QED  BY <2>2, <2>4 DEF PathInv
<1>4. CASE start' = NotStarting /\ owed' = {} /\ UNCHANGED <<jvm, loader>>
  <2>1. start' \in StartType(V) /\ start'.pc = "idle"
    BY <1>4 DEF NotStarting, StartType
  <2>2. PathTyped(V)'
    BY <1>1, <1>2, <1>4, <2>1 DEF PathTyped
  <2>3. InStep' /\ Delivered' /\ Searched'
    BY <1>2, <1>4, <2>1 DEF InStep, Delivered, Searched
  <2> QED  BY <2>2, <2>3 DEF PathInv
<1> QED  BY <1>3, <1>4 DEF StartLaunch

LEMMA runJVMInitializersInv ==
  ASSUME PathInv, runJVMInitializers
  PROVE  PathInv'
<1> DEFINE e == initializers[start.next]
<1>1. PICK U : PathTyped(U)
  BY DEF PathInv
<1>2. start' \in StartType(U) /\ start'.pc \in {"initialize", "done"} /\ jvm # "off" /\ ~started
  <2>1. start.pc = "initialize"
    BY DEF runJVMInitializers
  <2>2. start' \in {[start EXCEPT !.pc = "done"], [start EXCEPT !.next = @ + 1]}
    BY DEF runJVMInitializers
  <2>3. start' \in StartType(U) /\ start'.pc \in {"initialize", "done"}
    BY <1>1, <2>1, <2>2 DEF PathTyped, StartType
  <2> QED  BY <2>1, <2>3 DEF PathInv, InStep
<1>3. e \in Entry
  BY <1>1 DEF runJVMInitializers, PathTyped
<1>4. CLASSPATHS' \in Seq(Entry)
  BY <1>1, <1>3 DEF runJVMInitializers, PathTyped
<1>5. loader' = loader \cup Findable(e) /\ owed' = owed \cup Owed(e) /\ UNCHANGED <<jvm, started, disk, initializers, adder>>
  BY DEF runJVMInitializers
<1>6. PathTyped(U)'
  BY <1>1, <1>2, <1>4, <1>5, GlobExists DEF PathTyped
<1>7. Delivered'
  <2>1. ASSUME jvm' = "on", NEW x \in owed' PROVE (x \in loader \/ OnTheWay(x))'
    <3>1. x \in Owed(e) \/ x \in loader \/ OnTheWay(x)
      BY <1>5, <2>1 DEF PathInv, Delivered
    <3> QED  BY <3>1, <1>5 DEF OnTheWay, Owed, Findable, Meant, glob
  <2> QED  BY <2>1, <1>2 DEF Delivered
<1>8. InStep' /\ Searched'
  BY <1>2, <1>5 DEF InStep, Searched
<1> QED  BY <1>6, <1>7, <1>8 DEF PathInv

LEMMA StartInitializeInv ==
  ASSUME PathInv, StartInitialize
  PROVE  PathInv'
<1>1. PICK U : PathTyped(U)
  BY DEF PathInv
<1>2. start' \in StartType(U) /\ start'.pc = "done" /\ jvm # "off"
  BY <1>1 DEF StartInitialize, PathTyped, StartType, PathInv, InStep
<1>3. /\ initializers' = <<>> /\ started'
      /\ UNCHANGED <<jvm, disk, CLASSPATHS, loader, adder, owed>>
  BY DEF StartInitialize
<1>4. PathTyped(U)'
  <2>1. started' \in BOOLEAN /\ <<>> \in Seq(Entry)
    BY DEF StartInitialize
  <2> QED  BY <1>1, <1>2, <1>3, <2>1 DEF PathTyped
<1>5. InStep' /\ Searched' /\ Delivered'
  BY <1>2, <1>3 DEF PathInv, InStep, Searched, Delivered, OnTheWay, Owed, Meant, glob
<1> QED  BY <1>4, <1>5 DEF PathInv

LEMMA ShutdownInv ==
  ASSUME PathInv, Shutdown
  PROVE  PathInv'
<1>1. PICK U : PathTyped(U)
  BY DEF PathInv
<1>2. PathTyped(U)'
  BY <1>1 DEF Shutdown, PathTyped
<1>3. InStep' /\ Searched' /\ Delivered'
  BY DEF PathInv, Shutdown, InStep, Searched, Delivered
<1> QED  BY <1>2, <1>3 DEF PathInv

LEMMA JarAppearsInv ==
  ASSUME PathInv, NEW j \in Jars, JarAppears(j)
  PROVE  PathInv'
<1>1. PICK U : PathTyped(U)
  BY DEF PathInv
<1>2. PathTyped(U)'
  BY <1>1 DEF JarAppears, PathTyped
<1>3. InStep' /\ Searched'
  BY DEF PathInv, JarAppears, InStep, Searched
<1>4. \A x : OnTheWay(x) => OnTheWay(x)'
  <2>1. \A e : Owed(e) \subseteq Owed(e)'
    BY DEF Owed, Meant, glob, JarAppears
  <2> QED  BY <2>1 DEF OnTheWay, JarAppears
<1>5. Delivered'
  BY <1>4 DEF PathInv, Delivered, JarAppears
<1> QED  BY <1>2, <1>3, <1>5 DEF PathInv

\* What a program calls, and what follows
LEMMA PathCallInv == PathInv /\ PathCall => PathInv'
  BY RegisterInv, AddTestInv DEF PathCall

LEMMA PathStepInv == PathInv /\ PathStep => PathInv'
  BY AddDoInv, StartFailsInv, StartReadInv, StartLaunchInv, runJVMInitializersInv, StartInitializeInv,
     ShutdownInv, JarAppearsInv DEF PathStep

-------------------------------------------------------------------------------
\* The proxies
LEMMA ProxyStarts == ProxyInit => ProxyInv
  BY DEF ProxyInit, ProxyInv, ProxyTyped, Checked, Provided, ProxyComplete

LEMMA ProxyStutters == ProxyInv /\ UNCHANGED proxyVars => ProxyInv'
  BY DEF ProxyInv, proxyVars, ProxyTyped, Checked, Provided, ProxyComplete, checkInterfaceOverrides

\* A class that passes the check has every method itself, and so has a class
\* that derives from it.
LEMMA CheckedIsProvided ==
  ASSUME NEW c \in PyClass, NEW d \in ToSet(Mro[c]), NEW intf, checkInterfaceOverrides(d, intf)
  PROVE  Provided(c, intf)
  BY DEF checkInterfaceOverrides, Provided

\* What a class has, a class that derives from it has.
LEMMA ProvidedIsInherited ==
  ASSUME NEW c \in PyClass, NEW d \in ToSet(Mro[c]), NEW intf, Provided(d, intf)
  PROVE  Provided(c, intf)
<1>1. ToSet(Mro[d]) \subseteq ToSet(Mro[c])
  BY MroAssumption
<1> QED  BY <1>1 DEF Provided

LEMMA NewInstance ==
  ASSUME ProxyInv, NEW c \in PyClass, NEW intf, Provided(c, intf),
         instances' = instances \cup {[class |-> c, interfaces |-> intf]}
  PROVE  ProxyComplete'
<1> SUFFICES ASSUME NEW p \in instances', p.class \in PyClass PROVE Provided(p.class, p.interfaces)
  BY DEF ProxyComplete, Provided
<1>1. CASE p \in instances
  BY <1>1 DEF ProxyInv, Checked, ProxyComplete, Provided
<1>2. CASE p = [class |-> c, interfaces |-> intf]
  BY <1>2
<1> QED  BY <1>1, <1>2

LEMMA DeclareInv ==
  ASSUME ProxyInv, NEW c \in PyClass, DeclareChecked(c) \/ DeclareDeferred(c) \/ DeclarePlain(c)
  PROVE  ProxyInv'
<1>1. interfaces' = interfaces /\ instances' = instances
  BY DEF DeclareChecked, DeclareDeferred, DeclarePlain
<1>2. ProxyTyped'
  BY <1>1 DEF ProxyInv, ProxyTyped, DeclareChecked, DeclareDeferred, DeclarePlain
<1>3. \A d \in PyClass : declared'[d] = "checked" => checkInterfaceOverrides(d, Implements[d])
  <2> SUFFICES ASSUME NEW d \in PyClass, declared'[d] = "checked"
               PROVE  checkInterfaceOverrides(d, Implements[d])
    OBVIOUS
  <2>1. CASE d # c
    BY <2>1 DEF ProxyInv, ProxyTyped, Checked, DeclareChecked, DeclareDeferred, DeclarePlain
  <2>2. CASE d = c
    BY <2>2 DEF ProxyInv, ProxyTyped, DeclareChecked, DeclareDeferred, DeclarePlain, prepareInterfaces
  <2> QED  BY <2>1, <2>2
<1>4. Checked'
  BY <1>1, <1>3 DEF ProxyInv, Checked, Provided, ProxyComplete, checkInterfaceOverrides
<1> QED  BY <1>2, <1>4 DEF ProxyInv

LEMMA NewCheckedInv ==
  ASSUME ProxyInv, NEW c \in PyClass, NewChecked(c)
  PROVE  ProxyInv'
<1> DEFINE d == Lookup(c, Decorated)
<1>1. d \in ToSet(Mro[c]) /\ d \in PyClass
  BY LookupFinds DEF NewChecked, Decorated
<1>2. checkInterfaceOverrides(d, Implements[d])
  BY <1>1 DEF ProxyInv, Checked, NewChecked
<1>3. Provided(c, Implements[d])
  <2> HIDE DEF d
  <2> QED  BY <1>1, <1>2, CheckedIsProvided
<1>4. ProxyComplete'
  BY <1>3, NewInstance DEF NewChecked
<1>5. declared' = declared /\ interfaces' = interfaces
  BY DEF NewChecked
<1> QED  BY <1>4, <1>5 DEF ProxyInv, ProxyTyped, Checked, Provided, checkInterfaceOverrides

LEMMA NewDeferredInv ==
  ASSUME ProxyInv, NEW c \in PyClass, NewDeferred(c)
  PROVE  ProxyInv'
<1> DEFINE d == Lookup(c, Decorated)
           known == Lookup(c, HasInterfaces)
<1>1. d \in ToSet(Mro[c]) /\ d \in PyClass
  BY LookupFinds DEF NewDeferred, Decorated
<1>2. CASE known # "object"
  <2>1. known \in ToSet(Mro[c]) /\ known \in PyClass
    BY <1>2, LookupFinds DEF HasInterfaces
  <2>2. Provided(known, interfaces[known])
    BY <2>1 DEF ProxyInv, Checked
  <2>3. Provided(c, interfaces[known])
    <3> HIDE DEF known
    <3> QED  BY <2>1, <2>2, ProvidedIsInherited
  <2>4. /\ instances' = instances \cup {[class |-> c, interfaces |-> interfaces[known]]}
        /\ interfaces' = interfaces /\ declared' = declared
    BY <1>2 DEF NewDeferred
  <2>5. ProxyComplete'
    <3> HIDE DEF known
    <3> QED  BY <2>3, <2>4, NewInstance
  <2> QED  BY <2>4, <2>5 DEF ProxyInv, ProxyTyped, Checked, Provided, checkInterfaceOverrides
<1>3. CASE known = "object"
  <2>1. prepareInterfaces(d, Implements[d])
    BY <1>3 DEF NewDeferred
  <2>2. Provided(c, Implements[d]) /\ Implements[d] \subseteq Interface
    <3> HIDE DEF d
    <3> QED  BY <2>1, <1>1, CheckedIsProvided DEF prepareInterfaces, convertInterfaces
  <2>3. /\ instances' = instances \cup {[class |-> c, interfaces |-> Implements[d]]}
        /\ interfaces' = [interfaces EXCEPT ![c] = Implements[d]] /\ declared' = declared
    BY <1>3 DEF NewDeferred
  <2> HIDE DEF d
  <2>4. ProxyComplete'
    BY <2>2, <2>3, NewInstance
  <2>5. ProxyTyped'
    BY <2>2, <2>3 DEF ProxyInv, ProxyTyped
  <2>6. \A b \in PyClass : Provided(b, interfaces'[b])
    BY <2>2, <2>3 DEF ProxyInv, ProxyTyped, Checked
  <2>7. Checked'
    BY <2>3, <2>4, <2>6 DEF ProxyInv, Checked, Provided, checkInterfaceOverrides
  <2> QED  BY <2>5, <2>7 DEF ProxyInv
<1> QED  BY <1>2, <1>3

LEMMA NewJProxyInv ==
  ASSUME ProxyInv, NEW i, NewJProxy(i)
  PROVE  ProxyInv'
<1>1. /\ instances' = instances \cup {[class |-> "JProxy", interfaces |-> {i}]}
      /\ declared' = declared /\ interfaces' = interfaces
  BY DEF NewJProxy
<1>2. \A p \in instances' : p.class \in PyClass => p \in instances
  BY <1>1, MroAssumption
<1> QED  BY <1>1, <1>2 DEF ProxyInv, ProxyTyped, Checked, ProxyComplete, Provided, checkInterfaceOverrides

LEMMA ProxyNextInv == ProxyInv /\ ProxyNext => ProxyInv'
  BY DeclareInv, NewCheckedInv, NewDeferredInv, NewJProxyInv DEF ProxyNext

-------------------------------------------------------------------------------
LEMMA NextInv == IInv /\ [Next]_vars => IInv'
<1> SUFFICES ASSUME IInv, [Next]_vars PROVE IInv'
  OBVIOUS
<1>1. CASE PathCall /\ UNCHANGED <<importVars, proxyVars>>
  BY <1>1, PathCallInv, ProxyStutters DEF IInv, importVars
<1>2. CASE ImportNext /\ UNCHANGED <<pathVars, proxyVars>>
  <2>1. imported'.answer \in {"module", "ImportError"}
    BY <1>2 DEF IInv, ImportNext, Import, registerDomain, registerImportCustomizer
  <2> QED  BY <1>2, <2>1, PathStutters, ProxyStutters DEF IInv
<1>3. CASE ProxyNext /\ UNCHANGED <<pathVars, importVars>>
  BY <1>3, PathStutters, ProxyNextInv DEF IInv, importVars
<1>4. CASE PathStep /\ UNCHANGED <<importVars, proxyVars, left>>
  BY <1>4, PathStepInv, ProxyStutters DEF IInv, importVars
<1>5. CASE UNCHANGED sessionVars
  BY <1>5, PathStutters, ProxyStutters DEF IInv, sessionVars, importVars
<1> QED  BY <1>1, <1>2, <1>3, <1>4, <1>5 DEF Next, vars, SessionNext

\* The invariant of the class path and of the proxies holds in every state.
THEOREM Invariance == Spec => []IInv
<1>1. Init => IInv
  BY PathStarts, ProxyStarts DEF Init, SessionInit, IInv, ImportInit, NoImport
<1> QED  BY <1>1, NextInv, PTL DEF Spec

\* The variables have their types, and startJVM and the JVM keep in step: a JVM
\* whose initializers raised is never counted as started (initializeResources).
THEOREM TypeCorrect == Spec => []TypeOK
<1>1. IInv => TypeOK
  <2> SUFFICES ASSUME IInv PROVE TypeOK
    OBVIOUS
  <2>1. PICK U : PathTyped(U)
    BY DEF IInv, PathInv
  <2>2. start.pc \in {"idle", "failed", "launch", "initialize", "done"}
    BY <2>1 DEF PathTyped, StartType
  <2>3. \A t \in Adders : adder[t].pc \in {"idle", "add"} /\ adder[t].path \in Entry
    BY <2>1 DEF PathTyped, AdderType
  <2>4. \A c \in PyClass : interfaces[c] \subseteq Interface
    BY DEF IInv, ProxyInv, ProxyTyped
  <2> QED  BY <2>1, <2>2, <2>3, <2>4 DEF IInv, PathInv, PathTyped, InStep, TypeOK
<1> QED  BY <1>1, Invariance, PTL

\* addClassPath and startJVM: what was added before the path was read or while
\* the JVM ran is in the loader, for any number of threads, jars and initializers
\* and however they interleave.
THEOREM PathsAreLoaded == Spec => []PathsReachLoader
<1>1. IInv => PathsReachLoader
  BY DEF IInv, PathInv, Delivered, OnTheWay, PathsReachLoader
<1> QED  BY <1>1, Invariance, PTL

\* getDefaultJVMPath gives up only when no method of the platform has an answer,
\* whatever is installed on the machine.
THEOREM SearchFallsBack == Spec => []FinderFallsBack
<1>1. IInv => FinderFallsBack
  <2> SUFFICES ASSUME IInv, start.pc = "failed",
                      NEW i \in DOMAIN _methods(start.machine.platform)
               PROVE  tried(start.machine.fs, start.machine.platform)[i].kind
                        \notin {"library", "directory"}
    BY DEF FinderFallsBack, tried
  <2>1. answering(start.machine.fs, start.machine.platform, {"library", "directory"}) = {}
    BY SearchIsComplete, MachineAssumption DEF IInv, PathInv, Searched
  <2> QED  BY <2>1 DEF answering
<1> QED  BY <1>1, Invariance, PTL

\* JImplements: an instance has every method of its interfaces, whichever class of
\* its hierarchy was declared, deferred or instantiated first.
THEOREM ProxiesAreComplete == Spec => []ProxyComplete
<1>1. IInv => ProxyComplete
  BY DEF IInv, ProxyInv, Checked
<1> QED  BY <1>1, Invariance, PTL
===============================================================================
