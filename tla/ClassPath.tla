------------------------------- MODULE ClassPath -------------------------------
(***************************************************************************)
(* The class path of a Python session: addClassPath and getClassPath, the  *)
(* way startJVM hands the path to the JVM, and the initializers that run   *)
(* at its end, each of which adds an entry to the path.                    *)
(*                                                                         *)
(* One thread calls startJVM, the others call addClassPath; a thread may   *)
(* be stopped between the test of isStarted and what follows from it, and  *)
(* startJVM releases the Python lock while the JVM starts.  Jars may       *)
(* appear on disk at any time.                                             *)
(***************************************************************************)
EXTENDS JvmFinder

CONSTANTS
  Jars,       \* jar files
  Lib,        \* the jars of one directory, named by "*" and by the pattern
  Env,        \* the environment's CLASSPATH
  Machines,   \* [fs, platform]: where the JVM is looked for
  Adders      \* the threads that call addClassPath

ASSUME JarAssumption == Lib \subseteq Jars

Star == "*"          \* a path whose name is "*"
Pattern == "lib*"    \* a path whose name only ends with "*"
Entry == Jars \cup {Star, Pattern}

\* Where JPype runs (getDefaultJVMPath of _jvmfinder)
ASSUME MachineAssumption == \A m \in Machines : m.platform \in {"linux", "darwin", "win32"}

ASSUME EntryAssumption == Star \notin Jars /\ Pattern \notin Jars /\ Env \in Seq(Entry)

VARIABLES
  jvm,          \* "off", "on" or "down": isStarted() is jvm = "on"
  started,      \* _JVM_started: initializeResources came to its end
  disk,         \* the jars that exist
  CLASSPATHS,   \* _CLASSPATHS
  loader,       \* the jars that JPypeClassLoader and its parent search
  initializers, \* JInitializers, the entry that each one adds
  start,        \* the state of the call of startJVM
  adder,        \* the state of each call of addClassPath
  owed          \* history: jars the loader must search

pathVars == <<jvm, started, disk, CLASSPATHS, loader, initializers, start, adder, owed>>

NoMachine == [fs |-> "none", platform |-> "none"]
NotStarting == [pc |-> "idle", path |-> {}, found |-> Nothing, machine |-> NoMachine, next |-> 1]
NotAdding == [pc |-> "idle", path |-> Star, running |-> FALSE]

PathInit ==
  /\ jvm = "off" /\ started = FALSE
  /\ disk \in SUBSET Jars
  /\ CLASSPATHS = <<>> /\ initializers = <<>>
  /\ loader = {} /\ owed = {}
  /\ start = NotStarting
  /\ adder = [t \in Adders |-> NotAdding]

glob == Lib \cap disk

\* getClassPath: entries named "*" are replaced by the jars there are now, the
\* others are kept as they are.
globbed(e) == IF e = Star THEN glob ELSE {e}
getClassPath(classPath) == UNION {globbed(classPath[i]) : i \in DOMAIN classPath}

\* _expandClassPath of a list: every element that ends with "*" is expanded.
expandElements(s) ==
  UNION {IF s[i] \in {Star, Pattern} THEN glob ELSE {s[i]} : i \in DOMAIN s}

\* The places of classPath that are left of it in the joined string
leftOf(classPath) == {i \in DOMAIN classPath : globbed(classPath[i]) # {}}
endsWithPattern(classPath) ==
  \E i \in leftOf(classPath) : classPath[i] = Pattern /\ \A j \in leftOf(classPath) : j <= i

\* _expandClassPath of the default path, which getClassPath has joined to one
\* string: the test of its end is a test of the last entry, and the pattern is
\* then the whole string.
expandJoined(classPath) ==
  IF ~endsWithPattern(classPath) THEN getClassPath(classPath)
  ELSE IF Cardinality(leftOf(classPath)) = 1 THEN glob ELSE {}

\* The jars that an entry stands for, as the documentation of addClassPath has it;
\* those that a running loader finds for it; and those that PathsReachLoader asks for.
Meant(e) == IF e \in {Star, Pattern} THEN glob ELSE {e} \cap disk
Findable(e) == IF e = Star THEN glob ELSE {e} \cap disk
Owed(e) == IF e = Pattern THEN {} ELSE Meant(e)

-------------------------------------------------------------------------------
\* classLoader.addPath raises for a file that does not exist; "*" without a jar
\* is not even recorded.
Loadable(e) == IF e = Star THEN glob # {} ELSE e \in disk
Raises(e) == e # Star /\ e \notin disk

\* Mutant: the test asks _JVM_started, which is set after the initializers.
AddTestStarted(t, e) ==
  /\ adder[t].pc = "idle"
  /\ adder' = [adder EXCEPT ![t] = [pc |-> "add", path |-> e, running |-> started /\ jvm = "on"]]
  /\ owed' = IF jvm = "on" THEN owed \cup Owed(e) ELSE owed
  /\ UNCHANGED <<jvm, started, disk, CLASSPATHS, loader, initializers, start>>

\* addClassPath in a thread: the test of isStarted...
AddTest(t, e) ==
  /\ adder[t].pc = "idle"
  /\ adder' = [adder EXCEPT ![t] = [pc |-> "add", path |-> e, running |-> jvm = "on"]]
  /\ owed' = IF jvm = "on" THEN owed \cup Owed(e) ELSE owed
  /\ UNCHANGED <<jvm, started, disk, CLASSPATHS, loader, initializers, start>>

\* ...and what it decides.  The loader cannot be reached after a shutdown.
AddDo(t) ==
  /\ adder[t].pc = "add"
  /\ adder' = [adder EXCEPT ![t] = NotAdding]
  /\ LET e == adder[t].path
         reached == adder[t].running /\ jvm = "on"
     IN  /\ loader' = IF reached /\ Loadable(e) THEN loader \cup Findable(e) ELSE loader
         /\ CLASSPATHS' = IF ~adder[t].running \/ (reached /\ Loadable(e))
                          THEN Append(CLASSPATHS, e) ELSE CLASSPATHS
  /\ UNCHANGED <<jvm, started, disk, initializers, start, owed>>

\* registerJVMInitializer of a function that calls addClassPath
Register(e) ==
  /\ jvm # "on"
  /\ initializers' = Append(initializers, e)
  /\ UNCHANGED <<jvm, started, disk, CLASSPATHS, loader, start, adder, owed>>

-------------------------------------------------------------------------------
\* startJVM up to the launch.  The library is the one the finder finds, or one
\* the caller names.  The class path is the default one or a list of elements,
\* an argument or an option of the JVM; giving both is an error, and so is a
\* system class loader beside a path that is not ASCII.
StartFails(m) ==
  /\ start.pc \in {"idle", "failed"} /\ jvm = "off" /\ ~started
  /\ LET found == getDefaultJVMPath(m.fs, m.platform)
     IN  \* no library, or one of the errors above
         \/ /\ found.kind \in {"notfound", "unsupported"}
            /\ start' = [NotStarting EXCEPT !.pc = "failed", !.found = found, !.machine = m]
         \/ /\ found.kind \notin {"notfound", "unsupported"}
            /\ start' = NotStarting
  /\ UNCHANGED <<jvm, started, disk, CLASSPATHS, loader, initializers, adder, owed>>

StartRead(m) ==
  /\ start.pc \in {"idle", "failed"} /\ jvm = "off" /\ ~started
  /\ LET found == getDefaultJVMPath(m.fs, m.platform)
         default == CLASSPATHS \o Env
         read(path) == [NotStarting EXCEPT !.pc = "launch", !.path = path, !.found = found]
     IN  /\ found.kind \in {"library", "directory"}
         /\ \/ /\ start' = read(expandJoined(default) \cup {"support"})
               /\ owed' = IF endsWithPattern(default) THEN {}
                          ELSE UNION {Owed(default[i]) : i \in DOMAIN default}
            \/ \E e \in Entry :
                 /\ start' = read(expandElements(<<e>>) \cup {"support"})
                 /\ owed' = {}
  /\ UNCHANGED <<jvm, started, disk, CLASSPATHS, loader, initializers, adder>>

\* _jpype.startup; a directory is not a library.  The JVM opens every jar of
\* the path while it looks for the support classes, which come last.
StartLaunch ==
  /\ start.pc = "launch"
  /\ \/ /\ start.found.kind = "library"
        /\ jvm' = "on"
        /\ loader' = start.path \cap disk
        /\ start' = [start EXCEPT !.pc = "initialize"]
        /\ UNCHANGED owed
     \/ /\ start' = NotStarting
        /\ owed' = {}
        /\ UNCHANGED <<jvm, loader>>
  /\ UNCHANGED <<started, disk, CLASSPATHS, initializers, adder>>

\* Mutant: _JVM_started is set although an initializer raised.
runJVMInitializersAlways ==
  /\ start.pc = "initialize" /\ start.next \in DOMAIN initializers
  /\ LET e == initializers[start.next]
     IN  /\ loader' = loader \cup Findable(e)
         /\ owed' = owed \cup Owed(e)
         /\ CLASSPATHS' = IF Loadable(e) THEN Append(CLASSPATHS, e) ELSE CLASSPATHS
         /\ start' = IF Raises(e) THEN [start EXCEPT !.pc = "done"] ELSE [start EXCEPT !.next = @ + 1]
         /\ started' = Raises(e)
  /\ UNCHANGED <<jvm, disk, initializers, adder>>

\* runJVMInitializers calls the next function: addClassPath with the JVM running.
\* One that raises ends startJVM, with the JVM running and the list as it was.
runJVMInitializers ==
  /\ start.pc = "initialize" /\ start.next \in DOMAIN initializers
  /\ LET e == initializers[start.next]
     IN  /\ loader' = loader \cup Findable(e)
         /\ owed' = owed \cup Owed(e)
         /\ CLASSPATHS' = IF Loadable(e) THEN Append(CLASSPATHS, e) ELSE CLASSPATHS
         /\ start' = IF Raises(e) THEN [start EXCEPT !.pc = "done"] ELSE [start EXCEPT !.next = @ + 1]
  /\ UNCHANGED <<jvm, started, disk, initializers, adder>>

\* The end of runJVMInitializers and of initializeResources
StartInitialize ==
  /\ start.pc = "initialize" /\ start.next \notin DOMAIN initializers
  /\ initializers' = <<>>
  /\ started' = TRUE
  /\ start' = [start EXCEPT !.pc = "done"]
  /\ UNCHANGED <<jvm, disk, CLASSPATHS, loader, adder, owed>>

\* shutdownJVM; without initializeResources there is no JPypeContext to tell.
Shutdown ==
  /\ jvm = "on" /\ started
  /\ jvm' = "down"
  /\ UNCHANGED <<started, disk, CLASSPATHS, loader, initializers, start, adder, owed>>

JarAppears(j) ==
  /\ j \notin disk
  /\ disk' = disk \cup {j}
  /\ UNCHANGED <<jvm, started, CLASSPATHS, loader, initializers, start, adder, owed>>

\* What a program calls...
PathCall ==
  \E e \in Entry : Register(e) \/ \E t \in Adders : AddTest(t, e)

\* ...and what follows, or happens by itself.
PathStep ==
  \/ \E t \in Adders : AddDo(t)
  \/ \E m \in Machines : StartFails(m) \/ StartRead(m)
  \/ StartLaunch \/ runJVMInitializers \/ StartInitialize \/ Shutdown
  \/ \E j \in Jars : JarAppears(j)

-------------------------------------------------------------------------------
\* While the JVM runs and no addClassPath is under way, the loader searches every
\* jar that addClassPath was given before startJVM read the path or after the
\* JVM was up, from an initializer too, if the jar was there at that moment.
\* Three losses are the code's own and left out: an entry added while startJVM is
\* between getClassPath and the running JVM (_classpath.py:57); the default path
\* whose last entry only ends with "*" (_core.py:168), which loses the other entries;
\* and the jars of such an entry anywhere, though "classpath items can be [...] a glob
\* pattern" (_classpath.py:33): it is expanded only where it is the whole path.
PathsReachLoader ==
  jvm = "on" /\ (\A t \in Adders : adder[t].pc = "idle") => owed \subseteq loader

\* A search that fails has no method left that would succeed by itself: a Java
\* home without library, with a library known to be broken or of another
\* machine never hides a JVM that a later method finds.
FinderFallsBack ==
  start.pc = "failed" =>
    LET m == start.machine
    IN  \A i \in DOMAIN _methods(m.platform) :
          check(m.fs, m.platform, method(m.fs, _methods(m.platform)[i])).kind
            \notin {"library", "directory"}
===============================================================================
