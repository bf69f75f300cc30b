-------------------------------- MODULE Context --------------------------------
(***************************************************************************)
(* Starting and stopping the JVM from Python: _core.startJVM, the onJVMStart *)
(* initializers, _core.shutdownJVM, the exit handler, and the native       *)
(* JPContext under them with its signal handlers and class resources.      *)
(*                                                                         *)
(* Python code of several threads interleaves wherever the interpreter     *)
(* may pass its lock on; a step of a Python thread is what runs between    *)
(* two such points, so it needs the lock free and leaves it free.  The     *)
(* Java side of a shutdown is in module Lifecycle.                         *)
(***************************************************************************)
EXTENDS Naturals, Sequences

CONSTANTS PyThread,   \* Python threads that may call startJVM
          Main,       \* the main thread, the only one that may shut down
          Func,       \* functions given to onJVMStart
          Configs,    \* the values of jpype.config at the start
          Nobody      \* the lock is free

ASSUME MainAssumption == Main \in PyThread
ASSUME NobodyAssumption == Nobody \notin PyThread
ASSUME ConfigAssumption ==
  Configs \subseteq [destroy_jvm : BOOLEAN, free_resources : BOOLEAN, onexit : BOOLEAN]

VARIABLES
  started,     \* _core._JVM_started
  bound,       \* _jpype.JPypeContext is set
  vm,          \* what m_JavaVM points to
  running,     \* m_Running
  resources,   \* the native class objects: handed to m_Resources when
               \* "released", gone when "deleted"
  free,        \* JPypeContext.freeResources
  handlers,    \* who the fault signals of the process go to
  hostSaved,   \* preJVMSignalSnapshot
  jvmSaved,    \* jvmSignalsSaved
  pyAt,        \* where each Python thread is
  exiting,     \* the main thread is in the exit handler
  inits,       \* JInitializers
  initPos,     \* position of runJVMInitializers in it
  funcAt,      \* the registration of each function
  funcRuns,    \* how often it was called
  gil,         \* the holder of the Python lock, across steps
  hookAt,      \* where the Java shutdown hook of JPypeContext is
  config       \* jpype.config

coreVars == <<started, bound, exiting>>
vmVars == <<vm, running, resources, free>>
signalVars == <<handlers, hostSaved, jvmSaved>>
initVars == <<inits, initPos, funcAt, funcRuns>>
contextVars == <<coreVars, vmVars, signalVars, initVars, pyAt, gil, hookAt, config>>

isRunning == vm # "none" /\ running

At(t, point) == pyAt[t] = point /\ gil = Nobody
Goto(t, point) == pyAt' = [pyAt EXCEPT ![t] = point]

ContextInit ==
  /\ started = FALSE
  /\ bound = FALSE
  /\ vm = "none"
  /\ running = FALSE
  /\ resources = "none"
  /\ free = TRUE
  /\ handlers = "host"
  /\ hostSaved = "none"
  /\ jvmSaved = FALSE
  /\ pyAt = [t \in PyThread |-> "idle"]
  /\ exiting = FALSE
  /\ inits = <<>>
  /\ initPos = 0
  /\ funcAt = [f \in Func |-> "none"]
  /\ funcRuns = [f \in Func |-> 0]
  /\ gil = Nobody
  /\ hookAt = "none"
  /\ config \in Configs

-------------------------------------------------------------------------------
\* startJVM up to the call of _jpype.startup; it raises OSError when a JVM is
\* running or was started before.
StartCheck(t) ==
  /\ At(t, "idle")
  /\ ~exiting
  /\ ~isRunning
  /\ ~started
  /\ Goto(t, "starting")
  /\ UNCHANGED <<coreVars, vmVars, signalVars, initVars, gil, hookAt, config>>

\* Another thread started the JVM since: startup raises OSError.
StartRefused(t) ==
  /\ At(t, "starting")
  /\ isRunning
  /\ Goto(t, "idle")
  /\ UNCHANGED <<coreVars, vmVars, signalVars, initVars, gil, hookAt, config>>

\* JPContext::startJVM when JNI_CreateJavaVM makes no JVM.
StartFails(t) ==
  /\ At(t, "starting")
  /\ vm = "none"
  /\ hostSaved' = handlers
  /\ Goto(t, "idle")
  /\ UNCHANGED <<coreVars, vmVars, handlers, jvmSaved, initVars, gil, hookAt, config>>

\* JNI_CreateJavaVM makes the JVM, which installs its signal handlers.
StartCreate(t) ==
  /\ At(t, "starting")
  /\ vm = "none"
  /\ hostSaved' = handlers
  /\ vm' = "live"
  /\ running' = TRUE
  /\ handlers' = "jvm"
  /\ jvmSaved' = TRUE
  /\ Goto(t, "init")
  /\ UNCHANGED <<coreVars, resources, free, initVars, gil, hookAt, config>>

\* m_JavaVM is left from an earlier start: JNI_CreateJavaVM fails and leaves env
\* null, its result is not looked at, and env->GetVersion() crashes.
StartOver(t) ==
  /\ At(t, "starting")
  /\ vm # "none"
  /\ ~running
  /\ Goto(t, "crashed")
  /\ UNCHANGED <<coreVars, vmVars, signalVars, initVars, gil, hookAt, config>>

\* The version check and JPContext::initializeResources, which creates the type
\* wrappers, starts the reference queue and installs the Java shutdown hook.
\* It may throw before and after it did; startJVM then raises with m_Running set.
StartInit(t) ==
  /\ At(t, "init")
  /\ \/ Goto(t, "idle") /\ UNCHANGED <<resources, hookAt>>
     \/ /\ pyAt' \in {[pyAt EXCEPT ![t] = "idle"], [pyAt EXCEPT ![t] = "bind"]}
        /\ resources' = "live"
        /\ hookAt' = "ready"
  /\ UNCHANGED <<coreVars, vm, running, free, signalVars, initVars, gil, config>>

\* _core.initializeResources up to runJVMInitializers: the type tables.
StartBind(t) ==
  /\ At(t, "bind")
  /\ Goto(t, "inits")
  /\ initPos' = 0
  /\ UNCHANGED <<coreVars, vmVars, signalVars, inits, funcAt, funcRuns, gil, hookAt, config>>

\* runJVMInitializers calls the next function, which may raise: startJVM raises
\* then, and the list is not cleared.
RunInitializer(t) ==
  /\ At(t, "inits")
  /\ initPos < Len(inits)
  /\ LET f == inits[initPos + 1] IN funcRuns' = [funcRuns EXCEPT ![f] = @ + 1]
  /\ \/ initPos' = initPos + 1 /\ UNCHANGED pyAt
     \/ Goto(t, "idle") /\ UNCHANGED initPos
  /\ UNCHANGED <<coreVars, vmVars, signalVars, inits, funcAt, gil, hookAt, config>>

\* The loop over the list ends.
RunInitializersEnd(t) ==
  /\ At(t, "inits")
  /\ initPos = Len(inits)
  /\ Goto(t, "clear")
  /\ UNCHANGED <<coreVars, vmVars, signalVars, initVars, gil, hookAt, config>>

\* JInitializers.clear() and the end of startJVM.
StartDone(t) ==
  /\ At(t, "clear")
  /\ inits' = <<>>
  /\ bound' = TRUE
  /\ started' = TRUE
  /\ Goto(t, "idle")
  /\ UNCHANGED <<exiting, vmVars, signalVars, initPos, funcAt, funcRuns, gil, hookAt, config>>

Starting(t) ==
  \/ StartCheck(t) \/ StartRefused(t) \/ StartFails(t) \/ StartCreate(t) \/ StartOver(t)
  \/ StartInit(t) \/ StartBind(t) \/ RunInitializer(t) \/ RunInitializersEnd(t) \/ StartDone(t)

-------------------------------------------------------------------------------
\* registerJVMInitializer with a running JVM calls the function.
RegisterRun(f) ==
  /\ gil = Nobody
  /\ funcAt[f] = "none"
  /\ isRunning
  /\ funcRuns' = [funcRuns EXCEPT ![f] = @ + 1]
  /\ funcAt' = [funcAt EXCEPT ![f] = "done"]
  /\ UNCHANGED <<coreVars, vmVars, signalVars, inits, initPos, pyAt, gil, hookAt, config>>

\* It finds no JVM running, and then appends the function to the list.
RegisterCheck(f) ==
  /\ gil = Nobody
  /\ funcAt[f] = "none"
  /\ ~isRunning
  /\ funcAt' = [funcAt EXCEPT ![f] = "checked"]
  /\ UNCHANGED <<coreVars, vmVars, signalVars, inits, initPos, funcRuns, pyAt, gil, hookAt, config>>

\* Mutant: the function is also called when the JVM has come up since.
RegisterAppendRun(f) ==
  /\ gil = Nobody
  /\ funcAt[f] = "checked"
  /\ inits' = Append(inits, f)
  /\ funcAt' = [funcAt EXCEPT ![f] = "done"]
  /\ funcRuns' = [funcRuns EXCEPT ![f] = IF isRunning THEN @ + 1 ELSE @]
  /\ UNCHANGED <<coreVars, vmVars, signalVars, initPos, pyAt, gil, hookAt, config>>

RegisterAppend(f) ==
  /\ gil = Nobody
  /\ funcAt[f] = "checked"
  /\ inits' = Append(inits, f)
  /\ funcAt' = [funcAt EXCEPT ![f] = "done"]
  /\ UNCHANGED <<coreVars, vmVars, signalVars, initPos, funcRuns, pyAt, gil, hookAt, config>>

Registering(f) == RegisterRun(f) \/ RegisterCheck(f) \/ RegisterAppend(f)

-------------------------------------------------------------------------------
\* Python code such as faulthandler installs its own fault handlers.
ReplaceHandlers ==
  /\ At(Main, "idle")
  /\ handlers' = "other"
  /\ UNCHANGED <<coreVars, vmVars, hostSaved, jvmSaved, initVars, pyAt, gil, hookAt, config>>

\* Mutant: the lock is kept while DestroyJavaVM waits.
ShutdownNativeLocked ==
  /\ handlers' = IF jvmSaved THEN "jvm" ELSE handlers
  /\ Goto(Main, IF config.destroy_jvm THEN "destroying" ELSE "deleting")
  /\ gil' = IF config.destroy_jvm THEN Main ELSE gil

\* JPContext::shutdownJVM up to DestroyJavaVM, for which the lock is released.
ShutdownNative ==
  /\ handlers' = IF jvmSaved THEN "jvm" ELSE handlers
  /\ Goto(Main, IF config.destroy_jvm THEN "destroying" ELSE "deleting")
  /\ UNCHANGED gil

\* _core.shutdownJVM: without a JVM it raises, and so it does when startJVM
\* failed half way and left no JPypeContext to configure, or when the JVM is gone
\* with m_Running still set and the thread cannot be attached to it.
Shutdown ==
  /\ At(Main, "idle")
  /\ ~exiting
  /\ vm # "none"
  /\ isRunning => bound /\ vm = "live"
  /\ free' = IF isRunning THEN config.free_resources ELSE free
  /\ ShutdownNative
  /\ UNCHANGED <<coreVars, vm, running, resources, hostSaved, jvmSaved, initVars, hookAt, config>>

\* The exit handler _JTerminate.
Exit ==
  /\ At(Main, "idle")
  /\ ~exiting
  /\ exiting' = TRUE
  /\ IF config.onexit /\ vm # "none"
     THEN ShutdownNative
     ELSE Goto(Main, "exited") /\ UNCHANGED <<handlers, gil>>
  /\ UNCHANGED <<started, bound, vmVars, hostSaved, jvmSaved, initVars, hookAt, config>>

\* Mutant: the handlers of the host are not put back.
DestroyReturnUnrestored ==
  /\ At(Main, "destroying")
  /\ vm = "destroyed"
  /\ Goto(Main, "deleting")
  /\ UNCHANGED <<coreVars, vmVars, signalVars, initVars, gil, hookAt, config>>

\* DestroyJavaVM has returned (at once if the JVM was destroyed before) and the
\* thread has the lock again.
DestroyReturn ==
  /\ At(Main, "destroying")
  /\ vm = "destroyed"
  /\ handlers' = hostSaved
  /\ Goto(Main, "deleting")
  /\ UNCHANGED <<coreVars, vmVars, hostSaved, jvmSaved, initVars, gil, hookAt, config>>

\* The end of JPContext::shutdownJVM deletes what the type manager handed over.
DeleteResources ==
  /\ At(Main, "deleting")
  /\ resources' = IF resources = "released" THEN "deleted" ELSE resources
  /\ Goto(Main, IF exiting THEN "exited" ELSE "idle")
  /\ UNCHANGED <<coreVars, vm, running, free, signalVars, initVars, gil, hookAt, config>>

Stopping == ReplaceHandlers \/ Shutdown \/ Exit \/ DestroyReturn \/ DeleteResources
===============================================================================
