------------------------------- MODULE Lifecycle -------------------------------
(***************************************************************************)
(* The end of the JVM: JPypeContext.shutdown, which runs as a Java         *)
(* shutdown hook while the main Python thread waits in DestroyJavaVM, the  *)
(* hooks registered with JPype that it runs, and Java threads that call    *)
(* Python through proxies (JPypeProxy.invoke, hostInvoke) all the while.   *)
(*                                                                         *)
(* The JVM itself is external: DestroyJavaVM waits for the user threads,   *)
(* runs the hook, and from then on a thread that calls into the JVM never  *)
(* comes back (jp_context.cpp:98).                                         *)
(***************************************************************************)
EXTENDS Context

CONSTANTS
  Daemon,            \* Java threads that DestroyJavaVM does not wait for
  User,              \* Java threads that it waits for
  Hook,              \* threads given to addShutdownHook
  MaxHooks           \* bound on the length of shutdownHooks

ASSUME HookBoundAssumption == MaxHooks \in Nat

Caller == Daemon \cup User \cup Hook

ASSUME CallerAssumption == Nobody \notin Caller

VARIABLES
  shutdownFlag,   \* JPypeContext.shutdownFlag is above zero
  hooks,          \* JPypeContext.shutdownHooks
  touched,        \* hooks changed since the iterator over it was made
  edited,         \* history: hooks changed after shutdown() began
  hookPos,        \* the position of that iterator
  hookState,      \* each hook thread
  fault,          \* shutdown() caught an exception out of its first part
  callAt          \* the proxy call of each thread

hookVars == <<shutdownFlag, hooks, touched, edited, hookPos, hookState, fault>>
vars == <<contextVars, hookVars, callAt>>

Init ==
  /\ ContextInit
  /\ shutdownFlag = FALSE
  /\ hooks = <<>>
  /\ touched = FALSE
  /\ edited = FALSE
  /\ hookPos = 0
  /\ hookState = [h \in Hook |-> "new"]
  /\ fault = FALSE
  /\ callAt = [c \in Caller |-> "idle"]

\* What an action of Java leaves alone.
pythonVars == <<coreVars, free, signalVars, initVars, pyAt, config>>

\* The thread is not in a proxy call.
Ended == {"done", "failed", "refused", "abandoned"}
Outside(c) == callAt[c] \in {"idle"} \cup Ended

-------------------------------------------------------------------------------
\* addShutdownHook and removeShutdownHook, from Python or from another hook.
HooksOpen ==
  /\ started
  /\ vm = "live"
  /\ At(Main, "idle") \/ \E h \in Hook : hookState[h] = "running"

AddHook(h) ==
  /\ HooksOpen
  /\ Len(hooks) < MaxHooks
  /\ hooks' = Append(hooks, h)
  /\ touched' = TRUE
  /\ edited' = (hookAt # "ready")
  /\ UNCHANGED <<contextVars, shutdownFlag, hookPos, hookState, fault, callAt>>

RemoveHook(h) ==
  /\ HooksOpen
  /\ \E i \in 1 .. Len(hooks) :
       /\ hooks[i] = h
       /\ \A j \in 1 .. i - 1 : hooks[j] # h
       /\ hooks' = SubSeq(hooks, 1, i - 1) \o SubSeq(hooks, i + 1, Len(hooks))
  /\ touched' = TRUE
  /\ edited' = (hookAt # "ready")
  /\ UNCHANGED <<contextVars, shutdownFlag, hookPos, hookState, fault, callAt>>

\* DestroyJavaVM has seen the last user thread end and starts the hook.
HookBegin ==
  /\ pyAt[Main] = "destroying"
  /\ vm = "live"
  /\ hookAt = "ready"
  /\ \A u \in User : Outside(u)
  /\ hookAt' = "start"
  /\ hookPos' = 0
  /\ touched' = FALSE
  /\ UNCHANGED <<pythonVars, vm, running, resources, gil, shutdownFlag, hooks, edited,
                 hookState, fault, callAt>>

\* thread.start() for the next of shutdownHooks.
HookStart ==
  /\ hookAt = "start"
  /\ hookPos < Len(hooks)
  /\ ~touched
  /\ hookState[hooks[hookPos + 1]] = "new"
  /\ hookState' = [hookState EXCEPT ![hooks[hookPos + 1]] = "running"]
  /\ hookPos' = hookPos + 1
  /\ UNCHANGED <<contextVars, shutdownFlag, hooks, touched, edited, fault, callAt>>

\* All are started; the loop that joins them begins.
HookStarted ==
  /\ hookAt = "start"
  /\ hookPos = Len(hooks)
  /\ hookAt' = "join"
  /\ hookPos' = 0
  /\ touched' = FALSE
  /\ UNCHANGED <<pythonVars, vm, running, resources, gil, shutdownFlag, hooks, edited,
                 hookState, fault, callAt>>

\* Mutant: the hook threads are started and not waited for.
HookJoinNot ==
  /\ hookAt = "join"
  /\ hookPos < Len(hooks)
  /\ ~touched
  /\ hookPos' = hookPos + 1
  /\ UNCHANGED <<contextVars, shutdownFlag, hooks, touched, edited, hookState, fault, callAt>>

\* thread.join() for the next of them; it returns at once for one not started.
HookJoin ==
  /\ hookAt = "join"
  /\ hookPos < Len(hooks)
  /\ ~touched
  /\ hookState[hooks[hookPos + 1]] # "running"
  /\ hookPos' = hookPos + 1
  /\ UNCHANGED <<contextVars, shutdownFlag, hooks, touched, edited, hookState, fault, callAt>>

\* A changed list (ConcurrentModificationException) or a thread that cannot be
\* started again (IllegalThreadStateException): the catch of Throwable skips the
\* rest of the first part.
HookThrows ==
  /\ \/ hookAt \in {"start", "join"} /\ hookPos # Len(hooks) /\ touched
     \/ /\ hookAt = "start" /\ hookPos < Len(hooks) /\ ~touched
        /\ hookState[hooks[hookPos + 1]] # "new"
  /\ hookAt' = "release"
  /\ fault' = TRUE
  /\ UNCHANGED <<pythonVars, vm, running, resources, gil, shutdownFlag, hooks, touched,
                 edited, hookPos, hookState, callAt>>

\* Proxies are disabled and the user threads that are left interrupted.
HookFlag ==
  /\ hookAt = "join"
  /\ hookPos = Len(hooks)
  /\ hookAt' = "inform"
  /\ shutdownFlag' = TRUE
  /\ UNCHANGED <<pythonVars, vm, running, resources, gil, hooks, touched, edited, hookPos,
                 hookState, fault, callAt>>

\* onShutdown: m_Running is cleared and the collector stopped.
HookInform ==
  /\ hookAt = "inform"
  /\ hookAt' = "release"
  /\ running' = FALSE
  /\ UNCHANGED <<pythonVars, vm, resources, gil, hookVars, callAt>>

\* The reference queue is stopped and the type manager hands its native
\* resources over, unless freeResources is off; then post hooks and close.
HookRelease ==
  /\ hookAt = "release"
  /\ hookAt' = "done"
  /\ resources' = IF free THEN "released" ELSE resources
  /\ UNCHANGED <<pythonVars, vm, running, gil, hookVars, callAt>>

\* The JVM is gone.
Destroyed ==
  /\ pyAt[Main] = "destroying"
  /\ vm = "live"
  /\ hookAt \in {"none", "done"}
  /\ \A u \in User : Outside(u)
  /\ vm' = "destroyed"
  /\ UNCHANGED <<pythonVars, running, resources, gil, hookAt, hookVars, callAt>>

\* The run() of a hook thread ends, after its proxy call if it makes one.
HookThreadEnd(h) ==
  /\ hookState[h] = "running"
  /\ Outside(h)
  /\ vm = "live"
  /\ hookState' = [hookState EXCEPT ![h] = "ended"]
  /\ UNCHANGED <<contextVars, shutdownFlag, hooks, touched, edited, hookPos, fault, callAt>>

Hooking ==
  \/ HookBegin \/ HookStart \/ HookStarted \/ HookJoin \/ HookThrows \/ HookFlag
  \/ HookInform \/ HookRelease \/ Destroyed
  \/ \E h \in Hook : AddHook(h) \/ RemoveHook(h) \/ HookThreadEnd(h)

-------------------------------------------------------------------------------
CallGoto(c, point) == callAt' = [callAt EXCEPT ![c] = point]
Take(c) == gil = Nobody /\ gil' = c
Give == gil' = Nobody

javaVars == <<pythonVars, vm, running, resources, hookAt, hookVars>>

\* A user thread calls before the shutdown, a hook thread while it runs.
CanCall(c) ==
  /\ started
  /\ vm = "live"
  /\ pyAt[Main] # "exited"
  /\ c \in User => hookAt = "ready"
  /\ c \in Hook => hookState[c] = "running"

\* JPypeProxy.invoke: the test of the flag and the lookup of the types.
Invoke(c) ==
  /\ CanCall(c)
  /\ callAt[c] = "idle"
  /\ CallGoto(c, IF shutdownFlag THEN "refused" ELSE "native")
  /\ UNCHANGED <<javaVars, gil>>

\* hostInvoke waits for the Python lock.
Enter(c) ==
  /\ callAt[c] = "native"
  /\ Take(c)
  /\ CallGoto(c, "entered")
  /\ UNCHANGED javaVars

\* getCallable and getArgs: the first JNI call does not return from a JVM that
\* is gone, and a frame cannot be made after m_Running was cleared.
Arguments(c) ==
  /\ callAt[c] = "entered"
  /\ \/ vm = "destroyed" /\ CallGoto(c, "parked") /\ UNCHANGED gil
     \/ vm = "live" /\ ~running /\ CallGoto(c, "failed") /\ Give
     \/ vm = "live" /\ running /\ CallGoto(c, "python") /\ UNCHANGED gil
  /\ UNCHANGED javaVars

\* The Python method gives the lock up, to block or to let others run.
Yield(c) ==
  /\ callAt[c] = "python"
  /\ Give
  /\ CallGoto(c, "blocked")
  /\ UNCHANGED javaVars

Resume(c) ==
  /\ callAt[c] = "blocked"
  /\ Take(c)
  /\ CallGoto(c, "python")
  /\ UNCHANGED javaVars

\* Mutant: the result is converted whatever happened during the call.
ReturnUnchecked(c) ==
  /\ callAt[c] = "python"
  /\ CallGoto(c, "convert")
  /\ UNCHANGED <<javaVars, gil>>

\* The method returns; abandonThreadAfterShutdown ends the thread if m_Running
\* was cleared meanwhile.
Return(c) ==
  /\ callAt[c] = "python"
  /\ IF isRunning
     THEN CallGoto(c, "convert") /\ UNCHANGED gil
     ELSE CallGoto(c, "abandoned") /\ Give
  /\ UNCHANGED javaVars

\* The result is being converted: since the test of m_Running the lock was held,
\* or it was given up and taken again.
Converting(c) == callAt[c] \in {"convert", "resumed"}

\* Converting the result runs a conversion written in Python, which gives the lock
\* up; nothing tests m_Running when it has the lock again.
ConvertYield(c) ==
  /\ Converting(c)
  /\ Give
  /\ CallGoto(c, "suspended")
  /\ UNCHANGED javaVars

ConvertResume(c) ==
  /\ callAt[c] = "suspended"
  /\ Take(c)
  /\ CallGoto(c, "resumed")
  /\ UNCHANGED javaVars

\* The result is converted, boxed and returned to Java.
Convert(c) ==
  /\ Converting(c)
  /\ IF vm = "live"
     THEN CallGoto(c, "done") /\ Give
     ELSE CallGoto(c, "parked") /\ UNCHANGED gil
  /\ UNCHANGED javaVars

Calling(c) ==
  \/ Invoke(c) \/ Enter(c) \/ Arguments(c) \/ Yield(c) \/ Resume(c) \/ Return(c)
  \/ ConvertYield(c) \/ ConvertResume(c) \/ Convert(c)

\* A crash ends the process.
Alive == \A t \in PyThread : pyAt[t] # "crashed"

Python ==
  \/ \E t \in PyThread : Starting(t)
  \/ \E f \in Func : Registering(f)
  \/ Stopping

Next ==
  /\ Alive
  /\ \/ Python /\ UNCHANGED <<hookVars, callAt>>
     \/ Hooking
     \/ \E c \in Caller : Calling(c)

Spec == Init /\ [][Next]_vars

(***************************************************************************)
(* Fairness.  The thread in shutdownJVM, the Java hook thread and the JVM  *)
(* run on, the hook list is changed finitely often by its bound, and a     *)
(* thread inside a proxy call goes on: the lock is passed to every thread  *)
(* that waits for it (strong fairness), and a Python method or conversion  *)
(* that gave it up returns.  Nothing makes a thread call or the user shut  *)
(* down.                                                                   *)
(***************************************************************************)
Fairness ==
  /\ SF_vars((DestroyReturn \/ DeleteResources) /\ UNCHANGED <<hookVars, callAt>>)
  /\ WF_vars(HookBegin \/ HookStart \/ HookStarted \/ HookJoin \/ HookThrows \/ HookFlag
             \/ HookInform \/ HookRelease \/ Destroyed)
  /\ \A h \in Hook : WF_vars(HookThreadEnd(h))
  /\ \A c \in Caller : /\ SF_vars(Enter(c) \/ Resume(c) \/ ConvertResume(c))
                       /\ SF_vars(Arguments(c) \/ Return(c) \/ Convert(c))

LiveSpec == Spec /\ Fairness

-------------------------------------------------------------------------------
\* A proxy call that keeps the lock from the test of m_Running after the Python
\* method to the end of the conversion never works with native class objects that
\* shutdownJVM deleted.  One whose conversion gives the lock up is not kept apart
\* from shutdownJVM: NeverTouchedAgain, below, fails.
FreedUntouched ==
  \A c \in Caller : callAt[c] = "convert" /\ ~fault => resources # "deleted"

\* A proxy call made by a hook registered with JPype is served: it is neither
\* refused, nor failed, nor abandoned, since the hooks are joined before proxies
\* are disabled (unless the loops threw or a hook edits the list meanwhile).
HooksServed ==
  \A h \in Hook : ~fault /\ ~edited => callAt[h] \notin {"failed", "refused", "abandoned", "parked"}

\* Whenever the main thread is out of shutdownJVM and the JVM was destroyed, no
\* fault of the process is routed into it, whatever Python installed meanwhile.
HandlersRestored ==
  pyAt[Main] \in {"idle", "exited"} /\ vm = "destroyed" => handlers # "jvm"

\* An initializer is called at most once.
InitializersOnce == \A f \in Func : funcRuns[f] <= 1

\* shutdownJVM and the exit handler return, unless the list of hooks disturbed it
\* or another thread crashed the process: the user threads and the hooks that
\* they wait for can take the Python lock.
ShutdownReturns ==
  pyAt[Main] = "destroying"
    ~> fault \/ edited \/ ~Alive \/ pyAt[Main] \in {"idle", "exited"}

-------------------------------------------------------------------------------
(***************************************************************************)
(* What comments of the code say, and the code does not do in every        *)
(* interleaving.                                                           *)
(***************************************************************************)

\* A thread that is stuck in the dead JVM does not keep the Python lock, which
\* "would hard freeze the rest of the interpreter forever".
LockNotLost == \A c \in Caller : callAt[c] = "parked" => gil # c

\* When shutdownJVM has freed the class objects, a thread that is still in a proxy
\* call "must never execute another instruction that touches JVM or JPype state".
NeverTouchedAgain ==
  \A c \in Caller : Converting(c) /\ ~fault => resources # "deleted"
===============================================================================
