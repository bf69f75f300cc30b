-------------------------------- MODULE Threads --------------------------------
(***************************************************************************)
(* Python threads and the JVM: a thread is attached when it asks for it or *)
(* when it first uses Java, it may detach, and it is detached by a         *)
(* destructor of its thread-local slot when it ends.  shutdownJVM waits in *)
(* DestroyJavaVM for the threads attached as user threads.  Threads share  *)
(* one Java object under jpype.synchronized.                               *)
(*                                                                         *)
(* A step of Python code needs the Python lock free and leaves it free,    *)
(* unless it keeps it (gil).  External, as the JVM has them: attaching an  *)
(* attached thread changes nothing; a thread with Java frames on its stack *)
(* cannot be detached; detaching a thread releases its monitors.           *)
(***************************************************************************)
EXTENDS Naturals

CONSTANTS Thread,     \* Python threads other than the main thread
          MaxCalls,   \* bound on the calls that a thread makes
          Nobody      \* no thread

ASSUME NobodyAssumption == Nobody \notin Thread
ASSUME CallsAssumption == MaxCalls \in Nat

VARIABLES
  vm,        \* the JVM, after the user threads have ended: "hooks"
  running,   \* m_Running
  main,      \* where the main thread is in shutdownJVM
  gil,       \* the holder of the Python lock, across steps
  at,        \* where each thread is
  inJava,    \* Java frames are below the Python code that the thread runs
  att,       \* how the thread is attached
  slot,      \* the thread-local slot of registerAutoDetach is set
  refused,   \* history: a detach was refused because of Java frames
  mon,       \* the monitor of the object: [owner, count]
  depth,     \* with statements that the thread is inside of
  dropped,   \* history: the thread detached inside of one
  left       \* the calls that the thread may still make

vars == <<vm, running, main, gil, at, inJava, att, slot, refused, mon, depth, dropped, left>>
jvmVars == <<vm, running, main>>
lockVars == <<mon, depth, dropped>>

Free == [owner |-> Nobody, count |-> 0]

Init ==
  /\ vm = "live" /\ running = TRUE /\ main = "idle" /\ gil = Nobody
  /\ at = [t \in Thread |-> "python"]
  /\ inJava = [t \in Thread |-> FALSE]
  /\ att = [t \in Thread |-> "none"]
  /\ slot = [t \in Thread |-> FALSE]
  /\ refused = [t \in Thread |-> FALSE]
  /\ mon = Free
  /\ depth = [t \in Thread |-> 0]
  /\ dropped = [t \in Thread |-> FALSE]
  /\ left = [t \in Thread |-> MaxCalls]

Python(t) == at[t] = "python" /\ gil = Nobody
Call(t) == Python(t) /\ running /\ left[t] > 0 /\ left' = [left EXCEPT ![t] = @ - 1]

\* Attached, and registered for the destructor.
Attached(t, how) ==
  /\ att' = [att EXCEPT ![t] = IF @ = "none" THEN how ELSE @]
  /\ slot' = [slot EXCEPT ![t] = TRUE]

\* Mutant: a thread that is attached by its first use of Java is not registered.
getEnvUnregistered(t) ==
  /\ att' = [att EXCEPT ![t] = IF @ = "none" THEN "daemon" ELSE @]
  /\ UNCHANGED slot

\* A frame for a call into Java; only a thread that it attaches is registered.
getEnv(t) == IF att[t] = "none" THEN Attached(t, "daemon") ELSE UNCHANGED <<att, slot>>

\* The monitor after the thread has been detached.
Released(t) == IF mon.owner = t THEN Free ELSE mon

isThreadAttached(t) == running /\ att[t] # "none"

-------------------------------------------------------------------------------
\* Thread.attach ("user") and Thread.attachAsDaemon; without a JVM they raise.
Attach(t, how) ==
  /\ Call(t)
  /\ Attached(t, how)
  /\ UNCHANGED <<jvmVars, gil, at, inJava, refused, lockVars>>

\* The deprecated function of the jpype module.
attachThreadToJVM(t) == Attach(t, "user")

\* The thread calls Java, which calls Python again through a proxy, and the
\* return of that call.
Callback(t) ==
  /\ Call(t) /\ ~inJava[t] /\ depth[t] = 0
  /\ getEnv(t)
  /\ inJava' = [inJava EXCEPT ![t] = TRUE]
  /\ UNCHANGED <<jvmVars, gil, at, refused, lockVars>>

CallbackReturn(t) ==
  /\ Python(t) /\ inJava[t] /\ depth[t] = 0
  /\ inJava' = [inJava EXCEPT ![t] = FALSE]
  /\ UNCHANGED <<jvmVars, gil, at, att, slot, refused, lockVars, left>>

\* The answer of DetachCurrentThread is not looked at, and the slot is cleared
\* either way.
detachCurrentThread(t) ==
  /\ slot' = [slot EXCEPT ![t] = FALSE]
  /\ IF inJava[t]
     THEN /\ refused' = [refused EXCEPT ![t] = TRUE]
          /\ UNCHANGED <<att, mon, dropped>>
     ELSE /\ att' = [att EXCEPT ![t] = "none"]
          /\ mon' = Released(t)
          /\ dropped' = [dropped EXCEPT ![t] = @ \/ mon.owner = t]
          /\ UNCHANGED refused

\* Thread.detach
Detach(t) ==
  /\ Call(t)
  /\ detachCurrentThread(t)
  /\ UNCHANGED <<jvmVars, gil, at, inJava, depth>>

\* The deprecated function of the jpype module.
detachThreadFromJVM(t) == Detach(t)

-------------------------------------------------------------------------------
\* Mutant: the Python lock is kept while the thread waits for the monitor.
EnterLocked(t) ==
  /\ Call(t)
  /\ getEnv(t)
  /\ at' = [at EXCEPT ![t] = "entering"]
  /\ gil' = t
  /\ UNCHANGED <<jvmVars, inJava, refused, lockVars>>

\* with synchronized(obj): __enter__ of the monitor up to MonitorEnter, for which
\* the lock is released.
Enter(t) ==
  /\ Call(t)
  /\ getEnv(t)
  /\ at' = [at EXCEPT ![t] = "entering"]
  /\ UNCHANGED <<jvmVars, gil, inJava, refused, lockVars>>

\* MonitorEnter returns, and the thread has the Python lock again.
Acquire(t) ==
  /\ at[t] = "entering" /\ gil \in {Nobody, t} /\ vm # "destroyed"
  /\ mon.owner \in {Nobody, t}
  /\ mon' = [owner |-> t, count |-> mon.count + 1]
  /\ depth' = [depth EXCEPT ![t] = @ + 1]
  /\ at' = [at EXCEPT ![t] = "python"]
  /\ gil' = Nobody
  /\ UNCHANGED <<jvmVars, inJava, att, slot, refused, dropped, left>>

\* Mutant: the monitor is left in one go, however often it was entered.
ReleaseWhole(t) ==
  /\ Python(t) /\ depth[t] > 0
  /\ depth' = [depth EXCEPT ![t] = @ - 1]
  /\ IF running THEN mon' = Released(t) /\ getEnv(t) ELSE UNCHANGED <<mon, att, slot>>
  /\ dropped' = [dropped EXCEPT ![t] = @ /\ depth[t] > 1]
  /\ UNCHANGED <<jvmVars, gil, at, inJava, refused, left>>

\* __exit__ at the end of the with statement.  A thread that does not own the
\* monitor any more gets IllegalMonitorStateException, and without a JVM the
\* call raises; the statement is left all the same.
Release(t) ==
  /\ Python(t) /\ depth[t] > 0
  /\ depth' = [depth EXCEPT ![t] = @ - 1]
  /\ IF running
     THEN /\ getEnv(t)
          /\ mon' = IF mon.owner # t THEN mon
                    ELSE IF mon.count = 1 THEN Free ELSE [mon EXCEPT !.count = @ - 1]
     ELSE UNCHANGED <<mon, att, slot>>
  /\ dropped' = [dropped EXCEPT ![t] = @ /\ depth[t] > 1]
  /\ UNCHANGED <<jvmVars, gil, at, inJava, refused, left>>

-------------------------------------------------------------------------------
\* The thread ends, and autoDetachOnThreadExit, if it is registered, finds the
\* JVM running.
Exit(t) ==
  /\ Python(t) /\ ~inJava[t] /\ depth[t] = 0
  /\ at' = [at EXCEPT ![t] = IF slot[t] /\ running THEN "exiting" ELSE "ended"]
  /\ UNCHANGED <<jvmVars, gil, inJava, att, slot, refused, lockVars, left>>

\* It attaches the thread, in case it is not, and detaches it; it holds no lock.
ExitDetach(t) ==
  /\ at[t] = "exiting"
  /\ at' = [at EXCEPT ![t] = "ended"]
  /\ att' = [att EXCEPT ![t] = "none"]
  /\ mon' = Released(t)
  /\ UNCHANGED <<jvmVars, gil, inJava, slot, refused, depth, dropped, left>>

-------------------------------------------------------------------------------
\* Mutant: the Python lock is kept while DestroyJavaVM waits.
ShutdownLocked ==
  /\ main = "idle" /\ gil = Nobody
  /\ main' = "destroying"
  /\ gil' = "main"
  /\ UNCHANGED <<vm, running, at, inJava, att, slot, refused, lockVars, left>>

\* shutdownJVM gives the lock up and waits for the user threads; then the Java
\* shutdown hook clears m_Running, and the JVM is destroyed.
Shutdown ==
  /\ main = "idle" /\ gil = Nobody
  /\ main' = "destroying"
  /\ UNCHANGED <<vm, running, gil, at, inJava, att, slot, refused, lockVars, left>>

UsersEnded ==
  /\ main = "destroying" /\ vm = "live"
  /\ \A t \in Thread : att[t] # "user"
  /\ vm' = "hooks"
  /\ UNCHANGED <<running, main, gil, at, inJava, att, slot, refused, lockVars, left>>

onShutdown ==
  /\ vm = "hooks" /\ running
  /\ running' = FALSE
  /\ UNCHANGED <<vm, main, gil, at, inJava, att, slot, refused, lockVars, left>>

Destroyed ==
  /\ vm = "hooks" /\ ~running
  /\ vm' = "destroyed"
  /\ main' = "done"
  /\ UNCHANGED <<running, gil, at, inJava, att, slot, refused, lockVars, left>>

Destroying == UsersEnded \/ onShutdown \/ Destroyed

Next ==
  \/ \E t \in Thread :
       \/ \E how \in {"user", "daemon"} : Attach(t, how)
       \/ attachThreadToJVM(t)
       \/ Callback(t) \/ CallbackReturn(t) \/ Detach(t) \/ detachThreadFromJVM(t)
       \/ Enter(t) \/ Acquire(t) \/ Release(t) \/ Exit(t) \/ ExitDetach(t)
  \/ Shutdown \/ Destroying

Spec == Init /\ [][Next]_vars

(***************************************************************************)
(* Fairness.  The JVM runs on, and so does a thread: it gets the Python    *)
(* lock, a monitor that is free, and to the end of its with statements, of *)
(* its callbacks and of its own code.  Its calls are finitely many by the  *)
(* bound.  Nothing makes the program shut down.                            *)
(***************************************************************************)
Fairness ==
  /\ WF_vars(Destroying)
  /\ \A t \in Thread :
       WF_vars(Acquire(t) \/ Release(t) \/ CallbackReturn(t) \/ Exit(t) \/ ExitDetach(t))

LiveSpec == Spec /\ Fairness

-------------------------------------------------------------------------------
\* A thread that ended before the shutdown is not attached any more, however it
\* was attached and whether or not it detached itself ("a real, unbounded leak
\* proportional to thread count", jp_context.cpp:608).  The exception is a thread
\* that called detach() in a callback from Java: it stays attached and has lost
\* its registration.
ExitDetaches ==
  \A t \in Thread : at[t] = "ended" /\ ~refused[t] => ~isThreadAttached(t)

\* Inside `with synchronized(obj)` the thread owns the monitor of obj, as often as
\* it has entered it, and outside it does not; only a thread that detached inside
\* the statement has lost it.
LockHeld ==
  running => \A t \in Thread :
    ~dropped[t] => /\ mon.owner = t <=> depth[t] > 0
                   /\ mon.owner = t => mon.count = depth[t]

\* shutdownJVM returns once the threads of the program have ended: no thread that
\* was attached as a user thread and has ended keeps DestroyJavaVM waiting (but
\* for a detach() in a callback).
DestroyReturns ==
  main = "destroying" ~> main = "done" \/ \E t \in Thread : refused[t]

\* A thread that waits for the monitor gets it, or the JVM is gone: whoever owns
\* the monitor can take the Python lock and leave it.
MonitorServed ==
  \A t \in Thread : at[t] = "entering" ~> at[t] # "entering" \/ vm = "destroyed"
===============================================================================
