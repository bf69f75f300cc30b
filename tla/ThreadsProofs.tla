----------------------------- MODULE ThreadsProofs -----------------------------
(***************************************************************************)
(* Attachment and monitors of Threads, for any set of threads and any      *)
(* number of calls.                                                        *)
(***************************************************************************)
EXTENDS Threads, TLAPS

TypeOK ==
  /\ running \in BOOLEAN
  /\ at \in [Thread -> {"python", "entering", "exiting", "ended"}]
  /\ att \in [Thread -> {"none", "user", "daemon"}]
  /\ slot \in [Thread -> BOOLEAN]
  /\ refused \in [Thread -> BOOLEAN]
  /\ inJava \in [Thread -> BOOLEAN]
  /\ mon \in [owner : Thread \cup {Nobody}, count : Nat]
  /\ depth \in [Thread -> Nat]
  /\ dropped \in [Thread -> BOOLEAN]

\* A thread that is attached is registered for the destructor of its slot, until
\* it has run; after that the thread is detached or there was no JVM to leave.
Registered ==
  \A t \in Thread : ~refused[t] =>
    /\ at[t] \in {"python", "entering"} /\ att[t] # "none" => slot[t]
    /\ at[t] = "ended" /\ running => att[t] = "none"

\* What the monitor counts of a thread and the statements that the thread is in.
\* A thread that lost the monitor may have entered it again, fewer times.
Counted ==
  running =>
    /\ mon.owner = Nobody => mon.count = 0
    /\ \A t \in Thread :
         /\ mon.owner = t => mon.count > 0 /\ mon.count <= depth[t]
         /\ dropped[t] => depth[t] > 0
         /\ at[t] \in {"exiting", "ended"} => depth[t] = 0
         /\ ~dropped[t] /\ depth[t] > 0 => mon.owner = t /\ mon.count = depth[t]

IInv == TypeOK /\ Registered /\ Counted

-------------------------------------------------------------------------------
LEMMA InitIInv == Init => IInv
BY NobodyAssumption DEF Init, IInv, TypeOK, Registered, Counted, Free

LEMMA AttachIInv ==
  ASSUME IInv, NEW t \in Thread, NEW how \in {"user", "daemon"}, Attach(t, how)
  PROVE  IInv'
BY DEF IInv, TypeOK, Registered, Counted, Attach, Call, Python, Attached, jvmVars, lockVars

\* A frame leaves the thread attached; it is registered if the frame attached it.
LEMMA GetEnvAttaches ==
  ASSUME TypeOK, Registered, NEW t \in Thread, getEnv(t), at'[t] \in {"python", "entering"},
         \A u \in Thread : u # t => at'[u] = at[u],
         at[t] = "python", UNCHANGED <<refused, running>>
  PROVE  /\ att' \in [Thread -> {"none", "user", "daemon"}]
         /\ slot' \in [Thread -> BOOLEAN]
         /\ Registered'
<1>1. CASE att[t] = "none"
  BY <1>1 DEF TypeOK, Registered, getEnv, Attached
<1>2. CASE att[t] # "none"
  BY <1>2 DEF TypeOK, Registered, getEnv
<1> QED
  BY <1>1, <1>2

LEMMA CallbackIInv ==
  ASSUME IInv, NEW t \in Thread, Callback(t)
  PROVE  IInv'
<1> USE DEF IInv, Callback, Call, Python, jvmVars, lockVars
<1>1. Counted'
  BY DEF Counted
<1> QED
  BY <1>1, GetEnvAttaches DEF TypeOK

LEMMA CallbackReturnIInv ==
  ASSUME IInv, NEW t \in Thread, CallbackReturn(t)
  PROVE  IInv'
BY DEF IInv, TypeOK, Registered, Counted, CallbackReturn, Python, jvmVars, lockVars

\* The monitor when its owner is detached, and when another thread is.
LEMMA ReleasedCounted ==
  ASSUME TypeOK, Counted, NEW t \in Thread, running
  PROVE  /\ Released(t) \in [owner : Thread \cup {Nobody}, count : Nat]
         /\ Released(t).owner = Nobody => Released(t).count = 0
         /\ Released(t).owner # t
         /\ \A u \in Thread : u # t => (Released(t).owner = u <=> mon.owner = u)
         /\ \A u \in Thread : u # t /\ mon.owner = u => Released(t) = mon
<1>1. CASE mon.owner = t
  BY <1>1, NobodyAssumption DEF TypeOK, Released, Free
<1>2. CASE mon.owner # t
  BY <1>2 DEF TypeOK, Counted, Released
<1> QED
  BY <1>1, <1>2

LEMMA DetachIInv ==
  ASSUME IInv, NEW t \in Thread, Detach(t)
  PROVE  IInv'
<1> USE DEF IInv, Detach, Call, Python, jvmVars
<1>1. CASE inJava[t]
  <2>1. /\ UNCHANGED <<att, mon, dropped>>
        /\ slot' = [slot EXCEPT ![t] = FALSE]
        /\ refused' = [refused EXCEPT ![t] = TRUE]
    BY <1>1 DEF detachCurrentThread
  <2>2. TypeOK'
    BY <2>1 DEF TypeOK
  <2>3. Registered'
    BY <2>1 DEF TypeOK, Registered
  <2>4. Counted'
    BY <2>1 DEF Counted
  <2> QED
    BY <2>2, <2>3, <2>4
<1>2. CASE ~inJava[t]
  <2> DEFINE after == Released(t)
  <2>1. /\ mon' = after /\ refused' = refused
        /\ att' = [att EXCEPT ![t] = "none"]
        /\ slot' = [slot EXCEPT ![t] = FALSE]
        /\ dropped' = [dropped EXCEPT ![t] = dropped[t] \/ mon.owner = t]
    BY <1>2 DEF detachCurrentThread
  <2>2. /\ after \in [owner : Thread \cup {Nobody}, count : Nat]
        /\ after.owner = Nobody => after.count = 0
        /\ after.owner # t
        /\ \A u \in Thread : u # t => (after.owner = u <=> mon.owner = u)
        /\ \A u \in Thread : u # t /\ mon.owner = u => after = mon
    BY ReleasedCounted
  <2> HIDE DEF after
  <2>3. dropped' \in [Thread -> BOOLEAN]
    BY <2>1 DEF TypeOK
  <2>4. TypeOK'
    BY <2>1, <2>2, <2>3 DEF TypeOK
  <2>5. Registered'
    BY <2>1 DEF TypeOK, Registered
  <2>6. Counted'
    <3>1. mon'.owner = Nobody => mon'.count = 0
      BY <2>1, <2>2
    <3>2. ASSUME NEW u \in Thread, u # t
          PROVE  /\ mon'.owner = u => mon'.count > 0 /\ mon'.count <= depth'[u]
                 /\ dropped'[u] => depth'[u] > 0
                 /\ at'[u] \in {"exiting", "ended"} => depth'[u] = 0
                 /\ ~dropped'[u] /\ depth'[u] > 0 => mon'.owner = u /\ mon'.count = depth'[u]
      BY <2>1, <2>2, <3>2 DEF TypeOK, Counted
    <3>3. dropped'[t] <=> (dropped[t] \/ mon.owner = t)
      BY <2>1 DEF TypeOK
    <3>4. mon.owner = t => depth[t] > 0
      BY DEF TypeOK, Counted
    <3>5. /\ mon'.owner = t => mon'.count > 0 /\ mon'.count <= depth'[t]
          /\ dropped'[t] => depth'[t] > 0
          /\ at'[t] \in {"exiting", "ended"} => depth'[t] = 0
          /\ ~dropped'[t] /\ depth'[t] > 0 => mon'.owner = t /\ mon'.count = depth'[t]
      BY <2>1, <2>2, <3>3, <3>4 DEF TypeOK, Counted
    <3> QED
      BY <3>1, <3>2, <3>5 DEF Counted
  <2> QED
    BY <2>4, <2>5, <2>6
<1> QED
  BY <1>1, <1>2

LEMMA EnterIInv ==
  ASSUME IInv, NEW t \in Thread, Enter(t)
  PROVE  IInv'
<1> USE DEF IInv, Enter, Call, Python, jvmVars, lockVars
<1>1. at' \in [Thread -> {"python", "entering", "exiting", "ended"}]
  BY DEF TypeOK
<1>2. /\ at'[t] = "entering"
      /\ \A u \in Thread : u # t => at'[u] = at[u]
  BY DEF TypeOK
<1>3. Counted'
  BY <1>2 DEF TypeOK, Counted
<1> QED
  BY <1>1, <1>2, <1>3, GetEnvAttaches DEF TypeOK

LEMMA AcquireIInv ==
  ASSUME IInv, NEW t \in Thread, Acquire(t)
  PROVE  IInv'
<1> USE DEF IInv, Acquire, jvmVars
<1>1. TypeOK'
  BY DEF TypeOK
<1>2. Registered'
  BY DEF TypeOK, Registered
<1>3. Counted'
  BY NobodyAssumption DEF TypeOK, Counted
<1> QED
  BY <1>1, <1>2, <1>3

LEMMA ReleaseIInv ==
  ASSUME IInv, NEW t \in Thread, Release(t)
  PROVE  IInv'
<1> USE DEF IInv, Release, Python, jvmVars
<1>1. dropped' \in [Thread -> BOOLEAN] /\ depth' \in [Thread -> Nat]
  BY DEF TypeOK
<1>2. /\ depth'[t] = depth[t] - 1
      /\ dropped'[t] <=> (dropped[t] /\ depth[t] > 1)
      /\ \A u \in Thread : u # t => depth'[u] = depth[u] /\ dropped'[u] = dropped[u]
  BY DEF TypeOK
<1>3. CASE ~running
  BY <1>1, <1>3 DEF TypeOK, Registered, Counted
<1>4. CASE running
  <2>1. /\ att' \in [Thread -> {"none", "user", "daemon"}]
        /\ slot' \in [Thread -> BOOLEAN]
        /\ Registered'
    BY <1>4, GetEnvAttaches
  <2>2. CASE mon.owner # t
    <3>1. mon' = mon
      BY <1>4, <2>2
    <3>2. Counted'
      BY <1>1, <1>2, <1>4, <2>2, <3>1 DEF TypeOK, Counted
    <3> QED
      BY <1>1, <2>1, <3>1, <3>2 DEF TypeOK
  <2>3. CASE mon.owner = t /\ mon.count = 1
    <3>1. mon' = Free
      BY <1>4, <2>3
    <3>2. Counted'
      BY <1>1, <1>2, <1>4, <2>3, <3>1, NobodyAssumption DEF TypeOK, Counted, Free
    <3> QED
      BY <1>1, <2>1, <3>1, <3>2 DEF TypeOK, Free
  <2>4. CASE mon.owner = t /\ mon.count # 1
    <3>1. mon' = [mon EXCEPT !.count = @ - 1]
      BY <1>4, <2>4
    <3>2. mon'.owner = t /\ mon'.count = mon.count - 1 /\ mon.count > 1
      BY <1>4, <2>4, <3>1 DEF TypeOK, Counted
    <3>3. mon' \in [owner : Thread \cup {Nobody}, count : Nat]
      BY <2>4, <3>1, <3>2 DEF TypeOK
    <3>4. Counted'
      BY <1>1, <1>2, <1>4, <2>4, <3>2, NobodyAssumption DEF TypeOK, Counted
    <3> QED
      BY <1>1, <2>1, <3>3, <3>4 DEF TypeOK
  <2> QED
    BY <2>2, <2>3, <2>4
<1> QED
  BY <1>3, <1>4 DEF TypeOK

LEMMA ExitIInv ==
  ASSUME IInv, NEW t \in Thread, Exit(t)
  PROVE  IInv'
BY DEF IInv, TypeOK, Registered, Counted, Exit, Python, jvmVars, lockVars

LEMMA ExitDetachIInv ==
  ASSUME IInv, NEW t \in Thread, ExitDetach(t)
  PROVE  IInv'
<1> USE DEF IInv, ExitDetach, jvmVars
<1>1. CASE mon.owner = t
  <2>1. mon' = Free
    BY <1>1 DEF Released
  <2> QED
    BY <1>1, <2>1, NobodyAssumption DEF TypeOK, Registered, Counted, Free
<1>2. CASE mon.owner # t
  <2>1. mon' = mon
    BY <1>2 DEF Released
  <2> QED
    BY <1>2, <2>1 DEF TypeOK, Registered, Counted
<1> QED
  BY <1>1, <1>2

LEMMA MainIInv ==
  ASSUME IInv, Shutdown \/ UsersEnded \/ Destroyed
  PROVE  IInv'
BY DEF IInv, TypeOK, Registered, Counted, Shutdown, UsersEnded, Destroyed, lockVars

LEMMA OnShutdownIInv ==
  ASSUME IInv, onShutdown
  PROVE  IInv'
BY DEF IInv, TypeOK, Registered, Counted, onShutdown, lockVars

LEMMA NextIInv == IInv /\ [Next]_vars => IInv'
<1> SUFFICES ASSUME IInv, [Next]_vars PROVE IInv'
  OBVIOUS
<1>1. CASE UNCHANGED vars
  BY <1>1 DEF IInv, TypeOK, Registered, Counted, vars
<1>2. CASE Next
  BY <1>2, AttachIInv, CallbackIInv, CallbackReturnIInv, DetachIInv, EnterIInv, AcquireIInv,
     ReleaseIInv, ExitIInv, ExitDetachIInv, MainIInv, OnShutdownIInv
  DEF Next, Destroying, attachThreadToJVM, detachThreadFromJVM
<1> QED
  BY <1>1, <1>2

THEOREM Invariance == Spec => []IInv
BY InitIInv, NextIInv, PTL DEF Spec

\* autoDetachOnThreadExit: no thread that ended while the JVM runs is attached.
THEOREM EndedThreadsDetached == Spec => []ExitDetaches
<1>1. IInv => ExitDetaches
  BY DEF IInv, TypeOK, Registered, ExitDetaches, isThreadAttached
<1> QED
  BY <1>1, Invariance, PTL

\* JPMonitor: the monitor is held exactly inside of `with synchronized`.
THEOREM MonitorHeld == Spec => []LockHeld
<1>1. IInv => LockHeld
  BY DEF IInv, TypeOK, Counted, LockHeld
<1> QED
  BY <1>1, Invariance, PTL
===============================================================================
