---------------------------- MODULE LifecycleProofs ----------------------------
(***************************************************************************)
(* The safety properties of Lifecycle for any Python threads, hooks,       *)
(* callers, initializers and configurations.                               *)
(***************************************************************************)
EXTENDS Lifecycle, SequenceTheorems, TLAPS

Points == {"idle", "starting", "crashed", "init", "bind", "inits", "clear", "destroying",
           "deleting", "exited"}
CallPoints == {"native", "entered", "python", "blocked", "convert", "suspended", "resumed",
               "parked"}

TypeOK ==
  /\ vm \in {"none", "live", "destroyed"}
  /\ resources \in {"none", "live", "released", "deleted"}
  /\ hookAt \in {"none", "ready", "start", "join", "inform", "release", "done"}
  /\ pyAt \in [PyThread -> Points]
  /\ inits \in Seq(Func)
  /\ initPos \in Nat
  /\ funcAt \in [Func -> {"none", "checked", "done"}]
  /\ funcRuns \in [Func -> Nat]
  /\ hooks \in Seq(Hook)
  /\ hookPos \in Nat
  /\ hookState \in [Hook -> {"new", "running", "ended"}]
  /\ callAt \in [Caller -> CallPoints \cup {"idle"} \cup Ended]

\* One thread at most is past JNI_CreateJavaVM in startJVM, and the hook and the
\* resources come into being once.
InStart == {"init", "bind", "inits", "clear"}
OneStart ==
  /\ \A t, u \in PyThread : pyAt[t] \in InStart /\ pyAt[u] \in InStart => t = u
  /\ vm = "none" => /\ ~running /\ hookAt = "none" /\ resources = "none"
                    /\ \A t \in PyThread : pyAt[t] \notin InStart
                    /\ pyAt[Main] # "destroying"
  /\ \A t \in PyThread : pyAt[t] = "init" => hookAt = "none" /\ resources = "none"

\* m_Running and the flag of the proxies follow the progress of the Java hook.
HookOrder ==
  /\ vm # "none" /\ hookAt \in {"none", "ready", "start", "join", "inform"} => running
  /\ hookAt \in {"start", "join", "inform", "release"} => vm = "live"
  /\ hookAt \in {"release", "done"} /\ ~fault => ~running
  /\ resources \in {"released", "deleted"} => hookAt = "done"
  /\ shutdownFlag => hookAt \in {"inform", "release", "done"}

\* The handlers that are put back after DestroyJavaVM are not the ones of the JVM.
Signals ==
  /\ hostSaved # "jvm"
  /\ vm = "none" => handlers # "jvm"
  /\ pyAt[Main] = "destroying" => config.destroy_jvm
  /\ vm = "destroyed" => /\ config.destroy_jvm
                         /\ pyAt[Main] = "destroying" \/ handlers # "jvm"

\* A function waits in JInitializers once, and it has not run when its turn comes.
Waiting ==
  /\ \A f \in Func : funcRuns[f] <= 1
  /\ \A f \in Func : funcAt[f] # "done" =>
       funcRuns[f] = 0 /\ \A i \in 1 .. Len(inits) : inits[i] # f
  /\ \A i, j \in 1 .. Len(inits) : inits[i] = inits[j] => i = j
  /\ vm = "none" => \A i \in 1 .. Len(inits) : funcRuns[inits[i]] = 0
  /\ \A t \in PyThread : pyAt[t] \in {"init", "bind"} =>
       \A i \in 1 .. Len(inits) : funcRuns[inits[i]] = 0
  /\ \A t \in PyThread : pyAt[t] = "inits" =>
       \A i \in 1 .. Len(inits) : i > initPos => funcRuns[inits[i]] = 0

\* A call runs Python code only with the lock.
LockKept ==
  \A c \in Caller : callAt[c] \in {"entered", "python", "convert", "resumed"} => gil = c

\* The hook threads that run were started by this shutdown and are not joined yet.
HookThreads ==
  /\ hookAt \in {"none", "ready"} => \A h \in Hook : hookState[h] = "new"
  /\ hookAt = "start" /\ ~edited =>
       \A h \in Hook : hookState[h] # "new" =>
         \E i \in 1 .. Len(hooks) : i <= hookPos /\ hooks[i] = h
  /\ hookAt = "join" /\ ~edited =>
       \A h \in Hook : hookState[h] = "running" =>
         \E i \in 1 .. Len(hooks) : i > hookPos /\ hooks[i] = h
  /\ hookAt \in {"inform", "release", "done"} /\ ~edited /\ ~fault =>
       \A h \in Hook : hookState[h] # "running"

\* A hook thread calls while it runs, so never before the shutdown, and is served.
HookCalls ==
  /\ hookAt \in {"none", "ready"} => \A h \in Hook : callAt[h] = "idle"
  /\ \A h \in Hook : callAt[h] \in CallPoints => hookState[h] = "running"
  /\ HooksServed

IInv == TypeOK /\ OneStart /\ HookOrder /\ Signals /\ Waiting /\ LockKept /\ HookThreads /\ HookCalls

-------------------------------------------------------------------------------
LEMMA InitIInv == Init => IInv
<1> SUFFICES ASSUME Init PROVE IInv
  OBVIOUS
<1> USE DEF Init, ContextInit
<1>1. TypeOK
  BY DEF TypeOK, Points, CallPoints, Ended
<1>2. OneStart
  BY MainAssumption DEF OneStart, InStart
<1>3. HookOrder /\ Signals
  BY MainAssumption DEF HookOrder, Signals
<1>4. Waiting
  BY DEF Waiting
<1>5. LockKept /\ HookThreads
  BY DEF LockKept, HookThreads
<1>6. HookCalls
  BY DEF HookCalls, HooksServed, CallPoints, Caller
<1> QED
  BY <1>1, <1>2, <1>3, <1>4, <1>5, <1>6 DEF IInv

\* What the three groups of actions leave alone.
LEMMA CallingFrame ==
  ASSUME NEW c \in Caller, Calling(c)
  PROVE  UNCHANGED javaVars
BY DEF Calling, Invoke, Enter, Arguments, Yield, Resume, Return, ConvertYield, ConvertResume, Convert, Converting

LEMMA HookingFrame ==
  ASSUME Hooking
  PROVE  UNCHANGED <<pythonVars, gil, callAt>>
BY DEF Hooking, HookBegin, HookStart, HookStarted, HookJoin, HookThrows, HookFlag, HookInform,
       HookRelease, Destroyed, AddHook, RemoveHook, HookThreadEnd, contextVars, vmVars, pythonVars, hookVars

-------------------------------------------------------------------------------
LEMMA StartingTypeOK ==
  ASSUME TypeOK, NEW t \in PyThread, Starting(t), UNCHANGED <<hookVars, callAt>>
  PROVE  TypeOK'
<1> USE DEF TypeOK, Points, Goto, hookVars, coreVars, vmVars, signalVars, initVars
<1>1. CASE StartCheck(t) \/ StartRefused(t) \/ StartFails(t) \/ StartOver(t) \/ RunInitializersEnd(t)
  BY <1>1 DEF StartCheck, StartRefused, StartFails, StartOver, RunInitializersEnd
<1>2. CASE StartCreate(t)
  BY <1>2 DEF StartCreate
<1>3. CASE StartInit(t)
  BY <1>3 DEF StartInit
<1>4. CASE StartBind(t)
  BY <1>4 DEF StartBind
<1>5. CASE RunInitializer(t)
  <2>1. inits[initPos + 1] \in Func
    BY <1>5 DEF RunInitializer
  <2>2. funcRuns' \in [Func -> Nat]
    BY <1>5, <2>1 DEF RunInitializer
  <2> QED
    BY <1>5, <2>2 DEF RunInitializer
<1>6. CASE StartDone(t)
  BY <1>6 DEF StartDone
<1> QED
  BY <1>1, <1>2, <1>3, <1>4, <1>5, <1>6 DEF Starting

LEMMA RegisteringTypeOK ==
  ASSUME TypeOK, NEW f \in Func, Registering(f), UNCHANGED <<hookVars, callAt>>
  PROVE  TypeOK'
<1> USE DEF TypeOK, hookVars, coreVars, vmVars, signalVars
<1>1. CASE RegisterRun(f)
  BY <1>1 DEF RegisterRun
<1>2. CASE RegisterCheck(f)
  BY <1>2 DEF RegisterCheck
<1>3. CASE RegisterAppend(f)
  BY <1>3 DEF RegisterAppend
<1> QED
  BY <1>1, <1>2, <1>3 DEF Registering

LEMMA StoppingTypeOK ==
  ASSUME TypeOK, Stopping, UNCHANGED <<hookVars, callAt>>
  PROVE  TypeOK'
<1> USE DEF TypeOK, Points, Goto, hookVars, coreVars, vmVars, signalVars, initVars
<1>1. CASE ReplaceHandlers
  BY <1>1 DEF ReplaceHandlers
<1>2. CASE Shutdown
  BY <1>2 DEF Shutdown, ShutdownNative
<1>3. CASE Exit
  BY <1>3 DEF Exit, ShutdownNative
<1>4. CASE DestroyReturn
  BY <1>4 DEF DestroyReturn
<1>5. CASE DeleteResources
  BY <1>5 DEF DeleteResources
<1> QED
  BY <1>1, <1>2, <1>3, <1>4, <1>5 DEF Stopping

LEMMA HookingTypeOK ==
  ASSUME TypeOK, Hooking
  PROVE  TypeOK'
<1> USE DEF TypeOK, pythonVars, contextVars, hookVars, coreVars, vmVars, signalVars, initVars
<1>1. CASE HookBegin \/ HookStarted \/ HookJoin \/ HookThrows \/ HookFlag
  BY <1>1 DEF HookBegin, HookStarted, HookJoin, HookThrows, HookFlag
<1>2. CASE HookInform \/ HookRelease \/ Destroyed
  BY <1>2 DEF HookInform, HookRelease, Destroyed
<1>3. CASE HookStart
  <2>1. hooks[hookPos + 1] \in Hook
    BY <1>3 DEF HookStart
  <2> QED
    BY <1>3, <2>1 DEF HookStart
<1>4. ASSUME NEW h \in Hook, AddHook(h)
      PROVE  TypeOK'
  BY <1>4 DEF AddHook
<1>5. ASSUME NEW h \in Hook, RemoveHook(h)
      PROVE  TypeOK'
  <2>1. PICK i \in 1 .. Len(hooks) :
          hooks' = SubSeq(hooks, 1, i - 1) \o SubSeq(hooks, i + 1, Len(hooks))
    BY <1>5 DEF RemoveHook
  <2>2. /\ SubSeq(hooks, 1, i - 1) \in Seq(Hook)
        /\ SubSeq(hooks, i + 1, Len(hooks)) \in Seq(Hook)
    BY SubSeqProperties
  <2>3. hooks' \in Seq(Hook)
    BY <2>1, <2>2, ConcatProperties
  <2> QED
    BY <1>5, <2>3 DEF RemoveHook
<1>6. ASSUME NEW h \in Hook, HookThreadEnd(h)
      PROVE  TypeOK'
  BY <1>6 DEF HookThreadEnd
<1> QED
  BY <1>1, <1>2, <1>3, <1>4, <1>5, <1>6 DEF Hooking

LEMMA CallingTypeOK ==
  ASSUME TypeOK, NEW c \in Caller, Calling(c)
  PROVE  TypeOK'
<1>1. UNCHANGED javaVars
  BY CallingFrame
<1>2. callAt' \in [Caller -> CallPoints \cup {"idle"} \cup Ended]
  BY DEF TypeOK, CallPoints, Ended, CallGoto, Calling, Invoke, Enter, Arguments, Yield, Resume,
         Return, ConvertYield, ConvertResume, Convert, Converting
<1> QED
  BY <1>1, <1>2 DEF TypeOK, javaVars, pythonVars, hookVars, coreVars, signalVars, initVars

-------------------------------------------------------------------------------
\* startJVM and OneStart.
LEMMA StartingOneStart ==
  ASSUME TypeOK, OneStart, NEW t \in PyThread, Starting(t)
  PROVE  OneStart'
<1> USE DEF TypeOK, OneStart, InStart, At, Goto, coreVars, vmVars
<1>1. CASE StartCheck(t) \/ StartRefused(t) \/ StartFails(t) \/ StartOver(t)
  <2>1. UNCHANGED <<vm, running, hookAt, resources>>
    BY <1>1 DEF StartCheck, StartRefused, StartFails, StartOver
  <2>2. PICK point \in {"starting", "idle", "crashed"} : pyAt' = [pyAt EXCEPT ![t] = point]
    BY <1>1 DEF StartCheck, StartRefused, StartFails, StartOver
  <2> QED
    BY <2>1, <2>2, MainAssumption
<1>2. CASE StartCreate(t)
  BY <1>2 DEF StartCreate
<1>3. CASE StartInit(t)
  <2>1. pyAt[t] = "init" /\ vm # "none" /\ UNCHANGED vm
    BY <1>3 DEF StartInit
  <2>2. PICK point \in {"idle", "bind"} : pyAt' = [pyAt EXCEPT ![t] = point]
    BY <1>3 DEF StartInit
  <2> QED
    BY <2>1, <2>2
<1>4. CASE StartBind(t) \/ RunInitializersEnd(t) \/ StartDone(t)
  BY <1>4, MainAssumption DEF StartBind, RunInitializersEnd, StartDone
<1>5. CASE RunInitializer(t)
  BY <1>5, MainAssumption DEF RunInitializer
<1> QED
  BY <1>1, <1>2, <1>3, <1>4, <1>5 DEF Starting

LEMMA NextOneStart ==
  ASSUME TypeOK, OneStart, Next
  PROVE  OneStart'
<1>1. ASSUME NEW t \in PyThread, Starting(t)
      PROVE  OneStart'
  BY <1>1, StartingOneStart
<1>2. ASSUME NEW f \in Func, Registering(f)
      PROVE  OneStart'
  BY <1>2 DEF OneStart, vmVars, Registering, RegisterRun, RegisterCheck, RegisterAppend
<1>3. CASE Stopping
  <2> USE MainAssumption DEF TypeOK, OneStart, InStart, At, Goto, vmVars
  <2>1. CASE ReplaceHandlers
    BY <2>1 DEF ReplaceHandlers
  <2>2. CASE Shutdown
    BY <2>2 DEF Shutdown, ShutdownNative
  <2>3. CASE Exit
    <3>1. UNCHANGED <<vm, running, hookAt, resources>>
      BY <2>3 DEF Exit
    <3>2. PICK point \in {"destroying", "deleting", "exited"} :
            /\ pyAt' = [pyAt EXCEPT ![Main] = point]
            /\ vm = "none" => point = "exited"
      BY <2>3 DEF Exit, ShutdownNative
    <3> QED
      BY <3>1, <3>2
  <2>4. CASE DestroyReturn
    BY <2>4 DEF DestroyReturn
  <2>5. CASE DeleteResources
    BY <2>5 DEF DeleteResources
  <2> QED
    BY <1>3, <2>1, <2>2, <2>3, <2>4, <2>5 DEF Stopping
<1>4. CASE Hooking
  <2>1. pyAt' = pyAt
    BY <1>4, HookingFrame DEF pythonVars
  <2>2. /\ vm = "none" => hookAt' = "none" /\ UNCHANGED <<vm, running, resources>>
        /\ hookAt = "none" => hookAt' = "none" /\ resources' = resources
        /\ vm' = "none" => vm = "none"
    BY <1>4 DEF Hooking, HookBegin, HookStart, HookStarted, HookJoin, HookThrows, HookFlag,
       HookInform, HookRelease, Destroyed, AddHook, RemoveHook, HookThreadEnd, contextVars, vmVars,
       OneStart
  <2> QED
    BY <2>1, <2>2 DEF OneStart
<1>5. ASSUME NEW c \in Caller, Calling(c)
      PROVE  OneStart'
  BY <1>5, CallingFrame DEF OneStart, javaVars, pythonVars
<1> QED
  BY <1>1, <1>2, <1>3, <1>4, <1>5 DEF Next, Python

\* The progress of the Java hook.
LEMMA NextHookOrder ==
  ASSUME TypeOK, OneStart, HookOrder, Next
  PROVE  HookOrder'
<1>1. ASSUME NEW t \in PyThread, Starting(t), UNCHANGED hookVars
      PROVE  HookOrder'
  <2> USE <1>1 DEF OneStart, InStart, HookOrder, vmVars, hookVars, At
  <2>1. CASE StartCheck(t) \/ StartRefused(t) \/ StartFails(t) \/ StartOver(t) \/ StartBind(t)
             \/ RunInitializer(t) \/ RunInitializersEnd(t) \/ StartDone(t)
    BY <2>1 DEF StartCheck, StartRefused, StartFails, StartOver, StartBind, RunInitializer,
       RunInitializersEnd, StartDone
  <2>2. CASE StartCreate(t)
    BY <2>2 DEF StartCreate
  <2>3. CASE StartInit(t)
    BY <2>3 DEF StartInit
  <2> QED
    BY <2>1, <2>2, <2>3 DEF Starting
<1>2. ASSUME NEW f \in Func, Registering(f), UNCHANGED hookVars
      PROVE  HookOrder'
  BY <1>2 DEF HookOrder, hookVars, vmVars, Registering, RegisterRun, RegisterCheck, RegisterAppend
<1>3. CASE Stopping /\ UNCHANGED hookVars
  BY <1>3 DEF HookOrder, hookVars, vmVars, Stopping, ReplaceHandlers, Shutdown, Exit, ShutdownNative,
     DestroyReturn, DeleteResources
<1>4. CASE Hooking
  <2> USE DEF TypeOK, HookOrder, contextVars, vmVars, hookVars
  <2>1. CASE HookBegin \/ HookStart \/ HookStarted \/ HookJoin \/ HookThrows \/ HookFlag
    BY <2>1 DEF HookBegin, HookStart, HookStarted, HookJoin, HookThrows, HookFlag
  <2>2. CASE HookInform \/ HookRelease \/ Destroyed
    BY <2>2 DEF HookInform, HookRelease, Destroyed
  <2>3. ASSUME NEW h \in Hook, AddHook(h) \/ RemoveHook(h) \/ HookThreadEnd(h)
        PROVE  HookOrder'
    <3>1. UNCHANGED <<vm, running, hookAt, resources, shutdownFlag, fault>>
      BY <2>3 DEF AddHook, RemoveHook, HookThreadEnd
    <3> QED
      BY <3>1
  <2> QED
    BY <1>4, <2>1, <2>2, <2>3 DEF Hooking
<1>5. ASSUME NEW c \in Caller, Calling(c)
      PROVE  HookOrder'
  BY <1>5, CallingFrame DEF HookOrder, javaVars, hookVars
<1> QED
  BY <1>1, <1>2, <1>3, <1>4, <1>5 DEF Next, Python

\* The fault handlers.
LEMMA NextSignals ==
  ASSUME TypeOK, OneStart, Signals, Next
  PROVE  Signals'
<1>1. ASSUME NEW t \in PyThread, Starting(t)
      PROVE  Signals'
  <2>1. UNCHANGED config
    BY <1>1 DEF Starting, StartCheck, StartRefused, StartFails, StartCreate, StartOver, StartInit,
       StartBind, RunInitializer, RunInitializersEnd, StartDone
  <2>2. pyAt'[Main] = "destroying" <=> pyAt[Main] = "destroying"
    BY <1>1, MainAssumption DEF TypeOK, At, Goto, Starting, StartCheck, StartRefused, StartFails,
       StartCreate, StartOver, StartInit, StartBind, RunInitializer, RunInitializersEnd, StartDone
  <2>3. \/ UNCHANGED <<vm, handlers>> /\ hostSaved' = handlers /\ vm = "none"
        \/ UNCHANGED <<vm, handlers, hostSaved>>
        \/ vm = "none" /\ vm' = "live" /\ hostSaved' = handlers
    BY <1>1 DEF Starting, StartCheck, StartRefused, StartFails, StartCreate, StartOver, StartInit,
       StartBind, RunInitializer, RunInitializersEnd, StartDone, vmVars, signalVars
  <2> QED
    BY <2>1, <2>2, <2>3 DEF Signals
<1>2. ASSUME NEW f \in Func, Registering(f)
      PROVE  Signals'
  BY <1>2 DEF Signals, signalVars, vmVars, Registering, RegisterRun, RegisterCheck, RegisterAppend
<1>3. CASE Stopping
  <2> USE <1>3, MainAssumption DEF TypeOK, OneStart, Signals, vmVars, signalVars, At, Goto
  <2>1. CASE ReplaceHandlers
    BY <2>1 DEF ReplaceHandlers
  <2>2. CASE Shutdown
    BY <2>2 DEF Shutdown, ShutdownNative
  <2>3. CASE Exit
    BY <2>3 DEF Exit, ShutdownNative
  <2>4. CASE DestroyReturn
    BY <2>4 DEF DestroyReturn
  <2>5. CASE DeleteResources
    BY <2>5 DEF DeleteResources
  <2> QED
    BY <2>1, <2>2, <2>3, <2>4, <2>5 DEF Stopping
<1>4. CASE Hooking
  <2>1. UNCHANGED <<signalVars, pyAt, config>>
    BY <1>4, HookingFrame DEF pythonVars
  <2>2. vm' = vm \/ (vm = "live" /\ vm' = "destroyed" /\ pyAt[Main] = "destroying")
    BY <1>4 DEF Hooking, HookBegin, HookStart, HookStarted, HookJoin, HookThrows, HookFlag,
       HookInform, HookRelease, Destroyed, AddHook, RemoveHook, HookThreadEnd, contextVars, vmVars
  <2> QED
    BY <2>1, <2>2 DEF Signals, signalVars
<1>5. ASSUME NEW c \in Caller, Calling(c)
      PROVE  Signals'
  BY <1>5, CallingFrame DEF Signals, javaVars, pythonVars, signalVars
<1> QED
  BY <1>1, <1>2, <1>3, <1>4, <1>5 DEF Next, Python

-------------------------------------------------------------------------------
\* The initializers.
LEMMA StartingWaiting ==
  ASSUME TypeOK, OneStart, Waiting, NEW t \in PyThread, Starting(t)
  PROVE  Waiting'
<1> USE DEF TypeOK, initVars, At, Goto
<1>1. CASE StartCheck(t) \/ StartRefused(t) \/ StartFails(t) \/ StartOver(t) \/ RunInitializersEnd(t)
  <2>1. UNCHANGED <<vm, initVars>>
    BY <1>1 DEF StartCheck, StartRefused, StartFails, StartOver, RunInitializersEnd, vmVars
  <2>2. PICK point \in {"starting", "idle", "crashed", "clear"} : pyAt' = [pyAt EXCEPT ![t] = point]
    BY <1>1 DEF StartCheck, StartRefused, StartFails, StartOver, RunInitializersEnd
  <2> QED
    BY <2>1, <2>2 DEF Waiting
<1>2. CASE StartCreate(t)
  <2>1. /\ vm = "none" /\ vm' = "live" /\ UNCHANGED initVars
        /\ pyAt' = [pyAt EXCEPT ![t] = "init"]
    BY <1>2 DEF StartCreate
  <2> QED
    BY <2>1 DEF Waiting, OneStart, InStart
<1>3. CASE StartInit(t)
  <2>1. pyAt[t] = "init" /\ UNCHANGED <<vm, initVars>>
    BY <1>3 DEF StartInit
  <2>2. PICK point \in {"idle", "bind"} : pyAt' = [pyAt EXCEPT ![t] = point]
    BY <1>3 DEF StartInit
  <2> QED
    BY <2>1, <2>2 DEF Waiting
<1>4. CASE StartBind(t)
  <2>1. /\ pyAt[t] = "bind" /\ initPos' = 0 /\ UNCHANGED <<vm, inits, funcAt, funcRuns>>
        /\ pyAt' = [pyAt EXCEPT ![t] = "inits"]
    BY <1>4 DEF StartBind, vmVars
  <2> QED
    BY <2>1 DEF Waiting, OneStart, InStart
<1>5. CASE RunInitializer(t)
  <2> DEFINE f == inits[initPos + 1]
  <2>1. /\ f \in Func /\ pyAt[t] = "inits" /\ UNCHANGED <<vm, inits, funcAt>>
        /\ initPos + 1 \in 1 .. Len(inits)
        /\ funcRuns' = [funcRuns EXCEPT ![f] = @ + 1]
    BY <1>5 DEF RunInitializer, vmVars
  <2>2. funcRuns[f] = 0
    BY <2>1 DEF Waiting
  <2>3. funcAt[f] = "done"
    BY <2>1 DEF Waiting
  <2>4. \A u \in PyThread : u # t => pyAt[u] \notin InStart
    BY <2>1 DEF OneStart, InStart
  <2>5. \/ initPos' = initPos + 1 /\ pyAt' = pyAt
        \/ initPos' = initPos /\ pyAt' = [pyAt EXCEPT ![t] = "idle"]
    BY <1>5 DEF RunInitializer
  <2>6. vm # "none"
    BY <2>1 DEF OneStart, InStart
  <2>7. funcRuns'[f] = 1 /\ \A g \in Func : g # f => funcRuns'[g] = funcRuns[g]
    BY <2>1, <2>2
  <2>8. \A i \in 1 .. Len(inits) : inits[i] \in Func /\ (i # initPos + 1 => inits[i] # f)
    BY <2>1 DEF Waiting
  <2> HIDE DEF f
  <2>9. \A g \in Func : funcRuns'[g] <= 1
    BY <2>1, <2>7 DEF Waiting
  <2>10. \A g \in Func : funcAt'[g] # "done" =>
           funcRuns'[g] = 0 /\ \A i \in 1 .. Len(inits') : inits'[i] # g
    BY <2>1, <2>3, <2>7 DEF Waiting
  <2>11. \A u \in PyThread : pyAt'[u] \notin {"init", "bind"}
    BY <2>1, <2>4, <2>5 DEF InStart
  <2>12. \A u \in PyThread : pyAt'[u] = "inits" =>
           \A i \in 1 .. Len(inits') : i > initPos' => funcRuns'[inits'[i]] = 0
    <3>1. CASE initPos' = initPos + 1 /\ pyAt' = pyAt
      <4>1. \A i \in 1 .. Len(inits) : i > initPos + 1 => funcRuns[inits[i]] = 0
        BY <2>1 DEF Waiting
      <4> QED
        BY <3>1, <4>1, <2>1, <2>7, <2>8
    <3>2. CASE initPos' = initPos /\ pyAt' = [pyAt EXCEPT ![t] = "idle"]
      BY <3>2, <2>4 DEF InStart
    <3> QED
      BY <2>5, <3>1, <3>2
  <2> QED
    BY <2>1, <2>6, <2>9, <2>10, <2>11, <2>12 DEF Waiting
<1>6. CASE StartDone(t)
  <2>1. /\ inits' = <<>> /\ UNCHANGED <<vm, funcAt, funcRuns, initPos>>
        /\ pyAt' = [pyAt EXCEPT ![t] = "idle"]
    BY <1>6 DEF StartDone, vmVars
  <2> QED
    BY <2>1 DEF Waiting
<1> QED
  BY <1>1, <1>2, <1>3, <1>4, <1>5, <1>6 DEF Starting

LEMMA RegisteringWaiting ==
  ASSUME TypeOK, OneStart, Waiting, NEW f \in Func, Registering(f)
  PROVE  Waiting'
<1> USE DEF TypeOK, vmVars
<1>1. CASE RegisterRun(f)
  <2>1. /\ funcAt[f] = "none" /\ vm # "none" /\ UNCHANGED <<vm, inits, initPos, pyAt>>
        /\ funcRuns' = [funcRuns EXCEPT ![f] = @ + 1]
        /\ funcAt' = [funcAt EXCEPT ![f] = "done"]
    BY <1>1 DEF RegisterRun, isRunning
  <2>2. funcRuns[f] = 0 /\ \A i \in 1 .. Len(inits) : inits[i] \in Func /\ inits[i] # f
    BY <2>1 DEF Waiting
  <2> QED
    BY <2>1, <2>2 DEF Waiting
<1>2. CASE RegisterCheck(f)
  BY <1>2 DEF RegisterCheck, Waiting
<1>3. CASE RegisterAppend(f)
  <2>1. /\ funcAt[f] = "checked" /\ UNCHANGED <<vm, funcRuns, initPos, pyAt>>
        /\ inits' = Append(inits, f)
        /\ funcAt' = [funcAt EXCEPT ![f] = "done"]
    BY <1>3 DEF RegisterAppend
  <2>2. funcRuns[f] = 0 /\ \A i \in 1 .. Len(inits) : inits[i] # f
    BY <2>1 DEF Waiting
  <2>3. /\ Len(inits') = Len(inits) + 1 /\ inits'[Len(inits) + 1] = f
        /\ \A i \in 1 .. Len(inits) : inits'[i] = inits[i]
    BY <2>1
  <2>4. \A g \in Func : g # f => funcAt'[g] = funcAt[g]
    BY <2>1
  <2>5. funcAt'[f] = "done"
    BY <2>1
  <2>6. \A i \in 1 .. Len(inits') : i \in 1 .. Len(inits) \/ i = Len(inits) + 1
    BY <2>3
  <2>7. \A i, j \in 1 .. Len(inits') : inits'[i] = inits'[j] => i = j
    <3> SUFFICES ASSUME NEW i \in 1 .. Len(inits'), NEW j \in 1 .. Len(inits'),
                        inits'[i] = inits'[j]
                 PROVE  i = j
      OBVIOUS
    <3>1. CASE i \in 1 .. Len(inits) /\ j \in 1 .. Len(inits)
      BY <2>3, <3>1 DEF Waiting
    <3>2. CASE i = Len(inits) + 1 \/ j = Len(inits) + 1
      BY <2>2, <2>3, <2>6, <3>2
    <3> QED
      BY <2>6, <3>1, <3>2
  <2>8. \A g \in Func : funcAt'[g] # "done" =>
           funcRuns'[g] = 0 /\ \A i \in 1 .. Len(inits') : inits'[i] # g
    BY <2>1, <2>3, <2>4, <2>5, <2>6 DEF Waiting
  <2>9. \A i \in 1 .. Len(inits') :
          funcRuns'[inits'[i]] = 0 \/ (i \in 1 .. Len(inits) /\ inits'[i] = inits[i])
    BY <2>1, <2>2, <2>3, <2>6
  <2> QED
    BY <2>1, <2>7, <2>8, <2>9 DEF Waiting
<1> QED
  BY <1>1, <1>2, <1>3 DEF Registering

LEMMA NextWaiting ==
  ASSUME TypeOK, OneStart, Waiting, Next
  PROVE  Waiting'
<1>1. CASE Stopping
  <2>1. UNCHANGED <<vm, initVars>>
    BY <1>1 DEF Stopping, ReplaceHandlers, Shutdown, Exit, DestroyReturn, DeleteResources, vmVars
  <2>2. \/ pyAt' = pyAt
        \/ \E point \in {"destroying", "deleting", "exited", "idle"} :
             pyAt' = [pyAt EXCEPT ![Main] = point]
    BY <1>1 DEF Goto, Stopping, ReplaceHandlers, Shutdown, Exit, ShutdownNative, DestroyReturn,
       DeleteResources
  <2>3. \A t \in PyThread : pyAt'[t] \in InStart => pyAt'[t] = pyAt[t]
    BY <2>2, MainAssumption DEF TypeOK, InStart
  <2> QED
    BY <2>1, <2>3 DEF Waiting, InStart, initVars
<1>2. CASE Hooking
  <2>1. UNCHANGED <<pyAt, initVars>>
    BY <1>2, HookingFrame DEF pythonVars
  <2>2. vm' = "none" => vm = "none"
    BY <1>2 DEF Hooking, HookBegin, HookStart, HookStarted, HookJoin, HookThrows, HookFlag,
       HookInform, HookRelease, Destroyed, AddHook, RemoveHook, HookThreadEnd, contextVars, vmVars
  <2> QED
    BY <2>1, <2>2 DEF Waiting, initVars
<1>3. ASSUME NEW c \in Caller, Calling(c)
      PROVE  Waiting'
  BY <1>3, CallingFrame DEF Waiting, javaVars, pythonVars, initVars
<1> QED
  BY <1>1, <1>2, <1>3, StartingWaiting, RegisteringWaiting DEF Next, Python

-------------------------------------------------------------------------------
\* The Python lock and the calls.
LEMMA CallingLockKept ==
  ASSUME TypeOK, LockKept, NEW c \in Caller, Calling(c)
  PROVE  LockKept'
<1> USE DEF TypeOK, LockKept, CallGoto, Take, Give
<1>1. gil = c \/ gil = Nobody \/ gil' = gil
  BY DEF Calling, Invoke, Enter, Arguments, Yield, Resume, Return, ConvertYield, ConvertResume, Convert, Converting
<1>2. \A d \in Caller : d # c => callAt'[d] = callAt[d]
  BY DEF Calling, Invoke, Enter, Arguments, Yield, Resume, Return, ConvertYield, ConvertResume, Convert, Converting
<1>3. callAt'[c] \in {"entered", "python", "convert", "resumed"} => gil' = c
  BY DEF Calling, Invoke, Enter, Arguments, Yield, Resume, Return, ConvertYield, ConvertResume, Convert, Converting
<1>4. \A d \in Caller :
        d # c /\ callAt[d] \in {"entered", "python", "convert", "resumed"} => gil' = d
  BY <1>1, CallerAssumption
<1> QED
  BY <1>2, <1>3, <1>4

LEMMA PythonKeepsLock ==
  ASSUME Python, UNCHANGED <<hookVars, callAt>>
  PROVE  UNCHANGED gil
<1>1. ASSUME NEW t \in PyThread, Starting(t)
      PROVE  UNCHANGED gil
  BY <1>1 DEF Starting, StartCheck, StartRefused, StartFails, StartCreate, StartOver, StartInit,
     StartBind, RunInitializer, RunInitializersEnd, StartDone
<1>2. ASSUME NEW f \in Func, Registering(f)
      PROVE  UNCHANGED gil
  BY <1>2 DEF Registering, RegisterRun, RegisterCheck, RegisterAppend
<1>3. CASE Stopping
  BY <1>3 DEF Stopping, ReplaceHandlers, Shutdown, Exit, ShutdownNative, DestroyReturn,
     DeleteResources
<1> QED
  BY <1>1, <1>2, <1>3 DEF Python

LEMMA NextLockKept ==
  ASSUME TypeOK, LockKept, Next
  PROVE  LockKept'
<1>1. CASE Python /\ UNCHANGED <<hookVars, callAt>>
  BY <1>1, PythonKeepsLock DEF LockKept
<1>2. CASE Hooking
  BY <1>2, HookingFrame DEF LockKept
<1> QED
  BY <1>1, <1>2, CallingLockKept DEF Next

\* The resources and the calls that convert.
LEMMA NextFreedUntouched ==
  ASSUME TypeOK, OneStart, HookOrder, LockKept, FreedUntouched, Next
  PROVE  FreedUntouched'
<1> SUFFICES ASSUME NEW d \in Caller, callAt'[d] = "convert", ~fault'
             PROVE  resources' # "deleted"
  BY DEF FreedUntouched
<1>1. CASE Python /\ UNCHANGED <<hookVars, callAt>>
  <2>1. gil = d
    BY <1>1 DEF LockKept
  <2>2. gil # Nobody
    BY <2>1, CallerAssumption
  <2>3. resources' = resources \/ resources' = "live"
    BY <1>1, <2>2 DEF Python, Starting, StartCheck, StartRefused, StartFails, StartCreate, StartOver,
       StartInit, StartBind, RunInitializer, RunInitializersEnd, StartDone, Registering, RegisterRun,
       RegisterCheck, RegisterAppend, Stopping, ReplaceHandlers, Shutdown, Exit, DestroyReturn,
       DeleteResources, At
  <2> QED
    BY <1>1, <2>3 DEF FreedUntouched, hookVars
<1>2. CASE Hooking
  <2>1. callAt' = callAt
    BY <1>2, HookingFrame
  <2>2. resources' # "deleted" \/ resources' = resources
    BY <1>2 DEF Hooking, HookBegin, HookStart, HookStarted, HookJoin, HookThrows, HookFlag,
       HookInform, HookRelease, Destroyed, AddHook, RemoveHook, HookThreadEnd, contextVars, vmVars
  <2>3. ~fault' => ~fault
    BY <1>2 DEF Hooking, HookBegin, HookStart, HookStarted, HookJoin, HookThrows, HookFlag,
       HookInform, HookRelease, Destroyed, AddHook, RemoveHook, HookThreadEnd, hookVars
  <2> QED
    BY <2>1, <2>2, <2>3 DEF FreedUntouched
<1>3. ASSUME NEW c \in Caller, Calling(c)
      PROVE  resources' # "deleted"
  <2>1. UNCHANGED <<resources, fault>>
    BY <1>3, CallingFrame DEF javaVars, hookVars
  <2>2. CASE callAt[d] = "convert"
    BY <2>1, <2>2 DEF FreedUntouched
  <2>3. CASE callAt[d] # "convert"
    <3>1. running
      BY <1>3, <2>3 DEF TypeOK, CallGoto, isRunning, Calling, Invoke, Enter, Arguments, Yield, Resume,
         Return, ConvertYield, ConvertResume, Convert, Converting
    <3>2. hookAt # "done"
      BY <2>1, <3>1 DEF HookOrder
    <3> QED
      BY <2>1, <3>2 DEF HookOrder
  <2> QED
    BY <2>2, <2>3
<1> QED
  BY <1>1, <1>2, <1>3 DEF Next

-------------------------------------------------------------------------------
\* The hook threads.
LEMMA PythonHookThreads ==
  ASSUME TypeOK, OneStart, HookThreads, Python, UNCHANGED <<hookVars, callAt>>
  PROVE  HookThreads'
<1>1. hookAt' = hookAt \/ (hookAt = "none" /\ hookAt' = "ready")
  BY DEF Python, Starting, StartCheck, StartRefused, StartFails, StartCreate, StartOver,
     StartInit, StartBind, RunInitializer, RunInitializersEnd, StartDone, Registering, RegisterRun,
     RegisterCheck, RegisterAppend, Stopping, ReplaceHandlers, Shutdown, Exit, DestroyReturn,
     DeleteResources, At, OneStart
<1> QED
  BY <1>1 DEF HookThreads, hookVars

LEMMA HookingHookThreads ==
  ASSUME TypeOK, HookOrder, HookThreads, Hooking
  PROVE  HookThreads'
<1> USE DEF TypeOK, contextVars, hookVars
<1>1. CASE HookBegin
  <2>1. hookAt = "ready" /\ hookAt' = "start" /\ hookPos' = 0 /\ hookState' = hookState
    BY <1>1 DEF HookBegin
  <2> QED
    BY <2>1 DEF HookThreads
<1>2. CASE HookStart
  <2> DEFINE s == hooks[hookPos + 1]
  <2>1. /\ hookAt = "start" /\ s \in Hook /\ hookPos + 1 \in 1 .. Len(hooks) /\ hookPos' = hookPos + 1
        /\ hookState' = [hookState EXCEPT ![s] = "running"]
        /\ UNCHANGED <<hookAt, hooks, edited, fault>>
    BY <1>2 DEF HookStart
  <2>2. ~edited => \A h \in Hook : hookState'[h] # "new" =>
                     \E i \in 1 .. Len(hooks) : i <= hookPos + 1 /\ hooks[i] = h
    <3> SUFFICES ASSUME ~edited, NEW h \in Hook, hookState'[h] # "new"
                 PROVE  \E i \in 1 .. Len(hooks) : i <= hookPos + 1 /\ hooks[i] = h
      OBVIOUS
    <3>1. CASE h = s
      BY <2>1, <3>1
    <3>2. CASE h # s
      BY <2>1, <3>2 DEF HookThreads
    <3> QED
      BY <3>1, <3>2
  <2> QED
    BY <2>1, <2>2 DEF HookThreads
<1>3. CASE HookStarted
  <2>1. /\ hookAt = "start" /\ hookPos = Len(hooks) /\ hookAt' = "join" /\ hookPos' = 0
        /\ UNCHANGED <<hooks, edited, hookState, fault>>
    BY <1>3 DEF HookStarted
  <2> QED
    BY <2>1 DEF HookThreads
<1>4. CASE HookJoin
  <2>1. /\ hookAt = "join" /\ hookPos < Len(hooks) /\ hookPos' = hookPos + 1
        /\ hookState[hooks[hookPos + 1]] # "running"
        /\ UNCHANGED <<hookAt, hooks, edited, hookState, fault>>
    BY <1>4 DEF HookJoin
  <2>2. ~edited => \A h \in Hook : hookState[h] = "running" =>
                     \E i \in 1 .. Len(hooks) : i > hookPos + 1 /\ hooks[i] = h
    <3> SUFFICES ASSUME ~edited, NEW h \in Hook, hookState[h] = "running"
                 PROVE  \E i \in 1 .. Len(hooks) : i > hookPos + 1 /\ hooks[i] = h
      OBVIOUS
    <3>1. PICK i \in 1 .. Len(hooks) : i > hookPos /\ hooks[i] = h
      BY <2>1 DEF HookThreads
    <3>2. i # hookPos + 1
      BY <2>1, <3>1
    <3> QED
      BY <3>1, <3>2
  <2> QED
    BY <2>1, <2>2 DEF HookThreads
<1>5. CASE HookThrows
  BY <1>5 DEF HookThrows, HookThreads
<1>6. CASE HookFlag
  <2>1. /\ hookAt = "join" /\ hookPos = Len(hooks) /\ hookAt' = "inform"
        /\ UNCHANGED <<hooks, edited, hookState, fault>>
    BY <1>6 DEF HookFlag
  <2> QED
    BY <2>1 DEF HookThreads
<1>7. CASE HookInform \/ HookRelease \/ Destroyed
  BY <1>7 DEF HookInform, HookRelease, Destroyed, HookThreads
<1>8. ASSUME NEW h \in Hook, AddHook(h) \/ RemoveHook(h)
      PROVE  HookThreads'
  <2>1. UNCHANGED <<hookAt, hookState, fault>> /\ (edited' <=> hookAt # "ready")
    BY <1>8 DEF AddHook, RemoveHook
  <2> QED
    BY <2>1 DEF HookThreads
<1>9. ASSUME NEW h \in Hook, HookThreadEnd(h)
      PROVE  HookThreads'
  <2>1. /\ hookState[h] = "running" /\ hookState' = [hookState EXCEPT ![h] = "ended"]
        /\ UNCHANGED <<hookAt, hooks, hookPos, edited, fault>>
    BY <1>9 DEF HookThreadEnd
  <2>2. \A g \in Hook : /\ hookState[g] = "new" => hookState'[g] = "new"
                        /\ hookState'[g] # "new" => hookState[g] # "new"
                        /\ hookState'[g] = "running" => hookState[g] = "running"
    BY <2>1
  <2>3. hookAt \notin {"none", "ready"}
    BY <2>1 DEF HookThreads
  <2> QED
    BY <2>1, <2>2, <2>3 DEF HookThreads
<1> QED
  BY <1>1, <1>2, <1>3, <1>4, <1>5, <1>6, <1>7, <1>8, <1>9 DEF Hooking

LEMMA NextHookThreads ==
  ASSUME TypeOK, OneStart, HookOrder, HookThreads, Next
  PROVE  HookThreads'
<1>1. ASSUME NEW c \in Caller, Calling(c)
      PROVE  HookThreads'
  BY <1>1, CallingFrame DEF HookThreads, javaVars, hookVars
<1> QED
  BY <1>1, PythonHookThreads, HookingHookThreads DEF Next

\* A hook thread that runs finds the JVM up and the proxies open.
LEMMA HookThreadServed ==
  ASSUME OneStart, HookOrder, HookThreads, TypeOK, ~fault, ~edited,
         NEW h \in Hook, hookState[h] = "running"
  PROVE  vm = "live" /\ running /\ ~shutdownFlag
<1>1. hookAt \in {"start", "join"}
  BY DEF HookThreads, TypeOK
<1> QED
  BY <1>1 DEF HookOrder, OneStart

LEMMA CallingHookCalls ==
  ASSUME TypeOK, OneStart, HookOrder, HookThreads, HookCalls, NEW c \in Caller, Calling(c)
  PROVE  HookCalls'
<1>1. UNCHANGED <<hookState, hookAt, fault, edited, vm>>
  BY CallingFrame DEF javaVars, hookVars
<1>2. \A d \in Caller : d # c => callAt'[d] = callAt[d]
  BY DEF TypeOK, CallGoto, Calling, Invoke, Enter, Arguments, Yield, Resume, Return, ConvertYield,
     ConvertResume, Convert, Converting
<1>3. c \in Hook => hookState[c] = "running"
  BY DEF HookCalls, CallPoints, CanCall, Calling, Invoke, Enter, Arguments, Yield, Resume, Return,
     ConvertYield, ConvertResume, Convert, Converting
<1>4. ASSUME c \in Hook, ~fault, ~edited
      PROVE  callAt'[c] \notin {"failed", "refused", "abandoned", "parked"}
  <2>1. vm = "live" /\ running /\ ~shutdownFlag
    BY <1>3, <1>4, HookThreadServed
  <2> QED
    BY <2>1 DEF TypeOK, CallGoto, isRunning, Calling, Invoke, Enter, Arguments, Yield, Resume, Return,
     ConvertYield, ConvertResume, Convert, Converting
<1>5. \A h \in Hook : h \in Caller
  BY DEF Caller
<1> QED
  BY <1>1, <1>2, <1>3, <1>4, <1>5 DEF HookCalls, HooksServed, HookThreads

LEMMA HookingHookCalls ==
  ASSUME TypeOK, HookThreads, HookCalls, Hooking
  PROVE  HookCalls'
<1>1. callAt' = callAt
  BY HookingFrame
<1>2. ~fault' => ~fault
  BY DEF Hooking, HookBegin, HookStart, HookStarted, HookJoin, HookThrows, HookFlag,
     HookInform, HookRelease, Destroyed, AddHook, RemoveHook, HookThreadEnd, hookVars
<1>3. \A h \in Hook : hookState[h] = "running" =>
        hookState'[h] = "running" \/ Outside(h)
  <2>1. CASE HookStart
    <3>1. hooks[hookPos + 1] \in Hook
      BY <2>1 DEF HookStart, TypeOK
    <3> QED
      BY <2>1, <3>1 DEF HookStart, TypeOK
  <2>2. ASSUME NEW h \in Hook, HookThreadEnd(h)
        PROVE  \A g \in Hook : hookState[g] = "running" => hookState'[g] = "running" \/ Outside(g)
    BY <2>2 DEF HookThreadEnd, TypeOK
  <2> QED
    BY <2>1, <2>2 DEF Hooking, HookBegin, HookStarted, HookJoin, HookThrows, HookFlag,
       HookInform, HookRelease, Destroyed, AddHook, RemoveHook, hookVars
<1>4. \A h \in Hook : callAt[h] \in CallPoints => ~Outside(h)
  BY DEF Outside, Ended, CallPoints
<1>5. \A h \in Hook : callAt'[h] \in CallPoints => hookState'[h] = "running"
  BY <1>1, <1>3, <1>4 DEF HookCalls
<1>6. hookAt' \in {"none", "ready"} => hookAt' = hookAt
  BY DEF Hooking, HookBegin, HookStart, HookStarted, HookJoin, HookThrows, HookFlag,
     HookInform, HookRelease, Destroyed, AddHook, RemoveHook, HookThreadEnd, contextVars
<1>7. edited' = edited \/ edited' \/ hookAt = "ready"
  BY DEF Hooking, HookBegin, HookStart, HookStarted, HookJoin, HookThrows, HookFlag,
     HookInform, HookRelease, Destroyed, AddHook, RemoveHook, HookThreadEnd, hookVars
<1> QED
  BY <1>1, <1>2, <1>5, <1>6, <1>7 DEF HookCalls, HooksServed

LEMMA NextHookCalls ==
  ASSUME TypeOK, OneStart, HookOrder, HookThreads, HookCalls, Next
  PROVE  HookCalls'
<1>1. CASE Python /\ UNCHANGED <<hookVars, callAt>>
  <2>1. hookAt' \in {"none", "ready"} => hookAt \in {"none", "ready"}
    BY <1>1 DEF Python, Starting, StartCheck, StartRefused, StartFails, StartCreate, StartOver,
       StartInit, StartBind, RunInitializer, RunInitializersEnd, StartDone, Registering, RegisterRun,
       RegisterCheck, RegisterAppend, Stopping, ReplaceHandlers, Shutdown, Exit, DestroyReturn,
       DeleteResources, At, OneStart
  <2> QED
    BY <1>1, <2>1 DEF HookCalls, HooksServed, hookVars
<1> QED
  BY <1>1, CallingHookCalls, HookingHookCalls DEF Next

-------------------------------------------------------------------------------
LEMMA NextTypeOK ==
  ASSUME TypeOK, Next
  PROVE  TypeOK'
BY StartingTypeOK, RegisteringTypeOK, StoppingTypeOK, HookingTypeOK, CallingTypeOK DEF Next, Python

LEMMA StutterIInv ==
  ASSUME IInv, UNCHANGED vars
  PROVE  IInv'
<1> USE DEF IInv, vars, contextVars, coreVars, vmVars, signalVars, initVars, hookVars
<1>1. TypeOK'
  BY DEF TypeOK
<1>2. OneStart' /\ HookOrder' /\ Signals'
  BY DEF OneStart, HookOrder, Signals
<1>3. Waiting'
  BY DEF Waiting
<1>4. LockKept' /\ HookThreads' /\ HookCalls'
  BY DEF LockKept, HookThreads, HookCalls, HooksServed
<1> QED
  BY <1>1, <1>2, <1>3, <1>4

LEMMA NextIInv == IInv /\ [Next]_vars => IInv'
<1> SUFFICES ASSUME IInv, Next PROVE IInv'
  BY StutterIInv
<1> QED
  BY NextTypeOK, NextOneStart, NextHookOrder, NextSignals, NextWaiting, NextLockKept,
     NextHookThreads, NextHookCalls DEF IInv

THEOREM Invariance == Spec => []IInv
BY InitIInv, NextIInv, PTL DEF Spec

\* shutdownJVM puts handlers back that are not the JVM's, however often startJVM
\* failed before and whatever Python installed between.
THEOREM HandlersAreRestored == Spec => []HandlersRestored
<1>1. IInv => HandlersRestored
  BY DEF IInv, Signals, HandlersRestored
<1> QED
  BY <1>1, Invariance, PTL

\* onJVMStart: no initializer runs twice, however registrations and starts of
\* several threads interleave.
THEOREM InitializersRunOnce == Spec => []InitializersOnce
<1>1. IInv => InitializersOnce
  BY DEF IInv, Waiting, InitializersOnce
<1> QED
  BY <1>1, Invariance, PTL

\* JPypeContext.shutdown joins the hooks before it disables proxies: the calls of
\* any number of hooks are served.
THEOREM HooksAreServed == Spec => []HooksServed
<1>1. IInv => HooksServed
  BY DEF IInv, HookCalls
<1> QED
  BY <1>1, Invariance, PTL

\* shutdownJVM deletes no class object under a proxy call that keeps the Python lock
\* from the test of m_Running in hostInvoke to the end of its conversion, whatever
\* the other calls do, those included that give it up inside a conversion.
THEOREM ResourcesOutliveCalls == Spec => []FreedUntouched
<1>1. Init => FreedUntouched
  BY DEF Init, FreedUntouched
<1>2. IInv /\ FreedUntouched /\ [Next]_vars => FreedUntouched'
  <2>1. ASSUME IInv, FreedUntouched, UNCHANGED vars PROVE FreedUntouched'
    BY <2>1 DEF FreedUntouched, vars, contextVars, vmVars, hookVars
  <2> QED
    BY <2>1, NextFreedUntouched DEF IInv
<1> QED
  BY <1>1, <1>2, Invariance, PTL DEF Spec
===============================================================================
