------------------------------- MODULE RefQueue -------------------------------
(***************************************************************************)
(* org.jpype.ref.JPypeReferenceQueue and jp_reference_queue.cpp: a Python  *)
(* object that Java points to is given one extra Python reference, which   *)
(* is dropped when the Java object is collected or the queue is stopped.   *)
(*                                                                         *)
(* The actors are the threads in registerRef (one per registration), the   *)
(* Java collector, the queue's worker thread, and the thread in stop().    *)
(* isStopped is a plain field, so a registration that read it before       *)
(* stop() carries the old value for as long as it likes.                   *)
(***************************************************************************)
EXTENDS RefSet

CONSTANTS
  WaitMayEndEarly,   \* may wait(10000) return before the worker's notifyAll:
                     \* on its timeout, an interrupt or a spurious wake-up
  MaxSentinels       \* bound on the collections of the sentinel

ASSUME EarlyAssumption == WaitMayEndEarly \in BOOLEAN
ASSUME SentinelAssumption == MaxSentinels \in Nat

VARIABLES
  isStopped,
  stopper,     \* where the thread in stop() is
  early,       \* its wait returned before the worker's notifyAll
  late,        \* registrations between their test of isStopped and their
               \* store when flush() began
  reg,         \* where the registration of r is
  pyrefs,      \* Python references owned on the host object of r
  object,      \* the Java object of r
  sentinel,    \* the object of the current sentinel
  sentinels,   \* how many sentinels were made
  workerAt,    \* the worker's program point, and its locals: the reference
  workerRef,   \* it took from the queue and the hook it copied
  workerHook

stopVars == <<isStopped, stopper, early, late>>
regVars == <<reg, pyrefs>>
javaVars == <<object, sentinel, sentinels>>
workerVars == <<workerAt, workerRef, workerHook>>
vars == <<setVars, stopVars, regVars, javaVars, workerVars>>

Init ==
  /\ SetInit
  /\ isStopped = FALSE
  /\ stopper = "running"
  /\ early = FALSE
  /\ late = {}
  /\ reg = [r \in Ref |-> "none"]
  /\ pyrefs = [r \in Ref |-> 0]
  /\ object = [r \in Ref |-> "live"]
  /\ sentinel = "live"
  /\ sentinels = 1
  /\ workerAt = "unstarted"
  /\ workerRef = Null
  /\ workerHook = 0

Drop(r) == pyrefs' = [pyrefs EXCEPT ![r] = @ - 1]

-------------------------------------------------------------------------------
\* registerRef: the caller took its Python reference, then isStopped decides.
Register(r) ==
  /\ reg[r] = "none"
  /\ pyrefs' = [pyrefs EXCEPT ![r] = @ + 1]
  /\ IF isStopped
     THEN reg' = [reg EXCEPT ![r] = "direct"] /\ UNCHANGED setVars
     ELSE reg' = [reg EXCEPT ![r] = "open"] /\ Construct(r, 1)
  /\ UNCHANGED <<stopVars, javaVars, workerVars>>

\* The queue is stopped: removeHostReference at once.
RegisterDirect(r) ==
  /\ reg[r] = "direct"
  /\ reg' = [reg EXCEPT ![r] = "done"]
  /\ Drop(r)
  /\ UNCHANGED <<setVars, stopVars, javaVars, workerVars>>

\* hostReferences.add: entered, up to its store, past it, and to its return; or
\* left by its exception, on which the native caller takes its Python reference
\* back.
RegisterOpen(r) ==
  /\ reg[r] = "open"
  /\ AddOpen(r)
  /\ reg' = [reg EXCEPT ![r] = "adding"]
  /\ UNCHANGED <<pyrefs, stopVars, javaVars, workerVars>>

RegisterGrow(r) ==
  /\ reg[r] = "adding"
  /\ AddRead \/ AddGrow
  /\ UNCHANGED <<regVars, stopVars, javaVars, workerVars>>

RegisterStore(r) ==
  /\ reg[r] = "adding"
  /\ AddStore(r)
  /\ reg' = [reg EXCEPT ![r] = "stored"]
  /\ UNCHANGED <<pyrefs, stopVars, javaVars, workerVars>>

RegisterReturn(r) ==
  /\ reg[r] = "stored"
  /\ AddFull \/ AddSearch
  /\ reg' = [reg EXCEPT ![r] = IF monitor' = "free" THEN "added" ELSE "stored"]
  /\ UNCHANGED <<pyrefs, stopVars, javaVars, workerVars>>

RegisterFails(r) ==
  /\ reg[r] = "adding"
  /\ AddStoreFails
  /\ reg' = [reg EXCEPT ![r] = "done"]
  /\ Drop(r)
  /\ UNCHANGED <<stopVars, javaVars, workerVars>>

\* The Java collector finds the object of r dead and enqueues its reference.
\* The caller of registerRef holds the object until the call returns.
Collect(r) ==
  /\ reg[r] = "added"
  /\ object[r] = "live"
  /\ object' = [object EXCEPT ![r] = "queued"]
  /\ UNCHANGED <<sentinel, sentinels, setVars, stopVars, regVars, workerVars>>

\* The same for the sentinel, whose referent nobody else holds.
CollectSentinel ==
  /\ sentinel = "live"
  /\ sentinels <= MaxSentinels
  /\ sentinel' = "queued"
  /\ UNCHANGED <<object, sentinels, setVars, stopVars, regVars, workerVars>>

-------------------------------------------------------------------------------
\* start() launches the worker.
Start ==
  /\ workerAt = "unstarted"
  /\ isStopped' = FALSE
  /\ workerAt' = "loop"
  /\ UNCHANGED <<stopper, early, late, workerRef, workerHook, setVars, regVars, javaVars>>

\* while (!isStopped)
WorkerLoop ==
  /\ workerAt = "loop"
  /\ workerAt' = IF isStopped THEN "exit" ELSE "poll"
  /\ UNCHANGED <<workerRef, workerHook, setVars, stopVars, regVars, javaVars>>

\* remove(250) returns null, or is interrupted by stop().
WorkerTimeout ==
  /\ workerAt = "poll"
  /\ \/ isStopped
     \/ sentinel # "queued" /\ \A r \in Ref : object[r] # "queued"
  /\ workerAt' = "loop"
  /\ UNCHANGED <<workerRef, workerHook, setVars, stopVars, regVars, javaVars>>

\* remove(250) returns the sentinel, which is replaced before the wake-up.
WorkerSentinel ==
  /\ workerAt = "poll"
  /\ sentinel = "queued"
  /\ sentinel' = "live"
  /\ sentinels' = sentinels + 1
  /\ workerAt' = "wake"
  /\ UNCHANGED <<object, workerRef, workerHook, setVars, stopVars, regVars>>

\* JPypeReferenceNative.wake, which may run a Python collection.
WorkerWake ==
  /\ workerAt = "wake"
  /\ workerAt' = "loop"
  /\ UNCHANGED <<workerRef, workerHook, setVars, stopVars, regVars, javaVars>>

\* remove(250) returns r; the worker copies its hook.
WorkerTake(r) ==
  /\ workerAt = "poll"
  /\ object[r] = "queued"
  /\ object' = [object EXCEPT ![r] = "taken"]
  /\ workerAt' = "remove"
  /\ workerRef' = r
  /\ workerHook' = cleanup[r]
  /\ UNCHANGED <<sentinel, sentinels, setVars, stopVars, regVars>>

\* hostReferences.remove(ref): its early return, its entry, its rest, and its
\* exception, which nothing in run() catches: the thread ends without notifyAll.
WorkerRemoveNothing ==
  /\ workerAt = "remove"
  /\ RemoveNothing(workerRef)
  /\ workerAt' = "release"
  /\ UNCHANGED <<workerRef, workerHook, stopVars, regVars, javaVars>>

WorkerRemoveOpen ==
  /\ workerAt = "remove"
  /\ RemoveOpen(workerRef)
  /\ workerAt' = "unlink"
  /\ UNCHANGED <<workerRef, workerHook, stopVars, regVars, javaVars>>

WorkerUnlink ==
  /\ workerAt = "unlink"
  /\ RemoveUnlink(workerRef)
  /\ workerAt' = "release"
  /\ UNCHANGED <<workerRef, workerHook, stopVars, regVars, javaVars>>

WorkerUnlinkFails ==
  /\ workerAt = "unlink"
  /\ RemoveUnlinkFails(workerRef)
  /\ workerAt' = "dead"
  /\ UNCHANGED <<workerRef, workerHook, stopVars, regVars, javaVars>>

\* Mutant: the hook is read after remove() cleared it.
WorkerReleaseNoCopy ==
  /\ workerAt = "release"
  /\ IF cleanup[workerRef] # 0 THEN Drop(workerRef) ELSE UNCHANGED pyrefs
  /\ workerAt' = "loop"
  /\ workerRef' = Null
  /\ workerHook' = 0
  /\ UNCHANGED <<reg, setVars, stopVars, javaVars>>

\* removeHostReference(hostRef, cleanup) with the copied hook.
WorkerRelease ==
  /\ workerAt = "release"
  /\ IF workerHook # 0 THEN Drop(workerRef) ELSE UNCHANGED pyrefs
  /\ workerAt' = "loop"
  /\ workerRef' = Null
  /\ workerHook' = 0
  /\ UNCHANGED <<reg, setVars, stopVars, javaVars>>

\* Mutant: the worker ends without the notifyAll.
WorkerExitSilent ==
  /\ workerAt = "exit"
  /\ workerAt' = "ended"
  /\ UNCHANGED <<workerRef, workerHook, setVars, stopVars, regVars, javaVars>>

\* queueStopMutex.notifyAll, the last thing the worker does.
WorkerExit ==
  /\ workerAt = "exit"
  /\ workerAt' = "ended"
  /\ stopper' = IF stopper = "waiting" THEN "notified" ELSE stopper
  /\ UNCHANGED <<isStopped, early, late, workerRef, workerHook, setVars, regVars, javaVars>>

-------------------------------------------------------------------------------
\* Mutant: stop() does not wait for the worker.
StopSignalNoWait ==
  /\ stopper = "running"
  /\ workerAt # "unstarted"
  /\ isStopped' = TRUE
  /\ stopper' = "notified"
  /\ UNCHANGED <<early, late, setVars, regVars, javaVars, workerVars>>

\* stop() up to its wait: the mutex is held until the wait gives it up, so the
\* worker's notifyAll cannot come before.
StopSignal ==
  /\ stopper = "running"
  /\ workerAt # "unstarted"
  /\ isStopped' = TRUE
  /\ stopper' = "waiting"
  /\ UNCHANGED <<early, late, setVars, regVars, javaVars, workerVars>>

\* The wait ends and stop() calls flush().
StopFlush ==
  /\ \/ stopper = "notified"
     \/ stopper = "waiting" /\ WaitMayEndEarly
  /\ early' = (stopper # "notified")
  /\ stopper' = "flushing"
  /\ FlushBegin
  /\ late' = {r \in Ref : reg[r] \in {"open", "adding"}}
  /\ UNCHANGED <<isStopped, regVars, javaVars, workerVars>>

\* A step of flush(); the one that clears a hook runs it.
StopStep ==
  /\ \/ (FlushPool \/ FlushSlot \/ FlushSlotsDone \/ FlushClear) /\ UNCHANGED pyrefs
     \/ FlushRelease /\ Drop(flushRef)
  /\ UNCHANGED <<reg, stopVars, javaVars, workerVars>>

\* stop() returns, or passes flush()'s exception on to its caller.
StopReturn ==
  /\ stopper = "flushing"
  /\ flushAt \in {"done", "failed"}
  /\ stopper' = "returned"
  /\ UNCHANGED <<isStopped, early, late, setVars, regVars, javaVars, workerVars>>

Registering == \E r \in Ref : \/ Register(r) \/ RegisterDirect(r) \/ RegisterOpen(r)
                              \/ RegisterGrow(r) \/ RegisterStore(r)
                              \/ RegisterReturn(r) \/ RegisterFails(r)
Collecting == CollectSentinel \/ \E r \in Ref : Collect(r)
Working == \/ WorkerLoop \/ WorkerTimeout \/ WorkerSentinel \/ WorkerWake
           \/ WorkerRemoveNothing \/ WorkerRemoveOpen \/ WorkerUnlink
           \/ WorkerUnlinkFails \/ WorkerRelease \/ WorkerExit
           \/ \E r \in Ref : WorkerTake(r)
Stopping == StopSignal \/ StopFlush \/ StopStep \/ StopReturn

Next == Registering \/ Collecting \/ Start \/ Working \/ Stopping

Spec == Init /\ [][Next]_vars

(***************************************************************************)
(* Fairness.  The worker is a daemon thread that only blocks in its timed  *)
(* poll and for the Python lock, which its holders give up; a thread in    *)
(* registerRef or stop() runs on.  Nothing makes a thread register, an     *)
(* object die or the queue stop.                                           *)
(***************************************************************************)
Fairness ==
  /\ WF_vars(Start \/ Working)
  /\ WF_vars(StopFlush \/ StopStep \/ StopReturn)
  /\ \A r \in Ref : /\ SF_vars(RegisterOpen(r))
                    /\ WF_vars(\/ RegisterDirect(r) \/ RegisterGrow(r) \/ RegisterStore(r)
                               \/ RegisterReturn(r) \/ RegisterFails(r))

LiveSpec == Spec /\ Fairness

-------------------------------------------------------------------------------
QueueTypeOK ==
  /\ isStopped \in BOOLEAN
  /\ stopper \in {"running", "waiting", "notified", "flushing", "returned"}
  /\ early \in BOOLEAN
  /\ late \subseteq Ref
  /\ reg \in [Ref -> {"none", "direct", "open", "adding", "stored", "added", "done"}]
  /\ pyrefs \in [Ref -> Int]
  /\ object \in [Ref -> {"live", "queued", "taken"}]
  /\ sentinel \in {"live", "queued"}
  /\ sentinels \in Nat
  /\ workerAt \in {"unstarted", "loop", "poll", "wake", "remove", "unlink",
                   "release", "exit", "ended", "dead"}
  /\ workerRef \in Ref \cup {Null}
  /\ workerHook \in {0, 1}

\* Every field has its type.
TypeOK == SetTypeOK /\ QueueTypeOK

\* A Python reference taken for a registration is dropped at most once, by
\* whichever of the worker, flush() and the direct path of registerRef comes
\* first, unless stop()'s wait ended before the worker did.
ReleasedOnce == early \/ \A r \in Ref : pyrefs[r] >= 0

\* As long as a registered Java object is alive and the queue was not told to
\* stop, the Python object has its extra reference and flush() would find it:
\* removals of other references, which move entries between slots, lose none.
KeptWhileLive ==
  \A r \in Ref : reg[r] = "added" /\ object[r] = "live" /\ ~isStopped
                  => pyrefs[r] = 1 /\ InSlot(r)

\* entries[tail++] in Pool.add stays inside the array: the current pool always
\* has room, also while flush() empties pools under a late registration.
AddInBounds == monitor = "store" /\ ~early => slot \in Slots

\* When flush() has run to its end after the worker's, and no registration was
\* between its test of isStopped and its store when flush() began, no Python
\* reference of any registration is left.
FlushComplete ==
  flushAt = "done" /\ ~early /\ late = {}
    => \A r \in Ref : reg[r] = "added" => pyrefs[r] = 0

\* A reference whose Java object the collector found dead is released, by the
\* worker or by flush(), unless a registration slipped past stop().
CollectedIsReleased ==
  \A r \in Ref : object[r] = "queued" ~> pyrefs[r] = 0 \/ late # {}

\* The queue keeps the promise of KeepAlive when stop()'s wait is ended by the
\* worker: each registration is held once and let go once, for a reason.
Promise == INSTANCE KeepAlive WITH
  hold <- [r \in Ref |-> IF reg[r] = "none" THEN "unregistered"
                        ELSE IF pyrefs[r] = 1 THEN "held"
                        ELSE IF pyrefs[r] = 0 THEN "gone" ELSE "overdrawn"],
  dead <- {r \in Ref : object[r] # "live"},
  stopped <- isStopped

KeepsPromise == Promise!Spec

\* stop() comes back: the worker sees isStopped and notifies.
StopReturns == stopper = "waiting" ~> stopper = "returned"
===============================================================================
