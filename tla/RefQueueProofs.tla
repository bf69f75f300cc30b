---------------------------- MODULE RefQueueProofs ----------------------------
(***************************************************************************)
(* Proofs about the reference queue, for any set of references and any     *)
(* pool size.                                                              *)
(***************************************************************************)
EXTENDS RefQueue, TLAPS

(***************************************************************************)
(* Shape: what holds in every reachable state, however stop()'s wait ends. *)
(***************************************************************************)

\* add() has written the entry of r.
Stored(r) == reg[r] \in {"stored", "added"}
Filled(p, i) == entries[p][i] \in Ref /\ Stored(entries[p][i])

\* The slot that add() has counted and not yet written.
Open(p, i) == monitor = "store" /\ p = current /\ i = slot

\* A slot is null or holds a reference that was stored, a live slot does, and the
\* pool that takes the next add is not full.
SlotsFilled ==
  /\ \A p \in Pools, i \in Slots : entries[p][i] = Null \/ Filled(p, i)
  /\ \A p \in Pools : /\ tail[p] <= SIZE
                      /\ \A i \in 0 .. tail[p] - 1 : Filled(p, i) \/ Open(p, i)
  /\ monitor = "grow" => \A i \in 0 .. slot - 1 : Filled(current, i)
  /\ monitor \in {"grow", "store"} => slot < SIZE
  /\ monitor = "store" => tail[current] \in {0, slot + 1}
  /\ current # -1 /\ monitor \in {"free", "unlink", "read"} => tail[current] < SIZE

\* A registration in the set that still has its hook knows its pool.
HookedPlaced ==
  \A r \in Ref : reg[r] = "adding" \/ Stored(r) => (cleanup[r] = 1 => pool[r] \in Pools)

\* The monitor has one owner, and is held by the code that it names.
MonitorOwner ==
  /\ \A r \in Ref : /\ reg[r] = "adding" => monitor \in {"read", "grow", "store"}
                    /\ reg[r] = "stored" => monitor \in {"full", "search"}
  /\ \A r, s \in Ref : {reg[r], reg[s]} \subseteq {"adding", "stored"} => r = s
  /\ workerAt = "unlink" <=> monitor = "unlink"
  /\ monitor \in {"read", "grow", "store", "full"} => current \in Pools
  /\ monitor = "unlink" => pool[workerRef] \in Pools

\* The worker's local is a reference that was registered and collected.
WorkerLocal ==
  /\ workerAt \in {"remove", "unlink", "release"} =>
       /\ workerRef \in Ref
       /\ object[workerRef] = "taken"
  /\ \A r \in Ref : object[r] # "live" => reg[r] = "added"

\* flush() stays inside the list of pools and the slots of completed
\* registrations.
FlushLocal ==
  /\ flushAt \in {"slot", "release", "clear"} => flushPool \in Pools
  /\ flushAt = "release" => flushRef \in Ref /\ Stored(flushRef)
  /\ flushPool <= npools

\* stop() starts flush(), once, after it set isStopped.
StopOrder ==
  /\ isStopped <=> stopper # "running"
  /\ flushAt = "idle" <=> stopper \in {"running", "waiting", "notified"}
  /\ flushAt = "idle" => flushPool = 0 /\ ~early
  /\ stopper # "running" => workerAt # "unstarted"
  /\ early => WaitMayEndEarly
  /\ \A r \in Ref : reg[r] = "direct" => isStopped

Shape == /\ TypeOK /\ SlotsFilled /\ HookedPlaced /\ MonitorOwner
         /\ WorkerLocal /\ FlushLocal /\ StopOrder

(***************************************************************************)
(* Orderly: what holds as long as stop()'s wait did not end early.         *)
(***************************************************************************)

\* flush() runs after the worker's end.
WorkerGone == stopper \in {"notified", "flushing", "returned"} => workerAt = "ended"

\* No tail was decremented below zero.
TailsNatural == /\ \A p \in Pools : tail[p] >= 0
                /\ monitor \in {"grow", "store"} => slot >= 0

\* Until flush(), slots and references point at each other, and what add() has read
\* is still so.
Coherent ==
  flushAt = "idle" =>
    /\ \A p \in Pools : \A i \in 0 .. tail[p] - 1 : ~Open(p, i) =>
         /\ cleanup[entries[p][i]] = 1
         /\ pool[entries[p][i]] = p
         /\ index[entries[p][i]] = i
    /\ \A r \in Ref : Stored(r) /\ cleanup[r] = 1 =>
         InSlot(r) /\ ~Open(pool[r], index[r])
    /\ \A r \in Ref : reg[r] = "adding" =>
         /\ pool[r] = current
         /\ index[r] = IF monitor = "read" THEN tail[current] ELSE slot
    /\ monitor = "grow" => tail[current] = slot
    /\ monitor = "store" => tail[current] = slot + 1

\* Whose turn it is to drop the Python reference of r, at each point of its
\* registration; Releasing(r): the worker took its hook and has yet to run it.
Releasing(r) == workerAt = "release" /\ workerRef = r
CountKept ==
  \A r \in Ref :
    /\ reg[r] \in {"none", "done"} => pyrefs[r] = 0 /\ cleanup[r] = 0
    /\ reg[r] = "direct" => pyrefs[r] = 1 /\ cleanup[r] = 0
    /\ reg[r] \in {"open", "adding"} => pyrefs[r] = 1 /\ cleanup[r] = 1
    /\ Stored(r) =>
         pyrefs[r] = IF cleanup[r] = 1 \/ Releasing(r) THEN 1 ELSE 0
    /\ Stored(r) /\ object[r] # "taken" /\ flushAt = "idle" => cleanup[r] = 1

HookTaken ==
  /\ workerAt \in {"remove", "unlink"} => cleanup[workerRef] = 1 /\ workerHook = 1
  /\ workerAt = "release" => cleanup[workerRef] = 0 /\ workerHook = 1
  /\ flushAt = "release" => cleanup[flushRef] = 1

\* What flush() still has to visit, when no registration can add to it.
Unvisited(r) ==
  /\ InSlot(r)
  /\ \/ pool[r] > flushPool
     \/ /\ pool[r] = flushPool
        /\ \/ flushAt = "pool"
           \/ flushAt \in {"slot", "release"} /\ index[r] >= flushSlot
FlushCovers ==
  flushAt # "idle" /\ late = {} =>
    /\ \A r \in Ref : reg[r] \notin {"open", "adding"}
    /\ flushAt = "done" => flushPool = npools
    /\ flushAt = "release" => flushRef = entries[flushPool][flushSlot]
    /\ flushAt # "failed" =>
         \A r \in Ref : Stored(r) /\ cleanup[r] = 1 => Unvisited(r)

Orderly == /\ WorkerGone /\ TailsNatural /\ Coherent /\ CountKept /\ HookTaken /\ FlushCovers

IInv == Shape /\ (early \/ Orderly)
-------------------------------------------------------------------------------
\* Facts every leaf may use: the assumptions, and what UNCHANGED stands for.
USE SizeAssumption, NullAssumption, EarlyAssumption, SentinelAssumption
USE DEF setVars, structure, addVars, monitorVars, flushVars, stopVars, regVars, javaVars,
        workerVars, Drop, Stored, Filled, Open

\* The queue is created in shape: an empty set, a worker not yet started.
LEMMA ShapeInit == Init => Shape
<1> SUFFICES ASSUME Init PROVE Shape
  OBVIOUS
<1>1. SetTypeOK
  BY DEF Init, SetInit, SetTypeOK, Pools, FlushPoints
<1>2. QueueTypeOK
  <2>1. isStopped \in BOOLEAN /\ early \in BOOLEAN
    BY Zenon DEF Init
  <2> QED BY <2>1 DEF Init, QueueTypeOK
<1>3. SlotsFilled /\ HookedPlaced /\ FlushLocal
  BY DEF Init, SetInit, SlotsFilled, HookedPlaced, FlushLocal, Pools
<1>4. MonitorOwner /\ WorkerLocal /\ StopOrder
  BY DEF Init, SetInit, MonitorOwner, WorkerLocal, StopOrder
<1> QED BY <1>1, <1>2, <1>3, <1>4 DEF Shape, TypeOK

\* What the slots hold does not depend on the monitor being entered by remove.
LEMMA SlotsFrame ==
  ASSUME SlotsFilled, UNCHANGED <<npools, entries, tail, current, slot>>,
         monitor' = monitor \/ {monitor, monitor'} \subseteq {"free", "unlink"},
         \A x \in Ref : Stored(x) => Stored(x)'
  PROVE  SlotsFilled'
<1>1. \A p, i : Filled(p, i) => Filled(p, i)'
  OBVIOUS
<1>2. \A p, i : (Open(p, i)' <=> Open(p, i)) /\ entries'[p][i] = entries[p][i]
  OBVIOUS
<1>3. Pools' = Pools
  BY DEF Pools
<1> HIDE DEF Filled, Open, Stored
<1> QED BY <1>1, <1>2, <1>3 DEF SlotsFilled

\* registerRef changes the registration of r only.
LEMMA ShapeRegister == ASSUME Shape, NEW r \in Ref, Register(r) PROVE Shape'
<1>1. /\ \A x \in Ref : reg'[x] = IF x = r THEN (IF isStopped THEN "direct" ELSE "open") ELSE reg[x]
      /\ \A x \in Ref : x # r => cleanup'[x] = cleanup[x]
      /\ UNCHANGED <<structure, monitorVars, flushVars>>
  BY DEF Register, Construct, Shape, TypeOK, SetTypeOK, QueueTypeOK
<1>2. SetTypeOK'
  <2>1. CASE isStopped
    BY <2>1 DEF Register, Shape, TypeOK, SetTypeOK, Pools
  <2>2. CASE ~isStopped
    BY <2>2 DEF Register, Construct, Shape, TypeOK, SetTypeOK, Pools
  <2> QED BY <2>1, <2>2
<1>10. QueueTypeOK'
  <2>1. reg' \in [Ref -> {"none", "direct", "open", "adding", "stored", "added", "done"}]
    BY DEF Register, Shape, TypeOK, QueueTypeOK
  <2> QED BY <2>1 DEF Register, Shape, TypeOK, QueueTypeOK
<1>3. reg[r] = "none" /\ UNCHANGED <<stopVars, javaVars, workerVars>>
  BY DEF Register
<1>4. SlotsFilled'
  <2>1. \A x \in Ref : Stored(x) => Stored(x)'
    BY <1>1, <1>3
  <2> QED BY <1>1, <2>1, SlotsFrame DEF Shape
<1>5. HookedPlaced'
  BY <1>1, <1>3 DEF Shape, HookedPlaced, Pools
<1>6. MonitorOwner'
  BY <1>1, <1>3 DEF Shape, MonitorOwner, Pools
<1>7. WorkerLocal'
  BY <1>1, <1>3 DEF Shape, WorkerLocal
<1>8. FlushLocal'
  BY <1>1, <1>3 DEF Shape, FlushLocal, Pools
<1>9. StopOrder'
  BY <1>1, <1>3 DEF Shape, StopOrder
<1> QED BY <1>2, <1>4, <1>5, <1>6, <1>7, <1>8, <1>9, <1>10 DEF Shape, TypeOK

\* The direct path of registerRef touches no shared structure.
LEMMA ShapeRegisterDirect == ASSUME Shape, NEW r \in Ref, RegisterDirect(r) PROVE Shape'
<1>1. SetTypeOK'
    BY DEF RegisterDirect, Shape, SetTypeOK, TypeOK, QueueTypeOK, Pools, Slots,
       MonitorOwner, SlotsFilled
<1>2. QueueTypeOK'
  BY DEF RegisterDirect, Shape, QueueTypeOK, TypeOK, SetTypeOK
<1>3. SlotsFilled'
  <2>1. \A x \in Ref : Stored(x) => Stored(x)'
    BY DEF RegisterDirect, Shape, TypeOK, QueueTypeOK
  <2> QED BY <2>1, SlotsFrame DEF RegisterDirect, Shape
<1>4. HookedPlaced'
    BY DEF RegisterDirect, Shape, HookedPlaced, TypeOK, SetTypeOK, QueueTypeOK,
       Pools, Slots, MonitorOwner, SlotsFilled, WorkerLocal
<1>5. MonitorOwner'
    BY DEF RegisterDirect, Shape, MonitorOwner, TypeOK, SetTypeOK, QueueTypeOK,
       Pools, Slots, HookedPlaced, WorkerLocal
<1>6. WorkerLocal'
  BY DEF RegisterDirect, Shape, WorkerLocal, TypeOK, SetTypeOK, QueueTypeOK
<1>7. FlushLocal'
    BY DEF RegisterDirect, Shape, FlushLocal, TypeOK, SetTypeOK, QueueTypeOK,
       Pools
<1>8. StopOrder'
    BY DEF RegisterDirect, Shape, StopOrder, TypeOK, SetTypeOK, QueueTypeOK,
       FlushPoints
<1> QED BY <1>1, <1>2, <1>3, <1>4, <1>5, <1>6, <1>7, <1>8 DEF Shape, TypeOK

\* add() may append an empty pool, and takes the monitor.
LEMMA ShapeRegisterOpen == ASSUME Shape, NEW r \in Ref, RegisterOpen(r) PROVE Shape'
<1>1. SetTypeOK'
  <2>1. CASE current = -1
    <3>1. npools' = npools + 1 /\ current' = npools /\ Pools' = 0 .. npools
      BY <2>1 DEF RegisterOpen, AddOpen, Shape, TypeOK, SetTypeOK, Pools
    <3>2. entries' \in [0 .. npools -> [Slots -> Ref \cup {Null}]]
      BY <2>1 DEF RegisterOpen, AddOpen, EmptyPool, Shape, TypeOK, SetTypeOK, Pools
    <3>3. tail' \in [0 .. npools -> Int]
      BY <2>1 DEF RegisterOpen, AddOpen, Shape, TypeOK, SetTypeOK, Pools
    <3> QED BY <3>1, <3>2, <3>3 DEF RegisterOpen, AddOpen, Shape, TypeOK, SetTypeOK
  <2>2. CASE current # -1
    BY <2>2 DEF RegisterOpen, AddOpen, Shape, TypeOK, SetTypeOK, Pools
  <2> QED BY <2>1, <2>2
<1>2. QueueTypeOK'
    BY DEF RegisterOpen, AddOpen, EmptyPool, Shape, QueueTypeOK, TypeOK,
       SetTypeOK
<1>3. SlotsFilled'
  <2>1. CASE current = -1
    <3>1. \A p \in Pools : entries'[p] = entries[p] /\ tail'[p] = tail[p]
      BY <2>1 DEF RegisterOpen, AddOpen, Shape, TypeOK, SetTypeOK, Pools
    <3>2. /\ tail'[npools] = 0 /\ current' = npools /\ Pools' = Pools \cup {npools}
          /\ \A i \in Slots : entries'[npools][i] = Null
      BY <2>1 DEF RegisterOpen, AddOpen, EmptyPool, Shape, TypeOK, SetTypeOK, Pools
    <3>3. monitor = "free" /\ monitor' = "read" /\ \A x \in Ref : Stored(x) => Stored(x)'
      BY DEF RegisterOpen, AddOpen, Shape, TypeOK, QueueTypeOK
    <3>4. ASSUME NEW p \in Pools'
          PROVE  /\ tail'[p] <= SIZE
                 /\ \A i \in 0 .. tail'[p] - 1 : Filled(p, i)'
                 /\ \A i \in Slots : entries'[p][i] = Null \/ Filled(p, i)'
      <4>1. CASE p = npools
        BY <3>2, <4>1
      <4>2. CASE p \in Pools
        <5>1. /\ tail[p] <= SIZE /\ \A i \in 0 .. tail[p] - 1 : Filled(p, i)
              /\ \A i \in Slots : entries[p][i] = Null \/ Filled(p, i)
          BY <3>3, <4>2 DEF Shape, SlotsFilled
        <5> QED BY <3>1, <3>3, <4>2, <5>1
      <4> QED BY <3>2, <4>1, <4>2
    <3> QED BY <3>2, <3>3, <3>4 DEF SlotsFilled
  <2>2. CASE current # -1
    BY <2>2 DEF RegisterOpen, AddOpen, Shape, SlotsFilled, TypeOK, SetTypeOK, QueueTypeOK, Pools
  <2> QED BY <2>1, <2>2
<1>4. HookedPlaced'
    BY DEF RegisterOpen, AddOpen, EmptyPool, Shape, HookedPlaced, TypeOK,
       SetTypeOK, QueueTypeOK, Pools, Slots, MonitorOwner, SlotsFilled,
       WorkerLocal
<1>5. MonitorOwner'
    BY DEF RegisterOpen, AddOpen, EmptyPool, Shape, MonitorOwner, TypeOK,
       SetTypeOK, QueueTypeOK, Pools, Slots, HookedPlaced, WorkerLocal
<1>6. WorkerLocal'
    BY DEF RegisterOpen, AddOpen, EmptyPool, Shape, WorkerLocal, TypeOK,
       SetTypeOK, QueueTypeOK
<1>7. FlushLocal'
    BY DEF RegisterOpen, AddOpen, EmptyPool, Shape, FlushLocal, TypeOK,
       SetTypeOK, QueueTypeOK, Pools
<1>8. StopOrder'
    BY DEF RegisterOpen, AddOpen, EmptyPool, Shape, StopOrder, TypeOK,
       SetTypeOK, QueueTypeOK, FlushPoints
<1> QED BY <1>1, <1>2, <1>3, <1>4, <1>5, <1>6, <1>7, <1>8 DEF Shape, TypeOK

\* tail++ counts a slot above those that are filled.
LEMMA ShapeRegisterGrow == ASSUME Shape, NEW r \in Ref, RegisterGrow(r) PROVE Shape'
<1>1. CASE AddRead
  <2>1. /\ monitor = "read" /\ monitor' = "grow" /\ slot' = tail[current] /\ current \in Pools
        /\ UNCHANGED <<structure, cleanup, probe, flushVars, reg>>
    BY <1>1 DEF AddRead, RegisterGrow, Shape, MonitorOwner
  <2>2. TypeOK'
    BY <1>1 DEF RegisterGrow, AddRead, Shape, TypeOK, SetTypeOK, QueueTypeOK, MonitorOwner, Pools
  <2>3. SlotsFilled'
    <3>1. /\ \A p \in Pools : tail[p] <= SIZE /\ \A i \in 0 .. tail[p] - 1 : Filled(p, i)
          /\ \A p \in Pools, i \in Slots : entries[p][i] = Null \/ Filled(p, i)
          /\ tail[current] < SIZE
      BY <2>1 DEF Shape, SlotsFilled, Pools
    <3>2. Pools' = Pools /\ \A p, i : (Filled(p, i)' <=> Filled(p, i)) /\ entries'[p][i] = entries[p][i]
      BY <2>1 DEF Pools
    <3> HIDE DEF Filled, Open
    <3> QED BY <2>1, <3>1, <3>2 DEF SlotsFilled
  <2>4. HookedPlaced' /\ MonitorOwner'
    BY <1>1, <2>1 DEF RegisterGrow, Shape, HookedPlaced, MonitorOwner, Pools
  <2> QED
    BY <1>1, <2>2, <2>3, <2>4 DEF RegisterGrow, AddRead, Shape, WorkerLocal, FlushLocal, StopOrder, Pools
<1>2. CASE AddGrow
  <2>1. /\ monitor = "grow" /\ monitor' = "store" /\ current \in Pools /\ slot \in Int /\ slot < SIZE
        /\ \A p \in Pools : tail'[p] = IF p = current THEN slot + 1 ELSE tail[p]
        /\ UNCHANGED <<npools, entries, current, items, cleanup, pool, index, addVars, flushVars, reg>>
    BY <1>2 DEF AddGrow, RegisterGrow, Shape, MonitorOwner, SlotsFilled, TypeOK, SetTypeOK
  <2>2. TypeOK'
    <3>1. tail' \in [Pools -> Int]
      BY <1>2, <2>1 DEF AddGrow, Shape, TypeOK, SetTypeOK
    <3> QED BY <1>2, <2>1, <3>1 DEF RegisterGrow, Shape, TypeOK, SetTypeOK, QueueTypeOK, Pools
  <2>3. SlotsFilled'
    <3>1. ASSUME NEW p \in Pools
          PROVE  /\ tail'[p] <= SIZE
                 /\ \A i \in 0 .. tail'[p] - 1 : Filled(p, i) \/ (p = current /\ i = slot)
                 /\ \A i \in Slots : entries[p][i] = Null \/ Filled(p, i)
      <4>1. CASE p = current
        BY <2>1, <4>1 DEF Shape, SlotsFilled
      <4>2. CASE p # current
        BY <2>1, <4>2 DEF Shape, SlotsFilled
      <4> QED BY <4>1, <4>2
    <3> QED BY <2>1, <3>1 DEF SlotsFilled, Pools
  <2>4. HookedPlaced' /\ MonitorOwner'
    BY <1>2, <2>1 DEF RegisterGrow, Shape, HookedPlaced, MonitorOwner, Pools
  <2> QED
    BY <1>2, <2>2, <2>3, <2>4 DEF RegisterGrow, AddGrow, Shape, WorkerLocal, FlushLocal, StopOrder, Pools
<1> QED BY <1>1, <1>2 DEF RegisterGrow

\* The slot that was counted is filled.
LEMMA ShapeRegisterStore == ASSUME Shape, NEW r \in Ref, RegisterStore(r) PROVE Shape'
<1>1. /\ monitor = "store" /\ monitor' = "full" /\ current \in Pools /\ slot \in Slots
      /\ \A q \in Pools, j \in Slots :
           entries'[q][j] = IF q = current /\ j = slot THEN r ELSE entries[q][j]
      /\ \A x \in Ref : reg'[x] = IF x = r THEN "stored" ELSE reg[x]
      /\ reg[r] = "adding"
      /\ UNCHANGED <<npools, tail, current, cleanup, pool, index, flushVars>>
  BY DEF RegisterStore, AddStore, Shape, TypeOK, SetTypeOK, QueueTypeOK, MonitorOwner
<1>2. SetTypeOK'
  BY DEF RegisterStore, AddStore, Shape, SetTypeOK, TypeOK, QueueTypeOK, Pools, Slots, MonitorOwner
<1>3. QueueTypeOK'
  BY DEF RegisterStore, AddStore, Shape, QueueTypeOK, TypeOK, SetTypeOK
<1>4. SlotsFilled'
  <2>1. ASSUME NEW q \in Pools
        PROVE  /\ tail[q] <= SIZE /\ \A j \in 0 .. tail[q] - 1 : Filled(q, j)'
               /\ \A j \in Slots : entries'[q][j] = Null \/ Filled(q, j)'
    <3>1. tail[q] \in Int /\ tail[q] <= SIZE
      BY DEF Shape, TypeOK, SetTypeOK, SlotsFilled
    <3>2. ASSUME NEW j \in 0 .. tail[q] - 1
          PROVE  Filled(q, j)'
      <4>1. j \in Slots
        BY <3>1 DEF Slots
      <4>2. CASE q = current /\ j = slot
        BY <1>1, <4>1, <4>2
      <4>3. CASE ~(q = current /\ j = slot)
        <5>1. Filled(q, j)
          BY <4>3 DEF Shape, SlotsFilled
        <5> QED BY <1>1, <4>1, <4>3, <5>1
      <4> QED BY <4>2, <4>3
    <3>3. ASSUME NEW j \in Slots
          PROVE  entries'[q][j] = Null \/ Filled(q, j)'
      <4>1. entries[q][j] = Null \/ Filled(q, j)
        BY DEF Shape, SlotsFilled
      <4> QED BY <1>1, <4>1
    <3> QED BY <3>1, <3>2, <3>3
  <2> QED BY <1>1, <2>1 DEF SlotsFilled, Pools
<1>5. HookedPlaced'
  BY <1>1 DEF Shape, HookedPlaced, Pools
<1>6. MonitorOwner'
  BY <1>1 DEF RegisterStore, Shape, MonitorOwner, Pools
<1>7. WorkerLocal' /\ StopOrder'
  BY <1>1 DEF RegisterStore, Shape, WorkerLocal, StopOrder
<1>8. FlushLocal'
  BY <1>1 DEF RegisterStore, Shape, FlushLocal, Pools
<1> QED BY <1>2, <1>3, <1>4, <1>5, <1>6, <1>7, <1>8 DEF Shape, TypeOK

\* add() returns, and leaves a current pool with room or none.
LEMMA ShapeRegisterReturn == ASSUME Shape, NEW r \in Ref, RegisterReturn(r) PROVE Shape'
<1>1. /\ monitor \in {"full", "search"} /\ monitor' \in {"free", "search"} /\ reg[r] = "stored"
      /\ monitor' = "free" => reg' = [reg EXCEPT ![r] = "added"]
      /\ monitor' = "search" => reg' = [reg EXCEPT ![r] = "stored"]
      /\ UNCHANGED <<npools, entries, tail, items, cleanup, pool, index, slot, flushVars>>
      /\ UNCHANGED <<pyrefs, stopVars, javaVars, workerVars>>
  BY DEF RegisterReturn, AddFull, AddSearch
<1>2. /\ \A x \in Ref : Stored(x)' <=> Stored(x)
      /\ \A x \in Ref : x # r => reg'[x] = reg[x]
      /\ reg'[r] = IF monitor' = "free" THEN "added" ELSE "stored"
      /\ reg' \in [Ref -> {"none", "direct", "open", "adding", "stored", "added", "done"}]
  BY <1>1 DEF Shape, TypeOK, QueueTypeOK
<1>3. /\ current' \in Pools \cup {-1} /\ probe' \in 0 .. npools
      /\ current' # -1 /\ monitor' = "free" => tail[current'] < SIZE
  <2>1. /\ \A p \in Pools : tail[p] \in Int /\ tail[p] <= SIZE
        /\ current \in Pools \cup {-1} /\ npools \in Nat /\ probe \in 0 .. npools
        /\ monitor = "full" => current \in Pools
    BY DEF Shape, TypeOK, SetTypeOK, SlotsFilled, MonitorOwner, Pools
  <2>2. CASE AddFull
    BY <2>1, <2>2 DEF AddFull
  <2>3. CASE AddSearch
    BY <2>1, <2>3 DEF AddSearch, Pools
  <2> QED BY <2>2, <2>3 DEF RegisterReturn
<1>4. SetTypeOK'
  BY <1>1, <1>3 DEF Shape, TypeOK, SetTypeOK, Pools
<1>5. QueueTypeOK'
  BY <1>1, <1>2 DEF Shape, TypeOK, QueueTypeOK
<1>6. SlotsFilled'
  BY <1>1, <1>2, <1>3 DEF Shape, SlotsFilled, Pools
<1>7. HookedPlaced'
  BY <1>1, <1>2 DEF Shape, HookedPlaced, Pools
<1>8. MonitorOwner'
  BY <1>1, <1>2 DEF Shape, MonitorOwner, Pools
<1>9. WorkerLocal' /\ FlushLocal' /\ StopOrder'
  BY <1>1, <1>2 DEF Shape, WorkerLocal, FlushLocal, StopOrder, Pools
<1> QED BY <1>4, <1>5, <1>6, <1>7, <1>8, <1>9 DEF Shape, TypeOK

\* Pool.add fails only below slot 0, as the pool that takes the add is never full.
LEMMA ShapeRegisterFails == ASSUME Shape, NEW r \in Ref, RegisterFails(r) PROVE Shape'
<1>1. /\ monitor = "store" /\ monitor' = "free" /\ slot < 0 /\ slot \in Int /\ reg[r] = "adding"
      /\ \A x \in Ref : reg'[x] = IF x = r THEN "done" ELSE reg[x]
      /\ UNCHANGED <<structure, cleanup, probe, flushVars>>
  BY DEF RegisterFails, AddStoreFails, Shape, TypeOK, SetTypeOK, QueueTypeOK, SlotsFilled, Slots
<1>2. TypeOK'
  BY DEF RegisterFails, AddStoreFails, Shape, TypeOK, SetTypeOK, QueueTypeOK, Pools
<1>3. SlotsFilled'
  <2>1. /\ \A p \in Pools : tail[p] <= SIZE /\ \A i \in 0 .. tail[p] - 1 : Filled(p, i)
        /\ \A p \in Pools, i \in Slots : entries[p][i] = Null \/ Filled(p, i)
    BY <1>1 DEF Shape, SlotsFilled, Pools
  <2>2. Pools' = Pools /\ \A p, i : (Filled(p, i) => Filled(p, i)') /\ entries'[p][i] = entries[p][i]
    BY <1>1 DEF Pools
  <2>3. tail[current] < SIZE
    BY <1>1 DEF Shape, SlotsFilled
  <2> HIDE DEF Filled, Open
  <2> QED BY <1>1, <2>1, <2>2, <2>3 DEF SlotsFilled
<1>4. HookedPlaced' /\ MonitorOwner'
  BY <1>1 DEF RegisterFails, Shape, HookedPlaced, MonitorOwner, Pools
<1>5. WorkerLocal' /\ FlushLocal' /\ StopOrder'
  BY <1>1 DEF RegisterFails, Shape, WorkerLocal, FlushLocal, StopOrder, Pools
<1> QED BY <1>2, <1>3, <1>4, <1>5 DEF Shape, TypeOK

\* Pool.remove moves a completed registration into the hole.
LEMMA ShapeWorkerUnlink == ASSUME Shape, WorkerUnlink PROVE Shape'
<1> DEFINE p == pool[workerRef]
           i == index[workerRef]
           last == entries[p][tail[p] - 1]
<1>1. p \in Pools /\ i \in Slots /\ tail[p] \in 1 .. SIZE /\ workerRef \in Ref
  BY DEF WorkerUnlink, RemoveUnlink, Shape, TypeOK, SetTypeOK, SlotsFilled, HookedPlaced,
         MonitorOwner, WorkerLocal, Pools
<1>2. last \in Ref /\ Stored(last) /\ monitor = "unlink" /\ monitor' = "free"
  BY <1>1 DEF WorkerUnlink, RemoveUnlink, Shape, SlotsFilled
<1>3. /\ \A q \in Pools : tail'[q] = IF q = p THEN tail[q] - 1 ELSE tail[q]
      /\ \A q \in Pools, j \in Slots :
           entries'[q][j] = IF q = p /\ j = i THEN last ELSE entries[q][j]
      /\ \A x \in Ref : index'[x] = IF x = last THEN i ELSE index[x]
      /\ \A x \in Ref : cleanup'[x] = IF x = workerRef THEN 0 ELSE cleanup[x]
      /\ \A x \in Ref : pool'[x] = IF x = workerRef THEN -1 ELSE pool[x]
      /\ UNCHANGED <<npools, current, reg>>
  BY <1>1, <1>2 DEF WorkerUnlink, RemoveUnlink, Shape, TypeOK, SetTypeOK
<1>4. SetTypeOK'
  BY <1>1, <1>2, SMTT(30) DEF WorkerUnlink, RemoveUnlink, Shape, TypeOK, SetTypeOK, Pools, Slots
<1>5. SlotsFilled'
  <2>1. ASSUME NEW q \in Pools
        PROVE  /\ tail'[q] <= SIZE
               /\ \A j \in 0 .. tail'[q] - 1 : Filled(q, j)'
               /\ \A j \in Slots : entries'[q][j] = Null \/ Filled(q, j)'
    <3>1. tail[q] \in Int /\ tail'[q] \in Int /\ tail'[q] <= tail[q] /\ tail[q] <= SIZE
      BY <1>1, <1>3 DEF Shape, TypeOK, SetTypeOK, SlotsFilled
    <3>2. ASSUME NEW j \in 0 .. tail'[q] - 1
          PROVE  Filled(q, j)'
      <4>1. j \in Slots /\ j \in 0 .. tail[q] - 1
        BY <3>1 DEF Slots
      <4>2. Filled(q, j)
        BY <1>2, <4>1 DEF Shape, SlotsFilled
      <4> HIDE DEF p, i, last
      <4> QED BY <1>2, <1>3, <4>1, <4>2
    <3>3. ASSUME NEW j \in Slots
          PROVE  entries'[q][j] = Null \/ Filled(q, j)'
      <4>1. entries[q][j] = Null \/ Filled(q, j)
        BY DEF Shape, SlotsFilled
      <4> HIDE DEF p, i, last
      <4> QED BY <1>2, <1>3, <4>1
    <3> QED BY <3>1, <3>2, <3>3
  <2>2. current # -1 => current \in Pools /\ tail'[current] < SIZE
    <3>1. current # -1 => current \in Pools /\ tail[current] \in Int /\ tail[current] < SIZE
      BY <1>2 DEF Shape, TypeOK, SetTypeOK, SlotsFilled, Pools
    <3> HIDE DEF p, i, last
    <3> QED BY <1>3, <3>1
  <2> HIDE DEF p, i, last
  <2> QED BY <1>2, <1>3, <2>1, <2>2 DEF SlotsFilled, Pools
<1>6. HookedPlaced'
  BY <1>1, <1>2, <1>3 DEF WorkerUnlink, Shape, HookedPlaced, Pools
<1>7. QueueTypeOK'
  BY DEF WorkerUnlink, Shape, TypeOK, QueueTypeOK
<1>8. MonitorOwner' /\ WorkerLocal'
  BY DEF WorkerUnlink, RemoveUnlink, Shape, MonitorOwner, WorkerLocal, Pools
<1>9. FlushLocal' /\ StopOrder'
  BY DEF WorkerUnlink, RemoveUnlink, Shape, FlushLocal, StopOrder, Pools
<1> QED BY <1>4, <1>5, <1>6, <1>7, <1>8, <1>9 DEF Shape, TypeOK

\* A failed Pool.remove only lowers a tail.
LEMMA ShapeWorkerUnlinkFails == ASSUME Shape, WorkerUnlinkFails PROVE Shape'
<1>1. SetTypeOK'
    BY DEF WorkerUnlinkFails, RemoveUnlinkFails, Shape, TypeOK, SetTypeOK,
       Pools, WorkerLocal, MonitorOwner
<1>2. QueueTypeOK'
    BY DEF WorkerUnlinkFails, RemoveUnlinkFails, Shape, QueueTypeOK, TypeOK,
       SetTypeOK
<1>3. SlotsFilled'
    BY DEF WorkerUnlinkFails, RemoveUnlinkFails, Shape, SlotsFilled, TypeOK,
       SetTypeOK, QueueTypeOK, Pools, Slots, MonitorOwner, HookedPlaced,
       WorkerLocal
<1>4. HookedPlaced'
    BY DEF WorkerUnlinkFails, RemoveUnlinkFails, Shape, HookedPlaced, TypeOK,
       SetTypeOK, QueueTypeOK, Pools, Slots, MonitorOwner, SlotsFilled,
       WorkerLocal
<1>5. MonitorOwner'
    BY DEF WorkerUnlinkFails, RemoveUnlinkFails, Shape, MonitorOwner, TypeOK,
       SetTypeOK, QueueTypeOK, Pools, Slots, HookedPlaced, WorkerLocal
<1>6. WorkerLocal'
    BY DEF WorkerUnlinkFails, RemoveUnlinkFails, Shape, WorkerLocal, TypeOK,
       SetTypeOK, QueueTypeOK
<1>7. FlushLocal'
    BY DEF WorkerUnlinkFails, RemoveUnlinkFails, Shape, FlushLocal, TypeOK,
       SetTypeOK, QueueTypeOK, Pools
<1>8. StopOrder'
    BY DEF WorkerUnlinkFails, RemoveUnlinkFails, Shape, StopOrder, TypeOK,
       SetTypeOK, QueueTypeOK, FlushPoints
<1> QED BY <1>1, <1>2, <1>3, <1>4, <1>5, <1>6, <1>7, <1>8 DEF Shape, TypeOK

\* Shape is kept by the collector taking an object.
LEMMA ShapeCollect == ASSUME Shape, NEW r \in Ref, Collect(r) PROVE Shape'
<1>1. SetTypeOK'
  BY DEF Collect, Shape, TypeOK, SetTypeOK, FlushLocal, Pools, FlushPoints
<1>2. QueueTypeOK'
  BY DEF Collect, Shape, TypeOK, QueueTypeOK, SetTypeOK
<1>3. SlotsFilled'
  BY SlotsFrame DEF Collect, Shape
<1>4. HookedPlaced' /\ MonitorOwner'
  BY DEF Collect, Shape, TypeOK, SetTypeOK, QueueTypeOK, HookedPlaced, MonitorOwner,
           WorkerLocal, Pools
<1>5. WorkerLocal' /\ FlushLocal' /\ StopOrder'
  BY DEF Collect, Shape, TypeOK, SetTypeOK, QueueTypeOK, WorkerLocal, FlushLocal, StopOrder,
           Pools
<1> QED BY <1>1, <1>2, <1>3, <1>4, <1>5 DEF Shape, TypeOK

\* Shape is kept by the worker taking a reference from its queue.
LEMMA ShapeWorkerTake == ASSUME Shape, NEW r \in Ref, WorkerTake(r) PROVE Shape'
<1>1. SetTypeOK'
  BY DEF WorkerTake, Shape, TypeOK, SetTypeOK, FlushLocal, Pools, FlushPoints
<1>2. QueueTypeOK'
  BY DEF WorkerTake, Shape, TypeOK, QueueTypeOK, SetTypeOK
<1>3. SlotsFilled'
  BY SlotsFrame DEF WorkerTake, Shape
<1>4. HookedPlaced' /\ MonitorOwner'
  BY DEF WorkerTake, Shape, TypeOK, SetTypeOK, QueueTypeOK, HookedPlaced, MonitorOwner,
           WorkerLocal, Pools
<1>5. WorkerLocal' /\ FlushLocal' /\ StopOrder'
  BY DEF WorkerTake, Shape, TypeOK, SetTypeOK, QueueTypeOK, WorkerLocal, FlushLocal,
           StopOrder, Pools
<1> QED BY <1>1, <1>2, <1>3, <1>4, <1>5 DEF Shape, TypeOK

\* Shape is kept by what the worker and the collector do with the sentinel, and by
\* the head of the worker's loop.
LEMMA ShapeQuiet ==
  ASSUME Shape,
         \/ CollectSentinel \/ WorkerLoop \/ WorkerTimeout \/ WorkerSentinel \/ WorkerWake
  PROVE  Shape'
<1>1. /\ UNCHANGED <<setVars, stopVars, regVars, object, workerRef, workerHook>>
      /\ sentinel' \in {"live", "queued"} /\ sentinels' \in Nat
      /\ \/ workerAt' = workerAt
         \/ {workerAt, workerAt'} \subseteq {"loop", "poll", "wake", "exit"}
  BY DEF CollectSentinel, WorkerLoop, WorkerTimeout, WorkerSentinel, WorkerWake, Shape, TypeOK,
         QueueTypeOK
<1>2. SetTypeOK'
  BY <1>1 DEF Shape, TypeOK, SetTypeOK, Pools
<1>3. QueueTypeOK'
  BY <1>1 DEF Shape, TypeOK, QueueTypeOK
<1>4. SlotsFilled'
  BY <1>1, SlotsFrame DEF Shape
<1>5. HookedPlaced' /\ MonitorOwner'
  BY <1>1 DEF Shape, HookedPlaced, MonitorOwner, Pools
<1>6. WorkerLocal' /\ FlushLocal' /\ StopOrder'
  BY <1>1 DEF Shape, WorkerLocal, FlushLocal, StopOrder, Pools
<1> QED BY <1>2, <1>3, <1>4, <1>5, <1>6 DEF Shape, TypeOK

\* Shape is kept by start().
LEMMA ShapeStart == ASSUME Shape, Start PROVE Shape'
<1>1. TypeOK'
  BY DEF Start, Shape, TypeOK, SetTypeOK, QueueTypeOK, Pools
<1>3. SlotsFilled'
  BY SlotsFrame DEF Start, Shape
<1>2. HookedPlaced' /\ MonitorOwner' /\ WorkerLocal' /\ FlushLocal' /\ StopOrder'
  BY DEF Start, Shape, HookedPlaced, MonitorOwner, WorkerLocal, FlushLocal, StopOrder, Pools
<1> QED BY <1>1, <1>2, <1>3 DEF Shape

\* Shape is kept by a removal that finds the reference gone.
LEMMA ShapeWorkerRemoveNothing == ASSUME Shape, WorkerRemoveNothing PROVE Shape'
<1>1. SetTypeOK'
  BY DEF WorkerRemoveNothing, RemoveNothing, Shape, TypeOK, SetTypeOK, FlushLocal, Pools,
           FlushPoints
<1>2. QueueTypeOK'
  BY DEF WorkerRemoveNothing, RemoveNothing, Shape, TypeOK, QueueTypeOK, SetTypeOK
<1>3. SlotsFilled'
  BY SlotsFrame DEF WorkerRemoveNothing, RemoveNothing, Shape
<1>4. HookedPlaced' /\ MonitorOwner'
  BY DEF WorkerRemoveNothing, RemoveNothing, Shape, TypeOK, SetTypeOK, QueueTypeOK,
           HookedPlaced, MonitorOwner, WorkerLocal, Pools
<1>5. WorkerLocal' /\ FlushLocal' /\ StopOrder'
  BY DEF WorkerRemoveNothing, RemoveNothing, Shape, TypeOK, SetTypeOK, QueueTypeOK,
           WorkerLocal, FlushLocal, StopOrder, Pools
<1> QED BY <1>1, <1>2, <1>3, <1>4, <1>5 DEF Shape, TypeOK

\* Shape is kept by a removal that has found its pool.
LEMMA ShapeWorkerRemoveOpen == ASSUME Shape, WorkerRemoveOpen PROVE Shape'
<1>1. SetTypeOK'
  BY DEF WorkerRemoveOpen, RemoveOpen, Shape, TypeOK, SetTypeOK, FlushLocal, Pools,
           FlushPoints
<1>2. QueueTypeOK'
  BY DEF WorkerRemoveOpen, RemoveOpen, Shape, TypeOK, QueueTypeOK, SetTypeOK
<1>3. SlotsFilled'
  BY SlotsFrame DEF WorkerRemoveOpen, RemoveOpen, Shape
<1>4. HookedPlaced' /\ MonitorOwner'
  BY DEF WorkerRemoveOpen, RemoveOpen, Shape, TypeOK, SetTypeOK, QueueTypeOK, HookedPlaced,
           MonitorOwner, WorkerLocal, Pools
<1>5. WorkerLocal' /\ FlushLocal' /\ StopOrder'
  BY DEF WorkerRemoveOpen, RemoveOpen, Shape, TypeOK, SetTypeOK, QueueTypeOK, WorkerLocal,
           FlushLocal, StopOrder, Pools
<1> QED BY <1>1, <1>2, <1>3, <1>4, <1>5 DEF Shape, TypeOK

\* Shape is kept by the worker running the hook.
LEMMA ShapeWorkerRelease == ASSUME Shape, WorkerRelease PROVE Shape'
<1>1. SetTypeOK'
  BY DEF WorkerRelease, Shape, TypeOK, SetTypeOK, FlushLocal, Pools, FlushPoints
<1>2. QueueTypeOK'
  BY DEF WorkerRelease, Shape, TypeOK, QueueTypeOK, SetTypeOK
<1>3. SlotsFilled'
  BY SlotsFrame DEF WorkerRelease, Shape
<1>4. HookedPlaced' /\ MonitorOwner'
  BY DEF WorkerRelease, Shape, TypeOK, SetTypeOK, QueueTypeOK, HookedPlaced, MonitorOwner,
           WorkerLocal, Pools
<1>5. WorkerLocal' /\ FlushLocal' /\ StopOrder'
  BY DEF WorkerRelease, Shape, TypeOK, SetTypeOK, QueueTypeOK, WorkerLocal, FlushLocal,
           StopOrder, Pools
<1> QED BY <1>1, <1>2, <1>3, <1>4, <1>5 DEF Shape, TypeOK

\* Shape is kept by the end of the worker.
LEMMA ShapeWorkerExit == ASSUME Shape, WorkerExit PROVE Shape'
<1>1. TypeOK'
  BY DEF WorkerExit, Shape, TypeOK, SetTypeOK, QueueTypeOK, Pools
<1>2. SlotsFilled' /\ HookedPlaced' /\ MonitorOwner' /\ FlushLocal'
  BY DEF WorkerExit, Shape, SlotsFilled, HookedPlaced, MonitorOwner, FlushLocal, Pools
<1>3. WorkerLocal' /\ StopOrder'
  BY DEF WorkerExit, Shape, TypeOK, QueueTypeOK, WorkerLocal, StopOrder
<1> QED BY <1>1, <1>2, <1>3 DEF Shape

\* Shape is kept by stop() asking the worker to end.
LEMMA ShapeStopSignal == ASSUME Shape, StopSignal PROVE Shape'
<1>1. SetTypeOK'
  BY DEF StopSignal, Shape, TypeOK, SetTypeOK, FlushLocal, Pools, FlushPoints
<1>2. QueueTypeOK'
  BY DEF StopSignal, Shape, TypeOK, QueueTypeOK, SetTypeOK
<1>3. SlotsFilled'
  BY SlotsFrame DEF StopSignal, Shape
<1>4. HookedPlaced' /\ MonitorOwner'
  BY DEF StopSignal, Shape, TypeOK, SetTypeOK, QueueTypeOK, HookedPlaced, MonitorOwner,
           WorkerLocal, Pools
<1>5. WorkerLocal' /\ FlushLocal' /\ StopOrder'
  BY DEF StopSignal, Shape, TypeOK, SetTypeOK, QueueTypeOK, WorkerLocal, FlushLocal,
           StopOrder, Pools
<1> QED BY <1>1, <1>2, <1>3, <1>4, <1>5 DEF Shape, TypeOK

\* Shape is kept by the end of the wait of stop().
LEMMA ShapeStopFlush == ASSUME Shape, StopFlush PROVE Shape'
<1>1. SetTypeOK'
  BY DEF StopFlush, FlushBegin, Shape, TypeOK, SetTypeOK, FlushLocal, Pools, FlushPoints
<1>2. QueueTypeOK'
  BY DEF StopFlush, FlushBegin, Shape, TypeOK, QueueTypeOK, SetTypeOK
<1>3. SlotsFilled'
  BY SlotsFrame DEF StopFlush, FlushBegin, Shape
<1>4. HookedPlaced' /\ MonitorOwner'
  BY DEF StopFlush, FlushBegin, Shape, TypeOK, SetTypeOK, QueueTypeOK, HookedPlaced,
           MonitorOwner, WorkerLocal, Pools
<1>5. WorkerLocal' /\ FlushLocal' /\ StopOrder'
  BY DEF StopFlush, FlushBegin, Shape, TypeOK, SetTypeOK, QueueTypeOK, WorkerLocal,
           FlushLocal, StopOrder, Pools
<1> QED BY <1>1, <1>2, <1>3, <1>4, <1>5 DEF Shape, TypeOK

\* Shape is kept by the return of stop().
LEMMA ShapeStopReturn == ASSUME Shape, StopReturn PROVE Shape'
<1>1. SetTypeOK'
  BY DEF StopReturn, Shape, TypeOK, SetTypeOK, FlushLocal, Pools, FlushPoints
<1>2. QueueTypeOK'
  BY DEF StopReturn, Shape, TypeOK, QueueTypeOK, SetTypeOK
<1>3. SlotsFilled'
  BY SlotsFrame DEF StopReturn, Shape
<1>4. HookedPlaced' /\ MonitorOwner'
  BY DEF StopReturn, Shape, TypeOK, SetTypeOK, QueueTypeOK, HookedPlaced, MonitorOwner,
           WorkerLocal, Pools
<1>5. WorkerLocal' /\ FlushLocal' /\ StopOrder'
  BY DEF StopReturn, Shape, TypeOK, SetTypeOK, QueueTypeOK, WorkerLocal, FlushLocal,
           StopOrder, Pools
<1> QED BY <1>1, <1>2, <1>3, <1>4, <1>5 DEF Shape, TypeOK

\* Shape is kept by flush() moving to a pool.
LEMMA ShapeFlushPool ==
  ASSUME Shape, FlushPool, UNCHANGED <<regVars, stopVars, javaVars, workerVars>>
  PROVE  Shape'
<1>1. SetTypeOK'
  BY DEF FlushPool, Shape, TypeOK, SetTypeOK, FlushLocal, Pools, FlushPoints
<1>2. QueueTypeOK'
  BY DEF FlushPool, Shape, TypeOK, QueueTypeOK, SetTypeOK
<1>3. SlotsFilled'
  BY SlotsFrame DEF FlushPool, Shape
<1>4. HookedPlaced' /\ MonitorOwner'
  BY DEF FlushPool, Shape, TypeOK, SetTypeOK, QueueTypeOK, HookedPlaced, MonitorOwner,
           WorkerLocal, Pools
<1>5. WorkerLocal' /\ FlushLocal' /\ StopOrder'
  BY DEF FlushPool, Shape, TypeOK, SetTypeOK, QueueTypeOK, WorkerLocal, FlushLocal,
           StopOrder, Pools
<1> QED BY <1>1, <1>2, <1>3, <1>4, <1>5 DEF Shape, TypeOK

\* Shape is kept by flush() reaching the last slot of a pool.
LEMMA ShapeFlushSlotsDone ==
  ASSUME Shape, FlushSlotsDone, UNCHANGED <<regVars, stopVars, javaVars, workerVars>>
  PROVE  Shape'
<1>1. SetTypeOK'
  BY DEF FlushSlotsDone, Shape, TypeOK, SetTypeOK, FlushLocal, Pools, FlushPoints
<1>2. QueueTypeOK'
  BY DEF FlushSlotsDone, Shape, TypeOK, QueueTypeOK, SetTypeOK
<1>3. SlotsFilled'
  BY SlotsFrame DEF FlushSlotsDone, Shape
<1>4. HookedPlaced' /\ MonitorOwner'
  BY DEF FlushSlotsDone, Shape, TypeOK, SetTypeOK, QueueTypeOK, HookedPlaced, MonitorOwner,
           WorkerLocal, Pools
<1>5. WorkerLocal' /\ FlushLocal' /\ StopOrder'
  BY DEF FlushSlotsDone, Shape, TypeOK, SetTypeOK, QueueTypeOK, WorkerLocal, FlushLocal,
           StopOrder, Pools
<1> QED BY <1>1, <1>2, <1>3, <1>4, <1>5 DEF Shape, TypeOK

\* Shape is kept by flush() emptying a pool.
LEMMA ShapeFlushClear ==
  ASSUME Shape, FlushClear, UNCHANGED <<regVars, stopVars, javaVars, workerVars>>
  PROVE  Shape'
<1>1. SetTypeOK'
  BY DEF FlushClear, Shape, TypeOK, SetTypeOK, FlushLocal, Pools, FlushPoints
<1>2. QueueTypeOK'
  BY DEF FlushClear, Shape, TypeOK, QueueTypeOK, SetTypeOK
<1>3. SlotsFilled'
  BY DEF FlushClear, Shape, TypeOK, SetTypeOK, SlotsFilled, FlushLocal, Pools
<1>4. HookedPlaced' /\ MonitorOwner'
  BY DEF FlushClear, Shape, TypeOK, SetTypeOK, QueueTypeOK, HookedPlaced, MonitorOwner,
           WorkerLocal, Pools
<1>5. WorkerLocal' /\ FlushLocal' /\ StopOrder'
  BY DEF FlushClear, Shape, TypeOK, SetTypeOK, QueueTypeOK, WorkerLocal, FlushLocal,
           StopOrder, Pools
<1> QED BY <1>1, <1>2, <1>3, <1>4, <1>5 DEF Shape, TypeOK

\* Shape is kept by flush() collecting a slot.
LEMMA ShapeFlushSlot ==
  ASSUME Shape, FlushSlot, UNCHANGED <<regVars, stopVars, javaVars, workerVars>>
  PROVE Shape'
<1>1. /\ flushAt = "slot" /\ UNCHANGED <<structure, cleanup, monitorVars, flushPool, flushSize, reg>>
      /\ flushPool \in Pools /\ flushSlot \in 0 .. tail[flushPool] - 1
  BY DEF FlushSlot, Shape, TypeOK, SetTypeOK, FlushLocal, Pools
<1>2. entries[flushPool][flushSlot] = Null \/ Filled(flushPool, flushSlot)
  <2>1. flushSlot \in Slots
    BY <1>1 DEF Shape, SlotsFilled, Slots, TypeOK, SetTypeOK
  <2> QED BY <1>1, <2>1 DEF Shape, SlotsFilled
<1>3. /\ flushAt' \in {"failed", "slot", "release"} /\ flushSlot' \in Nat
      /\ flushAt' = "release" => flushRef' \in Ref /\ Stored(flushRef')
      /\ flushRef' \in Ref \cup {Null}
  BY <1>1, <1>2 DEF FlushSlot, Shape, TypeOK, SetTypeOK, FlushLocal
<1>4. TypeOK'
  <2>1. SetTypeOK'
    BY <1>1, <1>3 DEF Shape, TypeOK, SetTypeOK, Pools, FlushPoints
  <2>2. QueueTypeOK'
    BY DEF Shape, TypeOK, QueueTypeOK
  <2> QED BY <2>1, <2>2 DEF TypeOK
<1>5. SlotsFilled'
  BY <1>1, SlotsFrame DEF Shape
<1>6. HookedPlaced' /\ MonitorOwner' /\ WorkerLocal' /\ StopOrder'
  BY <1>1, <1>3 DEF Shape, HookedPlaced, MonitorOwner, WorkerLocal, StopOrder, Pools
<1>7. FlushLocal'
  BY <1>1, <1>3 DEF Shape, FlushLocal, Pools
<1> QED BY <1>4, <1>5, <1>6, <1>7 DEF Shape

\* Shape is kept by flush() running a hook.
LEMMA ShapeFlushRelease ==
  ASSUME Shape, FlushRelease, Drop(flushRef), UNCHANGED <<reg, stopVars, javaVars, workerVars>>
  PROVE  Shape'
<1>1. SetTypeOK'
  BY DEF FlushRelease, Shape, TypeOK, SetTypeOK, FlushLocal, Pools, FlushPoints
<1>2. QueueTypeOK'
  <2>1. flushRef \in Ref /\ pyrefs \in [Ref -> Int]
    BY DEF FlushRelease, Shape, FlushLocal, TypeOK, QueueTypeOK
  <2>2. pyrefs' \in [Ref -> Int]
    BY <2>1
  <2> QED BY <2>2 DEF Shape, TypeOK, QueueTypeOK
<1>3. SlotsFilled'
  <2>1. UNCHANGED <<structure, monitorVars, reg>>
    BY DEF FlushRelease
  <2> QED BY <2>1, SlotsFrame DEF Shape
<1>4. HookedPlaced' /\ MonitorOwner'
  BY DEF FlushRelease, Shape, TypeOK, SetTypeOK, QueueTypeOK, HookedPlaced, MonitorOwner,
           WorkerLocal, Pools
<1>5. WorkerLocal' /\ FlushLocal' /\ StopOrder'
  BY DEF FlushRelease, Shape, TypeOK, SetTypeOK, QueueTypeOK, WorkerLocal, FlushLocal,
           StopOrder, Pools
<1> QED BY <1>1, <1>2, <1>3, <1>4, <1>5 DEF Shape, TypeOK

\* Shape is inductive.
LEMMA ShapeNext == Shape /\ [Next]_vars => Shape'
<1> SUFFICES ASSUME Shape, [Next]_vars PROVE Shape'
  OBVIOUS
<1>1. CASE UNCHANGED vars
  BY <1>1 DEF vars, Shape, TypeOK, SetTypeOK, QueueTypeOK, SlotsFilled, HookedPlaced,
         MonitorOwner, WorkerLocal, FlushLocal, StopOrder, Pools
<1>2. CASE Registering
  BY <1>2, ShapeRegister, ShapeRegisterDirect, ShapeRegisterOpen, ShapeRegisterGrow,
     ShapeRegisterStore, ShapeRegisterReturn, ShapeRegisterFails DEF Registering
<1>3. CASE Collecting
  BY <1>3, ShapeCollect, ShapeQuiet DEF Collecting
<1>4. CASE Start
  BY <1>4, ShapeStart
<1>5. CASE Working
  BY <1>5, ShapeQuiet, ShapeWorkerTake, ShapeWorkerRemoveNothing, ShapeWorkerRemoveOpen, ShapeWorkerUnlink,
     ShapeWorkerUnlinkFails, ShapeWorkerRelease, ShapeWorkerExit DEF Working
<1>6. CASE StopStep
  BY <1>6, ShapeFlushPool, ShapeFlushSlot, ShapeFlushSlotsDone, ShapeFlushClear,
     ShapeFlushRelease DEF StopStep
<1>7. CASE Stopping
  BY <1>6, <1>7, ShapeStopSignal, ShapeStopFlush, ShapeStopReturn DEF Stopping
<1> QED BY <1>1, <1>2, <1>3, <1>4, <1>5, <1>7 DEF Next

\* Every reachable state is well typed: registerRef, the worker and flush()
\* never index a pool, a slot or a reference that does not exist, even when
\* flush() runs against the others.
THEOREM TypeCorrect == Spec => []TypeOK
<1>1. Init => Shape
  BY ShapeInit
<1>2. Shape /\ [Next]_vars => Shape'
  BY ShapeNext
<1>3. Shape => TypeOK
  BY DEF Shape
<1> QED BY <1>1, <1>2, <1>3, PTL DEF Spec

-------------------------------------------------------------------------------
\* Orderly is preserved by every step, given Shape.  The steps that fail in an
\* untimely flush() are impossible.

\* Orderly is kept by the start of a registration.
LEMMA OrderlyRegister ==
  ASSUME Shape, Orderly, NEW r \in Ref, Register(r)
  PROVE  Orderly'
<1>1. /\ \A x \in Ref : reg'[x] = IF x = r THEN (IF isStopped THEN "direct" ELSE "open") ELSE reg[x]
      /\ \A x \in Ref : x # r => cleanup'[x] = cleanup[x]
      /\ UNCHANGED <<structure, flushVars, stopVars>>
      /\ reg[r] = "none"
  BY DEF Register, Construct, Shape, TypeOK, SetTypeOK, QueueTypeOK
<1>2. Coherent'
  <2>1. Pools' = Pools /\ \A x \in Ref : InSlot(x)' <=> InSlot(x)
    BY <1>1 DEF Pools, InSlot
  <2>2. \A x \in Ref : /\ Stored(x)' <=> Stored(x)
                       /\ reg'[x] = "adding" <=> reg[x] = "adding"
                       /\ Stored(x) => cleanup'[x] = cleanup[x]
    BY <1>1
  <2>3. UNCHANGED <<monitor, slot>>
    BY DEF Register, Construct
  <2>4. \A p \in Pools : \A i \in 0 .. tail[p] - 1 : ~Open(p, i) => Filled(p, i)
    BY DEF Shape, SlotsFilled
  <2> QED BY <1>1, <2>1, <2>2, <2>3, <2>4 DEF Orderly, Coherent
<1>3. flushAt # "idle" => isStopped
  BY DEF Shape, StopOrder
<1>4. FlushCovers'
  BY <1>1, <1>3 DEF Orderly, FlushCovers, Unvisited, InSlot, Pools
<1>5. WorkerGone'
  BY DEF Register, Construct, Shape, Orderly, TypeOK, WorkerGone, QueueTypeOK,
         StopOrder
<1>6. TailsNatural'
  BY DEF Register, Construct, Shape, Orderly, TypeOK, TailsNatural, SetTypeOK,
         Pools, MonitorOwner, Slots, FlushLocal
<1>7. CountKept'
  BY DEF Register, Construct, Shape, Orderly, TypeOK, CountKept, SetTypeOK,
         QueueTypeOK, Releasing, HookTaken, WorkerLocal, StopOrder, WorkerGone,
         FlushLocal, MonitorOwner
<1>8. HookTaken'
  BY DEF Register, Construct, Shape, Orderly, TypeOK, HookTaken, SetTypeOK,
         QueueTypeOK, CountKept, WorkerLocal, StopOrder, WorkerGone, SlotsFilled,
         FlushLocal
<1> QED BY <1>2, <1>4, <1>5, <1>6, <1>7, <1>8 DEF Orderly

\* Orderly is kept by a registration after stop().
LEMMA OrderlyRegisterDirect ==
  ASSUME Shape, Orderly, NEW r \in Ref, RegisterDirect(r)
  PROVE  Orderly'
<1>1. WorkerGone' /\ TailsNatural'
  BY DEF RegisterDirect, Shape, TypeOK, SetTypeOK, QueueTypeOK, StopOrder, WorkerLocal,
           FlushLocal, MonitorOwner, Orderly, WorkerGone, TailsNatural, Pools
<1>2. Coherent'
  BY DEF RegisterDirect, Shape, TypeOK, SetTypeOK, QueueTypeOK, StopOrder, WorkerLocal,
           FlushLocal, MonitorOwner, Orderly, WorkerGone, Coherent, CountKept, InSlot, Pools
<1>3. CountKept' /\ HookTaken'
  BY DEF RegisterDirect, Shape, TypeOK, SetTypeOK, QueueTypeOK, StopOrder, WorkerLocal,
           FlushLocal, MonitorOwner, Orderly, WorkerGone, CountKept, HookTaken, Releasing
<1>4. FlushCovers'
  BY DEF RegisterDirect, Shape, TypeOK, SetTypeOK, QueueTypeOK, StopOrder, WorkerLocal,
           FlushLocal, MonitorOwner, Orderly, WorkerGone, HookTaken, FlushCovers, Unvisited,
           InSlot, Pools
<1> QED BY <1>1, <1>2, <1>3, <1>4 DEF Orderly

\* add() may append an empty pool.
LEMMA OrderlyRegisterOpen ==
  ASSUME Shape, Orderly, NEW r \in Ref, RegisterOpen(r)
  PROVE  Orderly'
<1>1. WorkerGone'
  BY DEF RegisterOpen, AddOpen, Shape, Orderly, TypeOK, WorkerGone, QueueTypeOK,
         StopOrder
<1>2. TailsNatural'
  BY DEF RegisterOpen, AddOpen, Shape, Orderly, TypeOK, TailsNatural, SetTypeOK,
         Pools, MonitorOwner, Slots, FlushLocal
<1>3. Coherent'
  <2> SUFFICES ASSUME flushAt = "idle"
               PROVE  Coherent'
    BY DEF Coherent, RegisterOpen, AddOpen
  <2>1. /\ reg[r] = "open" /\ monitor = "free" /\ monitor' = "read"
        /\ \A x \in Ref : reg'[x] = IF x = r THEN "adding" ELSE reg[x]
        /\ \A x \in Ref : pool'[x] = IF x = r THEN current' ELSE pool[x]
        /\ \A x \in Ref : index'[x] = IF x = r THEN tail'[current'] ELSE index[x]
        /\ UNCHANGED <<cleanup, flushAt>>
    BY DEF RegisterOpen, AddOpen, Shape, TypeOK, SetTypeOK, QueueTypeOK
  <2>2. \A x \in Ref : reg[x] # "adding"
    BY <2>1 DEF Shape, MonitorOwner
  <2>3. \A p \in Pools : entries'[p] = entries[p] /\ tail'[p] = tail[p]
    BY DEF RegisterOpen, AddOpen, Shape, TypeOK, SetTypeOK, Pools
  <2>4. Pools \subseteq Pools' /\ \A p \in Pools' : p \notin Pools => tail'[p] = 0
    BY DEF RegisterOpen, AddOpen, Shape, TypeOK, SetTypeOK, Pools
  <2>5. ASSUME NEW p \in Pools', NEW i \in 0 .. tail'[p] - 1
        PROVE  /\ cleanup'[entries'[p][i]] = 1
               /\ pool'[entries'[p][i]] = p
               /\ index'[entries'[p][i]] = i
    <3>1. p \in Pools /\ i \in 0 .. tail[p] - 1 /\ entries'[p][i] = entries[p][i]
      BY <2>3, <2>4
    <3>2. entries[p][i] \in Ref /\ entries[p][i] # r
      BY <2>1, <3>1 DEF Shape, SlotsFilled
    <3> QED BY <2>1, <3>1, <3>2 DEF Orderly, Coherent
  <2>6. ASSUME NEW x \in Ref, Stored(x)', cleanup'[x] = 1
        PROVE  InSlot(x)'
    <3>1. x # r /\ InSlot(x)
      BY <2>1, <2>6 DEF Orderly, Coherent
    <3> QED BY <2>1, <2>3, <2>4, <3>1 DEF InSlot
  <2> QED BY <2>1, <2>2, <2>5, <2>6 DEF Coherent
<1>4. CountKept'
  BY DEF RegisterOpen, AddOpen, Shape, Orderly, TypeOK, CountKept, SetTypeOK,
         QueueTypeOK, Releasing, HookTaken, WorkerLocal, StopOrder, WorkerGone,
         FlushLocal, MonitorOwner
<1>5. HookTaken'
  BY DEF RegisterOpen, AddOpen, Shape, Orderly, TypeOK, HookTaken, SetTypeOK,
         QueueTypeOK, CountKept, WorkerLocal, StopOrder, WorkerGone, SlotsFilled,
         FlushLocal
<1>6. FlushCovers'
  BY DEF RegisterOpen, AddOpen, Orderly, FlushCovers
<1> QED BY <1>1, <1>2, <1>3, <1>4, <1>5, <1>6 DEF Orderly

\* Nothing comes between the two halves of tail++ before flush().
LEMMA OrderlyRegisterGrow ==
  ASSUME Shape, Orderly, NEW r \in Ref, RegisterGrow(r)
  PROVE  Orderly'
<1>1. /\ reg[r] = "adding" /\ current \in Pools /\ monitor \in {"read", "grow"}
      /\ \A x \in Ref : reg[x] = "adding" => x = r
      /\ \A p \in Pools : tail[p] \in Int /\ tail[p] >= 0
      /\ UNCHANGED <<npools, entries, current, cleanup, pool, index, flushVars>>
      /\ UNCHANGED <<regVars, stopVars, javaVars, workerVars>>
  BY DEF RegisterGrow, AddRead, AddGrow, Shape, TypeOK, SetTypeOK, MonitorOwner, Orderly, TailsNatural
<1>2. WorkerGone' /\ HookTaken' /\ CountKept' /\ FlushCovers'
  BY <1>1 DEF Orderly, WorkerGone, HookTaken, CountKept, Releasing, FlushCovers
<1>3. \/ /\ monitor = "read" /\ monitor' = "grow" /\ tail' = tail /\ slot' = tail[current]
      \/ /\ monitor = "grow" /\ monitor' = "store" /\ slot' = slot
         /\ \A p \in Pools : tail'[p] = IF p = current THEN slot + 1 ELSE tail[p]
  BY DEF RegisterGrow, AddRead, AddGrow, Shape, TypeOK, SetTypeOK
<1>4. TailsNatural'
  <2>1. Pools' = Pools /\ slot \in Int /\ (monitor = "grow" => slot >= 0)
    BY <1>1 DEF Orderly, TailsNatural, Pools, Shape, TypeOK, SetTypeOK
  <2> QED BY <1>1, <1>3, <2>1 DEF TailsNatural
<1>5. Coherent'
  <2> SUFFICES ASSUME flushAt = "idle"
               PROVE  Coherent'
    BY <1>1 DEF Coherent
  <2>1. /\ Pools' = Pools /\ slot \in Int
        /\ pool[r] = current /\ index[r] = IF monitor = "read" THEN tail[current] ELSE slot
        /\ monitor = "grow" => tail[current] = slot
    BY <1>1 DEF Pools, Orderly, Coherent, Shape, TypeOK, SetTypeOK
  <2>2. ASSUME NEW p \in Pools, NEW i \in 0 .. tail'[p] - 1, ~Open(p, i)'
        PROVE  /\ cleanup[entries[p][i]] = 1
               /\ pool[entries[p][i]] = p
               /\ index[entries[p][i]] = i
    <3>1. i \in 0 .. tail[p] - 1
      BY <1>1, <1>3, <2>1, <2>2
    <3> QED BY <1>1, <3>1 DEF Orderly, Coherent
  <2>3. ASSUME NEW x \in Ref, Stored(x), cleanup[x] = 1
        PROVE  InSlot(x)' /\ ~Open(pool[x], index[x])'
    <3>1. pool[x] \in Pools /\ index[x] \in 0 .. tail[pool[x]] - 1 /\ entries[pool[x]][index[x]] = x
      BY <2>3 DEF Orderly, Coherent, InSlot
    <3> QED BY <1>1, <1>3, <2>1, <3>1 DEF InSlot
  <2> QED BY <1>1, <1>3, <2>1, <2>2, <2>3 DEF Coherent
<1> QED BY <1>2, <1>4, <1>5 DEF Orderly

\* The stored reference and its slot point at each other.
LEMMA OrderlyRegisterStore ==
  ASSUME Shape, Orderly, NEW r \in Ref, RegisterStore(r)
  PROVE  Orderly'
<1>1. /\ monitor = "store" /\ monitor' = "full" /\ current \in Pools /\ slot \in Slots
      /\ \A q \in Pools, j \in Slots :
           entries'[q][j] = IF q = current /\ j = slot THEN r ELSE entries[q][j]
      /\ \A x \in Ref : reg'[x] = IF x = r THEN "stored" ELSE reg[x]
      /\ reg[r] = "adding" /\ \A x \in Ref : reg[x] = "adding" => x = r
      /\ UNCHANGED <<npools, tail, current, cleanup, pool, index, flushVars>>
      /\ UNCHANGED <<pyrefs, stopVars, javaVars, workerVars>>
  BY DEF RegisterStore, AddStore, Shape, TypeOK, SetTypeOK, QueueTypeOK, MonitorOwner
<1>2. WorkerGone' /\ TailsNatural' /\ FlushCovers'
  BY <1>1 DEF Orderly, WorkerGone, TailsNatural, FlushCovers, Pools
<1>3. CountKept'
  BY <1>1 DEF Orderly, CountKept, Releasing, Shape, WorkerLocal
<1>4. HookTaken'
  BY <1>1 DEF Orderly, HookTaken
<1>5. Coherent'
  <2> SUFFICES ASSUME flushAt = "idle"
               PROVE  Coherent'
    BY <1>1 DEF Coherent
  <2>1. /\ Pools' = Pools /\ cleanup[r] = 1 /\ pool[r] = current /\ index[r] = slot
        /\ tail[current] = slot + 1
        /\ \A q \in Pools : tail[q] \in Int /\ tail[q] <= SIZE
    BY <1>1 DEF Pools, Orderly, CountKept, Coherent, Shape, TypeOK, SetTypeOK, SlotsFilled
  <2>2. ASSUME NEW q \in Pools, NEW j \in 0 .. tail[q] - 1
        PROVE  /\ cleanup[entries'[q][j]] = 1
               /\ pool[entries'[q][j]] = q
               /\ index[entries'[q][j]] = j
    <3>1. j \in Slots
      BY <2>1 DEF Slots
    <3>2. CASE q = current /\ j = slot
      BY <1>1, <2>1, <3>1, <3>2
    <3>3. CASE ~(q = current /\ j = slot)
      BY <1>1, <3>1, <3>3 DEF Orderly, Coherent
    <3> QED BY <3>2, <3>3
  <2>3. ASSUME NEW x \in Ref, Stored(x)', cleanup[x] = 1
        PROVE  InSlot(x)'
    <3>1. CASE x = r
      BY <1>1, <2>1, <3>1 DEF InSlot, Slots
    <3>2. CASE x # r
      <4>1. InSlot(x) /\ ~(pool[x] = current /\ index[x] = slot)
        BY <1>1, <2>3, <3>2 DEF Orderly, Coherent
      <4>2. pool[x] \in Pools /\ index[x] \in Slots
        BY <2>1, <4>1 DEF InSlot, Slots
      <4> QED BY <1>1, <2>1, <4>1, <4>2 DEF InSlot
    <3> QED BY <3>1, <3>2
  <2> QED BY <1>1, <2>1, <2>2, <2>3 DEF Coherent
<1> QED BY <1>2, <1>3, <1>4, <1>5 DEF Orderly

\* The end of add() only chooses the next current pool.
LEMMA OrderlyRegisterReturn ==
  ASSUME Shape, Orderly, NEW r \in Ref, RegisterReturn(r)
  PROVE  Orderly'
<1>1. /\ monitor \in {"full", "search"} /\ monitor' \in {"free", "search"} /\ reg[r] = "stored"
      /\ reg' = [reg EXCEPT ![r] = IF monitor' = "free" THEN "added" ELSE "stored"]
      /\ UNCHANGED <<npools, entries, tail, cleanup, pool, index, slot, flushVars>>
      /\ UNCHANGED <<pyrefs, stopVars, javaVars, workerVars>>
  BY DEF RegisterReturn, AddFull, AddSearch
<1>2. /\ \A x \in Ref : Stored(x)' <=> Stored(x)
      /\ \A x \in Ref : x # r => reg'[x] = reg[x]
      /\ reg'[r] \in {"stored", "added"}
  BY <1>1 DEF Shape, TypeOK, QueueTypeOK
<1>3. \A x \in Ref : reg[x] # "adding"
  BY <1>1 DEF Shape, MonitorOwner
<1>4. WorkerGone' /\ TailsNatural' /\ HookTaken'
  BY <1>1 DEF Orderly, WorkerGone, TailsNatural, HookTaken, Pools
<1>5. CountKept'
  BY <1>1, <1>2 DEF Orderly, CountKept, Releasing
<1>6. Pools' = Pools /\ \A x \in Ref : InSlot(x)' <=> InSlot(x)
  BY <1>1 DEF InSlot, Pools
<1>7. Coherent'
  BY <1>1, <1>2, <1>3, <1>6 DEF Orderly, Coherent
<1>8. FlushCovers'
  BY <1>1, <1>2, <1>6 DEF Orderly, FlushCovers, Unvisited
<1> QED BY <1>4, <1>5, <1>7, <1>8 DEF Orderly

\* When Orderly holds, no registration fails.
LEMMA OrderlyRegisterFails == ASSUME Shape, Orderly, NEW r \in Ref, RegisterFails(r) PROVE FALSE
<1>1. monitor = "store" /\ slot \in Int /\ slot < SIZE /\ slot >= 0
  BY DEF RegisterFails, AddStoreFails, Shape, TypeOK, SetTypeOK, SlotsFilled, Orderly, TailsNatural
<1> QED BY <1>1 DEF RegisterFails, AddStoreFails, Slots

\* Orderly is kept by the collector taking an object.
LEMMA OrderlyCollect ==
  ASSUME Shape, Orderly, NEW r \in Ref, Collect(r)
  PROVE  Orderly'
<1>1. /\ UNCHANGED <<setVars, stopVars, regVars, workerVars>>
      /\ \A x \in Ref : object'[x] = "taken" => object[x] = "taken"
      /\ object[r] = "live" /\ \A x \in Ref : x # r => object'[x] = object[x]
  BY DEF Collect, Shape, TypeOK, QueueTypeOK
<1>2. CountKept'
  BY <1>1 DEF Orderly, CountKept, Releasing
<1>3. WorkerGone' /\ TailsNatural' /\ HookTaken'
  BY <1>1 DEF Orderly, WorkerGone, TailsNatural, HookTaken, Pools
<1>4. Coherent' /\ FlushCovers'
  BY <1>1 DEF Orderly, Coherent, FlushCovers, Unvisited, InSlot, Pools
<1> QED BY <1>2, <1>3, <1>4 DEF Orderly

\* Orderly is kept by the worker taking a reference from its queue.
LEMMA OrderlyWorkerTake ==
  ASSUME Shape, Orderly, NEW r \in Ref, WorkerTake(r)
  PROVE  Orderly'
<1>1. WorkerGone'
  BY DEF WorkerTake, Shape, Orderly, TypeOK, WorkerGone, QueueTypeOK, StopOrder
<1>2. TailsNatural'
  BY DEF WorkerTake, Shape, Orderly, TypeOK, TailsNatural, SetTypeOK, Pools,
         MonitorOwner, Slots, FlushLocal
<1>3. Coherent'
  BY DEF WorkerTake, Shape, Orderly, TypeOK, Coherent, SetTypeOK, QueueTypeOK,
         Pools, Slots, SlotsFilled, HookedPlaced, MonitorOwner, WorkerLocal,
         StopOrder, InSlot, WorkerGone, CountKept
<1>4. CountKept'
  BY DEF WorkerTake, Shape, Orderly, TypeOK, CountKept, SetTypeOK, QueueTypeOK,
         Releasing, HookTaken, WorkerLocal, StopOrder, WorkerGone, FlushLocal,
         MonitorOwner
<1>5. HookTaken'
  BY DEF WorkerTake, Shape, Orderly, TypeOK, HookTaken, SetTypeOK, QueueTypeOK,
         CountKept, WorkerLocal, StopOrder, WorkerGone, SlotsFilled, FlushLocal
<1>6. FlushCovers'
  BY DEF WorkerTake, Shape, Orderly, TypeOK, FlushCovers, SetTypeOK, QueueTypeOK,
         Unvisited, InSlot, Pools, StopOrder, WorkerGone, SlotsFilled, FlushLocal,
         HookTaken
<1> QED BY <1>1, <1>2, <1>3, <1>4, <1>5, <1>6 DEF Orderly

\* Orderly is kept by the steps of ShapeQuiet.
LEMMA OrderlyQuiet ==
  ASSUME Shape, Orderly,
         \/ CollectSentinel \/ WorkerLoop \/ WorkerTimeout \/ WorkerSentinel \/ WorkerWake
  PROVE  Orderly'
<1>1. /\ UNCHANGED <<setVars, stopVars, regVars, object, workerRef, workerHook>>
      /\ sentinel' \in {"live", "queued"} /\ sentinels' \in Nat
      /\ \/ workerAt' = workerAt
         \/ {workerAt, workerAt'} \subseteq {"loop", "poll", "wake", "exit"}
  BY DEF CollectSentinel, WorkerLoop, WorkerTimeout, WorkerSentinel, WorkerWake, Shape, TypeOK,
         QueueTypeOK
<1>2. WorkerGone' /\ TailsNatural'
  BY <1>1 DEF Orderly, WorkerGone, TailsNatural, Pools
<1>3. CountKept' /\ HookTaken'
  BY <1>1 DEF Orderly, CountKept, HookTaken, Releasing
<1>4. Coherent'
  BY <1>1 DEF Orderly, Coherent, InSlot, Pools
<1>5. FlushCovers'
  BY <1>1 DEF Orderly, FlushCovers, Unvisited, InSlot, Pools
<1> QED BY <1>2, <1>3, <1>4, <1>5 DEF Orderly

\* Orderly is kept by start().
LEMMA OrderlyStart ==
  ASSUME Shape, Orderly, Start
  PROVE  Orderly'
<1>1. WorkerGone' /\ TailsNatural'
  BY DEF Start, Shape, TypeOK, SetTypeOK, QueueTypeOK, StopOrder, WorkerLocal, FlushLocal,
           MonitorOwner, Orderly, WorkerGone, TailsNatural, Pools
<1>2. Coherent'
  BY DEF Start, Shape, TypeOK, SetTypeOK, QueueTypeOK, StopOrder, WorkerLocal, FlushLocal,
           MonitorOwner, Orderly, WorkerGone, Coherent, CountKept, InSlot, Pools
<1>3. CountKept' /\ HookTaken'
  BY DEF Start, Shape, TypeOK, SetTypeOK, QueueTypeOK, StopOrder, WorkerLocal, FlushLocal,
           MonitorOwner, Orderly, WorkerGone, CountKept, HookTaken, Releasing
<1>4. FlushCovers'
  BY DEF Start, Shape, TypeOK, SetTypeOK, QueueTypeOK, StopOrder, WorkerLocal, FlushLocal,
           MonitorOwner, Orderly, WorkerGone, HookTaken, FlushCovers, Unvisited, InSlot,
           Pools
<1> QED BY <1>1, <1>2, <1>3, <1>4 DEF Orderly

\* Orderly is kept by a removal that finds the reference gone.
LEMMA OrderlyWorkerRemoveNothing ==
  ASSUME Shape, Orderly, WorkerRemoveNothing
  PROVE  Orderly'
<1>1. WorkerGone' /\ TailsNatural'
  BY DEF WorkerRemoveNothing, RemoveNothing, Shape, TypeOK, SetTypeOK, QueueTypeOK,
           StopOrder, WorkerLocal, FlushLocal, MonitorOwner, Orderly, WorkerGone,
           TailsNatural, Pools
<1>2. Coherent'
  BY DEF WorkerRemoveNothing, RemoveNothing, Shape, TypeOK, SetTypeOK, QueueTypeOK,
           StopOrder, WorkerLocal, FlushLocal, MonitorOwner, Orderly, WorkerGone, Coherent,
           CountKept, InSlot, Pools
<1>3. CountKept' /\ HookTaken'
  BY DEF WorkerRemoveNothing, RemoveNothing, Shape, TypeOK, SetTypeOK, QueueTypeOK,
           StopOrder, WorkerLocal, FlushLocal, MonitorOwner, Orderly, WorkerGone, CountKept,
           HookTaken, Releasing
<1>4. FlushCovers'
  BY DEF WorkerRemoveNothing, RemoveNothing, Shape, TypeOK, SetTypeOK, QueueTypeOK,
           StopOrder, WorkerLocal, FlushLocal, MonitorOwner, Orderly, WorkerGone, HookTaken,
           FlushCovers, Unvisited, InSlot, Pools
<1> QED BY <1>1, <1>2, <1>3, <1>4 DEF Orderly

\* Orderly is kept by a removal that has found its pool.
LEMMA OrderlyWorkerRemoveOpen ==
  ASSUME Shape, Orderly, WorkerRemoveOpen
  PROVE  Orderly'
<1>1. WorkerGone' /\ TailsNatural'
  BY DEF WorkerRemoveOpen, RemoveOpen, Shape, TypeOK, SetTypeOK, QueueTypeOK, StopOrder,
           WorkerLocal, FlushLocal, MonitorOwner, Orderly, WorkerGone, TailsNatural, Pools
<1>2. Coherent'
  BY DEF WorkerRemoveOpen, RemoveOpen, Shape, TypeOK, SetTypeOK, QueueTypeOK, StopOrder,
           WorkerLocal, FlushLocal, MonitorOwner, Orderly, WorkerGone, Coherent, CountKept,
           InSlot, Pools
<1>3. CountKept' /\ HookTaken'
  BY DEF WorkerRemoveOpen, RemoveOpen, Shape, TypeOK, SetTypeOK, QueueTypeOK, StopOrder,
           WorkerLocal, FlushLocal, MonitorOwner, Orderly, WorkerGone, CountKept, HookTaken,
           Releasing
<1>4. FlushCovers'
  BY DEF WorkerRemoveOpen, RemoveOpen, Shape, TypeOK, SetTypeOK, QueueTypeOK, StopOrder,
           WorkerLocal, FlushLocal, MonitorOwner, Orderly, WorkerGone, HookTaken,
           FlushCovers, Unvisited, InSlot, Pools
<1> QED BY <1>1, <1>2, <1>3, <1>4 DEF Orderly

\* The last entry moves into the hole and is told so; no other entry moves.
LEMMA OrderlyWorkerUnlink ==
  ASSUME Shape, Orderly, WorkerUnlink
  PROVE  Orderly'
<1>1. WorkerGone'
  BY DEF WorkerUnlink, RemoveUnlink, Shape, Orderly, TypeOK, WorkerGone,
         QueueTypeOK, StopOrder
<1>2. TailsNatural'
  BY DEF WorkerUnlink, RemoveUnlink, Shape, Orderly, TypeOK, TailsNatural,
         SetTypeOK, Pools, MonitorOwner, Slots, FlushLocal
<1>3. Coherent'
  <2> DEFINE w == workerRef
             p == pool[w]
             i == index[w]
             last == entries[p][tail[p] - 1]
  <2>1. flushAt = "idle" /\ reg[w] = "added" /\ cleanup[w] = 1 /\ w \in Ref
    BY DEF WorkerUnlink, Shape, Orderly, TypeOK, QueueTypeOK, WorkerLocal, StopOrder,
           WorkerGone, HookTaken
  <2>2. InSlot(w) /\ monitor = "unlink" /\ monitor' = "free" /\ \A x \in Ref : reg[x] # "adding"
    BY <2>1 DEF WorkerUnlink, RemoveUnlink, Orderly, Coherent, Shape, MonitorOwner
  <2>3. /\ p \in Pools /\ i \in 0 .. tail[p] - 1 /\ entries[p][i] = w /\ tail[p] \in 1 .. SIZE
        /\ i \in Slots
    BY <2>2 DEF InSlot, Shape, TypeOK, SetTypeOK, SlotsFilled, Slots
  <2>4. last \in Ref /\ pool[last] = p /\ index[last] = tail[p] - 1 /\ cleanup[last] = 1
    BY <2>1, <2>2, <2>3 DEF Shape, SlotsFilled, Orderly, Coherent
  <2>5. /\ \A q \in Pools : tail'[q] = IF q = p THEN tail[q] - 1 ELSE tail[q]
        /\ \A q \in Pools, j \in Slots :
             entries'[q][j] = IF q = p /\ j = i THEN last ELSE entries[q][j]
        /\ \A x \in Ref : index'[x] = IF x = last THEN i ELSE index[x]
        /\ \A x \in Ref : cleanup'[x] = IF x = w THEN 0 ELSE cleanup[x]
        /\ \A x \in Ref : pool'[x] = IF x = w THEN -1 ELSE pool[x]
        /\ UNCHANGED <<npools, reg, flushAt>>
    BY <2>1, <2>3, <2>4 DEF WorkerUnlink, RemoveUnlink, Shape, TypeOK, SetTypeOK
  <2>6. Pools' = Pools /\ \A q \in Pools : tail[q] \in Int /\ tail[q] <= SIZE
    BY <2>5 DEF Pools, Shape, TypeOK, SetTypeOK, SlotsFilled
  <2> HIDE DEF p, i, last, w
  <2>7. ASSUME NEW q \in Pools, NEW j \in 0 .. tail'[q] - 1
        PROVE  /\ cleanup'[entries'[q][j]] = 1
               /\ pool'[entries'[q][j]] = q
               /\ index'[entries'[q][j]] = j
    <3>1. j \in Slots /\ j \in 0 .. tail[q] - 1 /\ (q = p => j # tail[p] - 1)
      BY <2>3, <2>5, <2>6 DEF Slots
    <3>2. /\ entries[q][j] \in Ref /\ cleanup[entries[q][j]] = 1
          /\ pool[entries[q][j]] = q /\ index[entries[q][j]] = j
      BY <2>1, <2>2, <3>1 DEF Shape, SlotsFilled, Orderly, Coherent
    <3>3. CASE q = p /\ j = i
      <4>1. entries'[q][j] = last /\ last # w
        BY <2>3, <2>4, <2>5, <3>1, <3>3 DEF i
      <4> QED BY <2>4, <2>5, <3>3, <4>1
    <3>4. CASE ~(q = p /\ j = i)
      <4>1. entries'[q][j] = entries[q][j] /\ entries[q][j] # w /\ entries[q][j] # last
        BY <2>3, <2>4, <2>5, <3>1, <3>2, <3>4 DEF p, i
      <4> QED BY <2>5, <3>2, <4>1
    <3> QED BY <3>3, <3>4
  <2>8. ASSUME NEW x \in Ref, Stored(x), cleanup'[x] = 1
        PROVE  InSlot(x)'
    <3>1. x # w /\ cleanup[x] = 1
      BY <2>1, <2>5, <2>8
    <3>2. InSlot(x)
      BY <2>1, <2>8, <3>1 DEF Orderly, Coherent
    <3>3. /\ pool[x] \in Pools /\ index[x] \in 0 .. tail[pool[x]] - 1
          /\ entries[pool[x]][index[x]] = x /\ index[x] \in Slots
      BY <2>6, <3>2 DEF InSlot, Slots
    <3>4. CASE x = last
      BY <2>2, <2>3, <2>4, <2>5, <2>6, <3>1, <3>3, <3>4 DEF InSlot, p, i, w
    <3>5. CASE x # last
      <4>1. pool[x] = p => index[x] # i /\ index[x] # tail[p] - 1
        BY <2>3, <3>1, <3>3, <3>5 DEF last
      <4> QED BY <2>3, <2>5, <2>6, <3>1, <3>2, <3>3, <3>5, <4>1 DEF InSlot
    <3> QED BY <3>4, <3>5
  <2> QED BY <2>2, <2>5, <2>6, <2>7, <2>8 DEF Coherent
<1>4. CountKept'
  BY DEF WorkerUnlink, RemoveUnlink, Shape, Orderly, TypeOK, CountKept, SetTypeOK,
         QueueTypeOK, Releasing, HookTaken, WorkerLocal, StopOrder, WorkerGone,
         FlushLocal, MonitorOwner
<1>5. HookTaken'
  BY DEF WorkerUnlink, RemoveUnlink, Shape, Orderly, TypeOK, HookTaken, SetTypeOK,
         QueueTypeOK, CountKept, WorkerLocal, StopOrder, WorkerGone, SlotsFilled,
         FlushLocal
<1>6. FlushCovers'
  BY DEF WorkerUnlink, RemoveUnlink, Shape, Orderly, TypeOK, FlushCovers, SetTypeOK,
         QueueTypeOK, Unvisited, InSlot, Pools, StopOrder, WorkerGone, SlotsFilled,
         FlushLocal, HookTaken
<1> QED BY <1>1, <1>2, <1>3, <1>4, <1>5, <1>6 DEF Orderly

\* When Orderly holds, no removal fails.
LEMMA OrderlyWorkerUnlinkFails == ASSUME Shape, Orderly, WorkerUnlinkFails PROVE FALSE
<1>1. flushAt = "idle" /\ reg[workerRef] = "added" /\ cleanup[workerRef] = 1 /\ workerRef \in Ref
  BY DEF WorkerUnlinkFails, Shape, Orderly, TypeOK, QueueTypeOK, WorkerLocal, StopOrder, WorkerGone, HookTaken
<1>2. InSlot(workerRef)
  BY <1>1 DEF Orderly, Coherent
<1> QED BY <1>2 DEF InSlot, WorkerUnlinkFails, RemoveUnlinkFails, Shape, TypeOK, SetTypeOK,
              SlotsFilled, Slots

\* Orderly is kept by the worker running the hook.
LEMMA OrderlyWorkerRelease ==
  ASSUME Shape, Orderly, WorkerRelease
  PROVE  Orderly'
<1>1. WorkerGone' /\ TailsNatural'
  BY DEF WorkerRelease, Shape, TypeOK, SetTypeOK, QueueTypeOK, StopOrder, WorkerLocal,
           FlushLocal, MonitorOwner, Orderly, WorkerGone, TailsNatural, Pools
<1>2. Coherent'
  BY DEF WorkerRelease, Shape, TypeOK, SetTypeOK, QueueTypeOK, StopOrder, WorkerLocal,
           FlushLocal, MonitorOwner, Orderly, WorkerGone, Coherent, CountKept, InSlot, Pools
<1>3. CountKept' /\ HookTaken'
  BY DEF WorkerRelease, Shape, TypeOK, SetTypeOK, QueueTypeOK, StopOrder, WorkerLocal,
           FlushLocal, MonitorOwner, Orderly, WorkerGone, CountKept, HookTaken, Releasing
<1>4. FlushCovers'
  BY DEF WorkerRelease, Shape, TypeOK, SetTypeOK, QueueTypeOK, StopOrder, WorkerLocal,
           FlushLocal, MonitorOwner, Orderly, WorkerGone, HookTaken, FlushCovers, Unvisited,
           InSlot, Pools
<1> QED BY <1>1, <1>2, <1>3, <1>4 DEF Orderly

\* Orderly is kept by the end of the worker.
LEMMA OrderlyWorkerExit ==
  ASSUME Shape, Orderly, WorkerExit
  PROVE  Orderly'
<1>1. WorkerGone' /\ TailsNatural'
  BY DEF WorkerExit, Shape, TypeOK, SetTypeOK, QueueTypeOK, StopOrder, WorkerLocal,
           FlushLocal, MonitorOwner, Orderly, WorkerGone, TailsNatural, Pools
<1>2. Coherent'
  BY DEF WorkerExit, Shape, TypeOK, SetTypeOK, QueueTypeOK, StopOrder, WorkerLocal,
           FlushLocal, MonitorOwner, Orderly, WorkerGone, Coherent, CountKept, InSlot, Pools
<1>3. CountKept' /\ HookTaken'
  BY DEF WorkerExit, Shape, TypeOK, SetTypeOK, QueueTypeOK, StopOrder, WorkerLocal,
           FlushLocal, MonitorOwner, Orderly, WorkerGone, CountKept, HookTaken, Releasing
<1>4. FlushCovers'
  BY DEF WorkerExit, Shape, TypeOK, SetTypeOK, QueueTypeOK, StopOrder, WorkerLocal,
           FlushLocal, MonitorOwner, Orderly, WorkerGone, HookTaken, FlushCovers, Unvisited,
           InSlot, Pools
<1> QED BY <1>1, <1>2, <1>3, <1>4 DEF Orderly

\* Orderly is kept by stop() asking the worker to end.
LEMMA OrderlyStopSignal ==
  ASSUME Shape, Orderly, StopSignal
  PROVE  Orderly'
<1>1. WorkerGone' /\ TailsNatural'
  BY DEF StopSignal, Shape, TypeOK, SetTypeOK, QueueTypeOK, StopOrder, WorkerLocal,
           FlushLocal, MonitorOwner, Orderly, WorkerGone, TailsNatural, Pools
<1>2. Coherent'
  BY DEF StopSignal, Shape, TypeOK, SetTypeOK, QueueTypeOK, StopOrder, WorkerLocal,
           FlushLocal, MonitorOwner, Orderly, WorkerGone, Coherent, CountKept, InSlot, Pools
<1>3. CountKept' /\ HookTaken'
  BY DEF StopSignal, Shape, TypeOK, SetTypeOK, QueueTypeOK, StopOrder, WorkerLocal,
           FlushLocal, MonitorOwner, Orderly, WorkerGone, CountKept, HookTaken, Releasing
<1>4. FlushCovers'
  BY DEF StopSignal, Shape, TypeOK, SetTypeOK, QueueTypeOK, StopOrder, WorkerLocal,
           FlushLocal, MonitorOwner, Orderly, WorkerGone, HookTaken, FlushCovers, Unvisited,
           InSlot, Pools
<1> QED BY <1>1, <1>2, <1>3, <1>4 DEF Orderly

\* flush() starts with everything unvisited, and the worker gone.
LEMMA OrderlyStopFlush ==
  ASSUME Shape, Orderly, StopFlush, ~early'
  PROVE  Orderly'
<1>1. WorkerGone'
  BY DEF StopFlush, FlushBegin, Shape, Orderly, TypeOK, WorkerGone, QueueTypeOK,
         StopOrder
<1>2. TailsNatural'
  BY DEF StopFlush, FlushBegin, Shape, Orderly, TypeOK, TailsNatural, SetTypeOK,
         Pools, MonitorOwner, Slots, FlushLocal
<1>3. Coherent'
  BY DEF StopFlush, FlushBegin, Shape, Orderly, TypeOK, Coherent, SetTypeOK,
         QueueTypeOK, Pools, Slots, SlotsFilled, HookedPlaced, MonitorOwner,
         WorkerLocal, StopOrder, InSlot, WorkerGone, CountKept
<1>4. CountKept'
  BY DEF StopFlush, FlushBegin, Shape, Orderly, TypeOK, CountKept, SetTypeOK,
         QueueTypeOK, Releasing, HookTaken, WorkerLocal, StopOrder, WorkerGone,
         FlushLocal, MonitorOwner
<1>5. HookTaken'
  BY DEF StopFlush, FlushBegin, Shape, Orderly, TypeOK, HookTaken, SetTypeOK,
         QueueTypeOK, CountKept, WorkerLocal, StopOrder, WorkerGone, SlotsFilled,
         FlushLocal
<1>6. FlushCovers'
  <2>1. /\ flushAt = "idle" /\ flushAt' = "pool" /\ flushPool = 0
        /\ UNCHANGED <<structure, cleanup, flushPool, reg>>
        /\ late' = {r \in Ref : reg[r] \in {"open", "adding"}}
    BY DEF StopFlush, FlushBegin, Shape, StopOrder
  <2>2. \A x \in Ref : Stored(x) /\ cleanup[x] = 1 => InSlot(x) /\ pool[x] >= 0 /\ pool[x] \in Int
    BY <2>1 DEF Orderly, Coherent, InSlot, Pools, Shape, TypeOK, SetTypeOK
  <2>3. \A x \in Ref : InSlot(x)' <=> InSlot(x)
    BY <2>1 DEF InSlot, Pools
  <2> QED BY <2>1, <2>2, <2>3 DEF FlushCovers, Unvisited
<1> QED BY <1>1, <1>2, <1>3, <1>4, <1>5, <1>6 DEF Orderly

\* Orderly is kept by flush() moving to a pool.
LEMMA OrderlyFlushPool ==
  ASSUME Shape, Orderly, FlushPool, UNCHANGED <<reg, stopVars, javaVars, workerVars>>,
         UNCHANGED pyrefs
  PROVE  Orderly'
<1>1. WorkerGone' /\ TailsNatural'
  BY DEF FlushPool, Shape, TypeOK, SetTypeOK, QueueTypeOK, StopOrder, WorkerLocal,
           FlushLocal, MonitorOwner, Orderly, WorkerGone, TailsNatural, Pools
<1>2. Coherent'
  BY DEF FlushPool, Shape, TypeOK, SetTypeOK, QueueTypeOK, StopOrder, WorkerLocal,
           FlushLocal, MonitorOwner, Orderly, WorkerGone, Coherent, CountKept, InSlot, Pools
<1>3. CountKept' /\ HookTaken'
  BY DEF FlushPool, Shape, TypeOK, SetTypeOK, QueueTypeOK, StopOrder, WorkerLocal,
           FlushLocal, MonitorOwner, Orderly, WorkerGone, CountKept, HookTaken, Releasing
<1>4. FlushCovers'
  BY DEF FlushPool, Shape, TypeOK, SetTypeOK, QueueTypeOK, StopOrder, WorkerLocal,
           FlushLocal, MonitorOwner, Orderly, WorkerGone, HookTaken, FlushCovers, Unvisited,
           InSlot, Pools
<1> QED BY <1>1, <1>2, <1>3, <1>4 DEF Orderly

\* A skipped reference has no hook, a read one is released next.
LEMMA OrderlyFlushSlot ==
  ASSUME Shape, Orderly, FlushSlot, UNCHANGED <<reg, stopVars, javaVars, workerVars>>,
         UNCHANGED pyrefs
  PROVE  Orderly'
<1>1. WorkerGone'
  BY DEF FlushSlot, Shape, Orderly, TypeOK, WorkerGone, QueueTypeOK, StopOrder
<1>2. TailsNatural'
  BY DEF FlushSlot, Shape, Orderly, TypeOK, TailsNatural, SetTypeOK, Pools,
         MonitorOwner, Slots, FlushLocal
<1>3. Coherent'
  BY DEF FlushSlot, Shape, Orderly, TypeOK, Coherent, SetTypeOK, QueueTypeOK, Pools,
         Slots, SlotsFilled, HookedPlaced, MonitorOwner, WorkerLocal, StopOrder,
         InSlot, WorkerGone, CountKept
<1>4. CountKept'
  BY DEF FlushSlot, Shape, Orderly, TypeOK, CountKept, SetTypeOK, QueueTypeOK,
         Releasing, HookTaken, WorkerLocal, StopOrder, WorkerGone, FlushLocal,
         MonitorOwner
<1>5. HookTaken'
  <2>1. \A x \in Ref : cleanup[x] \in {0, 1}
    BY DEF Shape, TypeOK, SetTypeOK
  <2>2. /\ flushPool \in Pools /\ flushSlot \in Slots
        /\ UNCHANGED <<cleanup, workerVars>>
    BY DEF FlushSlot, Shape, TypeOK, SetTypeOK, FlushLocal, SlotsFilled, Slots, Pools
  <2>3. entries[flushPool][flushSlot] \in Ref \cup {Null}
    BY <2>2 DEF Shape, SlotsFilled
  <2>4. flushAt' = "release" => cleanup'[flushRef'] = 1
    BY <2>1, <2>2, <2>3 DEF FlushSlot
  <2> QED BY <2>2, <2>4 DEF Orderly, HookTaken
<1>6. FlushCovers'
  <2> DEFINE y == entries[flushPool][flushSlot]
  <2>3. flushAt = "slot" /\ UNCHANGED <<structure, cleanup, flushPool, reg, late>>
    BY DEF FlushSlot
  <2>4. \A x \in Ref : InSlot(x)' <=> InSlot(x)
    BY <2>3 DEF InSlot, Pools
  <2>1. CASE y = Null
    BY <2>1, <2>3 DEF FlushSlot, Orderly, FlushCovers
  <2>2. CASE y # Null /\ cleanup[y] = 0
    <3>1. flushSlot' = flushSlot + 1 /\ flushAt' = "slot"
      BY <2>2 DEF FlushSlot
    <3>2. ASSUME NEW x \in Ref, Unvisited(x), cleanup[x] = 1
          PROVE  Unvisited(x)'
      <4>1. pool[x] = flushPool => index[x] # flushSlot
        BY <2>2, <3>2 DEF Unvisited, InSlot
      <4>2. InSlot(x)' /\ index[x] \in Int /\ flushSlot \in Nat
        BY <2>4, <3>2 DEF Unvisited, Shape, TypeOK, SetTypeOK
      <4>3. pool[x] > flushPool \/ (pool[x] = flushPool /\ index[x] >= flushSlot + 1)
        BY <2>3, <3>2, <4>1, <4>2 DEF Unvisited
      <4> QED BY <2>3, <3>1, <4>2, <4>3 DEF Unvisited
    <3> QED BY <2>3, <3>1, <3>2 DEF Orderly, FlushCovers
  <2>5. CASE y # Null /\ cleanup[y] # 0
    <3>1. flushSlot' = flushSlot /\ flushAt' = "release" /\ flushRef' = y
      BY <2>5 DEF FlushSlot
    <3> QED BY <2>3, <2>4, <3>1 DEF Orderly, FlushCovers, Unvisited
  <2> QED BY <2>1, <2>2, <2>5
<1> QED BY <1>1, <1>2, <1>3, <1>4, <1>5, <1>6 DEF Orderly

\* Orderly is kept by flush() reaching the last slot of a pool.
LEMMA OrderlyFlushSlotsDone ==
  ASSUME Shape, Orderly, FlushSlotsDone, UNCHANGED <<reg, stopVars, javaVars, workerVars>>,
         UNCHANGED pyrefs
  PROVE  Orderly'
<1>1. WorkerGone' /\ TailsNatural'
  BY DEF FlushSlotsDone, Shape, TypeOK, SetTypeOK, QueueTypeOK, StopOrder, WorkerLocal,
           FlushLocal, MonitorOwner, Orderly, WorkerGone, TailsNatural, Pools
<1>2. Coherent'
  BY DEF FlushSlotsDone, Shape, TypeOK, SetTypeOK, QueueTypeOK, StopOrder, WorkerLocal,
           FlushLocal, MonitorOwner, Orderly, WorkerGone, Coherent, CountKept, InSlot, Pools
<1>3. CountKept' /\ HookTaken'
  BY DEF FlushSlotsDone, Shape, TypeOK, SetTypeOK, QueueTypeOK, StopOrder, WorkerLocal,
           FlushLocal, MonitorOwner, Orderly, WorkerGone, CountKept, HookTaken, Releasing
<1>4. FlushCovers'
  BY DEF FlushSlotsDone, Shape, TypeOK, SetTypeOK, QueueTypeOK, StopOrder, WorkerLocal,
           FlushLocal, MonitorOwner, Orderly, WorkerGone, HookTaken, FlushCovers, Unvisited,
           InSlot, Pools
<1> QED BY <1>1, <1>2, <1>3, <1>4 DEF Orderly

\* Orderly is kept by flush() running a hook.
LEMMA OrderlyFlushRelease ==
  ASSUME Shape, Orderly, FlushRelease, UNCHANGED <<reg, stopVars, javaVars, workerVars>>,
         Drop(flushRef)
  PROVE  Orderly'
<1>1. WorkerGone' /\ TailsNatural'
  BY DEF FlushRelease, Shape, TypeOK, SetTypeOK, QueueTypeOK, StopOrder, WorkerLocal,
           FlushLocal, MonitorOwner, Orderly, WorkerGone, TailsNatural, Pools
<1>2. Coherent'
  BY DEF FlushRelease, Shape, TypeOK, SetTypeOK, QueueTypeOK, StopOrder, WorkerLocal,
           FlushLocal, MonitorOwner, Orderly, WorkerGone, Coherent, CountKept, InSlot, Pools
<1>3. CountKept' /\ HookTaken'
  BY DEF FlushRelease, Shape, TypeOK, SetTypeOK, QueueTypeOK, StopOrder, WorkerLocal,
           FlushLocal, MonitorOwner, Orderly, WorkerGone, CountKept, HookTaken, Releasing
<1>4. FlushCovers'
  BY DEF FlushRelease, Shape, TypeOK, SetTypeOK, QueueTypeOK, StopOrder, WorkerLocal,
           FlushLocal, MonitorOwner, Orderly, WorkerGone, HookTaken, FlushCovers, Unvisited,
           InSlot, Pools
<1> QED BY <1>1, <1>2, <1>3, <1>4 DEF Orderly

\* Orderly is kept by flush() emptying a pool.
LEMMA OrderlyFlushClear ==
  ASSUME Shape, Orderly, FlushClear, UNCHANGED <<reg, stopVars, javaVars, workerVars>>,
         UNCHANGED pyrefs
  PROVE  Orderly'
<1>1. WorkerGone' /\ TailsNatural'
  BY DEF FlushClear, Shape, TypeOK, SetTypeOK, QueueTypeOK, StopOrder, WorkerLocal,
           FlushLocal, MonitorOwner, Orderly, WorkerGone, TailsNatural, Pools
<1>2. Coherent'
  BY DEF FlushClear, Shape, TypeOK, SetTypeOK, QueueTypeOK, StopOrder, WorkerLocal,
           FlushLocal, MonitorOwner, Orderly, WorkerGone, Coherent, CountKept, InSlot, Pools
<1>3. CountKept' /\ HookTaken'
  BY DEF FlushClear, Shape, TypeOK, SetTypeOK, QueueTypeOK, StopOrder, WorkerLocal,
           FlushLocal, MonitorOwner, Orderly, WorkerGone, CountKept, HookTaken, Releasing
<1>4. FlushCovers'
  BY DEF FlushClear, Shape, TypeOK, SetTypeOK, QueueTypeOK, StopOrder, WorkerLocal,
           FlushLocal, MonitorOwner, Orderly, WorkerGone, HookTaken, FlushCovers, Unvisited,
           InSlot, Pools
<1> QED BY <1>1, <1>2, <1>3, <1>4 DEF Orderly

\* Orderly is kept by the return of stop().
LEMMA OrderlyStopReturn ==
  ASSUME Shape, Orderly, StopReturn
  PROVE  Orderly'
<1>1. WorkerGone' /\ TailsNatural'
  BY DEF StopReturn, Shape, TypeOK, SetTypeOK, QueueTypeOK, StopOrder, WorkerLocal,
           FlushLocal, MonitorOwner, Orderly, WorkerGone, TailsNatural, Pools
<1>2. Coherent'
  BY DEF StopReturn, Shape, TypeOK, SetTypeOK, QueueTypeOK, StopOrder, WorkerLocal,
           FlushLocal, MonitorOwner, Orderly, WorkerGone, Coherent, CountKept, InSlot, Pools
<1>3. CountKept' /\ HookTaken'
  BY DEF StopReturn, Shape, TypeOK, SetTypeOK, QueueTypeOK, StopOrder, WorkerLocal,
           FlushLocal, MonitorOwner, Orderly, WorkerGone, CountKept, HookTaken, Releasing
<1>4. FlushCovers'
  BY DEF StopReturn, Shape, TypeOK, SetTypeOK, QueueTypeOK, StopOrder, WorkerLocal,
           FlushLocal, MonitorOwner, Orderly, WorkerGone, HookTaken, FlushCovers, Unvisited,
           InSlot, Pools
<1> QED BY <1>1, <1>2, <1>3, <1>4 DEF Orderly

\* The inductive invariant: Orderly may be given up only by the step that ends
\* stop()'s wait early.
LEMMA IInvInductive == Spec => []IInv
<1>1. Init => IInv
  <2> SUFFICES ASSUME Init PROVE Orderly
    BY ShapeInit DEF IInv
  <2> QED
    BY DEF Init, SetInit, Orderly, WorkerGone, TailsNatural, Coherent, CountKept, HookTaken,
           FlushCovers, Releasing, Pools
<1>2. IInv /\ [Next]_vars => IInv'
  <2> SUFFICES ASSUME Shape, early \/ Orderly, [Next]_vars
               PROVE  early' \/ Orderly'
    BY ShapeNext DEF IInv
  <2>1. CASE UNCHANGED vars
    BY <2>1 DEF vars, Orderly, WorkerGone, TailsNatural, Coherent, CountKept, HookTaken,
           FlushCovers, Releasing, Unvisited, InSlot, Pools
  <2>2. CASE Registering
    <3>1. early' = early
      BY <2>2 DEF Registering, Register, RegisterDirect, RegisterOpen, RegisterGrow,
             RegisterStore, RegisterReturn, RegisterFails
    <3> QED BY <2>2, <3>1, OrderlyRegister, OrderlyRegisterDirect, OrderlyRegisterOpen,
       OrderlyRegisterGrow, OrderlyRegisterStore, OrderlyRegisterReturn, OrderlyRegisterFails
       DEF Registering
  <2>3. CASE Collecting
    <3>1. early' = early
      BY <2>3 DEF Collecting, Collect, CollectSentinel
    <3> QED BY <2>3, <3>1, OrderlyCollect, OrderlyQuiet DEF Collecting
  <2>4. CASE Start
    BY <2>4, OrderlyStart DEF Start
  <2>5. CASE Working
    <3>1. early' = early
      BY <2>5 DEF Working, WorkerLoop, WorkerTimeout, WorkerSentinel, WorkerWake, WorkerTake,
             WorkerRemoveNothing, WorkerRemoveOpen, WorkerUnlink, WorkerUnlinkFails,
             WorkerRelease, WorkerExit
    <3> QED BY <2>5, <3>1, OrderlyQuiet, OrderlyWorkerTake, OrderlyWorkerRemoveNothing,
       OrderlyWorkerRemoveOpen, OrderlyWorkerUnlink, OrderlyWorkerUnlinkFails,
       OrderlyWorkerRelease, OrderlyWorkerExit DEF Working
  <2>6. CASE StopSignal \/ StopStep \/ StopReturn
    <3>1. early' = early
      BY <2>6 DEF StopSignal, StopStep, StopReturn
    <3> QED BY <2>6, <3>1, OrderlyStopSignal, OrderlyStopReturn, OrderlyFlushPool,
       OrderlyFlushSlot, OrderlyFlushSlotsDone, OrderlyFlushRelease, OrderlyFlushClear
       DEF StopStep
  <2>7. CASE StopFlush
    <3>1. ~early
      BY <2>7 DEF StopFlush, FlushBegin, Shape, StopOrder
    <3> QED BY <2>7, <3>1, OrderlyStopFlush
  <2> QED BY <2>1, <2>2, <2>3, <2>4, <2>5, <2>6, <2>7 DEF Next, Stopping
<1> QED BY <1>1, <1>2, PTL DEF Spec

\* The Python reference of a registration is dropped at most once, for any
\* interleaving of registerRef, the worker and stop(), unless stop()'s wait
\* ended before the worker.
THEOREM ReleasedAtMostOnce == Spec => []ReleasedOnce
<1>1. IInv => ReleasedOnce
  <2> SUFFICES ASSUME IInv, ~early, NEW r \in Ref PROVE pyrefs[r] >= 0
    BY DEF ReleasedOnce
  <2> QED BY DEF IInv, Shape, TypeOK, QueueTypeOK, Orderly, CountKept
<1> QED BY <1>1, IInvInductive, PTL

\* Until stop(), a registered Java object that is alive keeps its Python object
\* alive, in a slot that flush() will visit, however many other references are
\* added and removed around it.
THEOREM LiveObjectsKept == Spec => []KeptWhileLive
<1>1. IInv => KeptWhileLive
  <2> SUFFICES ASSUME IInv, NEW r \in Ref, reg[r] = "added", object[r] = "live", ~isStopped
               PROVE  pyrefs[r] = 1 /\ InSlot(r)
    BY DEF KeptWhileLive
  <2>1. ~early /\ flushAt = "idle"
    BY DEF IInv, Shape, StopOrder
  <2> QED BY <2>1 DEF IInv, Orderly, Coherent, CountKept
<1> QED BY <1>1, IInvInductive, PTL

\* Pool.add never writes outside of its array unless stop()'s wait ended early.
THEOREM AddStaysInBounds == Spec => []AddInBounds
<1>1. IInv => AddInBounds
  BY DEF IInv, Shape, TypeOK, SetTypeOK, SlotsFilled, MonitorOwner, Orderly, TailsNatural,
         AddInBounds, Pools, Slots
<1> QED BY <1>1, IInvInductive, PTL

\* A flush() that runs to its end after the worker's, with no registration in
\* flight when it began, leaves no Python reference behind.
THEOREM FlushReleasesEverything == Spec => []FlushComplete
<1>1. IInv => FlushComplete
  <2> SUFFICES ASSUME IInv, flushAt = "done", ~early, late = {},
                      NEW r \in Ref, reg[r] = "added"
               PROVE  pyrefs[r] = 0
    BY DEF FlushComplete
  <2>1. workerAt = "ended" /\ Orderly /\ TypeOK
    BY DEF IInv, Shape, TypeOK, QueueTypeOK, StopOrder, Orderly, WorkerGone
  <2>2. cleanup[r] # 1
    BY <2>1 DEF Orderly, FlushCovers, Unvisited, InSlot, Pools, TypeOK, SetTypeOK
  <2> QED BY <2>1, <2>2 DEF Orderly, CountKept, Releasing
<1> QED BY <1>1, IInvInductive, PTL

-------------------------------------------------------------------------------
\* The refinement of KeepAlive.  The state of a registration as KeepAlive sees it:
Held(r) == IF reg[r] = "none" THEN "unregistered"
           ELSE IF pyrefs[r] = 1 THEN "held"
           ELSE IF pyrefs[r] = 0 THEN "gone" ELSE "overdrawn"

\* A step that leaves the registrations, the objects and isStopped as KeepAlive
\* sees them is a stutter of it.
LEMMA PromiseStutter ==
  ASSUME \A r \in Ref : Held(r)' = Held(r), object' = object, isStopped' = isStopped
  PROVE  UNCHANGED Promise!keepVars
BY DEF Promise!keepVars, Held

\* A step that drops the Python reference of one registration, whose object is
\* dead or after isStopped was set, is KeepAlive's LetGo.
LEMMA PromiseLetGo ==
  ASSUME NEW r \in Ref, Held(r) = "held", Held(r)' = "gone",
         \A x \in Ref : x # r => Held(x)' = Held(x),
         object[r] # "live" \/ isStopped, object' = object, isStopped' = isStopped
  PROVE  Promise!LetGo(r)
BY DEF Promise!LetGo, Held

\* When only the worker can end stop()'s wait, the queue implements KeepAlive.
THEOREM QueueKeepsPromise == ASSUME ~WaitMayEndEarly PROVE Spec => KeepsPromise
<1>1. Init => Promise!Init
  BY DEF Init, Promise!Init
<1>2. IInv /\ [Next]_vars => [Promise!Next]_(Promise!keepVars)
  <2> SUFFICES ASSUME IInv, [Next]_vars
               PROVE  Promise!Next \/ UNCHANGED Promise!keepVars
    OBVIOUS
  <2>1. Shape /\ Orderly
    BY DEF IInv, Shape, StopOrder
  <2>2. QueueTypeOK
    BY <2>1 DEF Shape, TypeOK
  <2>3. CASE UNCHANGED vars
    BY <2>3, PromiseStutter DEF vars, Held
  <2>4. ASSUME NEW r \in Ref, Register(r) PROVE Promise!Hold(r)
    <3>1. reg[r] = "none" /\ pyrefs[r] = 0
      BY <2>1, <2>4 DEF Register, Orderly, CountKept
    <3>2. \A x \in Ref : /\ reg'[x] = IF x = r THEN (IF isStopped THEN "direct" ELSE "open")
                                      ELSE reg[x]
                         /\ pyrefs'[x] = IF x = r THEN 1 ELSE pyrefs[x]
      BY <2>2, <2>4, <3>1 DEF Register, QueueTypeOK
    <3>3. object' = object /\ isStopped' = isStopped
      BY <2>4 DEF Register
    <3> QED BY <3>1, <3>2, <3>3 DEF Promise!Hold
  <2>5. ASSUME NEW r \in Ref, RegisterDirect(r) PROVE Promise!LetGo(r)
    <3>1. reg[r] = "direct" /\ pyrefs[r] = 1 /\ isStopped
      BY <2>1, <2>5 DEF RegisterDirect, Orderly, CountKept, Shape, StopOrder
    <3>2. Held(r) = "held" /\ Held(r)' = "gone" /\ \A x \in Ref : x # r => Held(x)' = Held(x)
      BY <2>2, <2>5, <3>1 DEF RegisterDirect, QueueTypeOK, Held
    <3> QED BY <2>5, <3>1, <3>2, PromiseLetGo DEF RegisterDirect
  <2>6. ASSUME NEW r \in Ref, \/ RegisterOpen(r) \/ RegisterGrow(r)
                               \/ RegisterStore(r) \/ RegisterReturn(r)
        PROVE  UNCHANGED Promise!keepVars
    <3>1. \A x \in Ref : Held(x)' = Held(x)
      BY <2>2, <2>6 DEF RegisterOpen, RegisterGrow, RegisterStore, RegisterReturn, QueueTypeOK, Held
    <3> QED BY <2>6, <3>1, PromiseStutter DEF RegisterOpen, RegisterGrow, RegisterStore,
                                              RegisterReturn
  <2>7. ASSUME NEW r \in Ref, RegisterFails(r) PROVE FALSE
    BY <2>1, <2>7, OrderlyRegisterFails
  <2>8. ASSUME NEW r \in Ref, Collect(r) PROVE Promise!Die(r)
    <3>1. \A x \in Ref : object'[x] = IF x = r THEN "queued" ELSE object[x]
      BY <2>2, <2>8 DEF Collect, QueueTypeOK
    <3> QED BY <2>2, <2>8, <3>1 DEF Collect, Promise!Die
  <2>9. CASE CollectSentinel \/ StopFlush \/ StopReturn
    BY <2>9, PromiseStutter DEF CollectSentinel, StopFlush, StopReturn, Held
  <2>10. CASE Start
    <3>1. isStopped' = isStopped
      BY <2>1, <2>2, <2>10 DEF Start, Shape, StopOrder, QueueTypeOK
    <3> QED BY <2>10, <3>1, PromiseStutter DEF Start, Held
  <2>11. CASE WorkerLoop \/ WorkerTimeout \/ WorkerSentinel \/ WorkerWake \/ WorkerExit
              \/ WorkerRemoveNothing \/ WorkerRemoveOpen \/ WorkerUnlink \/ WorkerUnlinkFails
    BY <2>11, PromiseStutter DEF WorkerLoop, WorkerTimeout, WorkerSentinel, WorkerWake,
         WorkerExit, WorkerRemoveNothing, WorkerRemoveOpen, WorkerUnlink, WorkerUnlinkFails, Held
  <2>12. ASSUME NEW r \in Ref, WorkerTake(r) PROVE UNCHANGED Promise!keepVars
    <3>1. {x \in Ref : object'[x] # "live"} = {x \in Ref : object[x] # "live"}
      BY <2>2, <2>12 DEF WorkerTake, QueueTypeOK
    <3> QED BY <2>12, <3>1 DEF WorkerTake, Promise!keepVars
  <2>13. CASE WorkerRelease
    <3>1. PICK w \in Ref : w = workerRef
      BY <2>1, <2>13 DEF WorkerRelease, Shape, WorkerLocal
    <3>2. object[w] = "taken" /\ workerHook = 1 /\ reg[w] = "added" /\ pyrefs[w] = 1
      BY <2>1, <2>13, <3>1 DEF WorkerRelease, Shape, WorkerLocal, Orderly, HookTaken,
             CountKept, Releasing
    <3>3. Held(w) = "held" /\ Held(w)' = "gone" /\ \A x \in Ref : x # w => Held(x)' = Held(x)
      BY <2>2, <2>13, <3>1, <3>2 DEF WorkerRelease, QueueTypeOK, Held
    <3>4. Promise!LetGo(w)
      BY <2>13, <3>2, <3>3, PromiseLetGo DEF WorkerRelease
    <3> QED BY <3>4 DEF Promise!Next
  <2>14. CASE StopSignal
    BY <2>1, <2>2, <2>14 DEF StopSignal, Shape, StopOrder, QueueTypeOK, Promise!Stop, Promise!Next
  <2>15. CASE StopStep
    <3>1. CASE pyrefs' = pyrefs
      BY <2>15, <3>1, PromiseStutter DEF StopStep, Held
    <3>2. CASE FlushRelease /\ Drop(flushRef)
      <4>1. PICK w \in Ref : w = flushRef
        BY <2>1, <3>2 DEF FlushRelease, Shape, FlushLocal
      <4>2. Stored(w) /\ pyrefs[w] = 1 /\ isStopped
        BY <2>1, <2>2, <3>2, <4>1 DEF FlushRelease, Shape, FlushLocal, StopOrder, Orderly,
               HookTaken, CountKept, QueueTypeOK
      <4>3. Held(w) = "held" /\ Held(w)' = "gone" /\ \A x \in Ref : x # w => Held(x)' = Held(x)
        BY <2>2, <2>15, <3>2, <4>1, <4>2 DEF StopStep, QueueTypeOK, Held
      <4>4. Promise!LetGo(w)
        BY <2>15, <4>2, <4>3, PromiseLetGo DEF StopStep
      <4> QED BY <4>4 DEF Promise!Next
    <3> QED BY <2>15, <3>1, <3>2 DEF StopStep
  <2> QED
    BY <2>3, <2>4, <2>5, <2>6, <2>7, <2>8, <2>9, <2>10, <2>11, <2>12, <2>13, <2>14, <2>15
       DEF Next, Registering, Collecting, Working, Stopping, Promise!Next
<1> QED BY <1>1, <1>2, IInvInductive, PTL DEF Spec, KeepsPromise, Promise!Spec
===============================================================================
