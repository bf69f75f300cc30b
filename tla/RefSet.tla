-------------------------------- MODULE RefSet --------------------------------
(***************************************************************************)
(* org.jpype.ref.JPypeReferenceSet: the set of phantom references that     *)
(* keep Python objects alive for Java objects.  It is a list of fixed-size *)
(* pools; a reference remembers its pool and its slot, and removal moves   *)
(* the last entry of the pool into the hole.                               *)
(*                                                                         *)
(* add and remove are synchronized on the set, flush is not.  In add and   *)
(* flush a step reads or writes one field that the other one writes, so    *)
(* that they meet at every point: the search for a free pool looks at one  *)
(* pool in a step, and tail++ is a read and a write.  remove is one step   *)
(* once it has found the hook: the monitor keeps add away, and flush comes *)
(* after the last remove unless stop()'s wait ended early.                 *)
(***************************************************************************)
EXTENDS Integers, FiniteSets

CONSTANTS Ref,      \* the JPypeReference objects
          SIZE,     \* slots in a pool (256 in the code)
          Null      \* the Java null

ASSUME SizeAssumption == SIZE \in Nat \ {0}
ASSUME NullAssumption == Null \notin Ref

VARIABLES
  npools,     \* pools.size(); a pool is named by its id
  entries,    \* Pool.entries
  tail,       \* Pool.tail
  current,    \* the pool that takes the next add, -1 for null
  items,      \* the count that size() returns
  cleanup,    \* JPypeReference.cleanup: 1 a hook, 0 none
  pool,       \* JPypeReference.pool
  index,      \* JPypeReference.index
  monitor,    \* the program point of the synchronized method that is being
              \* executed, if any
  slot,       \* the locals of add: the old value of tail++, and the
  probe,      \* position of the search for a free pool
  flushAt,    \* the program point of flush() and its locals: the position
  flushPool,  \* of its iterator over the pools, the number of pools when
  flushSize,  \* that iterator was made, the slot, and the reference read
  flushSlot,
  flushRef

structure == <<npools, entries, tail, current, items, pool, index>>
flushVars == <<flushAt, flushPool, flushSize, flushSlot, flushRef>>
addVars == <<slot, probe>>
monitorVars == <<monitor, addVars>>
setVars == <<structure, cleanup, monitorVars, flushVars>>

Pools == 0 .. npools - 1
Slots == 0 .. SIZE - 1
EmptyPool == [i \in Slots |-> Null]

\* flush() is outside of a call, at the head of the loop over the pools, at the
\* head of the loop over the slots, holding a reference whose hook it read,
\* past the last slot of a pool, returned, or left by an exception.
FlushPoints == {"idle", "pool", "slot", "release", "clear", "done", "failed"}

SetInit ==
  /\ npools = 0
  /\ entries = [p \in Pools |-> EmptyPool]
  /\ tail = [p \in Pools |-> 0]
  /\ current = -1
  /\ items = 0
  /\ cleanup = [r \in Ref |-> 0]
  /\ pool = [r \in Ref |-> 0]
  /\ index = [r \in Ref |-> 0]
  /\ monitor = "free"
  /\ slot = 0
  /\ probe = 0
  /\ flushAt = "idle"
  /\ flushPool = 0
  /\ flushSize = 0
  /\ flushSlot = 0
  /\ flushRef = Null

-------------------------------------------------------------------------------
\* The JPypeReference constructor; pool and index keep Java's default 0.
Construct(r, hook) ==
  /\ cleanup' = [cleanup EXCEPT ![r] = hook]
  /\ UNCHANGED <<structure, monitorVars, flushVars>>

\* add(): take the monitor, count the item, make sure that there is a current
\* pool, and let the reference remember it and its tail.
AddOpen(r) ==
  /\ monitor = "free"
  /\ cleanup[r] # 0
  /\ items' = items + 1
  /\ IF current = -1
     THEN /\ current' = npools
          /\ npools' = npools + 1
          /\ entries' = [p \in 0 .. npools |-> IF p = npools THEN EmptyPool ELSE entries[p]]
          /\ tail' = [p \in 0 .. npools |-> IF p = npools THEN 0 ELSE tail[p]]
     ELSE UNCHANGED <<current, npools, entries, tail>>
  /\ pool' = [pool EXCEPT ![r] = current']
  /\ index' = [index EXCEPT ![r] = tail'[current']]
  /\ monitor' = "read"
  /\ UNCHANGED <<cleanup, addVars, flushVars>>

\* tail++ reads tail, which flush() may have set to 0 since index was taken from
\* it, and writes what it has read, whatever flush() has written in between.
AddRead ==
  /\ monitor = "read"
  /\ slot' = tail[current]
  /\ monitor' = "grow"
  /\ UNCHANGED <<structure, cleanup, probe, flushVars>>

AddGrow ==
  /\ monitor = "grow"
  /\ tail' = [tail EXCEPT ![current] = slot + 1]
  /\ monitor' = "store"
  /\ UNCHANGED <<npools, entries, current, items, cleanup, pool, index, addVars, flushVars>>

\* The reference is written below tail, where flush() may have looked already.
AddStore(r) ==
  /\ monitor = "store"
  /\ slot \in Slots
  /\ entries' = [entries EXCEPT ![current][slot] = r]
  /\ slot' = 0
  /\ monitor' = "full"
  /\ UNCHANGED <<npools, tail, current, items, cleanup, pool, index, probe, flushVars>>

\* entries[tail++] is out of bounds: the exception leaves add().
AddStoreFails ==
  /\ monitor = "store"
  /\ slot \notin Slots
  /\ slot' = 0
  /\ monitor' = "free"
  /\ UNCHANGED <<structure, cleanup, probe, flushVars>>

\* add() returns, or goes on to search when the current pool is full.
AddFull ==
  /\ monitor = "full"
  /\ IF tail[current] = SIZE
     THEN current' = -1 /\ monitor' = "search"
     ELSE monitor' = "free" /\ UNCHANGED current
  /\ UNCHANGED <<npools, entries, tail, items, cleanup, pool, index, addVars, flushVars>>

\* Mutant: the search for a free pool accepts a full one.
AddSearchFull ==
  /\ monitor = "search"
  /\ IF probe \in Pools /\ tail[probe] > SIZE
     THEN probe' = probe + 1 /\ UNCHANGED <<monitor, current>>
     ELSE /\ current' = IF probe \in Pools THEN probe ELSE -1
          /\ probe' = 0
          /\ monitor' = "free"
  /\ UNCHANGED <<npools, entries, tail, items, cleanup, pool, index, slot, flushVars>>

\* Mutant: the search that ends without a free pool leaves its position behind.
AddSearchBeyond ==
  /\ monitor = "search"
  /\ IF probe \in Pools /\ tail[probe] >= SIZE
     THEN probe' = probe + 1 /\ UNCHANGED <<monitor, current>>
     ELSE current' = probe /\ probe' = 0 /\ monitor' = "free"
  /\ UNCHANGED <<npools, entries, tail, items, cleanup, pool, index, slot, flushVars>>

\* The search for a free pool looks at the next one; the first with room becomes
\* current, and without any current stays null.
AddSearch ==
  /\ monitor = "search"
  /\ IF probe \in Pools /\ tail[probe] >= SIZE
     THEN probe' = probe + 1 /\ UNCHANGED <<monitor, current>>
     ELSE /\ current' = IF probe \in Pools THEN probe ELSE -1
          /\ probe' = 0
          /\ monitor' = "free"
  /\ UNCHANGED <<npools, entries, tail, items, cleanup, pool, index, slot, flushVars>>

\* remove() of a reference whose hook is gone returns at once.
RemoveNothing(r) ==
  /\ monitor = "free"
  /\ cleanup[r] = 0
  /\ UNCHANGED setVars

\* remove() past its early return, inside the monitor.
RemoveOpen(r) ==
  /\ monitor = "free"
  /\ cleanup[r] # 0
  /\ monitor' = "unlink"
  /\ UNCHANGED <<structure, cleanup, addVars, flushVars>>

\* Mutant: the entry that moves into the hole keeps its old index.
RemoveUnlinkStaleIndex(r) ==
  /\ monitor = "unlink"
  /\ tail[pool[r]] > 0 /\ index[r] \in Slots
  /\ LET p == pool[r]
     IN  /\ tail' = [tail EXCEPT ![p] = @ - 1]
         /\ entries' = [entries EXCEPT ![p][index[r]] = entries[p][tail[p] - 1]]
  /\ items' = items - 1
  /\ cleanup' = [cleanup EXCEPT ![r] = 0]
  /\ pool' = [pool EXCEPT ![r] = -1]
  /\ monitor' = "free"
  /\ UNCHANGED <<npools, current, index, addVars, flushVars>>

\* Pool.remove, which moves the last entry into the hole, and the bookkeeping.
RemoveUnlink(r) ==
  /\ monitor = "unlink"
  /\ tail[pool[r]] > 0 /\ index[r] \in Slots
  /\ LET p == pool[r]
         i == index[r]
         last == entries[p][tail[p] - 1]
     IN  /\ tail' = [tail EXCEPT ![p] = @ - 1]
         /\ entries' = [entries EXCEPT ![p][i] = last]
         /\ index' = [index EXCEPT ![last] = i]
  /\ items' = items - 1
  /\ cleanup' = [cleanup EXCEPT ![r] = 0]
  /\ pool' = [pool EXCEPT ![r] = -1]
  /\ monitor' = "free"
  /\ UNCHANGED <<npools, current, addVars, flushVars>>

\* entries[--tail] is out of bounds, or entries[ref.index] is: tail keeps the
\* decrement and the exception leaves remove().
RemoveUnlinkFails(r) ==
  /\ monitor = "unlink"
  /\ ~(tail[pool[r]] > 0 /\ index[r] \in Slots)
  /\ tail' = [tail EXCEPT ![pool[r]] = @ - 1]
  /\ monitor' = "free"
  /\ UNCHANGED <<npools, entries, current, items, cleanup, pool, index, addVars, flushVars>>

-------------------------------------------------------------------------------
\* flush() creates its iterator over the pools.
FlushBegin ==
  /\ flushAt = "idle"
  /\ flushAt' = "pool"
  /\ flushSize' = npools
  /\ UNCHANGED <<structure, cleanup, monitorVars, flushPool, flushSlot, flushRef>>

\* The iterator moves to the next pool, ends, or finds that a pool was added
\* since it was created and throws ConcurrentModificationException.
FlushPool ==
  /\ flushAt = "pool"
  /\ flushAt' = IF flushPool = npools THEN "done"
                ELSE IF npools # flushSize THEN "failed" ELSE "slot"
  /\ flushSlot' = 0
  /\ UNCHANGED <<structure, cleanup, monitorVars, flushPool, flushSize, flushRef>>

\* Read the next slot below tail and its hook; a cleared hook is skipped.  A slot
\* that add() has counted and not yet written holds null the first time, which
\* raises.
FlushSlot ==
  /\ flushAt = "slot"
  /\ flushSlot < tail[flushPool]
  /\ LET r == entries[flushPool][flushSlot]
     IN  \/ /\ r = Null
            /\ flushAt' = "failed"
            /\ UNCHANGED <<flushSlot, flushRef>>
         \/ /\ r # Null /\ cleanup[r] = 0
            /\ flushSlot' = flushSlot + 1
            /\ UNCHANGED <<flushAt, flushRef>>
         \/ /\ r # Null /\ cleanup[r] # 0
            /\ flushAt' = "release"
            /\ flushRef' = r
            /\ UNCHANGED flushSlot
  /\ UNCHANGED <<structure, cleanup, monitorVars, flushPool, flushSize>>

\* Mutant: the loop over the slots ends one slot early.
FlushSlotsDoneEarly ==
  /\ flushAt = "slot"
  /\ flushSlot >= tail[flushPool] - 1
  /\ flushAt' = "clear"
  /\ UNCHANGED <<structure, cleanup, monitorVars, flushPool, flushSize, flushSlot, flushRef>>

\* There is no slot left below tail.
FlushSlotsDone ==
  /\ flushAt = "slot"
  /\ flushSlot >= tail[flushPool]
  /\ flushAt' = "clear"
  /\ UNCHANGED <<structure, cleanup, monitorVars, flushPool, flushSize, flushSlot, flushRef>>

\* Clear the hook; the caller of this step releases the host reference.
FlushRelease ==
  /\ flushAt = "release"
  /\ cleanup' = [cleanup EXCEPT ![flushRef] = 0]
  /\ flushAt' = "slot"
  /\ flushSlot' = flushSlot + 1
  /\ flushRef' = Null
  /\ UNCHANGED <<structure, monitorVars, flushPool, flushSize>>

\* pool.tail = 0, whatever was stored since the loop over the slots ended.
FlushClear ==
  /\ flushAt = "clear"
  /\ tail' = [tail EXCEPT ![flushPool] = 0]
  /\ flushAt' = "pool"
  /\ flushPool' = flushPool + 1
  /\ UNCHANGED <<npools, entries, current, items, cleanup, pool, index, monitorVars,
                 flushSize, flushSlot, flushRef>>

-------------------------------------------------------------------------------
\* r sits in a live slot, the one it remembers: flush() would visit it.
InSlot(r) == /\ pool[r] \in Pools
             /\ index[r] \in 0 .. tail[pool[r]] - 1
             /\ entries[pool[r]][index[r]] = r

SetTypeOK ==
  /\ npools \in Nat
  /\ entries \in [Pools -> [Slots -> Ref \cup {Null}]]
  /\ tail \in [Pools -> Int]
  /\ current \in -1 .. npools - 1
  /\ items \in Int
  /\ cleanup \in [Ref -> {0, 1}]
  /\ pool \in [Ref -> Int]
  /\ index \in [Ref -> Int]
  /\ monitor \in {"free", "read", "grow", "store", "full", "search", "unlink"}
  /\ slot \in Int
  /\ probe \in 0 .. npools
  /\ flushAt \in FlushPoints
  /\ flushPool \in Nat
  /\ flushSize \in Nat
  /\ flushSlot \in Nat
  /\ flushRef \in Ref \cup {Null}
===============================================================================
