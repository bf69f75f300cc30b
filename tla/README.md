# A TLA+ verification project for JPype

JPype runs a Java virtual machine inside of a Python process. Two runtimes, each
with threads, a garbage collector and exceptions of its own, share objects, and
the code between them has to keep both sides' rules. This project models the
parts of that code where an order of steps that no test reaches decides whether
it is right. The modules are checked with TLC on small instances, and the results
that matter most are proved with TLAPS for all of them. `PROJECT.json` says which
definition stands for which lines of the source.

## The system

| Component | Source | State | Operations |
|---|---|---|---|
| Reference queue | `ref/*.java`, `jp_reference_queue.cpp` | pools of phantom references, their indices, the worker thread, `isStopped` | register, collect, remove, stop, flush |
| JVM lifecycle | `_core.py`, `_jinit.py`, `pyjp_module.cpp`, `jp_context.cpp`, `JPypeContext.java` | `_JVM_started`, `m_JavaVM`, `m_Running`, signal handlers, class resources, deferred initializers, shutdown hooks | start, register an initializer, shut down, exit, the Java shutdown hook |
| Proxies | `jp_proxy.cpp`, `JPypeProxy.java`, `_jproxy.py` | `shutdownFlag`, the proxy's Python object | a call from Java into Python |
| Overload order | `MethodResolution.java` | the queue and the result of the sort | compare, sort |
| Method dispatch | `TypeManager.java`, `jp_method.cpp`, `jp_methoddispatch.cpp`, `pyjp_method.cpp` | overloads, precedence lists, `m_LastOverload`, `m_Hash` | build a dispatch, find an overload, pack the arguments |
| Conversion rules | `jp_classhints.cpp`, `jp_*type.cpp` | the hints of a class | how well a value fits a type |
| Threads and monitors | `jp_context.cpp`, `_jthread.py`, `jp_monitor.cpp`, `_core.py` | attachment, the exit callback of each thread, the owner of a monitor | attach, detach, exit, synchronize |
| Collector coupling | `jp_gc.cpp` | water marks, `forcing_gc`, the cool-down | a collection on one side triggers the other |
| Type manager | `TypeManager.java`, `jp_typefactory.cpp`, `jp_class.cpp` | the class map, members made on demand | find, populate, destroy |
| Exceptions, frames | `jp_exception.cpp`, `jp_javaframe.cpp` | pending exceptions of both sides, local frames | convert, rethrow |
| Class wrappers, customizers | `pyjp_class.cpp`, `_jclass.py`, `_jcustomizer.py` | type objects, their dictionaries, the customizers registered for each class | make a wrapper, register, apply |
| Class path and JVM finder | `_classpath.py`, `_core.py`, `_jvmfinder.py`, `JPypeClassLoader.java` | `_CLASSPATHS`, the loader's paths | add a path, read it at the start, find the library |
| Imports | `imports.py`, `pyjp_package.cpp` | `_JDOMAINS`, `_CUSTOMIZERS`, `sys.modules` | import, register a domain or a customizer |
| Proxy classes | `_jproxy.py` | `__jpype_interfaces__` of each class | declare, check, instantiate |
| Database API | `dbapi2.py` | type registry, connections, cursors and what they cache | connect, execute, fetch, commit, close, finalize |
| Collections, strings, arrays | `_jcollection.py`, `_jstring.py`, `_jarray.py` | the Java container, Python iterators | index, slice, change, iterate |
| Pickling | `pickle.py`, `Encoder.java`, `Decoder.java` | the Java stream and the memo of a pickler or unpickler | dump, load |

The components meet in a few places. The main Python thread waits in
`DestroyJavaVM` while a Java hook thread runs `JPypeContext.shutdown`, which stops
the reference queue, disables proxies and tells the native side. Java threads call
Python through proxies and need the Python lock. The reference queue's worker
drops Python references, also with the lock. `TypeManager` builds what
`JPMethodDispatch` reads, and the two collectors trigger each other. Python
threads share the monitor of `newWrapper`, which runs Python code, and a Java
object under `synchronized`. The class path, imports and proxies meet in the class
loader and in the state of the JVM.

What is hard: steps of these threads in any order, `stop()` whose wait may end on
a timeout, a test of a flag that is old when it is used, a shutdown that fails
half-way or comes twice, waiting for a thread that needs the lock one holds, and
caches and orders that make the answer of a call depend on earlier ones. Any JDBC
call may raise between two steps of a cursor, and any dump half-way. The list
is under `hazards` in `PROJECT.json`, each with the properties that watch it.

What makes each part correct: the queue holds every Python object as long as its
Java object and lets go of it once; the lifecycle starts the JVM once, ends it,
and leaves nothing at work on what it deleted; the dispatch calls the method that
Java would call, whatever the order of reflection and the history of calls; a class
has one wrapper and gets every customizer meant for it; a cursor hands out rows of
its last statement and leaks none; a thread that ends is not attached any more.

## Modules

Reference queue

- `RefSet`: `JPypeReferenceSet`, pools of `SIZE` slots. `flush` takes no monitor,
  so `add` and `flush` meet at every field that both touch: `add` is entered with
  the index taken from `tail`, then reads and writes `tail` (two steps of
  `tail++`), stores the entry, tests whether the pool is full, and looks at one
  pool per step for a free one. `flush` may put its `tail = 0` between any two of
  them, and may read a slot that is counted and not yet written, on which it
  fails. `remove` is one step once it has found the hook: the monitor keeps `add`
  away, and `flush` meets it only after the wait of `stop()` ended early, in which
  case `TypeOK` is the only property that speaks.
- `RefQueue`: `JPypeReferenceQueue` and `jp_reference_queue.cpp` over `RefSet`:
  registrations, the Java collector (external), the worker, `stop()`. `pyrefs`
  counts the Python references owned for a registration.
- `KeepAlive`: what the queue promises, an abstract specification. `RefQueue`
  implements it (`KeepsPromise`).
- `MCRefQueue`, `RefQueueProofs`.

JVM lifecycle

- `Context`: Python and native side. A step of a Python thread is what runs
  between two points where the interpreter may pass its lock on.
- `Lifecycle`: the Java side over it: the shutdown hook, the hooks registered with
  JPype, and proxy calls of daemon threads, user threads and hook threads.
  `DestroyJavaVM` is external, modelled from `jp_context.cpp`: it waits for user
  threads, runs the hook, and a thread that calls into the JVM afterwards does not
  come back. A crash of the process ends every behaviour (`Alive`).
- `MCLifecycle`, `LifecycleProofs`.

Calls from Python to Java

- `JavaTypes`: primitive types, boxed classes, assignability. The two tables of
  wider types, in Java and in C++, are translated apart, in the two modules below.
- `MethodResolution`: `isMoreSpecificThan` and `sortMethods`.
- `Conversion`: `findJavaConversion` of each kind of type as a chain of rules, of
  which the first that answers decides. A value is what the rules look at: its
  Python type, its Java class, the items of a sequence, the number of arguments a
  function takes.
- `Dispatch`: `TypeManager` building the dispatches, then `findOverload` with its
  cache and `packArgs`. A call is one step: a conversion may run Python code, but
  the lists the search reads do not change, and the two writes to the cache are
  made under the lock together.
- `Lists`: a filter of sequences that can be proved about, for `Dispatch` and
  `Customizers`.
- `MCDispatch`, `MethodResolutionProofs`.

Class wrappers

- `Customizers`: how `JClass(c)` makes a type object (`newWrapper`,
  `PyJPClass_hook`, `_jclassPre`, `_jclassPost`) on a stack of nested requests per
  thread, and how `registerClassImplementation` reaches classes that exist and
  classes that come later. One Java method stands for all that a customizer may
  replace.
- `MCCustomizers`: a class, a subclass and an inner class that derives from the
  subclass, so that making a wrapper comes back to itself.
- `CustomizersProofs`.

A Python session

- `JvmFinder`: the search for the library, as operators over a small file system.
- `ClassPath`: `addClassPath` of several threads, the reading of the path in
  `startJVM`, the initializers one by one and the loader. `owed` is a history variable: what
  the loader must know.
- `Imports`: `find_spec` and `create_module`, with domains, keywords and
  customizers; a package is written as its Java name.
- `Proxies`: `@JImplements`, checked at once or at the first instance, and `JProxy`.
- `Session` composes the three over the state of the JVM; `SessionProofs`.

Threads

- `Threads`: attachment of Python threads by the user, by use and by Java, the
  exit callback, `DestroyJavaVM`, and `synchronized` over one Java object.
  `MCThreads`, `ThreadsProofs`.

Databases

- `DbTypes`: the type objects, getters and setters as tables and operators.
- `DbApi`: connections and cursors. `execute` and the fetch methods give up the
  Python lock in each JDBC call and are calls of several steps; each JDBC call may
  raise, and the `...Fails` actions say what is left then. JDBC is external.
  `MCDbApi`, `DbApiProofs`.
- `Connections`: what threads share of a connection: transactions, the autocommit
  mode, adapters, the isolation level, `typeinfo`.

Data

- `Containers`: each operation of the list, string, array, entry and map wrappers
  as an operator from the Java calls it makes; `Agrees` is the reference, what
  a Python list would answer.
- `Pickles`: the pieces of an `ObjectOutputStream` that lives as long as its
  pickler, and what a reader makes of them.
- `Data` puts `Containers`, `Pickles` and `Connections` side by side; they share no
  state, so a behaviour uses one of them. `DataProofs`.

A program

- `Program` has both a session and its data. They share no state either, so a
  behaviour follows one of the two (`follows`). `MCProgram`.

Definitions named as mutants (`...Not`, `...Any` and so on) are not used by the
specifications. Each is the code with one plausible mistake, and TLC finds the
property that it breaks.

## Runs

| Run | Shows |
|---|---|
| `refs_early` | safety of the queue, also when the wait of `stop()` ends early |
| `refs_joined` | liveness of the queue, and that it implements `KeepAlive` |
| `life_shutdown` | safety of shutdown with proxy calls and hooks |
| `life_start` | initializers are called once; `shutdownJVM` returns |
| `life_lock` | **violated**: the Python lock is lost with a dead thread |
| `life_freed` | **violated**: a conversion that gives the lock up goes on with what `shutdownJVM` deleted |
| `over_overloads` | the sort, the search, the cache and the packing of arguments, over overloads and over types |
| `over_circle` | **violated**: a list of overloads that the sort never gets through |
| `py_customize` | one type object per class, customizers applied once and everywhere, requests return |
| `py_program` | class path, imports, proxies and the search for the JVM; containers against Python lists, pickles, transactions and settings |
| `py_threads` | attachment and monitors against the end of threads and of the JVM |
| `db_cursor` | cursors with every JDBC call free to raise: caches, leaks, lookups |

Bounds. `refs_early` has three references in pools of two slots: a pool fills, a
second one is made, a removal moves an entry, and the worker, `flush` and a
registration can be at work at once. `refs_joined` has two references in pools of
one slot: every `add` fills its pool and searches for the next, and no entry moves,
which only `refs_early` and the theorems cover. One collection of the sentinel is enough, since each leaves the
state it found. The lifecycle has one daemon thread and two hooks with a list of
two (each hook once, one twice, or edited by the other), or two starting threads,
one initializer, one user thread and one hook. Overloads are any choice of up to
three out of eight in any order, over a class, its subclass and the subclass of that,
instance, static and constructor, fixed and variable, or out of three that hide each
other in a chain that is not transitive; two calls are enough for one to find what the
other left in the cache. That a third call on another dispatch comes in between needs
three, which only the theorem covers. The same run has every pair of seventeen types with
one call, and the four overloads of `over_circle`, `MaxCircle` being their number: the
smallest circle found, of two interfaces that are not related, each with and without
variable arguments.

`py_customize` has two threads, both of which may register, and three customizers: with and
without initializer, plain and sticky, for the class and for the subclass. Three
classes are enough for a request to meet itself through a base and an inner class.
`py_program` bounds a session by `Workloads`: three calls on the class path, or one
and three imports, or one and four steps with proxies, since imports and proxies
meet only through the loader; two jars, one of them behind a pattern; four
machines on which the search goes different ways. `py_threads` has two threads of
four calls each: attach, enter twice, call back, and end or detach inside.
`db_cursor` has one connection, one cursor, two threads, two statements, results
of up to two rows and batches of two: a cursor has a statement to leave and one to
take over, and a second thread to be refused. Cursors share nothing but the
connection. Of the data, lists have up to three elements of two values and indices
from -4 to 3, so that each bound of a slice falls before, into and behind the list;
three dumps by two picklers, of two objects in two versions; two connections, two
threads and two rows. A program stops reading a file after a load that raised.

`CHECK_DEADLOCK FALSE` is set because every one of these
systems may come to rest: the queue is stopped, the process has exited, or no call
is made.

Symmetry is used for references, hooks and the threads of `db_cursor`, in runs of
invariants only.

Fairness. In `RefQueue` the worker, a registration that began (strongly, where it
waits for the monitor) and the thread in `stop()` go on; nothing makes a thread
register, an object die or the queue stop. In `Lifecycle` the thread in `shutdownJVM` and the Java hook thread go on,
and a thread in a proxy call goes on: waiting for the Python lock is under strong
fairness, since the interpreter's lock is passed to threads that wait, and a
Python method that gave the lock up returns. A user method that never returns
would keep `shutdownJVM` waiting for ever, which the code does not prevent. The
early end of `stop()`'s wait is excluded from `refs_joined`; what it breaks is below.
In `Customizers` a thread goes on unless it waits for the monitor of `newWrapper`,
and that monitor is given to a thread that waits: each thread makes finitely many
wrappers, so weak fairness is enough. In `Threads` the JVM goes on destroying and a
thread goes on to the end of its callbacks, `with` statements and code; its calls
are finitely many by the bound, and nothing makes the program shut down.

## Proofs

`RefQueueProofs` proves for any set of references and any pool size: `TypeOK`,
`ReleasedOnce`, `KeptWhileLive`, `AddInBounds`, `FlushComplete`, and that the
queue implements `KeepAlive` if the wait of `stop()` does not end early. The
invariants are not inductive as they stand. `Shape` holds in all behaviours: every
entry below `tail` is a stored reference, but for the slot that `add` has counted
and not yet written; the current pool has room; the monitor has one owner; and each
actor's locals agree with its program point. `Orderly` adds the exact account: which
references are held and by whom, that until `flush` a slot and its reference point
at each other and what `add` read of `tail` still holds, and what `flush` has yet to
visit. It holds until the wait of
`stop()` ends early, so the inductive invariant is `Shape /\ (early \/ Orderly)`.
There is one lemma for each action and part. The refinement maps the release of a
reference to `LetGo` and everything inside of the queue to stuttering.

`MethodResolutionProofs` proves of `sortMethods`, for any executables: that no
method is placed before a less specific one (`SortedOut`), that none is lost or
repeated, and that the loop is stuck for nothing but a circle, that is methods each of
which is strictly more specific than another of them, and gets through no circle
(`SortNeverStuck`). The inductive invariant says that the queue and the result
split the list and that everything a placed method must come after is before it.
`isMoreSpecificThan` is not expanded and nothing is assumed of it. There are circles of
legal Java methods, because the rules for variable arguments are not transitive; see
`over_circle`.

The same module proves of the whole of `Dispatch`, for any classes, methods, orders
of reflection, conversions, arguments and numbers of calls: `SortedOut` and
`SortNeverStuck` for every dispatch that is built, `MostSpecificWins`,
`AmbiguityIsReal`, `CacheTransparent` and `ArgumentsArrive`. `BuildInv` is the
invariant of the building: what is sorted are the candidates of the class, each
JPMethod made has the less specific methods of its class and name in its precedence
list and nothing that it is not more specific than (`Precedes`), and each finished
list has the more specific overload first and none twice (`Listed`). `CallInv` is
that of the calls: an answer is the one of the search, or one of the list that fits,
and a method that only one dispatch has is what its search found for the arguments
whose hash the method carries (`Remembers`). The loop of the search is a recursive
function; that it is defined, and what holds after each turn (`Known`, `Pair`,
`Leads`), is shown by induction as a set of good numbers without a least one missing
(`UpTo`, from the well-foundedness of the naturals). The conversions are the constant
operator `Quality`, which the runs define as `findJavaConversion`. Assumed: a fit is
one of the five qualities, and values that the hash of the cache does not tell apart
fit alike if their fit follows from their type (`QualityAssumption`); reflection
reports constructors under a name of their own, variable arguments as an array in
the last place (`MethodAssumption`) and no method twice (`OrdersAssumption`);
dispatches are of known classes that have objects (`DispatchesAssumption`). TLC
evaluates all four for the values of both runs.

`LifecycleProofs` proves `HandlersRestored`, `InitializersOnce` and `HooksServed` for
any Python threads, hooks, callers, initializers and configurations, and
`FreedUntouched`. A conversion may run Python code at any time and give the lock up;
such a call leaves the point `convert` for `suspended`, and when it has the lock back it is
at `resumed`, of which `FreedUntouched` says nothing and `life_freed` shows what becomes
of it. The invariant has a part for each argument: one thread at most is past
`JNI_CreateJavaVM` (`OneStart`); `m_Running` and the proxy flag follow the Java hook
(`HookOrder`); the handlers to be put back are not the JVM's (`Signals`); a function
waits in `JInitializers` once and has not run when its turn comes (`Waiting`); Python
code of a call runs with the lock (`LockKept`); hook threads that run were started by
this shutdown and are not joined yet (`HookThreads`, `HookCalls`). Callers are not the
model's `Nobody` (`CallerAssumption`).

`ThreadsProofs` proves `ExitDetaches` and `LockHeld` for any number of threads. The
invariant ties attachment to the registration of the exit callback until that has
run (`Registered`), and the count of the monitor to the statements that its owner is
in; a thread that lost the monitor may have entered it again, fewer times (`Counted`).

`CustomizersProofs` proves `OneType`, `OriginalKept` and `EveryHookRuns` for any classes, bases, inner
classes, threads and customizers. A thread works on its innermost frame and has the
monitor of `newWrapper`, and a class on the way to its type object is not in the cache
(`Nested`, `Cached`): this is why the second look into the cache, after the bases were
made, is enough. For the methods, a class whose entry has been touched keeps the Java
method under one of the two names from the moment the entry exists, also while a
registration is between its steps (`Originals`). What the lists of customizers hold
does not matter for these two, so their type is any set.

`EveryHookRuns` has an invariant of its own on top of that one (`HInv`). A customizer
counts from the moment its `__jclass_init__` is installed. From then on the entry of its
class has the hook (`Installed`), and so has what any other registration for the class
has read and will install over it (`Previous`). A class that asks its bases for their
hooks does so after all of them have asked theirs (`BasesReady`, `BasesFirst`), so it
finds the hook and has it on its list until it has run it. A class that had asked before
the hook was installed is reached by `_applyAll`, which goes from a class to its
subclasses: the set of such classes is fixed at the installing, and each of them has a
base in the set, up to the class of the customizer (`Walks`). When nothing is left to
do, a class of the set that is missing would have a base that is missing, and so on
without end. What the lists hold is proved by induction on the length, as a least
counterexample (`UpTo`), for `Keep` and `Inits`, which are recursive functions.

Assumed of the constants: bases and mro are sequences of classes; an mro has the class
first, then its bases, and nothing else than what these have (`ClassAssumption`,
`MroAssumption`), as Python's linearization gives; no class derives from itself
(`DerivationAssumption`); the names that stand for "no class" or "no thread" are
neither.

`SessionProofs` proves `TypeOK`, `PathsReachLoader`, `FinderFallsBack` and
`ProxyComplete` for any jars, adding threads, initializers, machines, Python classes and
interfaces. A jar that is owed is on the path that `startJVM` has read, in the loader, or
in the hands of a thread that has seen the JVM running (`Delivered`); the last case
holds although jars appear, because what an entry stands for only grows. A class that
keeps `__jpype_interfaces__` was checked against a class it derives from, and the
methods that were found there are inherited (`Checked`); this needs that the mro of a
base is part of the mro of the class (`MroAssumption`), which Python's linearization
gives. The first answer of a search is the least index of a set (`LeastIn`, from the
well-foundedness of finite sets). `MachineAssumption` lists the platforms.

`DbApiProofs` proves `TypeOK`, `CachesCurrent`, `NothingLeaked` and `LookupTotal` for any
connections, cursors, threads, statements and types of the program. The parts of the
invariant: `Registry` (every code has a type, and a name stands for itself),
`CursorsOK` (result set, columns, row ids and description of a cursor are of its own
statement), `CallsOK` (what a call in progress relies on at each of its points, given
that other threads are refused), `Own` (no two cursors share a statement), `Held` and
`Opened` (who still closes what is open), `Handed` (what the last fetch and the last
binding gave out). Assumed: each result of a query is a set of rows or a count, as
JDBC has it (`QueryAssumption`), and a type of the program has a name
(`UserAssumption`).

`DataProofs` proves `ConnectionHonest` for any connections, threads, rows and isolation
levels, from the agreement of the pending rows of a connection with what the program
knows of them, of dictionaries with their owners, and of the two errors of
`typeinfo` with the one it passes on. `LinkAssumption`: a connection is not named like
one of the two shared dictionaries.

The same module proves `PickleRoundTrip` for any objects, changes of them and dumps that
a program makes. `Mirrors` relates the tables of a writer to those of the reader that
has read all it wrote: the same objects at the same places, as copies in the version
that the writer met first, and wrappers in the memo that stand for objects in the
table. One item more keeps it, whether it is a reference to the memo (`FollowsHit`), to
the table of the stream (`FollowsRef`) or an object that is new (`FollowsNew`). A dump
is such items one after the other (`DumpSim`), by the induction `UpTo` over the
recursive functions `Saved` and `Loaded`. The inductive invariant `PInv` says that there
are tables for each pickle which a reader in order gets (`Readable`), that the pickler
mirrors the last of them as long as no dump has raised (`Current`), and that a reader
that has not raised either has these tables or has read something else (`Reading`). That
a reader out of order raises at its first part, and answers nothing, follows from the
header: who has opened the stream does not understand a header, and who has not
understands nothing else (`Misread`). `DumpsAssumption`: a dump has at least one item,
since a pickle without one says nothing of Java.

The invariants were checked by TLC on the instances of the runs before they were
proved.

Only model-checked:

- Liveness (`DestroyReturns`, `MonitorServed`, `RequestsReturn`, `ShutdownReturns` and
  those of the queue): out of the prover's reach.
- `HiddenFitsToo`: it compares the table of wider types in Java with the chains of
  rules of `findJavaConversion`, which is recursive.
- `ImportsResolve`: an import folds over the parts of a dotted name.
- `ContainersAgree`: what each wrapper computes over whole sequences, against what
  Python computes over them.

## Where the code and its documentation disagree

With a run: `life_lock`, `life_freed` and `over_circle`, see `findings` in
`PROJECT.json`. `life_freed`: the test of `m_Running` in `hostInvoke` comes before the
conversion of the result, which may run Python code and let `shutdownJVM` delete the
class objects meanwhile (`jp_proxy.cpp:191`, against the comment in line 72).
`over_circle`: `MethodResolution.java:95` has no other way out of its loop than a method
that can be placed, and overloads with and without variable arguments may be more
specific than each other in a circle.

Met on the way, and left out of the properties by the condition or the definition
named:

Reference queue and lifecycle

- `JPypeReferenceQueue.java:116`: when the ten seconds of `stop()`'s wait run out
  while the worker holds a reference, `flush()` and the worker both drop it, against
  "MATCH TO DECREF IN releasePython" (`jp_reference_queue.cpp:90`). `ReleasedOnce`
  speaks of the time before (`early`).
- `JPypeReferenceSet.java:101`: a registration that read `isStopped` before
  `stop()` may append a pool while `flush` iterates; the iterator throws and the
  references of the remaining pools stay (`FlushComplete` counts such
  registrations as `late`).
- `JPypeReferenceQueue.java:144`: `getQueueSize` is not reset by `flush`.
- `JPypeContext.java:233`: a hook added twice makes the loop that starts the hooks
  throw; proxies are not disabled and `m_Running` stays set (`fault`).
- `jp_context.cpp:526`: a second shutdown of a destroyed JVM installs its fault
  handlers again for the time of the call.
- `_jinit.py:57`: a function appended between the end of the loop and `clear()` is
  never called.
- `_core.py:262`: a thread between the tests of `startJVM` and the start goes on
  after another one started and shut down the JVM (only the main thread is in
  `life_shutdown`).
- `jp_context.cpp:781`: `detach()` in a callback from Java is refused by the JVM,
  but the slot of the exit callback is cleared, so the thread stays attached after
  its end (`refused`). `detach()` inside `with synchronized` gives the monitor up
  (`dropped`).

Calls

- `jp_methoddispatch.cpp:218`: the hash that guards the cached overload belongs to
  the method, which the dispatches of a class and its subclass share. `B.f(1)`,
  `A.f(s)`, `B.f(s)` for a Java String `s` takes the inherited `f(Object)` although
  B declares `f(String)`; `userguide.rst:2302` says that "the cache will always yield
  the proper resolution". The superclass is not safe either: with `f()`
  in A, overridden in B, and a static `A.f(A)`, the call `A.f(a)` for an A `a` is
  taken by `f()`, but by `f(A)` after `a.f(a)` and `B.f(a)`.
  `CacheTransparent` speaks of answers that no other dispatch has (`Alone`).
- `jp_methoddispatch.cpp:100`: an exact match that comes after two ambiguous
  implicit ones does not clear the ambiguity: `f(char)`, `f(char[])` and `f(String)`
  with a `str` of one character raise; `userguide.rst:2323` gives precedence to the
  exact one. The same list is kept when an overload that fits the way of calling
  takes over (`jp_methoddispatch.cpp:121`).
- `jp_method.cpp:124-132`, `188-193`: a static method with variable arguments that
  is called through an object looks for the array one place too early, and packs
  it into the wrong place (`OutOfRange`, the exception in `ArgumentsArrive`).
- `TypeManager.java:763`: an inherited overload keeps the precedence list made for
  the class that declares it, so it never hides an overload that a subclass adds
  (`OneClass`).
- The cache compares types: for sequences, for a `str` of one character and for
  proxies the fit depends on the value, and the answer on the call before (`ByType`).
- `jp_methoddispatch.cpp:107`: hiding is not transitive, since int is more specific
  than Integer and Integer than Object, but int not than Object. With an instance
  `f(int)` and static `f(A, Integer)` and `f(A, Object)`, `A.f(a, 5)` is taken by
  `f(int)` first, which hides `f(A, Integer)` although that fits the way of calling;
  then `f(A, Object)` takes over (the exception in `MostSpecificWins`).

Wrappers and sessions

- `_jcustomizer.py:296`: a customizer that is registered after `applyCustomizers`
  read the list and before `instantiated` is set is never applied to that class;
  of two customizers that are registered for one class at the same moment, one may
  lose its `__jclass_init__` for classes made later (`kept`, `Meanwhile`).
- `pyjp_class.cpp:1698`: the wrapper is visible to other threads before its
  initializers ran.
- `_jproxy.py:69`: a class decorated with `deferred=True` finds the
  `__jpype_interfaces__` that the first instance of a parent left, and implements
  the interfaces of the parent instead of its own (`ProxyComplete` speaks of the
  interfaces an instance has). `_jproxy.py:91`: a proxy that is not deferred runs
  `__init__` twice.
- `_classpath.py:57`: an entry added between the reading of the path and the running
  JVM is lost; `_core.py:168`: a default path whose last entry ends with `*` without
  being `*` loses all its entries; `_classpath.py:33` promises that an entry may be "a
  glob pattern", which is expanded only where it is the whole path (the three exceptions
  of `PathsReachLoader`: `Meant` is what the documentation says an entry stands for,
  `Findable` what the loader makes of it, `Owed` what is left to promise).
- `_jvmfinder.py:239`: only the first of the known homes is tried, since
  `find_libjvm` raises instead of answering None (`known_locations`).
- `imports.py:231`: packages below one that is named by a keyword cannot be
  imported (`BelowKeyword`); an alias with a dot is ignored by `create_module`, so
  the `Domains` of the run have none. An initializer that raises leaves Java without the list of
  keywords (`_core.py:486`).

Databases

- `dbapi2.py:178`: the getter of BIT answers false for an SQL NULL (`LookupTotal`).
  A type of the program that takes the code of another makes `GETTERS_BY_TYPE` raise
  KeyError.
- `dbapi2.py:533`: when `setAutoCommit` raises after the connection was made, the
  finalizer fails too and the connection stays open (`lost`).
- `dbapi2.py:610`: `close()` only closes the JDBC connection, which may commit or roll
  back what is open as the driver likes; lines 637 and 664 say that it rolls back.
  `CloseLink` takes either, and `ConnectionHonest` promises nothing of such rows.
- `dbapi2.py:846`: the result set is replaced before its columns are counted and the
  column types of the old one are cleared after; when the count raises, a fetch decodes
  rows of the new set with types of the old one. `dbapi2.py:1139`: an `execute` of
  another thread is refused only after it has replaced the parameter types, with which
  the owner's statement, if one is under way, goes on (`counted` and `disturbed`, the two exceptions in `CachesCurrent`).
- `dbapi2.py:952`: the description is kept across `nextset`. `callproc` with an out
  parameter calls a method that Cursor does not have; `connect` ignores its keyword
  arguments without `driver_args`.

Data

- `_jcollection.py:110`: `del l[-6:]` on a short list adjusts the bound twice and
  deletes another range (`AdjustedTwice`). `l.index(x)` answers -1 for a missing
  element, `l += x` adds x as one element, and a slice assignment empties the range
  before it looks at the value (`Other`). Deleting a missing key of a map raises
  nothing.
- `_jcollection.py:210`: `m[k]` asks twice and answers None for a key that came in
  between.
- `pickle.py:101`: after a dump that raised the Java stream of the pickler is ahead
  of the file; a later load raises or returns another object (`clean`).
- `_jio.py:49`: an error of `close()` in a `with` statement inside of an exception
  handler is swallowed (excepted in `ConnectionHonest`).

## Not modelled

`System.exit` from Java, the Windows and Android variants, `freeJVM`, a change of
`jpype.config` after the start, and file systems beyond small tables, text and
documentation rendering. A hash of argument types has no collisions in the model.
Of the native code, the collector coupling depends on measured memory and elapsed
time; the type factory, the frames, the exceptions and the value slots are next in
the plan. Buffers, views, number widths and encodings are pure functions over
large domains. Beans, comparisons, dates, paths and the GUI glue are wrappers
without state. The tools under `project/` and `doc/` are not part of JPype's
runtime. The components with status `not_modelled` in `PROJECT.json` say why or
when.

## Plan

1. Done: the reference queue with its refinement and proofs; the lifecycle; the
   overload order with its proofs; dispatch and conversion rules.
2. Done: threads and monitors; class wrappers and customizers; class path, imports
   and proxy classes; the database API; containers, pickles and connections.
3. Done: proofs for the lifecycle, threads, customizers, session, database and
   connections, pickles, and for the search, the cache and the packing of a call. Next:
   the first part of `ImportsResolve`, and that executables with a fixed number of
   arguments make no circle.
4. `TypeManager` and `TypeFactory`: classes on demand, re-entrant population,
   failure half-way, destruction in the order of ownership. Abstract
   specification: a map that only grows until it is destroyed once.
5. `Exceptions` over `JavaFrame`: conversion and rethrow in both directions with
   nested calls; no exception is lost or reported twice, no local reference is used
   after its frame.
6. `Collectors`: the forced collection and its callbacks against the shutdown; value
   slots and their release against the reference queue.
