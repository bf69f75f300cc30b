------------------------------ MODULE Customizers ------------------------------
(***************************************************************************)
(* How the Python wrapper of a Java class is made, and how the customizers *)
(* that a program registers reach it and the classes derived from it.      *)
(*                                                                         *)
(* JClass(c) of a class without wrapper goes through the Java monitor of   *)
(* JPypeContext.newWrapper, giving up the Python lock on the way, and then *)
(* through PyJPClass_hook: the wrappers of the bases, _jclassPre, the type *)
(* object, _jclassPost.  All of these may be entered again by the same     *)
(* thread, for a base or for an inner class.  A thread may be stopped      *)
(* between any two of the steps below.                                     *)
(*                                                                         *)
(* One Java method stands for all: the entry dict[c].m of a wrapper is the *)
(* Java method, a method of a customizer, or missing; dict[c].orig is the  *)
(* entry that JOverride(rename=...) names.  dict[c].init is what           *)
(* __jclass_init__ of the wrapper calls, in order.                         *)
(***************************************************************************)
EXTENDS Naturals, Sequences, SequencesExt, FiniteSets, Lists

CONSTANTS
  Class,       \* Java classes
  Thread,      \* Python threads
  Proto,       \* customizers: [target, init, override]
  Bases,       \* [Class -> Seq(Class)], as PyJPClass_getBases lists them
  Mro,         \* [Class -> Seq(Class)], the class itself first
  Inner,       \* [Class -> SUBSET Class], the public inner classes
  Owners       \* classes that declare the Java method

ASSUME BasesAssumption == Bases \in [Class -> Seq(Class)] /\ Mro \in [Class -> Seq(Class)]
ASSUME ClassAssumption ==
  \A c \in Class : /\ Mro[c] # <<>> /\ Head(Mro[c]) = c
                   /\ ToSet(Bases[c]) \subseteq ToSet(Tail(Mro[c]))
                   /\ Inner[c] \subseteq Class

\* A linearization has nothing but the class and what its bases have, and no class
\* derives from itself.
ASSUME MroAssumption ==
  \A c \in Class : \A b \in ToSet(Mro[c]) \ {c} : \E d \in ToSet(Bases[c]) : b \in ToSet(Mro[d])
ASSUME DerivationAssumption ==
  \A S \in SUBSET Class : S # {} => \E c \in S : ToSet(Bases[c]) \cap S = {}
ASSUME ProtoAssumption ==
  \A p \in Proto : p.target \in Class /\ p.override \in {"none", "plain", "sticky"}
ASSUME ThreadAssumption == "none" \notin Thread
ASSUME NameAssumption == "java" \notin Class /\ "missing" \notin Class

Java == [target |-> "java", init |-> FALSE, override |-> "none"]
Missing == [Java EXCEPT !.target = "missing"]
NoThread == "none"

VARIABLES
  hints,    \* JClassHints of the classes
  host,     \* the classes with a wrapper
  dict,     \* the members of the wrappers
  stack,    \* what each thread is making, the innermost last
  lock,     \* the owner of the monitor
  reg,      \* the registration each thread is in
  ran,      \* history: the customizers whose __jclass_init__ ran on a class
  kept,     \* history: registered, but not while the class was half made or together
            \* with another one for the class
  made,     \* history: the number of type objects made for a class
  failed    \* history: classes whose _jclassPost raised

vars == <<hints, host, dict, stack, lock, reg, ran, kept, made, failed>>
history == <<kept, made, failed>>

NoReg == [pc |-> "idle", p |-> Missing, prev |-> <<>>, todo |-> {}, applied |-> {}]
Empty == [m |-> Missing, orig |-> Missing, init |-> <<>>]

Init ==
  /\ hints = [c \in Class |-> [implementations |-> <<>>, instantiated |-> FALSE]]
  /\ host = {}
  /\ dict = [c \in Class |-> Empty]
  /\ stack = [t \in Thread |-> <<>>]
  /\ lock = NoThread
  /\ reg = [t \in Thread |-> NoReg]
  /\ ran = [c \in Class |-> {}]
  /\ kept = {}
  /\ made = [c \in Class |-> 0]
  /\ failed = {}

-------------------------------------------------------------------------------
\* What a customizer adds.

Hooks(kind, protos) == [i \in DOMAIN protos |-> [kind |-> kind, p |-> protos[i]]]
WithInit == {p \in Proto : p.init}
WithSticky == {p \in Proto : p.override = "sticky"}
WithPlain == {p \in Proto : p.override = "plain"}

\* The inits first, then the sticky methods.
Chain(protos) ==
  Hooks("init", Keep(protos, WithInit)) \o Hooks("sticky", Keep(protos, WithSticky))

\* _applyCustomizerImpl: the methods are copied, and the Java method that one of
\* them replaces is kept under the other name.
Copied(d, protos) ==
  LET plain == Keep(protos, WithPlain)
  IN  IF plain = <<>> THEN d
      ELSE [d EXCEPT !.m = Last(plain), !.orig = IF d.m = Java THEN Java ELSE @]

\* Mutant: whatever the entry holds is taken for the original.
StickyAlways(d, p) == [d EXCEPT !.m = p, !.orig = IF d.m # Missing THEN d.m ELSE @]

\* _applyStickyMethods
Sticky(d, p) == [d EXCEPT !.m = p, !.orig = IF d.m = Java THEN Java ELSE @]

\* One call of a __jclass_init__ with the class c.
Call(h, c) ==
  /\ ran' = IF h.kind = "init" THEN [ran EXCEPT ![c] = @ \cup {h.p}] ELSE ran
  /\ dict' = IF h.kind = "sticky" THEN [dict EXCEPT ![c] = Sticky(@, h.p)] ELSE dict

-------------------------------------------------------------------------------
\* Making a wrapper.

Top(t) == Last(stack[t])
At(t, pc) == stack[t] # <<>> /\ Top(t).pc = pc
Frame(c, pc) == [cls |-> c, pc |-> pc, todo |-> <<>>]
Goto(t, pc) == stack' = [stack EXCEPT ![t][Len(stack[t])].pc = pc]
Push(t, c) == stack' = [stack EXCEPT ![t] = Append(@, Frame(c, "hook"))]

\* The monitor is left when the outermost call returns.
Pop(t) ==
  /\ stack' = [stack EXCEPT ![t] = Front(@)]
  /\ lock' = IF Len(stack[t]) = 1 THEN NoThread ELSE lock

\* JClass(c), PyJPClass_create: a wrapper that is there is returned at once.
JClass(t, c) ==
  /\ stack[t] = <<>> /\ reg[t].pc = "idle"
  /\ c \notin host
  /\ stack' = [stack EXCEPT ![t] = <<Frame(c, "enter")>>]
  /\ UNCHANGED <<hints, host, dict, lock, reg, ran, history>>

\* newWrapper goes single file.
Enter(t) ==
  /\ At(t, "enter")
  /\ lock = NoThread
  /\ lock' = t
  /\ Goto(t, "hook")
  /\ UNCHANGED <<hints, host, dict, reg, ran, history>>

\* PyJPClass_hook: somebody else may have made the wrapper.
Hook(t) ==
  /\ At(t, "hook")
  /\ IF Top(t).cls \in host THEN Pop(t) ELSE Goto(t, "bases") /\ UNCHANGED lock
  /\ UNCHANGED <<hints, host, dict, reg, ran, history>>

\* The first base that has no wrapper yet.
NextBase(c, b) ==
  \E i \in DOMAIN Bases[c] : /\ b = Bases[c][i] /\ b \notin host
                            /\ \A j \in 1 .. i - 1 : Bases[c][j] \in host

\* Mutant: no second look at the cache.
BasesUnchecked(t) ==
  /\ At(t, "bases")
  /\ \/ \E b \in Class : NextBase(Top(t).cls, b) /\ Push(t, b) /\ UNCHANGED lock
     \/ ToSet(Bases[Top(t).cls]) \subseteq host /\ Goto(t, "pre") /\ UNCHANGED lock
  /\ UNCHANGED <<hints, host, dict, reg, ran, history>>

\* PyJPClass_getBases makes the wrappers of the bases, and those may have made
\* this one as well.
MakeBases(t) ==
  /\ At(t, "bases")
  /\ \/ \E b \in Class : NextBase(Top(t).cls, b) /\ Push(t, b) /\ UNCHANGED lock
     \/ /\ ToSet(Bases[Top(t).cls]) \subseteq host
        /\ IF Top(t).cls \in host THEN Pop(t) ELSE Goto(t, "pre") /\ UNCHANGED lock
  /\ UNCHANGED <<hints, host, dict, reg, ran, history>>

\* _jclassPre, applyCustomizers
Pre(t) ==
  /\ At(t, "pre")
  /\ LET c == Top(t).cls
         own == [Empty EXCEPT !.m = IF c \in Owners THEN Java ELSE Missing]
         impls == hints[c].implementations
     IN  dict' = [dict EXCEPT ![c] = [Copied(own, impls) EXCEPT !.init = Chain(impls)]]
  /\ Goto(t, "make")
  /\ UNCHANGED <<hints, host, lock, reg, ran, history>>

\* The type object is made and put into the cache.
Make(t) ==
  /\ At(t, "make")
  /\ host' = host \cup {Top(t).cls}
  /\ made' = [made EXCEPT ![Top(t).cls] = @ + 1]
  /\ Goto(t, "mark")
  /\ UNCHANGED <<hints, dict, lock, reg, ran, kept, failed>>

\* _jclassPost, applyInitializer
Mark(t) ==
  /\ At(t, "mark")
  /\ hints' = [hints EXCEPT ![Top(t).cls].instantiated = TRUE]
  /\ Goto(t, "collect")
  /\ UNCHANGED <<host, dict, lock, reg, ran, history>>

\* The __jclass_init__ of the bases, the most distant one first.
Inits(c) ==
  LET inits[i \in 0 .. Len(Mro[c])] ==
        IF i = 0 THEN <<>> ELSE dict[Mro[c][i]].init \o inits[i - 1]
  IN inits[Len(Mro[c])]

Collect(t) ==
  /\ At(t, "collect")
  /\ stack' = [stack EXCEPT ![t][Len(stack[t])] =
                 [@ EXCEPT !.pc = "init", !.todo = Inits(Top(t).cls)]]
  /\ UNCHANGED <<hints, host, dict, lock, reg, ran, history>>

RunInit(t) ==
  /\ At(t, "init") /\ Top(t).todo # <<>>
  /\ Call(Head(Top(t).todo), Top(t).cls)
  /\ stack' = [stack EXCEPT ![t][Len(stack[t])].todo = Tail(@)]
  /\ UNCHANGED <<hints, host, lock, reg, history>>

InitDone(t) ==
  /\ At(t, "init") /\ Top(t).todo = <<>>
  /\ Goto(t, "inner")
  /\ UNCHANGED <<hints, host, dict, lock, reg, ran, history>>

\* The public inner classes get their wrappers.
MakeInner(t) ==
  /\ At(t, "inner")
  /\ IF Inner[Top(t).cls] \subseteq host THEN Pop(t)
     ELSE \E c \in Inner[Top(t).cls] \ host : Push(t, c) /\ UNCHANGED lock
  /\ UNCHANGED <<hints, host, dict, reg, ran, history>>

\* Mutant: the monitor is not left when an error passes.
InitRaisesLocked(t) ==
  /\ At(t, "init") /\ Top(t).todo # <<>>
  /\ failed' = failed \cup {stack[t][i].cls : i \in {j \in DOMAIN stack[t] : stack[t][j].cls \in host}}
  /\ stack' = [stack EXCEPT ![t] = <<>>]
  /\ UNCHANGED <<hints, host, dict, lock, reg, ran, kept, made>>

\* A __jclass_init__ raises.  The error passes through all that the thread is
\* making; wrappers that are in the cache stay there.
InitRaises(t) ==
  /\ At(t, "init") /\ Top(t).todo # <<>>
  /\ failed' = failed \cup {stack[t][i].cls : i \in {j \in DOMAIN stack[t] : stack[t][j].cls \in host}}
  /\ stack' = [stack EXCEPT ![t] = <<>>]
  /\ lock' = NoThread
  /\ UNCHANGED <<hints, host, dict, reg, ran, kept, made>>

-------------------------------------------------------------------------------
\* JImplementationFor.

Registered == UNION {ToSet(hints[c].implementations) : c \in Class}

\* The class is between applyCustomizers and applyInitializer.
HalfMade(c) ==
  \E t \in Thread : \E i \in DOMAIN stack[t] :
    stack[t][i].cls = c /\ stack[t][i].pc \in {"make", "mark"}

\* Others that are being registered for the class: of two __jclass_init__ that are
\* installed over the same one, one is lost.
Meanwhile(c) ==
  {reg[t].p : t \in {u \in Thread : reg[u].pc \in {"copy", "chain"} /\ reg[u].p.target = c}}

\* registerClassImplementation
Register(t, p) ==
  /\ stack[t] = <<>> /\ reg[t].pc = "idle"
  /\ p \notin Registered
  /\ hints' = [hints EXCEPT ![p.target].implementations = Append(@, p)]
  /\ kept' = IF HalfMade(p.target) \/ Meanwhile(p.target) # {} THEN kept \ Meanwhile(p.target)
             ELSE kept \cup {p}
  /\ reg' = IF hints[p.target].instantiated
            THEN [reg EXCEPT ![t] = [NoReg EXCEPT !.pc = "copy", !.p = p]] ELSE reg
  /\ UNCHANGED <<host, dict, stack, lock, ran, made, failed>>

\* _applyCustomizerPost copies the methods, and reads __jclass_init__.
PostCopy(t) ==
  LET p == reg[t].p
  IN
  /\ reg[t].pc = "copy"
  /\ dict' = [dict EXCEPT ![p.target] = Copied(@, <<p>>)]
  /\ reg' = [reg EXCEPT ![t].pc = "chain", ![t].prev = dict[p.target].init]
  /\ UNCHANGED <<hints, host, stack, lock, ran, history>>

\* Mutant: the new __jclass_init__ forgets the one before.
PostChainFresh(t) ==
  LET p == reg[t].p
  IN
  /\ reg[t].pc = "chain"
  /\ dict' = IF Chain(<<p>>) = <<>> THEN dict ELSE [dict EXCEPT ![p.target].init = Chain(<<p>>)]
  /\ reg' = [reg EXCEPT ![t] = IF p.init THEN [@ EXCEPT !.pc = "all", !.todo = {p.target}] ELSE NoReg]
  /\ UNCHANGED <<hints, host, stack, lock, ran, history>>

\* It installs a __jclass_init__ that calls the one it has read.
PostChain(t) ==
  LET p == reg[t].p
  IN
  /\ reg[t].pc = "chain"
  /\ dict' = IF Chain(<<p>>) = <<>> THEN dict
             ELSE [dict EXCEPT ![p.target].init = reg[t].prev \o Chain(<<p>>)]
  /\ reg' = [reg EXCEPT ![t] = IF p.init THEN [@ EXCEPT !.pc = "all", !.todo = {p.target}] ELSE NoReg]
  /\ UNCHANGED <<hints, host, stack, lock, ran, history>>

\* _applyAll: the class and its subclasses, as far as they have wrappers.
ApplyNext(t) ==
  /\ reg[t].pc = "all"
  /\ \E c \in reg[t].todo :
       /\ ran' = [ran EXCEPT ![c] = @ \cup {reg[t].p}]
       /\ LET applied == reg[t].applied \cup {c}
              todo == (reg[t].todo \cup {d \in host : c \in ToSet(Bases[d])}) \ applied
          IN  reg' = [reg EXCEPT ![t] = IF todo = {} THEN NoReg
                                        ELSE [@ EXCEPT !.todo = todo, !.applied = applied]]
  /\ UNCHANGED <<hints, host, dict, stack, lock, history>>

-------------------------------------------------------------------------------
Step(t) ==
  \/ Enter(t) \/ Hook(t) \/ MakeBases(t) \/ Pre(t) \/ Make(t) \/ Mark(t) \/ Collect(t)
  \/ RunInit(t) \/ InitDone(t) \/ MakeInner(t) \/ InitRaises(t)

Registering(t) == PostCopy(t) \/ PostChain(t) \/ ApplyNext(t)

Next ==
  \/ \E t \in Thread, c \in Class : JClass(t, c)
  \/ \E t \in Thread : Step(t) \/ Registering(t)
  \/ \E t \in Thread, p \in Proto : Register(t, p)

\* A thread that is not waiting for the monitor goes on, and the monitor is given
\* to one that waits.
Fairness == \A t \in Thread : WF_vars(Step(t)) /\ WF_vars(Registering(t))

Spec == Init /\ [][Next]_vars /\ Fairness

-------------------------------------------------------------------------------
\* However threads and nested calls meet, a Java class has one type object: what
\* isinstance and the type cache of the native code take for granted.
OneType == \A c \in Class : made[c] \leq 1

\* The wrapper is finished.
Finished(c) == /\ c \in host \ failed
               /\ \A t \in Thread : c \notin {stack[t][i].cls : i \in DOMAIN stack[t]}
Settled(p) == p \in kept /\ \A t \in Thread : reg[t].p # p

\* The __jclass_init__ of a customizer reaches its class and every class derived
\* from it, whether that was made before the registration, after it, or by another
\* thread meanwhile, and whatever customizers were registered before or after; the
\* exception is a class whose own set-up raised.
EveryHookRuns ==
  \A c \in Class, p \in Proto :
    Finished(c) /\ p.init /\ Settled(p) /\ p.target \in ToSet(Mro[c]) => p \in ran[c]

\* A method that replaces a Java method finds that Java method under the other
\* name, never itself or another replacement (which would recurse for ever).
OriginalKept ==
  \A c \in Class :
    /\ dict[c].orig \in {Java, Missing}
    /\ c \in Owners /\ dict[c].m \in Proto => dict[c].orig = Java

\* A thread that asks for a wrapper gets it, or an error, and a registration ends.
RequestsReturn ==
  \A t \in Thread : stack[t] # <<>> \/ reg[t].pc # "idle" ~> stack[t] = <<>> /\ reg[t].pc = "idle"
===============================================================================
