--------------------------- MODULE CustomizersProofs ---------------------------
(***************************************************************************)
(* One type object for a class, the Java method under the name of the      *)
(* original, and the hooks of the customizers on every class they are for, *)
(* for any classes, threads and customizers.                               *)
(*                                                                         *)
(* What the lists of customizers and of __jclass_init__ hold does not      *)
(* matter for the first two, so the type invariant says of them only that  *)
(* they are in some set U; Contents says it for the third.                 *)
(***************************************************************************)
EXTENDS Customizers, SequenceTheorems, WellFoundedInduction, FiniteSetTheorems, TLAPS

Points == {"enter", "hook", "bases", "pre", "make", "mark", "collect", "init", "inner"}
FrameType(U) == [cls : Class, pc : Points, todo : U]
DictType(U) == [m : U, orig : {Java, Missing}, init : U]
HintsType(U) == [implementations : U, instantiated : BOOLEAN]
RegType(U) == [pc : {"idle", "copy", "chain", "all"}, p : Proto \cup {Missing}, prev : U, todo : U,
               applied : U]

Typed(U) ==
  /\ hints \in [Class -> HintsType(U)]
  /\ host \subseteq Class
  /\ dict \in [Class -> DictType(U)]
  /\ stack \in [Thread -> Seq(FrameType(U))]
  /\ reg \in [Thread -> RegType(U)]
  /\ made \in [Class -> Nat]

TypeOK == \E U : Typed(U)

\* A thread works on the innermost frame and has the monitor; a class on the way
\* to its type object has none yet.
Nested ==
  \A t \in Thread : \A i \in 1 .. Len(stack[t]) :
    /\ i < Len(stack[t]) => stack[t][i].pc \in {"bases", "inner"}
    /\ stack[t][i].pc = "enter" => Len(stack[t]) = 1
    /\ stack[t][i].pc # "enter" => lock = t
    /\ stack[t][i].pc \in {"pre", "make"} => stack[t][i].cls \notin host

Cached == \A c \in Class : made[c] <= 1 /\ (c \notin host => made[c] = 0)

\* The entries of an owner of the Java method still have it, under one name or
\* the other.
Prepared(c) == c \in Owners => dict[c].m = Java \/ dict[c].orig = Java

Originals ==
  /\ \A c \in Class : Prepared(c) \/ dict[c].m = Missing
  /\ \A c \in Class : hints[c].instantiated => Prepared(c)
  /\ \A t \in Thread : \A i \in 1 .. Len(stack[t]) :
       stack[t][i].pc \in {"make", "mark", "collect", "init", "inner"} => Prepared(stack[t][i].cls)
  /\ \A t \in Thread : reg[t].pc # "idle" => reg[t].p \in Proto /\ Prepared(reg[t].p.target)

IInv == TypeOK /\ Nested /\ Cached /\ Originals

-------------------------------------------------------------------------------
\* The types in a larger set.
LEMMA TypedMonotonic ==
  ASSUME NEW U, NEW W, U \subseteq W, Typed(U)
  PROVE  Typed(W)
<1>1. FrameType(U) \subseteq FrameType(W) /\ DictType(U) \subseteq DictType(W)
  BY DEF FrameType, DictType
<1>2. HintsType(U) \subseteq HintsType(W) /\ RegType(U) \subseteq RegType(W)
  BY DEF HintsType, RegType
<1>3. Seq(FrameType(U)) \subseteq Seq(FrameType(W))
  BY <1>1, SeqMonotonic
<1> QED
  BY <1>1, <1>2, <1>3 DEF Typed

\* The innermost frame of a thread is at another point.
Moved(t, pc) ==
  /\ \A u \in Thread : u # t => stack'[u] = stack[u]
  /\ Len(stack'[t]) = Len(stack[t]) /\ Len(stack[t]) \in 1 .. Len(stack[t])
  /\ \A i \in 1 .. Len(stack[t]) : /\ stack'[t][i].cls = stack[t][i].cls
                                   /\ i < Len(stack[t]) => stack'[t][i].pc = stack[t][i].pc
  /\ stack'[t][Len(stack[t])].pc = pc

\* The three changes of a stack.
LEMMA TopStack ==
  ASSUME NEW U, stack \in [Thread -> Seq(FrameType(U))], NEW t \in Thread, stack[t] # <<>>,
         NEW top \in FrameType(U), top.cls = stack[t][Len(stack[t])].cls,
         stack' = [stack EXCEPT ![t] = [stack[t] EXCEPT ![Len(stack[t])] = top]]
  PROVE  stack' \in [Thread -> Seq(FrameType(U))] /\ Moved(t, top.pc)
<1> DEFINE n == Len(stack[t])
<1>1. n \in 1 .. n
  BY EmptySeq, LenProperties
<1>2. /\ [stack[t] EXCEPT ![n] = top] \in Seq(FrameType(U))
      /\ Len([stack[t] EXCEPT ![n] = top]) = n
      /\ \A i \in 1 .. n : [stack[t] EXCEPT ![n] = top][i] = IF i = n THEN top ELSE stack[t][i]
  BY <1>1, ExceptSeq
<1> QED
  BY <1>1, <1>2 DEF Moved

LEMMA GotoStack ==
  ASSUME NEW U, stack \in [Thread -> Seq(FrameType(U))], NEW t \in Thread, stack[t] # <<>>,
         NEW pc \in Points, Goto(t, pc)
  PROVE  stack' \in [Thread -> Seq(FrameType(U))] /\ Moved(t, pc)
<1>1. PICK top : top = [stack[t][Len(stack[t])] EXCEPT !.pc = pc]
  OBVIOUS
<1>2. Len(stack[t]) \in 1 .. Len(stack[t]) /\ stack[t][Len(stack[t])] \in FrameType(U)
  BY EmptySeq, LenProperties, ElementOfSeq
<1>3. top \in FrameType(U) /\ top.pc = pc /\ top.cls = stack[t][Len(stack[t])].cls
  BY <1>1, <1>2 DEF FrameType
<1>4. stack' = [stack EXCEPT ![t] = [stack[t] EXCEPT ![Len(stack[t])] = top]]
  BY <1>1 DEF Goto
<1> QED
  BY <1>3, <1>4, TopStack

LEMMA PushStack ==
  ASSUME NEW U, stack \in [Thread -> Seq(FrameType(U))], <<>> \in U, NEW t \in Thread,
         NEW c \in Class, Push(t, c)
  PROVE  /\ stack' \in [Thread -> Seq(FrameType(U))]
         /\ \A u \in Thread : u # t => stack'[u] = stack[u]
         /\ Len(stack'[t]) = Len(stack[t]) + 1
         /\ \A i \in 1 .. Len(stack[t]) : stack'[t][i] = stack[t][i]
         /\ stack'[t][Len(stack[t]) + 1].pc = "hook"
<1>1. Frame(c, "hook") \in FrameType(U) /\ Frame(c, "hook").pc = "hook"
  BY DEF Frame, FrameType, Points
<1>2. stack' = [stack EXCEPT ![t] = Append(stack[t], Frame(c, "hook"))]
  BY DEF Push
<1> QED
  BY <1>1, <1>2, AppendProperties

LEMMA PopStack ==
  ASSUME NEW U, stack \in [Thread -> Seq(FrameType(U))], NEW t \in Thread, stack[t] # <<>>, Pop(t)
  PROVE  /\ stack' \in [Thread -> Seq(FrameType(U))]
         /\ \A u \in Thread : u # t => stack'[u] = stack[u]
         /\ Len(stack'[t]) = Len(stack[t]) - 1 /\ Len(stack[t]) \in Nat \ {0}
         /\ \A i \in 1 .. Len(stack[t]) - 1 : stack'[t][i] = stack[t][i]
<1>1. Len(stack[t]) \in Nat \ {0}
  BY EmptySeq, LenProperties
<1>2. stack' = [stack EXCEPT ![t] = SubSeq(stack[t], 1, Len(stack[t]) - 1)]
  BY DEF Pop, Front
<1>3. /\ SubSeq(stack[t], 1, Len(stack[t]) - 1) \in Seq(FrameType(U))
      /\ Len(SubSeq(stack[t], 1, Len(stack[t]) - 1)) = Len(stack[t]) - 1
      /\ \A i \in 1 .. Len(stack[t]) - 1 : SubSeq(stack[t], 1, Len(stack[t]) - 1)[i] = stack[t][i]
  <2> DEFINE n == Len(stack[t]) - 1
  <2>1. n \in Nat /\ n \in Int /\ 1 \in Int
    BY <1>1
  <2>2. \A i \in 1 .. n : stack[t][i] \in FrameType(U)
    BY <1>1, ElementOfSeq
  <2> HIDE DEF n
  <2>3. /\ SubSeq(stack[t], 1, n) \in Seq(FrameType(U))
        /\ Len(SubSeq(stack[t], 1, n)) = IF 1 <= n THEN n - 1 + 1 ELSE 0
        /\ \A i \in 1 .. n - 1 + 1 : SubSeq(stack[t], 1, n)[i] = stack[t][1 + i - 1]
    BY <2>1, <2>2, SubSeqProperties
  <2>4. /\ SubSeq(stack[t], 1, n) \in Seq(FrameType(U))
        /\ Len(SubSeq(stack[t], 1, n)) = n
        /\ \A i \in 1 .. n : SubSeq(stack[t], 1, n)[i] = stack[t][i]
    BY <2>1, <2>3
  <2> QED
    BY <2>4 DEF n
<1> QED
  BY <1>1, <1>2, <1>3

-------------------------------------------------------------------------------
LEMMA InitIInv == Init => IInv
<1> SUFFICES ASSUME Init PROVE IInv
  OBVIOUS
<1> DEFINE U == {<<>>, {}, Missing}
<1>1. Typed(U)
  <2>1. Empty \in DictType(U) /\ NoReg \in RegType(U)
    BY DEF Empty, NoReg, DictType, RegType
  <2>2. [implementations |-> <<>>, instantiated |-> FALSE] \in HintsType(U)
    BY DEF HintsType
  <2>3. <<>> \in Seq(FrameType(U))
    BY EmptySeq
  <2> QED
    BY <2>1, <2>2, <2>3 DEF Init, Typed
<1>2. TypeOK
  BY <1>1 DEF TypeOK
<1>3. Nested /\ Cached
  BY DEF Init, Nested, Cached
<1>4. Originals
  BY DEF Init, Originals, Empty, NoReg
<1> QED
  BY <1>2, <1>3, <1>4 DEF IInv

-------------------------------------------------------------------------------
\* What the changes of a stack keep.
LEMMA Frames ==
  ASSUME NEW U, stack \in [Thread -> Seq(FrameType(U))]
  PROVE  \A t \in Thread : \A i \in 1 .. Len(stack[t]) : stack[t][i] \in FrameType(U)
BY ElementOfSeq

LEMMA TopFrame ==
  ASSUME NEW U, stack \in [Thread -> Seq(FrameType(U))], NEW t \in Thread, stack[t] # <<>>
  PROVE  /\ Len(stack[t]) \in Nat \ {0} /\ Len(stack[t]) \in 1 .. Len(stack[t])
         /\ Top(t) = stack[t][Len(stack[t])] /\ Top(t) \in FrameType(U) /\ Top(t).cls \in Class
<1>1. Len(stack[t]) \in Nat \ {0} /\ Len(stack[t]) \in 1 .. Len(stack[t])
  BY EmptySeq, LenProperties
<1>2. Top(t) = stack[t][Len(stack[t])]
  BY DEF Top, Last
<1>3. Top(t) \in FrameType(U)
  BY <1>1, <1>2, ElementOfSeq
<1> QED
  BY <1>1, <1>2, <1>3 DEF FrameType

LEMMA MovedNested ==
  ASSUME Nested, NEW t \in Thread, NEW pc \in Points \ {"enter"}, Moved(t, pc),
         lock \in {t, NoThread}, lock' = t,
         host' \subseteq host \cup {stack[t][Len(stack[t])].cls},
         pc \in {"pre", "make"} => stack[t][Len(stack[t])].cls \notin host'
  PROVE  Nested'
<1> SUFFICES ASSUME NEW u \in Thread, NEW i \in 1 .. Len(stack'[u])
             PROVE  /\ i < Len(stack'[u]) => stack'[u][i].pc \in {"bases", "inner"}
                    /\ stack'[u][i].pc = "enter" => Len(stack'[u]) = 1
                    /\ stack'[u][i].pc # "enter" => lock' = u
                    /\ stack'[u][i].pc \in {"pre", "make"} => stack'[u][i].cls \notin host'
  BY DEF Nested
<1>1. CASE u = t
  <2>1. CASE i = Len(stack[t])
    BY <1>1, <2>1 DEF Moved
  <2>2. CASE i # Len(stack[t])
    BY <1>1, <2>2 DEF Moved, Nested
  <2> QED
    BY <2>1, <2>2
<1>2. CASE u # t
  <2>1. stack'[u] = stack[u] /\ u # NoThread
    BY <1>2, ThreadAssumption DEF Moved, NoThread
  <2>2. stack[u][i].pc = "enter" /\ Len(stack[u]) = 1
    BY <1>2, <2>1 DEF Nested
  <2> QED
    BY <2>1, <2>2
<1> QED
  BY <1>1, <1>2

LEMMA PushNested ==
  ASSUME NEW U, stack \in [Thread -> Seq(FrameType(U))], <<>> \in U, Nested, NEW t \in Thread,
         stack[t] # <<>>, Top(t).pc \in {"bases", "inner"}, NEW c \in Class, Push(t, c),
         UNCHANGED <<lock, host>>
  PROVE  Nested'
<1>1. /\ \A u \in Thread : u # t => stack'[u] = stack[u]
      /\ Len(stack'[t]) = Len(stack[t]) + 1
      /\ \A i \in 1 .. Len(stack[t]) : stack'[t][i] = stack[t][i]
      /\ stack'[t][Len(stack[t]) + 1].pc = "hook"
  BY PushStack
<1>2. Len(stack[t]) \in Nat \ {0} /\ Top(t) = stack[t][Len(stack[t])]
  BY TopFrame
<1>3. lock = t
  BY <1>2 DEF Nested
<1> SUFFICES ASSUME NEW u \in Thread, NEW i \in 1 .. Len(stack'[u])
             PROVE  /\ i < Len(stack'[u]) => stack'[u][i].pc \in {"bases", "inner"}
                    /\ stack'[u][i].pc = "enter" => Len(stack'[u]) = 1
                    /\ stack'[u][i].pc # "enter" => lock' = u
                    /\ stack'[u][i].pc \in {"pre", "make"} => stack'[u][i].cls \notin host'
  BY DEF Nested
<1>4. CASE u = t
  <2>1. CASE i = Len(stack[t]) + 1
    BY <1>1, <1>2, <1>3, <1>4, <2>1
  <2>2. CASE i = Len(stack[t])
    BY <1>1, <1>2, <1>3, <1>4, <2>2
  <2>3. CASE i \in 1 .. Len(stack[t]) - 1
    <3>1. stack[t][i].pc \in {"bases", "inner"}
      BY <1>2, <2>3 DEF Nested
    <3> QED
      BY <1>1, <1>2, <1>3, <1>4, <2>3, <3>1
  <2> QED
    BY <1>1, <1>2, <1>4, <2>1, <2>2, <2>3
<1>5. CASE u # t
  BY <1>1, <1>5 DEF Nested
<1> QED
  BY <1>4, <1>5

LEMMA PopNested ==
  ASSUME NEW U, stack \in [Thread -> Seq(FrameType(U))], Nested, NEW t \in Thread,
         stack[t] # <<>>, Top(t).pc # "enter", Pop(t), UNCHANGED host
  PROVE  Nested'
<1>1. /\ \A u \in Thread : u # t => stack'[u] = stack[u]
      /\ Len(stack'[t]) = Len(stack[t]) - 1 /\ Len(stack[t]) \in Nat \ {0}
      /\ \A i \in 1 .. Len(stack[t]) - 1 : stack'[t][i] = stack[t][i]
  BY PopStack
<1>2. Top(t) = stack[t][Len(stack[t])]
  BY TopFrame
<1>3. lock = t
  BY <1>1, <1>2 DEF Nested
<1>4. lock' = IF Len(stack[t]) = 1 THEN NoThread ELSE lock
  BY DEF Pop
<1> SUFFICES ASSUME NEW u \in Thread, NEW i \in 1 .. Len(stack'[u])
             PROVE  /\ i < Len(stack'[u]) => stack'[u][i].pc \in {"bases", "inner"}
                    /\ stack'[u][i].pc = "enter" => Len(stack'[u]) = 1
                    /\ stack'[u][i].pc # "enter" => lock' = u
                    /\ stack'[u][i].pc \in {"pre", "make"} => stack'[u][i].cls \notin host'
  BY DEF Nested
<1>5. CASE u = t
  <2> DEFINE n == Len(stack[t])
  <2>0. n \in Nat /\ i \in 1 .. n - 1
    BY <1>1, <1>5
  <2>1. i \in 1 .. Len(stack[t]) - 1 /\ stack'[t][i] = stack[t][i] /\ Len(stack[t]) # 1
    <3>1. n # 1
      <4> HIDE DEF n
      <4> QED
        BY <2>0
    <3> QED
      BY <1>1, <2>0, <3>1
  <2>2. stack[t][i].pc \in {"bases", "inner"}
    BY <1>1, <2>1 DEF Nested
  <2> QED
    BY <1>3, <1>4, <1>5, <2>1, <2>2
<1>6. CASE u # t
  <2>1. stack'[u] = stack[u]
    BY <1>1, <1>6
  <2>2. stack[u][i].pc = "enter" /\ Len(stack[u]) = 1
    BY <1>3, <1>6, <2>1 DEF Nested
  <2> QED
    BY <2>1, <2>2
<1> QED
  BY <1>5, <1>6

\* A step of a wrapper that does not disturb the entries.
LEMMA MovedOriginals ==
  ASSUME NEW U, Typed(U), Originals, NEW t \in Thread, NEW pc \in Points, Moved(t, pc),
         UNCHANGED reg,
         \A c \in Class : Prepared(c) => Prepared(c)',
         \A c \in Class : Prepared(c)' \/ (dict[c].m)' = Missing,
         \A c \in Class : (hints[c].instantiated)' => hints[c].instantiated \/ Prepared(c)',
         pc \in {"make", "mark", "collect", "init", "inner"} => Prepared(stack[t][Len(stack[t])].cls)'
  PROVE  Originals'
<1>1. \A c \in Class : (hints[c].instantiated)' => Prepared(c)'
  BY DEF Originals
<1>2. ASSUME NEW u \in Thread, NEW i \in 1 .. Len(stack'[u]),
             stack'[u][i].pc \in {"make", "mark", "collect", "init", "inner"}
      PROVE  Prepared(stack[u][i].cls)'
  <2>1. stack \in [Thread -> Seq(FrameType(U))]
    BY DEF Typed
  <2>2. \A v \in Thread : \A j \in 1 .. Len(stack[v]) : stack[v][j].cls \in Class
    BY <2>1, Frames DEF FrameType
  <2>3. Len(stack'[u]) = Len(stack[u]) /\ stack'[u][i].cls = stack[u][i].cls
    BY DEF Moved
  <2>4. CASE u = t /\ i = Len(stack[t])
    BY <1>2, <2>3, <2>4 DEF Moved, Prepared
  <2>5. CASE ~(u = t /\ i = Len(stack[t]))
    <3>1. stack'[u][i].pc = stack[u][i].pc
      BY <2>3, <2>5 DEF Moved
    <3>2. Prepared(stack[u][i].cls)
      BY <1>2, <2>3, <3>1 DEF Originals
    <3> QED
      BY <2>2, <2>3, <3>2 DEF Prepared
  <2> QED
    BY <2>4, <2>5
<1>3. \A u \in Thread : reg'[u].pc # "idle" => reg'[u].p \in Proto /\ Prepared(reg[u].p.target)'
  BY ProtoAssumption DEF Originals, Prepared
<1> QED
  BY <1>1, <1>2, <1>3 DEF Originals

-------------------------------------------------------------------------------
\* One lemma for each action of a thread that makes a wrapper.

LEMMA JClassStep ==
  ASSUME IInv, NEW t \in Thread, NEW c \in Class, JClass(t, c)
  PROVE  IInv'
<1>1. PICK U : Typed(U)
  BY DEF IInv, TypeOK
<1>2. PICK W : W = U \cup {<<>>}
  OBVIOUS
<1>3. Typed(W) /\ Nested /\ Cached /\ Originals
  BY <1>1, <1>2, TypedMonotonic DEF IInv
<1> DEFINE new == <<Frame(c, "enter")>>
<1>4. new \in Seq(FrameType(W)) /\ Len(new) = 1 /\ new[1].pc = "enter"
  <2>1. Frame(c, "enter") \in FrameType(W) /\ Frame(c, "enter").pc = "enter"
    BY <1>2 DEF Frame, FrameType, Points
  <2> QED
    BY <2>1
<1> HIDE DEF new
<1>5. stack' = [stack EXCEPT ![t] = new]
  BY DEF JClass, new
<1>6. UNCHANGED <<hints, host, dict, lock, reg, made>>
  BY DEF JClass, history
<1>7. Typed(W)'
  BY <1>3, <1>4, <1>5, <1>6 DEF Typed
<1>8. \A u \in Thread : stack'[u] = IF u = t THEN new ELSE stack[u]
  BY <1>3, <1>5 DEF Typed
<1>9. Nested'
  <2> SUFFICES ASSUME NEW u \in Thread, NEW i \in 1 .. Len(stack'[u])
               PROVE  /\ i < Len(stack'[u]) => stack'[u][i].pc \in {"bases", "inner"}
                      /\ stack'[u][i].pc = "enter" => Len(stack'[u]) = 1
                      /\ stack'[u][i].pc # "enter" => lock' = u
                      /\ stack'[u][i].pc \in {"pre", "make"} => stack'[u][i].cls \notin host'
    BY DEF Nested
  <2>1. CASE u = t
    <3>1. stack'[u] = new /\ Len(stack'[u]) = 1
      BY <1>4, <1>8, <2>1
    <3>2. i = 1 /\ ~(i < Len(stack'[u]))
      BY <3>1
    <3>3. stack'[u][i].pc = "enter"
      BY <1>4, <3>1, <3>2
    <3> QED
      BY <3>1, <3>2, <3>3
  <2>2. CASE u # t
    BY <1>3, <1>6, <1>8, <2>2 DEF Nested
  <2> QED
    BY <2>1, <2>2
<1>10. Originals'
  <2>1. ASSUME NEW u \in Thread, NEW i \in 1 .. Len(stack'[u]),
               stack'[u][i].pc \in {"make", "mark", "collect", "init", "inner"}
        PROVE  Prepared(stack[u][i].cls)'
    <3>1. u # t
      BY <1>4, <1>8, <2>1
    <3> QED
      BY <1>3, <1>6, <1>8, <2>1, <3>1 DEF Originals, Prepared
  <2> QED
    BY <1>3, <1>6, <2>1 DEF Originals, Prepared
<1>11. Cached'
  BY <1>3, <1>6 DEF Cached
<1> QED
  BY <1>7, <1>9, <1>10, <1>11 DEF IInv, TypeOK

LEMMA EnterStep ==
  ASSUME IInv, NEW t \in Thread, Enter(t)
  PROVE  IInv'
<1>1. PICK U : Typed(U)
  BY DEF IInv, TypeOK
<1>2. Nested /\ Cached /\ Originals /\ stack \in [Thread -> Seq(FrameType(U))] /\ stack[t] # <<>>
  BY <1>1 DEF IInv, Typed, Enter, At
<1>3. Goto(t, "hook") /\ lock = NoThread /\ lock' = t /\ UNCHANGED <<hints, host, dict, reg, made>>
  BY DEF Enter, history
<1>4. stack' \in [Thread -> Seq(FrameType(U))] /\ Moved(t, "hook")
  BY <1>2, <1>3, GotoStack DEF Points
<1>5. Typed(U)'
  BY <1>1, <1>3, <1>4 DEF Typed
<1>6. Nested'
  BY <1>2, <1>3, <1>4, MovedNested DEF Points
<1>7. Originals'
  <2>1. /\ \A c \in Class : Prepared(c) => Prepared(c)'
        /\ \A c \in Class : Prepared(c)' \/ (dict[c].m)' = Missing
        /\ \A c \in Class : (hints[c].instantiated)' => hints[c].instantiated \/ Prepared(c)'
    BY <1>2, <1>3 DEF Originals, Prepared
  <2> QED
    BY <1>1, <1>2, <1>3, <1>4, <2>1, MovedOriginals DEF Points
<1>8. Cached'
  BY <1>2, <1>3 DEF Cached
<1> QED
  BY <1>5, <1>6, <1>7, <1>8 DEF IInv, TypeOK

LEMMA HookStep ==
  ASSUME IInv, NEW t \in Thread, Hook(t) \/ MakeBases(t) \/ InitDone(t) \/ MakeInner(t)
  PROVE  IInv'
<1>1. PICK U : Typed(U)
  BY DEF IInv, TypeOK
<1>2. PICK W : W = U \cup {<<>>}
  OBVIOUS
<1>3. Typed(W) /\ stack \in [Thread -> Seq(FrameType(W))] /\ Nested /\ Cached /\ Originals
  BY <1>1, <1>2, TypedMonotonic DEF IInv, Typed
<1>4. stack[t] # <<>> /\ Top(t).pc \in {"hook", "bases", "init", "inner"}
  BY DEF Hook, MakeBases, InitDone, MakeInner, At
<1>5. UNCHANGED <<hints, host, dict, reg, made>>
  BY DEF Hook, MakeBases, InitDone, MakeInner, history
<1>6. /\ Len(stack[t]) \in Nat \ {0} /\ Len(stack[t]) \in 1 .. Len(stack[t])
      /\ Top(t) = stack[t][Len(stack[t])] /\ Top(t).cls \in Class
  BY <1>3, <1>4, TopFrame
<1>7. lock = t
  BY <1>3, <1>4, <1>6 DEF Nested
<1>8. \/ Pop(t)
      \/ Top(t).pc \in {"bases", "inner"} /\ (\E c \in Class : Push(t, c)) /\ UNCHANGED lock
      \/ /\ \E pc \in {"bases", "pre", "inner"} :
              /\ Goto(t, pc)
              /\ pc = "pre" => Top(t).cls \notin host
              /\ pc = "inner" => Top(t).pc = "init"
         /\ UNCHANGED lock
  <2>1. CASE Hook(t)
    BY <2>1 DEF Hook
  <2>2. CASE MakeBases(t)
    BY <2>2 DEF MakeBases, At
  <2>3. CASE InitDone(t)
    BY <2>3 DEF InitDone, At
  <2>4. CASE MakeInner(t)
    <3>1. Inner[Top(t).cls] \subseteq Class
      BY <1>6, ClassAssumption
    <3> QED
      BY <2>4, <3>1 DEF MakeInner, At
  <2> QED
    BY <2>1, <2>2, <2>3, <2>4
<1>9. Cached'
  BY <1>3, <1>5 DEF Cached
<1>10. /\ \A c \in Class : Prepared(c) => Prepared(c)'
       /\ \A c \in Class : Prepared(c)' \/ (dict[c].m)' = Missing
       /\ \A c \in Class : (hints[c].instantiated)' => hints[c].instantiated \/ Prepared(c)'
  BY <1>3, <1>5 DEF Originals, Prepared
<1>11. CASE Pop(t)
  <2>1. /\ stack' \in [Thread -> Seq(FrameType(W))]
        /\ \A u \in Thread : u # t => stack'[u] = stack[u]
        /\ Len(stack'[t]) = Len(stack[t]) - 1
        /\ \A i \in 1 .. Len(stack[t]) - 1 : stack'[t][i] = stack[t][i]
    BY <1>3, <1>4, <1>11, PopStack
  <2>2. Nested'
    BY <1>3, <1>4, <1>5, <1>11, PopNested
  <2>3. Typed(W)'
    BY <1>3, <1>5, <2>1 DEF Typed
  <2>4. \A u \in Thread : \A i \in 1 .. Len(stack'[u]) :
          i \in 1 .. Len(stack[u]) /\ stack'[u][i] = stack[u][i]
    BY <1>6, <2>1
  <2>5. Originals'
    BY <1>3, <1>5, <2>4 DEF Originals, Prepared
  <2> QED
    BY <1>9, <2>2, <2>3, <2>5 DEF IInv, TypeOK
<1>12. CASE /\ Top(t).pc \in {"bases", "inner"} /\ UNCHANGED lock
            /\ \E c \in Class : Push(t, c)
  <2>0. <<>> \in W
    BY <1>2
  <2>1. PICK c \in Class : Push(t, c)
    BY <1>12
  <2>2. /\ stack' \in [Thread -> Seq(FrameType(W))]
        /\ \A u \in Thread : u # t => stack'[u] = stack[u]
        /\ Len(stack'[t]) = Len(stack[t]) + 1
        /\ \A i \in 1 .. Len(stack[t]) : stack'[t][i] = stack[t][i]
        /\ stack'[t][Len(stack[t]) + 1].pc = "hook"
    BY <1>3, <2>0, <2>1, PushStack
  <2>3. Nested'
    BY <1>3, <1>4, <1>5, <1>12, <2>0, <2>1, PushNested
  <2>4. Typed(W)'
    BY <1>3, <1>5, <2>2 DEF Typed
  <2>5. \A u \in Thread : \A i \in 1 .. Len(stack'[u]) :
          \/ stack'[u][i].pc = "hook"
          \/ i \in 1 .. Len(stack[u]) /\ stack'[u][i] = stack[u][i]
    BY <1>6, <2>2
  <2>6. Originals'
    BY <1>3, <1>5, <2>5, SMTT(30) DEF Originals, Prepared
  <2> QED
    BY <1>9, <2>3, <2>4, <2>6 DEF IInv, TypeOK
<1>13. ASSUME NEW pc \in {"bases", "pre", "inner"}, Goto(t, pc), UNCHANGED lock,
              pc = "pre" => Top(t).cls \notin host, pc = "inner" => Top(t).pc = "init"
       PROVE  IInv'
  <2>1. stack' \in [Thread -> Seq(FrameType(W))] /\ Moved(t, pc)
    BY <1>3, <1>4, <1>13, GotoStack DEF Points
  <2>2. Typed(W)'
    BY <1>3, <1>5, <2>1 DEF Typed
  <2>3. Nested'
    BY <1>3, <1>5, <1>6, <1>7, <1>13, <2>1, MovedNested DEF Points
  <2>4. pc = "inner" => Prepared(Top(t).cls)
    BY <1>3, <1>6, <1>13 DEF Originals
  <2>5. Originals'
    <3>1. pc \in {"make", "mark", "collect", "init", "inner"} => Prepared(stack[t][Len(stack[t])].cls)'
      BY <1>5, <1>6, <1>10, <2>1, <2>4 DEF Prepared, Moved
    <3>2. pc \in Points
      BY DEF Points
    <3> QED
      BY <1>3, <1>5, <1>10, <2>1, <3>1, <3>2, MovedOriginals
  <2> QED
    BY <1>9, <2>2, <2>3, <2>5 DEF IInv, TypeOK
<1> QED
  BY <1>8, <1>11, <1>12, <1>13

\* What a customizer does to the entries of a wrapper.
LEMMA CopiedEntries ==
  ASSUME NEW d, d.orig \in {Java, Missing}, NEW protos,
         DOMAIN d = {"m", "orig", "init"}, d = [x \in DOMAIN d |-> d[x]]
  PROVE  /\ Copied(d, protos).orig \in {Java, Missing}
         /\ d.m = Java \/ d.orig = Java => Copied(d, protos).m = Java \/ Copied(d, protos).orig = Java
         /\ Copied(d, protos).init = d.init
<1> DEFINE plain == Keep(protos, WithPlain)
           new == Last(plain)
<1>1. Copied(d, protos) = IF plain = <<>> THEN d
                          ELSE [d EXCEPT !.m = new, !.orig = IF d.m = Java THEN Java ELSE d.orig]
  BY DEF Copied
<1> HIDE DEF plain, new
<1> QED
  BY <1>1

LEMMA PreStep ==
  ASSUME IInv, NEW t \in Thread, Pre(t)
  PROVE  IInv'
<1>1. PICK U : Typed(U)
  BY DEF IInv, TypeOK
<1>2. Nested /\ Cached /\ Originals /\ stack \in [Thread -> Seq(FrameType(U))]
      /\ stack[t] # <<>> /\ Top(t).pc = "pre"
  BY <1>1 DEF IInv, Typed, Pre, At
<1>3. /\ Len(stack[t]) \in Nat \ {0} /\ Len(stack[t]) \in 1 .. Len(stack[t])
      /\ Top(t) = stack[t][Len(stack[t])] /\ Top(t).cls \in Class
  BY <1>2, TopFrame
<1>c. PICK c : c = Top(t).cls
  OBVIOUS
<1> DEFINE own == [Empty EXCEPT !.m = IF c \in Owners THEN Java ELSE Missing]
           impls == hints[c].implementations
           chain == Chain(impls)
           copy == Copied(own, impls)
           new == [copy EXCEPT !.init = chain]
<1>4. dict' = [dict EXCEPT ![c] = new] /\ Goto(t, "make") /\ UNCHANGED <<hints, host, lock, reg, made>>
  BY <1>c DEF Pre, history
<1>5. lock = t /\ c \notin host
  BY <1>2, <1>3, <1>c DEF Nested
<1>6. /\ own.orig \in {Java, Missing} /\ DOMAIN own = {"m", "orig", "init"}
      /\ own = [x \in DOMAIN own |-> own[x]] /\ (c \in Owners => own.m = Java)
  BY DEF Empty
<1>7. /\ copy.orig \in {Java, Missing}
      /\ c \in Owners => copy.m = Java \/ copy.orig = Java
      /\ DOMAIN copy = {"m", "orig", "init"} /\ copy = [x \in DOMAIN copy |-> copy[x]]
  <2>1. copy.orig \in {Java, Missing} /\ (c \in Owners => copy.m = Java \/ copy.orig = Java)
    <3> HIDE DEF own
    <3> QED
      BY <1>6, CopiedEntries
  <2>2. DOMAIN copy = {"m", "orig", "init"} /\ copy = [x \in DOMAIN copy |-> copy[x]]
    BY DEF Copied, Empty
  <2> QED
    BY <2>1, <2>2
<1> HIDE DEF copy, chain, own, impls
<1>8. PICK W : W = U \cup {copy.m, chain}
  OBVIOUS
<1>9. Typed(W)
  BY <1>1, <1>8, TypedMonotonic
<1>10. new \in DictType(W) /\ (c \in Owners => new.m = Java \/ new.orig = Java)
  BY <1>7, <1>8 DEF DictType
<1> HIDE DEF new
<1>11. c \in Class /\ c = stack[t][Len(stack[t])].cls
  BY <1>3, <1>c
<1>12. stack' \in [Thread -> Seq(FrameType(W))] /\ Moved(t, "make")
  BY <1>2, <1>4, <1>9, GotoStack DEF Points, Typed
<1>13. Typed(W)'
  BY <1>4, <1>9, <1>10, <1>11, <1>12 DEF Typed
<1>14. Nested'
  BY <1>2, <1>4, <1>5, <1>11, <1>12, MovedNested DEF Points
<1>15. \A d \in Class : dict'[d] = IF d = c THEN new ELSE dict[d]
  BY <1>4, <1>9 DEF Typed
<1>16. Prepared(c)'
  BY <1>10, <1>11, <1>15 DEF Prepared
<1>17. Originals'
  <2>1. /\ \A d \in Class : Prepared(d) => Prepared(d)'
        /\ \A d \in Class : Prepared(d)' \/ (dict[d].m)' = Missing
        /\ \A d \in Class : (hints[d].instantiated)' => hints[d].instantiated \/ Prepared(d)'
    BY <1>2, <1>4, <1>10, <1>15 DEF Originals, Prepared
  <2>2. Prepared(stack[t][Len(stack[t])].cls)'
    BY <1>3, <1>11, <1>12, <1>16 DEF Prepared, Moved
  <2> QED
    BY <1>2, <1>4, <1>9, <1>12, <2>1, <2>2, MovedOriginals DEF Points
<1>18. Cached'
  BY <1>2, <1>4 DEF Cached
<1> QED
  BY <1>13, <1>14, <1>17, <1>18 DEF IInv, TypeOK

LEMMA MakeStep ==
  ASSUME IInv, NEW t \in Thread, Make(t) \/ Mark(t)
  PROVE  IInv'
<1>1. PICK U : Typed(U)
  BY DEF IInv, TypeOK
<1>2. Nested /\ Cached /\ Originals /\ stack \in [Thread -> Seq(FrameType(U))]
      /\ stack[t] # <<>> /\ Top(t).pc \in {"make", "mark"}
  BY <1>1 DEF IInv, Typed, Make, Mark, At
<1>3. /\ Len(stack[t]) \in Nat \ {0} /\ Len(stack[t]) \in 1 .. Len(stack[t])
      /\ Top(t) = stack[t][Len(stack[t])] /\ Top(t).cls \in Class
  BY <1>2, TopFrame
<1>c. PICK c \in Class : c = Top(t).cls
  BY <1>3
<1>4. lock = t /\ (Top(t).pc = "make" => c \notin host) /\ Prepared(c)
  BY <1>2, <1>3, <1>c DEF Nested, Originals
<1>5. UNCHANGED <<dict, lock, reg>>
  BY DEF Make, Mark
<1>6. PICK pc \in {"mark", "collect"} : Goto(t, pc)
  BY DEF Make, Mark
<1>7. stack' \in [Thread -> Seq(FrameType(U))] /\ Moved(t, pc)
  BY <1>2, <1>6, GotoStack DEF Points
<1>8. host \subseteq host' /\ host' \subseteq host \cup {c}
  BY <1>c DEF Make, Mark
<1>9. /\ hints' \in [Class -> HintsType(U)]
      /\ \A d \in Class : hints'[d].instantiated => hints[d].instantiated \/ d = c
  <2>1. CASE Make(t)
    BY <1>1, <2>1 DEF Make, Typed
  <2>2. CASE Mark(t)
    <3> DEFINE new == [hints[c] EXCEPT !.instantiated = TRUE]
    <3>1. new \in HintsType(U)
      BY <1>1, <1>3 DEF Typed, HintsType
    <3>2. hints' = [hints EXCEPT ![c] = new]
      BY <1>c, <2>2 DEF Mark
    <3> HIDE DEF new
    <3> QED
      BY <1>1, <3>1, <3>2 DEF Typed
  <2> QED
    BY <2>1, <2>2
<1>10. made' \in [Class -> Nat] /\ Cached'
  <2>1. CASE Make(t)
    <3>1. made[c] = 0 /\ made' = [made EXCEPT ![c] = made[c] + 1] /\ host' = host \cup {c}
      BY <1>2, <1>4, <1>c, <2>1 DEF Make, Cached, At
    <3> QED
      BY <1>1, <1>2, <3>1 DEF Typed, Cached
  <2>2. CASE Mark(t)
    BY <1>1, <1>2, <2>2 DEF Mark, history, Typed, Cached
  <2> QED
    BY <2>1, <2>2
<1>11. Typed(U)'
  BY <1>1, <1>3, <1>5, <1>7, <1>8, <1>9, <1>10 DEF Typed
<1>12. Nested'
  <2>1. pc \in Points \ {"enter"} /\ pc \notin {"pre", "make"}
    BY DEF Points
  <2> QED
    BY <1>2, <1>3, <1>4, <1>5, <1>7, <1>8, <1>c, <2>1, MovedNested
<1>13. Originals'
  <2>1. /\ \A d \in Class : Prepared(d) => Prepared(d)'
        /\ \A d \in Class : Prepared(d)' \/ (dict[d].m)' = Missing
    BY <1>2, <1>5 DEF Originals, Prepared
  <2>2. \A d \in Class : (hints[d].instantiated)' => hints[d].instantiated \/ Prepared(d)'
    BY <1>4, <1>5, <1>9 DEF Prepared
  <2>3. Prepared(stack[t][Len(stack[t])].cls)'
    BY <1>3, <1>4, <1>5, <1>7, <1>c DEF Prepared, Moved
  <2>4. pc \in Points
    BY DEF Points
  <2> QED
    BY <1>1, <1>2, <1>5, <1>7, <2>1, <2>2, <2>3, <2>4, MovedOriginals
<1> QED
  BY <1>10, <1>11, <1>12, <1>13 DEF IInv, TypeOK

LEMMA CollectStep ==
  ASSUME IInv, NEW t \in Thread, Collect(t) \/ RunInit(t)
  PROVE  IInv'
<1>1. PICK U : Typed(U)
  BY DEF IInv, TypeOK
<1>2. Nested /\ Cached /\ Originals /\ stack \in [Thread -> Seq(FrameType(U))]
      /\ stack[t] # <<>> /\ Top(t).pc \in {"collect", "init"}
  BY <1>1 DEF IInv, Typed, Collect, RunInit, At
<1>3. /\ Len(stack[t]) \in Nat \ {0} /\ Len(stack[t]) \in 1 .. Len(stack[t])
      /\ Top(t) = stack[t][Len(stack[t])] /\ Top(t).cls \in Class /\ Top(t) \in FrameType(U)
  BY <1>2, TopFrame
<1>4. PICK c \in Class : c = Top(t).cls
  BY <1>3
<1>5. lock = t /\ Prepared(c)
  BY <1>2, <1>3, <1>4 DEF Nested, Originals
<1>6. UNCHANGED <<hints, host, lock, reg, made>>
  BY DEF Collect, RunInit, history
<1>7. PICK top : /\ stack' = [stack EXCEPT ![t] = [stack[t] EXCEPT ![Len(stack[t])] = top]]
                 /\ \E todo : top = [Top(t) EXCEPT !.pc = "init", !.todo = todo]
  <2>1. CASE Collect(t)
    <3> DEFINE all == Inits(Top(t).cls)
    <3>1. stack' = [stack EXCEPT ![t][Len(stack[t])] = [@ EXCEPT !.pc = "init", !.todo = all]]
      BY <2>1 DEF Collect
    <3> HIDE DEF all
    <3> QED
      BY <1>3, <3>1
  <2>2. CASE RunInit(t)
    <3>1. stack' = [stack EXCEPT ![t][Len(stack[t])].todo = Tail(@)] /\ Top(t).pc = "init"
      BY <2>2 DEF RunInit, At
    <3>2. PICK rest : rest = Tail(Top(t).todo)
      OBVIOUS
    <3>3. [Top(t) EXCEPT !.todo = rest] = [Top(t) EXCEPT !.pc = "init", !.todo = rest]
      BY <1>3, <3>1 DEF FrameType
    <3>4. stack' = [stack EXCEPT ![t] = [stack[t] EXCEPT ![Len(stack[t])] = [Top(t) EXCEPT !.todo = rest]]]
      BY <1>3, <3>1, <3>2
    <3> QED
      BY <3>3, <3>4
  <2> QED
    BY <2>1, <2>2
<1>8. PICK todo : top = [Top(t) EXCEPT !.pc = "init", !.todo = todo]
  BY <1>7
<1>9. PICK new : dict' = dict \/ dict' = [dict EXCEPT ![c] = Sticky(dict[c], new)]
  <2>1. CASE Collect(t)
    BY <2>1 DEF Collect
  <2>2. CASE RunInit(t)
    BY <1>4, <2>2 DEF RunInit, Call
  <2> QED
    BY <2>1, <2>2
<1>10. PICK W : W = U \cup {todo, new}
  OBVIOUS
<1>11. Typed(W)
  BY <1>1, <1>10, TypedMonotonic
<1>12. top \in FrameType(W) /\ top.cls = stack[t][Len(stack[t])].cls /\ top.pc = "init"
  BY <1>3, <1>8, <1>10 DEF FrameType, Points
<1>13. stack \in [Thread -> Seq(FrameType(W))]
  BY <1>11 DEF Typed
<1>14. stack' \in [Thread -> Seq(FrameType(W))] /\ Moved(t, "init")
  <2>1. stack' \in [Thread -> Seq(FrameType(W))] /\ Moved(t, top.pc)
    BY <1>2, <1>7, <1>12, <1>13, TopStack
  <2> QED
    BY <1>12, <2>1
<1>15. dict[c] \in DictType(W)
  BY <1>11 DEF Typed
<1>16. PICK s : s = Sticky(dict[c], new)
  OBVIOUS
<1>17. s \in DictType(W) /\ (Prepared(c) /\ c \in Owners => s.m = Java \/ s.orig = Java)
  BY <1>10, <1>15, <1>16 DEF Sticky, DictType, Prepared
<1>18. /\ dict' \in [Class -> DictType(W)]
       /\ \A d \in Class : dict'[d] = dict[d] \/ (d = c /\ dict'[d] = s)
  <2>1. dict \in [Class -> DictType(W)]
    BY <1>11 DEF Typed
  <2>2. CASE dict' = dict
    BY <2>1, <2>2
  <2>3. CASE dict' = [dict EXCEPT ![c] = s]
    BY <1>17, <2>1, <2>3
  <2> QED
    BY <1>9, <1>16, <2>2, <2>3
<1>19. Typed(W)'
  BY <1>6, <1>11, <1>14, <1>18 DEF Typed
<1>20. Nested'
  BY <1>2, <1>5, <1>6, <1>14, MovedNested DEF Points
<1>21. Originals'
  <2>1. \A d \in Class : Prepared(d) => Prepared(d)'
    BY <1>17, <1>18 DEF Prepared
  <2>2. \A d \in Class : Prepared(d)' \/ (dict[d].m)' = Missing
    <3> SUFFICES ASSUME NEW d \in Class PROVE Prepared(d)' \/ dict'[d].m = Missing
      OBVIOUS
    <3>1. CASE Prepared(d)
      BY <2>1, <3>1
    <3>2. CASE ~Prepared(d)
      BY <1>2, <1>5, <1>18, <3>2 DEF Originals
    <3> QED
      BY <3>1, <3>2
  <2>3. \A d \in Class : (hints[d].instantiated)' => hints[d].instantiated \/ Prepared(d)'
    BY <1>6
  <2>4. Prepared(stack[t][Len(stack[t])].cls)'
    BY <1>3, <1>4, <1>5, <1>14, <2>1 DEF Prepared, Moved
  <2> QED
    BY <1>2, <1>6, <1>11, <1>14, <2>1, <2>2, <2>3, <2>4, MovedOriginals DEF Points
<1>22. Cached'
  BY <1>2, <1>6 DEF Cached
<1> QED
  BY <1>19, <1>20, <1>21, <1>22 DEF IInv, TypeOK

LEMMA InitRaisesStep ==
  ASSUME IInv, NEW t \in Thread, InitRaises(t)
  PROVE  IInv'
<1>1. PICK U : Typed(U)
  BY DEF IInv, TypeOK
<1>2. Nested /\ Cached /\ Originals /\ stack \in [Thread -> Seq(FrameType(U))]
      /\ stack[t] # <<>> /\ Top(t).pc = "init"
  BY <1>1 DEF IInv, Typed, InitRaises, At
<1>3. Len(stack[t]) \in 1 .. Len(stack[t]) /\ Top(t) = stack[t][Len(stack[t])]
  BY <1>2, TopFrame
<1>4. lock = t
  BY <1>2, <1>3 DEF Nested
<1>5. /\ stack' = [stack EXCEPT ![t] = <<>>] /\ lock' = NoThread
      /\ UNCHANGED <<hints, host, dict, reg, made>>
  BY DEF InitRaises
<1>6. stack' \in [Thread -> Seq(FrameType(U))]
  BY <1>2, <1>5, EmptySeq
<1>7. Typed(U)'
  BY <1>1, <1>5, <1>6 DEF Typed
<1>8. \A u \in Thread : \A i \in 1 .. Len(stack'[u]) : u # t /\ stack'[u] = stack[u]
  BY <1>2, <1>5, EmptySeq
<1>9. Nested'
  <2>1. \A u \in Thread : \A i \in 1 .. Len(stack'[u]) :
          stack'[u][i].pc = "enter" /\ Len(stack'[u]) = 1
    BY <1>2, <1>4, <1>8 DEF Nested
  <2>2. \A u \in Thread : \A i \in 1 .. Len(stack'[u]) : ~(i < Len(stack'[u]))
    BY <2>1
  <2> QED
    BY <2>1, <2>2 DEF Nested
<1>10. Originals'
  BY <1>2, <1>5, <1>8 DEF Originals, Prepared
<1>11. Cached'
  BY <1>2, <1>5 DEF Cached
<1> QED
  BY <1>7, <1>9, <1>10, <1>11 DEF IInv, TypeOK

-------------------------------------------------------------------------------
\* The steps of a registration.  They leave the wrappers that are being made and
\* keep what is prepared.
LEMMA RegistrationKeeps ==
  ASSUME Nested, Cached, Originals, NEW U, Typed(U), UNCHANGED <<host, stack, lock, made>>,
         \A c \in Class : Prepared(c) => Prepared(c)',
         \A c \in Class : Prepared(c)' \/ (dict[c].m)' = Missing,
         \A c \in Class : hints'[c].instantiated = hints[c].instantiated,
         \A u \in Thread : reg'[u].pc # "idle" => reg'[u].p \in Proto /\ Prepared(reg[u].p.target)'
  PROVE  Nested' /\ Cached' /\ Originals'
<1>1. Nested' /\ Cached'
  BY DEF Nested, Cached
<1>2. \A u \in Thread : \A i \in 1 .. Len(stack[u]) : stack[u][i].cls \in Class
  BY Frames DEF Typed, FrameType
<1>3. ASSUME NEW u \in Thread, NEW i \in 1 .. Len(stack'[u]),
             stack'[u][i].pc \in {"make", "mark", "collect", "init", "inner"}
      PROVE  Prepared(stack[u][i].cls)'
  <2>1. Prepared(stack[u][i].cls) /\ stack[u][i].cls \in Class
    BY <1>2, <1>3 DEF Originals
  <2> QED
    BY <2>1 DEF Prepared
<1>4. \A c \in Class : (hints[c].instantiated)' => Prepared(c)'
  BY DEF Originals
<1> QED
  BY <1>1, <1>3, <1>4 DEF Originals

LEMMA RegisterStep ==
  ASSUME IInv, NEW t \in Thread, NEW p \in Proto, Register(t, p)
  PROVE  IInv'
<1>1. PICK U : Typed(U)
  BY DEF IInv, TypeOK
<1>2. Nested /\ Cached /\ Originals /\ t \in Thread /\ p.target \in Class
  BY ThreadAssumption, ProtoAssumption DEF IInv
<1>3. PICK c \in Class : c = p.target
  BY <1>2
<1>4. PICK list : list = Append(hints[c].implementations, p)
  OBVIOUS
<1>5. PICK W : W = U \cup {list, <<>>, {}}
  OBVIOUS
<1>6. Typed(W)
  BY <1>1, <1>5, TypedMonotonic
<1>7. PICK hint : hint = [hints[c] EXCEPT !.implementations = list]
  OBVIOUS
<1>8. hints' = [hints EXCEPT ![c] = hint] /\ UNCHANGED <<host, dict, stack, lock, made>>
  BY <1>3, <1>4, <1>7 DEF Register
<1>9. hint \in HintsType(W) /\ hint.instantiated = hints[c].instantiated
  BY <1>5, <1>6, <1>7 DEF Typed, HintsType
<1>10. PICK new : new = [NoReg EXCEPT !.pc = "copy", !.p = p]
  OBVIOUS
<1>11. new \in RegType(W) /\ new.p = p
  BY <1>5, <1>10 DEF RegType, NoReg
<1>12. reg' = IF hints[c].instantiated THEN [reg EXCEPT ![t] = new] ELSE reg
  BY <1>3, <1>10 DEF Register
<1>13. Typed(W)'
  BY <1>2, <1>6, <1>8, <1>9, <1>11, <1>12 DEF Typed
<1>14. \A d \in Class : hints'[d].instantiated = hints[d].instantiated
  BY <1>6, <1>8, <1>9 DEF Typed
<1>15. /\ \A d \in Class : Prepared(d) => Prepared(d)'
       /\ \A d \in Class : Prepared(d)' \/ (dict[d].m)' = Missing
  BY <1>2, <1>8 DEF Originals, Prepared
<1>16. ASSUME NEW u \in Thread, reg'[u].pc # "idle"
       PROVE  reg'[u].p \in Proto /\ Prepared(reg[u].p.target)'
  <2>1. CASE u = t /\ hints[c].instantiated
    <3>1. reg'[u] = new
      BY <1>6, <1>12, <2>1 DEF Typed
    <3>2. Prepared(c)
      BY <1>2, <2>1 DEF Originals
    <3> QED
      BY <1>3, <1>8, <1>11, <3>1, <3>2 DEF Prepared
  <2>2. CASE ~(u = t /\ hints[c].instantiated)
    <3>1. reg'[u] = reg[u]
      BY <1>2, <1>6, <1>12, <2>2 DEF Typed
    <3> QED
      BY <1>2, <1>8, <1>16, <3>1 DEF Originals, Prepared
  <2> QED
    BY <2>1, <2>2
<1>17. Nested' /\ Cached' /\ Originals'
  BY <1>1, <1>2, <1>8, <1>14, <1>15, <1>16, RegistrationKeeps
<1> QED
  BY <1>13, <1>17 DEF IInv, TypeOK

LEMMA PostCopyStep ==
  ASSUME IInv, NEW t \in Thread, PostCopy(t)
  PROVE  IInv'
<1>1. PICK U : Typed(U)
  BY DEF IInv, TypeOK
<1>2. Nested /\ Cached /\ Originals /\ reg[t].pc = "copy"
  BY DEF IInv, PostCopy
<1>3. PICK p \in Proto : p = reg[t].p /\ Prepared(p.target)
  BY <1>2 DEF Originals
<1>4. PICK c \in Class : c = p.target
  BY ProtoAssumption
<1>5. dict[c] \in DictType(U) /\ reg[t] \in RegType(U)
  BY <1>1 DEF Typed
<1>6. PICK copy : copy = Copied(dict[c], <<p>>)
  OBVIOUS
<1>7. PICK W : W = U \cup {copy.m}
  OBVIOUS
<1>8. Typed(W)
  BY <1>1, <1>7, TypedMonotonic
<1>9. copy \in DictType(W) /\ (dict[c].m = Java \/ dict[c].orig = Java => copy.m = Java \/ copy.orig = Java)
  <2>1. /\ dict[c].orig \in {Java, Missing} /\ DOMAIN dict[c] = {"m", "orig", "init"}
        /\ dict[c] = [x \in DOMAIN dict[c] |-> dict[c][x]]
    BY <1>5 DEF DictType
  <2>2. /\ copy.orig \in {Java, Missing} /\ copy.init = dict[c].init
        /\ (dict[c].m = Java \/ dict[c].orig = Java => copy.m = Java \/ copy.orig = Java)
    BY <1>6, <2>1, CopiedEntries
  <2> DEFINE plain == Keep(<<p>>, WithPlain)
             last == Last(plain)
  <2>3. copy = IF plain = <<>> THEN dict[c]
               ELSE [dict[c] EXCEPT !.m = last, !.orig = IF dict[c].m = Java THEN Java ELSE @]
    BY <1>6 DEF Copied
  <2> HIDE DEF plain, last
  <2>4. copy \in [m : {copy.m}, orig : {copy.orig}, init : {copy.init}]
    BY <1>5, <2>3 DEF DictType
  <2> QED
    BY <1>5, <1>7, <2>2, <2>4 DEF DictType
<1>10. PICK new : new = [reg[t] EXCEPT !.pc = "chain", !.prev = dict[c].init]
  OBVIOUS
<1>11. new \in RegType(W) /\ new.p = p
  BY <1>3, <1>5, <1>7, <1>10 DEF RegType, DictType
<1>12. /\ dict' = [dict EXCEPT ![c] = copy] /\ reg' = [reg EXCEPT ![t] = new]
       /\ UNCHANGED <<hints, host, stack, lock, made>>
  <2>1. reg' = [reg EXCEPT ![t].pc = "chain", ![t].prev = dict[c].init]
    BY <1>3, <1>4 DEF PostCopy
  <2> QED
    BY <1>3, <1>4, <1>6, <1>10, <2>1 DEF PostCopy, history
<1>13. Typed(W)'
  BY <1>8, <1>9, <1>11, <1>12 DEF Typed
<1>14. \A d \in Class : dict'[d] = IF d = c THEN copy ELSE dict[d]
  BY <1>8, <1>12 DEF Typed
<1>15. \A u \in Thread : reg'[u] = IF u = t THEN new ELSE reg[u]
  BY <1>8, <1>12 DEF Typed
<1>16. \A d \in Class : Prepared(d) => Prepared(d)'
  BY <1>9, <1>14 DEF Prepared
<1>17. \A d \in Class : Prepared(d)' \/ (dict[d].m)' = Missing
  <2> SUFFICES ASSUME NEW d \in Class PROVE Prepared(d)' \/ dict'[d].m = Missing
    OBVIOUS
  <2>1. CASE d = c
    BY <1>3, <1>4, <1>16, <2>1
  <2>2. CASE d # c
    BY <1>2, <1>14, <2>2 DEF Originals, Prepared
  <2> QED
    BY <2>1, <2>2
<1>18. ASSUME NEW u \in Thread, reg'[u].pc # "idle"
       PROVE  reg'[u].p \in Proto /\ Prepared(reg[u].p.target)'
  <2>1. CASE u = t
    BY <1>3, <1>4, <1>11, <1>15, <1>16, <2>1 DEF Prepared
  <2>2. CASE u # t
    BY <1>2, <1>15, <1>16, <1>18, <2>2, ProtoAssumption DEF Originals, Prepared
  <2> QED
    BY <2>1, <2>2
<1>19. Nested' /\ Cached' /\ Originals'
  BY <1>1, <1>2, <1>12, <1>16, <1>17, <1>18, RegistrationKeeps
<1> QED
  BY <1>13, <1>19 DEF IInv, TypeOK

LEMMA PostChainStep ==
  ASSUME IInv, NEW t \in Thread, PostChain(t) \/ ApplyNext(t)
  PROVE  IInv'
<1>1. PICK U : Typed(U)
  BY DEF IInv, TypeOK
<1>2. Nested /\ Cached /\ Originals /\ reg[t].pc \in {"chain", "all"}
  BY DEF IInv, PostChain, ApplyNext
<1>3. PICK p \in Proto : p = reg[t].p /\ Prepared(p.target)
  BY <1>2 DEF Originals
<1>4. PICK c \in Class : c = p.target
  BY ProtoAssumption
<1>5. UNCHANGED <<hints, host, stack, lock, made>>
  BY DEF PostChain, ApplyNext, history
<1>6. PICK chain : dict' = dict \/ dict' = [dict EXCEPT ![c] = [dict[c] EXCEPT !.init = chain]]
  <2>1. CASE PostChain(t)
    <3> DEFINE new == reg[t].prev \o Chain(<<p>>)
    <3>1. dict' = dict \/ dict' = [dict EXCEPT ![c].init = new]
      BY <1>3, <1>4, <2>1 DEF PostChain
    <3> HIDE DEF new
    <3> QED
      BY <3>1
  <2>2. CASE ApplyNext(t)
    BY <2>2 DEF ApplyNext
  <2> QED
    BY <2>1, <2>2
<1>7. PICK todo, applied : \/ reg' = [reg EXCEPT ![t] = NoReg]
                           \/ reg' = [reg EXCEPT ![t] = [reg[t] EXCEPT !.pc = "all", !.todo = todo,
                                                                       !.applied = applied]]
  <2>1. CASE PostChain(t)
    <3>0. PICK new, one, all : /\ new = [reg[t] EXCEPT !.pc = "all", !.todo = {p.target}]
                               /\ one = {p.target} /\ all = reg[t].applied
      OBVIOUS
    <3>1. reg' = [reg EXCEPT ![t] = NoReg] \/ reg' = [reg EXCEPT ![t] = new]
      BY <1>3, <2>1, <3>0 DEF PostChain
    <3>2. new = [reg[t] EXCEPT !.pc = "all", !.todo = one, !.applied = all]
      BY <1>1, <3>0 DEF Typed, RegType
    <3> QED
      BY <3>1, <3>2
  <2>2. CASE ApplyNext(t)
    <3>1. PICK d : LET done == reg[t].applied \cup {d}
                       left == (reg[t].todo \cup {e \in host : d \in ToSet(Bases[e])}) \ done
                   IN  reg' = [reg EXCEPT ![t] = IF left = {} THEN NoReg
                                                 ELSE [@ EXCEPT !.todo = left, !.applied = done]]
      BY <2>2 DEF ApplyNext
    <3> DEFINE done == reg[t].applied \cup {d}
               left == (reg[t].todo \cup {e \in host : d \in ToSet(Bases[e])}) \ done
    <3>2. reg' = [reg EXCEPT ![t] = NoReg]
          \/ reg' = [reg EXCEPT ![t] = [reg[t] EXCEPT !.todo = left, !.applied = done]]
      BY <3>1
    <3> HIDE DEF left, done
    <3>3. reg[t].pc = "all"
      BY <2>2 DEF ApplyNext
    <3>4. [reg[t] EXCEPT !.todo = left, !.applied = done]
          = [reg[t] EXCEPT !.pc = "all", !.todo = left, !.applied = done]
      BY <1>1, <3>3 DEF Typed, RegType
    <3> QED
      BY <3>2, <3>4
  <2> QED
    BY <2>1, <2>2
<1>8. PICK W : W = U \cup {chain, todo, applied, <<>>, {}}
  OBVIOUS
<1>9. Typed(W) /\ dict \in [Class -> DictType(W)] /\ reg \in [Thread -> RegType(W)]
  BY <1>1, <1>8, TypedMonotonic DEF Typed
<1>10. PICK entry : entry = [dict[c] EXCEPT !.init = chain]
  OBVIOUS
<1>11. entry \in DictType(W) /\ entry.m = dict[c].m /\ entry.orig = dict[c].orig
  BY <1>8, <1>9, <1>10 DEF DictType
<1>12. /\ dict' \in [Class -> DictType(W)]
       /\ \A d \in Class : dict'[d].m = dict[d].m /\ dict'[d].orig = dict[d].orig
  <2>1. CASE dict' = dict
    BY <1>9, <2>1
  <2>2. CASE dict' = [dict EXCEPT ![c] = entry]
    BY <1>9, <1>11, <2>2
  <2> QED
    BY <1>6, <1>10, <2>1, <2>2
<1>13. PICK new : new = [reg[t] EXCEPT !.pc = "all", !.todo = todo, !.applied = applied]
  OBVIOUS
<1>14. new \in RegType(W) /\ new.p = p /\ NoReg \in RegType(W) /\ NoReg.pc = "idle"
  BY <1>3, <1>8, <1>9, <1>13 DEF RegType, NoReg
<1>15. /\ reg' \in [Thread -> RegType(W)]
       /\ \A u \in Thread : reg'[u] = reg[u] \/ reg'[u].pc = "idle" \/ reg'[u].p = p
  <2>1. CASE reg' = [reg EXCEPT ![t] = NoReg]
    BY <1>9, <1>14, <2>1
  <2>2. CASE reg' = [reg EXCEPT ![t] = new]
    BY <1>9, <1>14, <2>2
  <2> QED
    BY <1>7, <1>13, <2>1, <2>2
<1>16. Typed(W)'
  BY <1>5, <1>9, <1>12, <1>15 DEF Typed
<1>17. \A d \in Class : Prepared(d) <=> Prepared(d)'
  BY <1>12 DEF Prepared
<1>18. \A d \in Class : Prepared(d)' \/ (dict[d].m)' = Missing
  BY <1>2, <1>12, <1>17 DEF Originals
<1>19. ASSUME NEW u \in Thread, reg'[u].pc # "idle"
       PROVE  reg'[u].p \in Proto /\ Prepared(reg[u].p.target)'
  <2>1. CASE reg'[u].p = p
    BY <1>3, <1>4, <1>17, <2>1 DEF Prepared
  <2>2. CASE reg'[u] = reg[u]
    BY <1>2, <1>17, <1>19, <2>2, ProtoAssumption DEF Originals, Prepared
  <2> QED
    BY <1>15, <1>19, <2>1, <2>2
<1>20. Nested' /\ Cached' /\ Originals'
  BY <1>1, <1>2, <1>5, <1>17, <1>18, <1>19, RegistrationKeeps
<1> QED
  BY <1>16, <1>20 DEF IInv, TypeOK

-------------------------------------------------------------------------------
LEMMA NextIInv == IInv /\ [Next]_vars => IInv'
<1> SUFFICES ASSUME IInv, [Next]_vars PROVE IInv'
  OBVIOUS
<1>1. ASSUME NEW t \in Thread, Step(t) PROVE IInv'
  BY <1>1, EnterStep, HookStep, PreStep, MakeStep, CollectStep, InitRaisesStep DEF Step
<1>2. ASSUME NEW t \in Thread, Registering(t) PROVE IInv'
  BY <1>2, PostCopyStep, PostChainStep DEF Registering
<1>3. CASE UNCHANGED vars
  BY <1>3 DEF vars, IInv, TypeOK, Typed, Nested, Cached, Originals, Prepared
<1> QED
  BY <1>1, <1>2, <1>3, JClassStep, RegisterStep DEF Next

\* The invariant of the type cache holds in every state.
THEOREM Invariance == Spec => []IInv
BY InitIInv, NextIInv, PTL DEF Spec

\* PyJPClass_hook makes one type object of a Java class, for any classes, bases
\* and inner classes and any number of threads: who makes one has the monitor
\* and has looked into the cache after the bases were made.
THEOREM OneTypeMade == Spec => []OneType
<1>1. IInv => OneType
  BY DEF IInv, Cached, OneType
<1> QED
  BY <1>1, Invariance, PTL

\* However many customizers replace a Java method, and in whatever order with the
\* making of the class, the name of the original holds the Java method:
\* _applyStickyMethods and _applyCustomizerImpl keep it only when the entry they
\* replace is that of Java.
THEOREM OriginalsKept == Spec => []OriginalKept
<1>1. IInv => OriginalKept
  <2> SUFFICES ASSUME IInv, NEW c \in Class
               PROVE  /\ dict[c].orig \in {Java, Missing}
                      /\ c \in Owners /\ dict[c].m \in Proto => dict[c].orig = Java
    BY DEF OriginalKept
  <2>1. PICK U : Typed(U)
    BY DEF IInv, TypeOK
  <2>2. dict[c].orig \in {Java, Missing}
    BY <2>1 DEF Typed, DictType
  <2>3. Java \notin Proto /\ Missing \notin Proto
    BY ProtoAssumption, NameAssumption DEF Java, Missing
  <2> QED
    BY <2>2, <2>3 DEF IInv, Originals, Prepared
<1> QED
  BY <1>1, Invariance, PTL

-------------------------------------------------------------------------------
\* Induction, by a least counterexample.
LEMMA UpTo ==
  ASSUME NEW n \in Nat, NEW Good \in SUBSET Nat, 0 \in Good,
         \A i \in 1 .. n : i - 1 \in Good => i \in Good
  PROVE  \A i \in 0 .. n : i \in Good
<1> DEFINE Bad == {i \in 0 .. n : i \notin Good}
           R == OpToRel(<, Nat)
<1> SUFFICES ASSUME Bad # {} PROVE FALSE
  OBVIOUS
<1>1. Bad \subseteq Nat
  OBVIOUS
<1>2. \A i, j \in Nat : i < j => <<i, j>> \in R
  BY DEF OpToRel
<1>3. IsWellFoundedOn(R, Nat)
  BY NatLessThanWellFounded
<1>4. PICK k \in Bad : \A j \in Bad : <<j, k>> \notin R
  <2> HIDE DEF Bad, R
  <2> QED  BY <1>1, <1>3, WFMin
<1>5. k \in 1 .. n /\ k - 1 \in Nat /\ k - 1 \in 0 .. n /\ k - 1 < k
  OBVIOUS
<1>6. k - 1 \notin Bad
  <2>1. <<k - 1, k>> \in R
    BY <1>1, <1>2, <1>5
  <2> HIDE DEF Bad, R
  <2> QED  BY <1>4, <2>1
<1> QED  BY <1>5, <1>6

\* A step that is a function of what came before and of the index, and its iterates.
Steps(n, S) == [S \X (1 .. n) -> S]
Runs(f, n, S, x, step) ==
  /\ f \in [0 .. n -> S]
  /\ f[0] = x
  /\ \A i \in 1 .. n : f[i] = step[<<f[i - 1], i>>]

\* It can be iterated.
LEMMA Iterates ==
  ASSUME NEW n \in Nat, NEW S, NEW x \in S, NEW step \in Steps(n, S)
  PROVE  \E f : Runs(f, n, S, x, step)
<1> DEFINE Good == {k \in Nat : k <= n => \E f : Runs(f, k, S, x, step)}
<1>1. 0 \in Good
  <2>1. Runs([i \in 0 .. 0 |-> x], 0, S, x, step)
    BY DEF Runs
  <2> QED  BY <2>1
<1>2. ASSUME NEW k \in 1 .. n, k - 1 \in Good PROVE k \in Good
  <2>1. PICK f : Runs(f, k - 1, S, x, step)
    BY <1>2
  <2> DEFINE g == [i \in 0 .. k |-> IF i = k THEN step[<<f[k - 1], k>>] ELSE f[i]]
  <2>2. step[<<f[k - 1], k>>] \in S
    BY <2>1 DEF Runs, Steps
  <2>3. g \in [0 .. k -> S] /\ g[0] = x
    BY <2>1, <2>2 DEF Runs
  <2>4. ASSUME NEW i \in 1 .. k PROVE g[i] = step[<<g[i - 1], i>>]
    <3>1. g[i - 1] = f[i - 1]
      <4>1. i - 1 \in 0 .. k /\ i - 1 # k
        OBVIOUS
      <4> QED  BY <4>1
    <3>2. CASE i = k
      <4>1. g[k] = step[<<f[k - 1], k>>]
        OBVIOUS
      <4> HIDE DEF g
      <4> QED  BY <3>1, <3>2, <4>1
    <3>3. CASE i \in 1 .. k - 1
      <4>1. g[i] = f[i]
        BY <3>3
      <4>2. f[i] = step[<<f[i - 1], i>>]
        BY <2>1, <3>3 DEF Runs
      <4> HIDE DEF g
      <4> QED  BY <4>1, <4>2, <3>1
    <3> QED  BY <3>2, <3>3
  <2>5. Runs(g, k, S, x, step)
    BY <2>3, <2>4 DEF Runs
  <2> QED  BY <2>5
<1>3. n \in Good
  <2>1. Good \in SUBSET Nat
    OBVIOUS
  <2> HIDE DEF Good
  <2>2. \A i \in 0 .. n : i \in Good
    BY <1>1, <1>2, <2>1, UpTo
  <2> QED  BY <2>2
<1> QED  BY <1>3

\* What Keep takes from a sequence.
LEMMA KeepHas ==
  ASSUME NEW T, NEW s \in Seq(T), NEW S
  PROVE  Keep(s, S) \in Seq(T) /\ ToSet(s) \cap S \subseteq ToSet(Keep(s, S))
<1> DEFINE n == Len(s)
           next(q, i) == IF s[i] \in S THEN Append(q, s[i]) ELSE q
           body(f, i) == IF i = 0 THEN <<>>
                         ELSE IF s[i] \in S THEN Append(f[i - 1], s[i]) ELSE f[i - 1]
           Is(f) == f = [i \in 0 .. n |-> body(f, i)]
           picked == CHOOSE f : Is(f)
<1>1. n \in Nat /\ DOMAIN s = 1 .. n /\ \A i \in 1 .. n : s[i] \in T
  OBVIOUS
<1>2. Keep(s, S) = picked[n]
  BY DEF Keep
<1> DEFINE step == [p \in Seq(T) \X (1 .. n) |-> next(p[1], p[2])]
<1>3. \A q \in Seq(T), i \in 1 .. n : next(q, i) \in Seq(T) /\ step[<<q, i>>] = next(q, i)
  BY <1>1
<1>4. step \in Steps(n, Seq(T)) /\ <<>> \in Seq(T)
  BY <1>3 DEF Steps
<1>5. PICK f : Runs(f, n, Seq(T), <<>>, step)
  <2> HIDE DEF step, next, n
  <2> QED  BY <1>1, <1>4, Iterates
<1>6. f \in [0 .. n -> Seq(T)] /\ f[0] = <<>>
  BY <1>5 DEF Runs
<1>7. ASSUME NEW i \in 1 .. n PROVE f[i] = next(f[i - 1], i) /\ f[i - 1] \in Seq(T)
  <2> HIDE DEF step, next
  <2>1. f[i] = step[<<f[i - 1], i>>]
    BY <1>5 DEF Runs
  <2>2. f[i - 1] \in Seq(T)
    BY <1>6, <1>1
  <2> QED  BY <2>1, <2>2, <1>3
<1>8. Is(f)
  <2>1. ASSUME NEW i \in 0 .. n PROVE f[i] = body(f, i)
    <3>1. CASE i = 0
      BY <3>1, <1>6
    <3>2. CASE i \in 1 .. n
      BY <3>2, <1>7
    <3> QED  BY <3>1, <3>2, <1>1
  <2> HIDE DEF body
  <2> QED  BY <2>1, <1>6
<1>9. Is(picked)
  <2> HIDE DEF Is
  <2> QED  BY <1>8
<1> DEFINE Good == {i \in Nat : i <= n => /\ picked[i] \in Seq(T)
                                          /\ \A j \in 1 .. i : s[j] \in S => s[j] \in ToSet(picked[i])}
<1>10. picked[0] = <<>> /\ \A i \in 1 .. n : picked[i] = next(picked[i - 1], i)
  <2>1. \A i \in 0 .. n : picked[i] = body(picked, i)
    <3>1. picked = [i \in 0 .. n |-> body(picked, i)]
      BY <1>9
    <3> HIDE DEF picked, body
    <3> QED  BY <3>1
  <2> HIDE DEF picked, n
  <2> QED  BY <1>1, <2>1
<1> HIDE DEF picked, Is, n
<1>11. 0 \in Good
  <2>1. picked[0] \in Seq(T)
    BY <1>10, <1>4
  <2>2. \A j \in 1 .. 0 : FALSE
    OBVIOUS
  <2> QED  BY <2>1, <2>2
<1>12. ASSUME NEW i \in 1 .. n, i - 1 \in Good PROVE i \in Good
  <2>1. i - 1 \in Nat /\ picked[i - 1] \in Seq(T)
        /\ \A j \in 1 .. i - 1 : s[j] \in S => s[j] \in ToSet(picked[i - 1])
    BY <1>12, <1>1
  <2>2. PICK q : q = picked[i - 1]
    OBVIOUS
  <2>3. ToSet(q) \subseteq ToSet(Append(q, s[i])) /\ s[i] \in ToSet(Append(q, s[i]))
    <3>1. q \in Seq(T)
      BY <2>1, <2>2
    <3>2. /\ Len(Append(q, s[i])) = Len(q) + 1 /\ Append(q, s[i]) \in Seq(T)
          /\ \A j \in 1 .. Len(q) : Append(q, s[i])[j] = q[j]
          /\ Append(q, s[i])[Len(q) + 1] = s[i]
      BY <3>1, <1>1, AppendProperties
    <3> QED  BY <3>1, <3>2 DEF ToSet
  <2>4. picked[i] = IF s[i] \in S THEN Append(q, s[i]) ELSE q
    BY <1>10, <2>2
  <2>5. picked[i] \in Seq(T)
    BY <1>1, <2>1, <2>2, <2>4
  <2>6. ASSUME NEW j \in 1 .. i, s[j] \in S PROVE s[j] \in ToSet(picked[i])
    <3>1. CASE j = i
      BY <2>3, <2>4, <2>6, <3>1
    <3>2. CASE j \in 1 .. i - 1
      BY <2>1, <2>2, <2>3, <2>4, <2>6, <3>2
    <3> QED  BY <3>1, <3>2, <1>1
  <2> QED  BY <2>5, <2>6
<1>13. n \in Good
  <2>1. Good \in SUBSET Nat
    OBVIOUS
  <2> HIDE DEF Good
  <2>2. \A i \in 0 .. n : i \in Good
    BY <1>1, <1>11, <1>12, <2>1, UpTo
  <2> QED  BY <1>1, <2>2
<1> QED  BY <1>1, <1>2, <1>13 DEF ToSet

\* The calls that a customizer adds.
HookType == [kind : {"init", "sticky"}, p : Proto]
InitOf(p) == [kind |-> "init", p |-> p]

LEMMA HooksHas ==
  ASSUME NEW kind \in {"init", "sticky"}, NEW protos \in Seq(Proto)
  PROVE  /\ Hooks(kind, protos) \in Seq(HookType)
         /\ \A p \in ToSet(protos) : [kind |-> kind, p |-> p] \in ToSet(Hooks(kind, protos))
<1>1. DOMAIN protos = 1 .. Len(protos) /\ Len(protos) \in Nat
      /\ \A i \in 1 .. Len(protos) : protos[i] \in Proto
  OBVIOUS
<1>2. Hooks(kind, protos) = [i \in 1 .. Len(protos) |-> [kind |-> kind, p |-> protos[i]]]
  BY <1>1 DEF Hooks
<1>3. \A i \in 1 .. Len(protos) : [kind |-> kind, p |-> protos[i]] \in HookType
  BY <1>1 DEF HookType
<1>4. Hooks(kind, protos) \in Seq(HookType)
  <2> DEFINE h(i) == [kind |-> kind, p |-> protos[i]]
  <2>1. Hooks(kind, protos) = [i \in 1 .. Len(protos) |-> h(i)] /\ \A i \in 1 .. Len(protos) : h(i) \in HookType
    BY <1>2, <1>3
  <2> HIDE DEF h
  <2> QED  BY <1>1, <2>1
<1> QED  BY <1>1, <1>2, <1>4 DEF ToSet

LEMMA ConcatHas ==
  ASSUME NEW T, NEW s \in Seq(T), NEW t \in Seq(T)
  PROVE  s \o t \in Seq(T) /\ ToSet(s) \subseteq ToSet(s \o t) /\ ToSet(t) \subseteq ToSet(s \o t)
<1>1. /\ s \o t \in Seq(T) /\ Len(s \o t) = Len(s) + Len(t)
      /\ \A i \in 1 .. Len(s) + Len(t) : (s \o t)[i] = IF i <= Len(s) THEN s[i] ELSE t[i - Len(s)]
  BY ConcatProperties
<1>2. DOMAIN (s \o t) = 1 .. Len(s) + Len(t) /\ DOMAIN s = 1 .. Len(s) /\ DOMAIN t = 1 .. Len(t)
      /\ Len(s) \in Nat /\ Len(t) \in Nat
  BY <1>1
<1>3. ASSUME NEW i \in 1 .. Len(s) PROVE s[i] \in ToSet(s \o t)
  BY <1>1, <1>2 DEF ToSet
<1>4. ASSUME NEW i \in 1 .. Len(t) PROVE t[i] \in ToSet(s \o t)
  <2>1. PICK k : k = Len(s) + i
    OBVIOUS
  <2>2. k \in 1 .. Len(s) + Len(t) /\ ~(k <= Len(s)) /\ k - Len(s) = i
    BY <1>2, <2>1
  <2>3. (s \o t)[k] = t[i]
    BY <1>1, <2>2
  <2> QED  BY <1>2, <2>2, <2>3 DEF ToSet
<1> QED  BY <1>1, <1>2, <1>3, <1>4 DEF ToSet

\* A __jclass_init__ calls that of every customizer which has one.
LEMMA ChainHas ==
  ASSUME NEW protos \in Seq(Proto)
  PROVE  /\ Chain(protos) \in Seq(HookType)
         /\ \A p \in ToSet(protos) : p.init => InitOf(p) \in ToSet(Chain(protos))
<1> DEFINE a == Keep(protos, WithInit)
           b == Keep(protos, WithSticky)
<1>1. a \in Seq(Proto) /\ b \in Seq(Proto) /\ ToSet(protos) \cap WithInit \subseteq ToSet(a)
  BY KeepHas
<1>2. Chain(protos) = Hooks("init", a) \o Hooks("sticky", b)
  BY DEF Chain
<1> HIDE DEF a, b
<1>3. /\ Hooks("init", a) \in Seq(HookType) /\ Hooks("sticky", b) \in Seq(HookType)
      /\ \A p \in ToSet(a) : InitOf(p) \in ToSet(Hooks("init", a))
  BY <1>1, HooksHas DEF InitOf
<1>4. Chain(protos) \in Seq(HookType) /\ ToSet(Hooks("init", a)) \subseteq ToSet(Chain(protos))
  BY <1>2, <1>3, ConcatHas
<1>5. \A p \in ToSet(protos) : p \in Proto
  BY DEF ToSet
<1> QED  BY <1>1, <1>3, <1>4, <1>5 DEF WithInit

\* applyInitializer takes the __jclass_init__ of every class of the mro.
LEMMA InitsHas ==
  ASSUME NEW c \in Class, \A d \in Class : dict[d].init \in Seq(HookType)
  PROVE  /\ Inits(c) \in Seq(HookType)
         /\ \A b \in ToSet(Mro[c]) : ToSet(dict[b].init) \subseteq ToSet(Inits(c))
<1> DEFINE mro == Mro[c]
           n == Len(mro)
           T == Seq(HookType)
           part(i) == dict[mro[i]].init
           next(q, i) == part(i) \o q
           body(f, i) == IF i = 0 THEN <<>> ELSE part(i) \o f[i - 1]
           Is(f) == f = [i \in 0 .. n |-> body(f, i)]
           inits == CHOOSE f : Is(f)
<1>1. n \in Nat /\ DOMAIN mro = 1 .. n /\ \A i \in 1 .. n : part(i) \in T
  <2>1. mro \in Seq(Class)
    BY BasesAssumption
  <2> QED  BY <2>1
<1>2. Inits(c) = inits[n]
  BY DEF Inits
<1>15. \A b \in ToSet(Mro[c]) : \E i \in 1 .. n : dict[b].init = part(i)
  BY <1>1 DEF ToSet
<1> HIDE DEF part, mro
<1> DEFINE step == [p \in T \X (1 .. n) |-> next(p[1], p[2])]
<1>3. \A q \in T, i \in 1 .. n : next(q, i) \in T /\ step[<<q, i>>] = next(q, i)
  <2> SUFFICES ASSUME NEW q \in T, NEW i \in 1 .. n PROVE next(q, i) \in T /\ step[<<q, i>>] = next(q, i)
    OBVIOUS
  <2>1. part(i) \o q \in T
    BY <1>1, ConcatHas
  <2>2. <<q, i>> \in T \X (1 .. n)
    OBVIOUS
  <2> HIDE DEF T
  <2> QED  BY <2>1, <2>2
<1>4. step \in Steps(n, T) /\ <<>> \in T
  <2>1. <<>> \in T
    OBVIOUS
  <2> HIDE DEF next, T
  <2> QED  BY <1>3, <2>1 DEF Steps
<1>5. PICK f : Runs(f, n, T, <<>>, step)
  <2> HIDE DEF step, next, n, T
  <2> QED  BY <1>1, <1>4, Iterates
<1>6. f \in [0 .. n -> T] /\ f[0] = <<>>
  BY <1>5 DEF Runs
<1>7. ASSUME NEW i \in 1 .. n PROVE f[i] = next(f[i - 1], i) /\ f[i - 1] \in T
  <2> HIDE DEF step, next
  <2>1. f[i] = step[<<f[i - 1], i>>]
    BY <1>5 DEF Runs
  <2>2. f[i - 1] \in T
    <3> HIDE DEF T
    <3> QED  BY <1>6, <1>1
  <2> HIDE DEF T
  <2> QED  BY <2>1, <2>2, <1>3
<1>8. Is(f)
  <2>1. ASSUME NEW i \in 0 .. n PROVE f[i] = body(f, i)
    <3>1. CASE i = 0
      BY <3>1, <1>6
    <3>2. CASE i \in 1 .. n
      <4>1. i # 0 /\ f[i] = part(i) \o f[i - 1]
        BY <3>2, <1>7
      <4> QED  BY <4>1
    <3> QED  BY <3>1, <3>2, <1>1
  <2> HIDE DEF body
  <2> QED  BY <2>1, <1>6
<1>9. Is(inits)
  <2> HIDE DEF Is
  <2> QED  BY <1>8
<1>10. inits[0] = <<>> /\ \A i \in 1 .. n : inits[i] = next(inits[i - 1], i)
  <2>1. \A i \in 0 .. n : inits[i] = body(inits, i)
    <3>1. inits = [i \in 0 .. n |-> body(inits, i)]
      BY <1>9
    <3> HIDE DEF inits, body
    <3> QED  BY <3>1
  <2> HIDE DEF inits, n
  <2>2. \A i \in 1 .. n : i \in 0 .. n /\ i # 0
    BY <1>1
  <2>3. inits[0] = <<>>
    <3>1. 0 \in 0 .. n
      BY <1>1
    <3> QED  BY <2>1, <3>1
  <2>4. ASSUME NEW i \in 1 .. n PROVE inits[i] = next(inits[i - 1], i)
    <3>1. inits[i] = body(inits, i) /\ i # 0
      BY <2>1, <2>2
    <3> HIDE DEF part
    <3> QED  BY <3>1
  <2> HIDE DEF next
  <2> QED  BY <2>3, <2>4
<1> DEFINE Has(i) == \A j \in 1 .. i : ToSet(part(j)) \subseteq ToSet(inits[i])
           Good == {i \in Nat : i <= n => inits[i] \in T /\ Has(i)}
<1> HIDE DEF inits, Is, n, T
<1>11. 0 \in Good
  <2>1. inits[0] \in T
    BY <1>10, <1>4
  <2>2. \A j \in 1 .. 0 : FALSE
    OBVIOUS
  <2> QED  BY <2>1, <2>2
<1>12. ASSUME NEW i \in 1 .. n, i - 1 \in Good PROVE i \in Good
  <2>1. i - 1 \in Nat /\ inits[i - 1] \in T /\ Has(i - 1)
    BY <1>12, <1>1
  <2>2. PICK q, s : q = inits[i - 1] /\ s = part(i)
    OBVIOUS
  <2>3. inits[i] = s \o q /\ s \in T /\ q \in T
    BY <1>1, <1>10, <2>1, <2>2
  <2>4. s \o q \in T /\ ToSet(s) \subseteq ToSet(s \o q) /\ ToSet(q) \subseteq ToSet(s \o q)
    BY <2>3, ConcatHas DEF T
  <2>5. ASSUME NEW j \in 1 .. i PROVE ToSet(part(j)) \subseteq ToSet(inits[i])
    <3>1. CASE j = i
      BY <2>2, <2>3, <2>4, <3>1
    <3>2. CASE j \in 1 .. i - 1
      BY <2>1, <2>2, <2>3, <2>4, <3>2
    <3> QED  BY <3>1, <3>2, <1>1
  <2>6. Has(i) /\ inits[i] \in T
    BY <2>3, <2>4, <2>5
  <2> HIDE DEF Has
  <2> QED  BY <2>6
<1>13. n \in Good
  <2>1. Good \in SUBSET Nat
    OBVIOUS
  <2> HIDE DEF Good
  <2>2. \A i \in 0 .. n : i \in Good
    BY <1>1, <1>11, <1>12, <2>1, UpTo
  <2> QED  BY <1>1, <2>2
<1>14. inits[n] \in T /\ Has(n)
  <2> HIDE DEF Has
  <2> QED  BY <1>1, <1>13
<1>16. ASSUME NEW b \in ToSet(Mro[c]) PROVE ToSet(dict[b].init) \subseteq ToSet(Inits(c))
  <2>1. PICK i \in 1 .. n : dict[b].init = part(i)
    BY <1>15
  <2>2. ToSet(part(i)) \subseteq ToSet(Inits(c))
    BY <1>2, <1>14
  <2> QED  BY <2>1, <2>2
<1> QED  BY <1>2, <1>14, <1>16 DEF T

-------------------------------------------------------------------------------
\* Which customizers reach which classes.  What a thread does is its innermost frame.
Idle == [cls |-> "none", pc |-> "idle", todo |-> <<>>]
Doing(t) == IF stack[t] = <<>> THEN Idle ELSE Top(t)
On(c, pcs) == \E t \in Thread : Doing(t).cls = c /\ Doing(t).pc \in pcs
Others(t) == \A u \in Thread : u # t => Doing(u)' = Doing(u)

\* What the lists hold.
Contents ==
  /\ \A c \in Class : hints[c].implementations \in Seq(Proto) /\ dict[c].init \in Seq(HookType)
  /\ \A t \in Thread : /\ reg[t].prev \in Seq(HookType)
                       /\ reg[t].todo \subseteq Class /\ reg[t].applied \subseteq Class
                       /\ Doing(t).pc = "init" => Doing(t).todo \in Seq(HookType)
  /\ ran \in [Class -> SUBSET Proto]

\* The class has got its entries; it has asked its bases for their hooks.
Began(c) == c \in host \/ On(c, {"make"})
Collected(c) == c \in host /\ ~On(c, {"mark", "collect"})

Marked ==
  /\ \A c \in Class : hints[c].instantiated => c \in host
  /\ \A c \in host : hints[c].instantiated \/ On(c, {"mark"})
  /\ \A t \in Thread : Doing(t).pc \in {"mark", "collect", "init"} => Doing(t).cls \in host

\* A class comes after its bases.
BasesReady ==
  \A t \in Thread : Doing(t).pc \in {"pre", "make", "mark", "collect"} =>
    \A b \in ToSet(Bases[Doing(t).cls]) : Collected(b)

BasesFirst ==
  \A c \in Class : Collected(c) => /\ \A b \in ToSet(Bases[c]) : Collected(b)
                                   /\ \A b \in ToSet(Mro[c]) : hints[b].instantiated

\* Between the reading and the installing of a __jclass_init__.
Busy(t) == reg[t].pc \in {"copy", "chain"}
Installing(p) == \E t \in Thread : Busy(t) /\ reg[t].p = p
Counts(p) == p \in kept /\ p.init /\ ~Installing(p)

Orderly ==
  /\ \A p \in kept : p \in Proto /\ p \in ToSet(hints[p.target].implementations)
  /\ \A t \in Thread : reg[t].pc # "idle" =>
       /\ reg[t].p \in Proto
       /\ reg[t].p \in ToSet(hints[reg[t].p.target].implementations)
       /\ hints[reg[t].p.target].instantiated
       /\ Busy(t) => reg[t].applied = {}
  /\ \A t, u \in Thread : t # u /\ reg[t].pc # "idle" /\ reg[u].pc # "idle" =>
       /\ reg[t].p # reg[u].p
       /\ Busy(t) /\ Busy(u) /\ reg[t].p.target = reg[u].p.target => reg[t].p \notin kept

\* The hook of a customizer is installed, and whoever installs another one knows it.
Installed ==
  \A p \in Proto : Counts(p) /\ Began(p.target) => InitOf(p) \in ToSet(dict[p.target].init)

Previous ==
  \A t \in Thread : reg[t].pc = "chain" =>
    \A p \in Proto : Counts(p) /\ p.target = reg[t].p.target => InitOf(p) \in ToSet(reg[t].prev)

\* The class is about to call the hook.
Waiting(p, c) ==
  \E t \in Thread : /\ Doing(t).cls = c /\ Doing(t).pc = "init"
                    /\ InitOf(p) \in ToSet(Doing(t).todo)

\* _applyAll is on the way through the classes of E, which had asked their bases before
\* the hook was installed: each follows a base in E, up to the class of the customizer.
Walks(t, E) ==
  /\ reg[t].p.target \in reg[t].applied \cup reg[t].todo
  /\ \A c \in E \ {reg[t].p.target} : \E d \in E : d \in ToSet(Bases[c])
  /\ \A c \in E : \A d \in E \cap ToSet(Bases[c]) :
       d \in reg[t].applied => c \in reg[t].applied \cup reg[t].todo
  /\ \A c \in reg[t].applied : reg[t].p \in ran[c]

Early(p, E) ==
  /\ E \subseteq host
  /\ E # {} => \E t \in Thread : reg[t].pc = "all" /\ reg[t].p = p /\ Walks(t, E)

Reaches(p, E) ==
  \A c \in Class : Collected(c) /\ p.target \in ToSet(Mro[c]) /\ c \notin failed =>
    p \in ran[c] \/ Waiting(p, c) \/ c \in E

Reach(p) ==
  Counts(p) /\ Began(p.target) => \E E \in SUBSET Class : Early(p, E) /\ Reaches(p, E)

Reached == \A p \in Proto : Reach(p)

HInv ==
  Contents /\ Marked /\ BasesReady /\ BasesFirst /\ Orderly /\ Installed /\ Previous /\ Reached

\* What the stacks say of the innermost frames.
LEMMA Exclusion ==
  ASSUME IInv
  PROVE  /\ \A t \in Thread : /\ Doing(t).pc \in Points \cup {"idle"}
                              /\ Doing(t).pc # "idle" => Doing(t).cls \in Class
                              /\ Doing(t).pc \in {"pre", "make"} => Doing(t).cls \notin host
         /\ \A t, u \in Thread : t # u => Doing(t).pc \in {"idle", "enter"}
                                          \/ Doing(u).pc \in {"idle", "enter"}
<1>1. PICK U : Typed(U)
  BY DEF IInv, TypeOK
<1>2. stack \in [Thread -> Seq(FrameType(U))] /\ Nested
  BY <1>1 DEF IInv, Typed
<1>3. ASSUME NEW t \in Thread
      PROVE  /\ Doing(t).pc \in Points \cup {"idle"}
             /\ Doing(t).pc # "idle" => Doing(t).cls \in Class
             /\ Doing(t).pc \in {"pre", "make"} => Doing(t).cls \notin host
             /\ Doing(t).pc \notin {"idle", "enter"} => lock = t
  <2>1. CASE stack[t] = <<>>
    BY <2>1 DEF Doing, Idle
  <2>2. CASE stack[t] # <<>>
    <3>1. /\ Len(stack[t]) \in 1 .. Len(stack[t])
          /\ Top(t) = stack[t][Len(stack[t])] /\ Top(t) \in FrameType(U) /\ Top(t).cls \in Class
      BY <1>2, <2>2, TopFrame
    <3>2. Doing(t) = Top(t)
      BY <2>2 DEF Doing
    <3> QED  BY <1>2, <3>1, <3>2 DEF Nested, FrameType, Points
  <2> QED  BY <2>1, <2>2
<1> QED  BY <1>3

\* The changes of a stack.
LEMMA DoingMoved ==
  ASSUME NEW U, stack \in [Thread -> Seq(FrameType(U))], stack' \in [Thread -> Seq(FrameType(U))],
         NEW t \in Thread, stack[t] # <<>>, NEW pc, Moved(t, pc)
  PROVE  Others(t) /\ Doing(t)'.pc = pc /\ Doing(t)'.cls = Doing(t).cls /\ Doing(t) = Top(t)
<1>1. Len(stack[t]) \in 1 .. Len(stack[t]) /\ Top(t) = stack[t][Len(stack[t])]
  BY TopFrame
<1>2. stack'[t] # <<>> /\ Len(stack'[t]) = Len(stack[t])
  BY <1>1, EmptySeq DEF Moved
<1>3. Top(t)' = stack'[t][Len(stack[t])]
  BY <1>2 DEF Top, Last
<1>4. Doing(t)' = Top(t)' /\ Doing(t) = Top(t)
  BY <1>2 DEF Doing
<1>5. Top(t)'.pc = pc /\ Top(t)'.cls = Top(t).cls
  BY <1>1, <1>3 DEF Moved
<1>6. Others(t)
  BY DEF Others, Doing, Top, Moved
<1> QED  BY <1>4, <1>5, <1>6

LEMMA DoingPush ==
  ASSUME NEW U, stack \in [Thread -> Seq(FrameType(U))], <<>> \in U, NEW t \in Thread,
         NEW c \in Class, Push(t, c)
  PROVE  Others(t) /\ Doing(t)'.pc = "hook"
<1>1. /\ stack' \in [Thread -> Seq(FrameType(U))]
      /\ \A u \in Thread : u # t => stack'[u] = stack[u]
      /\ Len(stack'[t]) = Len(stack[t]) + 1
      /\ stack'[t][Len(stack[t]) + 1].pc = "hook"
  BY PushStack
<1>2. Len(stack[t]) \in Nat /\ Len(<<>>) = 0
  OBVIOUS
<1>3. stack'[t] # <<>>
  BY <1>1, <1>2
<1>4. Doing(t)' = stack'[t][Len(stack'[t])]
  BY <1>3 DEF Doing, Top, Last
<1>5. Others(t)
  BY <1>1 DEF Others, Doing, Top
<1> QED  BY <1>1, <1>4, <1>5

LEMMA DoingPop ==
  ASSUME NEW U, stack \in [Thread -> Seq(FrameType(U))], Nested, NEW t \in Thread,
         stack[t] # <<>>, Pop(t)
  PROVE  Others(t) /\ Doing(t)'.pc \in {"idle", "bases", "inner"}
<1>1. /\ stack' \in [Thread -> Seq(FrameType(U))]
      /\ \A u \in Thread : u # t => stack'[u] = stack[u]
      /\ Len(stack'[t]) = Len(stack[t]) - 1 /\ Len(stack[t]) \in Nat \ {0}
      /\ \A i \in 1 .. Len(stack[t]) - 1 : stack'[t][i] = stack[t][i]
  BY PopStack
<1>2. Others(t)
  BY <1>1 DEF Others, Doing, Top
<1>3. CASE stack'[t] = <<>>
  BY <1>2, <1>3 DEF Doing, Idle
<1>4. CASE stack'[t] # <<>>
  <2>1. PICK k : k = Len(stack'[t])
    OBVIOUS
  <2>2. k # 0
    BY <1>1, <1>4, <2>1, EmptySeq
  <2>3. k \in 1 .. Len(stack[t]) - 1 /\ k < Len(stack[t]) /\ k \in 1 .. Len(stack[t])
    BY <1>1, <2>1, <2>2
  <2>4. stack'[t][k] = stack[t][k] /\ stack[t][k].pc \in {"bases", "inner"}
    BY <1>1, <2>3 DEF Nested
  <2>5. Doing(t)' = stack'[t][k]
    BY <1>4, <2>1 DEF Doing, Top, Last
  <2> QED  BY <1>2, <2>4, <2>5
<1> QED  BY <1>3, <1>4

\* At a point of a wrapper.
LEMMA DoingAt ==
  ASSUME NEW t \in Thread, NEW pc, At(t, pc)
  PROVE  stack[t] # <<>> /\ Doing(t) = Top(t) /\ Doing(t).pc = pc
BY DEF At, Doing

\* The steps that neither give a class its entries nor take them to another one.
Quiet(t) ==
  /\ Others(t)
  /\ Doing(t).pc \in {"idle", "enter", "hook", "bases", "inner", "init"}
  /\ Doing(t).pc = "init" => Doing(t).todo = <<>>
  /\ Doing(t)'.pc \in {"idle", "enter", "hook", "bases", "pre", "inner"}
  /\ Doing(t)'.pc = "pre" => Doing(t).pc = "bases" /\ ToSet(Bases[Doing(t)'.cls]) \subseteq host
  /\ UNCHANGED <<hints, host, dict, reg, ran, kept, failed>>

LEMMA QuietSteps ==
  ASSUME IInv, NEW t \in Thread,
         \/ \E c \in Class : JClass(t, c)
         \/ Enter(t) \/ Hook(t) \/ MakeBases(t) \/ InitDone(t) \/ MakeInner(t)
  PROVE  Quiet(t)
<1>1. PICK V : Typed(V)
  BY DEF IInv, TypeOK
<1>2. PICK U : U = V \cup {<<>>}
  OBVIOUS
<1>3. stack \in [Thread -> Seq(FrameType(U))] /\ <<>> \in U /\ Nested
  BY <1>1, <1>2, TypedMonotonic DEF IInv, Typed
<1>4. ASSUME NEW pc \in Points, stack[t] # <<>>, Goto(t, pc)
      PROVE  Others(t) /\ Doing(t)'.pc = pc /\ Doing(t)'.cls = Doing(t).cls
  <2>1. stack' \in [Thread -> Seq(FrameType(U))] /\ Moved(t, pc)
    BY <1>3, <1>4, GotoStack
  <2> QED  BY <1>3, <1>4, <2>1, DoingMoved
<1>5. ASSUME NEW c \in Class, JClass(t, c) PROVE Quiet(t)
  <2>1. stack[t] = <<>> /\ stack' = [stack EXCEPT ![t] = <<Frame(c, "enter")>>]
    BY <1>5 DEF JClass
  <2>2. Doing(t).pc = "idle"
    BY <2>1 DEF Doing, Idle
  <2>3. stack'[t] = <<Frame(c, "enter")>> /\ \A u \in Thread : u # t => stack'[u] = stack[u]
    BY <1>3, <2>1
  <2>4. Doing(t)' = Frame(c, "enter")
    BY <2>3 DEF Doing, Top, Last
  <2>5. Doing(t)'.pc = "enter"
    BY <2>4 DEF Frame
  <2>6. Others(t)
    BY <2>3 DEF Others, Doing, Top
  <2> QED  BY <1>5, <2>2, <2>5, <2>6 DEF Quiet, JClass, history
<1>6. CASE Enter(t)
  <2>1. At(t, "enter") /\ Goto(t, "hook")
    BY <1>6 DEF Enter
  <2>2. stack[t] # <<>> /\ Doing(t).pc = "enter"
    BY <2>1, DoingAt
  <2>3. Others(t) /\ Doing(t)'.pc = "hook"
    BY <1>4, <2>1, <2>2 DEF Points
  <2> QED  BY <1>6, <2>2, <2>3 DEF Quiet, Enter, history
<1>7. CASE Hook(t)
  <2>1. At(t, "hook") /\ (Pop(t) \/ Goto(t, "bases"))
    BY <1>7 DEF Hook
  <2>2. stack[t] # <<>> /\ Doing(t).pc = "hook"
    BY <2>1, DoingAt
  <2>3. Others(t) /\ Doing(t)'.pc \in {"idle", "bases", "inner"}
    BY <1>3, <1>4, <2>1, <2>2, DoingPop DEF Points
  <2> QED  BY <1>7, <2>2, <2>3 DEF Quiet, Hook, history
<1>8. CASE MakeBases(t)
  <2>1. /\ At(t, "bases")
        /\ (\E b \in Class : Push(t, b)) \/ Pop(t)
           \/ (ToSet(Bases[Top(t).cls]) \subseteq host /\ Goto(t, "pre"))
    BY <1>8 DEF MakeBases
  <2>2. stack[t] # <<>> /\ Doing(t).pc = "bases" /\ Doing(t) = Top(t)
    BY <2>1, DoingAt
  <2>3. /\ Others(t) /\ Doing(t)'.pc \in {"idle", "hook", "bases", "pre", "inner"}
        /\ Doing(t)'.pc = "pre" => ToSet(Bases[Doing(t)'.cls]) \subseteq host
    <3>1. CASE \E b \in Class : Push(t, b)
      BY <1>3, <3>1, DoingPush
    <3>2. CASE Pop(t)
      BY <1>3, <2>2, <3>2, DoingPop
    <3>3. CASE ToSet(Bases[Top(t).cls]) \subseteq host /\ Goto(t, "pre")
      BY <1>4, <2>2, <3>3 DEF Points
    <3> QED  BY <2>1, <3>1, <3>2, <3>3
  <2> QED  BY <1>8, <2>2, <2>3 DEF Quiet, MakeBases, history
<1>9. CASE InitDone(t)
  <2>1. At(t, "init") /\ Top(t).todo = <<>> /\ Goto(t, "inner")
    BY <1>9 DEF InitDone
  <2>2. stack[t] # <<>> /\ Doing(t).pc = "init" /\ Doing(t) = Top(t)
    BY <2>1, DoingAt
  <2>3. Others(t) /\ Doing(t)'.pc = "inner"
    BY <1>4, <2>1, <2>2 DEF Points
  <2> QED  BY <1>9, <2>1, <2>2, <2>3 DEF Quiet, InitDone, history
<1>10. CASE MakeInner(t)
  <2>1. At(t, "inner")
    BY <1>10 DEF MakeInner
  <2>2. stack[t] # <<>> /\ Doing(t).pc = "inner" /\ Doing(t) = Top(t) /\ Top(t).cls \in Class
    BY <1>3, <2>1, DoingAt, TopFrame
  <2>3. Pop(t) \/ \E b \in Class : Push(t, b)
    BY <1>10, <2>2, ClassAssumption DEF MakeInner
  <2>4. Others(t) /\ Doing(t)'.pc \in {"idle", "hook", "bases", "inner"}
    <3>1. CASE \E b \in Class : Push(t, b)
      BY <1>3, <3>1, DoingPush
    <3>2. CASE Pop(t)
      BY <1>3, <2>2, <3>2, DoingPop
    <3> QED  BY <2>3, <3>1, <3>2
  <2> QED  BY <1>10, <2>2, <2>4 DEF Quiet, MakeInner, history
<1> QED  BY <1>5, <1>6, <1>7, <1>8, <1>9, <1>10

-------------------------------------------------------------------------------
LEMMA InitHInv == Init => HInv
<1> SUFFICES ASSUME Init PROVE HInv
  OBVIOUS
<1>1. \A t \in Thread : Doing(t) = Idle /\ reg[t] = NoReg
  BY DEF Init, Doing
<1>2. \A t \in Thread : Doing(t).pc = "idle" /\ reg[t].pc = "idle"
  BY <1>1 DEF Idle, NoReg
<1>3. host = {} /\ kept = {} /\ \A c \in Class : ~hints[c].instantiated
  BY DEF Init
<1>4. Contents
  <2>1. \A c \in Class : hints[c].implementations = <<>> /\ dict[c].init = <<>> /\ ran[c] = {}
    BY DEF Init, Empty
  <2>2. \A t \in Thread : reg[t].prev = <<>> /\ reg[t].todo = {} /\ reg[t].applied = {}
    BY <1>1 DEF NoReg
  <2>3. ran \in [Class -> SUBSET Proto]
    BY DEF Init
  <2>4. <<>> \in Seq(Proto) /\ <<>> \in Seq(HookType)
    OBVIOUS
  <2> QED  BY <1>2, <2>1, <2>2, <2>3, <2>4 DEF Contents
<1>5. Marked /\ BasesReady
  BY <1>2, <1>3 DEF Marked, BasesReady
<1>6. BasesFirst
  BY <1>3 DEF BasesFirst, Collected
<1>7. Orderly
  BY <1>2, <1>3 DEF Orderly
<1>8. Installed /\ Previous /\ Reached
  BY <1>2, <1>3 DEF Installed, Previous, Reached, Reach, Counts
<1> QED  BY <1>4, <1>5, <1>6, <1>7, <1>8 DEF HInv

\* What keeps a customizer on its way.
LEMMA ReachKeeps ==
  ASSUME NEW p \in Proto, Reach(p), Contents, host \subseteq host',
         Counts(p)' /\ Began(p.target)' =>
           \/ Counts(p) /\ Began(p.target)
           \/ \A c \in Class : ~(Collected(c)' /\ p.target \in ToSet(Mro[c])),
         \A u \in Thread : reg[u].pc = "all" /\ reg[u].p = p => reg'[u] = reg[u],
         \A c \in Class : ran[c] \subseteq ran'[c],
         \A c \in Class :
           Counts(p)' /\ p.target \in ToSet(Mro[c]) /\ Collected(c)' /\ c \notin failed' =>
             \/ p \in ran'[c] \/ Waiting(p, c)'
             \/ Collected(c) /\ c \notin failed /\ ~Waiting(p, c)
  PROVE  Reach(p)'
<1> SUFFICES ASSUME Counts(p)', Began(p.target)'
             PROVE  \E E \in SUBSET Class : Early(p, E)' /\ Reaches(p, E)'
  BY DEF Reach
<1>1. CASE Counts(p) /\ Began(p.target)
  <2>1. PICK E \in SUBSET Class : Early(p, E) /\ Reaches(p, E)
    BY <1>1 DEF Reach
  <2>2. Early(p, E)'
    <3>1. E \subseteq host'
      BY <2>1 DEF Early
    <3>2. ASSUME E # {} PROVE \E t \in Thread : reg'[t].pc = "all" /\ reg'[t].p = p /\ Walks(t, E)'
      <4>1. PICK t \in Thread : reg[t].pc = "all" /\ reg[t].p = p /\ Walks(t, E)
        BY <2>1, <3>2 DEF Early
      <4>2. reg'[t] = reg[t] /\ reg[t].applied \subseteq Class
        BY <4>1 DEF Contents
      <4>3. \A c \in reg'[t].applied : reg'[t].p \in ran'[c]
        BY <4>1, <4>2 DEF Walks
      <4>4. Walks(t, E)'
        BY <4>1, <4>2, <4>3 DEF Walks
      <4> QED  BY <4>1, <4>2, <4>4
    <3> QED  BY <3>1, <3>2 DEF Early
  <2>3. ASSUME NEW c \in Class, Collected(c)', p.target \in ToSet(Mro[c]), c \notin failed'
        PROVE  p \in ran'[c] \/ Waiting(p, c)' \/ c \in E
    <3>1. CASE p \in ran'[c] \/ Waiting(p, c)'
      BY <3>1
    <3>2. CASE Collected(c) /\ c \notin failed /\ ~Waiting(p, c)
      BY <2>1, <2>3, <3>2 DEF Reaches
    <3> QED  BY <2>3, <3>1, <3>2
  <2>4. Reaches(p, E)'
    BY <2>3 DEF Reaches
  <2> QED  BY <2>2, <2>4
<1>2. CASE \A c \in Class : ~(Collected(c)' /\ p.target \in ToSet(Mro[c]))
  <2>1. Early(p, {})'
    BY DEF Early
  <2>2. Reaches(p, {})'
    BY <1>2 DEF Reaches
  <2> QED  BY <2>1, <2>2
<1> QED  BY <1>1, <1>2

LEMMA ReachedKeeps ==
  ASSUME Reached, Contents, host \subseteq host',
         \A p \in Proto : Counts(p)' /\ Began(p.target)' =>
           \/ Counts(p) /\ Began(p.target)
           \/ \A c \in Class : ~(Collected(c)' /\ p.target \in ToSet(Mro[c])),
         \A u \in Thread : reg[u].pc = "all" => reg'[u] = reg[u],
         \A c \in Class : ran[c] \subseteq ran'[c],
         \A p \in Proto, c \in Class :
           Counts(p)' /\ p.target \in ToSet(Mro[c]) /\ Collected(c)' /\ c \notin failed' =>
             \/ p \in ran'[c] \/ Waiting(p, c)'
             \/ Collected(c) /\ c \notin failed /\ ~Waiting(p, c)
  PROVE  Reached'
<1> SUFFICES ASSUME NEW p \in Proto PROVE Reach(p)'
  BY DEF Reached
<1>1. Reach(p)
  BY DEF Reached
<1> QED  BY <1>1, ReachKeeps

\* The registrations stay as they are.
LEMMA OrderlyKeeps ==
  ASSUME Orderly, UNCHANGED <<reg, kept>>,
         \A c \in Class : /\ hints'[c].implementations = hints[c].implementations
                          /\ hints[c].instantiated => hints'[c].instantiated
  PROVE  Orderly'
<1>1. \A p \in kept' : p \in Proto /\ p \in ToSet(hints'[p.target].implementations)
  BY ProtoAssumption DEF Orderly
<1>2. ASSUME NEW t \in Thread, reg'[t].pc # "idle"
      PROVE  /\ reg'[t].p \in Proto
             /\ reg'[t].p \in ToSet(hints'[reg'[t].p.target].implementations)
             /\ hints'[reg'[t].p.target].instantiated
             /\ Busy(t)' => reg'[t].applied = {}
  BY <1>2, ProtoAssumption DEF Orderly, Busy
<1>3. \A t, u \in Thread : t # u /\ reg'[t].pc # "idle" /\ reg'[u].pc # "idle" =>
       /\ reg'[t].p # reg'[u].p
       /\ Busy(t)' /\ Busy(u)' /\ reg'[t].p.target = reg'[u].p.target => reg'[t].p \notin kept'
  BY DEF Orderly, Busy
<1> QED  BY <1>1, <1>2, <1>3 DEF Orderly

LEMMA CountsKeeps ==
  ASSUME UNCHANGED <<reg, kept>>
  PROVE  /\ \A p : Counts(p)' <=> Counts(p)
         /\ Previous => Previous'
<1>1. \A p : Counts(p)' <=> Counts(p)
  BY DEF Counts, Installing, Busy
<1> QED  BY <1>1 DEF Previous

LEMMA QuietSame ==
  ASSUME NEW t \in Thread, Quiet(t)
  PROVE  \A c : /\ On(c, {"make"})' <=> On(c, {"make"})
                /\ On(c, {"mark"})' <=> On(c, {"mark"})
                /\ On(c, {"mark", "collect"})' <=> On(c, {"mark", "collect"})
                /\ Began(c)' <=> Began(c)
                /\ Collected(c)' <=> Collected(c)
                /\ \A p : Waiting(p, c)' <=> Waiting(p, c)
<1>1. \A u \in Thread : u # t => Doing(u)' = Doing(u)
  BY DEF Quiet, Others
<1>2. /\ Doing(t).pc \notin {"make", "mark", "collect"} /\ Doing(t)'.pc \notin {"make", "mark", "collect", "init"}
      /\ Doing(t).pc = "init" => Doing(t).todo = <<>>
  BY DEF Quiet
<1> SUFFICES ASSUME NEW c
             PROVE  /\ On(c, {"make"})' <=> On(c, {"make"})
                    /\ On(c, {"mark"})' <=> On(c, {"mark"})
                    /\ On(c, {"mark", "collect"})' <=> On(c, {"mark", "collect"})
                    /\ Began(c)' <=> Began(c)
                    /\ Collected(c)' <=> Collected(c)
                    /\ \A p : Waiting(p, c)' <=> Waiting(p, c)
  OBVIOUS
<1>3. On(c, {"make"})' <=> On(c, {"make"})
  BY <1>1, <1>2 DEF On
<1>4. On(c, {"mark"})' <=> On(c, {"mark"})
  BY <1>1, <1>2 DEF On
<1>5. On(c, {"mark", "collect"})' <=> On(c, {"mark", "collect"})
  BY <1>1, <1>2 DEF On
<1>6. ASSUME NEW p PROVE Waiting(p, c)' <=> Waiting(p, c)
  <2>1. ToSet(<<>>) = {}
    BY DEF ToSet
  <2>2. Waiting(p, c) => Waiting(p, c)'
    BY <1>1, <1>2, <2>1 DEF Waiting
  <2>3. Waiting(p, c)' => Waiting(p, c)
    BY <1>1, <1>2 DEF Waiting
  <2> QED  BY <2>2, <2>3
<1> QED  BY <1>3, <1>4, <1>5, <1>6 DEF Began, Collected, Quiet

LEMMA QuietHInv ==
  ASSUME IInv, HInv, NEW t \in Thread, Quiet(t)
  PROVE  HInv'
<1>1. UNCHANGED <<hints, host, dict, reg, ran, kept, failed>> /\ Others(t)
  BY DEF Quiet
<1>2. \A c : /\ On(c, {"make"})' <=> On(c, {"make"})
             /\ On(c, {"mark"})' <=> On(c, {"mark"})
             /\ On(c, {"mark", "collect"})' <=> On(c, {"mark", "collect"})
             /\ Began(c)' <=> Began(c)
             /\ Collected(c)' <=> Collected(c)
             /\ \A p : Waiting(p, c)' <=> Waiting(p, c)
  BY QuietSame
<1>3. (\A p : Counts(p)' <=> Counts(p)) /\ Previous'
  BY <1>1, CountsKeeps DEF HInv
<1>4. \A u \in Thread : Doing(u)'.pc \in {"make", "mark", "collect", "init"} => Doing(u)' = Doing(u)
  BY <1>1 DEF Others, Quiet
<1>5. Contents'
  BY <1>1, <1>4 DEF HInv, Contents
<1>6. Marked'
  BY <1>1, <1>2, <1>4 DEF HInv, Marked
<1>7. BasesReady'
  <2> SUFFICES ASSUME NEW u \in Thread, Doing(u)'.pc \in {"pre", "make", "mark", "collect"},
                      NEW b \in ToSet(Bases[Doing(u)'.cls])
               PROVE  Collected(b)'
    BY DEF BasesReady
  <2>1. CASE Doing(u)' = Doing(u)
    BY <1>2, <2>1 DEF HInv, BasesReady
  <2>2. CASE Doing(u)' # Doing(u)
    <3>1. u = t /\ Doing(t)'.pc = "pre" /\ Doing(t).pc = "bases" /\ b \in host
      BY <1>1, <2>2 DEF Others, Quiet
    <3>2. ~On(b, {"mark", "collect"})
      BY <3>1, Exclusion DEF On
    <3> QED  BY <1>2, <3>1, <3>2 DEF Collected
  <2> QED  BY <2>1, <2>2
<1>8. BasesFirst'
  BY <1>1, <1>2 DEF HInv, BasesFirst
<1>9. Orderly'
  BY <1>1, OrderlyKeeps DEF HInv
<1>10. Installed'
  BY <1>1, <1>2, <1>3 DEF HInv, Installed
<1>11. Reached'
  BY <1>1, <1>2, <1>3, ReachedKeeps DEF HInv
<1> QED  BY <1>3, <1>5, <1>6, <1>7, <1>8, <1>9, <1>10, <1>11 DEF HInv

\* A wrapper goes on to its next point.
LEMMA GoesOn ==
  ASSUME IInv, NEW t \in Thread, NEW from, At(t, from), NEW to \in Points, Goto(t, to)
  PROVE  /\ Others(t) /\ Doing(t) = Top(t) /\ Doing(t).pc = from
         /\ Doing(t)'.pc = to /\ Doing(t)'.cls = Doing(t).cls
<1>1. PICK U : Typed(U)
  BY DEF IInv, TypeOK
<1>2. stack \in [Thread -> Seq(FrameType(U))]
  BY <1>1 DEF Typed
<1>3. stack[t] # <<>> /\ Doing(t) = Top(t) /\ Doing(t).pc = from
  BY DoingAt
<1>4. stack' \in [Thread -> Seq(FrameType(U))] /\ Moved(t, to)
  BY <1>2, <1>3, GotoStack
<1> QED  BY <1>2, <1>3, <1>4, DoingMoved

LEMMA PreHInv ==
  ASSUME IInv, HInv, NEW t \in Thread, Pre(t)
  PROVE  HInv'
<1> USE DEF HInv
<1>1. PICK c : c = Doing(t).cls
  OBVIOUS
<1>2. /\ Others(t) /\ Doing(t) = Top(t) /\ Doing(t).pc = "pre"
      /\ Doing(t)'.pc = "make" /\ Doing(t)'.cls = c
  BY <1>1, GoesOn DEF Pre, Points
<1>3. c \in Class /\ c \notin host
  BY <1>1, <1>2, Exclusion
<1>4. UNCHANGED <<hints, host, reg, ran, kept, failed>>
  BY DEF Pre, history
<1>5. /\ dict'[c].init = Chain(hints[c].implementations)
      /\ \A x \in Class : x # c => dict'[x] = dict[x]
  <2>1. PICK d : d = Copied([Empty EXCEPT !.m = IF c \in Owners THEN Java ELSE Missing],
                            hints[c].implementations)
    OBVIOUS
  <2>2. dict' = [dict EXCEPT ![c] = [d EXCEPT !.init = Chain(hints[c].implementations)]]
    BY <1>1, <1>2, <2>1 DEF Pre
  <2>3. PICK U : Typed(U)
    BY DEF IInv, TypeOK
  <2>4. DOMAIN dict = Class
    BY <2>3 DEF Typed
  <2>5. dict'[c] = [d EXCEPT !.init = Chain(hints[c].implementations)]
    BY <1>3, <2>2, <2>4
  <2>6. "init" \in DOMAIN d
    <3>1. \A x, protos : DOMAIN Copied(x, protos) = DOMAIN x
      BY DEF Copied
    <3> QED  BY <2>1, <3>1 DEF Empty
  <2> QED  BY <1>3, <2>2, <2>4, <2>5, <2>6
<1>6. /\ \A x : On(x, {"mark"})' <=> On(x, {"mark"})
      /\ \A x : On(x, {"mark", "collect"})' <=> On(x, {"mark", "collect"})
      /\ \A x : On(x, {"make"})' => On(x, {"make"}) \/ x = c
      /\ \A p, x : Waiting(p, x)' <=> Waiting(p, x)
  <2>1. \A x : On(x, {"mark"})' <=> On(x, {"mark"})
    BY <1>1, <1>2 DEF On, Others
  <2>2. \A x : On(x, {"mark", "collect"})' <=> On(x, {"mark", "collect"})
    BY <1>1, <1>2 DEF On, Others
  <2>3. \A x : On(x, {"make"})' => On(x, {"make"}) \/ x = c
    BY <1>1, <1>2 DEF On, Others
  <2>4. \A p, x : Waiting(p, x)' <=> Waiting(p, x)
    BY <1>1, <1>2 DEF Waiting, Others
  <2> QED  BY <2>1, <2>2, <2>3, <2>4
<1>7. /\ \A x : Collected(x)' <=> Collected(x)
      /\ \A x : Began(x)' => Began(x) \/ x = c
  BY <1>4, <1>6 DEF Began, Collected
<1>8. (\A p : Counts(p)' <=> Counts(p)) /\ Previous'
  BY <1>4, CountsKeeps
<1>9. /\ Chain(hints[c].implementations) \in Seq(HookType)
      /\ \A p \in ToSet(hints[c].implementations) :
           p.init => InitOf(p) \in ToSet(Chain(hints[c].implementations))
  BY <1>3, ChainHas DEF Contents
<1>10. Contents'
  <2>1. \A x \in Class : hints'[x].implementations \in Seq(Proto) /\ dict'[x].init \in Seq(HookType)
    BY <1>4, <1>5, <1>9 DEF Contents
  <2>2. \A u \in Thread : /\ reg'[u].prev \in Seq(HookType)
                          /\ reg'[u].todo \subseteq Class /\ reg'[u].applied \subseteq Class
                          /\ Doing(u)'.pc = "init" => Doing(u)'.todo \in Seq(HookType)
    BY <1>2, <1>4 DEF Contents, Others
  <2> QED  BY <1>4, <2>1, <2>2 DEF Contents
<1>11. Marked'
  BY <1>2, <1>4, <1>6 DEF Marked, Others
<1>12. BasesReady'
  BY <1>1, <1>2, <1>7 DEF BasesReady, Others
<1>13. BasesFirst'
  BY <1>4, <1>7 DEF BasesFirst
<1>14. Orderly'
  BY <1>4, OrderlyKeeps
<1>15. Installed'
  <2> SUFFICES ASSUME NEW p \in Proto, Counts(p), Began(p.target)'
               PROVE  InitOf(p) \in ToSet(dict'[p.target].init)
    BY <1>8 DEF Installed
  <2>1. CASE p.target = c
    <3>1. p \in ToSet(hints[c].implementations) /\ p.init
      BY <2>1 DEF Counts, Orderly
    <3> QED  BY <1>5, <1>9, <2>1, <3>1
  <2>2. CASE p.target # c
    <3>1. InitOf(p) \in ToSet(dict[p.target].init)
      BY <1>7, <2>2 DEF Installed
    <3> QED  BY <1>5, <2>2, <3>1, ProtoAssumption
  <2> QED  BY <2>1, <2>2
<1>16. Reached'
  <2>1. ASSUME NEW d \in Class PROVE ~(Collected(d)' /\ c \in ToSet(Mro[d]))
    BY <1>3, <1>7 DEF BasesFirst, Marked
  <2>2. \A p \in Proto : Counts(p)' /\ Began(p.target)' =>
           \/ Counts(p) /\ Began(p.target)
           \/ \A d \in Class : ~(Collected(d)' /\ p.target \in ToSet(Mro[d]))
    BY <1>7, <1>8, <2>1
  <2> QED  BY <1>4, <1>6, <1>7, <1>8, <2>2, ReachedKeeps
<1> QED  BY <1>8, <1>10, <1>11, <1>12, <1>13, <1>14, <1>15, <1>16

LEMMA MakeHInv ==
  ASSUME IInv, HInv, NEW t \in Thread, Make(t)
  PROVE  HInv'
<1> USE DEF HInv
<1>1. PICK c : c = Doing(t).cls
  OBVIOUS
<1>2. /\ Others(t) /\ Doing(t) = Top(t) /\ Doing(t).pc = "make"
      /\ Doing(t)'.pc = "mark" /\ Doing(t)'.cls = c
  BY <1>1, GoesOn DEF Make, Points
<1>3. c \in Class /\ c \notin host
  BY <1>1, <1>2, Exclusion
<1>4. UNCHANGED <<hints, dict, reg, ran, kept, failed>> /\ host' = host \cup {c}
  BY <1>1, <1>2 DEF Make
<1>5. \A x : Began(x)' <=> Began(x)
  <2>1. \A x : On(x, {"make"})' => On(x, {"make"})
    BY <1>2 DEF On, Others
  <2>2. \A x : On(x, {"make"}) => On(x, {"make"})' \/ x = c
    BY <1>1, <1>2 DEF On, Others
  <2>3. On(c, {"make"})
    BY <1>1, <1>2 DEF On
  <2> QED  BY <1>4, <2>1, <2>2, <2>3 DEF Began
<1>6. \A x : On(x, {"mark"})' <=> On(x, {"mark"}) \/ x = c
  BY <1>2 DEF On, Others
<1>7. \A x : Collected(x)' <=> Collected(x)
  <2>1. \A x : On(x, {"mark", "collect"})' <=> On(x, {"mark", "collect"}) \/ x = c
    BY <1>2 DEF On, Others
  <2> QED  BY <1>3, <1>4, <2>1 DEF Collected
<1>8. \A p, x : Waiting(p, x)' <=> Waiting(p, x)
  BY <1>2 DEF Waiting, Others
<1>9. (\A p : Counts(p)' <=> Counts(p)) /\ Previous'
  BY <1>4, CountsKeeps
<1>10. Contents'
  BY <1>2, <1>4 DEF Contents, Others
<1>11. Marked'
  BY <1>2, <1>4, <1>6 DEF Marked, Others
<1>12. BasesReady'
  BY <1>1, <1>2, <1>7 DEF BasesReady, Others
<1>13. BasesFirst'
  BY <1>4, <1>7 DEF BasesFirst
<1>14. Orderly'
  BY <1>4, OrderlyKeeps
<1>15. Installed'
  BY <1>4, <1>5, <1>9 DEF Installed
<1>16. Reached'
  BY <1>4, <1>5, <1>7, <1>8, <1>9, ReachedKeeps
<1> QED  BY <1>9, <1>10, <1>11, <1>12, <1>13, <1>14, <1>15, <1>16

LEMMA MarkHInv ==
  ASSUME IInv, HInv, NEW t \in Thread, Mark(t)
  PROVE  HInv'
<1> USE DEF HInv
<1>1. PICK c : c = Doing(t).cls
  OBVIOUS
<1>2. /\ Others(t) /\ Doing(t) = Top(t) /\ Doing(t).pc = "mark"
      /\ Doing(t)'.pc = "collect" /\ Doing(t)'.cls = c
  BY <1>1, GoesOn DEF Mark, Points
<1>3. c \in Class /\ c \in host
  BY <1>1, <1>2, Exclusion DEF Marked
<1>4. UNCHANGED <<host, dict, reg, ran, kept, failed>>
  BY DEF Mark, history
<1>5. \A x \in Class : /\ hints'[x].implementations = hints[x].implementations
                       /\ hints'[x].instantiated <=> hints[x].instantiated \/ x = c
  <2>1. hints' = [hints EXCEPT ![c].instantiated = TRUE]
    BY <1>1, <1>2 DEF Mark
  <2>2. PICK U : Typed(U)
    BY DEF IInv, TypeOK
  <2>3. hints \in [Class -> HintsType(U)]
    BY <2>2 DEF Typed
  <2> QED  BY <2>1, <2>3 DEF HintsType
<1>6. /\ \A x : On(x, {"make"})' <=> On(x, {"make"})
      /\ \A x : On(x, {"mark"}) => On(x, {"mark"})' \/ x = c
      /\ \A x : On(x, {"mark", "collect"})' <=> On(x, {"mark", "collect"})
      /\ \A p, x : Waiting(p, x)' <=> Waiting(p, x)
  <2>1. \A x : On(x, {"make"})' <=> On(x, {"make"})
    BY <1>1, <1>2 DEF On, Others
  <2>2. \A x : On(x, {"mark"}) => On(x, {"mark"})' \/ x = c
    BY <1>1, <1>2 DEF On, Others
  <2>3. \A x : On(x, {"mark", "collect"})' <=> On(x, {"mark", "collect"})
    BY <1>1, <1>2 DEF On, Others
  <2>4. \A p, x : Waiting(p, x)' <=> Waiting(p, x)
    BY <1>2 DEF Waiting, Others
  <2> QED  BY <2>1, <2>2, <2>3, <2>4
<1>7. \A x : (Began(x)' <=> Began(x)) /\ (Collected(x)' <=> Collected(x))
  BY <1>4, <1>6 DEF Began, Collected
<1>9. (\A p : Counts(p)' <=> Counts(p)) /\ Previous'
  BY <1>4, CountsKeeps
<1>10. Contents'
  BY <1>2, <1>4, <1>5 DEF Contents, Others
<1>11. Marked'
  <2>0. host \subseteq Class
    BY DEF IInv, TypeOK, Typed
  <2>1. \A x \in Class : hints'[x].instantiated => x \in host'
    BY <1>3, <1>4, <1>5 DEF Marked
  <2>2. \A x \in host' : hints'[x].instantiated \/ On(x, {"mark"})'
    BY <1>4, <1>5, <1>6, <2>0 DEF Marked
  <2>3. \A u \in Thread : Doing(u)'.pc \in {"mark", "collect", "init"} => Doing(u)'.cls \in host'
    BY <1>2, <1>3, <1>4 DEF Marked, Others
  <2> QED  BY <2>1, <2>2, <2>3 DEF Marked
<1>12. BasesReady'
  BY <1>1, <1>2, <1>7 DEF BasesReady, Others
<1>13. BasesFirst'
  <2>1. \A x \in Class : \A b \in ToSet(Mro[x]) : b \in Class
    BY BasesAssumption DEF ToSet
  <2> QED  BY <1>5, <1>7, <2>1 DEF BasesFirst
<1>14. Orderly'
  BY <1>4, <1>5, OrderlyKeeps
<1>15. Installed'
  BY <1>4, <1>7, <1>9 DEF Installed
<1>16. Reached'
  BY <1>4, <1>6, <1>7, <1>9, ReachedKeeps
<1> QED  BY <1>9, <1>10, <1>11, <1>12, <1>13, <1>14, <1>15, <1>16

LEMMA DoingTop ==
  ASSUME NEW U, stack \in [Thread -> Seq(FrameType(U))], NEW t \in Thread, stack[t] # <<>>,
         NEW top, stack' = [stack EXCEPT ![t] = [stack[t] EXCEPT ![Len(stack[t])] = top]]
  PROVE  Others(t) /\ Doing(t)' = top
<1>1. Len(stack[t]) \in 1 .. Len(stack[t]) /\ stack[t] \in Seq(FrameType(U))
  BY TopFrame
<1>2. PICK s : s = [stack[t] EXCEPT ![Len(stack[t])] = top]
  OBVIOUS
<1>3. s \in Seq(FrameType(U) \cup {top}) /\ Len(s) = Len(stack[t]) /\ s[Len(stack[t])] = top
  <2>1. stack[t] \in Seq(FrameType(U) \cup {top})
    BY <1>1, SeqMonotonic
  <2>2. top \in FrameType(U) \cup {top}
    OBVIOUS
  <2>3. /\ [stack[t] EXCEPT ![Len(stack[t])] = top] \in Seq(FrameType(U) \cup {top})
        /\ Len([stack[t] EXCEPT ![Len(stack[t])] = top]) = Len(stack[t])
        /\ \A i \in 1 .. Len(stack[t]) : [stack[t] EXCEPT ![Len(stack[t])] = top][i]
                                         = IF i = Len(stack[t]) THEN top ELSE stack[t][i]
    BY <1>1, <2>1, <2>2, ExceptSeq
  <2> QED  BY <1>1, <1>2, <2>3
<1>4. stack'[t] = s /\ \A u \in Thread : u # t => stack'[u] = stack[u]
  BY <1>2
<1>5. s # <<>>
  BY <1>1, <1>3, EmptySeq
<1>6. Doing(t)' = top
  BY <1>3, <1>4, <1>5 DEF Doing, Top, Last
<1>7. Others(t)
  BY <1>4 DEF Others, Doing, Top
<1> QED  BY <1>6, <1>7

LEMMA CollectHInv ==
  ASSUME IInv, HInv, NEW t \in Thread, Collect(t)
  PROVE  HInv'
<1> USE DEF HInv
<1>1. PICK c, todo : c = Doing(t).cls /\ todo = Inits(c)
  OBVIOUS
<1>2. PICK U : Typed(U)
  BY DEF IInv, TypeOK
<1>3. stack \in [Thread -> Seq(FrameType(U))] /\ host \subseteq Class
  BY <1>2 DEF Typed
<1>4. stack[t] # <<>> /\ Doing(t) = Top(t) /\ Doing(t).pc = "collect"
  BY DoingAt DEF Collect
<1>5. /\ Others(t) /\ Doing(t)'.pc = "init" /\ Doing(t)'.cls = c /\ Doing(t)'.todo = todo
  <2>1. Top(t) = stack[t][Len(stack[t])] /\ Top(t) \in FrameType(U)
    BY <1>3, <1>4, TopFrame
  <2>2. PICK top : top = [Top(t) EXCEPT !.pc = "init", !.todo = todo]
    OBVIOUS
  <2>3. stack' = [stack EXCEPT ![t] = [stack[t] EXCEPT ![Len(stack[t])] = top]]
    BY <1>1, <1>4, <2>1, <2>2 DEF Collect
  <2>4. Others(t) /\ Doing(t)' = top
    BY <1>3, <1>4, <2>3, DoingTop
  <2> QED  BY <1>1, <1>4, <2>1, <2>2, <2>4 DEF FrameType
<1>6. c \in Class /\ c \in host
  BY <1>1, <1>4, Exclusion DEF Marked
<1>7. UNCHANGED <<hints, host, dict, reg, ran, kept, failed>>
  BY DEF Collect, history
<1>8. /\ todo \in Seq(HookType)
      /\ \A b \in ToSet(Mro[c]) : ToSet(dict[b].init) \subseteq ToSet(todo)
  BY <1>1, <1>6, InitsHas DEF Contents
<1>9. \A u \in Thread : u # t => Doing(u).pc \in {"idle", "enter"}
  BY <1>4, Exclusion
<1>10. /\ \A x : On(x, {"make"})' <=> On(x, {"make"})
       /\ \A x : On(x, {"mark"})' <=> On(x, {"mark"})
       /\ \A x : On(x, {"mark", "collect"}) <=> x = c
       /\ \A x : ~On(x, {"mark", "collect"})'
       /\ ~On(c, {"mark"})
       /\ \A p, x : ~Waiting(p, x)
  <2>1. \A x : On(x, {"make"})' <=> On(x, {"make"})
    BY <1>4, <1>5 DEF On, Others
  <2>2. \A x : On(x, {"mark"})' <=> On(x, {"mark"})
    BY <1>4, <1>5 DEF On, Others
  <2>3. \A x : On(x, {"mark", "collect"}) <=> x = c
    BY <1>1, <1>4, <1>9 DEF On
  <2>4. \A x : ~On(x, {"mark", "collect"})'
    BY <1>5, <1>9 DEF On, Others
  <2>5. ~On(c, {"mark"})
    BY <1>4, <1>9 DEF On
  <2>6. \A p, x : ~Waiting(p, x)
    BY <1>4, <1>9 DEF Waiting
  <2> QED  BY <2>1, <2>2, <2>3, <2>4, <2>5, <2>6
<1>11. /\ \A x : Began(x)' <=> Began(x)
       /\ \A x : Collected(x)' <=> Collected(x) \/ x = c
  BY <1>6, <1>7, <1>10 DEF Began, Collected
<1>12. (\A p : Counts(p)' <=> Counts(p)) /\ Previous'
  BY <1>7, CountsKeeps
<1>13. Contents'
  BY <1>5, <1>7, <1>8 DEF Contents, Others
<1>14. Marked'
  BY <1>5, <1>6, <1>7, <1>10 DEF Marked, Others
<1>15. BasesReady'
  BY <1>5, <1>9 DEF BasesReady, Others
<1>16. /\ \A b \in ToSet(Bases[c]) : Collected(b)
       /\ \A b \in ToSet(Mro[c]) : hints[b].instantiated
  <2>1. \A b \in ToSet(Bases[c]) : Collected(b)
    BY <1>1, <1>4 DEF BasesReady
  <2>2. hints[c].instantiated
    BY <1>6, <1>10 DEF Marked
  <2>3. ASSUME NEW b \in ToSet(Mro[c]), b # c PROVE hints[b].instantiated
    <3>1. PICK d \in ToSet(Bases[c]) : b \in ToSet(Mro[d])
      BY <1>6, <2>3, MroAssumption
    <3>2. d \in Class /\ Collected(d)
      BY <1>3, <2>1 DEF Collected
    <3> QED  BY <3>1, <3>2 DEF BasesFirst
  <2> QED  BY <2>1, <2>2, <2>3
<1>17. BasesFirst'
  BY <1>7, <1>11, <1>16 DEF BasesFirst
<1>18. Orderly'
  BY <1>7, OrderlyKeeps
<1>19. Installed'
  BY <1>7, <1>11, <1>12 DEF Installed
<1>20. Reached'
  <2>1. ASSUME NEW p \in Proto, NEW x \in Class, Counts(p)', p.target \in ToSet(Mro[x]), Collected(x)',
               x \notin failed'
        PROVE  p \in ran'[x] \/ Waiting(p, x)' \/ (Collected(x) /\ x \notin failed /\ ~Waiting(p, x))
    <3>1. CASE Collected(x)
      BY <1>7, <1>10, <2>1, <3>1
    <3>2. CASE x = c
      <4>1. hints[p.target].instantiated /\ p.target \in Class
        BY <1>16, <2>1, <3>2, ProtoAssumption
      <4>2. Began(p.target)
        BY <4>1 DEF Marked, Began
      <4>3. InitOf(p) \in ToSet(dict[p.target].init)
        BY <1>12, <2>1, <4>2 DEF Installed
      <4>4. InitOf(p) \in ToSet(Doing(t)'.todo)
        BY <1>5, <1>8, <2>1, <3>2, <4>3
      <4>5. Waiting(p, x)'
        BY <1>5, <3>2, <4>4 DEF Waiting, InitOf
      <4> QED  BY <4>5
    <3> QED  BY <1>11, <2>1, <3>1, <3>2
  <2> QED  BY <1>7, <1>11, <1>12, <2>1, ReachedKeeps
<1> QED  BY <1>12, <1>13, <1>14, <1>15, <1>17, <1>18, <1>19, <1>20

LEMMA RunInitHInv ==
  ASSUME IInv, HInv, NEW t \in Thread, RunInit(t)
  PROVE  HInv'
<1> USE DEF HInv
<1>1. PICK c, todo, h : c = Doing(t).cls /\ todo = Doing(t).todo /\ h = Head(todo)
  OBVIOUS
<1>2. PICK U : Typed(U)
  BY DEF IInv, TypeOK
<1>3. stack \in [Thread -> Seq(FrameType(U))] /\ dict \in [Class -> DictType(U)]
  BY <1>2 DEF Typed
<1>4. stack[t] # <<>> /\ Doing(t) = Top(t) /\ Doing(t).pc = "init"
  BY DoingAt DEF RunInit
<1>5. todo # <<>> /\ Call(h, c) /\ UNCHANGED <<hints, host, reg, kept, failed>>
  BY <1>1, <1>4 DEF RunInit, history
<1>6. /\ Others(t) /\ Doing(t)'.pc = "init" /\ Doing(t)'.cls = c /\ Doing(t)'.todo = Tail(todo)
  <2>1. Top(t) = stack[t][Len(stack[t])] /\ Top(t) \in FrameType(U)
    BY <1>3, <1>4, TopFrame
  <2>2. PICK top : top = [Top(t) EXCEPT !.todo = Tail(todo)]
    OBVIOUS
  <2>3. stack' = [stack EXCEPT ![t] = [stack[t] EXCEPT ![Len(stack[t])] = top]]
    BY <1>1, <1>4, <2>1, <2>2 DEF RunInit
  <2>4. Others(t) /\ Doing(t)' = top
    BY <1>3, <1>4, <2>3, DoingTop
  <2> QED  BY <1>1, <1>4, <2>1, <2>2, <2>4 DEF FrameType
<1>7. c \in Class
  BY <1>1, <1>4, Exclusion
<1>8. /\ todo \in Seq(HookType) /\ h \in HookType /\ Tail(todo) \in Seq(HookType)
      /\ \A x \in ToSet(todo) : x = h \/ x \in ToSet(Tail(todo))
  <2>1. todo \in Seq(HookType)
    BY <1>1, <1>4 DEF Contents
  <2>2. /\ h \in HookType /\ Tail(todo) \in Seq(HookType) /\ h = todo[1]
        /\ Len(Tail(todo)) = Len(todo) - 1
        /\ \A i \in 1 .. Len(todo) - 1 : Tail(todo)[i] = todo[i + 1]
    BY <1>1, <1>5, <2>1, HeadTailProperties
  <2>3. ASSUME NEW i \in 1 .. Len(todo), i # 1 PROVE todo[i] \in ToSet(Tail(todo))
    <3>1. PICK j : j = i - 1
      OBVIOUS
    <3>2. j \in 1 .. Len(todo) - 1 /\ i = j + 1
      BY <2>1, <2>3, <3>1
    <3>3. j \in DOMAIN Tail(todo) /\ Tail(todo)[j] = todo[i]
      BY <2>2, <3>2
    <3> QED  BY <3>3 DEF ToSet
  <2>4. DOMAIN todo = 1 .. Len(todo)
    BY <2>1
  <2> QED  BY <2>1, <2>2, <2>3, <2>4 DEF ToSet
<1>9. /\ ran' \in [Class -> SUBSET Proto]
      /\ \A x \in Class : ran[x] \subseteq ran'[x]
      /\ h.kind = "init" => h.p \in ran'[c]
  BY <1>5, <1>7, <1>8 DEF Call, Contents, HookType
<1>10. \A x \in Class : dict'[x].init = dict[x].init
  <2>1. \A d \in DictType(U) : \A p : Sticky(d, p).init = d.init
    BY DEF Sticky, DictType
  <2>2. dict' = dict \/ dict' = [dict EXCEPT ![c] = Sticky(dict[c], h.p)]
    BY <1>5 DEF Call
  <2> QED  BY <1>3, <1>7, <2>1, <2>2
<1>11. \A x, S : S \in {{"make"}, {"mark"}, {"mark", "collect"}} => (On(x, S)' <=> On(x, S))
  BY <1>4, <1>6 DEF On, Others
<1>12. \A x : (Began(x)' <=> Began(x)) /\ (Collected(x)' <=> Collected(x))
  BY <1>5, <1>11 DEF Began, Collected
<1>13. ASSUME NEW p \in Proto, NEW x \in Class, Waiting(p, x) PROVE Waiting(p, x)' \/ p \in ran'[x]
  <2>1. PICK u \in Thread : /\ Doing(u).cls = x /\ Doing(u).pc = "init"
                            /\ InitOf(p) \in ToSet(Doing(u).todo)
    BY <1>13 DEF Waiting
  <2>2. CASE u # t
    BY <1>6, <2>1, <2>2 DEF Waiting, Others, InitOf
  <2>3. CASE u = t
    <3>1. x = c /\ (InitOf(p) = h \/ InitOf(p) \in ToSet(Tail(todo)))
      BY <1>1, <1>8, <2>1, <2>3
    <3>2. CASE InitOf(p) = h
      <4>1. h.kind = "init" /\ h.p = p
        BY <3>2 DEF InitOf
      <4> QED  BY <1>9, <3>1, <4>1
    <3>3. CASE InitOf(p) \in ToSet(Tail(todo))
      BY <1>6, <3>1, <3>3 DEF Waiting, InitOf
    <3> QED  BY <3>1, <3>2, <3>3
  <2> QED  BY <2>2, <2>3
<1>14. (\A p : Counts(p)' <=> Counts(p)) /\ Previous'
  BY <1>5, CountsKeeps
<1>15. Contents'
  BY <1>5, <1>6, <1>8, <1>9, <1>10 DEF Contents, Others
<1>16. Marked'
  BY <1>1, <1>4, <1>5, <1>6, <1>11 DEF Marked, Others
<1>17. BasesReady'
  BY <1>6, <1>12 DEF BasesReady, Others
<1>18. BasesFirst'
  BY <1>5, <1>12 DEF BasesFirst
<1>19. Orderly'
  BY <1>5, OrderlyKeeps
<1>20. Installed'
  BY <1>10, <1>12, <1>14, ProtoAssumption DEF Installed
<1>21. Reached'
  BY <1>5, <1>9, <1>12, <1>13, <1>14, ReachedKeeps
<1> QED  BY <1>14, <1>15, <1>16, <1>17, <1>18, <1>19, <1>20, <1>21

LEMMA InitRaisesHInv ==
  ASSUME IInv, HInv, NEW t \in Thread, InitRaises(t)
  PROVE  HInv'
<1> USE DEF HInv
<1>1. PICK c : c = Doing(t).cls
  OBVIOUS
<1>2. PICK U : Typed(U)
  BY DEF IInv, TypeOK
<1>3. stack \in [Thread -> Seq(FrameType(U))]
  BY <1>2 DEF Typed
<1>4. stack[t] # <<>> /\ Doing(t) = Top(t) /\ Doing(t).pc = "init" /\ c \in host
  BY <1>1, DoingAt DEF InitRaises, Marked
<1>5. UNCHANGED <<hints, host, dict, reg, ran, kept>> /\ failed \subseteq failed' /\ c \in failed'
  <2>1. /\ Len(stack[t]) \in 1 .. Len(stack[t]) /\ Top(t) = stack[t][Len(stack[t])]
        /\ DOMAIN stack[t] = 1 .. Len(stack[t])
    BY <1>3, <1>4, TopFrame
  <2>2. stack[t][Len(stack[t])].cls = c
    BY <1>1, <1>4, <2>1
  <2> QED  BY <1>4, <2>1, <2>2 DEF InitRaises
<1>6. Others(t) /\ Doing(t)'.pc = "idle"
  <2>1. stack'[t] = <<>> /\ \A u \in Thread : u # t => stack'[u] = stack[u]
    BY <1>3 DEF InitRaises
  <2> QED  BY <2>1 DEF Others, Doing, Top, Idle
<1>7. \A x, S : S \in {{"make"}, {"mark"}, {"mark", "collect"}} => (On(x, S)' <=> On(x, S))
  BY <1>4, <1>6 DEF On, Others
<1>8. \A x : (Began(x)' <=> Began(x)) /\ (Collected(x)' <=> Collected(x))
  BY <1>5, <1>7 DEF Began, Collected
<1>9. ASSUME NEW p \in Proto, NEW x \in Class, Waiting(p, x) PROVE Waiting(p, x)' \/ x \in failed'
  BY <1>1, <1>5, <1>6, <1>9 DEF Waiting, Others, InitOf
<1>10. (\A p : Counts(p)' <=> Counts(p)) /\ Previous'
  BY <1>5, CountsKeeps
<1>11. Contents'
  BY <1>5, <1>6 DEF Contents, Others
<1>12. Marked'
  BY <1>5, <1>6, <1>7 DEF Marked, Others
<1>13. BasesReady'
  BY <1>6, <1>8 DEF BasesReady, Others
<1>14. BasesFirst'
  BY <1>5, <1>8 DEF BasesFirst
<1>15. Orderly'
  BY <1>5, OrderlyKeeps
<1>16. Installed'
  BY <1>5, <1>8, <1>10 DEF Installed
<1>17. Reached'
  BY <1>5, <1>8, <1>9, <1>10, ReachedKeeps
<1> QED  BY <1>10, <1>11, <1>12, <1>13, <1>14, <1>15, <1>16, <1>17

-------------------------------------------------------------------------------
\* The registrations leave the wrappers alone.
LEMMA SameStacks ==
  ASSUME UNCHANGED <<stack, host, failed>>
  PROVE  /\ \A u : Doing(u)' = Doing(u)
         /\ \A x, S : On(x, S)' <=> On(x, S)
         /\ \A x : Began(x)' <=> Began(x)
         /\ \A x : Collected(x)' <=> Collected(x)
         /\ \A p, x : Waiting(p, x)' <=> Waiting(p, x)
<1>1. \A u : Doing(u)' = Doing(u)
  BY DEF Doing, Top
<1>2. \A x, S : On(x, S)' <=> On(x, S)
  BY <1>1 DEF On
<1>3. \A p, x : Waiting(p, x)' <=> Waiting(p, x)
  BY <1>1 DEF Waiting, InitOf
<1> QED  BY <1>1, <1>2, <1>3 DEF Began, Collected

LEMMA SameMarks ==
  ASSUME UNCHANGED <<stack, host, failed>>, host \subseteq Class, Marked, BasesReady, BasesFirst,
         \A c \in Class : hints'[c].instantiated <=> hints[c].instantiated
  PROVE  Marked' /\ BasesReady' /\ BasesFirst'
<1>1. /\ \A u : Doing(u)' = Doing(u)
      /\ \A x, S : On(x, S)' <=> On(x, S)
      /\ \A x : Collected(x)' <=> Collected(x)
  BY SameStacks
<1>2. Marked'
  BY <1>1 DEF Marked
<1>3. BasesReady'
  BY <1>1 DEF BasesReady
<1>4. BasesFirst'
  <2>1. \A x \in Class : \A b \in ToSet(Mro[x]) : b \in Class
    BY BasesAssumption DEF ToSet
  <2> QED  BY <1>1, <2>1 DEF BasesFirst
<1> QED  BY <1>2, <1>3, <1>4

\* The class is half made, or has its mark.
LEMMA HalfMadeOrMarked ==
  ASSUME IInv, Marked, NEW c \in Class, Began(c)
  PROVE  HalfMade(c) \/ hints[c].instantiated
<1>1. PICK U : Typed(U)
  BY DEF IInv, TypeOK
<1>2. stack \in [Thread -> Seq(FrameType(U))]
  BY <1>1 DEF Typed
<1>3. On(c, {"make"}) \/ On(c, {"mark"}) \/ hints[c].instantiated
  BY DEF Began, Marked
<1>4. ASSUME On(c, {"make"}) \/ On(c, {"mark"}) PROVE HalfMade(c)
  <2>1. PICK t \in Thread : Doing(t).cls = c /\ Doing(t).pc \in {"make", "mark"}
    BY <1>4 DEF On
  <2>2. stack[t] # <<>> /\ Doing(t) = Top(t)
    BY <2>1 DEF Doing, Idle
  <2>3. /\ Top(t) = stack[t][Len(stack[t])] /\ Len(stack[t]) \in 1 .. Len(stack[t])
        /\ DOMAIN stack[t] = 1 .. Len(stack[t])
    BY <1>2, <2>2, TopFrame
  <2> QED  BY <2>1, <2>2, <2>3 DEF HalfMade
<1> QED  BY <1>3, <1>4

LEMMA RegisterHInv ==
  ASSUME IInv, HInv, NEW t \in Thread, NEW p \in Proto, Register(t, p)
  PROVE  HInv'
<1> USE DEF HInv
<1>1. PICK c : c = p.target
  OBVIOUS
<1>2. PICK U : Typed(U)
  BY DEF IInv, TypeOK
<1>3. /\ c \in Class /\ host \subseteq Class
      /\ hints \in [Class -> HintsType(U)] /\ reg \in [Thread -> RegType(U)]
  BY <1>1, <1>2, ProtoAssumption DEF Typed
<1>4. reg[t].pc = "idle" /\ UNCHANGED <<host, dict, stack, ran, failed>>
  BY DEF Register
<1>5. \A x \in Class : p \notin ToSet(hints[x].implementations)
  BY DEF Register, Registered
<1>6. /\ \A x \in Class : hints'[x].instantiated <=> hints[x].instantiated
      /\ \A x \in Class : x # c => hints'[x].implementations = hints[x].implementations
      /\ hints'[c].implementations = Append(hints[c].implementations, p)
  <2>1. hints' = [hints EXCEPT ![c].implementations = Append(hints[c].implementations, p)]
    BY <1>1 DEF Register
  <2> QED  BY <1>3, <2>1 DEF HintsType
<1>7. /\ \A x \in Class : hints'[x].implementations \in Seq(Proto)
      /\ \A x \in Class : ToSet(hints[x].implementations) \subseteq ToSet(hints'[x].implementations)
      /\ p \in ToSet(hints'[c].implementations)
  <2>1. PICK s : s = hints[c].implementations
    OBVIOUS
  <2>2. s \in Seq(Proto)
    BY <1>3, <2>1 DEF Contents
  <2>3. /\ Append(s, p) \in Seq(Proto) /\ Len(Append(s, p)) = Len(s) + 1
        /\ \A i \in 1 .. Len(s) : Append(s, p)[i] = s[i]
        /\ Append(s, p)[Len(s) + 1] = p
    BY <2>2, AppendProperties
  <2>4. ToSet(s) \subseteq ToSet(Append(s, p)) /\ p \in ToSet(Append(s, p))
    BY <2>2, <2>3 DEF ToSet
  <2> QED  BY <1>6, <2>1, <2>3, <2>4 DEF Contents
<1>8. /\ \A u \in Thread : u # t => reg'[u] = reg[u]
      /\ reg'[t].pc = IF hints[c].instantiated THEN "copy" ELSE "idle"
      /\ hints[c].instantiated => reg'[t].p = p /\ reg'[t].prev = <<>> /\ reg'[t].todo = {} /\ reg'[t].applied = {}
      /\ ~hints[c].instantiated => reg'[t] = reg[t]
  <2>1. CASE hints[c].instantiated
    <3>1. PICK new : new = [NoReg EXCEPT !.pc = "copy", !.p = p]
      OBVIOUS
    <3>2. reg' = [reg EXCEPT ![t] = new]
      BY <1>1, <2>1, <3>1 DEF Register
    <3>3. new.pc = "copy" /\ new.p = p /\ new.prev = <<>> /\ new.todo = {} /\ new.applied = {}
      BY <3>1 DEF NoReg
    <3> QED  BY <1>3, <2>1, <3>2, <3>3
  <2>2. CASE ~hints[c].instantiated
    BY <1>1, <1>4, <2>2 DEF Register
  <2> QED  BY <2>1, <2>2
<1>9. /\ kept' \subseteq kept \cup {p} /\ p \notin kept
      /\ p \in kept' => ~HalfMade(c) /\ Meanwhile(c) = {}
      /\ Meanwhile(c) # {} => kept' \cap Meanwhile(c) = {}
  BY <1>1, <1>3, <1>5 DEF Register, Orderly
<1>10. \A u \in Thread : Busy(u) /\ reg[u].p.target = c => reg[u].p \in Meanwhile(c)
  BY DEF Busy, Meanwhile
<1>11. /\ \A u : Doing(u)' = Doing(u)
       /\ \A x : Began(x)' <=> Began(x)
       /\ \A x : Collected(x)' <=> Collected(x)
       /\ \A q, x : Waiting(q, x)' <=> Waiting(q, x)
  BY <1>4, SameStacks
<1>12. ~(Counts(p)' /\ Began(c))
  <2>1. SUFFICES ASSUME p \in kept', Began(c) PROVE Installing(p)'
    BY DEF Counts
  <2>2. hints[c].instantiated
    BY <1>3, <1>9, <2>1, HalfMadeOrMarked
  <2> QED  BY <1>8, <2>2 DEF Installing, Busy
<1>13. ASSUME NEW q \in Proto, q # p, Counts(q)' PROVE Counts(q)
  <2>1. q \in kept /\ q.init
    BY <1>9, <1>13 DEF Counts
  <2>2. Installing(q) => Installing(q)'
    BY <1>4, <1>8 DEF Installing, Busy
  <2> QED  BY <1>13, <2>1, <2>2 DEF Counts
<1>14. Contents'
  <2>1. \A u \in Thread : /\ reg'[u].prev \in Seq(HookType)
                          /\ reg'[u].todo \subseteq Class /\ reg'[u].applied \subseteq Class
    <3>1. <<>> \in Seq(HookType)
      OBVIOUS
    <3> QED  BY <1>8, <3>1 DEF Contents
  <2> QED  BY <1>4, <1>7, <1>11, <2>1 DEF Contents
<1>15. Marked' /\ BasesReady' /\ BasesFirst'
  BY <1>3, <1>4, <1>6, SameMarks
<1>16. Orderly'
  <2>1. \A q \in kept' : q \in Proto /\ q \in ToSet(hints'[q.target].implementations)
    BY <1>1, <1>7, <1>9, ProtoAssumption DEF Orderly
  <2>2. ASSUME NEW u \in Thread, reg'[u].pc # "idle"
        PROVE  /\ reg'[u].p \in Proto
               /\ reg'[u].p \in ToSet(hints'[reg'[u].p.target].implementations)
               /\ hints'[reg'[u].p.target].instantiated
               /\ Busy(u)' => reg'[u].applied = {}
    <3>1. CASE u = t
      BY <1>1, <1>3, <1>4, <1>6, <1>7, <1>8, <2>2, <3>1
    <3>2. CASE u # t
      <4>1. reg'[u] = reg[u]
        BY <1>8, <3>2
      <4>2. /\ reg[u].p \in Proto
            /\ reg[u].p \in ToSet(hints[reg[u].p.target].implementations)
            /\ hints[reg[u].p.target].instantiated
            /\ Busy(u) => reg[u].applied = {}
        BY <2>2, <4>1 DEF Orderly
      <4> QED  BY <1>6, <1>7, <4>1, <4>2, ProtoAssumption DEF Busy
    <3> QED  BY <3>1, <3>2
  <2>3. ASSUME NEW u \in Thread, NEW v \in Thread, u # v, reg'[u].pc # "idle", reg'[v].pc # "idle"
        PROVE  /\ reg'[u].p # reg'[v].p
               /\ Busy(u)' /\ Busy(v)' /\ reg'[u].p.target = reg'[v].p.target => reg'[u].p \notin kept'
    <3>0. ASSUME NEW w \in Thread, w # t, reg'[w].pc # "idle"
          PROVE  /\ reg'[w] = reg[w] /\ (Busy(w)' <=> Busy(w)) /\ reg[w].p # p
    <4>1. reg'[w] = reg[w]
      BY <1>8, <3>0
    <4>2. reg[w].p \in ToSet(hints[reg[w].p.target].implementations) /\ reg[w].p.target \in Class
      BY <3>0, <4>1, ProtoAssumption DEF Orderly
    <4> QED  BY <1>5, <4>1, <4>2 DEF Busy
    <3>1. CASE u = t
      <4>1. v # t /\ reg'[t].p = p
        BY <1>4, <1>8, <2>3, <3>1
      <4>2. reg'[v] = reg[v] /\ (Busy(v)' <=> Busy(v)) /\ reg[v].p # p
        BY <2>3, <3>0, <4>1
      <4>3. Busy(v) /\ reg[v].p.target = c => p \notin kept'
        BY <1>9, <1>10
      <4> QED  BY <1>1, <3>1, <4>1, <4>2, <4>3
    <3>2. CASE v = t
      <4>1. u # t /\ reg'[t].p = p
        BY <1>4, <1>8, <2>3, <3>2
      <4>2. reg'[u] = reg[u] /\ (Busy(u)' <=> Busy(u)) /\ reg[u].p # p
        BY <2>3, <3>0, <4>1
      <4>3. Busy(u) /\ reg[u].p.target = c => reg[u].p \notin kept'
        BY <1>9, <1>10
      <4> QED  BY <1>1, <3>2, <4>1, <4>2, <4>3
    <3>3. CASE u # t /\ v # t
      <4>1. /\ reg'[u] = reg[u] /\ (Busy(u)' <=> Busy(u)) /\ reg[u].p # p
            /\ reg'[v] = reg[v] /\ (Busy(v)' <=> Busy(v)) /\ reg[v].p # p
        BY <2>3, <3>0, <3>3
      <4>2. /\ reg[u].p # reg[v].p
            /\ Busy(u) /\ Busy(v) /\ reg[u].p.target = reg[v].p.target => reg[u].p \notin kept
        BY <2>3, <4>1 DEF Orderly
      <4> QED  BY <1>9, <4>1, <4>2
    <3> QED  BY <3>1, <3>2, <3>3
  <2> QED  BY <2>1, <2>2, <2>3 DEF Orderly
<1>17. Installed'
  BY <1>1, <1>4, <1>11, <1>12, <1>13 DEF Installed
<1>18. Previous'
  <2> SUFFICES ASSUME NEW u \in Thread, reg'[u].pc = "chain", NEW q \in Proto, Counts(q)',
                      q.target = reg'[u].p.target
               PROVE  InitOf(q) \in ToSet(reg'[u].prev)
    BY DEF Previous
  <2>1. u # t /\ reg'[u] = reg[u]
    BY <1>4, <1>8
  <2>2. q # p
    <3>1. SUFFICES ASSUME q = p PROVE FALSE
      OBVIOUS
    <3>2. Meanwhile(c) # {}
      BY <1>1, <1>10, <2>1, <3>1 DEF Busy
    <3> QED  BY <1>9, <3>1, <3>2 DEF Counts
  <2> QED  BY <1>13, <2>1, <2>2 DEF Previous
<1>19. Reached'
  <2>1. \A q \in Proto : Counts(q)' /\ Began(q.target)' => Counts(q) /\ Began(q.target)
    BY <1>1, <1>11, <1>12, <1>13
  <2>2. \A u \in Thread : reg[u].pc = "all" => reg'[u] = reg[u]
    BY <1>4, <1>8
  <2> QED  BY <1>4, <1>11, <2>1, <2>2, ReachedKeeps
<1> QED  BY <1>14, <1>15, <1>16, <1>17, <1>18, <1>19

LEMMA PostCopyHInv ==
  ASSUME IInv, HInv, NEW t \in Thread, PostCopy(t)
  PROVE  HInv'
<1> USE DEF HInv
<1>1. PICK p, c : p = reg[t].p /\ c = p.target
  OBVIOUS
<1>2. PICK U : Typed(U)
  BY DEF IInv, TypeOK
<1>3. host \subseteq Class /\ dict \in [Class -> DictType(U)] /\ reg \in [Thread -> RegType(U)]
  BY <1>2 DEF Typed
<1>4. reg[t].pc = "copy" /\ UNCHANGED <<hints, host, stack, ran, kept, failed>>
  BY DEF PostCopy, history
<1>5. p \in Proto /\ c \in Class /\ hints[c].instantiated
  BY <1>1, <1>4, ProtoAssumption DEF Orderly
<1>6. \A x \in Class : dict'[x].init = dict[x].init
  <2>1. \A d \in DictType(U) : Copied(d, <<p>>).init = d.init
    BY DEF Copied, DictType
  <2>2. dict' = [dict EXCEPT ![c] = Copied(dict[c], <<p>>)]
    BY <1>1 DEF PostCopy
  <2> QED  BY <1>3, <1>5, <2>1, <2>2
<1>7. /\ \A u \in Thread : u # t => reg'[u] = reg[u]
      /\ reg'[t].pc = "chain" /\ reg'[t].p = p /\ reg'[t].prev = dict[c].init
      /\ reg'[t].todo = reg[t].todo /\ reg'[t].applied = reg[t].applied
  <2>1. PICK new : new = [reg[t] EXCEPT !.pc = "chain", !.prev = dict[c].init]
    OBVIOUS
  <2>2. reg' = [reg EXCEPT ![t] = new]
    BY <1>1, <2>1 DEF PostCopy
  <2>3. /\ new.pc = "chain" /\ new.p = p /\ new.prev = dict[c].init
        /\ new.todo = reg[t].todo /\ new.applied = reg[t].applied
    BY <1>1, <1>3, <2>1 DEF RegType
  <2> QED  BY <1>3, <2>2, <2>3
<1>8. \A u \in Thread : /\ reg'[u].p = reg[u].p /\ (Busy(u)' <=> Busy(u))
                        /\ reg'[u].pc = "idle" <=> reg[u].pc = "idle"
                        /\ reg'[u].applied = reg[u].applied
  BY <1>1, <1>4, <1>7 DEF Busy
<1>9. \A q : Counts(q)' <=> Counts(q)
  BY <1>4, <1>8 DEF Counts, Installing
<1>10. /\ \A u : Doing(u)' = Doing(u)
       /\ \A x : Began(x)' <=> Began(x)
       /\ \A x : Collected(x)' <=> Collected(x)
       /\ \A q, x : Waiting(q, x)' <=> Waiting(q, x)
  BY <1>4, SameStacks
<1>11. Contents'
  BY <1>4, <1>5, <1>6, <1>7, <1>10 DEF Contents
<1>12. Marked' /\ BasesReady' /\ BasesFirst'
  BY <1>3, <1>4, SameMarks
<1>13. Orderly'
  BY <1>4, <1>8 DEF Orderly
<1>14. Installed'
  BY <1>6, <1>9, <1>10, ProtoAssumption DEF Installed
<1>15. Previous'
  <2> SUFFICES ASSUME NEW u \in Thread, reg'[u].pc = "chain", NEW q \in Proto, Counts(q),
                      q.target = reg'[u].p.target
               PROVE  InitOf(q) \in ToSet(reg'[u].prev)
    BY <1>9 DEF Previous
  <2>1. CASE u = t
    <3>1. q.target = c /\ Began(c)
      BY <1>1, <1>5, <1>7, <2>1 DEF Marked, Began
    <3> QED  BY <1>7, <2>1, <3>1 DEF Installed
  <2>2. CASE u # t
    BY <1>7, <2>2 DEF Previous
  <2> QED  BY <2>1, <2>2
<1>16. Reached'
  <2>1. \A u \in Thread : reg[u].pc = "all" => reg'[u] = reg[u]
    BY <1>4, <1>7
  <2> QED  BY <1>4, <1>9, <1>10, <2>1, ReachedKeeps
<1> QED  BY <1>11, <1>12, <1>13, <1>14, <1>15, <1>16

LEMMA PostChainHInv ==
  ASSUME IInv, HInv, NEW t \in Thread, PostChain(t)
  PROVE  HInv'
<1> USE DEF HInv
<1>1. PICK p, c, prev, chain : /\ p = reg[t].p /\ c = p.target
                               /\ prev = reg[t].prev /\ chain = Chain(<<p>>)
  OBVIOUS
<1>2. PICK U : Typed(U)
  BY DEF IInv, TypeOK
<1>3. host \subseteq Class /\ dict \in [Class -> DictType(U)] /\ reg \in [Thread -> RegType(U)]
  BY <1>2 DEF Typed
<1>4. reg[t].pc = "chain" /\ UNCHANGED <<hints, host, stack, ran, kept, failed>>
  BY DEF PostChain, history
<1>5. /\ p \in Proto /\ c \in Class /\ hints[c].instantiated /\ reg[t].applied = {} /\ prev \in Seq(HookType)
      /\ Busy(t)
  BY <1>1, <1>4, ProtoAssumption DEF Orderly, Busy, Contents
<1>6. chain \in Seq(HookType) /\ (p.init => InitOf(p) \in ToSet(chain))
  <2>1. <<p>> \in Seq(Proto) /\ p \in ToSet(<<p>>)
    BY <1>5 DEF ToSet
  <2> QED  BY <1>1, <2>1, ChainHas
<1>7. /\ prev \o chain \in Seq(HookType) /\ ToSet(prev) \subseteq ToSet(prev \o chain)
      /\ ToSet(chain) \subseteq ToSet(prev \o chain)
  BY <1>5, <1>6, ConcatHas
<1>8. /\ \A x \in Class : x # c => dict'[x].init = dict[x].init
      /\ dict'[c].init = IF chain = <<>> THEN dict[c].init ELSE prev \o chain
  <2>1. dict' = IF chain = <<>> THEN dict ELSE [dict EXCEPT ![c].init = prev \o chain]
    BY <1>1 DEF PostChain
  <2> QED  BY <1>3, <1>5, <2>1 DEF DictType
<1>9. /\ \A u \in Thread : u # t => reg'[u] = reg[u]
      /\ p.init => /\ reg'[t].pc = "all" /\ reg'[t].p = p /\ reg'[t].prev = prev
                   /\ reg'[t].todo = {c} /\ reg'[t].applied = {}
      /\ ~p.init => reg'[t] = NoReg
  <2>1. PICK new : new = [reg[t] EXCEPT !.pc = "all", !.todo = {c}]
    OBVIOUS
  <2>2. reg' = [reg EXCEPT ![t] = IF p.init THEN new ELSE NoReg]
    BY <1>1, <2>1 DEF PostChain
  <2>3. new.pc = "all" /\ new.p = p /\ new.prev = prev /\ new.todo = {c} /\ new.applied = {}
    BY <1>1, <1>3, <1>5, <2>1 DEF RegType
  <2> QED  BY <1>3, <2>2, <2>3
<1>10. /\ \A u \in Thread : u # t => (Busy(u)' <=> Busy(u))
       /\ ~Busy(t)' /\ (reg'[t].pc # "idle" => reg'[t].p = p)
  BY <1>9 DEF Busy, NoReg
<1>11. ASSUME NEW q \in Proto, Counts(q)', q # p PROVE Counts(q)
  BY <1>1, <1>4, <1>9, <1>10, <1>11 DEF Counts, Installing
<1>12. /\ \A u : Doing(u)' = Doing(u)
       /\ \A x : Began(x)' <=> Began(x)
       /\ \A x : Collected(x)' <=> Collected(x)
       /\ \A q, x : Waiting(q, x)' <=> Waiting(q, x)
  BY <1>4, SameStacks
<1>13. Contents'
  <2>1. \A u \in Thread : /\ reg'[u].prev \in Seq(HookType)
                          /\ reg'[u].todo \subseteq Class /\ reg'[u].applied \subseteq Class
    <3>1. ASSUME NEW u \in Thread, u # t
          PROVE  /\ reg'[u].prev \in Seq(HookType)
                 /\ reg'[u].todo \subseteq Class /\ reg'[u].applied \subseteq Class
      BY <1>9, <3>1 DEF Contents
    <3>2. CASE p.init
      BY <1>5, <1>9, <3>1, <3>2
    <3>3. CASE ~p.init
      <4>1. reg'[t].prev = <<>> /\ reg'[t].todo = {} /\ reg'[t].applied = {}
        BY <1>9, <3>3 DEF NoReg
      <4>2. <<>> \in Seq(HookType)
        OBVIOUS
      <4> QED  BY <3>1, <4>1, <4>2
    <3> QED  BY <3>2, <3>3
  <2>2. \A x \in Class : dict'[x].init \in Seq(HookType)
    BY <1>7, <1>8 DEF Contents
  <2> QED  BY <1>4, <1>12, <2>1, <2>2 DEF Contents
<1>14. Marked' /\ BasesReady' /\ BasesFirst'
  BY <1>3, <1>4, SameMarks
<1>15. Orderly'
  <2>1. \A q \in kept' : q \in Proto /\ q \in ToSet(hints'[q.target].implementations)
    BY <1>4 DEF Orderly
  <2>2. \A u \in Thread : reg'[u].pc # "idle" => reg'[u].p = reg[u].p /\ reg[u].pc # "idle"
    BY <1>1, <1>4, <1>9, <1>10
  <2>3. \A u \in Thread : Busy(u)' => Busy(u) /\ reg'[u].applied = reg[u].applied
    BY <1>9, <1>10
  <2>4. ASSUME NEW u \in Thread, reg'[u].pc # "idle"
        PROVE  /\ reg'[u].p \in Proto
               /\ reg'[u].p \in ToSet(hints'[reg'[u].p.target].implementations)
               /\ hints'[reg'[u].p.target].instantiated
               /\ Busy(u)' => reg'[u].applied = {}
    BY <1>4, <2>2, <2>3, <2>4 DEF Orderly
  <2>5. ASSUME NEW u \in Thread, NEW v \in Thread, u # v, reg'[u].pc # "idle", reg'[v].pc # "idle"
        PROVE  /\ reg'[u].p # reg'[v].p
               /\ Busy(u)' /\ Busy(v)' /\ reg'[u].p.target = reg'[v].p.target => reg'[u].p \notin kept'
    BY <1>4, <2>2, <2>3, <2>5 DEF Orderly
  <2> QED  BY <2>1, <2>4, <2>5 DEF Orderly
<1>16. Installed'
  <2> SUFFICES ASSUME NEW q \in Proto, Counts(q)', Began(q.target)
               PROVE  InitOf(q) \in ToSet(dict'[q.target].init)
    BY <1>12 DEF Installed
  <2>1. CASE q = p
    <3>1. p.init
      BY <2>1 DEF Counts
    <3>2. InitOf(p) \in ToSet(chain) /\ chain # <<>>
      BY <1>6, <3>1 DEF ToSet
    <3> QED  BY <1>1, <1>7, <1>8, <2>1, <3>2
  <2>2. CASE q # p
    <3>1. Counts(q) /\ InitOf(q) \in ToSet(dict[q.target].init) /\ q.target \in Class
      BY <1>11, <2>2, ProtoAssumption DEF Installed
    <3>2. CASE q.target # c
      BY <1>8, <3>1, <3>2
    <3>3. CASE q.target = c
      <4>1. InitOf(q) \in ToSet(prev)
        BY <1>1, <1>4, <3>1, <3>3 DEF Previous
      <4> QED  BY <1>7, <1>8, <3>1, <3>3, <4>1
    <3> QED  BY <3>2, <3>3
  <2> QED  BY <2>1, <2>2
<1>17. Previous'
  <2> SUFFICES ASSUME NEW u \in Thread, reg'[u].pc = "chain", NEW q \in Proto, Counts(q)',
                      q.target = reg'[u].p.target
               PROVE  InitOf(q) \in ToSet(reg'[u].prev)
    BY DEF Previous
  <2>1. u # t /\ reg'[u] = reg[u]
    BY <1>9 DEF NoReg
  <2>2. q # p
    <3>1. SUFFICES ASSUME q = p PROVE FALSE
      OBVIOUS
    <3>2. Busy(u) /\ reg[u].p.target = c
      BY <1>1, <2>1, <3>1 DEF Busy
    <3>3. p \notin kept
      BY <1>1, <1>4, <1>5, <2>1, <3>2 DEF Orderly
    <3> QED  BY <1>4, <3>1, <3>3 DEF Counts
  <2> QED  BY <1>11, <2>1, <2>2 DEF Previous
<1>18. Reached'
  <2> SUFFICES ASSUME NEW q \in Proto PROVE Reach(q)'
    BY DEF Reached
  <2>1. CASE q # p
    <3>1. Counts(q)' /\ Began(q.target)' => Counts(q) /\ Began(q.target)
      BY <1>11, <1>12, <2>1
    <3>2. \A u \in Thread : reg[u].pc = "all" /\ reg[u].p = q => reg'[u] = reg[u]
      BY <1>4, <1>9
    <3>3. Reach(q)
      BY DEF Reached
    <3>4. \A x \in Class : ran[x] \subseteq ran'[x]
      BY <1>4
    <3>5. \A x \in Class :
           Counts(q)' /\ q.target \in ToSet(Mro[x]) /\ Collected(x)' /\ x \notin failed' =>
             \/ q \in ran'[x] \/ Waiting(q, x)'
             \/ Collected(x) /\ x \notin failed /\ ~Waiting(q, x)
      BY <1>4, <1>12
    <3>6. host \subseteq host' /\ Contents
      BY <1>4
    <3> QED  BY <3>1, <3>2, <3>3, <3>4, <3>5, <3>6, ReachKeeps
  <2>2. CASE q = p
    <3> SUFFICES ASSUME Counts(p)'
                 PROVE  \E E \in SUBSET Class : Early(p, E)' /\ Reaches(p, E)'
      BY <2>2 DEF Reach
    <3>1. PICK E : E = {x \in Class : Collected(x) /\ c \in ToSet(Mro[x])}
      OBVIOUS
    <3>2. E \in SUBSET Class /\ E \subseteq host'
      BY <1>4, <3>1 DEF Collected
    <3>3. ASSUME NEW x \in E, x # c PROVE \E d \in E : d \in ToSet(Bases[x])
      <4>1. PICK d \in ToSet(Bases[x]) : c \in ToSet(Mro[d])
        BY <3>1, <3>3, MroAssumption
      <4>2. Collected(d)
        BY <3>1, <4>1 DEF BasesFirst
      <4> QED  BY <1>3, <3>1, <4>1, <4>2 DEF Collected
    <3>4. p.init
      BY DEF Counts
    <3>5. Walks(t, E)'
      BY <1>1, <1>9, <3>3, <3>4 DEF Walks
    <3>6. Early(p, E)'
      BY <1>9, <3>2, <3>4, <3>5 DEF Early
    <3>7. Reaches(p, E)'
      BY <1>1, <1>12, <3>1 DEF Reaches
    <3> QED  BY <3>2, <3>6, <3>7
  <2> QED  BY <2>1, <2>2
<1> QED  BY <1>13, <1>14, <1>15, <1>16, <1>17, <1>18

LEMMA ApplyNextHInv ==
  ASSUME IInv, HInv, NEW t \in Thread, ApplyNext(t)
  PROVE  HInv'
<1> USE DEF HInv
<1>1. PICK p : p = reg[t].p
  OBVIOUS
<1>2. PICK U : Typed(U)
  BY DEF IInv, TypeOK
<1>3. host \subseteq Class /\ reg \in [Thread -> RegType(U)]
  BY <1>2 DEF Typed
<1>4. reg[t].pc = "all" /\ UNCHANGED <<hints, host, dict, stack, kept, failed>>
  BY DEF ApplyNext, history
<1>5. p \in Proto /\ reg[t].todo \subseteq Class /\ reg[t].applied \subseteq Class
      /\ ran \in [Class -> SUBSET Proto]
  BY <1>1, <1>4 DEF Orderly, Contents
<1>6. PICK c, applied, todo :
        /\ c \in reg[t].todo
        /\ applied = reg[t].applied \cup {c}
        /\ todo = (reg[t].todo \cup {d \in host : c \in ToSet(Bases[d])}) \ applied
        /\ ran' = [ran EXCEPT ![c] = @ \cup {p}]
        /\ reg' = [reg EXCEPT ![t] = IF todo = {} THEN NoReg
                                     ELSE [reg[t] EXCEPT !.todo = todo, !.applied = applied]]
  BY <1>1 DEF ApplyNext
<1>7. c \in Class /\ applied \subseteq Class /\ todo \subseteq Class
  BY <1>3, <1>5, <1>6
<1>8. /\ ran' \in [Class -> SUBSET Proto] /\ p \in ran'[c]
      /\ \A x \in Class : ran[x] \subseteq ran'[x]
  BY <1>5, <1>6, <1>7
<1>9. /\ \A u \in Thread : u # t => reg'[u] = reg[u]
      /\ todo = {} => reg'[t] = NoReg
      /\ todo # {} => /\ reg'[t].pc = "all" /\ reg'[t].p = p /\ reg'[t].prev = reg[t].prev
                      /\ reg'[t].todo = todo /\ reg'[t].applied = applied
  <2>1. PICK new : new = [reg[t] EXCEPT !.todo = todo, !.applied = applied]
    OBVIOUS
  <2>2. reg' = [reg EXCEPT ![t] = IF todo = {} THEN NoReg ELSE new]
    BY <1>6, <2>1
  <2>3. /\ new.pc = "all" /\ new.p = p /\ new.prev = reg[t].prev
        /\ new.todo = todo /\ new.applied = applied
    BY <1>1, <1>3, <1>4, <2>1 DEF RegType
  <2> QED  BY <1>3, <2>2, <2>3
<1>10. /\ \A u \in Thread : (Busy(u)' <=> Busy(u)) /\ (Busy(u) => reg'[u] = reg[u])
       /\ ~Busy(t) /\ (reg'[t].pc # "idle" => reg'[t].p = p) /\ reg'[t].pc # "chain"
  BY <1>4, <1>9 DEF Busy, NoReg
<1>11. \A q : Counts(q)' <=> Counts(q)
  BY <1>4, <1>10 DEF Counts, Installing
<1>12. /\ \A u : Doing(u)' = Doing(u)
       /\ \A x : Began(x)' <=> Began(x)
       /\ \A x : Collected(x)' <=> Collected(x)
       /\ \A q, x : Waiting(q, x)' <=> Waiting(q, x)
  BY <1>4, SameStacks
<1>13. Contents'
  <2>1. \A u \in Thread : /\ reg'[u].prev \in Seq(HookType)
                          /\ reg'[u].todo \subseteq Class /\ reg'[u].applied \subseteq Class
    <3>1. ASSUME NEW u \in Thread, u # t
          PROVE  /\ reg'[u].prev \in Seq(HookType)
                 /\ reg'[u].todo \subseteq Class /\ reg'[u].applied \subseteq Class
      BY <1>9, <3>1 DEF Contents
    <3>2. CASE todo # {}
      BY <1>7, <1>9, <3>1, <3>2 DEF Contents
    <3>3. CASE todo = {}
      <4>1. reg'[t].prev = <<>> /\ reg'[t].todo = {} /\ reg'[t].applied = {}
        BY <1>9, <3>3 DEF NoReg
      <4>2. <<>> \in Seq(HookType)
        OBVIOUS
      <4> QED  BY <3>1, <4>1, <4>2
    <3> QED  BY <3>2, <3>3
  <2> QED  BY <1>4, <1>8, <1>12, <2>1 DEF Contents
<1>14. Marked' /\ BasesReady' /\ BasesFirst'
  BY <1>3, <1>4, SameMarks
<1>15. Orderly'
  <2>1. \A q \in kept' : q \in Proto /\ q \in ToSet(hints'[q.target].implementations)
    BY <1>4 DEF Orderly
  <2>2. \A u \in Thread : reg'[u].pc # "idle" => reg'[u].p = reg[u].p /\ reg[u].pc # "idle"
    BY <1>1, <1>4, <1>9, <1>10
  <2>4. ASSUME NEW u \in Thread, reg'[u].pc # "idle"
        PROVE  /\ reg'[u].p \in Proto
               /\ reg'[u].p \in ToSet(hints'[reg'[u].p.target].implementations)
               /\ hints'[reg'[u].p.target].instantiated
               /\ Busy(u)' => reg'[u].applied = {}
    BY <1>4, <1>10, <2>2, <2>4 DEF Orderly
  <2>5. ASSUME NEW u \in Thread, NEW v \in Thread, u # v, reg'[u].pc # "idle", reg'[v].pc # "idle"
        PROVE  /\ reg'[u].p # reg'[v].p
               /\ Busy(u)' /\ Busy(v)' /\ reg'[u].p.target = reg'[v].p.target => reg'[u].p \notin kept'
    BY <1>4, <1>10, <2>2, <2>5 DEF Orderly
  <2> QED  BY <2>1, <2>4, <2>5 DEF Orderly
<1>16. Installed'
  BY <1>4, <1>11, <1>12 DEF Installed
<1>17. Previous'
  BY <1>9, <1>10, <1>11 DEF Previous
<1>18. \A q \in Proto, x \in Class :
         q \in ran[x] \/ Waiting(q, x) => q \in ran'[x] \/ Waiting(q, x)'
  BY <1>8, <1>12
<1>19. ASSUME NEW q \in Proto, q # p PROVE Reach(q)'
  <2>1. Counts(q)' /\ Began(q.target)' => Counts(q) /\ Began(q.target)
    BY <1>11, <1>12
  <2>2. \A u \in Thread : reg[u].pc = "all" /\ reg[u].p = q => reg'[u] = reg[u]
    BY <1>1, <1>9, <1>19
  <2>3. Reach(q)
    BY DEF Reached
  <2>4. \A x \in Class :
         Counts(q)' /\ q.target \in ToSet(Mro[x]) /\ Collected(x)' /\ x \notin failed' =>
           \/ q \in ran'[x] \/ Waiting(q, x)'
           \/ Collected(x) /\ x \notin failed /\ ~Waiting(q, x)
    BY <1>4, <1>12
  <2>5. host \subseteq host' /\ Contents
    BY <1>4
  <2> QED  BY <1>8, <2>1, <2>2, <2>3, <2>4, <2>5, ReachKeeps
<1>20. Reach(p)'
  <2> SUFFICES ASSUME Counts(p), Began(p.target)
               PROVE  \E E \in SUBSET Class : Early(p, E)' /\ Reaches(p, E)'
    BY <1>11, <1>12 DEF Reach
  <2>1. PICK E \in SUBSET Class : Early(p, E) /\ Reaches(p, E)
    BY <1>5 DEF Reached, Reach
  <2>2. ASSUME NEW F, \A x \in E : x \in F \/ p \in ran'[x] PROVE Reaches(p, F)'
    BY <1>4, <1>5, <1>12, <1>18, <2>1, <2>2 DEF Reaches
  <2>3. CASE E = {}
    <3>1. Early(p, {})'
      BY DEF Early
    <3> QED  BY <2>2, <2>3, <3>1
  <2>4. CASE E # {}
    <3>1. Walks(t, E)
      <4>1. PICK u \in Thread : reg[u].pc = "all" /\ reg[u].p = p /\ Walks(u, E)
        BY <2>1, <2>4 DEF Early
      <4>2. u = t
        BY <1>1, <1>4, <4>1 DEF Orderly
      <4> QED  BY <4>1, <4>2
    <3>2. E \subseteq host
      BY <2>1 DEF Early
    <3>3. /\ p.target \in applied \cup todo
          /\ \A x \in E \ {p.target} : \E d \in E : d \in ToSet(Bases[x])
          /\ \A x \in E : \A d \in E \cap ToSet(Bases[x]) : d \in applied => x \in applied \cup todo
          /\ \A x \in applied : p \in ran'[x]
      <4>1. p.target \in applied \cup todo
        BY <1>1, <1>6, <3>1 DEF Walks
      <4>2. \A x \in E \ {p.target} : \E d \in E : d \in ToSet(Bases[x])
        BY <1>1, <3>1 DEF Walks
      <4>3. ASSUME NEW x \in E, NEW d \in E \cap ToSet(Bases[x]), d \in applied
            PROVE  x \in applied \cup todo
        <5>1. CASE d = c
          BY <1>6, <3>2, <5>1
        <5>2. CASE d \in reg[t].applied
          <6>1. x \in reg[t].applied \cup reg[t].todo
            BY <3>1, <5>2 DEF Walks
          <6> QED  BY <1>6, <6>1
        <5> QED  BY <1>6, <4>3, <5>1, <5>2
      <4>4. \A x \in applied : p \in ran'[x]
        BY <1>1, <1>5, <1>6, <1>8, <3>1 DEF Walks
      <4> QED  BY <4>1, <4>2, <4>3, <4>4
    <3>4. CASE todo # {}
      <4>1. Walks(t, E)'
        BY <1>9, <3>3, <3>4 DEF Walks
      <4>2. Early(p, E)'
        BY <1>4, <1>9, <3>2, <3>4, <4>1 DEF Early
      <4> QED  BY <2>2, <4>2
    <3>5. CASE todo = {}
      <4>1. PICK S : S = E \ applied
        OBVIOUS
      <4>2. S = {}
        <5> SUFFICES ASSUME S # {} PROVE FALSE
          OBVIOUS
        <5>1. PICK x \in S : ToSet(Bases[x]) \cap S = {}
          BY <4>1, DerivationAssumption
        <5>2. x \in E \ {p.target}
          BY <3>3, <3>5, <4>1, <5>1
        <5>3. PICK d \in E : d \in ToSet(Bases[x])
          BY <3>3, <5>2
        <5>4. d \in applied
          BY <4>1, <5>1, <5>3
        <5> QED  BY <3>3, <3>5, <4>1, <5>1, <5>2, <5>3, <5>4
      <4>3. Reaches(p, {})'
        BY <2>2, <3>3, <4>1, <4>2
      <4>4. Early(p, {})'
        BY DEF Early
      <4> QED  BY <4>3, <4>4
    <3> QED  BY <3>4, <3>5
  <2> QED  BY <2>3, <2>4
<1>21. Reached'
  BY <1>19, <1>20 DEF Reached
<1> QED  BY <1>13, <1>14, <1>15, <1>16, <1>17, <1>21

LEMMA StutterHInv ==
  ASSUME IInv, HInv, UNCHANGED vars
  PROVE  HInv'
<1> USE DEF HInv
<1>1. UNCHANGED <<hints, host, dict, stack, reg, ran, kept, failed>>
  BY DEF vars
<1>2. /\ \A u : Doing(u)' = Doing(u)
      /\ \A x : Began(x)' <=> Began(x)
      /\ \A x : Collected(x)' <=> Collected(x)
      /\ \A q, x : Waiting(q, x)' <=> Waiting(q, x)
  BY <1>1, SameStacks
<1>3. (\A p : Counts(p)' <=> Counts(p)) /\ Previous'
  BY <1>1, CountsKeeps
<1>4. Contents'
  BY <1>1, <1>2 DEF Contents
<1>5. host \subseteq Class
  BY DEF IInv, TypeOK, Typed
<1>6. Marked' /\ BasesReady' /\ BasesFirst'
  BY <1>1, <1>5, SameMarks
<1>7. Orderly'
  BY <1>1, OrderlyKeeps
<1>8. Installed'
  BY <1>1, <1>2, <1>3 DEF Installed
<1>9. Reached'
  BY <1>1, <1>2, <1>3, ReachedKeeps
<1> QED  BY <1>3, <1>4, <1>6, <1>7, <1>8, <1>9

LEMMA NextHInv ==
  ASSUME IInv, HInv, [Next]_vars
  PROVE  HInv'
<1>1. ASSUME NEW t \in Thread, NEW c \in Class, JClass(t, c) PROVE HInv'
  <2>1. Quiet(t)
    BY <1>1, QuietSteps
  <2> QED  BY <2>1, QuietHInv
<1>2. ASSUME NEW t \in Thread, Enter(t) \/ Hook(t) \/ MakeBases(t) \/ InitDone(t) \/ MakeInner(t)
      PROVE  HInv'
  <2>1. Quiet(t)
    BY <1>2, QuietSteps
  <2> QED  BY <2>1, QuietHInv
<1>3. ASSUME NEW t \in Thread, Pre(t) \/ Make(t) \/ Mark(t) \/ Collect(t) \/ RunInit(t) \/ InitRaises(t)
      PROVE  HInv'
  BY <1>3, PreHInv, MakeHInv, MarkHInv, CollectHInv, RunInitHInv, InitRaisesHInv
<1>4. ASSUME NEW t \in Thread, Registering(t) PROVE HInv'
  BY <1>4, PostCopyHInv, PostChainHInv, ApplyNextHInv DEF Registering
<1>5. ASSUME NEW t \in Thread, NEW p \in Proto, Register(t, p) PROVE HInv'
  BY <1>5, RegisterHInv
<1>6. CASE UNCHANGED vars
  BY <1>6, StutterHInv
<1> QED  BY <1>1, <1>2, <1>3, <1>4, <1>5, <1>6 DEF Next, Step

\* A finished class has asked its bases, and waits for no hook; a settled customizer
\* is installed, and no _applyAll of it is under way.
LEMMA EveryHookFollows ==
  ASSUME IInv, HInv
  PROVE  EveryHookRuns
<1> USE DEF HInv
<1> SUFFICES ASSUME NEW c \in Class, NEW p \in Proto, Finished(c), p.init, Settled(p),
                    p.target \in ToSet(Mro[c])
             PROVE  p \in ran[c]
  BY DEF EveryHookRuns
<1>1. PICK U : Typed(U)
  BY DEF IInv, TypeOK
<1>2. stack \in [Thread -> Seq(FrameType(U))]
  BY <1>1 DEF Typed
<1>3. ASSUME NEW t \in Thread, Doing(t).pc # "idle" PROVE Doing(t).cls # c
  <2>1. stack[t] # <<>> /\ Doing(t) = Top(t)
    BY <1>3 DEF Doing, Idle
  <2>2. /\ Top(t) = stack[t][Len(stack[t])] /\ Len(stack[t]) \in 1 .. Len(stack[t])
        /\ DOMAIN stack[t] = 1 .. Len(stack[t])
    BY <1>2, <2>1, TopFrame
  <2> QED  BY <2>1, <2>2 DEF Finished
<1>4. c \in host /\ c \notin failed /\ Collected(c) /\ ~Waiting(p, c)
  BY <1>3 DEF Finished, Collected, On, Waiting
<1>5. Counts(p)
  BY DEF Settled, Counts, Installing
<1>6. p.target \in Class /\ hints[p.target].instantiated
  BY <1>4, ProtoAssumption DEF BasesFirst
<1>7. Began(p.target)
  BY <1>6 DEF Marked, Began
<1>8. PICK E \in SUBSET Class : Early(p, E) /\ Reaches(p, E)
  BY <1>5, <1>7 DEF Reached, Reach
<1>9. E = {}
  BY <1>8 DEF Early, Settled
<1> QED  BY <1>4, <1>8, <1>9 DEF Reaches

\* The __jclass_init__ of a customizer reaches its class and every class derived from
\* it, however the making of wrappers and the registrations of the threads meet
\* (registerClassImplementation, _applyCustomizerPost, _applyAll, applyInitializer).
THEOREM HooksReachClasses == Spec => []EveryHookRuns
<1>1. Init => IInv /\ HInv
  BY InitIInv, InitHInv
<1>2. IInv /\ HInv /\ [Next]_vars => (IInv /\ HInv)'
  BY NextIInv, NextHInv
<1>3. IInv /\ HInv => EveryHookRuns
  BY EveryHookFollows
<1> QED  BY <1>1, <1>2, <1>3, PTL DEF Spec
===============================================================================
