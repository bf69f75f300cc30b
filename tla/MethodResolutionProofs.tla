------------------------- MODULE MethodResolutionProofs -------------------------
(***************************************************************************)
(* The sort of MethodResolution, and the dispatches that are built on it    *)
(* and searched, for any executables, any relation isMoreSpecificThan, with *)
(* circles or without, and any conversions: the proofs expand neither the  *)
(* one nor the type tables.                                                *)
(***************************************************************************)
EXTENDS Dispatch, WellFoundedInduction, FiniteSetTheorems, TLAPS

\* A sequence without repetition.
Once(s) == \A i, j \in DOMAIN s : s[i] = s[j] => i = j

\* Everything that a placed method must come after was placed before it.
Placed ==
  \A i \in DOMAIN out : \A o \in Range(methods) :
    o # out[i] /\ Strict(out[i], o) => \E j \in 1 .. i - 1 : out[j] = o

\* The queue and the result split the list.
Split ==
  /\ Range(unsorted) \cup Range(out) = Range(methods)
  /\ Range(unsorted) \cap Range(out) = {}
  /\ Once(unsorted)
  /\ Once(out)

IInv == SortTypeOK /\ Split /\ Placed

-------------------------------------------------------------------------------
\* Induction, by the least counterexample.
LEMMA LeastIn ==
  ASSUME NEW S \in SUBSET Nat, S # {}
  PROVE  Min(S) \in S /\ \A y \in S : Min(S) <= y
<1> DEFINE Below(n) == 0 .. n
<1>1. PICK k \in S : TRUE
  OBVIOUS
<1> DEFINE T == {Below(n) : n \in {m \in S : m <= k}}
<1>2. IsFiniteSet(Below(k))
  BY FS_Interval
<1>3. T \subseteq FiniteSubsetsOf(Below(k)) /\ T # {}
  <2>1. \A n \in Nat : n <= k => Below(n) \subseteq Below(k)
    OBVIOUS
  <2> QED  BY <2>1, <1>1, <1>2, FS_Subset DEF FiniteSubsetsOf
<1>4. PICK X \in T : \A Y \in T : <<Y, X>> \notin StrictSubsetOrdering(Below(k))
  <2> HIDE DEF T, Below
  <2>1. IsWellFoundedOn(StrictSubsetOrdering(Below(k)), FiniteSubsetsOf(Below(k)))
    BY FS_StrictSubsetOrderingWellFounded
  <2> QED  BY <2>1, <1>3, WFMin
<1>5. PICK x \in S : x <= k /\ X = Below(x)
  BY <1>4
<1>6. \A y \in S : x <= y
  <2> SUFFICES ASSUME NEW y \in S, y < x PROVE FALSE
    OBVIOUS
  <2>1. Below(y) \in T /\ y <= k
    BY <1>5
  <2>2. Below(y) \subseteq Below(x) /\ Below(y) # Below(x) /\ Below(x) \subseteq Below(k)
    <3>1. x \in Below(x) /\ x \notin Below(y)
      OBVIOUS
    <3>2. Below(y) \subseteq Below(x) /\ Below(x) \subseteq Below(k)
      BY <1>5
    <3> QED  BY <3>1, <3>2
  <2>3. <<Below(y), Below(x)>> \in StrictSubsetOrdering(Below(k))
    BY <2>2 DEF StrictSubsetOrdering
  <2> QED  BY <2>1, <2>3, <1>4, <1>5
<1> QED  BY <1>5, <1>6 DEF Min

\* What holds of 0 and passes from each number to the next holds up to n.
LEMMA UpTo ==
  ASSUME NEW n \in Nat, NEW Good \in SUBSET Nat, 0 \in Good,
         \A i \in 1 .. n : i - 1 \in Good => i \in Good
  PROVE  \A i \in 0 .. n : i \in Good
<1> DEFINE Bad == {i \in 0 .. n : i \notin Good}
<1> SUFFICES ASSUME Bad # {} PROVE FALSE
  OBVIOUS
<1>1. Bad \in SUBSET Nat
  OBVIOUS
<1>2. Min(Bad) \in Bad /\ \A y \in Bad : Min(Bad) <= y
  <2> HIDE DEF Bad
  <2> QED  BY <1>1, LeastIn
<1> DEFINE k == Min(Bad)
<1> HIDE DEF k
<1>3. k \in 0 .. n /\ k \notin Good /\ k # 0 /\ \A y \in 0 .. n : y \notin Good => k <= y
  BY <1>2 DEF k
<1>4. k - 1 \in 0 .. n /\ k \in 1 .. n
  BY <1>3
<1> QED  BY <1>3, <1>4

\* A step that is a function of what came before and of the index, and its iterates.
Steps(n, S) == [S \X (1 .. n) -> S]
Runs(f, n, S, x, step) ==
  /\ f \in [0 .. n -> S]
  /\ f[0] = x
  /\ \A i \in 1 .. n : f[i] = step[<<f[i - 1], i>>]

\* It can be iterated.
LEMMA Iterates ==
  ASSUME NEW n \in Nat, NEW S, NEW x \in S, NEW step \in Steps(n, S)
  PROVE  \E f : Runs(f, n, S, x, step)
<1> DEFINE Good == {k \in Nat : k <= n => \E f : Runs(f, k, S, x, step)}
<1>1. 0 \in Good
  <2>1. Runs([i \in 0 .. 0 |-> x], 0, S, x, step)
    BY DEF Runs
  <2> QED  BY <2>1
<1>2. ASSUME NEW k \in 1 .. n, k - 1 \in Good PROVE k \in Good
  <2>1. PICK f : Runs(f, k - 1, S, x, step)
    BY <1>2
  <2> DEFINE g == [i \in 0 .. k |-> IF i = k THEN step[<<f[k - 1], k>>] ELSE f[i]]
  <2>2. step[<<f[k - 1], k>>] \in S
    BY <2>1 DEF Runs, Steps
  <2>3. g \in [0 .. k -> S] /\ g[0] = x
    BY <2>1, <2>2 DEF Runs
  <2>4. ASSUME NEW i \in 1 .. k PROVE g[i] = step[<<g[i - 1], i>>]
    <3>1. g[i - 1] = f[i - 1]
      OBVIOUS
    <3>2. CASE i = k
      BY <3>1, <3>2
    <3>3. CASE i \in 1 .. k - 1
      <4>1. g[i] = f[i]
        BY <3>3
      <4>2. f[i] = step[<<f[i - 1], i>>]
        BY <2>1, <3>3 DEF Runs
      <4> HIDE DEF g
      <4> QED  BY <4>1, <4>2, <3>1
    <3> QED  BY <3>2, <3>3
  <2>5. Runs(g, k, S, x, step)
    BY <2>3, <2>4 DEF Runs
  <2> QED  BY <2>5
<1>3. n \in Good
  <2>1. Good \in SUBSET Nat
    OBVIOUS
  <2> HIDE DEF Good
  <2>2. \A i \in 0 .. n : i \in Good
    BY <1>1, <1>2, <2>1, UpTo
  <2> QED  BY <2>2
<1> QED  BY <1>3

-------------------------------------------------------------------------------
\* Taking the first element of a sequence without repetition removes it.
LEMMA TailOnce ==
  ASSUME NEW S, NEW s \in Seq(S), s # <<>>, Once(s)
  PROVE  /\ Head(s) \in S
         /\ Tail(s) \in Seq(S)
         /\ Once(Tail(s))
         /\ Range(s) = Range(Tail(s)) \cup {Head(s)}
         /\ Head(s) \notin Range(Tail(s))
<1>1. Head(s) \in S /\ Tail(s) \in Seq(S) /\ Head(s) = s[1] /\ Len(s) > 0
      /\ DOMAIN s = 1 .. Len(s) /\ DOMAIN Tail(s) = 1 .. Len(s) - 1
      /\ \A i \in 1 .. Len(s) - 1 : Tail(s)[i] = s[i + 1]
  OBVIOUS
<1>2. Once(Tail(s))
  BY <1>1 DEF Once
<1>3. \A x \in Range(s) : x \in Range(Tail(s)) \cup {Head(s)}
  <2> SUFFICES ASSUME NEW i \in DOMAIN s, s[i] # Head(s)
               PROVE  s[i] \in Range(Tail(s))
    BY DEF Range
  <2>1. i - 1 \in DOMAIN Tail(s) /\ Tail(s)[i - 1] = s[i]
    BY <1>1
  <2> QED
    BY <2>1 DEF Range
<1>4. \A x \in Range(Tail(s)) : x \in Range(s) /\ x # Head(s)
  BY <1>1 DEF Range, Once
<1>5. Head(s) \in Range(s)
  BY <1>1 DEF Range
<1> QED
  BY <1>1, <1>2, <1>3, <1>4, <1>5

\* Appending a new element keeps a sequence without repetition.
LEMMA AppendOnce ==
  ASSUME NEW S, NEW s \in Seq(S), NEW x \in S, Once(s), x \notin Range(s)
  PROVE  /\ Append(s, x) \in Seq(S)
         /\ Once(Append(s, x))
         /\ Range(Append(s, x)) = Range(s) \cup {x}
<1>1. /\ Append(s, x) \in Seq(S)
      /\ DOMAIN s = 1 .. Len(s)
      /\ Len(s) \in Nat
      /\ DOMAIN Append(s, x) = 1 .. Len(s) + 1
      /\ Append(s, x)[Len(s) + 1] = x
      /\ \A i \in 1 .. Len(s) : Append(s, x)[i] = s[i]
  OBVIOUS
<1>2. \A i \in 1 .. Len(s) : s[i] # x
  BY <1>1 DEF Range
<1>3. Once(Append(s, x))
  BY <1>1, <1>2 DEF Once
<1>4. \A y \in Range(Append(s, x)) : y \in Range(s) \cup {x}
  BY <1>1 DEF Range
<1>5. \A y \in Range(s) \cup {x} : y \in Range(Append(s, x))
  <2>1. Len(s) + 1 \in DOMAIN Append(s, x) /\ \A i \in DOMAIN s : i \in DOMAIN Append(s, x)
    BY <1>1
  <2> QED
    BY <2>1, <1>1 DEF Range
<1> QED
  BY <1>1, <1>3, <1>4, <1>5

\* The invariant holds when the sort begins.
LEMMA InitIInv == SortInit => IInv
<1> SUFFICES ASSUME SortInit PROVE IInv
  OBVIOUS
<1>1. SortTypeOK
  BY DEF SortInit, SortTypeOK
<1>2. Range(out) = {} /\ DOMAIN out = {}
  BY DEF SortInit, Range
<1> QED
  BY <1>1, <1>2 DEF SortInit, IInv, Split, Placed, Once

\* Placing a method keeps it.
LEMMA TakeIInv == IInv /\ SortTake => IInv'
<1> SUFFICES ASSUME IInv, SortTake PROVE IInv'
  OBVIOUS
<1> DEFINE m == Head(unsorted)
<1>1. /\ methods \in Seq(Method) /\ unsorted \in Seq(Method) /\ out \in Seq(Method)
      /\ unsorted # <<>> /\ Once(unsorted) /\ Once(out)
      /\ out' = Append(out, m) /\ unsorted' = Tail(unsorted) /\ methods' = methods
  BY DEF IInv, SortTypeOK, Split, SortTake
<1>2. /\ m \in Method
      /\ Tail(unsorted) \in Seq(Method)
      /\ Once(Tail(unsorted))
      /\ Range(unsorted) = Range(Tail(unsorted)) \cup {m}
      /\ m \notin Range(Tail(unsorted))
  BY <1>1, TailOnce
<1>3. m \notin Range(out)
  BY <1>2 DEF IInv, Split
<1>4. /\ Append(out, m) \in Seq(Method)
      /\ Once(Append(out, m))
      /\ Range(Append(out, m)) = Range(out) \cup {m}
  BY <1>1, <1>2, <1>3, AppendOnce
<1>5. SortTypeOK'
  BY <1>1, <1>2, <1>4 DEF SortTypeOK
<1>6. Split'
  BY <1>1, <1>2, <1>3, <1>4, Zenon DEF IInv, Split
<1>7. Placed'
  <2> SUFFICES ASSUME NEW i \in DOMAIN Append(out, m), NEW o \in Range(methods),
                      o # Append(out, m)[i], Strict(Append(out, m)[i], o)
               PROVE  \E j \in 1 .. i - 1 : Append(out, m)[j] = o
    BY <1>1, Zenon DEF Placed, Strict
  <2>1. /\ DOMAIN out = 1 .. Len(out) /\ Len(out) \in Nat
        /\ DOMAIN Append(out, m) = 1 .. Len(out) + 1
        /\ Append(out, m)[Len(out) + 1] = m
        /\ \A k \in 1 .. Len(out) : Append(out, m)[k] = out[k]
    BY <1>1, <1>2
  <2>2. CASE i = Len(out) + 1
    <3>1. o \in children(m)
      BY <2>1, <2>2, Zenon DEF children, Strict
    <3>2. o \in Range(out)
      BY <3>1 DEF SortTake, isCovered
    <3> QED
      BY <3>2, <2>1, <2>2 DEF Range
  <2>3. CASE i \in 1 .. Len(out)
    <3>1. o # out[i] /\ Strict(out[i], o) /\ i \in DOMAIN out
      BY <2>1, <2>3
    <3>2. PICK j \in 1 .. i - 1 : out[j] = o
      BY <3>1 DEF IInv, Placed
    <3> QED
      BY <3>2, <2>1, <2>3
  <2> QED
    BY <2>1, <2>2, <2>3
<1> QED
  BY <1>5, <1>6, <1>7 DEF IInv

\* So does sending one to the end of the queue.
LEMMA DeferIInv == IInv /\ SortDefer => IInv'
<1> SUFFICES ASSUME IInv, SortDefer PROVE IInv'
  OBVIOUS
<1> DEFINE m == Head(unsorted)
<1>1. /\ methods \in Seq(Method) /\ unsorted \in Seq(Method) /\ out \in Seq(Method)
      /\ unsorted # <<>> /\ Once(unsorted)
      /\ unsorted' = Append(Tail(unsorted), m) /\ methods' = methods /\ out' = out
  BY DEF IInv, SortTypeOK, Split, SortDefer
<1>2. /\ m \in Method
      /\ Tail(unsorted) \in Seq(Method)
      /\ Once(Tail(unsorted))
      /\ Range(unsorted) = Range(Tail(unsorted)) \cup {m}
      /\ m \notin Range(Tail(unsorted))
  BY <1>1, TailOnce
<1>3. /\ Append(Tail(unsorted), m) \in Seq(Method)
      /\ Once(Append(Tail(unsorted), m))
      /\ Range(Append(Tail(unsorted), m)) = Range(Tail(unsorted)) \cup {m}
  <2> DEFINE t == Tail(unsorted)
  <2>1. m \in Method /\ t \in Seq(Method) /\ Once(t) /\ m \notin Range(t)
    BY <1>2
  <2> HIDE DEF m, t
  <2>2. /\ Append(t, m) \in Seq(Method)
        /\ Once(Append(t, m))
        /\ Range(Append(t, m)) = Range(t) \cup {m}
    BY <2>1, AppendOnce
  <2> QED
    BY <2>2 DEF t
<1>4. SortTypeOK'
  BY <1>1, <1>3 DEF SortTypeOK
<1>5. Split'
  BY <1>1, <1>2, <1>3, Zenon DEF IInv, Split, Once
<1>6. Placed'
  BY <1>1, Zenon DEF IInv, Placed, Strict
<1> QED
  BY <1>4, <1>5, <1>6 DEF IInv

\* So does leaving the sort alone.
LEMMA StayIInv == IInv /\ UNCHANGED sortVars => IInv'
  BY Zenon DEF sortVars, IInv, SortTypeOK, Split, Placed, Once, Strict

\* The invariant of the sort.
LEMMA Inductive == SortSpec => []IInv
<1>1. IInv /\ [SortStep]_sortVars => IInv'
  <2> SUFFICES ASSUME IInv, [SortStep]_sortVars PROVE IInv'
    OBVIOUS
  <2>1. CASE SortTake
    BY <2>1, TakeIInv
  <2>2. CASE SortDefer
    BY <2>2, DeferIInv
  <2>3. CASE UNCHANGED sortVars
    BY <2>3, StayIInv
  <2> QED
    BY <2>1, <2>2, <2>3 DEF SortStep
<1> QED
  BY <1>1, InitIInv, PTL DEF SortSpec

-------------------------------------------------------------------------------
\* sortMethods works on sequences of methods throughout.
THEOREM SortTypeCorrect == SortSpec => []SortTypeOK
<1>1. IInv => SortTypeOK
  BY DEF IInv
<1> QED
  BY <1>1, Inductive, PTL

\* The invariant puts the less specific ones first.
LEMMA Topological == IInv => SortedOut
<1> SUFFICES ASSUME IInv, NEW i \in DOMAIN out, NEW j \in DOMAIN out, Strict(out[i], out[j])
             PROVE  j < i
  BY DEF SortedOut, Strict
<1>1. DOMAIN out = 1 .. Len(out) /\ Len(out) \in Nat
  BY DEF IInv, SortTypeOK
<1>2. out[j] # out[i]
  BY DEF Strict
<1>3. out[j] \in Range(methods)
  BY DEF IInv, Split, Range
<1>4. PICK k \in 1 .. i - 1 : out[k] = out[j]
  BY <1>2, <1>3 DEF IInv, Placed
<1>5. k \in DOMAIN out
  BY <1>1
<1>6. k = j
  BY <1>4, <1>5 DEF IInv, Split, Once
<1> QED
  BY <1>1, <1>6

\* sortMethods never places a method before one that is less specific, so every
\* precedence list of createMethods holds defined methods only.
THEOREM SortIsTopological == SortSpec => []SortedOut
  BY Topological, Inductive, PTL

\* sortMethods loses no method and repeats none.
THEOREM SortIsPermutation == SortSpec => []SortKeepsAll
<1>1. IInv => SortKeepsAll
  BY Zenon DEF IInv, Split, Once, SortKeepsAll
<1> QED
  BY <1>1, Inductive, PTL

\* When none of the methods that are left can be placed, they make a circle.
LEMMA StuckInCircle ==
  ASSUME IInv, unsorted # <<>>, ~CanPlace
  PROVE  Circular(Range(unsorted))
<1>1. unsorted \in Seq(Method) /\ Range(unsorted) \cup Range(out) = Range(methods)
  BY DEF IInv, SortTypeOK, Split
<1>2. Range(unsorted) # {}
  <2>1. 1 \in DOMAIN unsorted
    BY <1>1
  <2> QED
    BY <2>1 DEF Range
<1>3. ASSUME NEW m \in Range(unsorted)
      PROVE  \E o \in Range(unsorted) : Strict(m, o)
  <2>1. PICK o \in children(m) : o \notin Range(out)
    BY <1>3 DEF CanPlace, isCovered
  <2>2. o \in Range(unsorted) /\ Strict(m, o)
    BY <1>1, <2>1 DEF children, Strict
  <2> QED
    BY <2>2
<1> QED
  BY <1>2, <1>3 DEF Circular

\* The first of a circle to be placed would need another of them before it.
LEMMA CircleStays ==
  ASSUME IInv, NEW S \in SUBSET Range(methods), Circular(S)
  PROVE  S \cap Range(out) = {}
<1> DEFINE T == {i \in DOMAIN out : out[i] \in S}
<1>1. DOMAIN out = 1 .. Len(out) /\ Len(out) \in Nat
  BY DEF IInv, SortTypeOK
<1>2. ASSUME T # {}
      PROVE  FALSE
  <2>1. T \in SUBSET Nat
    BY <1>1
  <2>2. PICK i \in T : \A k \in T : i <= k
    BY <1>2, <2>1, LeastIn
  <2>3. PICK o \in S : Strict(out[i], o)
    BY <2>2 DEF Circular
  <2>4. o # out[i] /\ o \in Range(methods)
    BY <2>3 DEF Strict
  <2>5. PICK j \in 1 .. i - 1 : out[j] = o
    BY <2>2, <2>3, <2>4 DEF IInv, Placed
  <2>6. j \in T /\ j < i
    BY <1>1, <2>2, <2>5
  <2> QED
    BY <1>1, <2>2, <2>6
<1> QED
  BY <1>2 DEF Range

\* The sort is stuck in circles and in nothing else.
LEMMA Progress == IInv => SortNeverStuck
  BY StuckInCircle, CircleStays DEF SortNeverStuck

\* The queue of sortMethods holds a method that can be placed unless those that are
\* left make a circle, no member of which is ever placed: the loop over the queue
\* ends for every list without circles, and for no other.
THEOREM SortProgresses == SortSpec => []SortNeverStuck
  BY Progress, Inductive, PTL

-------------------------------------------------------------------------------
\* Keep is the filter that its name says.
LEMMA KeepFilters ==
  ASSUME NEW T, NEW s \in Seq(T), NEW S, Once(s)
  PROVE  /\ Keep(s, S) \in Seq(T)
         /\ Once(Keep(s, S))
         /\ Range(Keep(s, S)) = Range(s) \cap S
<1> DEFINE n == Len(s)
           next(q, i) == IF s[i] \in S THEN Append(q, s[i]) ELSE q
           Is(f) == f = [i \in 0 .. n |-> IF i = 0 THEN <<>>
                                          ELSE IF s[i] \in S THEN Append(f[i - 1], s[i])
                                          ELSE f[i - 1]]
           kept == CHOOSE f : Is(f)
<1>1. n \in Nat /\ DOMAIN s = 1 .. n /\ \A i \in 1 .. n : s[i] \in T
  OBVIOUS
<1>2. Is(kept)
  <2> DEFINE step == [p \in Seq(T) \X (1 .. n) |-> next(p[1], p[2])]
  <2>1. \A q \in Seq(T), i \in 1 .. n : next(q, i) \in Seq(T) /\ step[<<q, i>>] = next(q, i)
    BY <1>1
  <2>2. step \in Steps(n, Seq(T)) /\ <<>> \in Seq(T)
    BY <2>1 DEF Steps
  <2> HIDE DEF step, next, n
  <2>3. PICK f : Runs(f, n, Seq(T), <<>>, step)
    BY <1>1, <2>2, Iterates
  <2>4. f \in [0 .. n -> Seq(T)] /\ f[0] = <<>>
    BY <2>3 DEF Runs
  <2>5. ASSUME NEW i \in 1 .. n PROVE f[i] = next(f[i - 1], i)
    <3>1. f[i] = step[<<f[i - 1], i>>]
      BY <2>3 DEF Runs
    <3>2. f[i - 1] \in Seq(T)
      BY <2>4, <1>1
    <3> QED  BY <3>1, <3>2, <2>1
  <2>6. ASSUME NEW i \in 0 .. n
        PROVE  f[i] = IF i = 0 THEN <<>>
                      ELSE IF s[i] \in S THEN Append(f[i - 1], s[i]) ELSE f[i - 1]
    <3>1. CASE i = 0
      BY <3>1, <2>4
    <3>2. CASE i \in 1 .. n
      BY <3>2, <2>5 DEF next
    <3> QED  BY <3>1, <3>2, <1>1
  <2>7. Is(f)
    BY <2>4, <2>6
  <2> HIDE DEF Is
  <2> QED  BY <2>7
<1>3. kept[0] = <<>> /\ \A i \in 1 .. n : kept[i] = next(kept[i - 1], i)
  <2> DEFINE body(i) == IF i = 0 THEN <<>>
                        ELSE IF s[i] \in S THEN Append(kept[i - 1], s[i]) ELSE kept[i - 1]
  <2>1. kept = [i \in 0 .. n |-> body(i)]
    BY <1>2
  <2> HIDE DEF body, kept, n
  <2>2. \A i \in 0 .. n : kept[i] = body(i)
    BY <2>1
  <2> QED  BY <1>1, <2>2 DEF body, next
<1>4. Keep(s, S) = kept[n]
  BY DEF Keep
<1> HIDE DEF kept, Is, n
<1> DEFINE Good == {i \in Nat : i <= n => /\ kept[i] \in Seq(T)
                                          /\ Once(kept[i])
                                          /\ Range(kept[i]) = {s[j] : j \in 1 .. i} \cap S}
<1>5. 0 \in Good
  <2>1. Once(<<>>) /\ Range(<<>>) = {} /\ <<>> \in Seq(T)
    BY DEF Once, Range
  <2>2. {s[j] : j \in 1 .. 0} = {}
    OBVIOUS
  <2> QED  BY <2>1, <2>2, <1>3
<1>6. ASSUME NEW i \in 1 .. n, i - 1 \in Good PROVE i \in Good
  <2> SUFFICES kept[i] \in Seq(T) /\ Once(kept[i]) /\ Range(kept[i]) = {s[j] : j \in 1 .. i} \cap S
    OBVIOUS
  <2> DEFINE q == kept[i - 1]
             before == {s[j] : j \in 1 .. i - 1}
  <2>1. q \in Seq(T) /\ Once(q) /\ Range(q) = before \cap S
    BY <1>6, <1>1
  <2>2. {s[j] : j \in 1 .. i} = before \cup {s[i]}
    BY <1>1
  <2>3. s[i] \notin before
    BY <1>1 DEF Once
  <2>4. CASE s[i] \in S
    <3>1. kept[i] = Append(q, s[i]) /\ s[i] \in T /\ s[i] \notin Range(q)
      BY <2>4, <1>3, <1>1, <2>1, <2>3
    <3> HIDE DEF q
    <3>2. Append(q, s[i]) \in Seq(T) /\ Once(Append(q, s[i]))
          /\ Range(Append(q, s[i])) = Range(q) \cup {s[i]}
      BY <3>1, <2>1, AppendOnce
    <3>3. Range(kept[i]) = {s[j] : j \in 1 .. i} \cap S
      <4>1. (before \cap S) \cup {s[i]} = (before \cup {s[i]}) \cap S
        BY <2>4
      <4> HIDE DEF before
      <4> QED  BY <4>1, <3>1, <3>2, <2>1, <2>2
    <3> QED  BY <3>1, <3>2, <3>3
  <2>5. CASE s[i] \notin S
    BY <2>5, <1>3, <1>1, <2>1, <2>2
  <2> QED  BY <2>4, <2>5
<1>7. n \in Good
  <2>1. Good \in SUBSET Nat
    OBVIOUS
  <2> HIDE DEF Good
  <2>2. \A i \in 0 .. n : i \in Good
    BY <1>1, <1>5, <1>6, <2>1, UpTo
  <2> QED  BY <1>1, <2>2
<1>8. {s[j] : j \in 1 .. n} = Range(s)
  BY <1>1 DEF Range
<1> QED  BY <1>1, <1>4, <1>7, <1>8

-------------------------------------------------------------------------------
\* The loop of findOverload
Found == [best : Method \cup {NoMethod}, type : Nat, ambiguous : SUBSET Method,
          exact : BOOLEAN]

\* What matches says of every overload of a list.
Judged(list, fits) ==
  list \in Seq(Method) /\ \A i \in 1 .. Len(list) : fits[list[i]].type \in None .. Exact

\* One turn of the loop.
Turn(list, instance, fits, found, i) ==
  Consider(found, list[i], instance, fits[list[i]].type)

\* The turns of the loop over a list.
Turns(f, list, instance, fits) ==
  /\ f \in [0 .. Len(list) -> Found]
  /\ f[0] = Start
  /\ \A i \in 1 .. Len(list) : f[i] = Turn(list, instance, fits, f[i - 1], i)

LEMMA ConsiderType ==
  ASSUME NEW found \in Found, NEW m \in Method, NEW instance, NEW type \in None .. Exact
  PROVE  Consider(found, m, instance, type) \in Found
<1>1. type \in Nat
  BY DEF None, Exact
<1>2. Switch(found, m, type) \in Found /\ [Switch(found, m, type) EXCEPT !.exact = TRUE] \in Found
      /\ [Switch(found, m, type) EXCEPT !.ambiguous = {}] \in Found
  BY <1>1 DEF Switch, Found
<1>3. [found EXCEPT !.ambiguous = @ \cup {m}] \in Found
  BY DEF Found
<1>4. CompareFit(found, m, type) \in Found
  BY <1>2, <1>3 DEF CompareFit
<1> HIDE DEF Found
<1> QED  BY <1>2, <1>4 DEF Consider

\* The search is the last turn of the loop.
LEMMA SearchTurns ==
  ASSUME NEW d, NEW instance, NEW fits, Judged(overloads[d], fits)
  PROVE  \E f : /\ Turns(f, overloads[d], instance, fits)
                /\ Search(d, instance, fits) = f[Len(overloads[d])]
<1> DEFINE list == overloads[d]
           n == Len(list)
           body(f, i) == IF i = 0 THEN Start
                         ELSE Consider(f[i - 1], list[i], instance, fits[list[i]].type)
           Is(f) == f = [i \in 0 .. n |-> body(f, i)]
           found == CHOOSE f : Is(f)
           step == [p \in Found \X (1 .. n) |-> Turn(list, instance, fits, p[1], p[2])]
<1>1. n \in Nat /\ \A i \in 1 .. n : list[i] \in Method /\ fits[list[i]].type \in None .. Exact
  BY DEF Judged
<1>2. Start \in Found
  BY DEF Start, Found, None
<1>3. Search(d, instance, fits) = found[n]
  BY DEF Search
<1> HIDE DEF list, n
<1>4. \A q \in Found, i \in 1 .. n : Turn(list, instance, fits, q, i) \in Found
  BY <1>1, ConsiderType DEF Turn
<1>5. step \in Steps(n, Found)
      /\ \A q \in Found, i \in 1 .. n : step[<<q, i>>] = Turn(list, instance, fits, q, i)
  <2> HIDE DEF Found
  <2> QED  BY <1>4 DEF Steps
<1> HIDE DEF step
<1>6. PICK f : Runs(f, n, Found, Start, step)
  BY <1>1, <1>2, <1>5, Iterates
<1>7. f \in [0 .. n -> Found] /\ f[0] = Start
  BY <1>6 DEF Runs
<1>8. ASSUME NEW i \in 1 .. n PROVE f[i] = Turn(list, instance, fits, f[i - 1], i)
  <2>1. f[i] = step[<<f[i - 1], i>>]
    BY <1>6 DEF Runs
  <2>2. f[i - 1] \in Found
    BY <1>7, <1>1
  <2> QED  BY <2>1, <2>2, <1>5
<1>9. Is(f)
  <2>1. ASSUME NEW i \in 0 .. n PROVE f[i] = body(f, i)
    <3>1. CASE i = 0
      BY <3>1, <1>7
    <3>2. CASE i \in 1 .. n
      BY <3>2, <1>8 DEF Turn
    <3> QED  BY <3>1, <3>2, <1>1
  <2> HIDE DEF body
  <2> QED  BY <1>7, <2>1
<1>10. Is(found)
  <2> HIDE DEF Is
  <2> QED  BY <1>9
<1> HIDE DEF found
<1>11. \A i \in 0 .. n : found[i] = body(found, i)
  <2> HIDE DEF body
  <2> QED  BY <1>10
<1>12. found[0] = Start /\ \A i \in 1 .. n : found[i] = Turn(list, instance, fits, found[i - 1], i)
  BY <1>1, <1>11 DEF Turn
<1>13. found \in [0 .. n -> Found]
  <2> DEFINE Good == {i \in Nat : i <= n => found[i] \in Found}
  <2>1. 0 \in Good
    BY <1>2, <1>12
  <2>2. ASSUME NEW i \in 1 .. n, i - 1 \in Good PROVE i \in Good
    BY <2>2, <1>1, <1>4, <1>12
  <2>3. Good \in SUBSET Nat
    OBVIOUS
  <2>4. \A i \in 0 .. n : i \in Good
    <3> HIDE DEF Good
    <3> QED  BY <1>1, <2>1, <2>2, <2>3, UpTo
  <2>5. found = [i \in 0 .. n |-> found[i]]
    <3> HIDE DEF body
    <3> QED  BY <1>10
  <2> QED  BY <1>1, <2>4, <2>5
<1> QED  BY <1>3, <1>12, <1>13 DEF Turns, list, n

Prefers(instance, fits, m, o) ==
  \/ Fits(m, instance) /\ ~Fits(o, instance)
  \/ Fits(m, instance) = Fits(o, instance) /\ fits[m].type > fits[o].type

\* The first i overloads hold two that match, where the first does not hide the other.
Pair(list, fits, i) ==
  \E j, k \in 1 .. i : /\ j < k
                       /\ fits[list[j]].type >= Implicit
                       /\ fits[list[k]].type >= Implicit
                       /\ list[k] \notin more[list[j]]

\* The best so far is one of the first i, and fits as it says.
Known(list, fits, i, found) ==
  \/ found.best = NoMethod
  \/ \E p \in 1 .. i : /\ found.best = list[p]
                       /\ found.type = fits[list[p]].type
                       /\ found.type >= Implicit

\* What is ambiguous is so for a reason.
LEMMA PairFound ==
  ASSUME NEW list, NEW fits, NEW instance, NEW f, Judged(list, fits),
         Turns(f, list, instance, fits), NEW k \in 0 .. Len(list)
  PROVE  Known(list, fits, k, f[k]) /\ (f[k].ambiguous # {} => Pair(list, fits, k))
<1> DEFINE n == Len(list)
           Good == {i \in Nat : i <= n => /\ Known(list, fits, i, f[i])
                                          /\ f[i].ambiguous # {} => Pair(list, fits, i)}
<1>1. n \in Nat /\ \A i \in 1 .. n : list[i] \in Method /\ fits[list[i]].type \in None .. Exact
  BY DEF Judged
<1>2. 0 \in Good
  BY DEF Turns, Start, Known
<1>3. ASSUME NEW i \in 1 .. n, i - 1 \in Good PROVE i \in Good
  <2> DEFINE q == f[i - 1]
             m == list[i]
             t == fits[m].type
  <2>1. q \in Found /\ f[i] = Consider(q, m, instance, t) /\ t \in None .. Exact /\ m \in Method
    BY <1>1 DEF Turns, Turn
  <2>2. Known(list, fits, i - 1, q) /\ (q.ambiguous # {} => Pair(list, fits, i - 1))
    BY <1>1, <1>3
  <2> SUFFICES Known(list, fits, i, f[i]) /\ (f[i].ambiguous # {} => Pair(list, fits, i))
    OBVIOUS
  <2>3. Known(list, fits, i, q) /\ (q.ambiguous # {} => Pair(list, fits, i))
    <3>1. \A j \in 1 .. i - 1 : j \in 1 .. i
      OBVIOUS
    <3> HIDE DEF q
    <3> QED  BY <2>2, <3>1 DEF Known, Pair
  <2>4. i \in 1 .. i
    OBVIOUS
  <2>5. m # NoMethod
    BY <2>1, MethodAssumption
  <2>6. CASE f[i] = q
    BY <2>3, <2>6
  <2>7. CASE /\ t >= Implicit /\ f[i].best = m /\ f[i].type = t
             /\ f[i].ambiguous \in {q.ambiguous, {}}
    <3>1. Known(list, fits, i, f[i])
      BY <2>4, <2>7 DEF Known
    <3> QED  BY <3>1, <2>3, <2>7
  <2>8. CASE /\ t >= Implicit /\ q.best # NoMethod /\ m \notin more[q.best]
             /\ f[i].best = q.best /\ f[i].type = q.type
    <3>1. Known(list, fits, i, f[i])
      BY <2>3, <2>8 DEF Known
    <3>2. PICK p \in 1 .. i - 1 : q.best = list[p] /\ fits[list[p]].type >= Implicit
      BY <2>2, <2>8 DEF Known
    <3>3. p \in 1 .. i /\ p < i
      OBVIOUS
    <3> HIDE DEF q
    <3>4. Pair(list, fits, i)
      BY <2>4, <2>8, <3>2, <3>3 DEF Pair
    <3> QED  BY <3>1, <3>4
  <2>9. \/ f[i] = q
        \/ /\ t >= Implicit /\ f[i].best = m /\ f[i].type = t
           /\ f[i].ambiguous \in {q.ambiguous, {}}
        \/ /\ t >= Implicit /\ q.best # NoMethod /\ m \notin more[q.best]
           /\ f[i].best = q.best /\ f[i].type = q.type
    <3> HIDE DEF q, m, t
    <3> QED  BY <2>1 DEF Consider, CompareFit, Switch, checkMoreSpecificThan, Found,
                         None, Exact, Implicit
  <2> QED  BY <2>6, <2>7, <2>8, <2>9
<1>4. Good \in SUBSET Nat
  OBVIOUS
<1>5. \A i \in 0 .. n : i \in Good
  <2> HIDE DEF Good
  <2> QED  BY <1>1, <1>2, <1>3, <1>4, UpTo
<1> QED  BY <1>1, <1>5

\* It was hidden by an overload that it is better than.
Excused(list, instance, fits, o) ==
  \E x \in 1 .. Len(list) : /\ fits[list[x]].type >= Implicit
                            /\ o \in more[list[x]]
                            /\ Prefers(instance, fits, o, list[x])

\* Why an overload lost to a later one.
Beaten(list, instance, fits, o, b) ==
  fits[o].type >= Implicit => \/ Excused(list, instance, fits, o)
                              \/ Prefers(instance, fits, b, o)
                              \/ fits[b].type = Exact /\ fits[o].type < Exact

\* Why an overload has not replaced the best one.
Behind(list, instance, fits, o, b) ==
  /\ fits[o].type < Exact
  /\ fits[o].type >= Implicit => \/ Excused(list, instance, fits, o)
                                 \/ ~Prefers(instance, fits, o, b)

\* After i turns the best is the list's p-th.
Leads(list, instance, fits, i, found, p) ==
  /\ found.best = list[p]
  /\ found.type = fits[list[p]].type
  /\ found.type >= Implicit
  /\ \A j \in 1 .. p - 1 : Beaten(list, instance, fits, list[j], list[p])
  /\ ~found.exact => \A j \in 1 .. i : Behind(list, instance, fits, list[j], list[p])

Winner(list, instance, fits, i, found) ==
  \/ /\ found.best = NoMethod
     /\ ~found.exact
     /\ \A j \in 1 .. i : fits[list[j]].type < Implicit
  \/ \E p \in 1 .. i : Leads(list, instance, fits, i, found, p)

\* Prefers compares two places, the way of calling and the fit.
LEMMA PrefersOrder ==
  ASSUME NEW instance \in BOOLEAN, NEW fits, NEW m \in Method, NEW o \in Method, NEW b \in Method,
         fits[m].type \in Nat, fits[o].type \in Nat, fits[b].type \in Nat,
         Prefers(instance, fits, m, b)
  PROVE  /\ ~Prefers(instance, fits, b, m)
         /\ ~Prefers(instance, fits, o, b) => Prefers(instance, fits, m, o)
BY DEF Prefers, Fits, isStatic

\* What a turn of the loop may do.
LEMMA TurnCases ==
  ASSUME NEW q \in Found, NEW m \in Method, NEW instance \in BOOLEAN, NEW fits,
         fits[m].type \in None .. Exact,
         q.best # NoMethod => q.type = fits[q.best].type
  PROVE  LET t == fits[m].type
             g == Consider(q, m, instance, t)
         IN \/ q.exact /\ g = q
            \/ ~q.exact /\ t = Exact /\ g.best = m /\ g.type = t /\ g.exact
            \/ ~q.exact /\ t < Implicit /\ g = q
            \/ /\ ~q.exact /\ t >= Implicit /\ t < Exact /\ ~g.exact
               /\ \/ q.best = NoMethod /\ g.best = m /\ g.type = t
                  \/ /\ q.best # NoMethod /\ g.best = q.best /\ g.type = q.type
                     /\ m \in more[q.best] \/ ~Prefers(instance, fits, m, q.best)
                  \/ /\ q.best # NoMethod /\ g.best = m /\ g.type = t
                     /\ Prefers(instance, fits, m, q.best)
<1> DEFINE t == fits[m].type
           g == Consider(q, m, instance, t)
<1>1. t \in Nat /\ t <= 4 /\ q.type \in Nat
  BY DEF Found, None, Exact
<1>2. CASE q.exact
  BY <1>2 DEF Consider
<1>4. CASE ~q.exact /\ t = Exact
  BY <1>4 DEF Consider, Switch, Found
<1>5. CASE ~q.exact /\ t # Exact /\ t < Implicit
  BY <1>5 DEF Consider
<1>6. CASE ~q.exact /\ t # Exact /\ ~(t < Implicit) /\ q.best = NoMethod
  <2>1. g = Switch(q, m, t) /\ t >= Implicit /\ t < Exact
    BY <1>1, <1>6 DEF Consider, Exact, Implicit
  <2>2. g.best = m /\ g.type = t /\ g.exact = q.exact
    BY <2>1 DEF Switch, Found
  <2> QED  BY <2>1, <2>2, <1>6
<1>3. CASE ~q.exact /\ t # Exact /\ ~(t < Implicit) /\ q.best # NoMethod
  <2> SUFFICES ~g.exact /\ \/ /\ g.best = q.best /\ g.type = q.type
                              /\ m \in more[q.best] \/ ~Prefers(instance, fits, m, q.best)
                           \/ /\ g.best = m /\ g.type = t
                              /\ Prefers(instance, fits, m, q.best)
    BY <1>1, <1>3 DEF Exact, Implicit
  <2>1. CASE m \in more[q.best]
    BY <2>1, <1>3 DEF Consider, checkMoreSpecificThan, Found
  <2>2. CASE m \notin more[q.best] /\ Fits(m, instance) # Fits(q.best, instance)
    <3>1. Fits(m, instance) \in BOOLEAN /\ Fits(q.best, instance) \in BOOLEAN
      BY DEF Fits
    <3> HIDE DEF t
    <3> QED  BY <2>2, <3>1, <1>3 DEF Consider, checkMoreSpecificThan, Switch, Found, Prefers
  <2>3. CASE m \notin more[q.best] /\ Fits(m, instance) = Fits(q.best, instance)
    <3>1. g = CompareFit(q, m, t)
      BY <2>3, <1>3 DEF Consider, checkMoreSpecificThan
    <3> QED  BY <3>1, <2>3, <1>1, <1>3 DEF CompareFit, Switch, Found, Prefers
  <2> QED  BY <2>1, <2>2, <2>3
<1> QED  BY <1>2, <1>3, <1>4, <1>5, <1>6

\* An overload that takes the lead has beaten those before it, and they are behind.
LEMMA TakesLead ==
  ASSUME NEW list, NEW fits, NEW instance \in BOOLEAN, NEW g, Judged(list, fits),
         NEW i \in 1 .. Len(list), fits[list[i]].type >= Implicit,
         g.best = list[i], g.type = fits[list[i]].type,
         \A j \in 1 .. i - 1 : /\ fits[list[j]].type < Exact
                               /\ fits[list[j]].type >= Implicit =>
                                    \/ Excused(list, instance, fits, list[j])
                                    \/ Prefers(instance, fits, list[i], list[j])
                                    \/ fits[list[i]].type = Exact,
         ~g.exact => fits[list[i]].type < Exact
  PROVE  Winner(list, instance, fits, i, g)
<1>1. list \in Seq(Method) /\ \A j \in 1 .. Len(list) : list[j] \in Method /\ fits[list[j]].type \in Nat
      /\ fits[list[j]].type \in None .. Exact
  BY DEF Judged, None, Exact
<1>2. \A j \in 1 .. i : j \in 1 .. Len(list) /\ (j \in 1 .. i - 1 \/ j = i)
  BY <1>1
<1>3. ASSUME NEW j \in 1 .. i - 1 PROVE Beaten(list, instance, fits, list[j], list[i])
  BY <1>3 DEF Beaten
<1>4. ASSUME ~g.exact, NEW j \in 1 .. i PROVE Behind(list, instance, fits, list[j], list[i])
  <2>1. CASE j = i
    <3>1. ~Prefers(instance, fits, list[i], list[i])
      BY <1>1 DEF Prefers
    <3> QED  BY <2>1, <3>1, <1>4 DEF Behind
  <2>2. CASE j \in 1 .. i - 1
    <3>1. Prefers(instance, fits, list[i], list[j]) => ~Prefers(instance, fits, list[j], list[i])
      BY <1>1, <1>2, PrefersOrder
    <3>2. fits[list[i]].type # Exact
      BY <1>1, <1>4 DEF Exact
    <3> QED  BY <2>2, <3>1, <3>2 DEF Behind
  <2> QED  BY <2>1, <2>2, <1>2
<1>5. Leads(list, instance, fits, i, g, i)
  BY <1>3, <1>4 DEF Leads
<1>6. i \in 1 .. i
  OBVIOUS
<1> QED  BY <1>5, <1>6 DEF Winner

\* One that does not leaves the lead where it was.
LEMMA KeepsLead ==
  ASSUME NEW list, NEW fits, NEW instance, NEW q, NEW g, NEW i \in 1 .. Len(list),
         NEW p \in 1 .. i - 1, Leads(list, instance, fits, i - 1, q, p),
         g.best = q.best, g.type = q.type, g.exact = q.exact,
         ~g.exact => Behind(list, instance, fits, list[i], list[p])
  PROVE  Winner(list, instance, fits, i, g)
<1>1. p \in 1 .. i /\ \A j \in 1 .. i : j \in 1 .. i - 1 \/ j = i
  OBVIOUS
<1>2. Leads(list, instance, fits, i, g, p)
  BY <1>1 DEF Leads
<1> QED  BY <1>1, <1>2 DEF Winner

\* The search ends with a winner.
LEMMA WinnerFound ==
  ASSUME NEW list, NEW fits, NEW instance \in BOOLEAN, NEW f, Judged(list, fits),
         Turns(f, list, instance, fits), NEW k \in 0 .. Len(list)
  PROVE  Winner(list, instance, fits, k, f[k])
<1> DEFINE n == Len(list)
           Good == {i \in Nat : i <= n => Winner(list, instance, fits, i, f[i])}
<1>1. n \in Nat /\ \A i \in 1 .. n : /\ list[i] \in Method /\ list[i] # NoMethod
                                     /\ fits[list[i]].type \in None .. Exact
                                     /\ fits[list[i]].type \in Nat
  <2>1. NoMethod \notin Method
    BY MethodAssumption
  <2> QED  BY <2>1 DEF Judged, None, Exact
<1>2. 0 \in Good
  BY DEF Turns, Start, Winner
<1>3. ASSUME NEW i \in 1 .. n, i - 1 \in Good PROVE i \in Good
  <2> DEFINE q == f[i - 1]
             m == list[i]
             t == fits[m].type
             g == f[i]
  <2>1. /\ q \in Found /\ g = Consider(q, m, instance, t)
        /\ t \in None .. Exact /\ t \in Nat /\ m \in Method
    BY <1>1 DEF Turns, Turn
  <2>2. Winner(list, instance, fits, i - 1, q)
    BY <1>1, <1>3
  <2> SUFFICES Winner(list, instance, fits, i, g)
    OBVIOUS
  <2>3. \A j \in 1 .. i - 1 : j \in 1 .. n
    BY <1>1
  <2>4. CASE q.best = NoMethod
    <3>1. ~q.exact /\ \A j \in 1 .. i - 1 : fits[list[j]].type < Implicit
      BY <2>2, <2>3, <2>4, <1>1 DEF Winner, Leads
    <3>2. \A j \in 1 .. i - 1 : ~(fits[list[j]].type >= Implicit) /\ fits[list[j]].type < Exact
      BY <3>1, <2>3, <1>1 DEF Implicit, Exact
    <3>3. \/ t = Exact /\ g.best = m /\ g.type = t /\ g.exact
          \/ t < Implicit /\ g = q
          \/ t >= Implicit /\ t < Exact /\ ~g.exact /\ g.best = m /\ g.type = t
      BY <2>1, <2>4, <3>1, TurnCases
    <3>4. CASE t < Implicit /\ g = q
      <4>1. \A j \in 1 .. i : j \in 1 .. i - 1 \/ j = i
        OBVIOUS
      <4> QED  BY <3>1, <3>4, <4>1, <2>4 DEF Winner
    <3>5. CASE t >= Implicit /\ g.best = m /\ g.type = t /\ (~g.exact => t < Exact)
      BY <3>2, <3>5, TakesLead
    <3>6. t = Exact => t >= Implicit
      BY DEF Exact, Implicit
    <3> QED  BY <3>3, <3>4, <3>5, <3>6
  <2>5. CASE q.best # NoMethod
    <3>1. PICK p \in 1 .. i - 1 : Leads(list, instance, fits, i - 1, q, p)
      BY <2>2, <2>5 DEF Winner
    <3>2. /\ q.best = list[p] /\ q.type = fits[q.best].type /\ p \in 1 .. n
          /\ ~q.exact => \A j \in 1 .. i - 1 : Behind(list, instance, fits, list[j], list[p])
      BY <3>1, <2>3 DEF Leads
    <3>3. \/ q.exact /\ g = q
          \/ ~q.exact /\ t = Exact /\ g.best = m /\ g.type = t /\ g.exact
          \/ ~q.exact /\ t < Implicit /\ g = q
          \/ /\ ~q.exact /\ t >= Implicit /\ t < Exact /\ ~g.exact
             /\ \/ /\ g.best = q.best /\ g.type = q.type
                   /\ m \in more[q.best] \/ ~Prefers(instance, fits, m, q.best)
                \/ /\ g.best = m /\ g.type = t
                   /\ Prefers(instance, fits, m, q.best)
      BY <2>1, <2>5, <3>2, TurnCases
    <3>4. CASE q.exact /\ g = q
      BY <3>1, <3>4, KeepsLead
    <3>5. CASE ~q.exact /\ t = Exact /\ g.best = m /\ g.type = t /\ g.exact
      <4>1. \A j \in 1 .. i - 1 : fits[list[j]].type < Exact
        BY <3>2, <3>5 DEF Behind
      <4>2. t >= Implicit
        BY <3>5 DEF Exact, Implicit
      <4> QED  BY <4>1, <4>2, <3>5, TakesLead
    <3>6. CASE ~q.exact /\ t < Implicit /\ g = q
      <4>1. Behind(list, instance, fits, list[i], list[p])
        BY <3>6, <2>1 DEF Behind, Implicit, Exact
      <4> QED  BY <4>1, <3>1, <3>6, KeepsLead
    <3>7. CASE /\ ~q.exact /\ t >= Implicit /\ t < Exact /\ ~g.exact
               /\ g.best = q.best /\ g.type = q.type
               /\ m \in more[q.best] \/ ~Prefers(instance, fits, m, q.best)
      <4>1. fits[list[p]].type >= Implicit
        BY <3>1, <3>2 DEF Leads
      <4>2. Excused(list, instance, fits, m) \/ ~Prefers(instance, fits, m, list[p])
        BY <4>1, <3>2, <3>7 DEF Excused
      <4>3. Behind(list, instance, fits, list[i], list[p])
        BY <4>2, <3>7 DEF Behind
      <4>4. g.exact = q.exact
        <5>1. g \in Found
          BY <1>1 DEF Turns
        <5> QED  BY <5>1, <2>1, <3>7 DEF Found
      <4> QED  BY <4>3, <4>4, <3>1, <3>7, KeepsLead
    <3>8. CASE /\ ~q.exact /\ t >= Implicit /\ t < Exact /\ ~g.exact
               /\ g.best = m /\ g.type = t
               /\ Prefers(instance, fits, m, q.best)
      <4>1. ASSUME NEW j \in 1 .. i - 1
            PROVE  /\ fits[list[j]].type < Exact
                   /\ fits[list[j]].type >= Implicit =>
                        \/ Excused(list, instance, fits, list[j])
                        \/ Prefers(instance, fits, m, list[j])
        <5>1. Behind(list, instance, fits, list[j], list[p])
          BY <3>2, <3>8
        <5>2. ~Prefers(instance, fits, list[j], list[p]) => Prefers(instance, fits, m, list[j])
          BY <3>2, <3>8, <2>1, <2>3, <1>1, PrefersOrder
        <5> QED  BY <5>1, <5>2 DEF Behind
      <4> QED  BY <4>1, <3>8, TakesLead
    <3> QED  BY <3>3, <3>4, <3>5, <3>6, <3>7, <3>8
  <2> QED  BY <2>4, <2>5
<1>4. Good \in SUBSET Nat
  OBVIOUS
<1>5. \A i \in 0 .. n : i \in Good
  <2> HIDE DEF Good
  <2> QED  BY <1>1, <1>2, <1>3, <1>4, UpTo
<1> QED  BY <1>1, <1>5

-------------------------------------------------------------------------------
\* The fit of an overload
LEMMA WorstType ==
  ASSUME NEW Q \in SUBSET (None .. Exact)
  PROVE  Worst(Q) \in None .. Exact
<1>1. {Exact} \cup Q \in SUBSET Nat /\ {Exact} \cup Q # {} /\ {Exact} \cup Q \subseteq None .. Exact
  BY DEF None, Exact
<1> DEFINE R == {Exact} \cup Q
<1>2. R \in SUBSET Nat /\ R # {} /\ R \subseteq None .. Exact /\ Worst(Q) = Min(R)
  BY <1>1 DEF Worst
<1> HIDE DEF R
<1> QED  BY <1>2, LeastIn

LEMMA TogetherType ==
  ASSUME NEW v \in None .. Exact, NEW w \in None .. Exact
  PROVE  Together(v, w) \in None .. Exact
<1> DEFINE R == {v, w}
<1>1. R \in SUBSET Nat /\ R # {} /\ R \subseteq None .. Exact /\ Together(v, w) \in {None, Min(R)}
  BY DEF Together, None, Exact
<1>2. None \in None .. Exact
  BY DEF None, Exact
<1> HIDE DEF R
<1> QED  BY <1>1, <1>2, LeastIn

LEMMA MethodFields ==
  ASSUME NEW m \in Method
  PROVE  /\ m.decl \in DOMAIN Super
         /\ m.kind \in {"static", "instance", "ctor"}
         /\ m.varargs \in BOOLEAN
         /\ m.params \in Seq(Type)
         /\ m.kind = "ctor" <=> m.name = "<init>"
         /\ m.varargs => Len(m.params) > 0 /\ Component[m.params[Len(m.params)]] \in Type
<1>1. m \in [decl : DOMAIN Super, kind : {"static", "instance", "ctor"},
             varargs : BOOLEAN, name : STRING, params : Seq(Type)]
  BY MethodAssumption
<1>2. /\ m.kind = "ctor" <=> m.name = "<init>"
      /\ m.varargs => m.params # <<>> /\ Component[m.params[Len(m.params)]] \in Type
  BY MethodAssumption
<1>3. m.params \in Seq(Type) /\ (m.params # <<>> => Len(m.params) > 0)
  BY <1>1
<1> QED  BY <1>1, <1>2, <1>3

LEMMA ParameterFacts ==
  ASSUME NEW m \in Method
  PROVE  LET types == ParameterTypes(m)
         IN /\ types \in Seq(Type)
            /\ m.kind = "instance" => Len(types) = Len(m.params) + 1
            /\ m.kind # "instance" => Len(types) = Len(m.params)
            /\ m.varargs => Len(types) > 0 /\ Component[types[Len(types)]] \in Type
<1>1. m.decl \in Type /\ m.params \in Seq(Type)
      /\ (m.varargs => Len(m.params) > 0 /\ Component[m.params[Len(m.params)]] \in Type)
  BY MethodFields DEF Type
<1>2. CASE m.kind = "instance"
  <2> DEFINE types == <<m.decl>> \o m.params
  <2>1. types \in Seq(Type) /\ Len(types) = Len(m.params) + 1
    BY <1>1
  <2>2. Len(m.params) > 0 => types[Len(types)] = m.params[Len(m.params)]
    BY <1>1
  <2>3. ParameterTypes(m) = types
    BY <1>2 DEF ParameterTypes
  <2> HIDE DEF types
  <2> QED  BY <2>1, <2>2, <2>3, <1>1, <1>2
<1>3. CASE m.kind # "instance"
  BY <1>1, <1>3 DEF ParameterTypes
<1> QED  BY <1>2, <1>3

\* The place of a direct match is among the arguments.
InRange(m, instance, args) ==
  ~(m.varargs /\ Offset(m, instance) = 1 /\ Len(ParameterTypes(m)) = 1 /\ Len(args) = 2)

LEMMA OffsetType == \A m, instance : Offset(m, instance) \in {0, 1}
BY DEF Offset

\* How well an argument fits the type that it is compared with.
LEMMA FixedType ==
  ASSUME NEW m \in Method, NEW instance, NEW args \in Seq(Passable), NEW n \in Nat,
         n <= Len(ParameterTypes(m)), n <= Len(args) - Offset(m, instance)
  PROVE  FixedMatch(m, instance, args, n) \in None .. Exact
<1> DEFINE types == ParameterTypes(m)
           off == Offset(m, instance)
           Q == {Quality(types[i], args[i + off]) : i \in 1 .. n}
<1>1. types \in Seq(Type) /\ off \in {0, 1}
  BY ParameterFacts, OffsetType
<1>2. Q \in SUBSET (None .. Exact)
  <2> SUFFICES ASSUME NEW i \in 1 .. n PROVE Quality(types[i], args[i + off]) \in None .. Exact
    OBVIOUS
  <2>1. types[i] \in Type /\ args[i + off] \in Passable
    <3> HIDE DEF types, off
    <3>1. i \in 1 .. Len(types) /\ i + off \in 1 .. Len(args)
      BY <1>1 DEF types, off
    <3> QED  BY <1>1, <3>1
  <2> QED  BY <2>1, QualityAssumption
<1>3. FixedMatch(m, instance, args, n) = Worst(Q)
  BY DEF FixedMatch
<1> HIDE DEF Q
<1> QED  BY <1>2, <1>3, WorstType

LEMMA VarsType ==
  ASSUME NEW m \in Method, m.varargs, NEW instance, NEW args \in Seq(Passable)
  PROVE  matchVars(m, instance, args) \in None .. Exact
<1> DEFINE types == ParameterTypes(m)
           cls == Component[types[Len(types)]]
           first == Len(types) + Offset(m, instance)
           Q == {Quality(cls, args[i]) : i \in first .. Len(args)}
<1>1. types \in Seq(Type) /\ Len(types) > 0 /\ cls \in Type /\ Offset(m, instance) \in {0, 1}
  BY ParameterFacts, OffsetType
<1>2. first \in Nat /\ first >= 1
  BY <1>1
<1>3. Q \in SUBSET (None .. Exact)
  <2> HIDE DEF cls, first
  <2> SUFFICES ASSUME NEW i \in first .. Len(args) PROVE Quality(cls, args[i]) \in None .. Exact
    OBVIOUS
  <2>1. args[i] \in Passable
    BY <1>2
  <2> QED  BY <2>1, <1>1, QualityAssumption
<1>4. matchVars(m, instance, args) = Worst(Q)
  BY DEF matchVars
<1> HIDE DEF Q
<1> QED  BY <1>3, <1>4, WorstType

LEMMA DirectType ==
  ASSUME NEW m \in Method, m.varargs, NEW instance, NEW args \in Seq(Passable),
         InRange(m, instance, args)
  PROVE  DirectMatch(m, instance, args) \in None .. Exact
<1> DEFINE types == ParameterTypes(m)
           tlen == Len(types)
           off == Offset(m, instance)
<1>1. types \in Seq(Type) /\ tlen > 0 /\ tlen \in Nat /\ off \in {0, 1} /\ types[tlen] \in Type
  BY ParameterFacts, OffsetType
<1>2. CASE Len(args) - off = tlen
  <2>1. tlen - off \in 1 .. Len(args)
    <3>1. ~(off = 1 /\ tlen = 1 /\ Len(args) = 2)
      BY DEF InRange
    <3>2. Len(args) \in Nat
      OBVIOUS
    <3> HIDE DEF tlen, off
    <3> QED  BY <3>1, <3>2, <1>1, <1>2
  <2>2. args[tlen - off] \in Passable
    BY <2>1
  <2>3. Quality(types[tlen], args[tlen - off]) \in None .. Exact
    BY <1>1, <2>2, QualityAssumption
  <2> QED  BY <2>3, <1>2 DEF DirectMatch
<1>3. CASE Len(args) - off # tlen
  BY <1>3 DEF DirectMatch, None, Exact
<1> QED  BY <1>2, <1>3

\* matches answers with a JPMatch::Type.
LEMMA MatchType ==
  ASSUME NEW m \in Method, NEW instance, NEW args \in Seq(Passable), InRange(m, instance, args)
  PROVE  matches(m, instance, args).type \in None .. Exact
<1> DEFINE types == ParameterTypes(m)
           tlen == Len(types)
           off == Offset(m, instance)
           direct == DirectMatch(m, instance, args)
<1>1. tlen \in Nat /\ off \in {0, 1} /\ Len(args) \in Nat /\ (m.varargs => tlen > 0)
      /\ m.varargs \in BOOLEAN
  BY ParameterFacts, OffsetType, MethodFields
<1>2. None \in None .. Exact /\ Exact \in None .. Exact
  BY DEF None, Exact
<1>3. CASE m.varargs
  <2>1. direct \in None .. Exact
    BY <1>3, DirectType
  <2> HIDE DEF direct
  <2>2. VarMatch(m, instance, args, direct) \in None .. Exact
    BY <2>1, <1>2, <1>3, VarsType DEF VarMatch
  <2>3. CASE Len(args) - off < tlen - 1
    BY <2>3, <1>2, <1>3 DEF matches, matchesVariable, direct
  <2>4. CASE ~(Len(args) - off < tlen - 1)
    <3>1. FixedMatch(m, instance, args, tlen - 1) \in None .. Exact
      BY <2>4, <1>1, <1>3, FixedType
    <3>2. Together(VarMatch(m, instance, args, direct), FixedMatch(m, instance, args, tlen - 1))
            \in None .. Exact
      BY <2>2, <3>1, TogetherType
    <3> QED  BY <3>2, <2>4, <1>3 DEF matches, matchesVariable, direct
  <2> QED  BY <2>3, <2>4
<1>4. CASE ~m.varargs /\ Len(args) - off # tlen
  BY <1>4, <1>2 DEF matches
<1>5. CASE ~m.varargs /\ Len(args) - off = tlen
  <2>1. FixedMatch(m, instance, args, tlen) \in None .. Exact
    BY <1>5, <1>1, FixedType
  <2> QED  BY <2>1, <1>5 DEF matches
<1> QED  BY <1>3, <1>4, <1>5

\* What a match says of the number of arguments.
LEMMA MatchCounts ==
  ASSUME NEW m \in Method, NEW instance, NEW args \in Seq(Passable), InRange(m, instance, args),
         matches(m, instance, args).type >= Implicit
  PROVE  LET tlen == Len(ParameterTypes(m))
             given == Len(args) - Offset(m, instance)
             indirect == matches(m, instance, args).indirect
         IN /\ indirect => m.varargs /\ given >= tlen - 1
            /\ ~indirect => given = tlen
            /\ indirect \in BOOLEAN
<1> DEFINE types == ParameterTypes(m)
           tlen == Len(types)
           off == Offset(m, instance)
           direct == DirectMatch(m, instance, args)
<1>1. ~(None >= Implicit) /\ m.varargs \in BOOLEAN /\ Len(args) - off \in Int /\ tlen \in Nat
  BY ParameterFacts, OffsetType, MethodFields DEF None, Implicit
<1>2. CASE m.varargs
  <2>1. ~(Len(args) - off < tlen - 1)
    BY <1>1, <1>2 DEF matches, matchesVariable
  <2>2. direct \in None .. Exact
    BY <1>2, DirectType
  <2>3. direct >= Implicit => Len(args) - off = tlen
    BY <1>1 DEF DirectMatch
  <2>4. matches(m, instance, args).indirect = (direct < Implicit)
    BY <1>2 DEF matches, matchesVariable
  <2>5. direct \in Nat
    BY <2>2 DEF None, Exact
  <2> DEFINE indirect == matches(m, instance, args).indirect
  <2>6. indirect \in BOOLEAN /\ (indirect <=> direct < Implicit)
    <3> DEFINE less == direct < Implicit
    <3>1. indirect = less /\ less \in BOOLEAN
      BY <2>4
    <3> HIDE DEF less, indirect
    <3>2. indirect \in BOOLEAN /\ (indirect <=> less)
      BY <3>1, Zenon
    <3> QED  BY <3>2 DEF less
  <2>7. /\ indirect => Len(args) - off >= tlen - 1
        /\ ~indirect => Len(args) - off = tlen
    <3> HIDE DEF direct, tlen, off, indirect
    <3> QED  BY <2>1, <2>3, <2>5, <2>6, <1>1 DEF Implicit
  <2> QED  BY <2>6, <2>7, <1>2
<1>3. CASE ~m.varargs
  <2>1. matches(m, instance, args).indirect = FALSE
    BY <1>3 DEF matches
  <2>2. Len(args) - off = tlen
    BY <1>1, <1>3 DEF matches
  <2> QED  BY <2>1, <2>2
<1> QED  BY <1>1, <1>2, <1>3

\* Arguments that fit every type as well as others match as well.
Alike(args, other) ==
  /\ Len(args) = Len(other)
  /\ \A i \in 1 .. Len(args), t \in Type : Quality(t, args[i]) = Quality(t, other[i])

LEMMA MatchAlike ==
  ASSUME NEW m \in Method, NEW instance, NEW args \in Seq(Passable), NEW other \in Seq(Passable),
         InRange(m, instance, args), Alike(args, other)
  PROVE  matches(m, instance, args) = matches(m, instance, other)
<1> DEFINE types == ParameterTypes(m)
           tlen == Len(types)
           off == Offset(m, instance)
<1>1. /\ types \in Seq(Type) /\ tlen \in Nat /\ off \in {0, 1} /\ m.varargs \in BOOLEAN
      /\ m.varargs => tlen > 0 /\ Component[types[tlen]] \in Type
      /\ Len(args) \in Nat /\ Len(other) = Len(args)
  BY ParameterFacts, OffsetType, MethodFields DEF Alike
<1>2. \A n \in Nat : n <= tlen /\ n <= Len(args) - off =>
        FixedMatch(m, instance, args, n) = FixedMatch(m, instance, other, n)
  <2> SUFFICES ASSUME NEW n \in Nat, n <= tlen, n <= Len(args) - off
               PROVE  FixedMatch(m, instance, args, n) = FixedMatch(m, instance, other, n)
    OBVIOUS
  <2>1. ASSUME NEW i \in 1 .. n
        PROVE  Quality(types[i], args[i + off]) = Quality(types[i], other[i + off])
    <3>1. i + off \in 1 .. Len(args) /\ types[i] \in Type
      <4> HIDE DEF types, off
      <4> QED  BY <1>1 DEF types, off
    <3> QED  BY <3>1 DEF Alike
  <2>2. {Quality(types[i], args[i + off]) : i \in 1 .. n}
          = {Quality(types[i], other[i + off]) : i \in 1 .. n}
    BY <2>1
  <2> QED  BY <2>2 DEF FixedMatch
<1>3. m.varargs => matchVars(m, instance, args) = matchVars(m, instance, other)
  <2> SUFFICES ASSUME m.varargs
               PROVE  matchVars(m, instance, args) = matchVars(m, instance, other)
    OBVIOUS
  <2> DEFINE cls == Component[types[tlen]]
  <2>1. ASSUME NEW i \in tlen + off .. Len(args)
        PROVE  Quality(cls, args[i]) = Quality(cls, other[i])
    <3>1. i \in 1 .. Len(args)
      <4> HIDE DEF tlen, off
      <4> QED  BY <1>1
    <3> QED  BY <3>1, <1>1 DEF Alike
  <2>2. {Quality(cls, args[i]) : i \in tlen + off .. Len(args)}
          = {Quality(cls, other[i]) : i \in tlen + off .. Len(other)}
    BY <1>1, <2>1
  <2> QED  BY <2>2 DEF matchVars
<1>4. m.varargs => DirectMatch(m, instance, args) = DirectMatch(m, instance, other)
  <2> SUFFICES ASSUME m.varargs, Len(args) - off = tlen
               PROVE  Quality(types[tlen], args[tlen - off]) = Quality(types[tlen], other[tlen - off])
    BY <1>1 DEF DirectMatch
  <2>1. tlen - off \in 1 .. Len(args) /\ types[tlen] \in Type
    <3>1. ~(off = 1 /\ tlen = 1 /\ Len(args) = 2)
      BY DEF InRange
    <3>2. types[tlen] \in Type
      BY <1>1
    <3> HIDE DEF tlen, off
    <3> QED  BY <3>1, <3>2, <1>1
  <2> QED  BY <2>1 DEF Alike
<1>5. CASE m.varargs
  <2>1. \A v : VarMatch(m, instance, args, v) = VarMatch(m, instance, other, v)
    BY <1>1, <1>3, <1>5 DEF VarMatch
  <2>2. ~(Len(args) - off < tlen - 1) =>
          FixedMatch(m, instance, args, tlen - 1) = FixedMatch(m, instance, other, tlen - 1)
    <3>1. tlen - 1 \in Nat /\ tlen - 1 <= tlen
      BY <1>1, <1>5
    <3>2. ~(Len(args) - off < tlen - 1) => tlen - 1 <= Len(args) - off
      BY <1>1
    <3> QED  BY <3>1, <3>2, <1>2
  <2>3. \A v : matchesVariable(m, instance, args, v) = matchesVariable(m, instance, other, v)
    BY <1>1, <2>1, <2>2 DEF matchesVariable
  <2> QED  BY <1>4, <1>5, <2>3 DEF matches
<1>6. CASE ~m.varargs
  <2>1. Len(args) - off = tlen =>
          FixedMatch(m, instance, args, tlen) = FixedMatch(m, instance, other, tlen)
    BY <1>1, <1>2
  <2> QED  BY <1>1, <1>6, <2>1 DEF matches
<1> QED  BY <1>1, <1>5, <1>6

-------------------------------------------------------------------------------
\* The building of dispatches
BuildOK ==
  /\ order \in Orders /\ order \in Seq(Method) /\ Once(order)
  /\ todo \in Seq(Range(Dispatches))
  /\ at \in {"idle", "sort", "create"}
  /\ at # "idle" => todo # <<>>
  /\ pos \in Nat
  /\ at # "create" => pos = 0
  /\ at = "create" => pos <= Len(out) /\ unsorted = <<>>

\* What a dispatch is made of.
CandidateSet(d) ==
  {m \in filterOverridden(d[1]) : m.name = d[2] /\ (m.kind = "ctor" => m.decl = d[1])}

SortsCandidates == at # "idle" => Range(methods) = CandidateSet(Head(todo))

\* A precedence list holds every less specific overload of its class, and only
\* less specific ones.
Precedes(m) ==
  /\ \A o \in Range(order) : o.decl = m.decl /\ o.name = m.name /\ Strict(m, o) => o \in more[m]
  /\ \A o \in Method : o \in more[m] => Strict(m, o)

MoreOK ==
  /\ DOMAIN more \subseteq Range(order)
  /\ at = "create" => \A i \in 1 .. pos : out[i] \in DOMAIN more
  /\ \A m \in DOMAIN more : Precedes(m)

\* The list of a dispatch, the most specific first.
Listed(d, list) ==
  /\ d \in Range(Dispatches)
  /\ list \in Seq(Method) /\ Once(list)
  /\ Range(list) \subseteq DOMAIN more
  /\ \A i \in 1 .. Len(list) : list[i].name = d[2]
  /\ \A i, j \in 1 .. Len(list) : Strict(list[i], list[j]) => i < j

OverloadsOK == \A d \in DOMAIN overloads : Listed(d, overloads[d])

BuildInv == BuildOK /\ IInv /\ SortsCandidates /\ MoreOK /\ OverloadsOK

LEMMA BuildStarts == Init => BuildInv
<1> SUFFICES ASSUME Init PROVE BuildInv
  OBVIOUS
<1>1. order \in Seq(Method) /\ Once(order)
  BY OrdersAssumption DEF Init, Once, IsInjective
<1>2. Dispatches \in Seq(Range(Dispatches))
  BY DispatchesAssumption DEF Range
<1>3. BuildOK
  BY <1>1, <1>2 DEF BuildOK, Init
<1>4. Range(<<>>) = {} /\ DOMAIN <<>> = {} /\ <<>> \in Seq(Method)
  BY DEF Range
<1>5. IInv
  BY <1>4 DEF Init, IInv, SortTypeOK, Split, Placed, Once
<1>6. SortsCandidates /\ MoreOK /\ OverloadsOK
  BY <1>4 DEF Init, SortsCandidates, MoreOK, OverloadsOK
<1> QED  BY <1>3, <1>5, <1>6 DEF BuildInv

LEMMA CandidatesListed ==
  ASSUME BuildOK, NEW d
  PROVE  /\ candidates(d) \in Seq(Method)
         /\ Once(candidates(d))
         /\ Range(candidates(d)) = CandidateSet(d)
<1>1. CandidateSet(d) \subseteq Range(order)
  BY DEF CandidateSet, filterOverridden
<1>2. candidates(d) = Keep(order, CandidateSet(d))
  BY DEF candidates, CandidateSet
<1> HIDE DEF CandidateSet
<1>3. /\ Keep(order, CandidateSet(d)) \in Seq(Method)
      /\ Once(Keep(order, CandidateSet(d)))
      /\ Range(Keep(order, CandidateSet(d))) = Range(order) \cap CandidateSet(d)
  BY KeepFilters DEF BuildOK
<1> QED  BY <1>1, <1>2, <1>3

\* Taking up the next dispatch.
LEMMA BuildNext == BuildInv /\ createMethodDispatch => BuildInv'
<1> SUFFICES ASSUME BuildInv, createMethodDispatch PROVE BuildInv'
  OBVIOUS
<1>1. /\ BuildOK /\ at = "idle" /\ todo # <<>>
      /\ order' = order /\ pos' = pos /\ more' = more /\ overloads' = overloads
  BY DEF BuildInv, createMethodDispatch
<1>2. Tail(todo) \in Seq(Range(Dispatches))
  BY <1>1 DEF BuildOK
<1>3. OverloadsOK'
  BY <1>1, Zenon DEF BuildInv, OverloadsOK, Listed, Strict, Once
<1>4. \A m \in DOMAIN more : Precedes(m)'
  BY <1>1, Zenon DEF BuildInv, MoreOK, Precedes, Strict
<1>5. CASE todo' = Tail(todo) /\ UNCHANGED <<sortVars, at>>
  <2>1. BuildOK'
    BY <1>1, <1>2, <1>5 DEF BuildOK
  <2>2. IInv'
    BY <1>5, StayIInv DEF BuildInv
  <2>3. SortsCandidates'
    BY <1>1, <1>5 DEF SortsCandidates
  <2>4. MoreOK'
    BY <1>1, <1>4, <1>5 DEF BuildInv, MoreOK
  <2> QED  BY <1>3, <2>1, <2>2, <2>3, <2>4 DEF BuildInv
<1>6. CASE sortMethods(candidates(Head(todo))) /\ at' = "sort" /\ UNCHANGED todo
  <2> DEFINE list == candidates(Head(todo))
  <2>1. /\ list \in Seq(Method) /\ Once(list) /\ Range(list) = CandidateSet(Head(todo))
    BY <1>1, CandidatesListed
  <2>2. /\ methods' = list /\ unsorted' = list /\ out' = <<>> /\ at' = "sort" /\ todo' = todo
    BY <1>6 DEF sortMethods
  <2> HIDE DEF list
  <2>3. BuildOK'
    BY <1>1, <2>2 DEF BuildOK
  <2>4. Range(<<>>) = {} /\ DOMAIN <<>> = {} /\ <<>> \in Seq(Method)
    BY DEF Range
  <2>5. IInv'
    BY <2>1, <2>2, <2>4 DEF IInv, SortTypeOK, Split, Placed, Once
  <2>6. CandidateSet(Head(todo))' = CandidateSet(Head(todo))
    BY <1>1, <2>2 DEF CandidateSet, filterOverridden, isOverridden
  <2>7. SortsCandidates'
    BY <2>1, <2>2, <2>6 DEF SortsCandidates
  <2>8. MoreOK'
    BY <1>1, <1>4, <2>2 DEF BuildInv, MoreOK
  <2> QED  BY <1>3, <2>3, <2>5, <2>7, <2>8 DEF BuildInv
<1> QED  BY <1>5, <1>6 DEF createMethodDispatch

\* Sorting its candidates.
LEMMA BuildSort == BuildInv /\ Sort => BuildInv'
<1> SUFFICES ASSUME BuildInv, Sort PROVE BuildInv'
  OBVIOUS
<1>1. /\ at = "sort" /\ SortStep /\ order' = order /\ todo' = todo /\ at' = at
      /\ pos' = pos /\ more' = more /\ overloads' = overloads /\ methods' = methods
  BY DEF Sort, buildVars, SortStep, SortTake, SortDefer
<1>2. BuildOK'
  BY <1>1 DEF BuildInv, BuildOK
<1>3. IInv'
  BY <1>1, TakeIInv, DeferIInv DEF BuildInv, SortStep
<1>4. SortsCandidates'
  <2>1. CandidateSet(Head(todo))' = CandidateSet(Head(todo))
    BY <1>1 DEF CandidateSet, filterOverridden, isOverridden
  <2> QED  BY <1>1, <2>1 DEF BuildInv, SortsCandidates
<1>5. MoreOK'
  BY <1>1, Zenon DEF BuildInv, MoreOK, Precedes, Strict
<1>6. OverloadsOK'
  BY <1>1, Zenon DEF BuildInv, OverloadsOK, Listed, Strict, Once
<1> QED  BY <1>2, <1>3, <1>4, <1>5, <1>6 DEF BuildInv

LEMMA BuildSorted == BuildInv /\ SortDone => BuildInv'
<1> SUFFICES ASSUME BuildInv, SortDone PROVE BuildInv'
  OBVIOUS
<1>1. /\ at = "sort" /\ unsorted = <<>> /\ at' = "create" /\ methods' = methods
      /\ unsorted' = unsorted /\ out' = out /\ order' = order /\ todo' = todo
      /\ pos' = pos /\ more' = more /\ overloads' = overloads
  BY DEF SortDone, sortVars
<1>2. out \in Seq(Method) /\ pos = 0
  BY <1>1 DEF BuildInv, IInv, SortTypeOK, BuildOK
<1>3. BuildOK'
  BY <1>1, <1>2 DEF BuildInv, BuildOK
<1>4. IInv'
  BY <1>1, StayIInv DEF BuildInv, sortVars
<1>5. SortsCandidates'
  <2>1. CandidateSet(Head(todo))' = CandidateSet(Head(todo))
    BY <1>1 DEF CandidateSet, filterOverridden, isOverridden
  <2> QED  BY <1>1, <2>1 DEF BuildInv, SortsCandidates
<1>6. MoreOK'
  <2>1. \A m \in DOMAIN more : Precedes(m)'
    BY <1>1, Zenon DEF BuildInv, MoreOK, Precedes, Strict
  <2> QED  BY <1>1, <1>2, <2>1 DEF BuildInv, MoreOK
<1>7. OverloadsOK'
  BY <1>1, Zenon DEF BuildInv, OverloadsOK, Listed, Strict, Once
<1> QED  BY <1>3, <1>4, <1>5, <1>6, <1>7 DEF BuildInv

\* An inherited method has its precedence list.
LEMMA BuildInherit == BuildInv /\ UseInherited => BuildInv'
<1> SUFFICES ASSUME BuildInv, UseInherited PROVE BuildInv'
  OBVIOUS
<1>1. /\ at = "create" /\ pos < Len(out) /\ out[pos + 1] \in DOMAIN more /\ pos' = pos + 1
      /\ at' = at /\ methods' = methods /\ unsorted' = unsorted /\ out' = out
      /\ order' = order /\ todo' = todo /\ more' = more /\ overloads' = overloads
  BY DEF UseInherited, sortVars
<1>2. out \in Seq(Method) /\ pos \in Nat
  BY DEF BuildInv, IInv, SortTypeOK, BuildOK
<1>3. BuildOK'
  BY <1>1, <1>2 DEF BuildInv, BuildOK
<1>4. IInv'
  BY <1>1, StayIInv DEF BuildInv, sortVars
<1>5. SortsCandidates'
  <2>1. CandidateSet(Head(todo))' = CandidateSet(Head(todo))
    BY <1>1 DEF CandidateSet, filterOverridden, isOverridden
  <2> QED  BY <1>1, <2>1 DEF BuildInv, SortsCandidates
<1>6. MoreOK'
  <2>1. \A m \in DOMAIN more : Precedes(m)'
    BY <1>1, Zenon DEF BuildInv, MoreOK, Precedes, Strict
  <2>2. \A i \in 1 .. pos + 1 : i \in 1 .. pos \/ i = pos + 1
    BY <1>2
  <2>3. \A i \in 1 .. pos + 1 : out[i] \in DOMAIN more
    BY <1>1, <2>2 DEF BuildInv, MoreOK
  <2> QED  BY <1>1, <2>1, <2>3 DEF BuildInv, MoreOK
<1>7. OverloadsOK'
  BY <1>1, Zenon DEF BuildInv, OverloadsOK, Listed, Strict, Once
<1> QED  BY <1>3, <1>4, <1>5, <1>6, <1>7 DEF BuildInv

\* A new one gets it: what it must come after is already defined.
LEMMA BuildDefine == BuildInv /\ DefineMethod => BuildInv'
<1> SUFFICES ASSUME BuildInv, DefineMethod PROVE BuildInv'
  OBVIOUS
<1> DEFINE m == out[pos + 1]
           ptr == [o \in children(m) |-> IF o \in DOMAIN more THEN o ELSE NoMethod]
           d == Head(todo)
<1>1. /\ at = "create" /\ pos < Len(out) /\ m.decl = d[1] /\ pos' = pos + 1
      /\ more' = [o \in DOMAIN more \cup {m} |-> IF o = m THEN Range(ptr) ELSE more[o]]
      /\ at' = at /\ methods' = methods /\ unsorted' = unsorted /\ out' = out
      /\ order' = order /\ todo' = todo /\ overloads' = overloads
  BY DEF DefineMethod, sortVars
<1>2. /\ out \in Seq(Method) /\ pos \in Nat /\ unsorted = <<>> /\ Range(methods) = CandidateSet(d)
      /\ Split /\ Placed /\ todo # <<>> /\ d \in Range(Dispatches)
      /\ order \in Seq(Method) /\ methods \in Seq(Method)
  BY <1>1 DEF BuildInv, IInv, SortTypeOK, BuildOK, SortsCandidates
<1>3. /\ pos + 1 \in DOMAIN out /\ m \in Method /\ m \in Range(out)
  BY <1>1, <1>2 DEF Range
<1>4. m \in Range(methods) /\ m \in CandidateSet(d) /\ m \in Range(order) /\ m.name = d[2]
  BY <1>2, <1>3 DEF Split, CandidateSet, filterOverridden
<1>5. children(m) \subseteq DOMAIN more
  <2> SUFFICES ASSUME NEW o \in children(m) PROVE o \in DOMAIN more
    OBVIOUS
  <2>1. o \in Range(methods) /\ o # m /\ Strict(m, o)
    BY DEF children, Strict
  <2>2. PICK j \in 1 .. (pos + 1) - 1 : out[j] = o
    BY <2>1, <1>2, <1>3 DEF Placed
  <2>3. j \in 1 .. pos
    BY <1>2
  <2> QED  BY <1>1, <2>2, <2>3 DEF BuildInv, MoreOK
<1>6. Range(ptr) = children(m)
  BY <1>5 DEF Range
<1>7. DOMAIN more' = DOMAIN more \cup {m} /\ more'[m] = children(m)
      /\ \A o \in DOMAIN more : o # m => more'[o] = more[o]
  BY <1>1, <1>6
<1> HIDE DEF m, ptr, d
<1>8. \A o \in Range(order) : o.decl = m.decl /\ o.name = m.name /\ Strict(m, o) => o \in children(m)
  <2> SUFFICES ASSUME NEW o \in Range(order), o.decl = m.decl, o.name = m.name, Strict(m, o)
               PROVE  o \in children(m)
    OBVIOUS
  <2>1. o \in Method /\ o # m
    BY <1>2 DEF Range, Strict
  <2>2. o.decl \in Super[d[1]] /\ ~isOverridden(d[1], o)
    <3>1. o.decl = d[1] /\ o.decl \in DOMAIN Super
      BY <1>1, <2>1, MethodFields
    <3> QED  BY <3>1, MethodAssumption DEF isOverridden
  <2>3. o \in CandidateSet(d)
    BY <1>1, <1>4, <2>2 DEF CandidateSet, filterOverridden
  <2> QED  BY <1>2, <2>1, <2>3 DEF children, Strict
<1>9. ASSUME NEW x, x = m PROVE Precedes(x)'
  <2>2. \A o \in Method : o \in children(m) => Strict(m, o)
    BY DEF children, Strict
  <2>3. \A o \in Range(order) : o.decl = m.decl /\ o.name = m.name /\ Strict(m, o) => o \in more'[m]
    BY <1>7, <1>8
  <2>4. \A o \in Method : o \in more'[m] => Strict(m, o)
    BY <1>7, <2>2
  <2> QED  BY <1>1, <1>9, <2>3, <2>4, Zenon DEF Precedes, Strict
<1>10. ASSUME NEW o \in DOMAIN more, o # m PROVE Precedes(o)'
  <2>1. more'[o] = more[o] /\ Precedes(o)
    BY <1>7, <1>10 DEF BuildInv, MoreOK
  <2> QED  BY <1>1, <2>1, Zenon DEF Precedes, Strict
<1>11. MoreOK'
  <2>1. DOMAIN more' \subseteq Range(order')
    BY <1>1, <1>4, <1>7 DEF BuildInv, MoreOK
  <2>2. \A i \in 1 .. pos + 1 : out[i] \in DOMAIN more'
    <3>1. \A i \in 1 .. pos + 1 : i \in 1 .. pos \/ i = pos + 1
      BY <1>2
    <3> QED  BY <1>1, <1>7, <3>1 DEF BuildInv, MoreOK, m
  <2>3. \A o \in DOMAIN more' : Precedes(o)'
    BY <1>7, <1>9, <1>10
  <2> QED  BY <1>1, <2>1, <2>2, <2>3 DEF MoreOK
<1>12. BuildOK'
  BY <1>1, <1>2 DEF BuildInv, BuildOK
<1>13. IInv'
  BY <1>1, StayIInv DEF BuildInv, sortVars
<1>14. SortsCandidates'
  <2>1. CandidateSet(Head(todo))' = CandidateSet(Head(todo))
    BY <1>1 DEF CandidateSet, filterOverridden, isOverridden
  <2> QED  BY <1>1, <2>1 DEF BuildInv, SortsCandidates
<1>15. OverloadsOK'
  <2>1. \A e \in DOMAIN overloads : Range(overloads[e]) \subseteq DOMAIN more'
    BY <1>7 DEF BuildInv, OverloadsOK, Listed
  <2> QED  BY <1>1, <2>1, Zenon DEF BuildInv, OverloadsOK, Listed, Strict, Once
<1> QED  BY <1>11, <1>12, <1>13, <1>14, <1>15 DEF BuildInv

LEMMA ReverseFacts ==
  ASSUME NEW S, NEW s \in Seq(S)
  PROVE  /\ Reverse(s) \in Seq(S)
         /\ Len(Reverse(s)) = Len(s)
         /\ \A i \in 1 .. Len(s) : /\ Len(s) - i + 1 \in 1 .. Len(s)
                                   /\ Reverse(s)[i] = s[Len(s) - i + 1]
BY DEF Reverse

\* The dispatch gets the sorted list in reverse.
LEMMA BuildDispatch == BuildInv /\ defineMethodDispatch => BuildInv'
<1> SUFFICES ASSUME BuildInv, defineMethodDispatch PROVE BuildInv'
  OBVIOUS
<1> DEFINE d == Head(todo)
           list == Reverse(out)
           n == Len(out)
<1>1. /\ at = "create" /\ pos = n /\ todo' = Tail(todo) /\ at' = "idle" /\ pos' = 0
      /\ overloads' = [e \in DOMAIN overloads \cup {d} |-> IF e = d THEN list ELSE overloads[e]]
      /\ methods' = methods /\ unsorted' = unsorted /\ out' = out
      /\ order' = order /\ more' = more
  BY DEF defineMethodDispatch, sortVars
<1>2. /\ out \in Seq(Method) /\ unsorted = <<>> /\ Range(methods) = CandidateSet(d)
      /\ Split /\ todo # <<>> /\ todo \in Seq(Range(Dispatches)) /\ SortedOut /\ Once(out)
      /\ \A i \in 1 .. n : out[i] \in DOMAIN more
  BY <1>1, Topological DEF BuildInv, IInv, SortTypeOK, BuildOK, SortsCandidates, MoreOK, Split
<1>3. d \in Range(Dispatches) /\ Tail(todo) \in Seq(Range(Dispatches))
  BY <1>2
<1>4. n \in Nat /\ DOMAIN out = 1 .. n
  BY <1>2
<1>5. /\ list \in Seq(Method) /\ Len(list) = n /\ DOMAIN list = 1 .. n
      /\ \A i \in 1 .. n : n - i + 1 \in 1 .. n /\ list[i] = out[n - i + 1]
  BY <1>2, ReverseFacts
<1>6. \A i \in 1 .. n : out[i].name = d[2]
  <2> SUFFICES ASSUME NEW i \in 1 .. n PROVE out[i].name = d[2]
    OBVIOUS
  <2>1. out[i] \in Range(methods)
    BY <1>2, <1>4 DEF Split, Range
  <2> QED  BY <1>2, <2>1 DEF CandidateSet
<1> HIDE DEF list, n, d
<1>7. Once(list)
  BY <1>2, <1>4, <1>5 DEF Once
<1>8. \A i, j \in 1 .. n : Strict(list[i], list[j]) => i < j
  <2> SUFFICES ASSUME NEW i \in 1 .. n, NEW j \in 1 .. n, Strict(list[i], list[j])
               PROVE  i < j
    OBVIOUS
  <2>1. n - j + 1 < n - i + 1
    BY <1>2, <1>4, <1>5 DEF SortedOut, Strict
  <2> QED  BY <1>4, <2>1
<1>9. Range(list) \subseteq DOMAIN more
  BY <1>2, <1>5 DEF Range
<1>10. Listed(d, list)
  BY <1>3, <1>5, <1>6, <1>7, <1>8, <1>9 DEF Listed
<1>11. OverloadsOK'
  <2> SUFFICES ASSUME NEW e \in DOMAIN overloads' PROVE Listed(e, overloads[e])'
    BY DEF OverloadsOK
  <2>1. Listed(e, overloads'[e])
    BY <1>1, <1>10 DEF BuildInv, OverloadsOK
  <2> QED  BY <1>1, <2>1, Zenon DEF Listed, Strict, Once
<1>12. BuildOK'
  BY <1>1, <1>3 DEF BuildInv, BuildOK
<1>13. IInv'
  BY <1>1, StayIInv DEF BuildInv, sortVars
<1>14. SortsCandidates'
  BY <1>1 DEF SortsCandidates
<1>15. MoreOK'
  <2>1. \A m \in DOMAIN more : Precedes(m)'
    BY <1>1, Zenon DEF BuildInv, MoreOK, Precedes, Strict
  <2> QED  BY <1>1, <2>1 DEF BuildInv, MoreOK
<1> QED  BY <1>11, <1>12, <1>13, <1>14, <1>15 DEF BuildInv

\* A step that leaves the building alone.
LEMMA BuildStays == BuildInv /\ UNCHANGED <<sortVars, buildVars>> => BuildInv'
<1> SUFFICES ASSUME BuildInv, UNCHANGED <<sortVars, buildVars>> PROVE BuildInv'
  OBVIOUS
<1>1. /\ methods' = methods /\ unsorted' = unsorted /\ out' = out /\ order' = order
      /\ todo' = todo /\ at' = at /\ pos' = pos /\ more' = more /\ overloads' = overloads
  BY DEF sortVars, buildVars
<1>2. BuildOK'
  BY <1>1 DEF BuildInv, BuildOK, Once
<1>3. IInv'
  BY <1>1, StayIInv DEF BuildInv, sortVars
<1>4. SortsCandidates'
  <2>1. CandidateSet(Head(todo))' = CandidateSet(Head(todo))
    BY <1>1 DEF CandidateSet, filterOverridden, isOverridden
  <2> QED  BY <1>1, <2>1 DEF BuildInv, SortsCandidates
<1>5. MoreOK'
  BY <1>1, Zenon DEF BuildInv, MoreOK, Precedes, Strict
<1>6. OverloadsOK'
  BY <1>1, Zenon DEF BuildInv, OverloadsOK, Listed, Strict, Once
<1> QED  BY <1>2, <1>3, <1>4, <1>5, <1>6 DEF BuildInv

LEMMA BuildInductive == Spec => []BuildInv
<1>1. BuildInv /\ [Next]_vars => BuildInv'
  <2> SUFFICES ASSUME BuildInv, [Next]_vars PROVE BuildInv'
    OBVIOUS
  <2>1. CASE \E d \in DOMAIN overloads, instance \in BOOLEAN :
               \E values \in Arguments(order, d) : Call(d, instance, values)
    BY <2>1, BuildStays DEF Call
  <2>2. CASE UNCHANGED vars
    BY <2>2, BuildStays DEF vars
  <2> QED
    BY <2>1, <2>2, BuildNext, BuildSort, BuildSorted, BuildInherit, BuildDefine, BuildDispatch
    DEF Next
<1> QED
  BY <1>1, BuildStarts, PTL DEF Spec

-------------------------------------------------------------------------------
\* TypeManager sorts every list that it makes a dispatch of, whatever the order of
\* reflection, into one where nothing comes before what is less specific.
THEOREM DispatchesSorted == Spec => []SortedOut
<1>1. BuildInv => SortedOut
  BY Topological DEF BuildInv
<1> QED
  BY <1>1, BuildInductive, PTL

\* While it sorts one, a method can be placed unless those that are left make a
\* circle; the dispatch of a class whose overloads make one is never built.
THEOREM BuildingProgresses == Spec => []SortNeverStuck
<1>1. BuildInv => SortNeverStuck
  BY Progress DEF BuildInv
<1> QED
  BY <1>1, BuildInductive, PTL

-------------------------------------------------------------------------------
\* Calls and their cache
FitsOf(d, instance, args) == [m \in Range(overloads[d]) |-> matches(m, instance, args)]

Calm(d, instance, args) == \A m \in Range(overloads[d]) : InRange(m, instance, args)

\* A call that can be made.
Possible(d, instance, args) ==
  /\ d \in DOMAIN overloads
  /\ instance \in BOOLEAN
  /\ args \in Seq(Passable)
  /\ d[2] = "<init>" => ~instance
  /\ Calm(d, instance, args)

Built == at = "idle" /\ todo = <<>>

\* The answer of the search, or one that the cache offered.
Answered ==
  \/ Searched
  \/ call.answer \in Range(overloads[call.d]) /\ call.fits[call.answer].type > Explicit

CallOK ==
  call # NoCall => /\ Built
                   /\ Possible(call.d, call.instance, call.args)
                   /\ call.fits = FitsOf(call.d, call.instance, call.args)
                   /\ Answered

\* A method remembered by one dispatch alone is what the search found for the
\* arguments whose hash it carries.
Remembers(d) ==
  Alone(d, last[d]) =>
    \E instance \in BOOLEAN, args \in Seq(Passable) :
      /\ Possible(d, instance, args)
      /\ hash[last[d]] = Hash(instance, args)
      /\ last[d] = Resolve(d, instance, FitsOf(d, instance, args))

CacheOK ==
  /\ DOMAIN last = Range(Dispatches)
  /\ DOMAIN hash = Range(order)
  /\ \A d \in DOMAIN last : last[d] # NoMethod => /\ Built
                                                  /\ d \in DOMAIN overloads
                                                  /\ last[d] \in Range(overloads[d])
                                                  /\ Remembers(d)

CallInv == CallOK /\ CacheOK /\ CacheTransparent

LEMMA ErrorsApart ==
  /\ Ambiguous \notin Method /\ NoMatch \notin Method /\ NoMethod \notin Method
  /\ Ambiguous # NoMatch
<1>1. \A m \in Method : m \in [decl : DOMAIN Super, kind : {"static", "instance", "ctor"},
                               varargs : BOOLEAN, name : STRING, params : Seq(Type)]
  BY MethodAssumption
<1>2. \A m \in Method : "decl" \in DOMAIN m
  BY <1>1
<1>3. "decl" \notin DOMAIN Ambiguous /\ "decl" \notin DOMAIN NoMatch
  BY DEF Ambiguous, NoMatch
<1>4. NoMethod \notin Method
  BY MethodAssumption
<1> QED  BY <1>2, <1>3, <1>4 DEF Ambiguous, NoMatch

\* What matches says of a call that can be made.
LEMMA PossibleJudged ==
  ASSUME BuildInv, NEW d, NEW instance, NEW args, Possible(d, instance, args)
  PROVE  Judged(overloads[d], FitsOf(d, instance, args))
<1>1. overloads[d] \in Seq(Method)
  BY DEF BuildInv, OverloadsOK, Listed, Possible
<1>2. ASSUME NEW i \in 1 .. Len(overloads[d])
      PROVE  FitsOf(d, instance, args)[overloads[d][i]].type \in None .. Exact
  <2> DEFINE m == overloads[d][i]
  <2>1. m \in Method /\ m \in Range(overloads[d])
    BY <1>1 DEF Range
  <2>2. matches(m, instance, args).type \in None .. Exact
    BY <2>1, MatchType DEF Possible, Calm
  <2>3. FitsOf(d, instance, args)[m] = matches(m, instance, args)
    BY <2>1 DEF FitsOf
  <2> QED  BY <2>2, <2>3
<1> QED  BY <1>1, <1>2 DEF Judged

\* What the search may answer.
LEMMA ResolveAnswers ==
  ASSUME NEW d, NEW instance, NEW fits, Judged(overloads[d], fits)
  PROVE  LET answer == Resolve(d, instance, fits)
         IN \/ answer \in {Ambiguous, NoMatch}
            \/ answer \in Range(overloads[d]) /\ fits[answer].type >= Implicit
<1> DEFINE list == overloads[d]
           n == Len(list)
<1>1. PICK f : Turns(f, list, instance, fits) /\ Search(d, instance, fits) = f[n]
  BY SearchTurns
<1>2. n \in 0 .. Len(list) /\ list \in Seq(Method)
  BY DEF Judged
<1>3. Known(list, fits, n, f[n])
  BY <1>1, <1>2, PairFound
<1>4. f[n].best # NoMethod => f[n].best \in Range(list) /\ fits[f[n].best].type >= Implicit
  BY <1>2, <1>3 DEF Known, Range
<1> QED  BY <1>1, <1>4 DEF Resolve, Outcome

\* A hash is taken from no other arguments that fit by their types alone.
LEMMA HashTells ==
  ASSUME NEW instance, NEW args \in Seq(Passable), NEW i2, NEW other \in Seq(Passable),
         \A i \in DOMAIN args : ByType(args[i]), Hash(instance, args) = Hash(i2, other)
  PROVE  i2 = instance /\ Alike(args, other)
<1>1. /\ i2 = instance
      /\ [i \in DOMAIN args |-> TypeOf(args[i])] = [i \in DOMAIN other |-> TypeOf(other[i])]
  BY DEF Hash
<1>2. DOMAIN args = DOMAIN other /\ \A i \in DOMAIN args : TypeOf(args[i]) = TypeOf(other[i])
  <2> DEFINE F == [i \in DOMAIN args |-> TypeOf(args[i])]
             G == [i \in DOMAIN other |-> TypeOf(other[i])]
  <2>1. DOMAIN F = DOMAIN args /\ DOMAIN G = DOMAIN other
    OBVIOUS
  <2>2. \A i \in DOMAIN args : F[i] = TypeOf(args[i])
    OBVIOUS
  <2>3. \A i \in DOMAIN other : G[i] = TypeOf(other[i])
    OBVIOUS
  <2>4. F = G
    BY <1>1
  <2> HIDE DEF F, G
  <2> QED  BY <2>1, <2>2, <2>3, <2>4
<1>3. Len(args) = Len(other) /\ DOMAIN args = 1 .. Len(args)
  BY <1>2
<1>4. ASSUME NEW i \in 1 .. Len(args), NEW t \in Type
      PROVE  Quality(t, args[i]) = Quality(t, other[i])
  <2>1. args[i] \in Passable /\ other[i] \in Passable
    BY <1>3
  <2>2. ByType(args[i]) /\ TypeOf(args[i]) = TypeOf(other[i])
    BY <1>2, <1>3
  <2> QED  BY <2>1, <2>2, QualityAssumption
<1> QED  BY <1>1, <1>3, <1>4 DEF Alike

LEMMA CallStarts == Init => CallInv
<1> SUFFICES ASSUME Init PROVE CallInv
  OBVIOUS
<1>1. CallOK /\ CacheTransparent
  BY DEF Init, CallOK, CacheTransparent
<1>2. CacheOK
  BY DEF Init, CacheOK
<1> QED  BY <1>1, <1>2 DEF CallInv

\* While dispatches are built there is no call to speak of.
LEMMA CallWaits ==
  ASSUME BuildInv, CallInv, ~Built, UNCHANGED <<order, callVars>>
  PROVE  CallInv'
<1>1. call = NoCall /\ \A d \in DOMAIN last : last[d] = NoMethod
  BY DEF CallInv, CallOK, CacheOK
<1>2. call' = call /\ last' = last /\ hash' = hash /\ order' = order
  BY DEF callVars
<1>3. CallOK' /\ CacheTransparent'
  BY <1>1, <1>2 DEF CallOK, CacheTransparent, NoCall
<1>4. CacheOK'
  BY <1>1, <1>2 DEF CallInv, CacheOK
<1> QED  BY <1>3, <1>4 DEF CallInv

\* What a call sees of the lists.
LEMMA SameLists ==
  ASSUME UNCHANGED <<order, todo, at, more, overloads>>
  PROVE  /\ \A d, instance, fits : Resolve(d, instance, fits)' = Resolve(d, instance, fits)
         /\ \A d, instance, args : FitsOf(d, instance, args)' = FitsOf(d, instance, args)
         /\ \A d, instance, args : Possible(d, instance, args)' <=> Possible(d, instance, args)
         /\ \A d, m : Alone(d, m)' <=> Alone(d, m)
         /\ Built' <=> Built
<1>1. \A d, instance, fits : Resolve(d, instance, fits)' = Resolve(d, instance, fits)
  BY DEF Resolve, Search, Consider, CompareFit, Switch, checkMoreSpecificThan, Start
<1>2. \A d, instance, args : FitsOf(d, instance, args)' = FitsOf(d, instance, args)
  BY DEF FitsOf
<1>3. \A d, instance, args : Possible(d, instance, args)' <=> Possible(d, instance, args)
  BY Zenon DEF Possible, Calm
<1>4. \A d, m : Alone(d, m)' <=> Alone(d, m)
  BY Zenon DEF Alone
<1>5. Built' <=> Built
  BY DEF Built
<1> QED  BY <1>1, <1>2, <1>3, <1>4, <1>5

\* Nothing that the invariant speaks of changes.
LEMMA CallStays == CallInv /\ UNCHANGED vars => CallInv'
<1> SUFFICES ASSUME CallInv, UNCHANGED vars PROVE CallInv'
  OBVIOUS
<1>1. /\ UNCHANGED <<order, todo, at, more, overloads>>
      /\ overloads' = overloads /\ order' = order
      /\ last' = last /\ hash' = hash /\ call' = call
  BY DEF vars, buildVars, callVars
<1>2. /\ \A d, instance, fits : Resolve(d, instance, fits)' = Resolve(d, instance, fits)
      /\ \A d, instance, args : FitsOf(d, instance, args)' = FitsOf(d, instance, args)
      /\ \A d, instance, args : Possible(d, instance, args)' <=> Possible(d, instance, args)
      /\ \A d, m : Alone(d, m)' <=> Alone(d, m)
      /\ Built' <=> Built
  BY <1>1, SameLists
<1>3. Searched' <=> Searched
  BY <1>1 DEF Searched, Resolve, Search, Consider, CompareFit, Switch, checkMoreSpecificThan, Start
<1>4. Answered' <=> Answered
  BY <1>1, <1>3 DEF Answered
<1>5. CallOK'
  <2>1. CallOK
    BY DEF CallInv
  <2>2. Possible(call.d, call.instance, call.args)' <=> Possible(call.d, call.instance, call.args)
    BY <1>1, Zenon DEF Possible, Calm
  <2>3. FitsOf(call.d, call.instance, call.args)' = FitsOf(call.d, call.instance, call.args)
    BY <1>1 DEF FitsOf
  <2> QED  BY <1>1, <1>2, <1>4, <2>1, <2>2, <2>3, Zenon DEF CallOK
<1>6. CacheOK'
  <2>1. ASSUME NEW d, Remembers(d) PROVE Remembers(d)'
    <3> SUFFICES ASSUME Alone(d, last[d])'
                 PROVE  \E instance \in BOOLEAN, args \in Seq(Passable) :
                          /\ Possible(d, instance, args)'
                          /\ hash'[last'[d]] = Hash(instance, args)
                          /\ last'[d] = Resolve(d, instance, FitsOf(d, instance, args))'
      BY Zenon DEF Remembers
    <3>1. Alone(d, last[d])
      BY <1>1, Zenon DEF Alone
    <3>2. PICK instance \in BOOLEAN, args \in Seq(Passable) :
            /\ Possible(d, instance, args)
            /\ hash[last[d]] = Hash(instance, args)
            /\ last[d] = Resolve(d, instance, FitsOf(d, instance, args))
      BY <2>1, <3>1 DEF Remembers
    <3>3. Resolve(d, instance, FitsOf(d, instance, args))' = Resolve(d, instance, FitsOf(d, instance, args))
      BY <1>1 DEF Resolve, Search, Consider, CompareFit, Switch, checkMoreSpecificThan, Start, FitsOf
    <3> QED  BY <1>1, <1>2, <3>2, <3>3, Zenon
  <2>2. CacheOK
    BY DEF CallInv
  <2> QED  BY <1>1, <1>2, <2>1, <2>2, Zenon DEF CacheOK
<1>7. CacheTransparent'
  <2>1. Alone(call.d, call.answer)' <=> Alone(call.d, call.answer)
    BY <1>1, Zenon DEF Alone
  <2> QED  BY <1>1, <1>3, <2>1, Zenon DEF CallInv, CacheTransparent
<1> QED  BY <1>5, <1>6, <1>7 DEF CallInv

\* The same fits for arguments that are alike.
LEMMA AlikeFits ==
  ASSUME BuildInv, NEW d, NEW instance, NEW args, NEW other,
         Possible(d, instance, args), Possible(d, instance, other), Alike(args, other)
  PROVE  FitsOf(d, instance, args) = FitsOf(d, instance, other)
<1>1. Range(overloads[d]) \subseteq Method
  BY DEF BuildInv, OverloadsOK, Listed, Possible, Range
<1>2. ASSUME NEW m \in Range(overloads[d])
      PROVE  matches(m, instance, args) = matches(m, instance, other)
  BY <1>1, MatchAlike DEF Possible, Calm
<1> QED  BY <1>2 DEF FitsOf

\* The arguments of a call.
LEMMA CallPossible ==
  ASSUME BuildInv, NEW d \in DOMAIN overloads, NEW instance \in BOOLEAN,
         NEW values \in Arguments(order, d), Call(d, instance, values)
  PROVE  LET args == IF instance THEN <<Receiver[d[1]]>> \o values ELSE values
         IN Possible(d, instance, args)
<1> DEFINE args == IF instance THEN <<Receiver[d[1]]>> \o values ELSE values
<1>1. d \in Range(Dispatches)
  BY DEF BuildInv, OverloadsOK, Listed
<1>2. d[1] \in DOMAIN Receiver
  BY <1>1, DispatchesAssumption DEF Range
<1>3. Receiver[d[1]] \in Passable /\ values \in Seq(Passable)
  <2>1. order \in Orders
    BY DEF BuildInv, BuildOK
  <2>2. values \in Seq(Passable)
    BY <1>1, <2>1, DispatchesAssumption
  <2>3. Receiver[d[1]] \in Passable
    BY <1>2 DEF Passable, Range
  <2> QED
    BY <2>2, <2>3
<1>4. args \in Seq(Passable)
  BY <1>3
<1>5. ~OutOfRange(d, instance, args) /\ (d[2] = "<init>" => ~instance)
  BY DEF Call
<1> HIDE DEF args
<1>6. Calm(d, instance, args)
  BY <1>5 DEF OutOfRange, Calm, InRange
<1>7. Possible(d, instance, args)
  BY <1>4, <1>5, <1>6 DEF Possible
<1> QED  BY <1>7 DEF args

\* A call keeps the invariant.
LEMMA CallCalls ==
  ASSUME BuildInv, CallInv, NEW d \in DOMAIN overloads, NEW instance \in BOOLEAN,
         NEW values \in Arguments(order, d), Call(d, instance, values)
  PROVE  CallInv'
<1> DEFINE args == IF instance THEN <<Receiver[d[1]]>> \o values ELSE values
           fits == FitsOf(d, instance, args)
           hit == Cached(d, instance, args, fits)
           answer == IF hit THEN last[d] ELSE Resolve(d, instance, fits)
<1>1. Possible(d, instance, args)
  BY CallPossible
<1>2. /\ Built /\ UNCHANGED <<order, todo, at, more, overloads>>
      /\ overloads' = overloads /\ order' = order
      /\ findOverload(d, instance, args, fits)
  BY DEF Call, Built, buildVars, FitsOf
<1> HIDE DEF args
<1>3. /\ call' = [d |-> d, instance |-> instance, args |-> args, fits |-> fits, answer |-> answer]
      /\ \/ /\ isMethod(answer) /\ ~hit
            /\ hash' = [hash EXCEPT ![answer] = Hash(instance, args)]
            /\ last' = [last EXCEPT ![d] = answer]
         \/ ~(isMethod(answer) /\ ~hit) /\ hash' = hash /\ last' = last
  BY <1>2, Zenon DEF findOverload
<1> HIDE DEF fits, hit
<1>4. Judged(overloads[d], fits)
  BY <1>1, PossibleJudged DEF fits
<1>5. d \in DOMAIN last /\ Range(overloads[d]) \subseteq Method
      /\ Range(overloads[d]) \subseteq Range(order)
  <2>1. Listed(d, overloads[d]) /\ DOMAIN more \subseteq Range(order) /\ DOMAIN last = Range(Dispatches)
    BY DEF BuildInv, OverloadsOK, MoreOK, CallInv, CacheOK
  <2>2. Range(overloads[d]) \subseteq Method
    BY <2>1 DEF Listed, Range
  <2> QED  BY <2>1, <2>2 DEF Listed
<1>6. hit => /\ last[d] \in Range(overloads[d]) /\ Remembers(d)
             /\ hash[last[d]] = Hash(instance, args) /\ fits[last[d]].type > Explicit
  BY <1>5 DEF hit, Cached, CallInv, CacheOK
<1>7. /\ \A e, i, g : Resolve(e, i, g)' = Resolve(e, i, g)
      /\ \A e, i, a : FitsOf(e, i, a)' = FitsOf(e, i, a)
      /\ \A e, i, a : Possible(e, i, a)' <=> Possible(e, i, a)
      /\ \A e, m : Alone(e, m)' <=> Alone(e, m)
      /\ Built' <=> Built
  BY <1>2, SameLists
<1>8. /\ call'.d = d /\ call'.instance = instance /\ call'.args = args /\ call'.fits = fits
      /\ call'.answer = answer
  BY <1>3
<1>9. Searched' <=> answer = Resolve(d, instance, fits)
  <2>1. PICK c : c = call'
    OBVIOUS
  <2>2. Searched' <=> c.answer = Resolve(c.d, c.instance, c.fits)
    BY <1>2, <2>1 DEF Searched, Resolve, Search, Consider, CompareFit, Switch,
                      checkMoreSpecificThan, Start
  <2> HIDE DEF answer
  <2> QED  BY <1>8, <2>1, <2>2
<1>10. CallOK'
  <2>1. Possible(call.d, call.instance, call.args)'
    BY <1>1, <1>2, <1>8, Zenon DEF Possible, Calm
  <2>2. call'.fits = FitsOf(call.d, call.instance, call.args)'
    BY <1>2, <1>8 DEF FitsOf, fits
  <2>3. Answered'
    BY <1>2, <1>6, <1>8, <1>9 DEF Answered
  <2> QED  BY <1>2, <1>7, <2>1, <2>2, <2>3, Zenon DEF CallOK
<1>11. CacheTransparent'
  <2> SUFFICES ASSUME hit, \A i \in DOMAIN args : ByType(args[i]), Alone(d, last[d])
               PROVE  last[d] = Resolve(d, instance, fits)
    <3>1. Alone(call.d, call.answer)' <=> Alone(d, answer)
      BY <1>2, <1>8, Zenon DEF Alone
    <3> QED  BY <1>8, <1>9, <3>1 DEF CacheTransparent
  <2>1. PICK i2 \in BOOLEAN, other \in Seq(Passable) :
          /\ Possible(d, i2, other)
          /\ hash[last[d]] = Hash(i2, other)
          /\ last[d] = Resolve(d, i2, FitsOf(d, i2, other))
    BY <1>6 DEF Remembers
  <2>2. Hash(instance, args) = Hash(i2, other) /\ args \in Seq(Passable)
    BY <1>1, <1>6, <2>1 DEF Possible
  <2>3. i2 = instance /\ Alike(args, other)
    BY <2>1, <2>2, HashTells
  <2>4. FitsOf(d, instance, args) = FitsOf(d, instance, other)
    BY <1>1, <2>1, <2>3, AlikeFits
  <2> QED  BY <2>1, <2>3, <2>4 DEF fits
<1>12. CacheOK'
  <2>1. CASE ~(isMethod(answer) /\ ~hit) /\ hash' = hash /\ last' = last
    <3>1. ASSUME NEW e, Remembers(e) PROVE Remembers(e)'
      <4> SUFFICES ASSUME Alone(e, last[e])'
                   PROVE  \E i \in BOOLEAN, a \in Seq(Passable) :
                            /\ Possible(e, i, a)'
                            /\ hash'[last'[e]] = Hash(i, a)
                            /\ last'[e] = Resolve(e, i, FitsOf(e, i, a))'
        BY Zenon DEF Remembers
      <4>1. Alone(e, last[e])
        BY <1>2, <2>1, Zenon DEF Alone
      <4>2. PICK i \in BOOLEAN, a \in Seq(Passable) :
              /\ Possible(e, i, a)
              /\ hash[last[e]] = Hash(i, a)
              /\ last[e] = Resolve(e, i, FitsOf(e, i, a))
        BY <3>1, <4>1 DEF Remembers
      <4>3. Resolve(e, i, FitsOf(e, i, a))' = Resolve(e, i, FitsOf(e, i, a))
        BY <1>2 DEF Resolve, Search, Consider, CompareFit, Switch, checkMoreSpecificThan,
                    Start, FitsOf
      <4> QED  BY <1>7, <2>1, <4>2, <4>3, Zenon
    <3>2. CacheOK
      BY DEF CallInv
    <3> QED  BY <1>2, <1>7, <2>1, <3>1, <3>2, Zenon DEF CacheOK
  <2>2. CASE /\ isMethod(answer) /\ ~hit
             /\ hash' = [hash EXCEPT ![answer] = Hash(instance, args)]
             /\ last' = [last EXCEPT ![d] = answer]
    <3>1. answer = Resolve(d, instance, fits)
      BY <2>2
    <3> HIDE DEF answer
    <3>2. answer \in Method /\ answer \in Range(order)
      BY <2>2 DEF isMethod, BuildInv, BuildOK, Range
    <3>3. answer \in Range(overloads[d])
      BY <1>4, <3>1, <3>2, ResolveAnswers, ErrorsApart
    <3>4. /\ DOMAIN last' = DOMAIN last /\ DOMAIN hash' = DOMAIN hash
          /\ last'[d] = answer /\ hash'[answer] = Hash(instance, args)
          /\ \A e \in DOMAIN last : e # d => last'[e] = last[e]
          /\ \A m : m # answer /\ m \in DOMAIN hash => hash'[m] = hash[m]
      BY <1>5, <2>2, <3>2 DEF CallInv, CacheOK
    <3>5. ASSUME NEW e \in DOMAIN last, last'[e] # NoMethod
          PROVE  Built' /\ e \in DOMAIN overloads' /\ last'[e] \in Range(overloads'[e])
                 /\ Remembers(e)'
      <4>1. CASE e = d
        <5>1. Remembers(d)'
          <6> SUFFICES ASSUME NEW x, x = args
                       PROVE  /\ Possible(d, instance, x)'
                              /\ hash'[last'[d]] = Hash(instance, x)
                              /\ last'[d] = Resolve(d, instance, FitsOf(d, instance, x))'
            <7>1. args \in Seq(Passable)
              BY <1>1 DEF Possible
            <7> QED  BY <7>1, Zenon DEF Remembers
          <6>1. Possible(d, instance, x)
            BY <1>1
          <6>2. Resolve(d, instance, FitsOf(d, instance, x))'
                  = Resolve(d, instance, FitsOf(d, instance, x))
            BY <1>2 DEF Resolve, Search, Consider, CompareFit, Switch, checkMoreSpecificThan,
                        Start, FitsOf
          <6>3. Resolve(d, instance, FitsOf(d, instance, x)) = answer
            BY <3>1 DEF fits
          <6> QED  BY <1>7, <3>4, <6>1, <6>2, <6>3, Zenon
        <5> QED  BY <1>2, <1>7, <3>3, <3>4, <4>1, <5>1
      <4>2. CASE e # d
        <5>1. /\ last'[e] = last[e] /\ e \in DOMAIN overloads
              /\ last[e] \in Range(overloads[e]) /\ Remembers(e)
          BY <3>4, <3>5, <4>2 DEF CallInv, CacheOK
        <5>2. Remembers(e)'
          <6> SUFFICES ASSUME Alone(e, last[e])'
                       PROVE  \E i \in BOOLEAN, a \in Seq(Passable) :
                                /\ Possible(e, i, a)'
                                /\ hash'[last'[e]] = Hash(i, a)
                                /\ last'[e] = Resolve(e, i, FitsOf(e, i, a))'
            BY Zenon DEF Remembers
          <6>1. Alone(e, last[e])
            BY <1>2, <5>1, Zenon DEF Alone
          <6>2. PICK i \in BOOLEAN, a \in Seq(Passable) :
                  /\ Possible(e, i, a)
                  /\ hash[last[e]] = Hash(i, a)
                  /\ last[e] = Resolve(e, i, FitsOf(e, i, a))
            BY <5>1, <6>1 DEF Remembers
          <6>3. Resolve(e, i, FitsOf(e, i, a))' = Resolve(e, i, FitsOf(e, i, a))
            BY <1>2 DEF Resolve, Search, Consider, CompareFit, Switch, checkMoreSpecificThan,
                        Start, FitsOf
          <6>4. last[e] # answer
            BY <3>3, <4>2, <6>1 DEF Alone
          <6>5. last[e] \in DOMAIN hash
            BY <5>1 DEF BuildInv, OverloadsOK, Listed, MoreOK, CallInv, CacheOK
          <6>6. hash'[last'[e]] = hash[last[e]]
            BY <3>4, <5>1, <6>4, <6>5
          <6> QED  BY <1>7, <5>1, <6>2, <6>3, <6>6, Zenon
        <5> QED  BY <1>2, <1>7, <5>1, <5>2
      <4> QED  BY <4>1, <4>2
    <3>6. DOMAIN last' = Range(Dispatches) /\ DOMAIN hash' = Range(order')
      BY <1>2, <3>4 DEF CallInv, CacheOK
    <3> QED  BY <3>4, <3>5, <3>6, Zenon DEF CacheOK
  <2> QED  BY <1>3, <2>1, <2>2
<1> QED  BY <1>10, <1>11, <1>12 DEF CallInv

LEMMA CallInductive == Spec => [](BuildInv /\ CallInv)
<1>1. BuildInv /\ CallInv /\ [Next]_vars => CallInv'
  <2> SUFFICES ASSUME BuildInv, CallInv, [Next]_vars PROVE CallInv'
    OBVIOUS
  <2>1. CASE \E d \in DOMAIN overloads, instance \in BOOLEAN :
               \E values \in Arguments(order, d) : Call(d, instance, values)
    BY <2>1, CallCalls
  <2>2. CASE UNCHANGED vars
    BY <2>2, CallStays
  <2>3. CASE createMethodDispatch
    BY <2>3, CallWaits DEF createMethodDispatch, Built, callVars
  <2>4. CASE Sort
    BY <2>4, CallWaits DEF Sort, Built, callVars, buildVars
  <2>5. CASE SortDone
    BY <2>5, CallWaits DEF SortDone, Built, callVars
  <2>6. CASE UseInherited
    BY <2>6, CallWaits DEF UseInherited, Built, callVars
  <2>7. CASE DefineMethod
    BY <2>7, CallWaits DEF DefineMethod, Built, callVars
  <2>8. CASE defineMethodDispatch
    BY <2>8, CallWaits DEF defineMethodDispatch, Built, callVars
  <2> QED
    BY <2>1, <2>2, <2>3, <2>4, <2>5, <2>6, <2>7, <2>8 DEF Next
<1> QED
  BY <1>1, CallStarts, BuildInductive, PTL DEF Spec

\* The method that a call reaches fits its arguments.
LEMMA AnswerFits ==
  ASSUME BuildInv, CallInv, call # NoCall, isMethod(call.answer)
  PROVE  /\ call.answer \in Range(overloads[call.d])
         /\ call.answer \in Method
         /\ call.fits[call.answer].type >= Implicit
         /\ call.fits[call.answer] = matches(call.answer, call.instance, call.args)
         /\ call.answer.name = call.d[2]
         /\ Possible(call.d, call.instance, call.args)
<1>1. /\ Possible(call.d, call.instance, call.args)
      /\ call.fits = FitsOf(call.d, call.instance, call.args) /\ Answered
  BY DEF CallInv, CallOK
<1>2. call.answer \in Method
  BY DEF isMethod, BuildInv, BuildOK, Range
<1>3. Judged(overloads[call.d], call.fits) /\ Listed(call.d, overloads[call.d])
  BY <1>1, PossibleJudged DEF Possible, BuildInv, OverloadsOK
<1>4. call.answer \in Range(overloads[call.d]) /\ call.fits[call.answer].type >= Implicit
  <2>1. CASE Searched
    BY <2>1, <1>2, <1>3, ResolveAnswers, ErrorsApart DEF Searched
  <2>2. CASE call.answer \in Range(overloads[call.d]) /\ call.fits[call.answer].type > Explicit
    <3>1. call.fits[call.answer].type \in None .. Exact
      BY <2>2, <1>3 DEF Judged, Range
    <3> QED  BY <2>2, <3>1 DEF Explicit, Implicit, None, Exact
  <2> QED  BY <1>1, <2>1, <2>2 DEF Answered
<1>5. call.fits[call.answer] = matches(call.answer, call.instance, call.args)
  BY <1>1, <1>4 DEF FitsOf
<1>6. call.answer.name = call.d[2]
  BY <1>3, <1>4 DEF Listed, Range
<1> QED  BY <1>1, <1>2, <1>4, <1>5, <1>6

\* Where the parameters of a method come from, for as many arguments as match.
LEMMA Packed ==
  ASSUME NEW m \in Method, NEW instance \in BOOLEAN, NEW args \in Seq(Passable),
         NEW indirect \in BOOLEAN,
         m.kind = "ctor" => ~instance,
         indirect => m.varargs /\ Len(args) - Offset(m, instance) >= Len(ParameterTypes(m)) - 1,
         ~indirect => Len(args) - Offset(m, instance) = Len(ParameterTypes(m)),
         ~(m.varargs /\ Offset(m, instance) = 1)
  PROVE  packArgs(m, instance, args, indirect) = Passed(m, instance, args, indirect)
<1> DEFINE tlen == Len(ParameterTypes(m))
           n == Len(m.params)
           skip == Skip(m, instance)
           off == Offset(m, instance)
           given == Len(args)
<1>1. /\ n \in Nat /\ tlen \in Nat /\ given \in Nat /\ m.kind \in {"static", "instance", "ctor"}
      /\ m.kind = "instance" => tlen = n + 1
      /\ m.kind # "instance" => tlen = n
      /\ m.varargs => n > 0
  BY MethodFields, ParameterFacts
<1>2. /\ skip = IF instance \/ m.kind = "instance" THEN 1 ELSE 0
      /\ off = IF instance /\ m.kind = "static" THEN 1 ELSE 0
      /\ VarSlot(m, instance) = tlen - 1 - skip
  BY DEF Skip, Offset, isStatic, VarSlot
<1>3. /\ packArgs(m, instance, args, indirect)
           = [j \in 0 .. n - 1 |->
                IF indirect /\ j = tlen - 1 - skip THEN <<"array", tlen - 1, given - 1>>
                ELSE IF j + skip < (IF indirect THEN tlen - 1 ELSE given) THEN <<"value", j + skip>>
                ELSE <<"unset">>]
      /\ Passed(m, instance, args, indirect)
           = [j \in 0 .. n - 1 |->
                IF j = n - 1 /\ indirect THEN <<"array", skip + j, given - 1>>
                ELSE <<"value", skip + j>>]
  BY <1>2 DEF packArgs, Passed, Skip
<1>4. /\ indirect => m.varargs /\ given - off >= tlen - 1
      /\ ~indirect => given - off = tlen
      /\ ~(m.varargs /\ off = 1)
      /\ m.kind = "ctor" => ~instance
  OBVIOUS
<1> HIDE DEF tlen, n, skip, off, given
<1>5. indirect => tlen - 1 - skip = n - 1 /\ tlen - 1 = skip + (n - 1)
  BY <1>1, <1>2, <1>4
<1>6. ~indirect => \A j \in 0 .. n - 1 : j + skip < given /\ j + skip = skip + j
  BY <1>1, <1>2, <1>4
<1>7. indirect => \A j \in 0 .. n - 1 : /\ j # n - 1 => j + skip < tlen - 1
                                        /\ j + skip = skip + j
  <2> SUFFICES ASSUME indirect, NEW j \in 0 .. n - 1
               PROVE  (j # n - 1 => j + skip < tlen - 1) /\ j + skip = skip + j
    OBVIOUS
  <2>1. skip \in {0, 1} /\ j \in Int
    BY <1>2
  <2>2. tlen - 1 = skip + (n - 1)
    BY <1>5
  <2>3. j # n - 1 => j < n - 1
    BY <1>1
  <2>4. n \in Int /\ tlen \in Int /\ skip \in Int
    BY <1>1, <2>1
  <2>5. j + skip = skip + j /\ (j < n - 1 => j + skip < skip + (n - 1))
    BY <2>1, <2>4
  <2> QED  BY <2>1, <2>2, <2>3, <2>4, <2>5
<1>8. ASSUME NEW j \in 0 .. n - 1
      PROVE  (IF indirect /\ j = tlen - 1 - skip THEN <<"array", tlen - 1, given - 1>>
              ELSE IF j + skip < (IF indirect THEN tlen - 1 ELSE given) THEN <<"value", j + skip>>
              ELSE <<"unset">>)
             = (IF j = n - 1 /\ indirect THEN <<"array", skip + j, given - 1>>
                ELSE <<"value", skip + j>>)
  <2>1. CASE indirect /\ j = n - 1
    BY <2>1, <1>5
  <2>2. CASE indirect /\ j # n - 1
    <3>1. j # tlen - 1 - skip /\ j + skip < tlen - 1 /\ j + skip = skip + j
      BY <2>2, <1>5, <1>7
    <3> QED  BY <2>2, <3>1
  <2>3. CASE ~indirect
    BY <2>3, <1>6
  <2> QED  BY <2>1, <2>2, <2>3
<1> QED  BY <1>3, <1>8

\* Whatever the overloads, the arguments and the calls before, each argument reaches
\* the parameter it was given for (JPMethod::packArgs), except in a static method with
\* a variable number of arguments that is called through an object.
THEOREM EveryArgumentArrives == Spec => []ArgumentsArrive
<1>1. BuildInv /\ CallInv => ArgumentsArrive
  <2> SUFFICES ASSUME BuildInv, CallInv, call # NoCall, isMethod(call.answer),
                      ~(call.answer.varargs /\ Offset(call.answer, call.instance) = 1)
               PROVE  packArgs(call.answer, call.instance, call.args,
                               call.fits[call.answer].indirect)
                        = Passed(call.answer, call.instance, call.args,
                                 call.fits[call.answer].indirect)
    BY DEF ArgumentsArrive
  <2> DEFINE m == call.answer
  <2>1. /\ m \in Method /\ m \in Range(overloads[call.d]) /\ m.name = call.d[2]
        /\ matches(m, call.instance, call.args).type >= Implicit
        /\ call.fits[m] = matches(m, call.instance, call.args)
        /\ Possible(call.d, call.instance, call.args)
    BY AnswerFits
  <2>2. /\ call.instance \in BOOLEAN /\ call.args \in Seq(Passable)
        /\ InRange(m, call.instance, call.args)
        /\ m.kind = "ctor" => ~call.instance
    BY <2>1, MethodFields DEF Possible, Calm
  <2> HIDE DEF m
  <2>3. /\ call.fits[m].indirect \in BOOLEAN
        /\ call.fits[m].indirect => /\ m.varargs
                                    /\ Len(call.args) - Offset(m, call.instance)
                                         >= Len(ParameterTypes(m)) - 1
        /\ ~call.fits[m].indirect =>
             Len(call.args) - Offset(m, call.instance) = Len(ParameterTypes(m))
    BY <2>1, <2>2, MatchCounts
  <2> QED  BY <2>1, <2>2, <2>3, Packed DEF m
<1> QED
  BY <1>1, CallInductive, PTL

\* The cache never changes which method is called, or that none is, unless the method
\* is one that another dispatch may remember a call of (JPMethodDispatch::findOverload).
THEOREM CacheIsTransparent == Spec => []CacheTransparent
<1>1. CallInv => CacheTransparent
  BY DEF CallInv
<1> QED
  BY <1>1, CallInductive, PTL

\* What is known of a call to a dispatch of one class: the less specific overloads of
\* each are those in its precedence list.
LEMMA OneClassLists ==
  ASSUME BuildInv, CallInv, call # NoCall, OneClass(call.d)
  PROVE  /\ Judged(overloads[call.d], call.fits)
         /\ Listed(call.d, overloads[call.d])
         /\ call.instance \in BOOLEAN
         /\ DOMAIN call.fits = Range(overloads[call.d])
         /\ \A i, j \in 1 .. Len(overloads[call.d]) :
              overloads[call.d][j] \in more[overloads[call.d][i]]
                <=> Strict(overloads[call.d][i], overloads[call.d][j])
<1> DEFINE list == overloads[call.d]
<1>1. /\ Possible(call.d, call.instance, call.args)
      /\ call.fits = FitsOf(call.d, call.instance, call.args)
  BY DEF CallInv, CallOK
<1>2. Judged(list, call.fits) /\ Listed(call.d, list) /\ call.instance \in BOOLEAN
  BY <1>1, PossibleJudged DEF Possible, BuildInv, OverloadsOK
<1>3. DOMAIN call.fits = Range(list)
  BY <1>1 DEF FitsOf
<1>4. ASSUME NEW i \in 1 .. Len(list), NEW j \in 1 .. Len(list)
      PROVE  list[j] \in more[list[i]] <=> Strict(list[i], list[j])
  <2>1. /\ list[i] \in DOMAIN more /\ list[j] \in DOMAIN more
        /\ list[j] \in Method /\ list[i].name = list[j].name
        /\ list[i] \in Range(list) /\ list[j] \in Range(list)
    BY <1>2 DEF Listed, Range
  <2>2. list[i].decl = list[j].decl /\ list[j] \in Range(order)
    BY <2>1 DEF OneClass, BuildInv, MoreOK
  <2>3. Precedes(list[i])
    BY <2>1 DEF BuildInv, MoreOK
  <2> QED  BY <2>1, <2>2, <2>3 DEF Precedes
<1> QED  BY <1>2, <1>3, <1>4

\* A call is refused as ambiguous only if two overloads match and neither is more
\* specific than the other: JPMethodDispatch::findOverload raises "Ambiguous overloads"
\* for no other reason, for every set of overloads of one class.
THEOREM AmbiguityAlwaysReal == Spec => []AmbiguityIsReal
<1>1. BuildInv /\ CallInv => AmbiguityIsReal
  <2> SUFFICES ASSUME BuildInv, CallInv, call # NoCall, call.answer = Ambiguous,
                      OneClass(call.d)
               PROVE  \E m, o \in Matching : m # o /\ ~Strict(m, o) /\ ~Strict(o, m)
    BY DEF AmbiguityIsReal
  <2> DEFINE list == overloads[call.d]
             fits == call.fits
             n == Len(list)
  <2>1. /\ Judged(list, fits) /\ Listed(call.d, list) /\ DOMAIN fits = Range(list)
        /\ \A i, j \in 1 .. n : list[j] \in more[list[i]] <=> Strict(list[i], list[j])
    BY OneClassLists
  <2>2. list \in Seq(Method) /\ n \in Nat /\ n \in 0 .. n
    BY <2>1 DEF Judged
  <2>3. Searched
    <3>1. Range(list) \subseteq Method
      BY <2>2 DEF Range
    <3> QED  BY <3>1, ErrorsApart DEF CallInv, CallOK, Answered
  <2>4. PICK f : Turns(f, list, call.instance, fits) /\ Search(call.d, call.instance, fits) = f[n]
    BY <2>1, SearchTurns
  <2>5. Known(list, fits, n, f[n]) /\ (f[n].ambiguous # {} => Pair(list, fits, n))
    BY <2>1, <2>2, <2>4, PairFound
  <2>6. Outcome(f[n]) = Ambiguous
    BY <2>3, <2>4 DEF Searched, Resolve
  <2>7. f[n].ambiguous # {}
    <3>1. f[n].best = NoMethod \/ f[n].best \in Method
      BY <2>2, <2>5 DEF Known
    <3> QED  BY <2>6, <3>1, ErrorsApart DEF Outcome
  <2>8. PICK j, k \in 1 .. n : /\ j < k
                               /\ fits[list[j]].type >= Implicit
                               /\ fits[list[k]].type >= Implicit
                               /\ list[k] \notin more[list[j]]
    BY <2>5, <2>7 DEF Pair
  <2>9. list[j] \in Matching /\ list[k] \in Matching
    BY <2>1, <2>2, <2>8 DEF Matching, Range
  <2>10. list[j] # list[k]
    BY <2>1, <2>2, <2>8 DEF Listed, Once
  <2>11. ~Strict(list[j], list[k])
    BY <2>1, <2>8
  <2>12. ~Strict(list[k], list[j])
    <3>1. Strict(list[k], list[j]) => k < j
      BY <2>1 DEF Listed
    <3> QED  BY <3>1, <2>2, <2>8
  <2> QED  BY <2>9, <2>10, <2>11, <2>12
<1> QED
  BY <1>1, CallInductive, PTL

\* The method that the search finds is not one that a more specific overload, called the
\* same way and fitting as well, should have hidden (JPMethodDispatch::findOverload),
\* unless that one was hidden by an overload it is better than.
THEOREM MostSpecificAlwaysWins == Spec => []MostSpecificWins
<1>1. BuildInv /\ CallInv => MostSpecificWins
  <2> SUFFICES ASSUME BuildInv, CallInv, call # NoCall, isMethod(call.answer),
                      OneClass(call.d), Searched,
                      NEW o \in Matching,
                      Fits(o, call.instance) = Fits(call.answer, call.instance),
                      call.fits[o].type >= call.fits[call.answer].type,
                      Strict(o, call.answer)
               PROVE  \E x \in Matching : Strict(x, o) /\ Better(o, x)
    BY DEF MostSpecificWins
  <2> DEFINE list == overloads[call.d]
             fits == call.fits
             instance == call.instance
             n == Len(list)
  <2>1. /\ Judged(list, fits) /\ Listed(call.d, list) /\ DOMAIN fits = Range(list)
        /\ instance \in BOOLEAN
        /\ \A i, j \in 1 .. n : list[j] \in more[list[i]] <=> Strict(list[i], list[j])
    BY OneClassLists
  <2>2. /\ list \in Seq(Method) /\ n \in Nat /\ n \in 0 .. n
        /\ \A i \in 1 .. n : fits[list[i]].type \in Nat
    <3>1. None .. Exact \subseteq Nat
      BY DEF None, Exact
    <3> QED  BY <2>1, <3>1 DEF Judged
  <2>3. PICK f : Turns(f, list, instance, fits) /\ Search(call.d, instance, fits) = f[n]
    BY <2>1, SearchTurns
  <2>4. Winner(list, instance, fits, n, f[n]) /\ Known(list, fits, n, f[n])
    BY <2>1, <2>2, <2>3, WinnerFound, PairFound
  <2>5. call.answer \in Method /\ call.answer = Outcome(f[n])
    BY <2>3 DEF Searched, Resolve, isMethod, BuildInv, BuildOK, Range
  <2>6. call.answer = f[n].best /\ f[n].best # NoMethod
    BY <2>5, ErrorsApart DEF Outcome
  <2>7. PICK p \in 1 .. n : Leads(list, instance, fits, n, f[n], p)
    BY <2>4, <2>6 DEF Winner
  <2>8. call.answer = list[p] /\ \A j \in 1 .. p - 1 : Beaten(list, instance, fits, list[j], list[p])
    BY <2>6, <2>7 DEF Leads
  <2>9. o \in Range(list) /\ fits[o].type >= Implicit
    BY <2>1 DEF Matching
  <2>10. PICK j \in 1 .. n : o = list[j]
    BY <2>9, <2>2 DEF Range
  <2>11. j < p
    BY <2>1, <2>8, <2>10 DEF Listed
  <2>12. Beaten(list, instance, fits, o, call.answer)
    BY <2>2, <2>8, <2>10, <2>11
  <2>13. fits[o].type \in Nat /\ fits[call.answer].type \in Nat
    BY <2>2, <2>8, <2>10
  <2>14. ~Prefers(instance, fits, call.answer, o)
    BY <2>13 DEF Prefers
  <2>15. ~(fits[call.answer].type = Exact /\ fits[o].type < Exact)
    BY <2>13 DEF Exact
  <2>16. Excused(list, instance, fits, o)
    BY <2>9, <2>12, <2>14, <2>15 DEF Beaten
  <2>17. PICK x \in 1 .. n : /\ fits[list[x]].type >= Implicit
                             /\ o \in more[list[x]]
                             /\ Prefers(instance, fits, o, list[x])
    BY <2>16 DEF Excused
  <2>18. list[x] \in Matching
    BY <2>1, <2>2, <2>17 DEF Matching, Range
  <2>19. Strict(list[x], o)
    BY <2>1, <2>10, <2>17
  <2>20. Better(o, list[x])
    BY <2>17 DEF Better, Prefers
  <2> QED  BY <2>18, <2>19, <2>20
<1> QED
  BY <1>1, CallInductive, PTL
===============================================================================
