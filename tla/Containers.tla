------------------------------ MODULE Containers -------------------------------
(***************************************************************************)
(* Java containers under Python syntax: java.util.List with the methods of *)
(* a Python list, java.lang.String and Java arrays as sequences, iterators *)
(* and m[k] of a java.util.Map.                                            *)
(*                                                                         *)
(* One Java object (box) is a list, a string, an array, a map or an entry  *)
(* of a map (a key and a value); a call on it leaves what it did in did    *)
(* until the caller has taken it.  A list is a java.util.ArrayList, and a  *)
(* step of a slice other than 1 is refused at once, so it is left out.     *)
(* m[k] asks the map twice and other threads use the map in between; one   *)
(* key of the map stands for all.                                          *)
(***************************************************************************)
EXTENDS Integers, Sequences, SequencesExt, FiniteSets

CONSTANTS Elem,     \* Java values that a box holds
          MaxLen,   \* bound on the length of a list
          MapUser   \* Python threads that use the map

ASSUME LenAssumption == MaxLen \in Nat

VARIABLES box,    \* the Java object: [kind, items]
          iter,   \* a Python iterator over it
          did,    \* the last call on it
          jmap,   \* what the map has for its key
          asking  \* the m[k] that each thread is in

boxVars == <<box, iter, did>>
mapVars == <<jmap, asking>>
containerVars == <<boxVars, mapVars>>

Absent == 99      \* a bound of a slice that is not given
Alien == "alien"  \* a Python object that no Java type takes

NoIter == [at |-> 0, changed |-> FALSE, live |-> FALSE]
Literal(items) == [kind |-> "seq", items |-> items]
NoArg == [i |-> 0, j |-> 0, x |-> Alien, v |-> Literal(<<>>)]
NoCall == [op |-> "none", arg |-> NoArg, before |-> <<>>, raised |-> FALSE, answer |-> <<>>]
NotAsking == [pc |-> "idle", value |-> "none", seen |-> {}]

ContainerInit ==
  /\ box \in {[kind |-> kind, items |-> items] :
                kind \in {"list", "string", "array"}, items \in BoundedSeq(Elem, 2)} \cup
            {[kind |-> "entry", items |-> <<k, v>>] : k, v \in Elem} \cup
            {[kind |-> "map", items |-> <<>>]}
  /\ iter = NoIter
  /\ did = NoCall
  /\ jmap = "absent"
  /\ asking = [u \in MapUser |-> NotAsking]

\* What a call leaves in the list and returns, or that it raises; and whether the
\* list counts it as a modification, if the call is of the Structural ones.
Ok(list, answer) == [items |-> list, raised |-> FALSE, modified |-> TRUE, answer |-> answer]
Raise(list) == [items |-> list, raised |-> TRUE, modified |-> FALSE, answer |-> <<>>]

-------------------------------------------------------------------------------
\* java.util.ArrayList

Takes(s, k) == k \in 0 .. Len(s) - 1
Cut(s, k) == SubSeq(s, 1, k) \o SubSeq(s, k + 2, Len(s))
Spliced(s, k, t) == SubSeq(s, 1, k) \o t \o SubSeq(s, k + 1, Len(s))
Window(s, w) == SubSeq(s, w.start + 1, w.stop)
Cleared(s, w) == SubSeq(s, 1, w.start) \o SubSeq(s, w.stop + 1, Len(s))
HasWindow(s, w) == 0 <= w.start /\ w.start <= w.stop /\ w.stop <= Len(s)
IndexOf(s, x) == IF Contains(s, x) THEN SelectInSeq(s, LAMBDA e : e = x) - 1 ELSE -1

\* An argument as a java.util.Collection: sequences and sets are converted, a str
\* is not, and a slice of the list is a view, useless once the list has changed.
Collectable(v) == v.kind \in {"seq", "set", "self", "view"}
Collected(s, v) == IF v.kind \in {"self", "view"} THEN s ELSE v.items

-------------------------------------------------------------------------------
\* _JList

Adjust(i, n) == IF i < 0 THEN i + n ELSE i

\* Mutant: a negative end is counted from the start.
_sliceAdjustStart(a, b, n) ==
  [start |-> Adjust(IF a = Absent THEN 0 ELSE a, n), stop |-> IF b = Absent THEN n ELSE b]

_sliceAdjust(a, b, n) ==
  [start |-> Adjust(IF a = Absent THEN 0 ELSE a, n),
   stop |-> Adjust(IF b = Absent THEN n ELSE b, n)]

getitem(s, i) ==
  LET k == Adjust(i, Len(s)) IN IF Takes(s, k) THEN Ok(s, <<s[k + 1]>>) ELSE Raise(s)

getslice(s, a, b) ==
  LET w == _sliceAdjust(a, b, Len(s)) IN
  IF HasWindow(s, w) THEN Ok(s, Window(s, w)) ELSE Raise(s)

setitem(s, i, x) ==
  LET k == Adjust(i, Len(s)) IN
  IF Takes(s, k) /\ x # Alien THEN Ok([s EXCEPT ![k + 1] = x], <<>>) ELSE Raise(s)

\* The bounds go through _sliceAdjust once more when the slice is taken.
Twice(a, b, n) == LET w == _sliceAdjust(a, b, n) IN _sliceAdjust(w.start, w.stop, n)

delslice(s, a, b) ==
  LET w == Twice(a, b, Len(s)) IN
  IF HasWindow(s, w) THEN Ok(Cleared(s, w), <<>>) ELSE Raise(s)

\* clear() of the slice, which counts even if it is empty, then addAll of the value.
setslice(s, a, b, v) ==
  LET w == Twice(a, b, Len(s))
      start == _sliceAdjust(a, b, Len(s)).start
      rest == Cleared(s, w)
  IN  IF ~HasWindow(s, w) THEN Raise(s)
      ELSE IF Collectable(v) /\ v.kind # "view" /\ start \in 0 .. Len(rest)
           THEN Ok(Spliced(rest, start, Collected(rest, v)), <<>>)
           ELSE [Raise(rest) EXCEPT !.modified = TRUE]

\* del l[i] and pop
delitem(s, i) ==
  LET k == Adjust(i, Len(s)) IN IF Takes(s, k) THEN Ok(Cut(s, k), <<>>) ELSE Raise(s)
pop(s, i) ==
  LET k == Adjust(i, Len(s)) IN IF Takes(s, k) THEN Ok(Cut(s, k), <<s[k + 1]>>) ELSE Raise(s)

index(s, x) == IF x = Alien THEN Raise(s) ELSE Ok(s, <<IndexOf(s, x)>>)

count(s, x) == Ok(s, <<IF x = Alien THEN 0 ELSE Len(SelectSeq(s, LAMBDA e : e = x))>>)

contains(s, x) == Ok(s, <<x # Alien /\ Contains(s, x)>>)

insert(s, i, x) ==
  LET k == Adjust(i, Len(s)) IN
  IF k \in 0 .. Len(s) /\ x # Alien THEN Ok(Spliced(s, k, <<x>>), <<>>) ELSE Raise(s)

append(s, x) == IF x = Alien THEN Raise(s) ELSE Ok(Append(s, x), <<>>)

extend(s, v) == IF Collectable(v) THEN Ok(s \o Collected(s, v), <<>>) ELSE Raise(s)

\* l + v and l * n make a new list.
plus(s, v) == IF Collectable(v) THEN Ok(s, s \o Collected(s, v)) ELSE Raise(s)
times(s, n) == Ok(s, IF n <= 0 THEN <<>> ELSE FlattenSeq([k \in 1 .. n |-> s]))

remove(s, x) ==
  IF x # Alien /\ Contains(s, x) THEN Ok(Cut(s, IndexOf(s, x)), <<>>) ELSE Raise(s)

reversed(s) == Ok(s, Reverse(s))
reverse(s) == Ok(Reverse(s), <<>>)

\* l += x adds x itself.
iadd(s, x) == append(s, x)

\* _JStringProto.__getitem__ of an index, and __add__.
charAt(s, i) ==
  LET k == Adjust(i, Len(s)) IN IF k < 0 \/ k >= Len(s) THEN Raise(s) ELSE Ok(s, <<s[k + 1]>>)
concat(s, v) == IF v.kind = "seq" THEN Ok(s, s \o v.items) ELSE Raise(s)

\* _JMapEntry.__getitem__
entryItem(s, x) == IF x \in {0, 1} THEN Ok(s, <<s[x + 1]>>) ELSE Raise(s)

\* _JArrayProto.clone copies len(self) elements.
clone(s) == Ok(s, SubSeq(s, 1, Len(s)))

-------------------------------------------------------------------------------
Index == -4 .. 3
Bounds == Index \cup {Absent}
Values == {Literal(items) : items \in BoundedSeq(Elem, 1)} \cup
          {[kind |-> kind, items |-> <<CHOOSE e \in Elem : TRUE>>] :
             kind \in {"set", "self", "view", "str", "alien"}}

\* The calls that change the length of a list, which its iterators notice.
Structural == {"setslice", "delitem", "delslice", "pop", "insert", "append", "iadd", "extend", "remove"}

Called(kind, op, arg, outcome) ==
  /\ box.kind = kind /\ did.op = "none"
  /\ Len(outcome.items) <= MaxLen
  /\ box' = [box EXCEPT !.items = outcome.items]
  /\ did' = [op |-> op, arg |-> arg, before |-> box.items, raised |-> outcome.raised,
             answer |-> outcome.answer]
  /\ iter' = [iter EXCEPT !.changed = @ \/ (op \in Structural /\ outcome.modified)]
  /\ UNCHANGED mapVars

\* A call with an index, with a slice, with an element, with a value.
AtIndex(i) ==
  LET arg == [NoArg EXCEPT !.i = i] s == box.items IN
  \/ Called("list", "getitem", arg, getitem(s, i))
  \/ Called("list", "delitem", arg, delitem(s, i))
  \/ Called("list", "pop", arg, pop(s, i))
  \/ Called("list", "times", arg, times(s, i))
  \/ Called("string", "getitem", arg, charAt(s, i))
  \/ Called("entry", "getitem", arg, entryItem(s, i))
  \/ \E x \in Elem \cup {Alien} :
       \/ Called("list", "setitem", [arg EXCEPT !.x = x], setitem(s, i, x))
       \/ Called("list", "insert", [arg EXCEPT !.x = x], insert(s, i, x))

OfSlice(a, b) ==
  LET arg == [NoArg EXCEPT !.i = a, !.j = b] s == box.items IN
  \/ Called("list", "getslice", arg, getslice(s, a, b))
  \/ Called("list", "delslice", arg, delslice(s, a, b))
  \/ \E v \in Values : Called("list", "setslice", [arg EXCEPT !.v = v], setslice(s, a, b, v))

WithElement(x) ==
  LET arg == [NoArg EXCEPT !.x = x] s == box.items IN
  \/ Called("list", "index", arg, index(s, x))
  \/ Called("list", "count", arg, count(s, x))
  \/ Called("list", "contains", arg, contains(s, x))
  \/ Called("list", "append", arg, append(s, x))
  \/ Called("list", "iadd", arg, iadd(s, x))
  \/ Called("list", "remove", arg, remove(s, x))

WithValue(v) ==
  LET arg == [NoArg EXCEPT !.v = v] s == box.items IN
  \/ Called("list", "extend", arg, extend(s, v))
  \/ Called("list", "plus", arg, plus(s, v))
  \/ Called("string", "plus", arg, concat(s, v))

WithNothing ==
  \/ Called("list", "reversed", NoArg, reversed(box.items))
  \/ Called("list", "reverse", NoArg, reverse(box.items))
  \/ Called("array", "reversed", NoArg, reversed(box.items))
  \/ Called("array", "clone", NoArg, clone(box.items))

\* a[i] = x of an array, in bounds.
SetElement(i, x) ==
  /\ box.kind = "array" /\ i \in DOMAIN box.items /\ did.op = "none"
  /\ box' = [box EXCEPT !.items[i] = x]
  /\ UNCHANGED <<iter, did, mapVars>>

\* The caller goes on with the answer.
Taken ==
  /\ did.op # "none"
  /\ did' = NoCall
  /\ UNCHANGED <<box, iter, mapVars>>

-------------------------------------------------------------------------------
\* iter(l), of a list or an array.
IterNew ==
  /\ box.kind \in {"list", "array"} /\ ~iter.live /\ did.op = "none"
  /\ iter' = [NoIter EXCEPT !.live = TRUE]
  /\ UNCHANGED <<box, did, mapVars>>

\* __next__ of _JIterator: hasNext compares the position with the size, and
\* next() raises for a list that has changed; and of _JavaArrayIter.
IterNext ==
  /\ iter.live /\ iter.at # Len(box.items) /\ did.op = "none"
  /\ LET raised == iter.changed \/ iter.at > Len(box.items) IN
     /\ iter' = [iter EXCEPT !.at = IF raised THEN @ ELSE @ + 1]
     /\ did' = [NoCall EXCEPT !.op = "next", !.before = box.items, !.raised = raised,
                               !.answer = IF raised THEN <<>> ELSE <<box.items[iter.at + 1]>>]
  /\ UNCHANGED <<box, mapVars>>

\* StopIteration
IterStop ==
  /\ iter.live /\ iter.at = Len(box.items) /\ did.op = "none"
  /\ iter' = NoIter
  /\ did' = [NoCall EXCEPT !.op = "stop", !.before = box.items, !.arg.i = iter.at]
  /\ UNCHANGED <<box, mapVars>>

-------------------------------------------------------------------------------
\* Everyone who is in m[k] sees what the map has for the key.
Seen(value) == [u \in MapUser |->
  IF asking[u].pc = "idle" THEN asking[u] ELSE [asking[u] EXCEPT !.seen = @ \cup {value}]]

Answer(value, seen) == [pc |-> "idle", value |-> value, seen |-> seen]

\* m[k] = v, and del m[k] with "absent".
MapSet(value) ==
  /\ box.kind = "map"
  /\ jmap' = value
  /\ asking' = Seen(value)
  /\ UNCHANGED boxVars

\* __getitem__ gets the item, and asks for the key if that is None.
MapGet(u) ==
  /\ box.kind = "map" /\ asking[u].pc = "idle"
  /\ asking' = [asking EXCEPT ![u] =
       IF jmap \in {"absent", "None"} THEN [NotAsking EXCEPT !.pc = "contains", !.seen = {jmap}]
       ELSE Answer(jmap, {jmap})]
  /\ UNCHANGED <<jmap, boxVars>>

\* containsKey: None, or KeyError.
MapContains(u) ==
  /\ asking[u].pc = "contains"
  /\ asking' = [asking EXCEPT ![u] =
       Answer(IF jmap = "absent" THEN "KeyError" ELSE "None", @.seen)]
  /\ UNCHANGED <<jmap, boxVars>>

ContainerNext ==
  \/ \E i \in Index : AtIndex(i)
  \/ \E a, b \in Bounds : OfSlice(a, b)
  \/ \E x \in Elem \cup {Alien} : WithElement(x)
  \/ \E v \in Values : WithValue(v)
  \/ WithNothing
  \/ \E i \in 1 .. MaxLen, x \in Elem : SetElement(i, x)
  \/ Taken
  \/ IterNew \/ IterNext \/ IterStop
  \/ \E value \in {"absent", "None", "v"} : MapSet(value)
  \/ \E u \in MapUser : MapGet(u) \/ MapContains(u)

-------------------------------------------------------------------------------
\* What a Python list, or string, would do.

PyBound(i, default, n) ==
  IF i = Absent THEN default
  ELSE IF i < 0 THEN (IF i + n < 0 THEN 0 ELSE i + n) ELSE (IF i > n THEN n ELSE i)
PyWindow(s, a, b) ==
  LET start == PyBound(a, 0, Len(s))
      stop == PyBound(b, Len(s), Len(s))
  IN  [start |-> start, stop |-> IF stop < start THEN start ELSE stop]
PyHas(s, i) == i \in -Len(s) .. Len(s) - 1
PyAt(s, i) == (i + Len(s)) % Len(s)

\* The items after the call and the answer, for a call that does not raise.
PyResult(op, arg, s) ==
  LET w == PyWindow(s, arg.i, arg.j)
      where == {k \in DOMAIN s : s[k] = arg.x}
      first == CHOOSE k \in where : \A j \in where : k <= j
  IN CASE op = "getitem" -> <<s, <<s[PyAt(s, arg.i) + 1]>>>>
       [] op = "setitem" -> <<[s EXCEPT ![PyAt(s, arg.i) + 1] = arg.x], <<>>>>
       [] op = "delitem" -> <<Cut(s, PyAt(s, arg.i)), <<>>>>
       [] op = "pop" -> <<Cut(s, PyAt(s, arg.i)), <<s[PyAt(s, arg.i) + 1]>>>>
       [] op = "getslice" -> <<s, Window(s, w)>>
       [] op = "delslice" -> <<Cleared(s, w), <<>>>>
       [] op = "setslice" -> <<Spliced(Cleared(s, w), w.start, arg.v.items), <<>>>>
       [] op = "insert" -> <<Spliced(s, PyBound(arg.i, 0, Len(s)), <<arg.x>>), <<>>>>
       [] op = "append" -> <<Append(s, arg.x), <<>>>>
       [] op \in {"extend", "plus"} ->
            LET t == s \o Collected(s, arg.v) IN IF op = "plus" THEN <<s, t>> ELSE <<t, <<>>>>
       [] op = "times" -> <<s, [k \in 1 .. (IF arg.i < 0 THEN 0 ELSE arg.i * Len(s)) |->
                                  s[((k - 1) % Len(s)) + 1]]>>
       [] op = "index" -> <<s, <<first - 1>>>>
       [] op = "remove" -> <<Cut(s, first - 1), <<>>>>
       [] op = "count" -> <<s, <<Cardinality(where)>>>>
       [] op = "contains" -> <<s, <<where # {}>>>>
       [] op = "reverse" -> <<[k \in DOMAIN s |-> s[Len(s) + 1 - k]], <<>>>>
       [] op = "reversed" -> <<s, [k \in DOMAIN s |-> s[Len(s) + 1 - k]]>>
       [] op = "clone" -> <<s, s>>

\* A slice that lies in the list.
Inside(arg, s) ==
  /\ {arg.i, arg.j} \subseteq {Absent} \cup (-Len(s) .. Len(s))
  /\ PyBound(arg.i, 0, Len(s)) <= PyBound(arg.j, Len(s), Len(s))

\* The calls that must succeed.  A slice or an insert beyond the ends and a
\* str are refused where Python takes them, and so is a negative index of an entry
\* of a map.
Sound(op, arg, s) ==
  CASE op \in {"getitem", "delitem", "pop"} -> PyHas(s, arg.i) /\ (box.kind = "entry" => arg.i >= 0)
    [] op = "setitem" -> PyHas(s, arg.i) /\ arg.x # Alien
    [] op \in {"getslice", "delslice", "setslice"} -> Inside(arg, s)
    [] op = "insert" -> arg.i \in -Len(s) .. Len(s) /\ arg.x # Alien
    [] op = "append" -> arg.x # Alien
    [] op = "remove" -> \E k \in DOMAIN s : s[k] = arg.x
    [] op \in {"extend", "plus"} ->
         arg.v.kind = "seq" \/ (box.kind = "list" /\ arg.v.kind \in {"set", "self", "view"})
    [] op = "index" -> arg.x # Alien
    [] OTHER -> TRUE

\* The calls whose result is known not to be that of Python: += adds its argument
\* instead of what is in it, index() answers -1 for what is not there, and a slice
\* is cleared before the value is looked at, which may be no collection or the
\* list itself.
Other(op, arg, s) ==
  \/ op \in {"none", "next", "stop", "iadd"}
  \/ op = "index" /\ \A k \in DOMAIN s : s[k] # arg.x
  \/ op = "setslice" /\ arg.v.kind \notin {"seq", "set"}

\* The bounds of a slice are adjusted twice when it is deleted or assigned.
AdjustedTwice(op, arg, s) ==
  op \in {"delslice", "setslice"} /\ \E i \in {arg.i, arg.j} : i < -Len(s)

Agrees ==
  IF did.raised THEN ~Sound(did.op, did.arg, did.before) /\ box.items = did.before
  ELSE <<box.items, did.answer>> = PyResult(did.op, did.arg, did.before)

\* A call does to a Java list, string or array what the same call does to a Python
\* list or string, or it raises and leaves the list as it was; a call with an index
\* or a slice in range never raises.  An iteration hands out the elements in order
\* and ends after the last, or raises if the length has changed.  m[k] answers what
\* the map had for the key at some time during the call (None also if the key came
\* in between), and KeyError only if the key was missing.
ContainersAgree ==
  /\ Other(did.op, did.arg, did.before) \/ AdjustedTwice(did.op, did.arg, did.before) \/ Agrees
  /\ did.op = "next" =>
       IF did.raised THEN iter.changed ELSE did.answer = <<did.before[iter.at]>>
  /\ did.op = "stop" => did.arg.i = Len(did.before)
  /\ \A u \in MapUser : asking[u].value # "none" =>
       \/ asking[u].value \in asking[u].seen
       \/ "absent" \in asking[u].seen
           /\ (asking[u].value = "KeyError" \/ (asking[u].value = "None" /\ "v" \in asking[u].seen))
===============================================================================
