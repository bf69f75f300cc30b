------------------------------- MODULE MCDispatch -------------------------------
(***************************************************************************)
(* Dispatch for TLC: three classes A, B and C, each of which extends the   *)
(* one before, a few of the types of java.lang, and every order of up to   *)
(* MaxMethods overloads, or MaxCircle of those that make a circle.         *)
(***************************************************************************)
EXTENDS Dispatch, Conversion

CONSTANTS MaxMethods,    \* bound on the overloads declared
          MaxTypes,      \* the same for one overload for each kind of type
          MaxCircle      \* the same for Serializable and Cloneable

Extends(super, classes) == [c \in classes |-> {c, "Object"} \cup super]

TheComponent ==
  ("char[]" :> "char") @@ ("int[]" :> "int") @@ ("byte[]" :> "byte") @@ ("A[]" :> "A") @@
  ("Serializable[]" :> "Serializable") @@ ("Cloneable[]" :> "Cloneable")
TheSuper ==
  Extends({}, {"Object", "CharSequence", "Serializable", "Cloneable", "A", "F"}) @@
  Extends({"Serializable"}, {"Number", "Class", "Throwable", "Boolean", "Character"}) @@
  Extends({"Serializable", "Number"}, {"Byte", "Short", "Integer", "Long", "Float", "Double"}) @@
  Extends({"Serializable", "CharSequence"}, {"String"}) @@
  Extends({"Serializable", "Cloneable"}, DOMAIN TheComponent) @@
  Extends({"A"}, {"B"}) @@
  Extends({"A", "B"}, {"C"})
TheFunctional == [F |-> 1]

Executable(decl, kind, varargs, params) ==
  [decl |-> decl, kind |-> kind, varargs |-> varargs,
   name |-> IF kind = "ctor" THEN "<init>" ELSE "f", params |-> params]

AStatic(type) == Executable("A", "static", FALSE, <<type>>)

\* Overloads of one or two names, by what they share: hiding by class and by
\* receiver, and a variable number of arguments.
TheMethods ==
  {AStatic("Object"), AStatic("A"), AStatic("int"),
   Executable("A", "static", TRUE, <<"int", "int[]">>),
   Executable("A", "instance", TRUE, <<"int[]">>),
   Executable("A", "instance", FALSE, <<>>),
   Executable("B", "static", FALSE, <<"A">>),
   Executable("A", "ctor", FALSE, <<"int">>)}

\* A type between two others hides the one and is hidden by the other, which does not
\* hide the first: int, Integer and Object.
HidingMethods ==
  {Executable("A", "instance", FALSE, <<"int">>),
   Executable("A", "static", FALSE, <<"A", "Integer">>),
   Executable("A", "static", FALSE, <<"A", "Object">>)}

\* An overload for each kind of type.
TypeMethods ==
  {AStatic(type) : type \in Primitive \cup
     {"Integer", "Number", "Object", "String", "Class", "A", "F", "int[]", "byte[]"}}

\* Arrays are both Serializable and Cloneable, so each of these is more specific than
\* the next, and the last than the first: one Serializable, any number of them, one
\* Cloneable, any number of them.
AVarStatic(type) == Executable("A", "static", TRUE, <<type>>)
CircleMethods ==
  {AStatic("Serializable"), AVarStatic("Serializable[]"), AStatic("Cloneable"),
   AVarStatic("Cloneable[]")}

AllMethods == TheMethods \cup HidingMethods \cup TypeMethods \cup CircleMethods

\* Any choice of up to n of them in any order.
AnyOrderOf(S, n) == {s \in BoundedSeq(S, n) : IsInjective(s)}
CircleOrder == AnyOrderOf(CircleMethods, MaxCircle)
TypeOrder == AnyOrderOf(TypeMethods, MaxTypes)
AnyOrder ==
  AnyOrderOf(TheMethods, MaxMethods) \cup AnyOrderOf(HidingMethods, MaxMethods)
    \cup TypeOrder \cup CircleOrder

ClassesABC == <<<<"A", "f">>, <<"A", "<init>">>, <<"B", "f">>, <<"C", "f">>>>

Value(py, jclass) == [py |-> py, jclass |-> jclass, items |-> <<>>, arity |-> {}]
TheReceiver ==
  [A |-> Value("java", "A"), B |-> Value("java", "B"), C |-> Value("java", "C")]

\* No argument, one of each kind, and the lists that a receiver given by hand or a
\* variable number of arguments make different.
TheArguments ==
  {<<>>} \cup {<<Value("int", "none")>>, <<Value("None", "none")>>, <<Value("java", "A")>>,
   <<Value("java", "B")>>, <<Value("java", "int")>>, <<Value("java", "int[]")>>,
   <<Value("java", "B"), Value("int", "none")>>,
   <<Value("int", "none"), Value("int", "none")>>,
   <<Value("java", "A"), Value("int", "none"), Value("int", "none")>>}

\* One value of each kind: Java values of every type, Python values, sequences with
\* items, functions of one and of two arguments.
Sequence(py, items) == [Value(py, "none") EXCEPT !.items = items]
Function(n) == [Value("function", "none") EXCEPT !.arity = {n}]
TypeArguments ==
  {<<v>> : v \in
     {Value("java", type) : type \in Primitive \cup DOMAIN TheSuper} \cup
     {Value(py, "none") : py \in {"None", "bool", "int", "float", "str", "char", "class"}} \cup
     {Value("proxy", "F"), Function(1), Function(2)} \cup
     {Sequence(py, <<Value("int", "none")>>) : py \in {"list", "bytes", "bytearray"}} \cup
     {Sequence("list", <<Value("int", "none"), Value("java", "A")>>)}}

\* The overloads for each kind of type are called as methods of A, with each kind of
\* value, once; others are called twice, those of C as little as shows what it inherits.
ForTypes(s) == s # <<>> /\ s \in TypeOrder
AnyArguments(s, d) ==
  IF ForTypes(s) THEN {values \in TypeArguments : d[1] = "A"}
  ELSE IF d[1] = "C" THEN {<<Value("java", "B")>>} ELSE TheArguments
AnyCalls(s) == IF ForTypes(s) THEN 1 ELSE 2

\* A takes a float by a hint that comes after one that excludes bool.
TheHints ==
  [A |-> <<[types |-> {"bool"}, exclude |-> TRUE, java |-> FALSE],
           [types |-> {"bool", "float"}, exclude |-> FALSE, java |-> FALSE]>>]
===============================================================================
