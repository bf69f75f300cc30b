---------------------------- MODULE MethodResolution ----------------------------
(***************************************************************************)
(* The order of the overloads of a Java method: which of two executables is *)
(* the more specific one, and the sort that puts a list of them from the   *)
(* least to the most specific (org.jpype.manager.MethodResolution).        *)
(*                                                                         *)
(* An executable is a record: the class that declares it, its kind, whether *)
(* it takes a variable number of arguments, its name and parameter types.  *)
(***************************************************************************)
EXTENDS JavaTypes

CONSTANT Method        \* the executables

VARIABLES methods,     \* the list given to sortMethods
          unsorted,    \* what it has not placed yet
          out          \* what it has placed

sortVars == <<methods, unsorted, out>>

-------------------------------------------------------------------------------
\* The wider types of each primitive type, itself included.
Wider == [byte |-> {"byte", "short", "int", "long", "float", "double"},
          char |-> {"char", "short", "int", "long", "float", "double"},
          short |-> {"short", "int", "long", "float", "double"},
          int |-> {"int", "long", "float", "double"},
          long |-> {"long", "float", "double"},
          float |-> {"float", "double"},
          double |-> {"double"},
          boolean |-> {"boolean"}]

\* The types that a parameter of a primitive type may be passed on to: the wider
\* ones and their boxed classes.
CONVERSION == [p \in Primitive |-> Wider[p] \cup {Boxed[q] : q \in Wider[p]}]

isAssignableTo(c1, c2) ==
  IF c1 \in Primitive THEN c2 \in CONVERSION[c1] ELSE c2 \in Super[c1]

AllAssignable(param1, param2) ==
  /\ Len(param1) = Len(param2)
  /\ \A i \in DOMAIN param1 : isAssignableTo(param1[i], param2[i])

\* The receiver counts as a parameter.
Params(m) == IF m.kind = "static" THEN m.params ELSE <<m.decl>> \o m.params

\* A variable number of arguments against a fixed one.
VarAgainstFixed(param1, param2) ==
  LET n == Len(param1)
      cls == Component[param1[n]]
  IN /\ n = Len(param2)
     /\ \/ AllAssignable(param1, param2)
        \/ AllAssignable([param1 EXCEPT ![n] = cls], param2)
     /\ ~(isAssignableTo(cls, param2[n]) /\ isAssignableTo(param2[n], cls))

\* A fixed number against a variable one, which is cut or repeated to fit.
FixedAgainstVar(param1, param2) ==
  LET n1 == Len(param1)
      n2 == Len(param2)
      cls == Component[param2[n2]]
  IN /\ n1 >= n2 - 1
     /\ \A i \in 1 .. n2 - 1 : isAssignableTo(param1[i], param2[i])
     /\ \/ \A i \in n2 .. n1 : isAssignableTo(param1[i], cls)
        \/ n1 = n2 /\ isAssignableTo(param1[n1], param2[n2])

isMoreSpecificThan(m1, m2) ==
  CASE m1.varargs /\ ~m2.varargs -> VarAgainstFixed(Params(m1), Params(m2))
    [] ~m1.varargs /\ m2.varargs -> FixedAgainstVar(Params(m1), Params(m2))
    [] OTHER -> AllAssignable(Params(m1), Params(m2))

-------------------------------------------------------------------------------
\* Mutant: two methods that are as specific as each other are children of each other.
childrenEitherWay(m) ==
  {o \in Range(methods) : o # m /\ isMoreSpecificThan(m, o)}

\* What the method must come after.
children(m) ==
  {o \in Range(methods) :
     /\ o # m
     /\ isMoreSpecificThan(m, o)
     /\ ~isMoreSpecificThan(o, m)}

isCovered(m) == children(m) \subseteq Range(out)

sortMethods(list) ==
  /\ methods' = list
  /\ unsorted' = list
  /\ out' = <<>>

\* Mutant: the first method that is left is taken, ready or not.
SortTakeAny ==
  /\ unsorted # <<>>
  /\ out' = Append(out, Head(unsorted))
  /\ unsorted' = Tail(unsorted)
  /\ UNCHANGED methods

\* The first method that is left has everything it must come after before it.
SortTake ==
  /\ unsorted # <<>>
  /\ isCovered(Head(unsorted))
  /\ out' = Append(out, Head(unsorted))
  /\ unsorted' = Tail(unsorted)
  /\ UNCHANGED methods

\* It has not, and goes to the end of the queue.
SortDefer ==
  /\ unsorted # <<>>
  /\ ~isCovered(Head(unsorted))
  /\ unsorted' = Append(Tail(unsorted), Head(unsorted))
  /\ UNCHANGED <<methods, out>>

SortStep == SortTake \/ SortDefer

\* The sort on its own, of any list of methods without repetition.
SortInit ==
  /\ methods \in Seq(Method)
  /\ \A i, j \in DOMAIN methods : methods[i] = methods[j] => i = j
  /\ unsorted = methods
  /\ out = <<>>

SortSpec == SortInit /\ [][SortStep]_sortVars

-------------------------------------------------------------------------------
\* The sort keeps sequences of methods.
SortTypeOK == {methods, unsorted, out} \subseteq Seq(Method)

\* What is placed has nothing less specific after it, so that createMethods has
\* defined every method of a precedence list before it writes its pointer.
SortedOut ==
  \A i, j \in DOMAIN out :
    isMoreSpecificThan(out[i], out[j]) /\ ~isMoreSpecificThan(out[j], out[i]) => j < i

\* No method is lost, and none is in the result twice.
SortKeepsAll ==
  /\ Range(unsorted) \cup Range(out) = Range(methods)
  /\ \A i, j \in DOMAIN out : out[i] = out[j] => i = j

Strict(m, o) == isMoreSpecificThan(m, o) /\ ~isMoreSpecificThan(o, m)

\* Methods each of which is strictly more specific than another of them.
Circular(S) == S # {} /\ \A m \in S : \E o \in S : Strict(m, o)

\* While methods are left, one of them can be placed.
CanPlace == \E m \in Range(unsorted) : isCovered(m)

\* The loop over the queue, which has no other way out than to empty it, is stuck
\* for nothing but methods that are more specific than each other in a circle, and
\* a circle is never got through: the sort of a list comes to an end exactly if
\* the list holds none.
SortNeverStuck ==
  unsorted # <<>> =>
    /\ CanPlace \/ Circular(Range(unsorted))
    /\ \A S \in SUBSET Range(methods) : Circular(S) => S \cap Range(out) = {}

-------------------------------------------------------------------------------
\* What the comment of sortMethods promises of any list, "Order methods from least to
\* most specific": the queue can be emptied.
SortGoesOn == unsorted # <<>> => CanPlace
===============================================================================
