------------------------------- MODULE JavaTypes -------------------------------
(***************************************************************************)
(* The Java types that the overload rules tell apart, by their simple names. *)
(* The class hierarchy and the array types are parameters.                 *)
(***************************************************************************)
EXTENDS Naturals, Sequences, Functions

CONSTANTS Super,       \* for each reference type the types it is assignable to
          Component    \* for each array type the type of its elements

\* The primitive types and the class that boxes each.
Boxed == [byte |-> "Byte", char |-> "Character", short |-> "Short", int |-> "Integer",
          long |-> "Long", float |-> "Float", double |-> "Double", boolean |-> "Boolean"]
Primitive == DOMAIN Boxed

\* JPMatch::Type, how well a value fits a type.
None == 0
Explicit == 1
Implicit == 2
Derived == 3
Exact == 4

\* JNI IsAssignableFrom.
IsAssignableFrom(c1, c2) == c1 = c2 \/ (c1 \notin Primitive /\ c2 \in Super[c1])
===============================================================================
