-------------------------------- MODULE MCDbApi --------------------------------
(***************************************************************************)
(* Instances of DbApi: a query with two result sets, one of a type that a  *)
(* program may register, and an insert with a parameter.                   *)
(***************************************************************************)
EXTENDS DbApi, TLC

Col(code) == [code |-> code, name |-> code]

Select ==
  [params |-> <<>>,
   results |-> <<SetOf(2, Col("INTEGER")), SetOf(1, [code |-> "OTHER", name |-> "JSON"])>>]
Insert == [params |-> <<"in">>, results |-> <<Count(1)>>]

MCQuery == {Select, Insert}
Threads == Permutations(Thread)
MCUserType == {[name |-> "JSON", code |-> "OTHER"]}
===============================================================================
