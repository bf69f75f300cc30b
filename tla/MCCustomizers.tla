----------------------------- MODULE MCCustomizers -----------------------------
(***************************************************************************)
(* An instance of Customizers: Sub extends Outer, and the inner class In   *)
(* of Outer extends Sub, so that making Sub comes back to Sub.             *)
(***************************************************************************)
EXTENDS Customizers

MCClass == {"Outer", "Sub", "In"}
MCBases == [Outer |-> <<>>, Sub |-> <<"Outer">>, In |-> <<"Sub">>]
MCMro == [Outer |-> <<"Outer">>, Sub |-> <<"Sub", "Outer">>, In |-> <<"In", "Sub", "Outer">>]
MCInner == [Outer |-> {"In"}, Sub |-> {}, In |-> {}]
MCOwners == {"Outer", "In"}
MCProto == {[target |-> "Outer", init |-> TRUE, override |-> "plain"],
            [target |-> "Outer", init |-> FALSE, override |-> "sticky"],
            [target |-> "Sub", init |-> TRUE, override |-> "sticky"]}
===============================================================================
