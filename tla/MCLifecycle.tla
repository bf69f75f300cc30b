------------------------------ MODULE MCLifecycle ------------------------------
(***************************************************************************)
(* Lifecycle for TLC.  Hook threads are interchangeable, and so are the    *)
(* functions given to onJVMStart.                                          *)
(***************************************************************************)
EXTENDS Lifecycle, TLC

AnyConfig == [destroy_jvm : BOOLEAN, free_resources : BOOLEAN, onexit : BOOLEAN]

\* The values that jpype/config.py sets.
DefaultConfig == {[destroy_jvm |-> TRUE, free_resources |-> TRUE, onexit |-> TRUE]}

Symmetric == Permutations(Hook) \cup Permutations(Func)
===============================================================================
