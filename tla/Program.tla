-------------------------------- MODULE Program --------------------------------
(***************************************************************************)
(* One Python process: a session with its JVM, or the Java data that the   *)
(* program works on once the JVM runs.  Session and Data share no state,   *)
(* so that a behaviour follows one of them and the other rests; every      *)
(* behaviour of either is one of a program.                                *)
(***************************************************************************)
EXTENDS Session, Data

VARIABLE follows   \* which of the two the behaviour follows

vars == <<sessionVars, dataVars, follows>>

Init ==
  /\ SessionInit /\ DataInit
  /\ follows \in {"session", "data"}
  /\ IF follows = "session"
     THEN doing = "settings" /\ box.kind = "map"
     ELSE disk = {} /\ left = CHOOSE w \in Workloads : TRUE

Next ==
  /\ UNCHANGED follows
  /\ \/ follows = "session" /\ SessionNext /\ UNCHANGED dataVars
     \/ follows = "data" /\ DataNext /\ UNCHANGED sessionVars

Spec == Init /\ [][Next]_vars
===============================================================================
