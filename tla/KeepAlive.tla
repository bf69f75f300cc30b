------------------------------- MODULE KeepAlive -------------------------------
(***************************************************************************)
(* What the reference queue promises: a Python object registered for a     *)
(* Java object is held from the registration on, let go exactly once, and  *)
(* not before the Java object was found dead or the queue was told to      *)
(* stop.                                                                   *)
(***************************************************************************)
CONSTANT Ref

VARIABLES hold,      \* what was done for each registration
          dead,      \* the Java objects found dead
          stopped    \* the queue was told to stop

keepVars == <<hold, dead, stopped>>

Init ==
  /\ hold = [r \in Ref |-> "unregistered"]
  /\ dead = {}
  /\ stopped = FALSE

Hold(r) ==
  /\ hold[r] = "unregistered"
  /\ hold' = [hold EXCEPT ![r] = "held"]
  /\ UNCHANGED <<dead, stopped>>

LetGo(r) ==
  /\ hold[r] = "held"
  /\ r \in dead \/ stopped
  /\ hold' = [hold EXCEPT ![r] = "gone"]
  /\ UNCHANGED <<dead, stopped>>

Die(r) ==
  /\ hold[r] # "unregistered"
  /\ r \notin dead
  /\ dead' = dead \cup {r}
  /\ UNCHANGED <<hold, stopped>>

Stop ==
  /\ ~stopped
  /\ stopped' = TRUE
  /\ UNCHANGED <<hold, dead>>

Next == Stop \/ \E r \in Ref : Hold(r) \/ LetGo(r) \/ Die(r)

Spec == Init /\ [][Next]_keepVars
===============================================================================
