--------------------------------- MODULE Data ----------------------------------
(***************************************************************************)
(* Java data in a Python program: containers under Python syntax, pickles  *)
(* with Java objects, and the transactions and the settings of shared      *)
(* database connections.  They share no state (a setting and a transaction *)
(* no more than an open connection), so that a behaviour uses one of them. *)
(***************************************************************************)
EXTENDS Containers, Pickles, Connections

VARIABLE doing   \* what the program does with Java data

dataVars == <<containerVars, pickleVars, dbVars, doing>>

DataInit ==
  /\ ContainerInit /\ PickleInit /\ DbInit
  /\ doing \in {"containers", "pickles", "transactions", "settings"}
  /\ doing # "containers" => box.kind = "map"

DataNext ==
  /\ UNCHANGED doing
  /\ \/ doing = "containers" /\ ContainerNext /\ UNCHANGED <<pickleVars, dbVars>>
     \/ doing = "pickles" /\ PickleNext /\ UNCHANGED <<containerVars, dbVars>>
     \/ /\ \/ doing = "transactions" /\ (Connecting \/ Transacting)
           \/ doing = "settings" /\ (Connecting \/ Setting)
        /\ UNCHANGED <<containerVars, pickleVars>>
===============================================================================
