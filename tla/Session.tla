-------------------------------- MODULE Session --------------------------------
(***************************************************************************)
(* A Python program that uses one JVM: the class path, the packages it     *)
(* imports and the proxies it makes meet in the JVM's state and in its     *)
(* class loader.  The three parts take their steps in any order.           *)
(***************************************************************************)
EXTENDS Imports, Proxies

CONSTANT Workloads   \* bounds on a program: records of the calls it may make

VARIABLE left   \* the calls that are left: [paths, imports, proxies]

sessionVars == <<pathVars, importVars, proxyVars, left>>

SessionInit == PathInit /\ ImportInit /\ ProxyInit /\ left \in Workloads

Spend(part) == left[part] > 0 /\ left' = [left EXCEPT ![part] = @ - 1]

SessionNext ==
  \/ Spend("paths") /\ PathCall /\ UNCHANGED <<importVars, proxyVars>>
  \/ Spend("imports") /\ ImportNext /\ UNCHANGED <<pathVars, proxyVars>>
  \/ Spend("proxies") /\ ProxyNext /\ UNCHANGED <<pathVars, importVars>>
  \/ PathStep /\ UNCHANGED <<importVars, proxyVars, left>>

-------------------------------------------------------------------------------
\* Every variable has its type, and the state of startJVM agrees with the JVM:
\* a running JVM has a launch behind it, and one whose initializers raised is
\* never counted as started.
TypeOK ==
  /\ jvm \in {"off", "on", "down"} /\ started \in BOOLEAN
  /\ disk \subseteq Jars /\ loader \subseteq disk /\ owed \subseteq disk
  /\ CLASSPATHS \in Seq(Entry) /\ initializers \in Seq(Entry)
  /\ start.pc \in {"idle", "failed", "launch", "initialize", "done"}
  /\ jvm = "off" <=> start.pc \in {"idle", "failed", "launch"}
  /\ started => start.pc = "done" /\ (jvm = "on" => initializers = <<>>)
  /\ \A t \in Adders : adder[t].pc \in {"idle", "add"} /\ adder[t].path \in Entry
  /\ imported.answer \in {"module", "ImportError"}
  /\ \A c \in PyClass : interfaces[c] \subseteq Interface
===============================================================================
