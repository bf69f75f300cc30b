------------------------------ MODULE MCProgram --------------------------------
(***************************************************************************)
(* A program for TLC.  Package org.late comes with the jars of the pattern *)
(* only, org.with is named by a keyword, x is an alias of a package.  The  *)
(* machines lead the search for the JVM over broken, foreign and missing   *)
(* libraries.                                                              *)
(***************************************************************************)
EXTENDS Program

MCEscaped == [k \in Keyword |-> "with_"]
MCBoot == {<<"org">>, <<"org", "with">>, <<"org", "with", "sub">>}
MCProvides == [j \in Jars |-> IF j \in Lib THEN {<<"org">>, <<"org", "late">>} ELSE {}]
MCNames == {<<"org", "late">>, <<"x", "late">>, <<"org", "with_">>, <<"org", "with_", "sub">>,
            <<"x">>}
MCDomains == {<<<<"x">>, <<"org">>>>, <<<<"x">>, <<"org", "late">>>>}
MCCustomized == {<<"org", "late">>}

MCEnv == <<"*">>

FS(javaHome, bin, children, good) ==
  [libs |-> [h \in {"h1", "h2", "h3"} |->
               IF h \in good THEN <<"server">> ELSE IF h = "h2" THEN <<"jamvm">> ELSE <<>>],
   javaHome |-> javaHome, bin |-> bin, children |-> children,
   registry |-> bin, toolHome |-> "none", foreign |-> {"h3"}]
H1 == <<[real |-> "h1", name |-> "jdk"]>>
MCMachines ==
  {[fs |-> FS("h2", "none", H1, {"h1"}), platform |-> "linux"],
   [fs |-> FS("h1", "h2", <<>>, {}), platform |-> "linux"],
   [fs |-> FS("h3", "h1", <<>>, {"h1", "h3"}), platform |-> "win32"],
   [fs |-> [FS("h1", "none", <<>>, {}) EXCEPT !.toolHome = "h1"], platform |-> "darwin"]}

\* Calls on the class path alone, or one with imports or proxies after it.
MCWorkloads ==
  {[paths |-> 3, imports |-> 0, proxies |-> 0],
   [paths |-> 1, imports |-> 3, proxies |-> 0],
   [paths |-> 1, imports |-> 0, proxies |-> 4]}

\* P is a proxy class, Q derives from it, R derives from it and is decorated
\* itself, S lacks a method of its interface.
MCPyClass == {"P", "Q", "R", "S"}
MCMro == [c \in MCPyClass |-> IF c \in {"Q", "R"} THEN <<c, "P">> ELSE <<c>>]
MCOverrides ==
  [c \in MCPyClass |-> CASE c = "P" -> {"run"} [] c = "Q" -> {} [] c \in {"R", "S"} -> {"call"}]
MCImplements ==
  [c \in MCPyClass |-> CASE c = "P" -> {"Runnable"} [] c = "Q" -> {} [] c = "R" -> {"Callable"}
                        [] c = "S" -> {"Future"}]
MCAbstract ==
  "Runnable" :> {"run"} @@ "Callable" :> {"call"} @@ "Future" :> {"call", "cancel"}
MCHomeJar ==
  "Runnable" :> "boot" @@ "Callable" :> "a" @@ "Future" :> "boot" @@ "String" :> "boot"

Kept(o) == [o |-> o, fresh |-> FALSE]
Fresh(o) == [o |-> o, fresh |-> TRUE]

\* Single objects, a graph that meets an object twice, and dumps that raise at the
\* first and at the second item.
MCDumps ==
  {<<Kept("a")>>, <<Fresh("a")>>, <<Kept("b")>>, <<Kept("a"), Fresh("a")>>, <<Kept("b"), Kept("a")>>,
   <<Kept(Unserializable)>>, <<Kept("a"), Kept(Unserializable)>>, <<Kept("b"), Kept(Unpicklable)>>}
===============================================================================
