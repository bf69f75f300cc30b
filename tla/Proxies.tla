-------------------------------- MODULE Proxies --------------------------------
(***************************************************************************)
(* Python classes that implement Java interfaces: @JImplements, checked at *)
(* the declaration or at the first instance (deferred), and the older      *)
(* JProxy.                                                                 *)
(*                                                                         *)
(* A Python class here has at most one base among the others.  JImplements *)
(* returns a subclass of the class it decorates, whose __new__ remembers   *)
(* that class and the interfaces; the pair is one class of the model.      *)
(***************************************************************************)
EXTENDS ClassPath

CONSTANTS
  PyClass,      \* the Python classes a program may declare
  Mro,          \* [PyClass -> Seq(PyClass)], the class itself first
  Overrides,    \* [PyClass -> methods with @JOverride in its own body]
  Implements,   \* [PyClass -> what @JImplements lists, {} without it]
  Interface,    \* Java interfaces
  Abstract,     \* [Interface -> its abstract methods]
  HomeJar       \* [Java class or interface -> the jar it comes from, or "boot"]

\* The mro of a base is part of that of the class.
ASSUME MroAssumption ==
  /\ Mro \in [PyClass -> Seq(PyClass)]
  /\ \A c \in PyClass : /\ Mro[c] # <<>> /\ Head(Mro[c]) = c
                        /\ \A d \in ToSet(Mro[c]) : ToSet(Mro[d]) \subseteq ToSet(Mro[c])
  /\ "JProxy" \notin PyClass

VARIABLES
  declared,    \* [PyClass -> "no", "plain", "checked" or "deferred"]
  interfaces,  \* __jpype_interfaces__ in the class itself, {} if it has none
  instances    \* the proxies: [class, interfaces]

proxyVars == <<declared, interfaces, instances>>

ProxyInit ==
  /\ declared = [c \in PyClass |-> "no"]
  /\ interfaces = [c \in PyClass |-> {}]
  /\ instances = {}

-------------------------------------------------------------------------------
\* _jpype.JClass(name) finds the class
Found(i) == jvm = "on" /\ HomeJar[i] \in loader \cup {"boot"}

\* _convertInterfaces: everything listed is found and is an interface.
convertInterfaces(intf) == intf # {} /\ \A i \in intf : Found(i) /\ i \in Interface

\* Mutant: one method of the interface is enough.
checkAnyOverride(c, intf) ==
  \A i \in intf : Abstract[i] \cap Overrides[c] # {}

\* _checkInterfaceOverrides, with _classOverrides: only the members of the class
\* itself count.
checkInterfaceOverrides(c, intf) ==
  \A i \in intf : Abstract[i] \subseteq Overrides[c]

\* _prepareInterfaces; either step raises.
prepareInterfaces(c, intf) == convertInterfaces(intf) /\ checkInterfaceOverrides(c, intf)

\* Attribute lookup: the first class of the mro that has the attribute, or "object"
Lookup(c, having) ==
  LET hits == {i \in DOMAIN Mro[c] : Mro[c][i] \in having}
  IN  IF hits = {} THEN "object" ELSE Mro[c][Min(hits)]

Decorated == {c \in PyClass : declared[c] \in {"checked", "deferred"}}
HasInterfaces == {c \in PyClass : interfaces[c] # {}}

-------------------------------------------------------------------------------
\* @JImplements(...), _createJProxy: the interfaces are checked at once.
DeclareChecked(c) ==
  /\ declared[c] = "no" /\ Implements[c] # {}
  /\ \A d \in ToSet(Tail(Mro[c])) : declared[d] # "no"
  /\ prepareInterfaces(c, Implements[c])
  /\ declared' = [declared EXCEPT ![c] = "checked"]
  /\ UNCHANGED <<interfaces, instances>>

\* @JImplements(..., deferred=True), _createJProxyDeferred
DeclareDeferred(c) ==
  /\ declared[c] = "no" /\ Implements[c] # {}
  /\ \A d \in ToSet(Tail(Mro[c])) : declared[d] # "no"
  /\ declared' = [declared EXCEPT ![c] = "deferred"]
  /\ UNCHANGED <<interfaces, instances>>

\* A class statement without the decorator
DeclarePlain(c) ==
  /\ declared[c] = "no" /\ Implements[c] = {}
  /\ \A d \in ToSet(Tail(Mro[c])) : declared[d] # "no"
  /\ declared' = [declared EXCEPT ![c] = "plain"]
  /\ UNCHANGED <<interfaces, instances>>

\* new of _createJProxy: the interfaces of the declaration.  PyJPProxy_new
\* needs the JVM.
NewChecked(c) ==
  LET d == Lookup(c, Decorated)
  IN  /\ declared[c] # "no" /\ d # "object" /\ declared[d] = "checked" /\ jvm = "on"
      /\ instances' = instances \cup {[class |-> c, interfaces |-> Implements[d]]}
      /\ UNCHANGED <<declared, interfaces>>

\* new of _createJProxyDeferred: __jpype_interfaces__ as getattr finds it, or
\* the result of the check, which is kept in the class instantiated.
NewDeferred(c) ==
  LET d == Lookup(c, Decorated)
      known == Lookup(c, HasInterfaces)
      intf == IF known # "object" THEN interfaces[known] ELSE Implements[d]
  IN  /\ declared[c] # "no" /\ d # "object" /\ declared[d] = "deferred" /\ jvm = "on"
      /\ known = "object" => prepareInterfaces(d, Implements[d])
      /\ interfaces' = IF known # "object" THEN interfaces
                       ELSE [interfaces EXCEPT ![c] = intf]
      /\ instances' = instances \cup {[class |-> c, interfaces |-> intf]}
      /\ UNCHANGED declared

\* JProxy(intf, dict=...) or JProxy(intf, inst=...): nothing is checked against
\* the interface.
NewJProxy(i) ==
  /\ convertInterfaces({i})
  /\ instances' = instances \cup {[class |-> "JProxy", interfaces |-> {i}]}
  /\ UNCHANGED <<declared, interfaces>>

ProxyNext ==
  \/ \E c \in PyClass : \/ DeclareChecked(c) \/ DeclareDeferred(c) \/ DeclarePlain(c)
                        \/ NewChecked(c) \/ NewDeferred(c)
  \/ \E i \in DOMAIN HomeJar : NewJProxy(i)

-------------------------------------------------------------------------------
\* Java can call every method of every interface of a proxy made with
\* JImplements: what an instance gets for __jpype_interfaces__ has been checked
\* against the methods it has, whoever was instantiated first, however the
\* classes derive from each other.
ProxyComplete ==
  \A p \in instances : p.class \in PyClass =>
    \A i \in p.interfaces : \A m \in Abstract[i] :
      \E d \in ToSet(Mro[p.class]) : m \in Overrides[d]
===============================================================================
