-------------------------------- MODULE Imports --------------------------------
(***************************************************************************)
(* Java packages as Python modules: the finder and loader that             *)
(* jpype.imports puts on sys.meta_path, registerDomain and                 *)
(* registerImportCustomizer.                                               *)
(*                                                                         *)
(* A dotted name is the sequence of its parts.  A module made by the       *)
(* loader is a _JPackage, of which there is one for every Java name        *)
(* (PyJPPackage_new), so that it is written as that name; a module that a  *)
(* customizer provides is Foreign.  What a package holds is asked of the   *)
(* class loader every time, except what was found before, which stays.     *)
(***************************************************************************)
EXTENDS ClassPath

CONSTANTS
  Keyword,     \* parts of Java names that are Python keywords
  Escaped,     \* [Keyword -> STRING], the part with "_" after it
  Boot,        \* packages of the JVM
  Provides,    \* [Jars -> set of packages]
  Names,       \* the Python names a program imports
  Domains,     \* the pairs <<mod, alias>> a program registers
  Customized   \* names a customizer may claim

Foreign == <<"foreign">>

VARIABLES
  domains,      \* _JDOMAINS: [mod -> Java name]
  bound,        \* history: the pairs ever registered
  customizers,  \* the names claimed by _CUSTOMIZERS
  modules,      \* sys.modules: [Python name -> module]
  imported      \* the last import: its name and what it came to

importVars == <<domains, bound, customizers, modules, imported>>

NoImport == [name |-> <<>>, answer |-> "module", known |-> TRUE]

ImportInit ==
  /\ domains = <<"org">> :> <<"org">>
  /\ bound = {<<<<"org">>, <<"org">>>>}
  /\ customizers = {}
  /\ modules = <<>>
  /\ imported = NoImport

-------------------------------------------------------------------------------
\* unwrap, and safepkg on the Java side
unwrap(name) ==
  [i \in DOMAIN name |->
     IF \E k \in Keyword : Escaped[k] = name[i]
     THEN CHOOSE k \in Keyword : Escaped[k] = name[i] ELSE name[i]]

Visible == Boot \cup UNION {Provides[j] : j \in loader}

\* JPypeContext.isPackage: Java learns the keywords at the end of
\* initializeResources, after the initializers.
isPackage(name) == (IF started THEN unwrap(name) ELSE name) \in Visible

\* PyJPPackage_getattro of a package: a cached name, or a package to be seen.
hasattr(pkg, part) == isPackage(Append(pkg, part))

ModuleSpec(name, jname) == [kind |-> "spec", name |-> name, jname |-> jname]
None == [kind |-> "none"]
Error == [kind |-> "error"]

\* find_spec.  The parent of a dotted name has been imported by then.
find_spec(mods, name) ==
  CASE jvm # "on" ->
         IF <<Head(name)>> \in DOMAIN domains THEN Error ELSE None
    [] jvm = "on" /\ name \in DOMAIN domains ->
         IF isPackage(domains[name]) THEN ModuleSpec(name, domains[name]) ELSE Error
    [] jvm = "on" /\ name \notin DOMAIN domains /\ Len(name) = 1 ->
         IF isPackage(name) THEN ModuleSpec(name, name) ELSE None
    [] OTHER ->
         IF mods[Front(name)] = Foreign THEN None
         ELSE IF unwrap(name) \in customizers THEN ModuleSpec(unwrap(name), Foreign)
         ELSE IF hasattr(mods[Front(name)], Last(name))
         THEN ModuleSpec(unwrap(name), Append(mods[Front(name)], Last(unwrap(name)))) ELSE Error

\* Mutant: the alias in the spec is not used.
create_moduleByName(mods, spec) ==
  IF spec.jname = Foreign THEN Foreign
  ELSE IF Len(spec.name) = 1 THEN spec.name
  ELSE Append(mods[Front(spec.name)], Last(spec.name))

\* create_module: only a name without a dot goes by the name in the spec, any
\* other is an attribute of its parent.
create_module(mods, spec) ==
  IF Len(spec.name) = 1 \/ spec.jname = Foreign THEN spec.jname
  ELSE Append(mods[Front(spec.name)], Last(spec.name))

\* The attribute may be missing, for a domain registered with a dotted name.
creatable(mods, spec) ==
  spec.jname = Foreign \/ Len(spec.name) = 1 \/ hasattr(mods[Front(spec.name)], Last(spec.name))

\* importlib, for one name whose parent has been handled: the module is entered
\* under the name of its spec, and a parent that is not entered under the name
\* asked for is a KeyError.
ImportOne(st, name) ==
  IF ~st.ok \/ name \in DOMAIN st.mods THEN st
  ELSE IF Len(name) > 1 /\ Front(name) \notin DOMAIN st.mods THEN [st EXCEPT !.ok = FALSE]
  ELSE LET spec == find_spec(st.mods, name)
       IN  IF spec.kind # "spec" \/ ~creatable(st.mods, spec) THEN [st EXCEPT !.ok = FALSE]
           ELSE [st EXCEPT !.mods = (spec.name :> create_module(st.mods, spec)) @@ @]

\* import a.b.c imports a, then a.b, then a.b.c
ImportAll(name) ==
  FoldLeft(ImportOne, [ok |-> TRUE, mods |-> modules],
           [i \in 1 .. Len(name) |-> SubSeq(name, 1, i)])

-------------------------------------------------------------------------------
\* The Java package that a Python name stands for: a module that is already
\* there keeps the package it was made for.
JavaName(name) ==
  LET top == <<Head(name)>>
      package == IF top \in DOMAIN modules THEN modules[top]
                 ELSE IF top \in DOMAIN domains THEN domains[top] ELSE top
  IN  unwrap(package \o Tail(name))

\* Some customizer has or may have a module on the way to name.
Claimed(name) ==
  \E i \in 1 .. Len(name) : LET n == SubSeq(name, 1, i)
                            IN  \/ unwrap(n) \in customizers
                                \/ n \in DOMAIN modules /\ modules[n] = Foreign

\* import name
Import(name) ==
  /\ modules' = ImportAll(name).mods
  /\ imported' = [name |-> name,
                  answer |-> IF ImportAll(name).ok THEN "module" ELSE "ImportError",
                  known |-> jvm = "on" /\ started /\ JavaName(name) \in Visible /\ ~Claimed(name)]
  /\ UNCHANGED <<domains, bound, customizers>>

registerDomain(mod, alias) ==
  /\ domains' = (mod :> alias) @@ domains
  /\ bound' = bound \cup {<<mod, alias>>}
  /\ UNCHANGED <<customizers, modules, imported>>

registerImportCustomizer(name) ==
  /\ customizers' = customizers \cup {name}
  /\ UNCHANGED <<domains, bound, modules, imported>>

ImportNext ==
  \/ \E name \in Names : Import(name)
  \/ \E d \in Domains : registerDomain(d[1], d[2])
  \/ \E name \in Customized : registerImportCustomizer(name)

-------------------------------------------------------------------------------
\* A part of the name, but the last, is a keyword with its underscore: such a
\* module is entered under the bare keyword, and its own modules are not found
\* again (imports.py:231).
BelowKeyword(name) == \E i \in 1 .. Len(name) - 1 : \E k \in Keyword : Escaped[k] = name[i]

\* What import binds is the Java package that the name stands for: at the top
\* the alias or the name itself, below it the package of that name in the parent
\* module, at every depth and whatever is registered, added to the class path or
\* imported in between; and an import fails only when the class loader does not
\* have the package now, even if it failed before or the path came late.
ImportsResolve ==
  /\ \A n \in DOMAIN modules : modules[n] # Foreign =>
       IF Len(n) = 1 THEN <<n, modules[n]>> \in bound \cup {<<n, n>>}
       ELSE modules[n] = Append(modules[Front(n)], Last(n)) /\ modules[n] \in Visible
  /\ imported.known /\ ~BelowKeyword(imported.name) => imported.answer = "module"
===============================================================================
