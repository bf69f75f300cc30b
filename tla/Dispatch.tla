-------------------------------- MODULE Dispatch --------------------------------
(***************************************************************************)
(* Calling a Java method from Python.  TypeManager builds a dispatch for   *)
(* each class and name from the sorted overloads, and JPMethodDispatch     *)
(* picks one for the arguments of a call, or remembers the last pick.      *)
(*                                                                         *)
(* A call is one step.  A conversion may give the Python lock up in the    *)
(* middle of it, but the lists that the search reads do not change, and    *)
(* the two writes to the cache are under the lock together.                *)
(***************************************************************************)
EXTENDS MethodResolution, SequencesExt, Lists

CONSTANTS
  Quality(_, _),  \* findJavaConversion: how well a value fits a type
  Orders,       \* sequences of methods: what the classes declare, in the order
                \* in which reflection returns it
  Dispatches,   \* the <<class, name>> to build, superclasses first
  Arguments(_, _), \* for each of Orders and Dispatches argument lists without the
                \* receiver
  MaxCalls(_),  \* for each of Orders the bound on the calls made
  Receiver,     \* for each class an object of it
  NoMethod      \* a null pointer

VARIABLES
  order,        \* the one of Orders at hand
  todo,         \* dispatches that are left to build
  at,           \* what TypeManager is doing
  pos,          \* position of createMethods in out
  more,         \* for each JPMethod made its m_MoreSpecificOverloads
  overloads,    \* for each dispatch its m_Overloads
  last,         \* for each dispatch its m_LastOverload
  hash,         \* for each method its m_Hash
  call,         \* the call made last
  calls         \* how many were made

Type == Primitive \cup DOMAIN Super

\* The values that calls pass.
ValuesOf(s, d) == UNION {Range(values) : values \in Arguments(s, d)}
Passable ==
  Range(Receiver) \cup UNION {ValuesOf(s, d) : s \in Orders, d \in Range(Dispatches)}

\* What reflection reports: constructors have a name of their own, and a variable
\* number of arguments is an array in the last place.
ASSUME MethodAssumption ==
  /\ Method \subseteq [decl : DOMAIN Super, kind : {"static", "instance", "ctor"},
                      varargs : BOOLEAN, name : STRING, params : Seq(Type)]
  /\ \A m \in Method :
       /\ m.kind = "ctor" <=> m.name = "<init>"
       /\ m.varargs => /\ m.params # <<>>
                       /\ m.params[Len(m.params)] \in DOMAIN Component
                       /\ Component[m.params[Len(m.params)]] \in Type
  /\ NoMethod \notin Method
  /\ \A c \in DOMAIN Super : c \in Super[c]

ASSUME OrdersAssumption ==
  \A s \in Orders : s \in Seq(Method) /\ IsInjective(s)

ASSUME DispatchesAssumption ==
  /\ Dispatches \in Seq((DOMAIN Super \cap DOMAIN Receiver) \X STRING)
  /\ \A s \in Orders, d \in Range(Dispatches) : Arguments(s, d) \subseteq Seq(Passable)

buildVars == <<order, todo, at, pos, more, overloads>>
callVars == <<last, hash, call, calls>>
vars == <<sortVars, buildVars, callVars>>

NoHash == <<>>
NoCall == [d |-> <<>>]

Init ==
  /\ methods = <<>>
  /\ unsorted = <<>>
  /\ out = <<>>
  /\ order \in Orders
  /\ todo = Dispatches
  /\ at = "idle"
  /\ pos = 0
  /\ more = <<>>
  /\ overloads = <<>>
  /\ last = [d \in Range(Dispatches) |-> NoMethod]
  /\ hash = [m \in Range(order) |-> NoHash]
  /\ call = NoCall
  /\ calls = 0

-------------------------------------------------------------------------------
\* cls.getMethod finds another method than m, which the class itself or a superclass
\* below that of m declares again.
isOverridden(cls, m) ==
  \E o \in Range(order) :
    /\ o.name = m.name /\ o.params = m.params
    /\ o.decl \in Super[cls] \ Super[m.decl]
    /\ m.decl \in Super[o.decl]

filterOverridden(cls) ==
  {m \in Range(order) : m.decl \in Super[cls] /\ ~isOverridden(cls, m)}

\* The methods of the name, or the constructors, which are not inherited.
candidates(d) ==
  Keep(order, {m \in filterOverridden(d[1]) :
                 m.name = d[2] /\ (m.kind = "ctor" => m.decl = d[1])})

createMethodDispatch ==
  /\ at = "idle"
  /\ todo # <<>>
  /\ IF candidates(Head(todo)) = <<>>
     THEN todo' = Tail(todo) /\ UNCHANGED <<sortVars, at>>
     ELSE sortMethods(candidates(Head(todo))) /\ at' = "sort" /\ UNCHANGED todo
  /\ UNCHANGED <<order, pos, more, overloads, callVars>>

Sort ==
  /\ at = "sort"
  /\ SortStep
  /\ UNCHANGED <<buildVars, callVars>>

SortDone ==
  /\ at = "sort"
  /\ unsorted = <<>>
  /\ at' = "create"
  /\ UNCHANGED <<sortVars, order, todo, pos, more, overloads, callVars>>

\* An inherited method keeps the JPMethod of the class that declares it.
UseInherited ==
  /\ at = "create"
  /\ pos < Len(out)
  /\ out[pos + 1].decl # Head(todo)[1]
  /\ out[pos + 1] \in DOMAIN more
  /\ pos' = pos + 1
  /\ UNCHANGED <<sortVars, order, todo, at, more, overloads, callVars>>

\* A new JPMethod, with pointers to the less specific overloads.
DefineMethod ==
  /\ at = "create"
  /\ pos < Len(out)
  /\ LET m == out[pos + 1]
         ptr == [o \in children(m) |-> IF o \in DOMAIN more THEN o ELSE NoMethod]
     IN /\ m.decl = Head(todo)[1]
        /\ more' = [o \in DOMAIN more \cup {m} |-> IF o = m THEN Range(ptr) ELSE more[o]]
  /\ pos' = pos + 1
  /\ UNCHANGED <<sortVars, order, todo, at, overloads, callVars>>

\* The dispatch gets them with the most specific one first.
defineMethodDispatch ==
  /\ at = "create"
  /\ pos = Len(out)
  /\ overloads' = [d \in DOMAIN overloads \cup {Head(todo)} |->
                     IF d = Head(todo) THEN Reverse(out) ELSE overloads[d]]
  /\ todo' = Tail(todo)
  /\ at' = "idle"
  /\ pos' = 0
  /\ UNCHANGED <<sortVars, order, more, callVars>>

-------------------------------------------------------------------------------
\* populateMethod: the receiver is a parameter, except for a constructor.
ParameterTypes(m) == IF m.kind = "instance" THEN <<m.decl>> \o m.params ELSE m.params

isStatic(m) == m.kind = "static"

Offset(m, instance) == IF instance /\ isStatic(m) THEN 1 ELSE 0
Skip(m, instance) == IF instance \/ m.kind = "instance" THEN 1 ELSE 0

Worst(qualities) == Min({Exact} \cup qualities)

\* The fit of the first n arguments, after the receiver that a static method skips.
FixedMatch(m, instance, args, n) ==
  Worst({Quality(ParameterTypes(m)[i], args[i + Offset(m, instance)]) : i \in 1 .. n})

\* The fit of every further argument with the type of the elements.
matchVars(m, instance, args) ==
  LET tlen == Len(ParameterTypes(m))
      cls == Component[ParameterTypes(m)[tlen]]
  IN Worst({Quality(cls, args[i]) : i \in tlen + Offset(m, instance) .. Len(args)})

\* An argument in place of the array, which is looked for one place too early when
\* the receiver is skipped.
DirectMatch(m, instance, args) ==
  LET tlen == Len(ParameterTypes(m))
  IN IF Len(args) - Offset(m, instance) = tlen
     THEN Quality(ParameterTypes(m)[tlen], args[tlen - Offset(m, instance)])
     ELSE None

\* The last arguments go into an array unless one fits in its place.
VarMatch(m, instance, args, direct) ==
  IF direct >= Implicit THEN direct
  ELSE IF Len(args) - Offset(m, instance) < Len(ParameterTypes(m)) THEN Exact
  ELSE matchVars(m, instance, args)

Together(var, fixed) == IF var < Implicit THEN None ELSE Min({var, fixed})

matchesVariable(m, instance, args, direct) ==
  LET fixed == Len(ParameterTypes(m)) - 1
  IN [indirect |-> direct < Implicit,
      type |-> IF Len(args) - Offset(m, instance) < fixed THEN None
               ELSE Together(VarMatch(m, instance, args, direct),
                             FixedMatch(m, instance, args, fixed))]

\* JPMethod::matches: the fit, and whether the last arguments go into an array.
matches(m, instance, args) ==
  LET tlen == Len(ParameterTypes(m))
  IN IF m.varargs
     THEN matchesVariable(m, instance, args, DirectMatch(m, instance, args))
     ELSE [indirect |-> FALSE,
           type |-> IF Len(args) - Offset(m, instance) # tlen THEN None
                    ELSE FixedMatch(m, instance, args, tlen)]

\* Mutant: the methods are asked the wrong way round.
checkMoreSpecificThanSwapped(m, o) == m \in more[o]

checkMoreSpecificThan(m, o) == o \in more[m]

-------------------------------------------------------------------------------
\* The search over the overloads: the best so far, its fit, and those it could
\* not be told apart from.
Start == [best |-> NoMethod, type |-> None, ambiguous |-> {}, exact |-> FALSE]

\* The method is called the way it was declared.
Fits(m, instance) == instance = ~isStatic(m)

Switch(found, m, type) == [found EXCEPT !.best = m, !.type = type]

\* Neither hides the other: the better fit wins, and equal fits are ambiguous.
CompareFit(found, m, type) ==
  IF found.type < type THEN [Switch(found, m, type) EXCEPT !.ambiguous = {}]
  ELSE IF found.type > type THEN found
  ELSE [found EXCEPT !.ambiguous = @ \cup {m}]

\* Mutant: a less specific overload replaces the one that hides it.
ConsiderHidden(found, m, instance, type) ==
  IF found.exact THEN found
  ELSE IF type = Exact THEN [Switch(found, m, type) EXCEPT !.exact = TRUE]
  ELSE IF type < Implicit THEN found
  ELSE IF found.best = NoMethod \/ checkMoreSpecificThan(found.best, m)
  THEN Switch(found, m, type)
  ELSE CompareFit(found, m, type)

\* One turn of the loop of findOverload, for a method that fits as type says.
Consider(found, m, instance, type) ==
  IF found.exact THEN found
  ELSE IF type = Exact THEN [Switch(found, m, type) EXCEPT !.exact = TRUE]
  ELSE IF type < Implicit THEN found
  ELSE IF found.best = NoMethod THEN Switch(found, m, type)
  ELSE IF checkMoreSpecificThan(found.best, m) THEN found
  ELSE IF Fits(m, instance) /\ ~Fits(found.best, instance) THEN Switch(found, m, type)
  ELSE IF ~Fits(m, instance) /\ Fits(found.best, instance) THEN found
  ELSE CompareFit(found, m, type)

Ambiguous == [error |-> "ambiguous"]
NoMatch == [error |-> "no match"]

Outcome(found) ==
  IF found.ambiguous # {} THEN Ambiguous
  ELSE IF found.best = NoMethod THEN NoMatch
  ELSE found.best

\* The loop over the overloads, where fits has what matches says of each.
Search(d, instance, fits) ==
  LET list == overloads[d]
      found[i \in 0 .. Len(list)] ==
        IF i = 0 THEN Start
        ELSE Consider(found[i - 1], list[i], instance, fits[list[i]].type)
  IN found[Len(list)]

\* What is done without the cache: the method called, or the TypeError raised.
Resolve(d, instance, fits) == Outcome(Search(d, instance, fits))

\* JPMethodMatch::m_Hash, without collisions of the hash function: how the method
\* is called and the types of the arguments, with the code of functions.
TypeOf(v) ==
  <<IF v.py = "char" THEN "str" ELSE v.py, IF v.py = "java" THEN v.jclass ELSE "none", v.arity>>
Hash(instance, args) == <<instance, [i \in DOMAIN args |-> TypeOf(args[i])]>>

\* Whether the fit of a value follows from its type.  That of a sequence depends
\* on its items, that of a str on its length, and that of a proxy on its interfaces.
ByType(v) == v.py \notin {"list", "bytes", "bytearray", "str", "char", "proxy"}

\* What is taken of the conversions.
ASSUME QualityAssumption ==
  /\ \A t \in Type, v \in Passable : Quality(t, v) \in None .. Exact
  /\ \A t \in Type, v, w \in Passable :
       ByType(v) /\ TypeOf(v) = TypeOf(w) => Quality(t, v) = Quality(t, w)

\* Mutant: the hash of the cached method is not compared.
CachedAny(d, instance, args, fits) ==
  /\ last[d] # NoMethod
  /\ ~last[d].varargs
  /\ fits[last[d]].type > Explicit

\* The method found last is taken again for arguments of the same types.
Cached(d, instance, args, fits) ==
  /\ last[d] # NoMethod
  /\ ~last[d].varargs
  /\ hash[last[d]] = Hash(instance, args)
  /\ fits[last[d]].type > Explicit

\* Mutant: the receiver is not skipped in the last place.
VarSlotUnskipped(m, instance) == Len(ParameterTypes(m)) - 1

\* The parameter that takes the array.
VarSlot(m, instance) == Len(ParameterTypes(m)) - 1 - Skip(m, instance)

\* packArgs: for each parameter the positions of the arguments it is made of, from
\* zero; more than the last fixed one is left to the array.
packArgs(m, instance, args, indirect) ==
  LET tlen == Len(ParameterTypes(m))
      len == IF indirect THEN tlen - 1 ELSE Len(args)
      skip == Skip(m, instance)
  IN [j \in 0 .. Len(m.params) - 1 |->
        IF indirect /\ j = VarSlot(m, instance) THEN <<"array", tlen - 1, Len(args) - 1>>
        ELSE IF j + skip < len THEN <<"value", j + skip>>
        ELSE <<"unset">>]

isMethod(answer) == answer \in Range(order)

\* The index of a direct match is before the arguments.
OutOfRange(d, instance, args) ==
  \E m \in Range(overloads[d]) :
    m.varargs /\ Offset(m, instance) = 1 /\ Len(ParameterTypes(m)) = 1 /\ Len(args) = 2

\* The answer, and what the cache remembers of a search that succeeded.
findOverload(d, instance, args, fits) ==
  LET hit == Cached(d, instance, args, fits)
      answer == IF hit THEN last[d] ELSE Resolve(d, instance, fits)
  IN /\ call' = [d |-> d, instance |-> instance, args |-> args, fits |-> fits,
                  answer |-> answer]
     /\ IF isMethod(answer) /\ ~hit
        THEN /\ hash' = [hash EXCEPT ![answer] = Hash(instance, args)]
             /\ last' = [last EXCEPT ![d] = answer]
        ELSE UNCHANGED <<hash, last>>

\* PyJPMethod_call, of the class or of an object of it.
Call(d, instance, values) ==
  LET args == IF instance THEN <<Receiver[d[1]]>> \o values ELSE values
  IN /\ at = "idle" /\ todo = <<>>
     /\ calls < MaxCalls(order)
     /\ d[2] = "<init>" => ~instance
     /\ ~OutOfRange(d, instance, args)
     /\ findOverload(d, instance, args,
                     [m \in Range(overloads[d]) |-> matches(m, instance, args)])
     /\ calls' = calls + 1
     /\ UNCHANGED <<sortVars, buildVars>>

Next ==
  \/ createMethodDispatch \/ Sort \/ SortDone \/ UseInherited \/ DefineMethod
  \/ defineMethodDispatch
  \/ \E d \in DOMAIN overloads, instance \in BOOLEAN :
       \E values \in Arguments(order, d) : Call(d, instance, values)

Spec == Init /\ [][Next]_vars

-------------------------------------------------------------------------------
\* The overloads of the dispatch are of one class.  What is said only of these
\* fails for a dispatch with inherited ones: see the README.
OneClass(d) == \A m, o \in Range(overloads[d]) : m.decl = o.decl

\* The overloads that fit the arguments of the call.
Matching == {m \in DOMAIN call.fits : call.fits[m].type >= Implicit}

\* The answer is the one of the search.
Searched == call.answer = Resolve(call.d, call.instance, call.fits)

\* The search prefers the one to the other unless the other hides it.
Better(m, o) ==
  \/ Fits(m, call.instance) /\ ~Fits(o, call.instance)
  \/ /\ Fits(m, call.instance) = Fits(o, call.instance)
     /\ call.fits[m].type > call.fits[o].type

\* The method that the search finds is not one that a more specific overload, called
\* the same way and fitting as well, should have hidden: the order of the list and
\* the precedence lists agree with the rule of Java.  The exception is an overload
\* that was itself hidden, by one that it is better than: see the README.
MostSpecificWins ==
  call # NoCall /\ isMethod(call.answer) /\ OneClass(call.d) /\ Searched =>
    \A o \in Matching :
      /\ Fits(o, call.instance) = Fits(call.answer, call.instance)
      /\ call.fits[o].type >= call.fits[call.answer].type
      /\ Strict(o, call.answer)
      => \E x \in Matching : Strict(x, o) /\ Better(o, x)

\* A call is refused as ambiguous only if two overloads match and neither is more
\* specific than the other.
AmbiguityIsReal ==
  call # NoCall /\ call.answer = Ambiguous /\ OneClass(call.d) =>
    \E m, o \in Matching : m # o /\ ~Strict(m, o) /\ ~Strict(o, m)

\* A Java value other than a boxed one: boxed classes are unboxed to their own
\* primitive type only.
Unboxed(v) == v.py = "java" /\ v.jclass \notin {Boxed[p] : p \in Primitive}

\* A method that takes its arguments one by one.
Plain(m) == isStatic(m) /\ ~m.varargs

\* An overload is hidden by a more specific one whatever its own fit: what fits the
\* one fits the other as well, so the table of MethodResolution in Java and the
\* conversions in C++ agree on which type is the wider one.
HiddenFitsToo ==
  call # NoCall /\ (\A i \in DOMAIN call.args : Unboxed(call.args[i])) =>
    \A m \in Matching, o \in DOMAIN call.fits :
      Plain(m) /\ Plain(o) /\ Strict(m, o) => o \in Matching

\* No other dispatch has the method.
Alone(d, m) == \A e \in DOMAIN overloads \ {d} : m \notin Range(overloads[e])

\* The cache never changes which method is called, or that none is, unless the
\* method is one that another dispatch may remember a call of.
CacheTransparent ==
  /\ call # NoCall
  /\ \A i \in DOMAIN call.args : ByType(call.args[i])
  /\ Alone(call.d, call.answer)
  => Searched

\* Where each parameter of the method has to come from.
Passed(m, instance, args, indirect) ==
  LET first == IF instance \/ m.kind = "instance" THEN 1 ELSE 0
      n == Len(m.params)
  IN [j \in 0 .. n - 1 |->
        IF j = n - 1 /\ indirect THEN <<"array", first + j, Len(args) - 1>>
        ELSE <<"value", first + j>>]

\* Each argument reaches the parameter it was given for, whichever way the method
\* is called, except that a static method with a variable number of arguments is
\* called through an object.
ArgumentsArrive ==
  call # NoCall /\ isMethod(call.answer) =>
    LET m == call.answer
        indirect == call.fits[m].indirect
    IN \/ m.varargs /\ Offset(m, call.instance) = 1
       \/ packArgs(m, call.instance, call.args, indirect)
            = Passed(m, call.instance, call.args, indirect)
===============================================================================
