------------------------------- MODULE Conversion -------------------------------
(***************************************************************************)
(* How well a Python value fits a Java type: findJavaConversion of each kind *)
(* of type, a chain of rules of which the first that answers decides        *)
(* (jp_classhints.cpp and the files of the types).                         *)
(*                                                                         *)
(* A value is a record: the Python type, the Java class when it is a Java   *)
(* value (or the interface of a proxy), the items of a sequence, and the   *)
(* numbers of arguments that a function accepts.  "char" is a str that      *)
(* holds one character.                                                    *)
(***************************************************************************)
EXTENDS JavaTypes, FiniteSetsExt

CONSTANTS Hints,        \* the hints of each class that has any, in order
          Functional    \* for each functional interface its number of parameters

\* The rule says nothing, and the next one is asked.
Continue == 5

FirstOf(answers) ==
  LET given == {i \in DOMAIN answers : answers[i] # Continue}
  IN IF given = {} THEN None ELSE answers[Min(given)]

\* The answer of a rule, of a rule that may find no match, and of two chains.
When(condition, quality) == IF condition THEN quality ELSE Continue
WhenFits(condition, quality) == When(condition /\ quality # None, quality)
OrElse(first, second) == IF first # None THEN first ELSE second

-------------------------------------------------------------------------------
isJava(v) == v.py = "java"
isStr(v) == v.py \in {"str", "char"}

Integral == {"boolean", "char", "byte", "short", "int", "long"}
Numeric == Primitive \cup {Boxed[p] : p \in Primitive}

\* PyIndex_Check and PyNumber_Check; Python numbers stand behind Java's.
isIndex(v) ==
  \/ v.py \in {"bool", "int"}
  \/ isJava(v) /\ v.jclass \in Integral \cup {Boxed[p] : p \in Integral}
isNumber(v) == v.py = "float" \/ isIndex(v) \/ (isJava(v) /\ v.jclass \in Numeric)

-------------------------------------------------------------------------------
\* What isinstance looks at.
Kind(v) == IF isJava(v) THEN v.jclass ELSE v.py

HintsOf(cls) == IF cls \in DOMAIN Hints THEN Hints[cls] ELSE <<>>

\* JPClassHints::m_ConvertJava.
ConvertsJava(cls) == \E i \in DOMAIN HintsOf(cls) : HintsOf(cls)[i].java

\* An excluded type ends the search without a match.
hintsConversion(cls, v) ==
  LET hints == HintsOf(cls)
      hits == {i \in DOMAIN hints : Kind(v) \in hints[i].types}
  IN When(hits # {} /\ ~hints[Min(hits)].exclude, Implicit)

nullConversion(v) == When(v.py = "None", Implicit)

\* A Java value goes no further, unless a hint asks for it.
objectConversion(cls, v) ==
  IF ~isJava(v) THEN Continue
  ELSE IF v.jclass = cls THEN Exact
  ELSE IF IsAssignableFrom(v.jclass, cls) THEN Derived
  ELSE IF ConvertsJava(cls) THEN Continue ELSE None

proxyConversion(cls, v) ==
  When(v.py = "proxy" /\ IsAssignableFrom(v.jclass, cls), Implicit)

stringConversion(cls, v) == When(isStr(v), IF cls = "String" THEN Exact ELSE Implicit)

boxBooleanConversion(v) == When(v.py = "bool", Implicit)
boxLongConversion(v) == When(isIndex(v), Implicit)
boxDoubleConversion(v) == When(isNumber(v), Implicit)
classConversion(v) == When(v.py = "class", Implicit)

javaObjectAnyConversion(cls, v) ==
  When(isJava(v), IF v.jclass \in Primitive THEN Implicit
                  ELSE IF v.jclass = cls THEN Exact ELSE Derived)

javaNumberAnyConversion(cls, v) ==
  IF ~isJava(v) \/ v.jclass \in {"boolean", "char"} THEN Continue
  ELSE IF v.jclass = cls THEN Exact
  ELSE When(v.jclass \in Primitive \/ IsAssignableFrom(v.jclass, cls), Implicit)

-------------------------------------------------------------------------------
ClassChain(cls, v) ==
  FirstOf(<<nullConversion(v), objectConversion(cls, v), proxyConversion(cls, v),
            hintsConversion(cls, v)>>)

ObjectChain(cls, v) ==
  FirstOf(<<nullConversion(v), javaObjectAnyConversion(cls, v), stringConversion(cls, v),
            boxBooleanConversion(v), boxLongConversion(v), boxDoubleConversion(v),
            classConversion(v), proxyConversion(cls, v), hintsConversion(cls, v)>>)

StringChain(cls, v) ==
  FirstOf(<<nullConversion(v), objectConversion(cls, v), stringConversion(cls, v),
            hintsConversion(cls, v)>>)

NumberChain(cls, v) ==
  FirstOf(<<nullConversion(v), javaNumberAnyConversion(cls, v), boxLongConversion(v),
            boxDoubleConversion(v), hintsConversion(cls, v)>>)

ClassTypeChain(cls, v) ==
  FirstOf(<<nullConversion(v), objectConversion(cls, v), classConversion(v),
            hintsConversion(cls, v)>>)

\* A callable fits when it accepts as many arguments as the interface passes;
\* a class, which is callable too, is not asked how many.
FunctionalChain(cls, v) ==
  OrElse(ClassChain(cls, v),
         FirstOf(<<When(v.py = "class" \/ (v.py = "function" /\ Functional[cls] \in v.arity),
                        Implicit)>>))

-------------------------------------------------------------------------------
\* Mutant: a char is not widened.
NarrowerNoChar == [byte |-> {}, char |-> {}, boolean |-> {},
                   short |-> {"byte"},
                   int |-> {"short", "byte"},
                   long |-> {"int", "short", "byte"},
                   float |-> {"byte", "short", "int", "long"},
                   double |-> {"byte", "short", "int", "long", "float"}]

\* The primitive types that each type takes by widening.
Narrower == [byte |-> {}, char |-> {}, boolean |-> {},
             short |-> {"char", "byte"},
             int |-> {"char", "short", "byte"},
             long |-> {"int", "char", "short", "byte"},
             float |-> {"byte", "short", "char", "int", "long"},
             double |-> {"byte", "short", "char", "int", "long", "float"}]

\* The rule of each primitive type for Java values: itself, its boxed class and
\* the narrower types; no other Java value fits.
javaPrimitive(cls, v) ==
  When(isJava(v),
       IF v.jclass = cls THEN Exact
       ELSE IF v.jclass = Boxed[cls] THEN Implicit
       ELSE IF v.jclass \in Narrower[cls] THEN Implicit
       ELSE None)

BooleanChain(v) ==
  FirstOf(<<When(v.py = "bool", Exact), javaPrimitive("boolean", v),
            When(isIndex(v), Implicit), When(isNumber(v), Explicit)>>)

CharChain(v) == FirstOf(<<javaPrimitive("char", v), When(v.py = "char", Implicit)>>)

IntegralChain(cls, v) ==
  FirstOf(<<javaPrimitive(cls, v), When(isIndex(v), Implicit), When(isNumber(v), Explicit)>>)

ByteChain(v) == IntegralChain("byte", v)
ShortChain(v) == IntegralChain("short", v)
IntChain(v) == IntegralChain("int", v)
LongChain(v) == IntegralChain("long", v)

FloatChain(v) == FirstOf(<<javaPrimitive("float", v), When(isNumber(v), Implicit)>>)

DoubleChain(v) ==
  FirstOf(<<javaPrimitive("double", v), When(v.py = "float", Exact),
            When(isNumber(v), Implicit)>>)

PrimitiveChain(cls, v) ==
  IF v.py = "None" THEN None
  ELSE CASE cls = "boolean" -> BooleanChain(v)
         [] cls = "char" -> CharChain(v)
         [] cls = "byte" -> ByteChain(v)
         [] cls = "short" -> ShortChain(v)
         [] cls = "int" -> IntChain(v)
         [] cls = "long" -> LongChain(v)
         [] cls = "float" -> FloatChain(v)
         [] cls = "double" -> DoubleChain(v)

Lowered(quality) == IF quality \in {Exact, Derived} THEN quality - 1 ELSE quality

\* A boxed class takes what its primitive type takes, one level lower.
BoxedChain(cls, v) ==
  OrElse(ClassChain(cls, v), Lowered(PrimitiveChain(CHOOSE p \in Primitive : Boxed[p] = cls, v)))

-------------------------------------------------------------------------------
RECURSIVE findJavaConversion(_, _)

\* A sequence fits as well as its worst item, and at most implicitly.
sequenceConversion(component, v) ==
  WhenFits(v.py \in {"list", "bytes", "bytearray"},
           Min({Implicit} \cup {findJavaConversion(component, v.items[i]) :
                                  i \in DOMAIN v.items}))

\* Only the first item of a buffer is looked at.
bufferConversion(component, v) ==
  WhenFits(/\ component \in Primitive
           /\ v.py = "bytes" \/ (v.py = "bytearray" /\ component \notin {"char", "byte"}),
           Min({Implicit} \cup {findJavaConversion(component, v.items[i]) :
                                  i \in DOMAIN v.items \cap {1}}))

charArrayConversion(component, v) == When(isStr(v) /\ component = "char", Implicit)

byteArrayConversion(component, v) ==
  When(component = "byte" /\ v.py \in {"bytes", "bytearray"},
       IF v.py = "bytes" THEN Implicit ELSE Derived)

ArrayChain(cls, v) ==
  LET component == Component[cls]
  IN FirstOf(<<nullConversion(v), objectConversion(cls, v), charArrayConversion(component, v),
               byteArrayConversion(component, v), bufferConversion(component, v),
               sequenceConversion(component, v), hintsConversion(cls, v)>>)

findJavaConversion(cls, v) ==
  CASE cls \in Primitive -> PrimitiveChain(cls, v)
    [] cls \in DOMAIN Component -> ArrayChain(cls, v)
    [] cls \in {Boxed[p] : p \in Primitive} -> BoxedChain(cls, v)
    [] cls \in DOMAIN Functional -> FunctionalChain(cls, v)
    [] cls = "Object" -> ObjectChain(cls, v)
    [] cls \in {"String", "CharSequence"} -> StringChain(cls, v)
    [] cls = "Number" -> NumberChain(cls, v)
    [] cls \in {"Class", "Throwable"} -> ClassTypeChain(cls, v)
    [] OTHER -> ClassChain(cls, v)
===============================================================================
