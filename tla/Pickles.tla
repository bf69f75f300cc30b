-------------------------------- MODULE Pickles --------------------------------
(***************************************************************************)
(* jpype.pickle: a JPickler writes Python data with Java objects in it to  *)
(* a file, each object as a piece of one ObjectOutputStream that lives as  *)
(* long as the pickler; a JUnpickler hands the pieces to one               *)
(* ObjectInputStream.  Both keep a table of the objects they have met, and *)
(* so does the Python pickler, for wrappers: a stream is understood only   *)
(* by a reader that has read all of it.                                    *)
(*                                                                         *)
(* A dump is a sequence of items: a Java object through the wrapper that   *)
(* the program keeps or through a new one, an object that is not           *)
(* Serializable, or a Python object that cannot be pickled.  The program   *)
(* goes on after a dump that raised, and stops reading after a load that   *)
(* raised.                                                                 *)
(***************************************************************************)
EXTENDS Integers, Sequences, SequencesExt, FiniteSets

CONSTANTS Object,     \* Serializable Java objects
          Dumps,      \* sequences of items that a program dumps
          MaxDumps, MaxVersion   \* bounds: dumps of a program, changes of an object

VARIABLES heap,     \* the content of each object, a version number
          pickler,  \* the JPickler that is writing
          file,     \* the pickles in the file
          reader,   \* the Unpickler that is reading
          loads     \* what its loads have returned

pickleVars == <<heap, pickler, file, reader, loads>>

Unserializable == "unserializable"
Unpicklable == "unpicklable"
Item == [o : Object, fresh : BOOLEAN]

ASSUME DumpsAssumption ==
  /\ Dumps \subseteq Seq(Item \cup [o : {Unserializable, Unpicklable}, fresh : {FALSE}])
  /\ <<>> \notin Dumps    \* without a Java object it is a plain pickle
  /\ MaxDumps \in Nat /\ MaxVersion \in Nat

\* The pieces of an ObjectOutputStream.
Header == [t |-> "header"]
New(o) == [t |-> "new", o |-> o, v |-> heap[o]]
Ref(h) == [t |-> "ref", h |-> h]
Abort == [t |-> "abort"]

Unwritten == -1

\* pickle.Pickler and _JDispatch with its Encoder: the bytes in the stream that are
\* not taken yet, the objects and the wrappers it has met.  failed and written
\* are for the property only.
JPickler(n, tried) ==
  [who |-> n, pending |-> <<Header>>, handles |-> <<>>, memo |-> <<>>, dumps |-> 0, tried |-> tried,
   failed |-> FALSE, written |-> [o \in Object |-> Unwritten]]

\* pickle.Unpickler, and JUnpickler with its Decoder.
Unpickler(kind, at) ==
  [kind |-> kind, from |-> at, at |-> at, open |-> FALSE, handles |-> <<>>, memo |-> <<>>, copies |-> 0]

NoReader == Unpickler("none", 1)

PickleInit ==
  /\ heap = [o \in Object |-> 0]
  /\ pickler = JPickler(1, 0)
  /\ file = <<>>
  /\ reader = NoReader
  /\ loads = <<>>

Writing == reader = NoReader
Position(s, x) == CHOOSE k \in DOMAIN s : s[k] = x

-------------------------------------------------------------------------------
\* Mutant: what was taken stays in the stream.
packKeep(p, o) ==
  IF o \notin Object THEN [p EXCEPT !.pending = Append(@, Abort), !.handles = <<>>, !.ok = FALSE]
  ELSE LET piece == IF Contains(p.handles, o) THEN Ref(Position(p.handles, o)) ELSE New(o) IN
       [p EXCEPT !.pending = Append(p.pending, piece),
                 !.out = Append(@, [t |-> "bytes", pieces |-> Append(p.pending, piece)]),
                 !.handles = IF Contains(@, o) THEN @ ELSE Append(@, o)]

\* Encoder.pack: an object that the stream has met is a reference.  An exception
\* is noted in the stream, which forgets what it has met, and nothing is taken.
pack(p, o) ==
  IF o \notin Object THEN [p EXCEPT !.pending = Append(@, Abort), !.handles = <<>>, !.ok = FALSE]
  ELSE LET piece == IF Contains(p.handles, o) THEN Ref(Position(p.handles, o)) ELSE New(o) IN
       [p EXCEPT !.pending = <<>>,
                 !.out = Append(@, [t |-> "bytes", pieces |-> Append(p.pending, piece)]),
                 !.handles = IF Contains(@, o) THEN @ ELSE Append(@, o)]

\* The Python pickler saves an item: a wrapper it has met is a reference to the
\* memo, another one goes through _JDispatch.reduce.
save(p, item) ==
  IF ~p.ok THEN p
  ELSE IF item.o = Unpicklable THEN [p EXCEPT !.ok = FALSE]
  ELSE IF ~item.fresh /\ Contains(p.memo, item)
       THEN [p EXCEPT !.out = Append(@, [t |-> "memo", m |-> Position(p.memo, item)])]
       ELSE LET q == pack(p, item.o) IN
            IF q.ok THEN [q EXCEPT !.memo = Append(@, item)] ELSE q

\* The items of a dump, one after the other.
Saved(start, items) ==
  LET saved[i \in 0 .. Len(items)] == IF i = 0 THEN start ELSE save(saved[i - 1], items[i])
  IN  saved[Len(items)]

\* dump: nothing of a dump that raises reaches the file, but the stream and the
\* memo keep what they have met.
dump(items) ==
  LET p == Saved([pending |-> pickler.pending, handles |-> pickler.handles, memo |-> pickler.memo,
                  out |-> <<>>, ok |-> TRUE], items)
      written == [o \in Object |->
        IF pickler.written[o] = Unwritten /\ p.ok /\ \E k \in DOMAIN items : items[k].o = o
        THEN heap[o] ELSE pickler.written[o]]
  IN  /\ Writing /\ pickler.tried < MaxDumps
      /\ pickler' = [who |-> pickler.who, pending |-> p.pending, handles |-> p.handles, memo |-> p.memo,
                     dumps |-> pickler.dumps + 1, tried |-> pickler.tried + 1,
                     failed |-> pickler.failed \/ ~p.ok, written |-> written]
      /\ file' = IF ~p.ok THEN file ELSE
           Append(file, [out |-> p.out, who |-> pickler.who, first |-> pickler.dumps = 0,
                         clean |-> ~pickler.failed,
                         want |-> [k \in DOMAIN items |-> [o |-> items[k].o, v |-> written[items[k].o]]]])
      /\ UNCHANGED <<heap, reader, loads>>

\* The program opens another JPickler on the same file.
NewPickler ==
  /\ Writing /\ pickler.dumps > 0 /\ pickler.who = 1
  /\ pickler' = JPickler(2, pickler.tried)
  /\ UNCHANGED <<heap, file, reader, loads>>

\* The program changes an object between two dumps.
Mutate(o) ==
  /\ Writing /\ heap[o] < MaxVersion
  /\ heap' = [heap EXCEPT ![o] = @ + 1]
  /\ UNCHANGED <<pickler, file, reader, loads>>

-------------------------------------------------------------------------------
\* Decoder.unpack: the first piece opens the stream, then one object is read.
unpack(r, pieces) ==
  LET opened == r.open \/ Head(pieces) = Header
      piece == IF r.open THEN Head(pieces) ELSE pieces[2]
      copy == [o |-> piece.o, v |-> piece.v, id |-> r.copies + 1]
      Took(c) == [r EXCEPT !.open = TRUE, !.got = Append(@, c), !.memo = Append(@, c)]
  IN  CASE opened /\ piece.t = "new" ->
             [Took(copy) EXCEPT !.copies = @ + 1, !.handles = Append(@, copy)]
        [] opened /\ piece.t = "ref" /\ piece.h \in DOMAIN r.handles -> Took(r.handles[piece.h])
        [] OTHER -> [r EXCEPT !.ok = FALSE]

\* The Unpickler loads a part of a pickle; without a JUnpickler the stub that
\* stands for the decoder raises.
loadPart(kind, r, part) ==
  IF ~r.ok THEN r
  ELSE IF part.t = "memo"
       THEN IF part.m \in DOMAIN r.memo THEN [r EXCEPT !.got = Append(@, r.memo[part.m])]
            ELSE [r EXCEPT !.ok = FALSE]
       ELSE IF kind = "plain" THEN [r EXCEPT !.ok = FALSE] ELSE unpack(r, part.pieces)

Loaded(kind, start, parts) ==
  LET loaded[i \in 0 .. Len(parts)] == IF i = 0 THEN start ELSE loadPart(kind, loaded[i - 1], parts[i])
  IN  loaded[Len(parts)]

\* The program opens an Unpickler where the last one stopped.
Open(kind) ==
  /\ Writing \/ loads # <<>>
  /\ reader.at \in DOMAIN file
  /\ \A k \in DOMAIN loads : loads[k].ok
  /\ reader' = Unpickler(kind, reader.at)
  /\ loads' = <<>>
  /\ UNCHANGED <<heap, pickler, file>>

load ==
  /\ reader # NoReader /\ reader.at \in DOMAIN file
  /\ \A k \in DOMAIN loads : loads[k].ok
  /\ LET r == Loaded(reader.kind,
                    [open |-> reader.open, handles |-> reader.handles, memo |-> reader.memo,
                     copies |-> reader.copies, got |-> <<>>, ok |-> TRUE], file[reader.at].out)
     IN /\ reader' = [kind |-> reader.kind, from |-> reader.from, at |-> reader.at + 1, open |-> r.open,
                      handles |-> r.handles, memo |-> r.memo, copies |-> r.copies]
        /\ loads' = Append(loads, [at |-> reader.at, ok |-> r.ok, got |-> r.got])
  /\ UNCHANGED <<heap, pickler, file>>

PickleNext ==
  \/ \E items \in Dumps : dump(items)
  \/ NewPickler
  \/ \E o \in Object : Mutate(o)
  \/ \E kind \in {"J", "plain"} : Open(kind)
  \/ load

-------------------------------------------------------------------------------
\* The reader has read all that the pickler of a pickle wrote, and nothing else.
Aligned(at) ==
  LET from == file[reader.from] IN from.first /\ from.who = file[at].who

\* A pickle that a JPickler wrote before any of its dumps raised is loaded by the
\* JUnpickler that has read everything since that JPickler was made, and by no
\* other, which raises instead of answering with another object.  What is loaded
\* has the content that each object had when the pickler met it first, and an
\* object is one copy in all the pickles ("Only one copy of each Java object will
\* appear in the pickle file", pickle.py:26).
PickleRoundTrip ==
  \A k \in DOMAIN loads :
    LET l == loads[k] p == file[l.at] IN
    p.clean =>
      /\ l.ok <=> (reader.kind = "J" /\ Aligned(l.at))
      /\ l.ok =>
           /\ Len(l.got) = Len(p.want)
           /\ \A j \in DOMAIN p.want : l.got[j].o = p.want[j].o /\ l.got[j].v = p.want[j].v
           /\ \A j \in DOMAIN l.got, h \in DOMAIN loads : \A i \in DOMAIN loads[h].got :
                file[loads[h].at].clean /\ l.got[j].o = loads[h].got[i].o => l.got[j] = loads[h].got[i]
===============================================================================
