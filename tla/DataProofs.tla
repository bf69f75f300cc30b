------------------------------ MODULE DataProofs -------------------------------
(***************************************************************************)
(* The promises of the shared connections, for any connections, threads,   *)
(* rows and isolation levels; and what comes back from a file of pickles,  *)
(* for any objects and dumps.                                              *)
(***************************************************************************)
EXTENDS Program, SequenceTheorems, WellFoundedInduction, TLAPS

LinkType == [at : {"none", "open", "closed"}, auto : BOOLEAN, pending : SUBSET Row, level : Level,
             adapters : DictRef, own : BOOLEAN]
FateType == [who : Link \cup {"none"},
             is : {"new", "open", "kept", "gone", "closed", "committed by the change"}]
CallType == [pc : {"idle", "commit", "rollback", "answer"}, c : Link \cup {Resting.c},
             body : {"ok", "raised"}, close : {"ok", "raised"}, handling : BOOLEAN,
             raised : {"none", "body", "close"}]

DbTypeOK ==
  /\ link \in [Link -> LinkType]
  /\ dicts \in [DictRef -> SUBSET Link]
  /\ durable \subseteq Row
  /\ fate \in [Row -> FateType]
  /\ dbcall \in [DbUser -> CallType]
  /\ \A u \in DbUser : dbcall[u].pc \in {"commit", "rollback"} => dbcall[u].c \in Link

\* The rows of a transaction that is not at its end are the pending ones of the
\* connection that wrote them, and the database does not have them.
Opened(c, r) == fate[r].who = c /\ fate[r].is = "open"
Transactions ==
  /\ \A c \in Link : link[c].at # "open" => link[c].pending = {}
  /\ \A c \in Link : \A r \in Row :
       r \in link[c].pending <=> Opened(c, r)
  /\ \A r \in Row : fate[r].is \in {"new", "open", "gone"} => r \notin durable
  /\ \A r \in Row : fate[r].is = "kept" => r \in durable

\* A connection uses a dictionary of its own or the program's.
OwnAdapters ==
  /\ dicts["default"] = {}
  /\ \A c \in Link : /\ dicts[c] \subseteq {c}
                     /\ link[c].own => link[c].adapters \in {c, "default"}
                     /\ link[c].at # "none" => link[c].adapters \in {c, "user"}

Answers ==
  \A u \in DbUser : dbcall[u].pc = "answer" =>
    /\ dbcall[u].body = "raised" => dbcall[u].raised = "body"
    /\ dbcall[u].close = "raised" /\ dbcall[u].raised = "none" => dbcall[u].handling

DbInv == DbTypeOK /\ Transactions /\ OwnAdapters /\ Answers

-------------------------------------------------------------------------------
LEMMA NoLinkType == NoLink \in LinkType
<1>1. (CHOOSE l \in Supported : TRUE) \in Level
  BY LevelAssumption
<1> QED
  BY <1>1 DEF NoLink, LinkType, DictRef

LEMMA RestingType == Resting \in CallType /\ Resting.pc = "idle"
BY DEF Resting, CallType

LEMMA InitDbInv == DbInit => DbInv
<1> SUFFICES ASSUME DbInit PROVE DbInv
  OBVIOUS
<1>1. DbTypeOK
  BY NoLinkType, RestingType DEF DbInit, DbTypeOK, FateType
<1>2. Transactions
  BY DEF DbInit, Transactions, Opened, NoLink
<1>3. OwnAdapters
  BY DEF DbInit, OwnAdapters, NoLink, DictRef
<1>4. Answers
  BY DEF DbInit, Answers, Resting
<1> QED
  BY <1>1, <1>2, <1>3, <1>4 DEF DbInv

\* What the fate of the rows of a transaction becomes.
LEMMA Settled ==
  ASSUME DbTypeOK, NEW c \in Link, NEW is \in {"kept", "gone", "closed", "committed by the change"},
         fate' = Settle(c, is)
  PROVE  /\ fate' \in [Row -> FateType]
         /\ \A r \in Row : IF Opened(c, r) THEN fate'[r].is = is ELSE fate'[r] = fate[r]
<1>1. \A r \in Row : [fate[r] EXCEPT !.is = is] \in FateType /\ [fate[r] EXCEPT !.is = is].is = is
  BY DEF DbTypeOK, FateType
<1> QED
  BY <1>1 DEF DbTypeOK, Settle, Opened

LEMMA NewLinkDbInv ==
  ASSUME DbInv, NEW c \in Link, NEW given \in {"default", "none", "user"}, NEW auto \in BOOLEAN,
         NewLink(c, given, auto)
  PROVE  DbInv'
<1> DEFINE new == [NoLink EXCEPT !.at = "open", !.auto = auto,
                                 !.adapters = IF given = "user" THEN "user" ELSE c,
                                 !.own = given # "user"]
<1>1. /\ link' = [link EXCEPT ![c] = new]
      /\ dicts' = IF given = "user" THEN dicts ELSE [dicts EXCEPT ![c] = {}]
      /\ UNCHANGED <<durable, fate, dbcall>>
  BY DEF NewLink, UseDefaults, DbInv, OwnAdapters
<1>2. new \in LinkType /\ new.pending = {}
  BY NoLinkType DEF LinkType, NoLink, DictRef
<1>3. DbTypeOK'
  BY <1>1, <1>2 DEF DbInv, DbTypeOK, DictRef
<1>4. link[c].pending = {}
  BY DEF NewLink, DbInv, Transactions, Opened
<1>6. new.adapters = (IF given = "user" THEN "user" ELSE c) /\ new.own = (given # "user")
  BY DEF NoLink
<1>7. link'[c] = new /\ \A d \in Link : d # c => link'[d] = link[d]
  BY <1>1 DEF DbInv, DbTypeOK
<1> HIDE DEF new
<1>5. Transactions'
  BY <1>1, <1>2, <1>4, <1>7 DEF DbInv, Transactions, Opened
<1>8. OwnAdapters'
  <2>1. dicts'["default"] = {} /\ \A d \in Link : dicts'[d] \subseteq {d}
    BY <1>1, LinkAssumption DEF DbInv, DbTypeOK, OwnAdapters, DictRef
  <2> QED
    BY <2>1, <1>6, <1>7 DEF DbInv, OwnAdapters
<1> QED
  BY <1>1, <1>3, <1>5, <1>8 DEF DbInv, Answers

LEMMA CloseLinkDbInv ==
  ASSUME DbInv, NEW c \in Link, CloseLink(c)
  PROVE  DbInv'
<1> USE DEF DbInv, CloseLink
<1>1. /\ fate' \in [Row -> FateType]
      /\ \A r \in Row : IF Opened(c, r)
                        THEN fate'[r].is = "closed" ELSE fate'[r] = fate[r]
      /\ durable' = durable \/ durable' = durable \cup link[c].pending
  BY Settled
<1>2. /\ link' \in [Link -> LinkType] /\ link'[c].pending = {}
      /\ link'[c].own = link[c].own /\ link'[c].adapters = link[c].adapters
      /\ link'[c].at # "open" /\ link[c].at = "open"
      /\ \A d \in Link : d # c => link'[d] = link[d]
  BY DEF DbTypeOK, LinkType, Valid
<1>3. DbTypeOK'
  <2>1. durable' \subseteq Row
    BY <1>1 DEF DbTypeOK, LinkType
  <2>2. UNCHANGED <<dicts, dbcall>>
    OBVIOUS
  <2> HIDE DEF CloseLink
  <2> QED
    BY <1>1, <1>2, <2>1, <2>2 DEF DbTypeOK
<1>4. Transactions'
  BY <1>1, <1>2 DEF Transactions, Opened
<1>5. OwnAdapters' /\ Answers'
  BY <1>2 DEF OwnAdapters, Answers
<1> QED
  BY <1>3, <1>4, <1>5

LEMMA WriteDbInv ==
  ASSUME DbInv, NEW c \in Link, NEW r \in Row, Write(c, r)
  PROVE  DbInv'
<1> USE DEF DbInv
<1>1. fate[r].is = "new" /\ link[c].at = "open" /\ UNCHANGED <<dicts, dbcall>>
  BY DEF Write, Valid
<1>2. CASE link[c].auto
  <2>1. /\ durable' = durable \cup {r} /\ link' = link
        /\ fate' = [fate EXCEPT ![r] = [who |-> c, is |-> "kept"]]
    BY <1>2 DEF Write
  <2>2. DbTypeOK'
    BY <1>1, <2>1 DEF DbTypeOK, FateType
  <2>3. Transactions'
    BY <1>1, <2>1 DEF DbTypeOK, Transactions, Opened
  <2> QED
    BY <1>1, <2>1, <2>2, <2>3 DEF OwnAdapters, Answers
<1>3. CASE ~link[c].auto
  <2>1. /\ durable' = durable
        /\ link' = [link EXCEPT ![c].pending = @ \cup {r}]
        /\ fate' = [fate EXCEPT ![r] = [who |-> c, is |-> "open"]]
    BY <1>3 DEF Write
  <2> DEFINE new == [link[c] EXCEPT !.pending = link[c].pending \cup {r}]
  <2>a. link' = [link EXCEPT ![c] = new] /\ new \in LinkType
    BY <2>1 DEF DbTypeOK, LinkType
  <2>b. fate' \in [Row -> FateType]
    BY <2>1 DEF DbTypeOK, FateType
  <2>2. DbTypeOK'
    BY <1>1, <2>1, <2>a, <2>b DEF DbTypeOK
  <2>3. /\ link'[c].pending = link[c].pending \cup {r} /\ link'[c].at = link[c].at
        /\ link'[c].own = link[c].own /\ link'[c].adapters = link[c].adapters
        /\ \A d \in Link : d # c => link'[d] = link[d]
    BY <2>1 DEF DbTypeOK, LinkType
  <2>4. Transactions'
    BY <1>1, <2>1, <2>3 DEF DbTypeOK, Transactions, Opened
  <2> QED
    BY <1>1, <2>2, <2>3, <2>4 DEF OwnAdapters, Answers
<1> QED
  BY <1>2, <1>3

\* The end of a transaction: the pending rows become durable, or are undone.
LEMMA EndDbInv ==
  ASSUME DbInv, NEW c \in Link, NEW is \in {"kept", "gone", "committed by the change"},
         fate' = Settle(c, is), NEW auto \in BOOLEAN,
         durable' = IF is = "gone" THEN durable ELSE durable \cup link[c].pending,
         link' = [link EXCEPT ![c].auto = auto, ![c].pending = {}], UNCHANGED dicts
  PROVE  /\ link' \in [Link -> LinkType] /\ durable' \subseteq Row /\ fate' \in [Row -> FateType]
         /\ Transactions' /\ OwnAdapters'
<1> USE DEF DbInv
<1>1. /\ fate' \in [Row -> FateType]
      /\ \A r \in Row : IF Opened(c, r)
                        THEN fate'[r].is = is ELSE fate'[r] = fate[r]
  BY Settled
<1> DEFINE new == [link[c] EXCEPT !.auto = auto, !.pending = {}]
<1>a. /\ new \in LinkType /\ new.pending = {} /\ new.at = link[c].at
      /\ new.own = link[c].own /\ new.adapters = link[c].adapters
  BY DEF DbTypeOK, LinkType
<1>b. link' = [link EXCEPT ![c] = new]
  BY DEF DbTypeOK
<1> HIDE DEF new
<1>2. /\ link' \in [Link -> LinkType] /\ link'[c].pending = {} /\ link'[c].at = link[c].at
      /\ link'[c].own = link[c].own /\ link'[c].adapters = link[c].adapters
      /\ \A d \in Link : d # c => link'[d] = link[d]
  BY <1>a, <1>b DEF DbTypeOK
<1>3. durable' \subseteq Row
  BY DEF DbTypeOK, LinkType
<1>4. Transactions'
  <2>1. \A d \in Link : \A r \in Row :
          r \in link'[d].pending <=> Opened(d, r)'
    <3> SUFFICES ASSUME NEW d \in Link, NEW r \in Row
                 PROVE  r \in link'[d].pending <=> Opened(d, r)'
      OBVIOUS
    <3>1. CASE d = c
      <4>1. ~Opened(c, r)'
        BY <1>1 DEF Opened
      <4> QED
        BY <3>1, <4>1, <1>2
    <3>2. CASE d # c
      <4>1. link'[d].pending = link[d].pending
        BY <3>2, <1>2
      <4>2. ~Opened(c, r) \/ ~Opened(d, r)
        BY <3>2 DEF Opened
      <4>a. r \in link[d].pending <=> Opened(d, r)
        BY DEF Transactions
      <4>3. CASE Opened(c, r)
        <5>1. fate'[r].is # "open"
          BY <4>3, <1>1
        <5> QED
          BY <4>1, <4>2, <4>3, <4>a, <5>1 DEF Opened
      <4>4. CASE ~Opened(c, r)
        <5>1. fate'[r] = fate[r]
          BY <4>4, <1>1
        <5> QED
          BY <4>1, <4>a, <5>1 DEF Opened
      <4> QED
        BY <4>3, <4>4
    <3> QED
      BY <3>1, <3>2
  <2>2. \A d \in Link : link'[d].at # "open" => link'[d].pending = {}
    <3> SUFFICES ASSUME NEW d \in Link, link'[d].at # "open"
                 PROVE  link'[d].pending = {}
      OBVIOUS
    <3>1. link[d].at # "open" => link[d].pending = {}
      BY DEF Transactions
    <3>2. CASE d = c
      BY <1>2, <3>2
    <3>3. CASE d # c
      BY <1>2, <3>1, <3>3
    <3> QED
      BY <3>2, <3>3
  <2>3. \A r \in Row : fate'[r].is \in {"new", "open", "gone"} => r \notin durable'
    <3> SUFFICES ASSUME NEW r \in Row, fate'[r].is \in {"new", "open", "gone"}
                 PROVE  r \notin durable'
      OBVIOUS
    <3>1. CASE Opened(c, r)
      BY <3>1, <1>1 DEF Transactions, Opened
    <3>2. CASE ~Opened(c, r)
      <4>1. fate'[r] = fate[r] /\ r \notin link[c].pending
        BY <3>2, <1>1 DEF Transactions, Opened
      <4> QED
        BY <4>1 DEF Transactions, Opened
    <3> QED
      BY <3>1, <3>2
  <2>4. \A r \in Row : fate'[r].is = "kept" => r \in durable'
    BY <1>1 DEF Transactions, Opened
  <2> QED
    BY <2>1, <2>2, <2>3, <2>4 DEF Transactions, Opened
<1>5. OwnAdapters'
  BY <1>2 DEF OwnAdapters
<1> QED
  BY <1>1, <1>2, <1>3, <1>4, <1>5

LEMMA AutocommitDbInv ==
  ASSUME DbInv, NEW c \in Link, NEW enabled \in BOOLEAN, autocommit(c, enabled)
  PROVE  DbInv'
<1>1. /\ link' \in [Link -> LinkType] /\ durable' \subseteq Row /\ fate' \in [Row -> FateType]
      /\ Transactions' /\ OwnAdapters'
  BY EndDbInv DEF autocommit
<1> QED
  BY <1>1 DEF autocommit, DbInv, DbTypeOK, Answers

LEMMA CallDbInv ==
  ASSUME DbInv, NEW u \in DbUser, NEW new \in CallType, dbcall' = [dbcall EXCEPT ![u] = new],
         new.pc \in {"commit", "rollback"} => new.c \in Link,
         new.pc = "answer" => /\ new.body = "raised" => new.raised = "body"
                              /\ new.close = "raised" /\ new.raised = "none" => new.handling
  PROVE  /\ dbcall' \in [DbUser -> CallType]
         /\ \A v \in DbUser : dbcall'[v].pc \in {"commit", "rollback"} => dbcall'[v].c \in Link
         /\ Answers'
BY DEF DbInv, DbTypeOK, Answers

LEMMA AskDbInv ==
  ASSUME DbInv, NEW u \in DbUser, NEW c \in Link, NEW op \in {"commit", "rollback"}, Ask(u, c, op)
  PROVE  DbInv'
<1> DEFINE new == [Resting EXCEPT !.pc = op, !.c = c]
<1>1. new \in CallType /\ new.pc = op /\ new.c = c
  BY DEF Resting, CallType
<1>2. dbcall' = [dbcall EXCEPT ![u] = new] /\ UNCHANGED <<link, dicts, durable, fate>>
  BY DEF Ask
<1> HIDE DEF new
<1>3. /\ dbcall' \in [DbUser -> CallType]
      /\ \A v \in DbUser : dbcall'[v].pc \in {"commit", "rollback"} => dbcall'[v].c \in Link
      /\ Answers'
  BY <1>1, <1>2, CallDbInv
<1> QED
  BY <1>2, <1>3 DEF DbInv, DbTypeOK, Transactions, Opened, OwnAdapters

LEMMA TypeinfoDbInv ==
  ASSUME DbInv, NEW u \in DbUser, NEW c \in Link, NEW handling \in BOOLEAN, typeinfo(u, c, handling)
  PROVE  DbInv'
<1>1. PICK body \in {"ok", "raised"}, close \in {"ok", "raised"} :
        dbcall' = [dbcall EXCEPT ![u] =
          [Resting EXCEPT !.pc = "answer", !.body = body, !.close = close, !.handling = handling,
                          !.raised = closeableExit(body, close, handling)]]
  BY DEF typeinfo
<1> DEFINE new == [Resting EXCEPT !.pc = "answer", !.body = body, !.close = close,
                     !.handling = handling, !.raised = closeableExit(body, close, handling)]
<1>2. closeableExit(body, close, handling) \in {"none", "body", "close"}
  BY DEF closeableExit
<1>3. /\ new \in CallType /\ new.pc = "answer" /\ new.body = body /\ new.close = close
      /\ new.handling = handling /\ new.raised = closeableExit(body, close, handling)
  BY <1>2 DEF Resting, CallType
<1>4. dbcall' = [dbcall EXCEPT ![u] = new] /\ UNCHANGED <<link, dicts, durable, fate>>
  BY <1>1 DEF typeinfo
<1> HIDE DEF new
<1>5. /\ new.body = "raised" => new.raised = "body"
      /\ new.close = "raised" /\ new.raised = "none" => new.handling
  BY <1>3 DEF closeableExit
<1>6. /\ dbcall' \in [DbUser -> CallType]
      /\ \A v \in DbUser : dbcall'[v].pc \in {"commit", "rollback"} => dbcall'[v].c \in Link
      /\ Answers'
  BY <1>3, <1>4, <1>5, CallDbInv
<1> QED
  BY <1>4, <1>6 DEF DbInv, DbTypeOK, Transactions, Opened, OwnAdapters

\* A call that has returned.
LEMMA RestDbInv ==
  ASSUME DbInv, NEW u \in DbUser, dbcall' = [dbcall EXCEPT ![u] = Resting]
  PROVE  /\ dbcall' \in [DbUser -> CallType]
         /\ \A v \in DbUser : dbcall'[v].pc \in {"commit", "rollback"} => dbcall'[v].c \in Link
         /\ Answers'
BY RestingType, CallDbInv

LEMMA AnsweredDbInv ==
  ASSUME DbInv, NEW u \in DbUser, Answered(u)
  PROVE  DbInv'
<1>1. dbcall' = [dbcall EXCEPT ![u] = Resting] /\ UNCHANGED <<link, dicts, durable, fate>>
  BY DEF Answered
<1> QED
  BY <1>1, RestDbInv DEF DbInv, DbTypeOK, Transactions, Opened, OwnAdapters

LEMMA CommitDbInv ==
  ASSUME DbInv, NEW u \in DbUser, commit(u) \/ rollback(u)
  PROVE  DbInv'
<1> DEFINE c == dbcall[u].c
<1>1. c \in Link
  BY DEF DbInv, DbTypeOK, commit, rollback
<1>2. dbcall' = [dbcall EXCEPT ![u] = Resting] /\ UNCHANGED dicts
  BY DEF commit, rollback
<1>3. CASE UNCHANGED <<durable, link, fate>>
  BY <1>2, <1>3, RestDbInv DEF DbInv, DbTypeOK, Transactions, Opened, OwnAdapters
<1>4. ASSUME NEW is \in {"kept", "gone"},
             durable' = IF is = "gone" THEN durable ELSE durable \cup link[c].pending,
             link' = [link EXCEPT ![c].pending = {}], fate' = Settle(c, is)
      PROVE  DbInv'
  <2>1. link' = [link EXCEPT ![c].auto = link[c].auto, ![c].pending = {}] /\ link[c].auto \in BOOLEAN
    BY <1>1, <1>4 DEF DbInv, DbTypeOK, LinkType
  <2>2. /\ link' \in [Link -> LinkType] /\ durable' \subseteq Row /\ fate' \in [Row -> FateType]
        /\ Transactions' /\ OwnAdapters'
    BY <1>1, <1>2, <1>4, <2>1, EndDbInv
  <2> QED
    BY <1>2, <2>2, RestDbInv DEF DbInv, DbTypeOK
<1> QED
  BY <1>3, <1>4 DEF commit, rollback

LEMMA AdaptersDbInv ==
  ASSUME DbInv, NEW c \in Link, NEW v \in {"none", "user", "alien"}, adapters(c, v)
  PROVE  DbInv'
<1> USE DEF DbInv
<1> DEFINE new == [link[c] EXCEPT !.adapters = IF v = "none" THEN c ELSE v, !.own = (v = "none")]
<1>1. /\ link' = [link EXCEPT ![c] = new] /\ UNCHANGED <<durable, fate, dbcall>>
      /\ v # "alien"
  BY DEF adapters, DbTypeOK
<1>2. /\ new \in LinkType /\ new.pending = link[c].pending /\ new.at = link[c].at
      /\ new.adapters = (IF v = "none" THEN c ELSE "user") /\ (new.own <=> v = "none")
  <2>1. link[c] \in LinkType
    BY DEF DbTypeOK
  <2>2. (IF v = "none" THEN c ELSE v) \in DictRef /\ (v = "none") \in BOOLEAN
    BY <1>1 DEF DictRef
  <2> QED
    BY <1>1, <2>1, <2>2 DEF LinkType
<1> HIDE DEF new
<1>3. link'[c] = new /\ \A d \in Link : d # c => link'[d] = link[d]
  BY <1>1 DEF DbTypeOK
<1>4. dicts' = IF v = "none" THEN [dicts EXCEPT ![c] = {}] ELSE dicts
  BY DEF adapters
<1>5. DbTypeOK'
  BY <1>1, <1>2, <1>4 DEF DbTypeOK
<1>6. dicts'["default"] = {} /\ \A d \in Link : dicts'[d] \subseteq {d}
  BY <1>4, LinkAssumption DEF DbTypeOK, OwnAdapters, DictRef
<1>7. Transactions' /\ Answers'
  BY <1>1, <1>2, <1>3 DEF Transactions, Opened, Answers
<1>8. OwnAdapters'
  BY <1>2, <1>3, <1>6 DEF OwnAdapters
<1> QED
  BY <1>5, <1>7, <1>8

LEMMA AddAdapterDbInv ==
  ASSUME DbInv, NEW c \in Link, AddAdapter(c)
  PROVE  DbInv'
<1> USE DEF DbInv
<1>1. /\ link[c].adapters \in {c, "user"} /\ UNCHANGED <<link, durable, fate, dbcall>>
      /\ dicts' = [dicts EXCEPT ![link[c].adapters] = @ \cup {c}]
  BY DEF AddAdapter, OwnAdapters
<1>2. DbTypeOK'
  BY <1>1 DEF DbTypeOK, DictRef
<1>3. dicts'["default"] = {} /\ \A d \in Link : dicts'[d] \subseteq {d}
  BY <1>1, LinkAssumption DEF DbTypeOK, OwnAdapters, DictRef
<1> QED
  BY <1>1, <1>2, <1>3 DEF OwnAdapters, Transactions, Opened, Answers

LEMMA IsolationDbInv ==
  ASSUME DbInv, NEW c \in Link, NEW level \in Level, isolation_level(c, level)
  PROVE  DbInv'
<1> USE DEF DbInv
<1> DEFINE new == [link[c] EXCEPT !.level = level]
<1>1. link' = [link EXCEPT ![c] = new] /\ UNCHANGED <<dicts, durable, fate, dbcall>>
  BY DEF isolation_level, DbTypeOK
<1>2. /\ new \in LinkType /\ new.pending = link[c].pending /\ new.at = link[c].at
      /\ new.adapters = link[c].adapters /\ new.own = link[c].own
  BY DEF DbTypeOK, LinkType
<1> HIDE DEF new
<1>3. DbTypeOK'
  BY <1>1, <1>2 DEF DbTypeOK
<1>4. link'[c] = new /\ \A d \in Link : d # c => link'[d] = link[d]
  BY <1>1 DEF DbTypeOK
<1> QED
  BY <1>1, <1>2, <1>3, <1>4 DEF Transactions, Opened, OwnAdapters, Answers

-------------------------------------------------------------------------------
LEMMA NextDbInv == DbInv /\ [Next]_vars => DbInv'
<1> SUFFICES ASSUME DbInv, [Next]_vars PROVE DbInv'
  OBVIOUS
<1>1. CASE UNCHANGED dbVars
  BY <1>1 DEF dbVars, DbInv, DbTypeOK, Transactions, Opened, OwnAdapters, Answers
<1>2. CASE Connecting
  BY <1>2, NewLinkDbInv, CloseLinkDbInv DEF Connecting
<1>3. CASE Transacting
  BY <1>3, AutocommitDbInv, WriteDbInv, AskDbInv, CommitDbInv DEF Transacting
<1>4. CASE Setting
  BY <1>4, AdaptersDbInv, AddAdapterDbInv, IsolationDbInv, TypeinfoDbInv, AnsweredDbInv DEF Setting
<1> QED
  BY <1>1, <1>2, <1>3, <1>4 DEF Next, vars, DataNext, dataVars

\* Connection.commit, rollback, close, autocommit, adapters and typeinfo keep what
\* they promise with any number of connections and threads.
THEOREM ConnectionsAreHonest == Spec => []ConnectionHonest
<1>1. Init => DbInv
  BY InitDbInv DEF Init, DataInit
<1>2. DbInv => ConnectionHonest
  BY DEF DbInv, DbTypeOK, Transactions, Opened, OwnAdapters, Answers, ConnectionHonest
<1> QED
  BY <1>1, <1>2, NextDbInv, PTL DEF Spec

-------------------------------------------------------------------------------
\* Pickles.  Induction, by a least counterexample.
LEMMA UpTo ==
  ASSUME NEW n \in Nat, NEW Good \in SUBSET Nat, 0 \in Good,
         \A i \in 1 .. n : i - 1 \in Good => i \in Good
  PROVE  \A i \in 0 .. n : i \in Good
<1> DEFINE Bad == {i \in 0 .. n : i \notin Good}
           R == OpToRel(<, Nat)
<1> SUFFICES ASSUME Bad # {} PROVE FALSE
  OBVIOUS
<1>1. Bad \subseteq Nat
  OBVIOUS
<1>2. \A i, j \in Nat : i < j => <<i, j>> \in R
  BY DEF OpToRel
<1>3. IsWellFoundedOn(R, Nat)
  BY NatLessThanWellFounded
<1>4. PICK k \in Bad : \A j \in Bad : <<j, k>> \notin R
  <2> HIDE DEF Bad, R
  <2> QED  BY <1>1, <1>3, WFMin
<1>5. k \in 1 .. n /\ k - 1 \in Nat /\ k - 1 \in 0 .. n /\ k - 1 < k
  OBVIOUS
<1>6. k - 1 \notin Bad
  <2>1. <<k - 1, k>> \in R
    BY <1>1, <1>2, <1>5
  <2> QED  BY <1>4, <2>1
<1>7. k - 1 \in Good
  BY <1>5, <1>6
<1> QED  BY <1>4, <1>5, <1>7

\* The states of a dump, and of a load, one part after the other.
Saving(f, begin, items) ==
  f[0] = begin /\ \A i \in 1 .. Len(items) : f[i] = save(f[i - 1], items[i])
Loading(f, kind, begin, parts) ==
  f[0] = begin /\ \A i \in 1 .. Len(parts) : f[i] = loadPart(kind, f[i - 1], parts[i])

LEMMA SavedSteps ==
  ASSUME NEW begin, NEW items, Len(items) \in Nat
  PROVE  \E f : Saving(f, begin, items) /\ Saved(begin, items) = f[Len(items)]
<1> DEFINE n == Len(items)
           body(f, i) == IF i = 0 THEN begin ELSE save(f[i - 1], items[i])
           Is(f, k) == f = [i \in 0 .. k |-> body(f, i)]
           Good == {k \in Nat : k <= n => \E f : Is(f, k)}
           all == CHOOSE f : Is(f, n)
<1>1. 0 \in Good
  <2>1. PICK f : f = [i \in 0 .. 0 |-> begin]
    OBVIOUS
  <2>2. \A i \in 0 .. 0 : i = 0
    OBVIOUS
  <2>3. Is(f, 0)
    BY <2>1, <2>2
  <2> QED  BY <2>3
<1>2. ASSUME NEW k \in 1 .. n, k - 1 \in Good PROVE k \in Good
  <2>1. PICK f : Is(f, k - 1)
    BY <1>2
  <2>2. PICK x : x = save(f[k - 1], items[k])
    OBVIOUS
  <2>3. PICK g : g = [i \in 0 .. k |-> IF i = k THEN x ELSE f[i]]
    OBVIOUS
  <2>4. ASSUME NEW i \in 0 .. k PROVE g[i] = body(g, i)
    <3>1. CASE i = 0
      <4>1. 0 \in 0 .. k - 1 /\ 0 # k /\ 0 \in 0 .. k
        OBVIOUS
      <4>2. f[0] = begin
        BY <2>1, <4>1
      <4>3. g[0] = f[0]
        BY <2>3, <4>1
      <4> QED  BY <3>1, <4>2, <4>3
    <3>2. CASE i \in 1 .. k - 1
      <4>1. i \in 0 .. k - 1 /\ i # k /\ i # 0 /\ i - 1 \in 0 .. k /\ i - 1 # k
        BY <3>2
      <4>2. f[i] = save(f[i - 1], items[i])
        BY <2>1, <4>1
      <4>3. g[i] = f[i] /\ g[i - 1] = f[i - 1]
        BY <2>3, <4>1
      <4> QED  BY <4>1, <4>2, <4>3
    <3>3. CASE i = k
      <4>1. k # 0 /\ k - 1 \in 0 .. k /\ k - 1 # k
        OBVIOUS
      <4>2. g[k] = x /\ g[k - 1] = f[k - 1]
        BY <2>3, <4>1
      <4> QED  BY <2>2, <3>3, <4>1, <4>2
    <3> QED  BY <3>1, <3>2, <3>3
  <2>5. Is(g, k)
    <3>1. g = [i \in 0 .. k |-> g[i]]
      BY <2>3
    <3> HIDE DEF body
    <3> QED  BY <2>4, <3>1
  <2> HIDE DEF Is
  <2> QED  BY <2>5
<1>3. n \in Good
  <2>1. Good \in SUBSET Nat
    OBVIOUS
  <2> HIDE DEF Good
  <2>2. \A i \in 0 .. n : i \in Good
    BY <1>1, <1>2, <2>1, UpTo
  <2> QED  BY <2>2
<1>4. Is(all, n)
  <2> HIDE DEF Is
  <2> QED  BY <1>3
<1>5. Saved(begin, items) = all[n]
  BY DEF Saved
<1> HIDE DEF all
<1>6. \A i \in 0 .. n : all[i] = body(all, i)
  <2>1. all = [i \in 0 .. n |-> body(all, i)]
    BY <1>4
  <2> HIDE DEF body
  <2> QED  BY <2>1
<1>7. Saving(all, begin, items)
  <2>1. \A i \in 1 .. n : i \in 0 .. n /\ i # 0
    OBVIOUS
  <2>2. 0 \in 0 .. n
    OBVIOUS
  <2>3. all[0] = begin
    BY <1>6, <2>2
  <2>4. \A i \in 1 .. n : all[i] = save(all[i - 1], items[i])
    BY <1>6, <2>1
  <2> QED  BY <2>3, <2>4 DEF Saving
<1> QED  BY <1>5, <1>7

LEMMA LoadedSteps ==
  ASSUME NEW kind, NEW begin, NEW parts, Len(parts) \in Nat
  PROVE  \E f : Loading(f, kind, begin, parts) /\ Loaded(kind, begin, parts) = f[Len(parts)]
<1> DEFINE n == Len(parts)
           body(f, i) == IF i = 0 THEN begin ELSE loadPart(kind, f[i - 1], parts[i])
           Is(f, k) == f = [i \in 0 .. k |-> body(f, i)]
           Good == {k \in Nat : k <= n => \E f : Is(f, k)}
           all == CHOOSE f : Is(f, n)
<1>1. 0 \in Good
  <2>1. PICK f : f = [i \in 0 .. 0 |-> begin]
    OBVIOUS
  <2>2. \A i \in 0 .. 0 : i = 0
    OBVIOUS
  <2>3. Is(f, 0)
    BY <2>1, <2>2
  <2> QED  BY <2>3
<1>2. ASSUME NEW k \in 1 .. n, k - 1 \in Good PROVE k \in Good
  <2>1. PICK f : Is(f, k - 1)
    BY <1>2
  <2>2. PICK x : x = loadPart(kind, f[k - 1], parts[k])
    OBVIOUS
  <2>3. PICK g : g = [i \in 0 .. k |-> IF i = k THEN x ELSE f[i]]
    OBVIOUS
  <2>4. ASSUME NEW i \in 0 .. k PROVE g[i] = body(g, i)
    <3>1. CASE i = 0
      <4>1. 0 \in 0 .. k - 1 /\ 0 # k /\ 0 \in 0 .. k
        OBVIOUS
      <4>2. f[0] = begin
        BY <2>1, <4>1
      <4>3. g[0] = f[0]
        BY <2>3, <4>1
      <4> QED  BY <3>1, <4>2, <4>3
    <3>2. CASE i \in 1 .. k - 1
      <4>1. i \in 0 .. k - 1 /\ i # k /\ i # 0 /\ i - 1 \in 0 .. k /\ i - 1 # k
        BY <3>2
      <4>2. f[i] = loadPart(kind, f[i - 1], parts[i])
        BY <2>1, <4>1
      <4>3. g[i] = f[i] /\ g[i - 1] = f[i - 1]
        BY <2>3, <4>1
      <4> QED  BY <4>1, <4>2, <4>3
    <3>3. CASE i = k
      <4>1. k # 0 /\ k - 1 \in 0 .. k /\ k - 1 # k
        OBVIOUS
      <4>2. g[k] = x /\ g[k - 1] = f[k - 1]
        BY <2>3, <4>1
      <4> QED  BY <2>2, <3>3, <4>1, <4>2
    <3> QED  BY <3>1, <3>2, <3>3
  <2>5. Is(g, k)
    <3>1. g = [i \in 0 .. k |-> g[i]]
      BY <2>3
    <3> HIDE DEF body
    <3> QED  BY <2>4, <3>1
  <2> HIDE DEF Is
  <2> QED  BY <2>5
<1>3. n \in Good
  <2>1. Good \in SUBSET Nat
    OBVIOUS
  <2> HIDE DEF Good
  <2>2. \A i \in 0 .. n : i \in Good
    BY <1>1, <1>2, <2>1, UpTo
  <2> QED  BY <2>2
<1>4. Is(all, n)
  <2> HIDE DEF Is
  <2> QED  BY <1>3
<1>5. Loaded(kind, begin, parts) = all[n]
  BY DEF Loaded
<1> HIDE DEF all
<1>6. \A i \in 0 .. n : all[i] = body(all, i)
  <2>1. all = [i \in 0 .. n |-> body(all, i)]
    BY <1>4
  <2> HIDE DEF body
  <2> QED  BY <2>1
<1>7. Loading(all, kind, begin, parts)
  <2>1. \A i \in 1 .. n : i \in 0 .. n /\ i # 0
    OBVIOUS
  <2>2. 0 \in 0 .. n
    OBVIOUS
  <2>3. all[0] = begin
    BY <1>6, <2>2
  <2>4. \A i \in 1 .. n : all[i] = loadPart(kind, all[i - 1], parts[i])
    BY <1>6, <2>1
  <2> QED  BY <2>3, <2>4 DEF Loading
<1> QED  BY <1>5, <1>7

LEMMA LoadedEmpty == ASSUME NEW kind, NEW r PROVE Loaded(kind, r, <<>>) = r
<1>1. Len(<<>>) = 0
  OBVIOUS
<1>2. PICK f : Loading(f, kind, r, <<>>) /\ Loaded(kind, r, <<>>) = f[0]
  BY <1>1, LoadedSteps
<1> QED  BY <1>2 DEF Loading

LEMMA LoadedAppend ==
  ASSUME NEW T, NEW s \in Seq(T), NEW x \in T, NEW kind, NEW r
  PROVE  Loaded(kind, r, Append(s, x)) = loadPart(kind, Loaded(kind, r, s), x)
<1>1. PICK n : n = Len(s)
  OBVIOUS
<1>2. PICK t : t = Append(s, x)
  OBVIOUS
<1>3. /\ n \in Nat /\ Len(t) = n + 1 /\ t[n + 1] = x
      /\ \A i \in 1 .. n : t[i] = s[i]
  BY <1>1, <1>2, AppendProperties
<1>4. PICK f : Loading(f, kind, r, s) /\ Loaded(kind, r, s) = f[n]
  BY <1>1, <1>3, LoadedSteps
<1>5. PICK g : Loading(g, kind, r, t) /\ Loaded(kind, r, t) = g[n + 1]
  <2>1. Len(t) \in Nat
    BY <1>3
  <2> QED  BY <1>3, <2>1, LoadedSteps
<1> DEFINE Good == {i \in Nat : i <= n => g[i] = f[i]}
<1>6. 0 \in Good
  BY <1>4, <1>5 DEF Loading
<1>7. ASSUME NEW i \in 1 .. n, i - 1 \in Good PROVE i \in Good
  <2>1. g[i - 1] = f[i - 1] /\ t[i] = s[i]
    BY <1>3, <1>7
  <2>2. f[i] = loadPart(kind, f[i - 1], s[i]) /\ g[i] = loadPart(kind, g[i - 1], t[i])
    BY <1>1, <1>3, <1>4, <1>5 DEF Loading
  <2>3. g[i] = f[i]
    BY <2>1, <2>2
  <2> QED  BY <2>3
<1>8. g[n] = f[n]
  <2>1. Good \in SUBSET Nat
    OBVIOUS
  <2> HIDE DEF Good
  <2>2. \A i \in 0 .. n : i \in Good
    BY <1>3, <1>6, <1>7, <2>1, UpTo
  <2>3. n \in Good
    BY <1>3, <2>2
  <2> QED  BY <1>3, <2>3 DEF Good
<1>9. g[n + 1] = loadPart(kind, g[n], x)
  <2>1. n + 1 \in 1 .. Len(t) /\ (n + 1) - 1 = n
    BY <1>3
  <2>2. g[n + 1] = loadPart(kind, g[(n + 1) - 1], t[n + 1])
    BY <1>5, <2>1 DEF Loading
  <2> QED  BY <1>3, <2>1, <2>2
<1> QED  BY <1>2, <1>4, <1>5, <1>8, <1>9

\* What is written and read.
Piece == {Header, Abort} \cup [t : {"new"}, o : Object, v : Nat] \cup [t : {"ref"}, h : Nat]
PartType == [t : {"memo"}, m : Nat] \cup [t : {"bytes"}, pieces : Seq(Piece)]
CopyType == [o : Object, v : Nat, id : Nat]
WriteType == [pending : Seq(Piece), handles : Seq(Object), memo : Seq(Item), out : Seq(PartType),
              ok : BOOLEAN]
ReadType == [open : BOOLEAN, handles : Seq(CopyType), memo : Seq(CopyType), copies : Nat,
             got : Seq(CopyType), ok : BOOLEAN]

\* The tables of the reader are those of the writer, with copies of the objects in
\* the versions ver.
Mirrors(p, ver, r) ==
  /\ IF r.open THEN p.pending = <<>> ELSE p.pending = <<Header>> /\ p.handles = <<>> /\ p.memo = <<>>
  /\ r.copies = Len(r.handles) /\ Len(r.handles) = Len(p.handles)
  /\ \A k \in 1 .. Len(p.handles) : r.handles[k].o = p.handles[k] /\ r.handles[k].v = ver[p.handles[k]]
  /\ \A k, l \in 1 .. Len(p.handles) : p.handles[k] = p.handles[l] => k = l
  /\ Len(r.memo) = Len(p.memo)
  /\ \A k \in 1 .. Len(p.memo) : r.memo[k].o = p.memo[k].o /\ r.memo[k] \in ToSet(r.handles)

\* The answer has copies of the first i items.
Got(r, i, items) ==
  /\ r.ok /\ Len(r.got) = i
  /\ \A j \in 1 .. i : r.got[j].o = items[j].o /\ r.got[j] \in ToSet(r.handles)

LEMMA PositionIn ==
  ASSUME NEW T, NEW s \in Seq(T), NEW x, Contains(s, x)
  PROVE  Position(s, x) \in 1 .. Len(s) /\ s[Position(s, x)] = x /\ x \in T
<1>1. PICK i \in 1 .. Len(s) : s[i] = x
  BY DEF Contains
<1>2. DOMAIN s = 1 .. Len(s) /\ s[i] \in T
  OBVIOUS
<1> QED  BY <1>1, <1>2 DEF Position

LEMMA AppendHas ==
  ASSUME NEW T, NEW s \in Seq(T), NEW x \in T
  PROVE  /\ Append(s, x) \in Seq(T) /\ Len(Append(s, x)) = Len(s) + 1 /\ Len(s) \in Nat
         /\ \A i \in 1 .. Len(s) : Append(s, x)[i] = s[i]
         /\ Append(s, x)[Len(s) + 1] = x
         /\ ToSet(Append(s, x)) = ToSet(s) \cup {x}
<1>1. /\ Append(s, x) \in Seq(T) /\ Len(Append(s, x)) = Len(s) + 1 /\ Len(s) \in Nat
      /\ \A i \in 1 .. Len(s) : Append(s, x)[i] = s[i]
      /\ Append(s, x)[Len(s) + 1] = x
  BY AppendProperties
<1>2. PICK t : t = Append(s, x)
  OBVIOUS
<1>3. DOMAIN t = 1 .. Len(s) + 1 /\ DOMAIN s = 1 .. Len(s)
  BY <1>1, <1>2
<1>4. ToSet(s) \cup {x} \subseteq ToSet(t)
  BY <1>1, <1>2, <1>3 DEF ToSet
<1>5. ToSet(t) \subseteq ToSet(s) \cup {x}
  <2> SUFFICES ASSUME NEW i \in 1 .. Len(s) + 1 PROVE t[i] \in ToSet(s) \cup {x}
    BY <1>3 DEF ToSet
  <2>1. CASE i \in 1 .. Len(s)
    BY <1>1, <1>2, <1>3, <2>1 DEF ToSet
  <2>2. CASE i = Len(s) + 1
    BY <1>1, <1>2, <2>2
  <2> QED  BY <1>1, <2>1, <2>2
<1> QED  BY <1>1, <1>2, <1>4, <1>5

\* One more item in the answer.
LEMMA GotMore ==
  ASSUME NEW r \in ReadType, NEW i \in Nat, NEW items, Got(r, i, items),
         NEW x \in ReadType, NEW c \in CopyType, x.got = Append(r.got, c), x.ok,
         ToSet(r.handles) \subseteq ToSet(x.handles), c \in ToSet(x.handles), c.o = items[i + 1].o
  PROVE  Got(x, i + 1, items)
<1>1. r.got \in Seq(CopyType) /\ Len(r.got) = i
  BY DEF ReadType, Got
<1>2. Len(x.got) = i + 1 /\ x.got[i + 1] = c /\ \A j \in 1 .. i : x.got[j] = r.got[j]
  BY <1>1, AppendHas
<1>3. ASSUME NEW j \in 1 .. i + 1 PROVE x.got[j].o = items[j].o /\ x.got[j] \in ToSet(x.handles)
  <2>1. CASE j = i + 1
    BY <1>2, <2>1
  <2>2. CASE j \in 1 .. i
    <3>1. r.got[j].o = items[j].o /\ r.got[j] \in ToSet(r.handles)
      BY <2>2 DEF Got
    <3>2. x.got[j] = r.got[j]
      BY <1>2, <2>2
    <3>3. r.got[j] \in ToSet(x.handles)
      BY <3>1
    <3> QED  BY <3>1, <3>2, <3>3
  <2>3. j = i + 1 \/ j \in 1 .. i
    OBVIOUS
  <2> QED  BY <2>1, <2>2, <2>3
<1>4. x.ok
  OBVIOUS
<1> QED  BY <1>2, <1>3, <1>4 DEF Got

\* An object or a wrapper that pickler.save takes, or refuses.
Given == Item \cup [o : {Unserializable, Unpicklable}, fresh : {FALSE}]

\* Whether the Python pickler has met a wrapper.
Hit(p, item) == ~item.fresh /\ Contains(p.memo, item)

\* A wrapper that the Python pickler has met is a reference to its memo.
LEMMA SaveHit ==
  ASSUME NEW p \in WriteType, NEW item \in Given, p.ok, item.o # Unpicklable, Hit(p, item)
  PROVE  \E m \in 1 .. Len(p.memo) :
           /\ p.memo[m] = item /\ item \in Item
           /\ save(p, item) = [pending |-> p.pending, handles |-> p.handles, memo |-> p.memo,
                               out |-> Append(p.out, [t |-> "memo", m |-> m]), ok |-> TRUE]
<1>1. PICK m : m = Position(p.memo, item)
  OBVIOUS
<1>2. p.memo \in Seq(Item)
  BY DEF WriteType
<1>3. m \in 1 .. Len(p.memo) /\ p.memo[m] = item /\ item \in Item
  BY <1>1, <1>2, PositionIn DEF Hit
<1>4. PICK part : part = [t |-> "memo", m |-> m]
  OBVIOUS
<1>5. save(p, item) = [p EXCEPT !.out = Append(@, part)]
  BY <1>1, <1>4 DEF save, Hit
<1>6. save(p, item) = [pending |-> p.pending, handles |-> p.handles, memo |-> p.memo,
                       out |-> Append(p.out, part), ok |-> TRUE]
  BY <1>5 DEF WriteType
<1> QED  BY <1>3, <1>4, <1>6

\* Another wrapper is a piece of the stream, with all that is pending before it.
LEMMA SavePack ==
  ASSUME NEW p \in WriteType, NEW item \in Given, p.ok, item.o # Unpicklable, ~Hit(p, item),
         item.o \in Object, heap \in [Object -> Nat]
  PROVE  \E piece \in Piece, hs \in Seq(Object) :
           /\ item \in Item
           /\ save(p, item) =
                [pending |-> <<>>, handles |-> hs, memo |-> Append(p.memo, item),
                 out |-> Append(p.out, [t |-> "bytes", pieces |-> Append(p.pending, piece)]), ok |-> TRUE]
           /\ \/ /\ hs = p.handles
                 /\ \E h \in 1 .. Len(p.handles) : p.handles[h] = item.o /\ piece = Ref(h)
              \/ /\ hs = Append(p.handles, item.o) /\ item.o \notin ToSet(p.handles)
                 /\ piece = New(item.o)
<1>1. p.handles \in Seq(Object) /\ p.pending \in Seq(Piece)
  BY DEF WriteType
<1>2. item \in Item
  BY DEF Given, Item
<1>3. PICK piece : piece = IF Contains(p.handles, item.o) THEN Ref(Position(p.handles, item.o))
                           ELSE New(item.o)
  OBVIOUS
<1>4. PICK hs : hs = IF Contains(p.handles, item.o) THEN p.handles ELSE Append(p.handles, item.o)
  OBVIOUS
<1>5. PICK part : part = [t |-> "bytes", pieces |-> Append(p.pending, piece)]
  OBVIOUS
<1>6. PICK k : k = pack(p, item.o)
  OBVIOUS
<1>7. k = [p EXCEPT !.pending = <<>>, !.out = Append(@, part), !.handles = hs]
  BY <1>3, <1>4, <1>5, <1>6 DEF pack
<1>8. k = [pending |-> <<>>, handles |-> hs, memo |-> p.memo, out |-> Append(p.out, part), ok |-> TRUE]
  BY <1>7 DEF WriteType
<1>9. save(p, item) = IF k.ok THEN [k EXCEPT !.memo = Append(@, item)] ELSE k
  BY <1>6 DEF save, Hit
<1>10. save(p, item) = [pending |-> <<>>, handles |-> hs, memo |-> Append(p.memo, item),
                        out |-> Append(p.out, part), ok |-> TRUE]
  BY <1>8, <1>9
<1>11. CASE Contains(p.handles, item.o)
  <2>1. PICK h : h = Position(p.handles, item.o)
    OBVIOUS
  <2>2. h \in 1 .. Len(p.handles) /\ p.handles[h] = item.o
    BY <1>1, <1>11, <2>1, PositionIn
  <2>3. piece = Ref(h) /\ hs = p.handles
    BY <1>3, <1>4, <1>11, <2>1
  <2>4. piece \in Piece
    BY <1>1, <2>2, <2>3 DEF Piece, Ref
  <2> QED  BY <1>1, <1>2, <1>5, <1>10, <2>2, <2>3, <2>4
<1>12. CASE ~Contains(p.handles, item.o)
  <2>1. piece = New(item.o) /\ hs = Append(p.handles, item.o)
    BY <1>3, <1>4, <1>12
  <2>2. piece \in Piece
    BY <2>1 DEF Piece, New
  <2>3. hs \in Seq(Object)
    BY <1>1, <2>1, AppendHas
  <2>4. item.o \notin ToSet(p.handles)
    <3>1. PICK hd : hd = p.handles
      OBVIOUS
    <3>2. DOMAIN hd = 1 .. Len(hd)
      BY <1>1, <3>1
    <3>3. \A h \in 1 .. Len(hd) : hd[h] # item.o
      BY <1>12, <3>1 DEF Contains
    <3> QED  BY <3>1, <3>2, <3>3 DEF ToSet
  <2> QED  BY <1>2, <1>5, <1>10, <2>1, <2>2, <2>3, <2>4
<1> QED  BY <1>11, <1>12

LEMMA MemoPart == ASSUME NEW m \in Nat PROVE [t |-> "memo", m |-> m] \in PartType
BY DEF PartType

LEMMA BytesPart ==
  ASSUME NEW s \in Seq(Piece), NEW x \in Piece
  PROVE  [t |-> "bytes", pieces |-> Append(s, x)] \in PartType
<1>1. Append(s, x) \in Seq(Piece)
  BY AppendHas
<1> QED  BY <1>1 DEF PartType

\* One item more is one part more, unless the dump raises.
LEMMA SaveType ==
  ASSUME NEW p \in WriteType, NEW item \in Given, heap \in [Object -> Nat]
  PROVE  /\ save(p, item) \in WriteType
         /\ save(p, item).ok =>
              /\ p.ok /\ item.o \in Object /\ item.o # Unpicklable
              /\ Len(save(p, item).out) = Len(p.out) + 1
<1>1. PICK q : q = save(p, item)
  OBVIOUS
<1>2. /\ p.pending \in Seq(Piece) /\ p.handles \in Seq(Object) /\ p.memo \in Seq(Item)
      /\ p.out \in Seq(PartType) /\ p.ok \in BOOLEAN
  BY DEF WriteType
<1>3. p = [pending |-> p.pending, handles |-> p.handles, memo |-> p.memo, out |-> p.out, ok |-> p.ok]
  BY DEF WriteType
<1>4. CASE ~p.ok
  BY <1>1, <1>4 DEF save
<1>5. CASE p.ok /\ item.o = Unpicklable
  <2>1. q = [p EXCEPT !.ok = FALSE]
    BY <1>1, <1>5 DEF save
  <2>2. q = [pending |-> p.pending, handles |-> p.handles, memo |-> p.memo, out |-> p.out, ok |-> FALSE]
    BY <1>3, <2>1
  <2> QED  BY <1>1, <1>2, <2>2 DEF WriteType
<1>6. CASE p.ok /\ item.o # Unpicklable /\ Hit(p, item)
  <2>1. PICK m \in 1 .. Len(p.memo) :
           /\ item \in Item
           /\ save(p, item) = [pending |-> p.pending, handles |-> p.handles, memo |-> p.memo,
                               out |-> Append(p.out, [t |-> "memo", m |-> m]), ok |-> TRUE]
    BY <1>6, SaveHit
  <2>2. PICK part : part = [t |-> "memo", m |-> m]
    OBVIOUS
  <2>3. part \in PartType /\ item.o \in Object
    BY <1>2, <2>1, <2>2, MemoPart DEF Item
  <2>4. Append(p.out, part) \in Seq(PartType) /\ Len(Append(p.out, part)) = Len(p.out) + 1
    BY <1>2, <2>3, AppendHas
  <2> QED  BY <1>2, <1>6, <2>1, <2>2, <2>3, <2>4 DEF WriteType
<1>7. CASE p.ok /\ item.o # Unpicklable /\ ~Hit(p, item) /\ item.o \notin Object
  <2>1. PICK k : k = pack(p, item.o)
    OBVIOUS
  <2>2. q = IF k.ok THEN [k EXCEPT !.memo = Append(@, item)] ELSE k
    BY <1>1, <1>7, <2>1 DEF save, Hit
  <2>3. k = [p EXCEPT !.pending = Append(@, Abort), !.handles = <<>>, !.ok = FALSE]
    BY <1>7, <2>1 DEF pack
  <2>4. k = [pending |-> Append(p.pending, Abort), handles |-> <<>>, memo |-> p.memo, out |-> p.out,
             ok |-> FALSE]
    BY <1>3, <2>3
  <2>5. Append(p.pending, Abort) \in Seq(Piece)
    <3>1. Abort \in Piece
      BY DEF Piece
    <3> QED  BY <1>2, <3>1, AppendHas
  <2>6. k \in WriteType /\ ~k.ok
    BY <1>2, <2>4, <2>5 DEF WriteType
  <2> QED  BY <1>1, <2>2, <2>6
<1>8. CASE p.ok /\ item.o # Unpicklable /\ ~Hit(p, item) /\ item.o \in Object
  <2>1. PICK piece \in Piece, hs \in Seq(Object) :
           /\ item \in Item
           /\ save(p, item) =
                [pending |-> <<>>, handles |-> hs, memo |-> Append(p.memo, item),
                 out |-> Append(p.out, [t |-> "bytes", pieces |-> Append(p.pending, piece)]), ok |-> TRUE]
    BY <1>8, SavePack
  <2>2. PICK part : part = [t |-> "bytes", pieces |-> Append(p.pending, piece)]
    OBVIOUS
  <2>3. part \in PartType
    BY <1>2, <2>2, BytesPart
  <2>4. Append(p.out, part) \in Seq(PartType) /\ Len(Append(p.out, part)) = Len(p.out) + 1
    BY <1>2, <2>3, AppendHas
  <2>5. Append(p.memo, item) \in Seq(Item)
    BY <1>2, <2>1, AppendHas
  <2>6. <<>> \in Seq(Piece)
    OBVIOUS
  <2> QED  BY <1>2, <1>8, <2>1, <2>2, <2>4, <2>5, <2>6 DEF WriteType
<1> QED  BY <1>2, <1>4, <1>5, <1>6, <1>7, <1>8

\* The reader takes a reference to its table, and a new object.
LEMMA UnpackRef ==
  ASSUME NEW r \in ReadType, r.open, NEW h \in 1 .. Len(r.handles), NEW pieces, Head(pieces) = Ref(h)
  PROVE  unpack(r, pieces) =
           [open |-> TRUE, handles |-> r.handles, memo |-> Append(r.memo, r.handles[h]),
            copies |-> r.copies, got |-> Append(r.got, r.handles[h]), ok |-> r.ok]
<1>1. PICK c : c = r.handles[h]
  OBVIOUS
<1>2. h \in DOMAIN r.handles
  BY DEF ReadType
<1>3. Ref(h).t = "ref" /\ Ref(h).h = h
  BY DEF Ref
<1>4. unpack(r, pieces) = [r EXCEPT !.open = TRUE, !.got = Append(@, c), !.memo = Append(@, c)]
  BY <1>1, <1>2, <1>3 DEF unpack
<1>5. unpack(r, pieces) = [open |-> TRUE, handles |-> r.handles, memo |-> Append(r.memo, c),
                           copies |-> r.copies, got |-> Append(r.got, c), ok |-> r.ok]
  BY <1>4 DEF ReadType
<1> QED  BY <1>1, <1>5

LEMMA UnpackNew ==
  ASSUME NEW r \in ReadType, NEW o \in Object, NEW pieces, NEW c,
         IF r.open THEN Head(pieces) = New(o) ELSE Head(pieces) = Header /\ pieces[2] = New(o),
         c = [o |-> o, v |-> heap[o], id |-> r.copies + 1]
  PROVE  unpack(r, pieces) =
           [open |-> TRUE, handles |-> Append(r.handles, c), memo |-> Append(r.memo, c),
            copies |-> r.copies + 1, got |-> Append(r.got, c), ok |-> r.ok]
<1>1. New(o).t = "new" /\ New(o).o = o /\ New(o).v = heap[o]
  BY DEF New
<1>2. PICK y : y = [r EXCEPT !.open = TRUE, !.got = Append(@, c), !.memo = Append(@, c)]
  OBVIOUS
<1>3. unpack(r, pieces) = [y EXCEPT !.copies = @ + 1, !.handles = Append(@, c)]
  BY <1>1, <1>2 DEF unpack
<1>4. y = [open |-> TRUE, handles |-> r.handles, memo |-> Append(r.memo, c),
           copies |-> r.copies, got |-> Append(r.got, c), ok |-> r.ok]
  BY <1>2 DEF ReadType
<1> QED  BY <1>3, <1>4

LEMMA LoadBytes ==
  ASSUME NEW r, r.ok, NEW pieces
  PROVE  loadPart("J", r, [t |-> "bytes", pieces |-> pieces]) = unpack(r, pieces)
BY DEF loadPart

\* The reader that mirrors the writer still does after one item more.
Follows(p, item, ver, r, i, items) ==
  \E part \in PartType, x \in ReadType :
    /\ save(p, item).out = Append(p.out, part)
    /\ x = loadPart("J", r, part)
    /\ Mirrors(save(p, item), ver, x) /\ Got(x, i + 1, items) /\ x.open
    /\ ToSet(r.handles) \subseteq ToSet(x.handles)
    /\ ToSet(save(p, item).handles) = ToSet(p.handles) \cup {item.o}

LEMMA HandlesOf ==
  ASSUME NEW p \in WriteType, NEW r \in ReadType, NEW ver, Mirrors(p, ver, r), NEW c \in ToSet(r.handles)
  PROVE  c \in CopyType /\ c.o \in ToSet(p.handles) /\ c.v = ver[c.o]
<1>1. /\ r.handles \in Seq(CopyType) /\ p.handles \in Seq(Object)
      /\ DOMAIN r.handles = 1 .. Len(r.handles) /\ DOMAIN p.handles = 1 .. Len(p.handles)
  BY DEF ReadType, WriteType
<1>2. PICK k \in 1 .. Len(r.handles) : c = r.handles[k]
  BY <1>1 DEF ToSet
<1>3. k \in 1 .. Len(p.handles) /\ c.o = p.handles[k] /\ c.v = ver[p.handles[k]]
  BY <1>2 DEF Mirrors
<1>4. p.handles[k] \in ToSet(p.handles)
  BY <1>1, <1>3 DEF ToSet
<1>5. c \in CopyType
  BY <1>1, <1>2
<1> QED  BY <1>3, <1>4, <1>5

LEMMA FollowsHit ==
  ASSUME NEW p \in WriteType, NEW r \in ReadType, NEW ver, NEW i \in Nat, NEW items,
         NEW item \in Given, item = items[i + 1],
         Mirrors(p, ver, r), Got(r, i, items), p.ok, item.o # Unpicklable, Hit(p, item)
  PROVE  Follows(p, item, ver, r, i, items)
<1>1. PICK m \in 1 .. Len(p.memo) :
        /\ p.memo[m] = item
        /\ save(p, item) = [pending |-> p.pending, handles |-> p.handles, memo |-> p.memo,
                            out |-> Append(p.out, [t |-> "memo", m |-> m]), ok |-> TRUE]
  BY SaveHit
<1>2. /\ p.memo \in Seq(Item) /\ r.memo \in Seq(CopyType) /\ r.got \in Seq(CopyType) /\ r.ok
      /\ DOMAIN r.memo = 1 .. Len(r.memo) /\ Len(p.memo) \in Nat /\ r.open \in BOOLEAN
  BY DEF WriteType, ReadType, Got
<1>3. PICK c : c = r.memo[m]
  OBVIOUS
<1>4. m \in DOMAIN r.memo /\ c.o = item.o /\ c \in ToSet(r.handles) /\ m \in Nat
  BY <1>1, <1>2, <1>3 DEF Mirrors
<1>5. c \in CopyType /\ item.o \in ToSet(p.handles)
  BY <1>4, HandlesOf
<1>6. PICK part : part = [t |-> "memo", m |-> m]
  OBVIOUS
<1>7. PICK x : x = loadPart("J", r, part)
  OBVIOUS
<1>8. part \in PartType
  BY <1>4, <1>6, MemoPart
<1>9. x = [r EXCEPT !.got = Append(@, c)]
  BY <1>2, <1>3, <1>4, <1>6, <1>7 DEF loadPart
<1>10. x = [open |-> r.open, handles |-> r.handles, memo |-> r.memo, copies |-> r.copies,
            got |-> Append(r.got, c), ok |-> r.ok]
  BY <1>9 DEF ReadType
<1>11. x \in ReadType
  <2>1. Append(r.got, c) \in Seq(CopyType)
    BY <1>2, <1>5, AppendHas
  <2> QED  BY <1>10, <2>1 DEF ReadType
<1>12. Got(x, i + 1, items)
  <2>1. ToSet(r.handles) \subseteq ToSet(x.handles) /\ c \in ToSet(x.handles) /\ x.ok
    BY <1>2, <1>4, <1>10
  <2>2. x.got = Append(r.got, c)
    BY <1>10
  <2> QED  BY <1>4, <1>5, <1>11, <2>1, <2>2, GotMore
<1>13. r.open
  <2>1. p.memo # <<>>
    BY <1>1, <1>2
  <2> QED  BY <1>2, <2>1 DEF Mirrors
<1>14. Mirrors(save(p, item), ver, x)
  <2>1. PICK q : q = save(p, item)
    OBVIOUS
  <2>2. q.pending = p.pending /\ q.handles = p.handles /\ q.memo = p.memo
    BY <1>1, <2>1
  <2>3. x.open /\ x.handles = r.handles /\ x.memo = r.memo /\ x.copies = r.copies
    BY <1>10, <1>13
  <2>4. p.pending = <<>>
    BY <1>13 DEF Mirrors
  <2>5. /\ r.copies = Len(r.handles) /\ Len(r.handles) = Len(p.handles)
        /\ \A k \in 1 .. Len(p.handles) : r.handles[k].o = p.handles[k] /\ r.handles[k].v = ver[p.handles[k]]
        /\ \A k, l \in 1 .. Len(p.handles) : p.handles[k] = p.handles[l] => k = l
        /\ Len(r.memo) = Len(p.memo)
        /\ \A k \in 1 .. Len(p.memo) : r.memo[k].o = p.memo[k].o /\ r.memo[k] \in ToSet(r.handles)
    BY DEF Mirrors
  <2>6. Mirrors(q, ver, x)
    BY <2>2, <2>3, <2>4, <2>5 DEF Mirrors
  <2> QED  BY <2>1, <2>6
<1>15. save(p, item).out = Append(p.out, part) /\ save(p, item).handles = p.handles
  BY <1>1, <1>6
<1>16. x.handles = r.handles /\ x.open
  BY <1>10, <1>13
<1>17. ToSet(save(p, item).handles) = ToSet(p.handles) \cup {item.o}
  BY <1>5, <1>15
<1> QED  BY <1>7, <1>8, <1>11, <1>12, <1>14, <1>15, <1>16, <1>17 DEF Follows

\* One wrapper more in the memos.
LEMMA MemoMore ==
  ASSUME NEW pm \in Seq(Item), NEW rm \in Seq(CopyType), NEW H, NEW G, H \subseteq G,
         Len(rm) = Len(pm), \A k \in 1 .. Len(pm) : rm[k].o = pm[k].o /\ rm[k] \in H,
         NEW item \in Item, NEW c \in CopyType, c.o = item.o, c \in G,
         NEW qm, qm = Append(pm, item), NEW xm, xm = Append(rm, c)
  PROVE  Len(xm) = Len(qm) /\ \A k \in 1 .. Len(qm) : xm[k].o = qm[k].o /\ xm[k] \in G
<1>1. /\ Len(qm) = Len(pm) + 1 /\ Len(pm) \in Nat /\ qm[Len(pm) + 1] = item
      /\ \A k \in 1 .. Len(pm) : qm[k] = pm[k]
  BY AppendHas
<1>2. /\ Len(xm) = Len(rm) + 1 /\ Len(rm) \in Nat /\ xm[Len(rm) + 1] = c
      /\ \A k \in 1 .. Len(rm) : xm[k] = rm[k]
  BY AppendHas
<1>3. ASSUME NEW k \in 1 .. Len(qm) PROVE xm[k].o = qm[k].o /\ xm[k] \in G
  <2>1. CASE k \in 1 .. Len(pm)
    <3>1. qm[k] = pm[k] /\ xm[k] = rm[k] /\ rm[k].o = pm[k].o /\ rm[k] \in H
      BY <1>1, <1>2, <2>1
    <3> QED  BY <3>1
  <2>2. CASE k = Len(pm) + 1
    <3>1. qm[k] = item /\ xm[k] = c
      BY <1>1, <1>2, <2>2
    <3> QED  BY <3>1
  <2>3. k \in 1 .. Len(pm) \/ k = Len(pm) + 1
    BY <1>1
  <2> QED  BY <2>1, <2>2, <2>3
<1> QED  BY <1>1, <1>2, <1>3

LEMMA FollowsRef ==
  ASSUME NEW p \in WriteType, NEW r \in ReadType, NEW ver, NEW i \in Nat, NEW items,
         NEW item \in Item, item = items[i + 1],
         Mirrors(p, ver, r), Got(r, i, items),
         NEW h \in 1 .. Len(p.handles), p.handles[h] = item.o,
         save(p, item) = [pending |-> <<>>, handles |-> p.handles, memo |-> Append(p.memo, item),
                          out |-> Append(p.out, [t |-> "bytes", pieces |-> Append(p.pending, Ref(h))]),
                          ok |-> TRUE]
  PROVE  Follows(p, item, ver, r, i, items)
<1>1. /\ p.memo \in Seq(Item) /\ r.memo \in Seq(CopyType) /\ r.got \in Seq(CopyType) /\ r.ok
      /\ p.handles \in Seq(Object) /\ Len(p.handles) \in Nat /\ r.open \in BOOLEAN
      /\ r.handles \in Seq(CopyType) /\ DOMAIN r.handles = 1 .. Len(r.handles)
      /\ r.copies \in Nat
  BY DEF WriteType, ReadType, Got
<1>2. p.handles # <<>>
  BY <1>1
<1>3. r.open /\ p.pending = <<>>
  BY <1>1, <1>2 DEF Mirrors
<1>4. /\ r.copies = Len(r.handles) /\ Len(r.handles) = Len(p.handles)
      /\ \A k \in 1 .. Len(p.handles) : r.handles[k].o = p.handles[k] /\ r.handles[k].v = ver[p.handles[k]]
      /\ \A k, l \in 1 .. Len(p.handles) : p.handles[k] = p.handles[l] => k = l
      /\ Len(r.memo) = Len(p.memo)
      /\ \A k \in 1 .. Len(p.memo) : r.memo[k].o = p.memo[k].o /\ r.memo[k] \in ToSet(r.handles)
  BY DEF Mirrors
<1>5. PICK c : c = r.handles[h]
  OBVIOUS
<1>6. h \in 1 .. Len(r.handles) /\ c.o = item.o /\ c \in CopyType /\ c \in ToSet(r.handles)
  <2>1. h \in 1 .. Len(r.handles) /\ c.o = item.o
    BY <1>4, <1>5
  <2>2. c \in CopyType
    BY <1>1, <1>5, <2>1
  <2>3. c \in ToSet(r.handles)
    BY <1>1, <1>5, <2>1 DEF ToSet
  <2> QED  BY <2>1, <2>2, <2>3
<1>7. PICK pieces : pieces = Append(p.pending, Ref(h))
  OBVIOUS
<1>8. Ref(h) \in Piece
  BY <1>1 DEF Ref, Piece
<1>9. Head(pieces) = Ref(h)
  BY <1>3, <1>7
<1>10. PICK part : part = [t |-> "bytes", pieces |-> pieces]
  OBVIOUS
<1>11. part \in PartType
  <2>1. p.pending \in Seq(Piece)
    BY DEF WriteType
  <2> QED  BY <1>7, <1>8, <1>10, <2>1, BytesPart
<1>12. PICK x : x = loadPart("J", r, part)
  OBVIOUS
<1>13. x = unpack(r, pieces)
  BY <1>1, <1>10, <1>12, LoadBytes
<1>14. x = [open |-> TRUE, handles |-> r.handles, memo |-> Append(r.memo, c),
            copies |-> r.copies, got |-> Append(r.got, c), ok |-> r.ok]
  BY <1>3, <1>5, <1>6, <1>9, <1>13, UnpackRef
<1>15. x \in ReadType
  <2>1. Append(r.got, c) \in Seq(CopyType) /\ Append(r.memo, c) \in Seq(CopyType)
    BY <1>1, <1>6, AppendHas
  <2> QED  BY <1>1, <1>14, <2>1 DEF ReadType
<1>16. Got(x, i + 1, items)
  <2>1. ToSet(r.handles) \subseteq ToSet(x.handles) /\ c \in ToSet(x.handles) /\ x.ok
    BY <1>1, <1>6, <1>14
  <2>2. x.got = Append(r.got, c)
    BY <1>14
  <2> QED  BY <1>6, <1>15, <2>1, <2>2, GotMore
<1>17. PICK q : q = save(p, item)
  OBVIOUS
<1>18. /\ q.pending = <<>> /\ q.handles = p.handles /\ q.memo = Append(p.memo, item)
       /\ q.out = Append(p.out, part)
  BY <1>7, <1>10, <1>17
<1>19. x.open /\ x.handles = r.handles /\ x.memo = Append(r.memo, c) /\ x.copies = r.copies
  BY <1>14
<1>20. /\ Len(x.memo) = Len(q.memo)
       /\ \A k \in 1 .. Len(q.memo) : x.memo[k].o = q.memo[k].o /\ x.memo[k] \in ToSet(x.handles)
  <2>1. ToSet(x.handles) = ToSet(r.handles)
    BY <1>19
  <2>2. PICK H : H = ToSet(r.handles)
    OBVIOUS
  <2>3. H \subseteq H /\ c \in H /\ \A k \in 1 .. Len(p.memo) : r.memo[k].o = p.memo[k].o /\ r.memo[k] \in H
    BY <1>4, <1>6, <2>2
  <2>4. Len(x.memo) = Len(q.memo) /\ \A k \in 1 .. Len(q.memo) : x.memo[k].o = q.memo[k].o /\ x.memo[k] \in H
    BY <1>1, <1>4, <1>6, <1>18, <1>19, <2>3, MemoMore
  <2> QED  BY <2>1, <2>2, <2>4
<1>21. Mirrors(q, ver, x)
  BY <1>4, <1>18, <1>19, <1>20 DEF Mirrors
<1>22. ToSet(q.handles) = ToSet(p.handles) \cup {item.o}
  <2>1. item.o \in ToSet(p.handles)
    BY <1>1 DEF ToSet
  <2> QED  BY <1>18, <2>1
<1>23. ToSet(r.handles) \subseteq ToSet(x.handles)
  BY <1>19
<1> QED  BY <1>11, <1>12, <1>15, <1>16, <1>17, <1>18, <1>19, <1>21, <1>22, <1>23 DEF Follows

Distinct(s) == \A k, l \in 1 .. Len(s) : s[k] = s[l] => k = l
CopiesOf(ph, rh, ver) ==
  Len(rh) = Len(ph) /\ \A k \in 1 .. Len(ph) : rh[k].o = ph[k] /\ rh[k].v = ver[ph[k]]

\* One object more in the tables.
LEMMA HandlesMore ==
  ASSUME NEW ph \in Seq(Object), NEW rh \in Seq(CopyType), NEW ver, CopiesOf(ph, rh, ver), Distinct(ph),
         NEW o \in Object, o \notin ToSet(ph), NEW c \in CopyType, c.o = o, c.v = ver[o],
         NEW qh, qh = Append(ph, o), NEW xh, xh = Append(rh, c)
  PROVE  CopiesOf(qh, xh, ver) /\ Distinct(qh)
<1> USE DEF CopiesOf, Distinct
<1>1. /\ Len(qh) = Len(ph) + 1 /\ Len(ph) \in Nat /\ qh[Len(ph) + 1] = o
      /\ \A k \in 1 .. Len(ph) : qh[k] = ph[k]
  BY AppendHas
<1>2. /\ Len(xh) = Len(rh) + 1 /\ Len(rh) \in Nat /\ xh[Len(rh) + 1] = c
      /\ \A k \in 1 .. Len(rh) : xh[k] = rh[k]
  BY AppendHas
<1>3. \A k \in 1 .. Len(qh) : k \in 1 .. Len(ph) \/ k = Len(ph) + 1
  BY <1>1
<1>4. ASSUME NEW k \in 1 .. Len(qh) PROVE xh[k].o = qh[k] /\ xh[k].v = ver[qh[k]]
  <2>1. CASE k \in 1 .. Len(ph)
    <3>1. qh[k] = ph[k] /\ xh[k] = rh[k] /\ rh[k].o = ph[k] /\ rh[k].v = ver[ph[k]]
      BY <1>1, <1>2, <2>1
    <3> QED  BY <3>1
  <2>2. CASE k = Len(ph) + 1
    <3>1. qh[k] = o /\ xh[k] = c
      BY <1>1, <1>2, <2>2
    <3> QED  BY <3>1
  <2> QED  BY <1>3, <2>1, <2>2
<1>5. \A k \in 1 .. Len(ph) : qh[k] # o
  <2>1. DOMAIN ph = 1 .. Len(ph)
    OBVIOUS
  <2>2. \A k \in 1 .. Len(ph) : ph[k] # o
    BY <2>1 DEF ToSet
  <2> QED  BY <1>1, <2>2
<1>6. ASSUME NEW k \in 1 .. Len(qh), NEW l \in 1 .. Len(qh), qh[k] = qh[l] PROVE k = l
  <2>1. CASE k \in 1 .. Len(ph) /\ l \in 1 .. Len(ph)
    BY <1>1, <1>6, <2>1
  <2>2. CASE k = Len(ph) + 1 \/ l = Len(ph) + 1
    BY <1>1, <1>3, <1>5, <1>6, <2>2
  <2> QED  BY <1>3, <2>1, <2>2
<1> QED  BY <1>1, <1>2, <1>4, <1>6

\* An object that the stream meets first.
Packed(p, item) ==
  [pending |-> <<>>, handles |-> Append(p.handles, item.o), memo |-> Append(p.memo, item),
   out |-> Append(p.out, [t |-> "bytes", pieces |-> Append(p.pending, New(item.o))]), ok |-> TRUE]

LEMMA FollowsNew ==
  ASSUME NEW p \in WriteType, NEW r \in ReadType, NEW ver, NEW i \in Nat, NEW items,
         NEW item \in Item, item = items[i + 1], heap \in [Object -> Nat],
         Mirrors(p, ver, r), Got(r, i, items),
         item.o \notin ToSet(p.handles), ver[item.o] = heap[item.o],
         save(p, item) = Packed(p, item)
  PROVE  Follows(p, item, ver, r, i, items)
<1>1. /\ p.memo \in Seq(Item) /\ r.memo \in Seq(CopyType) /\ r.got \in Seq(CopyType) /\ r.ok
      /\ p.handles \in Seq(Object) /\ Len(p.handles) \in Nat /\ r.open \in BOOLEAN
      /\ r.handles \in Seq(CopyType) /\ r.copies \in Nat /\ item.o \in Object
  BY DEF WriteType, ReadType, Got, Item
<1>2. r.open => p.pending = <<>>
  BY DEF Mirrors
<1>3. ~r.open => p.pending = <<Header>>
  BY DEF Mirrors
<1>4. /\ r.copies = Len(r.handles) /\ Len(r.handles) = Len(p.handles)
      /\ \A k \in 1 .. Len(p.handles) : r.handles[k].o = p.handles[k] /\ r.handles[k].v = ver[p.handles[k]]
      /\ \A k, l \in 1 .. Len(p.handles) : p.handles[k] = p.handles[l] => k = l
      /\ Len(r.memo) = Len(p.memo)
      /\ \A k \in 1 .. Len(p.memo) : r.memo[k].o = p.memo[k].o /\ r.memo[k] \in ToSet(r.handles)
  BY DEF Mirrors
<1>5. PICK c : c = [o |-> item.o, v |-> heap[item.o], id |-> r.copies + 1]
  OBVIOUS
<1>6. c \in CopyType /\ c.o = item.o /\ c.v = ver[item.o]
  <2>1. PICK o : o = item.o
    OBVIOUS
  <2>2. o \in Object /\ heap[o] \in Nat
    BY <1>1, <2>1
  <2> QED  BY <1>1, <1>5, <2>1, <2>2 DEF CopyType
<1>7. PICK pieces : pieces = Append(p.pending, New(item.o))
  OBVIOUS
<1>8. New(item.o) \in Piece /\ Header \in Piece
  BY <1>1 DEF New, Piece
<1>9. IF r.open THEN Head(pieces) = New(item.o) ELSE Head(pieces) = Header /\ pieces[2] = New(item.o)
  <2>1. CASE r.open
    BY <1>2, <1>7, <2>1
  <2>2. CASE ~r.open
    BY <1>3, <1>7, <2>2
  <2> QED  BY <2>1, <2>2
<1>10. PICK part : part = [t |-> "bytes", pieces |-> pieces]
  OBVIOUS
<1>11. part \in PartType
  <2>1. p.pending \in Seq(Piece)
    BY DEF WriteType
  <2> QED  BY <1>7, <1>8, <1>10, <2>1, BytesPart
<1>12. PICK x : x = loadPart("J", r, part)
  OBVIOUS
<1>13. x = unpack(r, pieces)
  BY <1>1, <1>10, <1>12, LoadBytes
<1>14. x = [open |-> TRUE, handles |-> Append(r.handles, c), memo |-> Append(r.memo, c),
            copies |-> r.copies + 1, got |-> Append(r.got, c), ok |-> r.ok]
  <2>1. PICK o : o = item.o
    OBVIOUS
  <2>2. /\ o \in Object /\ c = [o |-> o, v |-> heap[o], id |-> r.copies + 1]
        /\ IF r.open THEN Head(pieces) = New(o) ELSE Head(pieces) = Header /\ pieces[2] = New(o)
    BY <1>1, <1>5, <1>9, <2>1
  <2> QED  BY <1>13, <2>2, UnpackNew
<1>15. x \in ReadType
  <2>1. /\ Append(r.got, c) \in Seq(CopyType) /\ Append(r.memo, c) \in Seq(CopyType)
        /\ Append(r.handles, c) \in Seq(CopyType)
    BY <1>1, <1>6, AppendHas
  <2> QED  BY <1>1, <1>14, <2>1 DEF ReadType
<1>16. /\ x.open /\ x.handles = Append(r.handles, c) /\ x.memo = Append(r.memo, c)
       /\ x.copies = r.copies + 1 /\ x.got = Append(r.got, c) /\ x.ok
  BY <1>1, <1>14
<1>17. ToSet(x.handles) = ToSet(r.handles) \cup {c}
  BY <1>1, <1>6, <1>16, AppendHas
<1>18. Got(x, i + 1, items)
  <2>1. ToSet(r.handles) \subseteq ToSet(x.handles) /\ c \in ToSet(x.handles)
    BY <1>17
  <2> QED  BY <1>6, <1>15, <1>16, <2>1, GotMore
<1>19. PICK q : q = save(p, item)
  OBVIOUS
<1>20. /\ q.pending = <<>> /\ q.handles = Append(p.handles, item.o) /\ q.memo = Append(p.memo, item)
       /\ q.out = Append(p.out, part)
  BY <1>7, <1>10, <1>19, SMTT(30) DEF Packed
<1>21. /\ Len(x.memo) = Len(q.memo)
       /\ \A k \in 1 .. Len(q.memo) : x.memo[k].o = q.memo[k].o /\ x.memo[k] \in ToSet(x.handles)
  <2>1. PICK H : H = ToSet(r.handles)
    OBVIOUS
  <2>2. PICK G : G = ToSet(x.handles)
    OBVIOUS
  <2>3. H \subseteq G /\ c \in G /\ \A k \in 1 .. Len(p.memo) : r.memo[k].o = p.memo[k].o /\ r.memo[k] \in H
    BY <1>4, <1>17, <2>1, <2>2
  <2>4. Len(x.memo) = Len(q.memo) /\ \A k \in 1 .. Len(q.memo) : x.memo[k].o = q.memo[k].o /\ x.memo[k] \in G
    <3>1. PICK pm : pm = p.memo
      OBVIOUS
    <3>2. PICK rm : rm = r.memo
      OBVIOUS
    <3>3. PICK qm : qm = q.memo
      OBVIOUS
    <3>4. PICK xm : xm = x.memo
      OBVIOUS
    <3>5. pm \in Seq(Item) /\ rm \in Seq(CopyType) /\ qm = Append(pm, item) /\ xm = Append(rm, c)
      BY <1>1, <1>16, <1>20, <3>1, <3>2, <3>3, <3>4
    <3>6. Len(rm) = Len(pm) /\ \A k \in 1 .. Len(pm) : rm[k].o = pm[k].o /\ rm[k] \in H
      BY <1>4, <2>3, <3>1, <3>2
    <3>7. H \subseteq G /\ c \in G /\ c \in CopyType /\ c.o = item.o
      BY <1>6, <2>3
    <3>8. Len(xm) = Len(qm) /\ \A k \in 1 .. Len(qm) : xm[k].o = qm[k].o /\ xm[k] \in G
      BY <3>5, <3>6, <3>7, MemoMore
    <3> QED  BY <3>3, <3>4, <3>8
  <2> QED  BY <2>2, <2>4
<1>22. /\ Len(x.handles) = Len(q.handles) /\ Len(x.handles) = Len(r.handles) + 1
       /\ \A k \in 1 .. Len(q.handles) : x.handles[k].o = q.handles[k] /\ x.handles[k].v = ver[q.handles[k]]
       /\ \A k, l \in 1 .. Len(q.handles) : q.handles[k] = q.handles[l] => k = l
  <2>1. PICK ph : ph = p.handles
    OBVIOUS
  <2>2. PICK rh : rh = r.handles
    OBVIOUS
  <2>3. PICK qh : qh = q.handles
    OBVIOUS
  <2>4. PICK xh : xh = x.handles
    OBVIOUS
  <2>5. PICK o : o = item.o
    OBVIOUS
  <2>6. /\ ph \in Seq(Object) /\ rh \in Seq(CopyType) /\ qh = Append(ph, o) /\ xh = Append(rh, c)
        /\ o \in Object /\ o \notin ToSet(ph) /\ c \in CopyType /\ c.o = o /\ c.v = ver[o]
    BY <1>1, <1>6, <1>16, <1>20, <2>1, <2>2, <2>3, <2>4, <2>5
  <2>7. /\ Len(rh) = Len(ph)
        /\ \A k \in 1 .. Len(ph) : rh[k].o = ph[k] /\ rh[k].v = ver[ph[k]]
        /\ \A k, l \in 1 .. Len(ph) : ph[k] = ph[l] => k = l
    BY <1>4, <2>1, <2>2
  <2>8. CopiesOf(ph, rh, ver) /\ Distinct(ph)
    BY <2>7 DEF CopiesOf, Distinct
  <2>9. CopiesOf(qh, xh, ver) /\ Distinct(qh)
    BY ONLY <2>6, <2>8, HandlesMore
  <2>10. Len(xh) = Len(rh) + 1
    BY <2>6, AppendHas
  <2> QED  BY <2>2, <2>3, <2>4, <2>9, <2>10 DEF CopiesOf, Distinct
<1>23. x.copies = Len(x.handles)
  BY <1>4, <1>16, <1>22
<1>24. Mirrors(q, ver, x)
  BY <1>16, <1>20, <1>21, <1>22, <1>23 DEF Mirrors
<1>25. ToSet(q.handles) = ToSet(p.handles) \cup {item.o}
  BY <1>1, <1>20, AppendHas
<1>26. ToSet(r.handles) \subseteq ToSet(x.handles)
  BY <1>17
<1> QED  BY <1>11, <1>12, <1>15, <1>16, <1>18, <1>19, <1>20, <1>24, <1>25, <1>26 DEF Follows

\* Every item that pickler.save takes is read by the reader that mirrors it.
LEMMA FollowsSave ==
  ASSUME NEW p \in WriteType, NEW r \in ReadType, NEW ver, NEW i \in Nat, NEW items,
         NEW item \in Given, item = items[i + 1], heap \in [Object -> Nat],
         Mirrors(p, ver, r), Got(r, i, items), save(p, item).ok,
         item.o \notin ToSet(p.handles) => ver[item.o] = heap[item.o]
  PROVE  Follows(p, item, ver, r, i, items)
<1>1. p.ok /\ item.o \in Object /\ item.o # Unpicklable
  BY SaveType
<1>2. CASE Hit(p, item)
  BY <1>1, <1>2, FollowsHit
<1>3. CASE ~Hit(p, item)
  <2>1. PICK piece \in Piece, hs \in Seq(Object) :
           /\ item \in Item
           /\ save(p, item) =
                [pending |-> <<>>, handles |-> hs, memo |-> Append(p.memo, item),
                 out |-> Append(p.out, [t |-> "bytes", pieces |-> Append(p.pending, piece)]), ok |-> TRUE]
           /\ \/ /\ hs = p.handles
                 /\ \E h \in 1 .. Len(p.handles) : p.handles[h] = item.o /\ piece = Ref(h)
              \/ /\ hs = Append(p.handles, item.o) /\ item.o \notin ToSet(p.handles)
                 /\ piece = New(item.o)
    BY <1>1, <1>3, SavePack
  <2>2. CASE hs = p.handles /\ \E h \in 1 .. Len(p.handles) : p.handles[h] = item.o /\ piece = Ref(h)
    <3>1. PICK h \in 1 .. Len(p.handles) : p.handles[h] = item.o /\ piece = Ref(h)
      BY <2>2
    <3>2. save(p, item) =
            [pending |-> <<>>, handles |-> p.handles, memo |-> Append(p.memo, item),
             out |-> Append(p.out, [t |-> "bytes", pieces |-> Append(p.pending, Ref(h))]), ok |-> TRUE]
      BY <2>1, <2>2, <3>1
    <3> QED  BY <2>1, <3>1, <3>2, FollowsRef
  <2>3. CASE /\ hs = Append(p.handles, item.o) /\ item.o \notin ToSet(p.handles)
             /\ piece = New(item.o)
    <3>1. save(p, item) = Packed(p, item)
      BY <2>1, <2>3 DEF Packed
    <3> QED  BY <2>1, <2>3, <3>1, FollowsNew
  <2> QED  BY <2>1, <2>2, <2>3
<1> QED  BY <1>2, <1>3

\* A dump that does not raise has one part for each of its items.
LEMMA SavedType ==
  ASSUME NEW begin \in WriteType, NEW items \in Seq(Given), heap \in [Object -> Nat]
  PROVE  \E f : /\ Saving(f, begin, items) /\ Saved(begin, items) = f[Len(items)]
                /\ \A i \in 0 .. Len(items) :
                     /\ f[i] \in WriteType
                     /\ f[i].ok => /\ Len(f[i].out) = Len(begin.out) + i
                                   /\ \A j \in 1 .. i : f[j - 1].ok /\ items[j].o \in Object
<1>1. PICK n : n = Len(items)
  OBVIOUS
<1>2. n \in Nat /\ \A i \in 1 .. n : items[i] \in Given
  BY <1>1
<1>3. PICK f : Saving(f, begin, items) /\ Saved(begin, items) = f[n]
  BY <1>1, <1>2, SavedSteps
<1> DEFINE Fine(i) == /\ f[i] \in WriteType
                      /\ f[i].ok => /\ Len(f[i].out) = Len(begin.out) + i
                                    /\ \A j \in 1 .. i : f[j - 1].ok /\ items[j].o \in Object
           Good == {i \in Nat : i <= n => Fine(i)}
<1>4. begin.out \in Seq(PartType) /\ Len(begin.out) \in Nat
  BY DEF WriteType
<1>5. Fine(0)
  <2>1. f[0] = begin
    BY <1>3 DEF Saving
  <2> QED  BY <1>4, <2>1
<1>6. ASSUME NEW i \in 1 .. n, Fine(i - 1) PROVE Fine(i)
  <2>1. PICK p : p = f[i - 1]
    OBVIOUS
  <2>2. PICK item : item = items[i]
    OBVIOUS
  <2>3. p \in WriteType /\ item \in Given
    BY <1>2, <1>6, <2>1, <2>2
  <2>4. f[i] = save(p, item)
    BY <1>1, <1>3, <2>1, <2>2 DEF Saving
  <2>5. /\ save(p, item) \in WriteType
        /\ save(p, item).ok => /\ p.ok /\ item.o \in Object
                               /\ Len(save(p, item).out) = Len(p.out) + 1
    BY <2>3, SaveType
  <2>6. ASSUME f[i].ok
        PROVE  /\ Len(f[i].out) = Len(begin.out) + i
               /\ \A j \in 1 .. i : f[j - 1].ok /\ items[j].o \in Object
    <3>1. p.ok /\ item.o \in Object /\ Len(f[i].out) = Len(p.out) + 1
      BY <2>4, <2>5, <2>6
    <3>2. Len(p.out) = Len(begin.out) + (i - 1) /\ \A j \in 1 .. i - 1 : f[j - 1].ok /\ items[j].o \in Object
      BY <1>6, <2>1, <3>1
    <3>3. Len(f[i].out) = Len(begin.out) + i
      BY <1>4, <3>1, <3>2
    <3>4. f[i - 1].ok /\ items[i].o \in Object
      BY <2>1, <2>2, <3>1
    <3>5. \A j \in 1 .. i : j \in 1 .. i - 1 \/ j = i
      OBVIOUS
    <3> QED  BY <3>2, <3>3, <3>4, <3>5
  <2> QED  BY <2>4, <2>5, <2>6
<1> HIDE DEF Fine
<1>7. 0 \in Good
  BY <1>5
<1>8. ASSUME NEW i \in 1 .. n, i - 1 \in Good PROVE i \in Good
  BY <1>2, <1>6, <1>8
<1>9. \A i \in 0 .. n : i \in Good
  <2>1. Good \in SUBSET Nat
    OBVIOUS
  <2> HIDE DEF Good
  <2> QED  BY <1>2, <1>7, <1>8, <2>1, UpTo
<1>10. \A i \in 0 .. n : Fine(i)
  BY <1>2, <1>9
<1> QED  BY <1>1, <1>3, <1>10 DEF Fine

\* What holds when the first i items of a dump are written, and read again.
Sim(begin, r0, ver, items, i, p, r) ==
  /\ r \in ReadType /\ Mirrors(p, ver, r) /\ Got(r, i, items) /\ (i > 0 => r.open)
  /\ ToSet(r0.handles) \subseteq ToSet(r.handles)
  /\ ToSet(begin.handles) \subseteq ToSet(p.handles)
  /\ \A o \in ToSet(p.handles) : o \in ToSet(begin.handles) \/ \E j \in 1 .. i : items[j].o = o
  /\ \A j \in 1 .. i : items[j].o \in ToSet(p.handles)

LEMMA SimStep ==
  ASSUME NEW begin, NEW r0, NEW ver, NEW items, NEW i \in Nat, NEW p \in WriteType, NEW r,
         NEW k \in Nat, k = i + 1,
         Sim(begin, r0, ver, items, i, p, r), r = Loaded("J", r0, p.out),
         NEW item \in Given, item = items[i + 1], heap \in [Object -> Nat], save(p, item).ok,
         item.o \notin ToSet(begin.handles) => ver[item.o] = heap[item.o]
  PROVE  Sim(begin, r0, ver, items, k, save(p, item), Loaded("J", r0, save(p, item).out))
<1>1. r \in ReadType /\ Mirrors(p, ver, r) /\ Got(r, i, items)
  BY DEF Sim
<1>2. item.o \notin ToSet(p.handles) => ver[item.o] = heap[item.o]
  BY DEF Sim
<1>3. Follows(p, item, ver, r, i, items)
  BY <1>1, <1>2, FollowsSave
<1>4. PICK q : q = save(p, item)
  OBVIOUS
<1>5. PICK part \in PartType, x \in ReadType :
        /\ q.out = Append(p.out, part)
        /\ x = loadPart("J", r, part)
        /\ Mirrors(q, ver, x) /\ Got(x, i + 1, items) /\ x.open
        /\ ToSet(r.handles) \subseteq ToSet(x.handles)
        /\ ToSet(q.handles) = ToSet(p.handles) \cup {item.o}
  BY <1>3, <1>4 DEF Follows
<1>6. x = Loaded("J", r0, q.out)
  <2>1. p.out \in Seq(PartType)
    BY DEF WriteType
  <2>2. Loaded("J", r0, Append(p.out, part)) = loadPart("J", Loaded("J", r0, p.out), part)
    BY <2>1, LoadedAppend
  <2> QED  BY <1>5, <2>2
<1>7. ToSet(r0.handles) \subseteq ToSet(x.handles) /\ ToSet(begin.handles) \subseteq ToSet(q.handles)
  BY <1>5 DEF Sim
<1>8. \A j \in 1 .. k : j \in 1 .. i \/ j = i + 1
  OBVIOUS
<1>9. ASSUME NEW j \in 1 .. k PROVE items[j].o \in ToSet(q.handles)
  <2>1. CASE j \in 1 .. i
    <3>1. items[j].o \in ToSet(p.handles)
      BY <2>1 DEF Sim
    <3> QED  BY <1>5, <3>1
  <2>2. CASE j = i + 1
    BY <1>5, <2>2
  <2> QED  BY <1>8, <2>1, <2>2
<1>10. ASSUME NEW o \in ToSet(q.handles)
       PROVE  o \in ToSet(begin.handles) \/ \E j \in 1 .. k : items[j].o = o
  <2>1. CASE o = item.o
    <3>1. k \in 1 .. k /\ items[k].o = o
      BY <2>1
    <3> QED  BY <3>1
  <2>2. CASE o \in ToSet(p.handles)
    <3>1. o \in ToSet(begin.handles) \/ \E j \in 1 .. i : items[j].o = o
      BY <2>2 DEF Sim
    <3>2. \A j \in 1 .. i : j \in 1 .. k
      OBVIOUS
    <3> QED  BY <3>1, <3>2
  <2> QED  BY <1>5, <2>1, <2>2
<1>11. Got(x, k, items)
  BY <1>5
<1>12. Sim(begin, r0, ver, items, k, q, x)
  BY <1>5, <1>7, <1>9, <1>10, <1>11 DEF Sim
<1> QED  BY <1>4, <1>6, <1>12

LEMMA DumpSim ==
  ASSUME NEW begin \in WriteType, begin.out = <<>>, NEW r0 \in ReadType, r0.got = <<>>, r0.ok,
         NEW ver, NEW items \in Seq(Given), heap \in [Object -> Nat],
         Mirrors(begin, ver, r0), Saved(begin, items).ok,
         \A k \in 1 .. Len(items) :
           items[k].o \notin ToSet(begin.handles) => ver[items[k].o] = heap[items[k].o]
  PROVE  Sim(begin, r0, ver, items, Len(items), Saved(begin, items), Loaded("J", r0, Saved(begin, items).out))
<1>1. PICK n : n = Len(items)
  OBVIOUS
<1>2. n \in Nat /\ \A i \in 1 .. n : items[i] \in Given
  BY <1>1
<1>3. PICK f : /\ Saving(f, begin, items) /\ Saved(begin, items) = f[n]
               /\ \A i \in 0 .. n :
                     /\ f[i] \in WriteType
                     /\ f[i].ok => /\ Len(f[i].out) = Len(begin.out) + i
                                   /\ \A j \in 1 .. i : f[j - 1].ok /\ items[j].o \in Object
  BY <1>1, SavedType
<1>4. \A i \in 0 .. n : f[i].ok
  <2>1. f[n].ok
    BY <1>3
  <2>2. \A j \in 1 .. n : f[j - 1].ok
    <3>1. n \in 0 .. n
      BY <1>2
    <3>2. \A j \in 1 .. n : f[j - 1].ok /\ items[j].o \in Object
      BY <1>3, <2>1, <3>1
    <3> QED  BY <3>2
  <2>3. ASSUME NEW i \in 0 .. n PROVE f[i].ok
    <3>1. CASE i = n
      BY <2>1, <3>1
    <3>2. CASE i # n
      <4>1. i + 1 \in 1 .. n /\ (i + 1) - 1 = i
        BY <1>2, <3>2
      <4>2. f[(i + 1) - 1].ok
        BY <2>2, <4>1
      <4> QED  BY <4>1, <4>2
    <3> QED  BY <3>1, <3>2
  <2> QED  BY <2>3
<1> DEFINE Fine(i) == Sim(begin, r0, ver, items, i, f[i], Loaded("J", r0, f[i].out))
           Good == {i \in Nat : i <= n => Fine(i)}
<1>5. Fine(0)
  <2>1. f[0] = begin
    BY <1>3 DEF Saving
  <2>2. Loaded("J", r0, f[0].out) = r0
    BY <2>1, LoadedEmpty
  <2>3. Got(r0, 0, items)
    BY DEF Got
  <2>4. Sim(begin, r0, ver, items, 0, begin, r0)
    BY <2>3 DEF Sim
  <2> QED  BY <2>1, <2>2, <2>4
<1>6. ASSUME NEW i \in 1 .. n, Fine(i - 1) PROVE Fine(i)
  <2>1. PICK p : p = f[i - 1]
    OBVIOUS
  <2>2. PICK item : item = items[i]
    OBVIOUS
  <2>3. PICK l : l = i - 1
    OBVIOUS
  <2>4. l \in Nat /\ i = l + 1 /\ l \in 0 .. n /\ i \in Nat /\ i \in 0 .. n
    BY <1>2, <2>3
  <2>5. p \in WriteType /\ item \in Given /\ item = items[l + 1]
    BY <1>2, <1>3, <2>1, <2>2, <2>3, <2>4
  <2>6. f[i] = save(p, item)
    BY <1>1, <1>3, <2>1, <2>2 DEF Saving
  <2>7. save(p, item).ok
    BY <1>4, <2>4, <2>6
  <2>8. PICK r : r = Loaded("J", r0, p.out)
    OBVIOUS
  <2>9. Sim(begin, r0, ver, items, l, p, r)
    BY <1>6, <2>1, <2>3, <2>8
  <2>10. item.o \notin ToSet(begin.handles) => ver[item.o] = heap[item.o]
    BY <1>1, <2>2
  <2>11. Sim(begin, r0, ver, items, i, save(p, item), Loaded("J", r0, save(p, item).out))
    BY <2>4, <2>5, <2>7, <2>8, <2>9, <2>10, SimStep
  <2> QED  BY <2>6, <2>11
<1> HIDE DEF Fine
<1>7. 0 \in Good
  BY <1>5
<1>8. ASSUME NEW i \in 1 .. n, i - 1 \in Good PROVE i \in Good
  BY <1>2, <1>6, <1>8
<1>9. \A i \in 0 .. n : i \in Good
  <2>1. Good \in SUBSET Nat
    OBVIOUS
  <2> HIDE DEF Good
  <2> QED  BY <1>2, <1>7, <1>8, <2>1, UpTo
<1>10. Fine(n)
  BY <1>2, <1>9
<1> QED  BY <1>1, <1>3, <1>10 DEF Fine

-------------------------------------------------------------------------------
\* What a load does with a pickle that the tables of the reader do not fit.
Start(t) == [open |-> t.open, handles |-> t.handles, memo |-> t.memo, copies |-> t.copies,
             got |-> <<>>, ok |-> TRUE]

LEMMA LoadStops ==
  ASSUME NEW kind, NEW r, NEW parts, Len(parts) \in Nat, Len(parts) > 0,
         ~loadPart(kind, r, parts[1]).ok
  PROVE  Loaded(kind, r, parts) = loadPart(kind, r, parts[1])
<1>1. PICK n : n = Len(parts)
  OBVIOUS
<1>2. PICK y : y = loadPart(kind, r, parts[1])
  OBVIOUS
<1>3. PICK f : Loading(f, kind, r, parts) /\ Loaded(kind, r, parts) = f[n]
  BY <1>1, LoadedSteps
<1> DEFINE Good == {i \in Nat : i \in 1 .. n => f[i] = y}
<1>4. 0 \in Good
  OBVIOUS
<1>5. ASSUME NEW i \in 1 .. n, i - 1 \in Good PROVE i \in Good
  <2>1. f[i] = loadPart(kind, f[i - 1], parts[i])
    BY <1>1, <1>3 DEF Loading
  <2>2. CASE i = 1
    <3>1. f[1] = loadPart(kind, f[1 - 1], parts[1]) /\ 1 - 1 = 0
      BY <2>1, <2>2
    <3>2. f[0] = r
      BY <1>3 DEF Loading
    <3>3. f[1] = y
      BY <1>2, <3>1, <3>2
    <3> QED  BY <2>2, <3>3
  <2>3. CASE i # 1
    <3>1. f[i - 1] = y
      BY <1>1, <1>5, <2>3
    <3>2. f[i] = y
      BY <1>2, <2>1, <3>1 DEF loadPart
    <3> QED  BY <3>2
  <2> QED  BY <2>2, <2>3
<1>6. n \in Good
  <2>1. Good \in SUBSET Nat
    OBVIOUS
  <2> HIDE DEF Good
  <2>2. \A i \in 0 .. n : i \in Good
    BY <1>1, <1>4, <1>5, <2>1, UpTo
  <2> QED  BY <1>1, <2>2
<1> QED  BY <1>1, <1>2, <1>3, <1>6

\* The first part of a pickle tells whether the reader has opened the stream.
Opening(part) == part.t # "memo" /\ Head(part.pieces) = Header

LEMMA OpenFirst ==
  ASSUME NEW t, t.open, NEW part, NEW y, y = loadPart("J", Start(t), part)
  PROVE  /\ y.ok => ~Opening(part)
         /\ Opening(part) => ~y.ok /\ y.got = <<>>
<1>1. PICK r : r = Start(t)
  OBVIOUS
<1>2. r.open /\ r.ok /\ r.got = <<>>
  BY <1>1 DEF Start
<1>3. CASE ~Opening(part)
  BY <1>3
<1>4. CASE Opening(part)
  <2>1. y = unpack(r, part.pieces)
    BY <1>1, <1>2, <1>4 DEF loadPart, Opening
  <2>2. Header.t = "header"
    BY DEF Header
  <2>3. y = [r EXCEPT !.ok = FALSE]
    BY <1>2, <1>4, <2>1, <2>2 DEF unpack, Opening
  <2>4. ~y.ok /\ y.got = <<>>
    BY <1>1, <2>3 DEF Start
  <2> QED  BY <1>4, <2>4
<1> QED  BY <1>3, <1>4

LEMMA FreshFirst ==
  ASSUME NEW t, ~t.open, t.memo = <<>>, NEW part, NEW y, y = loadPart("J", Start(t), part)
  PROVE  /\ y.ok => Opening(part)
         /\ ~Opening(part) => ~y.ok /\ y.got = <<>>
<1>1. PICK r : r = Start(t)
  OBVIOUS
<1>2. ~r.open /\ r.ok /\ r.got = <<>> /\ DOMAIN r.memo = {}
  BY <1>1 DEF Start
<1>3. CASE Opening(part)
  BY <1>3
<1>4. CASE ~Opening(part) /\ part.t = "memo"
  <2>1. y = [r EXCEPT !.ok = FALSE]
    BY <1>1, <1>2, <1>4 DEF loadPart
  <2>2. ~y.ok /\ y.got = <<>>
    BY <1>1, <2>1 DEF Start
  <2> QED  BY <1>4, <2>2
<1>5. CASE ~Opening(part) /\ part.t # "memo"
  <2>1. y = unpack(r, part.pieces)
    BY <1>1, <1>2, <1>5 DEF loadPart
  <2>2. y = [r EXCEPT !.ok = FALSE]
    BY <1>2, <1>5, <2>1 DEF unpack, Opening
  <2>3. ~y.ok /\ y.got = <<>>
    BY <1>1, <2>2 DEF Start
  <2> QED  BY <1>5, <2>3
<1> QED  BY <1>3, <1>4, <1>5

LEMMA PlainFirst ==
  ASSUME NEW t, t.memo = <<>>, NEW part, NEW y, y = loadPart("plain", Start(t), part)
  PROVE  ~y.ok /\ y.got = <<>>
<1>1. PICK r : r = Start(t)
  OBVIOUS
<1>2. r.ok /\ r.got = <<>> /\ DOMAIN r.memo = {}
  BY <1>1 DEF Start
<1>3. y = [r EXCEPT !.ok = FALSE]
  BY <1>1, <1>2 DEF loadPart
<1> QED  BY <1>1, <1>3 DEF Start

\* A load that does not raise has opened the stream.
Table(r) == {"open", "handles", "memo", "copies", "got", "ok"} = DOMAIN r

LEMMA StaysOpen ==
  ASSUME NEW r, Table(r), NEW part, NEW y, y = loadPart("J", r, part)
  PROVE  /\ Table(y) /\ (r.open => y.open)
         /\ ~r.ok => ~y.ok
         /\ r.memo = <<>> /\ r.ok /\ y.ok => y.open
<1>1. CASE ~r.ok
  BY <1>1 DEF loadPart
<1>2. CASE r.ok /\ part.t = "memo"
  <2>1. y = IF part.m \in DOMAIN r.memo THEN [r EXCEPT !.got = Append(@, r.memo[part.m])]
            ELSE [r EXCEPT !.ok = FALSE]
    BY <1>2 DEF loadPart
  <2>2. r.memo = <<>> => ~y.ok
    <3>1. r.memo = <<>> => part.m \notin DOMAIN r.memo
      OBVIOUS
    <3> QED  BY <2>1, <3>1 DEF Table
  <2>3. Table(y) /\ y.open = r.open
    BY <2>1 DEF Table
  <2> QED  BY <1>2, <2>2, <2>3
<1>3. CASE r.ok /\ part.t # "memo"
  <2>1. y = unpack(r, part.pieces)
    BY <1>3 DEF loadPart
  <2>2. \/ y = [r EXCEPT !.ok = FALSE]
        \/ \E c : y = [r EXCEPT !.open = TRUE, !.got = Append(@, c), !.memo = Append(@, c)]
        \/ \E c : y = [[r EXCEPT !.open = TRUE, !.got = Append(@, c), !.memo = Append(@, c)]
                        EXCEPT !.copies = @ + 1, !.handles = Append(@, c)]
    BY <2>1 DEF unpack
  <2>3. CASE y = [r EXCEPT !.ok = FALSE]
    BY <1>3, <2>3 DEF Table
  <2>4. CASE \E c : y = [r EXCEPT !.open = TRUE, !.got = Append(@, c), !.memo = Append(@, c)]
    BY <1>3, <2>4 DEF Table
  <2>5. CASE \E c : y = [[r EXCEPT !.open = TRUE, !.got = Append(@, c), !.memo = Append(@, c)]
                          EXCEPT !.copies = @ + 1, !.handles = Append(@, c)]
    BY <1>3, <2>5 DEF Table
  <2> QED  BY <2>2, <2>3, <2>4, <2>5
<1> QED  BY <1>1, <1>2, <1>3

LEMMA LoadOpens ==
  ASSUME NEW t, t.open \/ t.memo = <<>>, NEW parts, Len(parts) \in Nat, Len(parts) > 0,
         NEW r, r = Loaded("J", Start(t), parts), r.ok
  PROVE  r.open
<1>1. PICK n : n = Len(parts)
  OBVIOUS
<1>2. PICK f : Loading(f, "J", Start(t), parts) /\ Loaded("J", Start(t), parts) = f[n]
  BY <1>1, LoadedSteps
<1> DEFINE Fine(i) == /\ Table(f[i])
                      /\ i > 0 /\ f[i].ok => f[i].open
           Good == {i \in Nat : i <= n => Fine(i)}
<1>3. f[0] = Start(t)
  BY <1>2 DEF Loading
<1>4. Fine(0)
  BY <1>3 DEF Start, Table
<1>5. ASSUME NEW i \in 1 .. n, Fine(i - 1) PROVE Fine(i)
  <2>1. PICK x : x = f[i - 1]
    OBVIOUS
  <2>2. f[i] = loadPart("J", x, parts[i])
    BY <1>1, <1>2, <2>1 DEF Loading
  <2>3. Table(x)
    BY <1>5, <2>1
  <2>4. /\ Table(f[i]) /\ (x.open => f[i].open)
        /\ ~x.ok => ~f[i].ok
        /\ x.memo = <<>> /\ x.ok /\ f[i].ok => f[i].open
    BY <2>2, <2>3, StaysOpen
  <2>5. CASE i = 1
    <3>1. x = Start(t)
      BY <1>3, <2>1, <2>5
    <3>2. x.open \/ (x.memo = <<>> /\ x.ok)
      BY <3>1 DEF Start
    <3> QED  BY <2>4, <3>2
  <2>6. CASE i # 1
    <3>1. x.ok => x.open
      BY <1>5, <2>1, <2>6
    <3> QED  BY <2>4, <3>1
  <2> QED  BY <2>5, <2>6
<1> HIDE DEF Fine
<1>6. 0 \in Good
  BY <1>4
<1>7. ASSUME NEW i \in 1 .. n, i - 1 \in Good PROVE i \in Good
  BY <1>1, <1>5, <1>7
<1>8. \A i \in 0 .. n : i \in Good
  <2>1. Good \in SUBSET Nat
    OBVIOUS
  <2> HIDE DEF Good
  <2> QED  BY <1>1, <1>6, <1>7, <2>1, UpTo
<1>9. Fine(n)
  BY <1>1, <1>8
<1> QED  BY <1>1, <1>2, <1>9 DEF Fine

LEMMA PlainFails ==
  ASSUME NEW t, t.memo = <<>>, NEW parts, Len(parts) \in Nat, Len(parts) > 0,
         NEW r, r = Loaded("plain", Start(t), parts)
  PROVE  ~r.ok /\ r.got = <<>>
<1>1. PICK y : y = loadPart("plain", Start(t), parts[1])
  OBVIOUS
<1>2. ~y.ok /\ y.got = <<>>
  BY <1>1, PlainFirst
<1>3. r = y
  BY <1>1, <1>2, LoadStops
<1> QED  BY <1>2, <1>3

\* What a reader that has opened the stream understands, a new one does not, and
\* the other way round.
LEMMA Misread ==
  ASSUME NEW t, t.open, NEW u, ~u.open, u.memo = <<>>, NEW parts, Len(parts) \in Nat, Len(parts) > 0,
         NEW r, r = Loaded("J", Start(t), parts), NEW s, s = Loaded("J", Start(u), parts)
  PROVE  /\ r.ok => ~s.ok /\ s.got = <<>>
         /\ s.ok => ~r.ok /\ r.got = <<>>
<1>1. PICK y : y = loadPart("J", Start(t), parts[1])
  OBVIOUS
<1>2. PICK z : z = loadPart("J", Start(u), parts[1])
  OBVIOUS
<1>3. /\ y.ok => ~Opening(parts[1])
      /\ Opening(parts[1]) => ~y.ok /\ y.got = <<>>
  BY <1>1, OpenFirst
<1>4. /\ z.ok => Opening(parts[1])
      /\ ~Opening(parts[1]) => ~z.ok /\ z.got = <<>>
  BY <1>2, FreshFirst
<1>5. CASE Opening(parts[1])
  <2>1. r = y
    BY <1>1, <1>3, <1>5, LoadStops
  <2> QED  BY <1>3, <1>5, <2>1
<1>6. CASE ~Opening(parts[1])
  <2>1. s = z
    BY <1>2, <1>4, <1>6, LoadStops
  <2> QED  BY <1>4, <1>6, <2>1
<1> QED  BY <1>5, <1>6

LEMMA AnyAppend ==
  ASSUME NEW T, NEW s \in Seq(T), NEW x
  PROVE  /\ \E U : Append(s, x) \in Seq(U)
         /\ Len(Append(s, x)) = Len(s) + 1 /\ Len(s) \in Nat
         /\ \A i \in 1 .. Len(s) : Append(s, x)[i] = s[i]
         /\ Append(s, x)[Len(s) + 1] = x
         /\ DOMAIN Append(s, x) = 1 .. Len(s) + 1 /\ DOMAIN s = 1 .. Len(s)
<1>1. PICK U : U = T \cup {x}
  OBVIOUS
<1>2. s \in Seq(U) /\ x \in U
  BY <1>1
<1>3. PICK a : a = Append(s, x)
  OBVIOUS
<1>4. /\ a \in Seq(U) /\ Len(a) = Len(s) + 1 /\ Len(s) \in Nat
      /\ \A i \in 1 .. Len(s) : a[i] = s[i]
      /\ a[Len(s) + 1] = x
  BY <1>2, <1>3, AppendHas
<1>5. DOMAIN a = 1 .. Len(s) + 1 /\ DOMAIN s = 1 .. Len(s)
  BY <1>2, <1>4
<1> QED  BY <1>3, <1>4, <1>5

-------------------------------------------------------------------------------
\* The inductive invariant.  D[i] are the tables and the answer of the reader that
\* has read everything of the pickler of pickle i up to that pickle.
NoTables == [open |-> FALSE, handles |-> <<>>, memo |-> <<>>, copies |-> 0]

FileType == [out : Seq(PartType), who : Nat, first : BOOLEAN, clean : BOOLEAN,
             want : Seq([o : Object, v : Int])]
PicklerType == [who : Nat, pending : Seq(Piece), handles : Seq(Object), memo : Seq(Item), dumps : Nat,
                tried : Nat, failed : BOOLEAN, written : [Object -> Int]]

PickleTypes ==
  /\ heap \in [Object -> Nat]
  /\ pickler \in PicklerType
  /\ file \in Seq(FileType)
  /\ \A i \in 1 .. Len(file) : Len(file[i].out) > 0

\* The answer is what the dump was given, and no two copies are of one object.
Replies(d, want) ==
  /\ d \in ReadType /\ d.ok /\ d.open /\ Len(d.got) = Len(want)
  /\ \A j \in 1 .. Len(want) : /\ d.got[j].o = want[j].o /\ d.got[j].v = want[j].v
                               /\ d.got[j] \in ToSet(d.handles)
  /\ \A a, b \in ToSet(d.handles) : a.o = b.o => a = b

\* The pickles of a pickler whose dumps have not raised follow each other.
Readable(F, D) ==
  \A i \in 1 .. Len(F) : F[i].clean =>
    /\ Replies(D[i], F[i].want)
    /\ F[i].first => D[i] = Loaded("J", Start(NoTables), F[i].out)
    /\ ~F[i].first =>
         /\ i - 1 \in 1 .. Len(F) /\ F[i - 1].clean /\ F[i - 1].who = F[i].who
         /\ D[i] = Loaded("J", Start(D[i - 1]), F[i].out)
         /\ ToSet(D[i - 1].handles) \subseteq ToSet(D[i].handles)

OnlyFirst(F, p) ==
  /\ \A i \in 1 .. Len(F) : F[i].who <= p.who /\ (p.dumps = 0 => F[i].who # p.who)
  /\ \A i, j \in 1 .. Len(F) : F[i].first /\ F[j].first /\ F[i].who = F[j].who => i = j

\* The pickler mirrors the reader that has read all it wrote.
Tables(F, p, D) == IF p.dumps = 0 THEN NoTables ELSE D[Len(F)]
Current(F, p, D) ==
  ~p.failed =>
    /\ p.dumps # 0 => Len(F) > 0 /\ F[Len(F)].clean /\ F[Len(F)].who = p.who
    /\ Mirrors(p, p.written, Tables(F, p, D))
    /\ \A o \in Object : p.written[o] # Unwritten <=> o \in ToSet(p.handles)

\* Where the reader is, and what it knows when nothing has raised.
AllOk(ls) == \A k \in 1 .. Len(ls) : ls[k].ok
Reading(F, rd, ls, D) ==
  /\ \E U : ls \in Seq(U)
  /\ rd.from \in Nat /\ rd.from > 0 /\ rd.at = rd.from + Len(ls) /\ rd.at <= Len(F) + 1
  /\ \A k \in 1 .. Len(ls) : ls[k].at = rd.from + k - 1
  /\ rd.kind \in {"none", "J", "plain"} /\ (rd.kind = "none" <=> rd = NoReader)
  /\ rd = NoReader => ls = <<>>
  /\ ls = <<>> => Start(rd) = Start(NoTables)
  /\ AllOk(ls) /\ ls # <<>> =>
       /\ rd.kind = "J" /\ rd.open
       /\ F[rd.at - 1].clean =>
            /\ Start(rd) = Start(D[rd.at - 1])
            /\ \A k \in 1 .. Len(ls) : F[ls[k].at].clean =>
                 \A j \in DOMAIN ls[k].got : ls[k].got[j] \in ToSet(D[rd.at - 1].handles)

Fits(F, rd, at) == rd.kind = "J" /\ F[rd.from].first /\ F[rd.from].who = F[at].who
Truly(F, rd, l) ==
  F[l.at].clean =>
    /\ l.ok <=> Fits(F, rd, l.at)
    /\ l.ok => /\ Len(l.got) = Len(F[l.at].want)
               /\ \A j \in DOMAIN F[l.at].want :
                    l.got[j].o = F[l.at].want[j].o /\ l.got[j].v = F[l.at].want[j].v
Same(F, a, b) ==
  F[a.at].clean /\ F[b.at].clean /\ a.ok =>
    \A j \in DOMAIN a.got : \A i \in DOMAIN b.got : a.got[j].o = b.got[i].o => a.got[j] = b.got[i]
RoundTrip(F, rd, ls) ==
  /\ \A k \in 1 .. Len(ls) : Truly(F, rd, ls[k])
  /\ \A k, h \in 1 .. Len(ls) : Same(F, ls[k], ls[h])

PInv ==
  \E D : /\ PickleTypes /\ Readable(file, D) /\ OnlyFirst(file, pickler) /\ Current(file, pickler, D)
         /\ Reading(file, reader, loads, D) /\ RoundTrip(file, reader, loads)

\* What a load answers.
LEMMA LoadAnswer ==
  ASSUME NEW F \in Seq(FileType), NEW rd, NEW ls, NEW D, NEW p,
         \A i \in 1 .. Len(F) : Len(F[i].out) > 0, Readable(F, D), OnlyFirst(F, p),
         Reading(F, rd, ls, D), RoundTrip(F, rd, ls), AllOk(ls), rd # NoReader,
         NEW at \in 1 .. Len(F), rd.at = at,
         NEW r, r = Loaded(rd.kind, Start(rd), F[at].out)
  PROVE  /\ r.ok => rd.kind = "J" /\ r.open
         /\ F[at].clean => /\ r.ok <=> Fits(F, rd, at)
                           /\ ~r.ok => r.got = <<>>
                           /\ r.ok => r = D[at] /\ (ls = <<>> \/ (F[at - 1].clean /\ ~F[at].first))
<1>1. PICK parts : parts = F[at].out
  OBVIOUS
<1>2. F[at] \in FileType /\ Len(parts) \in Nat /\ Len(parts) > 0
  <2>1. F[at] \in FileType
    OBVIOUS
  <2>2. parts \in Seq(PartType)
    BY <1>1, <2>1 DEF FileType
  <2>3. Len(parts) > 0
    BY <1>1
  <2> QED  BY <2>1, <2>2, <2>3
<1>3. PICK U : ls \in Seq(U)
  BY DEF Reading
<1>4. PICK n : n = Len(ls)
  OBVIOUS
<1>5. /\ n \in Nat /\ rd.from \in Nat /\ rd.from > 0 /\ at = rd.from + n
      /\ \A k \in 1 .. n : ls[k].at = rd.from + k - 1
      /\ (ls = <<>> <=> n = 0)
  BY <1>3, <1>4 DEF Reading
<1>6. PICK u : u = NoTables
  OBVIOUS
<1>7. ~u.open /\ u.memo = <<>>
  BY <1>6 DEF NoTables
<1>8. rd.kind \in {"J", "plain"}
  BY DEF Reading
<1>9. CASE rd.kind = "plain"
  <2>1. ls = <<>>
    BY <1>9 DEF Reading
  <2>2. Start(rd) = Start(u)
    BY <1>6, <2>1 DEF Reading
  <2>3. ~r.ok /\ r.got = <<>>
    BY <1>1, <1>2, <1>7, <1>9, <2>2, PlainFails
  <2>4. ~Fits(F, rd, at)
    BY <1>9 DEF Fits
  <2> QED  BY <2>3, <2>4
<1>10. CASE rd.kind = "J" /\ ls = <<>>
  <2>1. Start(rd) = Start(u) /\ rd.from = at
    BY <1>5, <1>6, <1>10 DEF Reading
  <2>2. r = Loaded("J", Start(u), parts)
    BY <1>1, <1>10, <2>1
  <2>3. r.ok => r.open
    BY <1>2, <1>7, <2>2, LoadOpens
  <2>4. Fits(F, rd, at) <=> F[at].first
    BY <1>10, <2>1 DEF Fits
  <2>5. CASE ~F[at].clean
    BY <1>10, <2>3, <2>5
  <2>6. CASE F[at].clean /\ F[at].first
    <3>1. D[at] = r /\ D[at].ok
      BY <1>1, <1>6, <2>2, <2>6 DEF Readable, Replies
    <3> QED  BY <1>10, <2>3, <2>4, <2>6, <3>1
  <2>7. CASE F[at].clean /\ ~F[at].first
    <3>1. PICK t : t = D[at - 1]
      OBVIOUS
    <3>2. D[at] = Loaded("J", Start(t), parts) /\ D[at].ok
      BY <1>1, <2>7, <3>1 DEF Readable, Replies
    <3>3. t.open
      <4>1. at - 1 \in 1 .. Len(F) /\ F[at - 1].clean
        BY <2>7 DEF Readable
      <4> QED  BY <3>1, <4>1 DEF Readable, Replies
    <3>4. PICK s : s = Loaded("J", Start(t), parts)
      OBVIOUS
    <3>5. ~r.ok /\ r.got = <<>>
      BY <1>2, <1>7, <2>2, <3>2, <3>3, <3>4, Misread
    <3> QED  BY <2>4, <2>7, <3>5
  <2> QED  BY <2>5, <2>6, <2>7
<1>11. CASE rd.kind = "J" /\ ls # <<>>
  <2>1. rd.open
    BY <1>11 DEF Reading
  <2>2. r = Loaded("J", Start(rd), parts)
    BY <1>1, <1>11
  <2>3. r.ok => r.open
    BY <1>2, <2>1, <2>2, LoadOpens
  <2>4. /\ n \in 1 .. n /\ ls[n].at = at - 1 /\ ls[n].ok /\ at - 1 \in 1 .. Len(F) /\ rd.from < at
        /\ rd.from \in 1 .. Len(F)
    <3>1. n > 0
      BY <1>5, <1>11
    <3>2. n \in 1 .. n
      BY <1>5, <3>1
    <3>3. ls[n].at = at - 1
      BY <1>5, <3>2
    <3>4. ls[n].ok
      BY <1>4, <3>2 DEF AllOk
    <3> QED  BY <1>5, <3>1, <3>2, <3>3, <3>4
  <2>5. CASE ~F[at].clean
    BY <1>11, <2>3, <2>5
  <2>6. CASE F[at].clean /\ F[at].first
    <3>1. PICK s : s = Loaded("J", Start(u), parts)
      OBVIOUS
    <3>2. s.ok
      BY <1>1, <1>6, <2>6, <3>1 DEF Readable, Replies
    <3>3. ~r.ok /\ r.got = <<>>
      BY <1>2, <1>7, <2>1, <2>2, <3>1, <3>2, Misread
    <3>4. ~Fits(F, rd, at)
      BY <2>4, <2>6 DEF Fits, OnlyFirst
    <3> QED  BY <2>6, <3>3, <3>4
  <2>7. CASE F[at].clean /\ ~F[at].first
    <3>1. /\ F[at - 1].clean /\ F[at - 1].who = F[at].who
          /\ D[at] = Loaded("J", Start(D[at - 1]), parts) /\ D[at].ok
      BY <1>1, <2>7 DEF Readable, Replies
    <3>2. Fits(F, rd, at - 1)
      BY <1>4, <2>4, <3>1 DEF RoundTrip, Truly
    <3>3. Fits(F, rd, at)
      BY <3>1, <3>2 DEF Fits
    <3>4. Start(rd) = Start(D[at - 1])
      BY <1>11, <3>1 DEF Reading
    <3>5. r = D[at]
      BY <2>2, <3>1, <3>4
    <3> QED  BY <1>11, <2>3, <2>7, <3>1, <3>3, <3>5
  <2> QED  BY <2>5, <2>6, <2>7
<1> QED  BY <1>8, <1>9, <1>10, <1>11

LEMMA LoadKeeps ==
  ASSUME NEW F \in Seq(FileType), NEW rd, NEW ls, NEW D, NEW p,
         \A i \in 1 .. Len(F) : Len(F[i].out) > 0, Readable(F, D), OnlyFirst(F, p),
         Reading(F, rd, ls, D), RoundTrip(F, rd, ls), AllOk(ls), rd # NoReader,
         NEW at \in 1 .. Len(F), rd.at = at,
         NEW r, r = Loaded(rd.kind, Start(rd), F[at].out),
         NEW l, l = [at |-> at, ok |-> r.ok, got |-> r.got], NEW m, m = Append(ls, l),
         NEW x, x = [kind |-> rd.kind, from |-> rd.from, at |-> at + 1, open |-> r.open,
                     handles |-> r.handles, memo |-> r.memo, copies |-> r.copies]
  PROVE  Reading(F, x, m, D) /\ RoundTrip(F, x, m)
<1>1. /\ r.ok => rd.kind = "J" /\ r.open
      /\ F[at].clean => /\ r.ok <=> Fits(F, rd, at)
                        /\ ~r.ok => r.got = <<>>
                        /\ r.ok => r = D[at] /\ (ls = <<>> \/ (F[at - 1].clean /\ ~F[at].first))
  BY LoadAnswer
<1>2. PICK U : ls \in Seq(U)
  BY DEF Reading
<1>3. PICK n : n = Len(ls)
  OBVIOUS
<1>4. /\ \E V : m \in Seq(V)
      /\ Len(m) = n + 1 /\ n \in Nat /\ \A i \in 1 .. n : m[i] = ls[i]
      /\ m[n + 1] = l /\ (ls = <<>> <=> n = 0)
  <2>1. /\ \E V : Append(ls, l) \in Seq(V)
        /\ Len(Append(ls, l)) = Len(ls) + 1 /\ Len(ls) \in Nat
        /\ \A i \in 1 .. Len(ls) : Append(ls, l)[i] = ls[i]
        /\ Append(ls, l)[Len(ls) + 1] = l
    BY ONLY <1>2, AnyAppend
  <2>2. ls = <<>> <=> Len(ls) = 0
    BY <1>2
  <2> QED  BY <1>3, <2>1, <2>2
<1>5. /\ rd.from \in Nat /\ rd.from > 0 /\ at = rd.from + n
      /\ \A k \in 1 .. n : ls[k].at = rd.from + k - 1
      /\ rd.kind \in {"J", "plain"}
  BY <1>3 DEF Reading
<1>6. \A k \in 1 .. n + 1 : k \in 1 .. n \/ k = n + 1
  BY <1>4
<1>7. l.at = at /\ (l.ok <=> r.ok) /\ l.got = r.got
  OBVIOUS
<1>8. x.kind = rd.kind /\ x.from = rd.from /\ x.at = at + 1 /\ x.at - 1 = at /\ (x.open <=> r.open)
  BY <1>5
<1>9. Start(x) = Start(r)
  BY DEF Start
<1>10. F[at] \in FileType
  OBVIOUS
<1>11. F[at].want \in Seq([o : Object, v : Int]) /\ DOMAIN F[at].want = 1 .. Len(F[at].want)
  BY <1>10 DEF FileType
<1>12. ASSUME F[at].clean, r.ok
       PROVE  /\ Replies(r, F[at].want) /\ DOMAIN r.got = 1 .. Len(F[at].want)
              /\ \A j \in DOMAIN r.got : r.got[j] \in ToSet(D[at].handles)
  <2>1. Replies(r, F[at].want) /\ r = D[at]
    BY <1>1, <1>12 DEF Readable
  <2>2. DOMAIN r.got = 1 .. Len(F[at].want)
    BY <2>1 DEF Replies, ReadType
  <2>3. \A j \in DOMAIN r.got : r.got[j] \in ToSet(r.handles)
    BY <2>1, <2>2 DEF Replies
  <2> QED  BY <2>1, <2>2, <2>3
<1>13. ASSUME F[at].clean, r.ok, NEW k \in 1 .. n + 1, F[m[k].at].clean, NEW j \in DOMAIN m[k].got
       PROVE  m[k].got[j] \in ToSet(D[at].handles)
  <2>1. CASE k = n + 1
    <3>1. m[k].got = r.got
      BY <1>4, <1>7, <2>1
    <3> QED  BY <1>12, <1>13, <3>1
  <2>2. CASE k \in 1 .. n
    <3>1. m[k] = ls[k] /\ ls # <<>>
      BY <1>4, <2>2
    <3>2. F[at - 1].clean /\ ~F[at].first
      BY <1>1, <1>13, <3>1
    <3>3. ls[k].got[j] \in ToSet(D[at - 1].handles)
      BY <1>3, <1>13, <2>2, <3>1, <3>2 DEF Reading
    <3>4. ToSet(D[at - 1].handles) \subseteq ToSet(D[at].handles)
      BY <1>13, <3>2 DEF Readable
    <3> QED  BY <3>1, <3>3, <3>4
  <2> QED  BY <1>6, <2>1, <2>2
<1>14. F[at].clean /\ r.ok => \A k \in 1 .. n + 1 : F[m[k].at].clean =>
                                \A j \in DOMAIN m[k].got : m[k].got[j] \in ToSet(D[at].handles)
  BY <1>13
<1>15. Reading(F, x, m, D)
  <2>1. /\ x.from \in Nat /\ x.from > 0 /\ x.at = x.from + Len(m) /\ x.at <= Len(F) + 1
    <3>1. Len(F) \in Nat /\ at <= Len(F) /\ at \in Nat
      OBVIOUS
    <3>2. x.from = rd.from /\ x.at = at + 1 /\ Len(m) = n + 1
      BY <1>4, <1>8
    <3>3. n \in Nat /\ rd.from \in Nat /\ rd.from > 0 /\ at = rd.from + n
      BY <1>4, <1>5
    <3> QED  BY ONLY <3>1, <3>2, <3>3
  <2>2. ASSUME NEW k \in 1 .. Len(m) PROVE m[k].at = x.from + k - 1
    <3>1. CASE k \in 1 .. n
      BY <1>4, <1>5, <1>8, <3>1
    <3>2. CASE k = n + 1
      BY <1>4, <1>5, <1>7, <1>8, <3>2
    <3> QED  BY <1>4, <1>6, <3>1, <3>2
  <2>3. x.kind \in {"none", "J", "plain"} /\ x.kind # "none" /\ x # NoReader /\ m # <<>>
    <3>1. NoReader.kind = "none"
      BY DEF NoReader, Unpickler
    <3>2. m # <<>>
      BY <1>4
    <3> QED  BY <1>5, <1>8, <3>1, <3>2
  <2>4. ASSUME AllOk(m)
        PROVE  /\ x.kind = "J" /\ x.open
               /\ F[x.at - 1].clean =>
                    /\ Start(x) = Start(D[x.at - 1])
                    /\ \A k \in 1 .. Len(m) : F[m[k].at].clean =>
                         \A j \in DOMAIN m[k].got : m[k].got[j] \in ToSet(D[x.at - 1].handles)
    <3>1. r.ok
      <4>1. n + 1 \in 1 .. Len(m)
        BY <1>4
      <4>2. m[n + 1].ok
        BY <2>4, <4>1 DEF AllOk
      <4> QED  BY <1>4, <1>7, <4>2
    <3>2. x.kind = "J" /\ x.open
      BY <1>1, <1>8, <3>1
    <3>3. ASSUME F[at].clean
          PROVE  /\ Start(x) = Start(D[at])
                 /\ \A k \in 1 .. Len(m) : F[m[k].at].clean =>
                      \A j \in DOMAIN m[k].got : m[k].got[j] \in ToSet(D[at].handles)
      <4>1. Start(x) = Start(D[at])
        BY <1>1, <1>9, <3>1, <3>3
      <4>2. \A k \in 1 .. Len(m) : F[m[k].at].clean =>
                      \A j \in DOMAIN m[k].got : m[k].got[j] \in ToSet(D[at].handles)
        <5>1. Len(m) = n + 1
          BY <1>4
        <5>2. \A k \in 1 .. n + 1 : F[m[k].at].clean =>
                \A j \in DOMAIN m[k].got : m[k].got[j] \in ToSet(D[at].handles)
          BY <1>14, <3>1, <3>3
        <5> QED  BY ONLY <5>1, <5>2
      <4> QED  BY <4>1, <4>2
    <3>4. x.at - 1 = at
      BY <1>8
    <3> QED  BY ONLY <3>2, <3>3, <3>4
  <2> QED  BY <1>4, <2>1, <2>2, <2>3, <2>4 DEF Reading
<1>16. \A a : Fits(F, x, a) <=> Fits(F, rd, a)
  BY <1>8 DEF Fits
<1>17. ASSUME NEW k \in 1 .. Len(m) PROVE Truly(F, x, m[k])
  <2>1. CASE k \in 1 .. n
    <3>1. m[k] = ls[k] /\ Truly(F, rd, ls[k])
      BY <1>3, <1>4, <2>1 DEF RoundTrip
    <3>2. Fits(F, x, ls[k].at) <=> Fits(F, rd, ls[k].at)
      BY <1>16
    <3> QED  BY <3>1, <3>2 DEF Truly
  <2>2. CASE k = n + 1
    <3>1. m[k].at = at /\ (m[k].ok <=> r.ok) /\ m[k].got = r.got
      BY <1>4, <1>7, <2>2
    <3>2. F[at].clean => (r.ok <=> Fits(F, x, at))
      BY <1>1, <1>16
    <3>3. F[at].clean /\ r.ok =>
            /\ Len(r.got) = Len(F[at].want)
            /\ \A j \in DOMAIN F[at].want : r.got[j].o = F[at].want[j].o /\ r.got[j].v = F[at].want[j].v
      BY <1>11, <1>12 DEF Replies
    <3>4. F[at].clean =>
            /\ r.ok <=> Fits(F, x, at)
            /\ r.ok => /\ Len(r.got) = Len(F[at].want)
                       /\ \A j \in DOMAIN F[at].want :
                            r.got[j].o = F[at].want[j].o /\ r.got[j].v = F[at].want[j].v
      BY ONLY <3>2, <3>3
    <3> QED  BY ONLY <3>1, <3>4 DEF Truly
  <2> QED  BY <1>4, <1>6, <2>1, <2>2
<1>18. ASSUME NEW k \in 1 .. Len(m), NEW h \in 1 .. Len(m) PROVE Same(F, m[k], m[h])
  <2>1. CASE k \in 1 .. n /\ h \in 1 .. n
    <3>1. m[k] = ls[k] /\ m[h] = ls[h] /\ Same(F, ls[k], ls[h])
      BY <1>3, <1>4, <2>1 DEF RoundTrip
    <3> QED  BY <3>1
  <2>2. CASE ~(k \in 1 .. n /\ h \in 1 .. n)
    <3> SUFFICES ASSUME F[m[k].at].clean, F[m[h].at].clean, m[k].ok,
                        NEW j \in DOMAIN m[k].got, NEW i \in DOMAIN m[h].got, m[k].got[j].o = m[h].got[i].o
                 PROVE  m[k].got[j] = m[h].got[i]
      BY DEF Same
    <3>1. k = n + 1 \/ h = n + 1
      BY <1>4, <1>6, <2>2
    <3>2. F[at].clean
      BY <1>4, <1>7, <3>1
    <3>3. CASE ~r.ok
      <4>1. r.got = <<>>
        BY <1>1, <3>2, <3>3
      <4>2. h = n + 1 /\ m[h].got = <<>>
        BY <1>4, <1>7, <3>1, <3>3, <4>1
      <4> QED  BY <4>2
    <3>4. CASE r.ok
      <4>1. m[k].got[j] \in ToSet(D[at].handles) /\ m[h].got[i] \in ToSet(D[at].handles)
        BY <1>4, <1>14, <3>2, <3>4
      <4>2. \A a, b \in ToSet(D[at].handles) : a.o = b.o => a = b
        BY <3>2 DEF Readable, Replies
      <4> QED  BY <4>1, <4>2
    <3> QED  BY <3>3, <3>4
  <2> QED  BY <2>1, <2>2
<1>19. RoundTrip(F, x, m)
  BY <1>17, <1>18 DEF RoundTrip
<1> QED  BY <1>15, <1>19

\* A new pickler, and a reader that has read nothing.
LEMMA FreshPickler ==
  ASSUME NEW n \in Nat, NEW tries \in Nat, NEW F, NEW D
  PROVE  JPickler(n, tries) \in PicklerType /\ Current(F, JPickler(n, tries), D)
<1>1. PICK p : p = JPickler(n, tries)
  OBVIOUS
<1>2. p = [who |-> n, pending |-> <<Header>>, handles |-> <<>>, memo |-> <<>>, dumps |-> 0,
           tried |-> tries, failed |-> FALSE, written |-> [o \in Object |-> Unwritten]]
  BY <1>1 DEF JPickler
<1>3. <<Header>> \in Seq(Piece) /\ [o \in Object |-> Unwritten] \in [Object -> Int]
  <2>1. Header \in Piece
    BY DEF Piece
  <2> QED  BY <2>1 DEF Unwritten
<1>4. p \in PicklerType
  BY <1>2, <1>3 DEF PicklerType
<1>5. PICK t : t = NoTables
  OBVIOUS
<1>6. ~t.open /\ t.handles = <<>> /\ t.memo = <<>> /\ t.copies = 0
  BY <1>5 DEF NoTables
<1>7. p.pending = <<Header>> /\ p.handles = <<>> /\ p.memo = <<>> /\ p.dumps = 0
  BY <1>2
<1>8. Mirrors(p, p.written, t)
  BY <1>6, <1>7 DEF Mirrors
<1>9. ASSUME NEW o \in Object PROVE p.written[o] # Unwritten <=> o \in ToSet(p.handles)
  <2>1. p.written[o] = Unwritten
    BY <1>2
  <2>2. o \notin ToSet(p.handles)
    BY <1>7 DEF ToSet
  <2> QED  BY <2>1, <2>2
<1> QED  BY <1>1, <1>4, <1>5, <1>7, <1>8, <1>9 DEF Current, Tables

LEMMA FreshReader ==
  ASSUME NEW kind \in {"none", "J", "plain"}, NEW at \in Nat, at > 0, NEW F, at <= Len(F) + 1,
         kind = "none" => at = 1, NEW D
  PROVE  Reading(F, Unpickler(kind, at), <<>>, D) /\ RoundTrip(F, Unpickler(kind, at), <<>>)
<1>1. PICK x : x = Unpickler(kind, at)
  OBVIOUS
<1>2. /\ x.kind = kind /\ x.from = at /\ x.at = at /\ x.open = FALSE /\ x.handles = <<>> /\ x.memo = <<>>
      /\ x.copies = 0
  BY <1>1 DEF Unpickler
<1>3. x.kind = "none" <=> x = NoReader
  BY <1>1, <1>2 DEF NoReader, Unpickler
<1>4. Start(x) = Start(NoTables)
  BY <1>2 DEF Start, NoTables
<1>5. Len(<<>>) = 0 /\ <<>> \in Seq({})
  OBVIOUS
<1>6. Reading(F, x, <<>>, D)
  BY <1>2, <1>3, <1>4, <1>5 DEF Reading
<1>7. RoundTrip(F, x, <<>>)
  BY <1>5 DEF RoundTrip
<1> QED  BY <1>1, <1>6, <1>7

LEMMA InitPInv == PickleInit => PInv
<1> SUFFICES ASSUME PickleInit PROVE PInv
  OBVIOUS
<1>1. PICK D : D = <<>>
  OBVIOUS
<1>2. /\ heap \in [Object -> Nat] /\ file = <<>> /\ loads = <<>>
      /\ pickler = JPickler(1, 0) /\ reader = Unpickler("none", 1)
  BY DEF PickleInit, NoReader
<1>3. file \in Seq(FileType) /\ Len(file) = 0
  BY <1>2
<1>4. pickler \in PicklerType /\ Current(file, pickler, D)
  BY <1>2, FreshPickler
<1>5. Reading(file, reader, loads, D) /\ RoundTrip(file, reader, loads)
  BY <1>2, <1>3, FreshReader
<1>6. Readable(file, D) /\ OnlyFirst(file, pickler)
  BY <1>3 DEF Readable, OnlyFirst
<1>7. PickleTypes
  BY <1>2, <1>3, <1>4 DEF PickleTypes
<1> QED  BY <1>4, <1>5, <1>6, <1>7 DEF PInv

LEMMA NewPicklerPInv == ASSUME PInv, NewPickler PROVE PInv'
<1>1. PICK D : /\ PickleTypes /\ Readable(file, D) /\ OnlyFirst(file, pickler) /\ Current(file, pickler, D)
               /\ Reading(file, reader, loads, D) /\ RoundTrip(file, reader, loads)
  BY DEF PInv
<1>2. /\ pickler' = JPickler(2, pickler.tried) /\ pickler.who = 1
      /\ heap' = heap /\ file' = file /\ reader' = reader /\ loads' = loads
  BY DEF NewPickler
<1>3. pickler.tried \in Nat
  BY <1>1 DEF PickleTypes, PicklerType
<1>4. pickler' \in PicklerType /\ Current(file, pickler', D)
  BY <1>2, <1>3, FreshPickler
<1>5. PickleTypes'
  BY <1>1, <1>2, <1>4 DEF PickleTypes
<1>6. OnlyFirst(file, pickler')
  <2>1. pickler'.who = 2
    BY <1>2 DEF JPickler
  <2>2. \A i \in 1 .. Len(file) : file[i].who \in Nat
    <3>1. file \in Seq(FileType)
      BY <1>1 DEF PickleTypes
    <3>2. \A i \in 1 .. Len(file) : file[i] \in FileType
      BY <3>1
    <3> QED  BY <3>2 DEF FileType
  <2>3. \A i \in 1 .. Len(file) : file[i].who <= 1
    BY <1>1, <1>2 DEF OnlyFirst
  <2>4. \A i \in 1 .. Len(file) : file[i].who <= 2 /\ file[i].who # 2
    BY <2>2, <2>3
  <2> QED  BY <1>1, <2>1, <2>4 DEF OnlyFirst
<1>7. /\ PickleTypes' /\ Readable(file', D) /\ OnlyFirst(file', pickler') /\ Current(file', pickler', D)
      /\ Reading(file', reader', loads', D) /\ RoundTrip(file', reader', loads')
  BY <1>1, <1>2, <1>4, <1>5, <1>6
<1> QED  BY <1>7 DEF PInv

LEMMA MutatePInv == ASSUME PInv, NEW o \in Object, Mutate(o) PROVE PInv'
<1>1. PICK D : /\ PickleTypes /\ Readable(file, D) /\ OnlyFirst(file, pickler) /\ Current(file, pickler, D)
               /\ Reading(file, reader, loads, D) /\ RoundTrip(file, reader, loads)
  BY DEF PInv
<1>2. /\ heap' = [heap EXCEPT ![o] = @ + 1]
      /\ pickler' = pickler /\ file' = file /\ reader' = reader /\ loads' = loads
  BY DEF Mutate
<1>3. heap' \in [Object -> Nat]
  BY <1>1, <1>2 DEF PickleTypes
<1>4. PickleTypes'
  BY <1>1, <1>2, <1>3 DEF PickleTypes
<1>5. /\ PickleTypes' /\ Readable(file', D) /\ OnlyFirst(file', pickler') /\ Current(file', pickler', D)
      /\ Reading(file', reader', loads', D) /\ RoundTrip(file', reader', loads')
  BY <1>1, <1>2, <1>4
<1> QED  BY <1>5 DEF PInv

LEMMA OpenPInv == ASSUME PInv, NEW kind \in {"J", "plain"}, Open(kind) PROVE PInv'
<1>1. PICK D : /\ PickleTypes /\ Readable(file, D) /\ OnlyFirst(file, pickler) /\ Current(file, pickler, D)
               /\ Reading(file, reader, loads, D) /\ RoundTrip(file, reader, loads)
  BY DEF PInv
<1>2. /\ reader' = Unpickler(kind, reader.at) /\ loads' = <<>> /\ reader.at \in DOMAIN file
      /\ heap' = heap /\ file' = file /\ pickler' = pickler
  BY DEF Open
<1>3. file \in Seq(FileType)
  BY <1>1 DEF PickleTypes
<1>4. reader.at \in Nat /\ reader.at > 0 /\ reader.at <= Len(file) + 1
  BY <1>2, <1>3
<1>5. Reading(file, Unpickler(kind, reader.at), <<>>, D) /\ RoundTrip(file, Unpickler(kind, reader.at), <<>>)
  BY <1>4, FreshReader
<1>6. PickleTypes'
  BY <1>1, <1>2 DEF PickleTypes
<1>7. /\ PickleTypes' /\ Readable(file', D) /\ OnlyFirst(file', pickler') /\ Current(file', pickler', D)
      /\ Reading(file', reader', loads', D) /\ RoundTrip(file', reader', loads')
  BY <1>1, <1>2, <1>5, <1>6
<1> QED  BY <1>7 DEF PInv

LEMMA LoadPInv == ASSUME PInv, load PROVE PInv'
<1>1. PICK D : /\ PickleTypes /\ Readable(file, D) /\ OnlyFirst(file, pickler) /\ Current(file, pickler, D)
               /\ Reading(file, reader, loads, D) /\ RoundTrip(file, reader, loads)
  BY DEF PInv
<1>2. PICK r : r = Loaded(reader.kind, Start(reader), file[reader.at].out)
  OBVIOUS
<1>3. /\ reader # NoReader /\ reader.at \in DOMAIN file /\ \A k \in DOMAIN loads : loads[k].ok
      /\ reader' = [kind |-> reader.kind, from |-> reader.from, at |-> reader.at + 1, open |-> r.open,
                    handles |-> r.handles, memo |-> r.memo, copies |-> r.copies]
      /\ loads' = Append(loads, [at |-> reader.at, ok |-> r.ok, got |-> r.got])
      /\ heap' = heap /\ file' = file /\ pickler' = pickler
  BY <1>2 DEF load, Start
<1>4. PICK F : F = file
  OBVIOUS
<1>5. PICK at : at = reader.at
  OBVIOUS
<1>6. F \in Seq(FileType) /\ at \in 1 .. Len(F) /\ \A i \in 1 .. Len(F) : Len(F[i].out) > 0
  <2>1. file \in Seq(FileType) /\ \A i \in 1 .. Len(file) : Len(file[i].out) > 0
    BY <1>1 DEF PickleTypes
  <2> QED  BY <1>3, <1>4, <1>5, <2>1
<1>7. AllOk(loads)
  <2>1. PICK U : loads \in Seq(U)
    BY <1>1 DEF Reading
  <2>2. DOMAIN loads = 1 .. Len(loads)
    BY <2>1
  <2> QED  BY <1>3, <2>2 DEF AllOk
<1>8. PICK l : l = [at |-> at, ok |-> r.ok, got |-> r.got]
  OBVIOUS
<1>9. PICK rd : rd = reader
  OBVIOUS
<1>10. PICK ls : ls = loads
  OBVIOUS
<1>11. PICK x : x = [kind |-> rd.kind, from |-> rd.from, at |-> at + 1, open |-> r.open,
                     handles |-> r.handles, memo |-> r.memo, copies |-> r.copies]
  OBVIOUS
<1>12. x = reader' /\ Append(ls, l) = loads'
  BY <1>3, <1>5, <1>8, <1>9, <1>10, <1>11
<1>13. /\ Readable(F, D) /\ OnlyFirst(F, pickler) /\ Reading(F, rd, ls, D) /\ RoundTrip(F, rd, ls)
       /\ AllOk(ls) /\ rd # NoReader /\ rd.at = at /\ r = Loaded(rd.kind, Start(rd), F[at].out)
  BY <1>1, <1>2, <1>3, <1>4, <1>5, <1>7, <1>9, <1>10
<1>14. Reading(F, x, Append(ls, l), D) /\ RoundTrip(F, x, Append(ls, l))
  <2>1. PICK m : m = Append(ls, l)
    OBVIOUS
  <2>2. PICK p : p = pickler
    OBVIOUS
  <2>3. OnlyFirst(F, p)
    BY <1>13, <2>2
  <2>4. Reading(F, x, m, D) /\ RoundTrip(F, x, m)
    BY ONLY <1>6, <1>8, <1>11, <1>13, <2>1, <2>3, LoadKeeps
  <2> QED  BY <2>1, <2>4
<1>15. PickleTypes'
  BY <1>1, <1>3 DEF PickleTypes
<1>16. /\ PickleTypes' /\ Readable(file', D) /\ OnlyFirst(file', pickler') /\ Current(file', pickler', D)
       /\ Reading(file', reader', loads', D) /\ RoundTrip(file', reader', loads')
  BY <1>1, <1>3, <1>4, <1>12, <1>14, <1>15
<1> QED  BY <1>16 DEF PInv

\* A dump.  Only the tables matter, and the versions of the objects in them.
LEMMA MirrorsLike ==
  ASSUME NEW p, NEW q, NEW r, NEW x, NEW ver, NEW w, Mirrors(p, ver, r),
         q.pending = p.pending, q.handles = p.handles, q.memo = p.memo,
         x.open <=> r.open, x.handles = r.handles, x.memo = r.memo, x.copies = r.copies,
         \A k \in 1 .. Len(p.handles) : w[p.handles[k]] = ver[p.handles[k]]
  PROVE  Mirrors(q, w, x)
<1>1. /\ IF r.open THEN p.pending = <<>> ELSE p.pending = <<Header>> /\ p.handles = <<>> /\ p.memo = <<>>
      /\ r.copies = Len(r.handles) /\ Len(r.handles) = Len(p.handles)
      /\ \A k, l \in 1 .. Len(p.handles) : p.handles[k] = p.handles[l] => k = l
      /\ Len(r.memo) = Len(p.memo)
      /\ \A k \in 1 .. Len(p.memo) : r.memo[k].o = p.memo[k].o /\ r.memo[k] \in ToSet(r.handles)
  BY DEF Mirrors
<1>2. \A k \in 1 .. Len(p.handles) : r.handles[k].o = p.handles[k] /\ r.handles[k].v = w[p.handles[k]]
  BY DEF Mirrors
<1>3. IF x.open THEN q.pending = <<>> ELSE q.pending = <<Header>> /\ q.handles = <<>> /\ q.memo = <<>>
  BY <1>1
<1>4. x.copies = Len(x.handles) /\ Len(x.handles) = Len(q.handles) /\ Len(x.memo) = Len(q.memo)
  BY <1>1
<1>5. \A k \in 1 .. Len(q.handles) : x.handles[k].o = q.handles[k] /\ x.handles[k].v = w[q.handles[k]]
  BY <1>2
<1>6. \A k, l \in 1 .. Len(q.handles) : q.handles[k] = q.handles[l] => k = l
  BY <1>1
<1>7. \A k \in 1 .. Len(q.memo) : x.memo[k].o = q.memo[k].o /\ x.memo[k] \in ToSet(x.handles)
  BY <1>1
<1> QED  BY <1>3, <1>4, <1>5, <1>6, <1>7 DEF Mirrors

LEMMA UniqueCopies ==
  ASSUME NEW p \in WriteType, NEW r \in ReadType, NEW ver, Mirrors(p, ver, r),
         NEW a \in ToSet(r.handles), NEW b \in ToSet(r.handles), a.o = b.o
  PROVE  a = b
<1>1. r.handles \in Seq(CopyType) /\ DOMAIN r.handles = 1 .. Len(r.handles) /\ Len(r.handles) = Len(p.handles)
  BY DEF ReadType, Mirrors
<1>2. PICK k \in 1 .. Len(r.handles) : a = r.handles[k]
  BY <1>1 DEF ToSet
<1>3. PICK l \in 1 .. Len(r.handles) : b = r.handles[l]
  BY <1>1 DEF ToSet
<1>4. p.handles[k] = p.handles[l] /\ k \in 1 .. Len(p.handles) /\ l \in 1 .. Len(p.handles)
  BY <1>1, <1>2, <1>3 DEF Mirrors
<1>5. k = l
  BY <1>4 DEF Mirrors
<1> QED  BY <1>2, <1>3, <1>5

\* The pickle e after the first n is the next of a pickler, or not clean.
Grows(F, n, e, D, E) ==
  /\ \A i \in 1 .. n : E[i] = D[i]
  /\ e.clean =>
       /\ Replies(E[n + 1], e.want)
       /\ e.first => E[n + 1] = Loaded("J", Start(NoTables), e.out)
       /\ ~e.first =>
            /\ n > 0 /\ F[n].clean /\ F[n].who = e.who
            /\ E[n + 1] = Loaded("J", Start(D[n]), e.out)
            /\ ToSet(D[n].handles) \subseteq ToSet(E[n + 1].handles)

LEMMA ReadableMore ==
  ASSUME NEW F \in Seq(FileType), NEW e \in FileType, NEW G, G = Append(F, e), NEW D, Readable(F, D),
         NEW n, n = Len(F), NEW E, Grows(F, n, e, D, E)
  PROVE  Readable(G, E)
<1> USE DEF Grows
<1>1. /\ Len(G) = n + 1 /\ n \in Nat /\ G[n + 1] = e
      /\ \A i \in 1 .. n : G[i] = F[i]
  BY AppendHas
<1>2. SUFFICES ASSUME NEW i \in 1 .. n + 1, G[i].clean
               PROVE  /\ Replies(E[i], G[i].want)
                      /\ G[i].first => E[i] = Loaded("J", Start(NoTables), G[i].out)
                      /\ ~G[i].first =>
                           /\ i - 1 \in 1 .. n + 1 /\ G[i - 1].clean /\ G[i - 1].who = G[i].who
                           /\ E[i] = Loaded("J", Start(E[i - 1]), G[i].out)
                           /\ ToSet(E[i - 1].handles) \subseteq ToSet(E[i].handles)
  BY <1>1 DEF Readable
<1>3. CASE i \in 1 .. n
  <2>1. G[i] = F[i] /\ E[i] = D[i] /\ i \in 1 .. Len(F)
    BY <1>1, <1>3
  <2>2. /\ Replies(D[i], F[i].want)
        /\ F[i].first => D[i] = Loaded("J", Start(NoTables), F[i].out)
        /\ ~F[i].first =>
             /\ i - 1 \in 1 .. Len(F) /\ F[i - 1].clean /\ F[i - 1].who = F[i].who
             /\ D[i] = Loaded("J", Start(D[i - 1]), F[i].out)
             /\ ToSet(D[i - 1].handles) \subseteq ToSet(D[i].handles)
    BY <1>2, <2>1 DEF Readable
  <2>3. i - 1 \in 1 .. n => G[i - 1] = F[i - 1] /\ E[i - 1] = D[i - 1] /\ i - 1 \in 1 .. n + 1
    BY <1>1
  <2>4. Len(F) = n
    OBVIOUS
  <2> QED  BY <2>1, <2>2, <2>3, <2>4
<1>4. CASE i = n + 1
  <2>1. G[i] = e /\ i - 1 = n
    BY <1>1, <1>4
  <2>2. n > 0 => G[n] = F[n] /\ E[n] = D[n] /\ n \in 1 .. n + 1
    BY <1>1
  <2> QED  BY <1>2, <1>4, <2>1, <2>2
<1>5. i \in 1 .. n \/ i = n + 1
  BY <1>1
<1> QED  BY <1>3, <1>4, <1>5

LEMMA OnlyFirstMore ==
  ASSUME NEW F \in Seq(FileType), NEW e \in FileType, NEW G, G = Append(F, e), NEW p, OnlyFirst(F, p),
         p.dumps \in Nat, e.who = p.who, e.first <=> p.dumps = 0, NEW q, q.who = p.who, q.dumps # 0
  PROVE  OnlyFirst(G, q)
<1>1. PICK n : n = Len(F)
  OBVIOUS
<1>2. /\ Len(G) = n + 1 /\ n \in Nat /\ G[n + 1] = e
      /\ \A i \in 1 .. n : G[i] = F[i]
  BY <1>1, AppendHas
<1>3. \A i \in 1 .. n + 1 : i \in 1 .. n \/ i = n + 1
  BY <1>2
<1>4. ASSUME NEW i \in 1 .. Len(G) PROVE G[i].who <= q.who /\ (q.dumps = 0 => G[i].who # q.who)
  <2>1. e.who \in Nat
    BY DEF FileType
  <2>2. e.who <= q.who
    BY <2>1
  <2> QED  BY <1>1, <1>2, <1>3, <2>2 DEF OnlyFirst
<1>5. ASSUME NEW i \in 1 .. Len(G), NEW j \in 1 .. Len(G), G[i].first, G[j].first, G[i].who = G[j].who
      PROVE  i = j
  <2>1. CASE i \in 1 .. n /\ j \in 1 .. n
    BY <1>1, <1>2, <1>5, <2>1 DEF OnlyFirst
  <2>2. CASE i = n + 1 /\ j \in 1 .. n
    BY <1>1, <1>2, <1>5, <2>2 DEF OnlyFirst
  <2>3. CASE i \in 1 .. n /\ j = n + 1
    BY <1>1, <1>2, <1>5, <2>3 DEF OnlyFirst
  <2>4. CASE i = n + 1 /\ j = n + 1
    BY <2>4
  <2> QED  BY <1>2, <1>3, <2>1, <2>2, <2>3, <2>4
<1> QED  BY <1>4, <1>5 DEF OnlyFirst

\* The versions that the stream has after a dump.
Versions(k, items) ==
  [o \in Object |-> IF k.written[o] = Unwritten /\ \E j \in 1 .. Len(items) : items[j].o = o
                    THEN heap[o] ELSE k.written[o]]
Beginning(k) == [pending |-> k.pending, handles |-> k.handles, memo |-> k.memo, out |-> <<>>, ok |-> TRUE]

Wanted(items, w, want) ==
  /\ Len(want) = Len(items)
  /\ \A j \in 1 .. Len(items) :
       items[j].o \in Object /\ want[j].o = items[j].o /\ want[j].v = w[items[j].o]

\* A dump that does not raise, of a pickler that has not raised, and what the reader
\* that has read all of that pickler answers.
Dumped(F, D, k, items, p, w, want, t, X) ==
  /\ heap \in [Object -> Nat] /\ F \in Seq(FileType) /\ k \in PicklerType /\ ~k.failed
  /\ Readable(F, D) /\ Current(F, k, D)
  /\ items \in Seq(Given) /\ Len(items) > 0
  /\ p = Saved(Beginning(k), items) /\ p.ok /\ p \in WriteType
  /\ w = Versions(k, items) /\ Wanted(items, w, want)
  /\ t = Tables(F, k, D) /\ X = Loaded("J", Start(t), p.out)

LEMMA DumpReads ==
  ASSUME NEW F, NEW D, NEW k, NEW items, NEW p, NEW w, NEW want, NEW t, NEW X,
         Dumped(F, D, k, items, p, w, want, t, X)
  PROVE  /\ Replies(X, want) /\ ToSet(t.handles) \subseteq ToSet(X.handles) /\ Mirrors(p, w, X)
         /\ \A o \in Object : w[o] # Unwritten <=> o \in ToSet(p.handles)
<1> USE DEF Wanted
<1>0. /\ heap \in [Object -> Nat] /\ F \in Seq(FileType) /\ k \in PicklerType /\ ~k.failed
      /\ Readable(F, D) /\ Current(F, k, D)
      /\ items \in Seq(Given) /\ Len(items) > 0
      /\ p = Saved(Beginning(k), items) /\ p.ok /\ p \in WriteType
      /\ w = Versions(k, items) /\ Wanted(items, w, want)
      /\ t = Tables(F, k, D) /\ X = Loaded("J", Start(t), p.out)
  BY DEF Dumped
<1> USE <1>0
<1>1. PICK begin : begin = Beginning(k)
  OBVIOUS
<1>2. /\ begin.pending = k.pending /\ begin.handles = k.handles /\ begin.memo = k.memo /\ begin.out = <<>>
      /\ begin.ok
  BY <1>1 DEF Beginning
<1>3. begin \in WriteType /\ k.handles \in Seq(Object) /\ k.written \in [Object -> Int]
  BY <1>1 DEF Beginning, PicklerType, WriteType
<1>4. /\ k.dumps # 0 => Len(F) > 0 /\ F[Len(F)].clean
      /\ Mirrors(k, k.written, t)
      /\ \A o \in Object : k.written[o] # Unwritten <=> o \in ToSet(k.handles)
  BY DEF Current
<1>5. PICK r0 : r0 = Start(t)
  OBVIOUS
<1>6. r0 \in ReadType
  <2>1. CASE k.dumps = 0
    <3>1. t = NoTables
      BY <2>1 DEF Tables
    <3> QED  BY <1>5, <3>1 DEF Start, NoTables, ReadType
  <2>2. CASE k.dumps # 0
    <3>1. t = D[Len(F)]
      BY <2>2 DEF Tables
    <3>2. Len(F) \in Nat /\ Len(F) \in 1 .. Len(F) /\ F[Len(F)].clean
      BY <1>4, <2>2
    <3>3. t \in ReadType
      BY <3>1, <3>2 DEF Readable, Replies
    <3> QED  BY <1>5, <3>3 DEF Start, ReadType
  <2> QED  BY <2>1, <2>2
<1>7. /\ (r0.open <=> t.open) /\ r0.handles = t.handles /\ r0.memo = t.memo /\ r0.copies = t.copies
      /\ r0.got = <<>> /\ r0.ok
  BY <1>5 DEF Start
<1>8. \A o \in Object : w[o] = IF k.written[o] = Unwritten /\ \E j \in 1 .. Len(items) : items[j].o = o
                               THEN heap[o] ELSE k.written[o]
  BY DEF Versions
<1>9. Mirrors(begin, w, r0)
  <2>1. \A j \in 1 .. Len(k.handles) : w[k.handles[j]] = k.written[k.handles[j]]
    <3> SUFFICES ASSUME NEW j \in 1 .. Len(k.handles) PROVE w[k.handles[j]] = k.written[k.handles[j]]
      OBVIOUS
    <3>1. PICK o : o = k.handles[j]
      OBVIOUS
    <3>2. o \in Object /\ o \in ToSet(k.handles)
      BY <1>3, <3>1 DEF ToSet
    <3>3. w[o] = k.written[o]
      BY <1>4, <1>8, <3>2
    <3> QED  BY <3>1, <3>3
  <2> QED  BY <1>2, <1>4, <1>7, <2>1, MirrorsLike
<1>10. \A j \in 1 .. Len(items) : items[j].o \notin ToSet(begin.handles) => w[items[j].o] = heap[items[j].o]
  <2> SUFFICES ASSUME NEW j \in 1 .. Len(items), items[j].o \notin ToSet(begin.handles)
               PROVE  w[items[j].o] = heap[items[j].o]
    OBVIOUS
  <2>1. PICK o : o = items[j].o
    OBVIOUS
  <2>2. o \in Object /\ k.written[o] = Unwritten
    BY <1>2, <1>4, <2>1
  <2>3. w[o] = heap[o]
    BY <1>8, <2>1, <2>2
  <2> QED  BY <2>1, <2>3
<1>11. Sim(begin, r0, w, items, Len(items), p, X)
  <2>1. p = Saved(begin, items) /\ X = Loaded("J", r0, p.out)
    BY <1>1, <1>5
  <2>2. Saved(begin, items).ok
    BY <2>1
  <2>3. Sim(begin, r0, w, items, Len(items), Saved(begin, items), Loaded("J", r0, Saved(begin, items).out))
    BY <1>2, <1>3, <1>6, <1>7, <1>9, <1>10, <2>2, DumpSim
  <2> QED  BY <2>1, <2>3
<1>12. PICK n : n = Len(items)
  OBVIOUS
<1>13. /\ X \in ReadType /\ Mirrors(p, w, X) /\ Got(X, n, items) /\ X.open
       /\ ToSet(r0.handles) \subseteq ToSet(X.handles)
       /\ ToSet(begin.handles) \subseteq ToSet(p.handles)
       /\ \A o \in ToSet(p.handles) : o \in ToSet(begin.handles) \/ \E j \in 1 .. n : items[j].o = o
       /\ \A j \in 1 .. n : items[j].o \in ToSet(p.handles)
  BY <1>11, <1>12 DEF Sim
<1>14. Replies(X, want)
  <2>1. X.ok /\ Len(X.got) = Len(want)
    BY <1>12, <1>13 DEF Got
  <2>2. ASSUME NEW j \in 1 .. Len(want)
        PROVE  X.got[j].o = want[j].o /\ X.got[j].v = want[j].v /\ X.got[j] \in ToSet(X.handles)
    <3>1. PICK c : c = X.got[j]
      OBVIOUS
    <3>2. c.o = items[j].o /\ c \in ToSet(X.handles)
      BY <1>12, <1>13, <3>1 DEF Got
    <3>3. c.v = w[c.o]
      BY <1>13, <3>2, HandlesOf
    <3> QED  BY <3>1, <3>2, <3>3
  <2>3. \A a, b \in ToSet(X.handles) : a.o = b.o => a = b
    BY <1>13, UniqueCopies
  <2> QED  BY <1>13, <2>1, <2>2, <2>3 DEF Replies
<1>15. ASSUME NEW o \in Object PROVE w[o] # Unwritten <=> o \in ToSet(p.handles)
  <2>1. ASSUME o \in ToSet(p.handles) PROVE w[o] # Unwritten
    <3>1. CASE k.written[o] # Unwritten
      BY <1>8, <3>1
    <3>2. CASE k.written[o] = Unwritten
      <4>1. o \notin ToSet(begin.handles)
        BY <1>2, <1>4, <3>2
      <4>2. \E j \in 1 .. Len(items) : items[j].o = o
        BY <1>12, <1>13, <2>1, <4>1
      <4>3. w[o] = heap[o] /\ heap[o] \in Nat
        BY <1>8, <3>2, <4>2
      <4> QED  BY <4>3 DEF Unwritten
    <3> QED  BY <3>1, <3>2
  <2>2. ASSUME w[o] # Unwritten PROVE o \in ToSet(p.handles)
    <3>1. CASE k.written[o] # Unwritten
      BY <1>2, <1>4, <1>13, <3>1
    <3>2. CASE k.written[o] = Unwritten
      <4>1. PICK j \in 1 .. Len(items) : items[j].o = o
        BY <1>8, <2>2, <3>2
      <4> QED  BY <1>12, <1>13, <4>1
    <3> QED  BY <3>1, <3>2
  <2> QED  BY <2>1, <2>2
<1>16. ToSet(t.handles) \subseteq ToSet(X.handles)
  BY <1>7, <1>13
<1> QED  BY <1>13, <1>14, <1>15, <1>16

LEMMA DumpPInv == ASSUME PInv, NEW items \in Dumps, dump(items) PROVE PInv'
<1>1. PICK D : /\ PickleTypes /\ Readable(file, D) /\ OnlyFirst(file, pickler) /\ Current(file, pickler, D)
               /\ Reading(file, reader, loads, D) /\ RoundTrip(file, reader, loads)
  BY DEF PInv
<1>2. items \in Seq(Given) /\ Len(items) > 0 /\ Len(items) \in Nat /\ DOMAIN items = 1 .. Len(items)
  <2>1. items \in Seq(Given) /\ items # <<>>
    BY DumpsAssumption DEF Given
  <2> QED  BY <2>1
<1>3. PICK p : p = Saved(Beginning(pickler), items)
  OBVIOUS
<1>4. PICK w : w = [o \in Object |->
                     IF pickler.written[o] = Unwritten /\ p.ok /\ \E k \in DOMAIN items : items[k].o = o
                     THEN heap[o] ELSE pickler.written[o]]
  OBVIOUS
<1>5. PICK want : want = [k \in DOMAIN items |-> [o |-> items[k].o, v |-> w[items[k].o]]]
  OBVIOUS
<1>6. PICK e : e = [out |-> p.out, who |-> pickler.who, first |-> pickler.dumps = 0,
                    clean |-> ~pickler.failed, want |-> want]
  OBVIOUS
<1>7. /\ reader = NoReader /\ heap' = heap /\ reader' = reader /\ loads' = loads
      /\ pickler' = [who |-> pickler.who, pending |-> p.pending, handles |-> p.handles, memo |-> p.memo,
                     dumps |-> pickler.dumps + 1, tried |-> pickler.tried + 1,
                     failed |-> pickler.failed \/ ~p.ok, written |-> w]
      /\ file' = IF ~p.ok THEN file ELSE Append(file, e)
  BY <1>3, <1>4, <1>5, <1>6 DEF dump, Beginning, Writing
<1>8. heap \in [Object -> Nat] /\ pickler \in PicklerType /\ file \in Seq(FileType)
      /\ \A i \in 1 .. Len(file) : Len(file[i].out) > 0
  BY <1>1 DEF PickleTypes
<1>9. /\ p \in WriteType
      /\ p.ok => Len(p.out) = Len(items) /\ \A j \in 1 .. Len(items) : items[j].o \in Object
  <2>1. PICK begin : begin = Beginning(pickler)
    OBVIOUS
  <2>2. begin \in WriteType /\ begin.out = <<>>
    BY <1>8, <2>1 DEF Beginning, PicklerType, WriteType
  <2>3. PICK f : /\ Saved(begin, items) = f[Len(items)]
                 /\ \A i \in 0 .. Len(items) :
                      /\ f[i] \in WriteType
                      /\ f[i].ok => /\ Len(f[i].out) = Len(begin.out) + i
                                    /\ \A j \in 1 .. i : f[j - 1].ok /\ items[j].o \in Object
    BY <1>2, <1>8, <2>2, SavedType
  <2>4. Len(items) \in 0 .. Len(items) /\ p = f[Len(items)] /\ Len(begin.out) = 0
    BY <1>2, <1>3, <2>1, <2>2, <2>3
  <2> QED  BY <1>2, <2>3, <2>4
<1>10. w \in [Object -> Int]
  <2>1. pickler.written \in [Object -> Int]
    BY <1>8 DEF PicklerType
  <2> QED  BY <1>4, <1>8, <2>1
<1>11. /\ pickler' \in PicklerType /\ pickler'.who = pickler.who /\ pickler'.dumps # 0
       /\ pickler'.pending = p.pending /\ pickler'.handles = p.handles /\ pickler'.memo = p.memo
       /\ pickler'.written = w /\ (pickler'.failed <=> pickler.failed \/ ~p.ok)
  <2>1. /\ pickler.who \in Nat /\ pickler.dumps \in Nat /\ pickler.tried \in Nat /\ pickler.failed \in BOOLEAN
    BY <1>8 DEF PicklerType
  <2>2. p.pending \in Seq(Piece) /\ p.handles \in Seq(Object) /\ p.memo \in Seq(Item) /\ p.ok \in BOOLEAN
    BY <1>9 DEF WriteType
  <2>3. pickler' \in PicklerType
    BY <1>7, <1>10, <2>1, <2>2 DEF PicklerType
  <2>4. pickler'.dumps # 0
    BY <1>7, <2>1
  <2> QED  BY <1>7, <2>3, <2>4
<1>12. \A F, E : Len(F) \in Nat => Reading(F, reader', loads', E) /\ RoundTrip(F, reader', loads')
  <2>1. reader' = Unpickler("none", 1) /\ loads' = <<>>
    BY <1>1, <1>7 DEF Reading, NoReader
  <2> SUFFICES ASSUME NEW F, NEW E, Len(F) \in Nat
               PROVE  Reading(F, reader', loads', E) /\ RoundTrip(F, reader', loads')
    OBVIOUS
  <2>2. Reading(F, Unpickler("none", 1), <<>>, E) /\ RoundTrip(F, Unpickler("none", 1), <<>>)
    BY FreshReader
  <2> QED  BY <2>1, <2>2
<1>13. CASE ~p.ok
  <2>1. file' = file /\ Len(file) \in Nat
    BY <1>7, <1>8, <1>13
  <2>2. PickleTypes'
    BY <1>7, <1>8, <1>11, <2>1 DEF PickleTypes
  <2>3. OnlyFirst(file', pickler')
    BY <1>1, <1>11, <2>1 DEF OnlyFirst
  <2>4. Current(file', pickler', D)
    BY <1>11, <1>13 DEF Current
  <2>5. Readable(file', D)
    BY <1>1, <2>1
  <2>6. Reading(file', reader', loads', D) /\ RoundTrip(file', reader', loads')
    BY <1>12, <2>1
  <2> QED  BY <2>2, <2>3, <2>4, <2>5, <2>6 DEF PInv
<1>14. CASE p.ok
  <2>1. PICK n : n = Len(file)
    OBVIOUS
  <2>2. /\ want \in Seq([o : Object, v : Int]) /\ Len(want) = Len(items)
        /\ \A j \in 1 .. Len(items) : want[j].o = items[j].o /\ want[j].v = w[items[j].o]
    <3>1. \A j \in 1 .. Len(items) : items[j].o \in Object /\ w[items[j].o] \in Int
      BY <1>9, <1>10, <1>14
    <3>2. \A j \in 1 .. Len(items) : [o |-> items[j].o, v |-> w[items[j].o]] \in [o : Object, v : Int]
      BY <3>1
    <3>3. want \in [1 .. Len(items) -> [o : Object, v : Int]]
      BY <1>2, <1>5, <3>2
    <3>4. \A j \in 1 .. Len(items) : want[j].o = items[j].o /\ want[j].v = w[items[j].o]
      BY <1>2, <1>5
    <3>5. PICK L : L = Len(items)
      OBVIOUS
    <3>6. PICK S : S = [o : Object, v : Int]
      OBVIOUS
    <3>7. want \in [1 .. L -> S] /\ L \in Nat
      BY <1>2, <3>3, <3>5, <3>6
    <3>8. want \in Seq(S) /\ Len(want) = L
      BY ONLY <3>7
    <3> QED  BY <3>4, <3>5, <3>6, <3>8
  <2>3. /\ e \in FileType /\ Len(e.out) > 0 /\ e.who = pickler.who /\ (e.first <=> pickler.dumps = 0)
        /\ (e.clean <=> ~pickler.failed) /\ e.want = want /\ e.out = p.out
    <3>1. p.out \in Seq(PartType) /\ pickler.who \in Nat /\ Len(p.out) > 0
      BY <1>2, <1>8, <1>9, <1>14 DEF PicklerType, WriteType
    <3> QED  BY <1>6, <2>2, <3>1 DEF FileType
  <2>4. file' = Append(file, e)
    BY <1>7, <1>14
  <2>5. /\ file' \in Seq(FileType) /\ Len(file') = n + 1 /\ n \in Nat /\ file'[n + 1] = e
        /\ \A i \in 1 .. n : file'[i] = file[i]
    BY <1>8, <2>1, <2>3, <2>4, AppendHas
  <2>6. PickleTypes'
    <3>1. \A i \in 1 .. Len(file') : i \in 1 .. n \/ i = n + 1
      BY <2>5
    <3>2. \A i \in 1 .. Len(file') : Len(file'[i].out) > 0
      BY <1>8, <2>1, <2>3, <2>5, <3>1
    <3> QED  BY <1>7, <1>8, <1>11, <2>5, <3>2 DEF PickleTypes
  <2>7. OnlyFirst(file', pickler')
    <3>1. pickler.dumps \in Nat
      BY <1>8 DEF PicklerType
    <3>2. OnlyFirst(Append(file, e), pickler')
      BY <1>1, <1>8, <1>11, <2>3, <3>1, OnlyFirstMore
    <3> QED  BY <2>4, <3>2
  <2>8. \A E : Reading(file', reader', loads', E) /\ RoundTrip(file', reader', loads')
    BY <1>12, <2>5
  <2>9. CASE pickler.failed
    <3>1. Readable(file', D)
      <4>1. ~e.clean
        BY <2>3, <2>9
      <4>2. Grows(file, n, e, D, D)
        BY <4>1 DEF Grows
      <4>3. Readable(Append(file, e), D)
        BY <1>1, <1>8, <2>1, <2>3, <4>2, ReadableMore
      <4> QED  BY <2>4, <4>3
    <3>2. Current(file', pickler', D)
      BY <1>11, <2>9 DEF Current
    <3> QED  BY <2>6, <2>7, <2>8, <3>1, <3>2 DEF PInv
  <2>10. CASE ~pickler.failed
    <3>1. PICK t : t = Tables(file, pickler, D)
      OBVIOUS
    <3>2. PICK X : X = Loaded("J", Start(t), p.out)
      OBVIOUS
    <3>3. PICK E : E = [i \in 1 .. n + 1 |-> IF i = n + 1 THEN X ELSE D[i]]
      OBVIOUS
    <3>4. E[n + 1] = X /\ \A i \in 1 .. n : E[i] = D[i]
      BY <2>5, <3>3
    <3>5. w = Versions(pickler, items)
      BY <1>2, <1>4, <1>14 DEF Versions
    <3>6. /\ Replies(X, want) /\ ToSet(t.handles) \subseteq ToSet(X.handles) /\ Mirrors(p, w, X)
          /\ \A o \in Object : w[o] # Unwritten <=> o \in ToSet(p.handles)
      <4>1. PICK F : F = file
        OBVIOUS
      <4>2. PICK k : k = pickler
        OBVIOUS
      <4>3. /\ F \in Seq(FileType) /\ k \in PicklerType /\ ~k.failed /\ Readable(F, D) /\ Current(F, k, D)
            /\ p = Saved(Beginning(k), items) /\ w = Versions(k, items) /\ t = Tables(F, k, D)
        BY <1>1, <1>3, <1>8, <2>10, <3>1, <3>5, <4>1, <4>2
      <4>4. /\ heap \in [Object -> Nat] /\ items \in Seq(Given) /\ Len(items) > 0 /\ p \in WriteType
            /\ Wanted(items, w, want)
        BY <1>2, <1>8, <1>9, <1>14, <2>2 DEF Wanted
      <4>5. Dumped(F, D, k, items, p, w, want, t, X)
        BY <1>14, <3>2, <4>3, <4>4 DEF Dumped
      <4> QED  BY ONLY <4>5, DumpReads
    <3>7. pickler.dumps # 0 => /\ n > 0 /\ file[n].clean /\ file[n].who = pickler.who /\ t = D[n]
      BY <1>1, <2>1, <2>10, <3>1 DEF Current, Tables
    <3>8. pickler.dumps = 0 => t = NoTables
      BY <3>1 DEF Tables
    <3>9. Readable(file', E)
      <4>1. Grows(file, n, e, D, E)
        BY <2>3, <3>2, <3>4, <3>6, <3>7, <3>8 DEF Grows
      <4>2. PICK F : F = file
        OBVIOUS
      <4>3. PICK G : G = Append(F, e)
        OBVIOUS
      <4>4. F \in Seq(FileType) /\ e \in FileType /\ Readable(F, D) /\ n = Len(F) /\ Grows(F, n, e, D, E)
        BY <1>1, <1>8, <2>1, <2>3, <4>1, <4>2
      <4>5. Readable(G, E)
        BY ONLY <4>3, <4>4, ReadableMore
      <4> QED  BY <2>4, <4>2, <4>3, <4>5
    <3>10. Current(file', pickler', E)
      <4>1. Tables(file', pickler', E) = X
        BY <1>11, <2>5, <3>4 DEF Tables
      <4>2. Mirrors(pickler', pickler'.written, X)
        <5>1. PICK q : q = pickler'
          OBVIOUS
        <5>2. q.pending = p.pending /\ q.handles = p.handles /\ q.memo = p.memo
          BY <1>11, <5>1
        <5>3. Mirrors(q, w, X)
          BY ONLY <3>6, <5>2, MirrorsLike
        <5> QED  BY <1>11, <5>1, <5>3
      <4>3. Len(file') > 0 /\ file'[Len(file')].clean /\ file'[Len(file')].who = pickler'.who
        BY <1>11, <2>3, <2>5, <2>10
      <4>4. \A o \in Object : pickler'.written[o] # Unwritten <=> o \in ToSet(pickler'.handles)
        BY <1>11, <3>6
      <4> QED  BY <4>1, <4>2, <4>3, <4>4 DEF Current
    <3> QED  BY <2>6, <2>7, <2>8, <3>9, <3>10 DEF PInv
  <2> QED  BY <2>9, <2>10
<1> QED  BY <1>13, <1>14

LEMMA RestPInv == ASSUME PInv, UNCHANGED pickleVars PROVE PInv'
BY DEF PInv, pickleVars, PickleTypes

LEMMA NextPInv == PInv /\ [Next]_vars => PInv'
<1> SUFFICES ASSUME PInv, [Next]_vars PROVE PInv'
  OBVIOUS
<1>1. CASE UNCHANGED pickleVars
  BY <1>1, RestPInv
<1>2. CASE PickleNext
  BY <1>2, DumpPInv, NewPicklerPInv, MutatePInv, OpenPInv, LoadPInv DEF PickleNext
<1> QED  BY <1>1, <1>2 DEF Next, vars, DataNext, dataVars

LEMMA RoundTripHolds == PInv => PickleRoundTrip
<1> SUFFICES ASSUME PInv PROVE PickleRoundTrip
  OBVIOUS
<1>1. RoundTrip(file, reader, loads) /\ \E U : loads \in Seq(U)
  BY DEF PInv, Reading
<1>2. DOMAIN loads = 1 .. Len(loads)
  BY <1>1
<1>3. ASSUME NEW k \in 1 .. Len(loads), file[loads[k].at].clean
      PROVE  /\ loads[k].ok <=> reader.kind = "J" /\ Aligned(loads[k].at)
             /\ loads[k].ok =>
                  /\ Len(loads[k].got) = Len(file[loads[k].at].want)
                  /\ \A j \in DOMAIN file[loads[k].at].want :
                       /\ loads[k].got[j].o = file[loads[k].at].want[j].o
                       /\ loads[k].got[j].v = file[loads[k].at].want[j].v
  BY <1>1, <1>3 DEF RoundTrip, Truly, Fits, Aligned
<1>4. ASSUME NEW k \in 1 .. Len(loads), NEW h \in 1 .. Len(loads),
             file[loads[k].at].clean, loads[k].ok,
             NEW j \in DOMAIN loads[k].got, NEW i \in DOMAIN loads[h].got,
             file[loads[h].at].clean, loads[k].got[j].o = loads[h].got[i].o
      PROVE  loads[k].got[j] = loads[h].got[i]
  <2>1. Same(file, loads[k], loads[h])
    BY <1>1 DEF RoundTrip
  <2> QED  BY <1>4, <2>1 DEF Same
<1> QED  BY <1>2, <1>3, <1>4 DEF PickleRoundTrip

\* A pickle is loaded by the reader that has read all of its pickler, with the objects
\* and the contents that were dumped and one copy of each object, and by no other
\* reader (_JDispatch and JUnpickler of jpype/pickle.py), for any objects and dumps.
THEOREM PicklesComeBack == Spec => []PickleRoundTrip
<1>1. Init => PInv
  BY InitPInv DEF Init, DataInit
<1> QED  BY <1>1, NextPInv, RoundTripHolds, PTL DEF Spec
===============================================================================
