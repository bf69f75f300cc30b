------------------------------ MODULE DbApiProofs ------------------------------
(***************************************************************************)
(* Cursors, statements and caches of jpype.dbapi2, for any connections,    *)
(* cursors, threads, statements and types of the program.                  *)
(***************************************************************************)
EXTENDS DbApi, SequenceTheorems, TLAPS

States == {"none", "live", "dropped", "gone", "lost"}
Points == {"idle", "prepare", "bind", "batch", "run", "fetch"}
UserNames == {u.name : u \in UserType}

ConnType == [at : States, closed : BOOLEAN, open : BOOLEAN, batch : BOOLEAN, lookup : {"type", "name"}]
StmtType == [cx : Conn, q : Query \cup {NoQuery}, open : BOOLEAN, pos : Nat, row : Nat,
             reading : BOOLEAN]
CursorType == [at : States, cx : Conn \cup {"none"}, thread : Thread \cup {"none"}, closed : BOOLEAN,
               statement : Nat, cause : Nat, rs : Sets, counted : {"never", "earlier", "own"}, cols : Sets,
               desc : Nat, last : Nat, rowcount : Nat \cup {-1}, iter : BOOLEAN]
CallType == [pc : Points, op : {"none", "one", "many", "call", "fetch", "given"},
             k : Cursors \cup {"none"}, q : Query \cup {NoQuery}, types : {NoTypes, Given},
             rows : Int, sum : Int, ptypes : Int, disturbed : BOOLEAN]

Typed ==
  /\ jvm \in BOOLEAN
  /\ cx \in [Conn -> ConnType]
  /\ cur \in [Cursors -> CursorType]
  /\ stmts \in Seq(StmtType) /\ Len(stmts) <= MaxStmt
  /\ call \in [Thread -> CallType]

\* _registry: every code of the module has a type, and a name stands for itself.
Registry ==
  /\ DOMAIN codes = DOMAIN codes \cup Coded
  /\ \A c \in Coded : codes[c] \in Coded \cup UserNames
  /\ \A c \in DOMAIN codes : codes[c] \in Coded \cup UserNames
  /\ \A n \in DOMAIN names : names[n] = n
  /\ DOMAIN names \subseteq Coded \cup Aliases \cup UserNames

\* What a cursor keeps, of the n statements prepared so far.
CursorOK(c, n, running) ==
  /\ c.at = "live" => c.cx \in Conn /\ c.thread \in Thread
  /\ c.statement \in 0 .. n
  /\ c.closed \/ c.at \in {"none", "gone"} => c.statement = None
  /\ c.last \in {None, c.statement} /\ c.desc \in {None, c.statement}
  /\ c.rs # NoSet => c.rs[1] = c.statement
  /\ c.counted = "own" => c.cols \in {NoSet, c.rs}
  /\ c.at = "live" /\ running => c.cause = c.statement

CursorsOK == \A k \in Cursors : CursorOK(cur[k], Len(stmts), jvm)

\* The types that an execute which was given types sets the parameters of
\* statement s with.
Proper(types, s) == IF types = Given THEN {Given} ELSE {NoTypes, s}

\* The call m of thread t, on the cursor c.
CallOK(m, c, t) ==
  /\ m.k \in Cursors /\ c.at = "live" /\ c.thread = t /\ ~c.closed
  /\ m.pc = "prepare" => c.statement = None /\ (m.disturbed \/ m.ptypes = m.types)
  /\ m.pc \in {"bind", "batch", "run"} => c.statement # None
  /\ m.pc \in {"bind", "run"} => m.disturbed \/ m.ptypes \in Proper(m.types, c.statement)

CallsOK == \A t \in Thread : call[t].pc # "idle" => CallOK(call[t], cur[call[t].k], t)

\* No two cursors have a statement in common.
Own == \A j, k \in Cursors : j # k /\ cur[j].statement # None => cur[j].statement # cur[k].statement

\* An open statement has a cursor and an open connection.
Held ==
  \A s \in 1 .. Len(stmts) :
    stmts[s].open => cx[stmts[s].cx].open /\ \E k \in Cursors : cur[k].statement = s

Opened == \A c \in Conn : cx[c].open => jvm /\ ~cx[c].closed /\ cx[c].at \in {"live", "dropped", "lost"}

\* What the last step handed out.
Handed ==
  /\ got.set # NoSet => got.set[1] = got.cause
  /\ got.counted => got.types = got.set
  /\ ~bound.disturbed => bound.from \in Proper(bound.asked, bound.statement)

IInv == Typed /\ Registry /\ CursorsOK /\ CallsOK /\ Own /\ Held /\ Opened /\ Handed

-------------------------------------------------------------------------------
\* The tables of the types.
LEMMA DefaultMap ==
  /\ DOMAIN default_map = Coded \cup Aliases
  /\ \A t \in Coded \cup Aliases : default_map[t] \in Coded \cup Aliases
<1>1. DOMAIN default_map = AsObject \cup AsText \cup AsBinary \cup AsItself
  BY DEF default_map, AsMapped
<1>2. AsObject \cup AsText \cup AsBinary \cup AsItself = Coded \cup Aliases
  BY DEF AsObject, AsText, AsBinary, AsItself, Coded, Aliases
<1>3. \A t \in AsObject \cup AsText \cup AsBinary \cup AsItself :
        default_map[t] \in {"OBJECT", "STRING", "BINARY", t}
  BY DEF default_map, AsMapped
<1>4. {"OBJECT", "STRING", "BINARY"} \subseteq Coded \cup Aliases
  BY DEF Coded, Aliases
<1> HIDE DEF default_map, AsObject, AsText, AsBinary, AsItself
<1> QED
  BY <1>1, <1>2, <1>3, <1>4

-------------------------------------------------------------------------------
\* Lengths and elements of the statements.
LEMMA StmtAt ==
  ASSUME stmts \in Seq(StmtType)
  PROVE  /\ Len(stmts) \in Nat /\ DOMAIN stmts = 1 .. Len(stmts)
         /\ \A s \in 1 .. Len(stmts) : stmts[s] \in StmtType
BY LenProperties, ElementOfSeq

\* A sequence of statements that is changed in place.
LEMMA StmtsMapped ==
  ASSUME stmts \in Seq(StmtType), NEW f, f = [s \in DOMAIN stmts |-> f[s]],
         \A s \in 1 .. Len(stmts) : f[s] \in StmtType
  PROVE  f \in Seq(StmtType) /\ Len(f) = Len(stmts)
<1>1. Len(stmts) \in Nat /\ DOMAIN stmts = 1 .. Len(stmts)
  BY StmtAt
<1>2. f = [s \in 1 .. Len(stmts) |-> f[s]]
  BY <1>1
<1> QED
  BY <1>1, <1>2, IsASeq

LEMMA NoCursorOK ==
  ASSUME NEW n \in Nat, NEW running \in BOOLEAN
  PROVE  NoCursor \in CursorType /\ CursorOK(NoCursor, n, running)
<1>1. NoSet \in Sets
  BY DEF Sets
<1>2. NoCursor \in CursorType
  BY <1>1 DEF NoCursor, CursorType, States, None
<1> QED
  BY <1>2 DEF NoCursor, CursorOK, None

LEMMA SilentHanded == ASSUME Silent PROVE Handed'
BY DEF Silent, Handed, Proper, NoRow, NoBind, NoTypes, Given, None

\* The statements stay where they are, and none is opened.
StmtsKept ==
  /\ stmts' \in Seq(StmtType) /\ Len(stmts') = Len(stmts)
  /\ \A s \in 1 .. Len(stmts) : stmts'[s].cx = stmts[s].cx /\ (stmts'[s].open => stmts[s].open)

LEMMA SameStmts == ASSUME Typed, UNCHANGED stmts PROVE StmtsKept
BY DEF Typed, StmtsKept

\* A step that changes one cursor.
LEMMA CursorStep ==
  ASSUME IInv, NEW k \in Cursors, NEW new \in CursorType, cur' = [cur EXCEPT ![k] = new],
         CursorOK(new, Len(stmts), jvm), new.statement \in {None, cur[k].statement},
         StmtsKept, new.statement # cur[k].statement => ~stmts'[cur[k].statement].open,
         UNCHANGED <<jvm, cx, codes, names>>,
         call' \in [Thread -> CallType], CallsOK', Handed'
  PROVE  IInv'
<1>1. Typed /\ Registry /\ CursorsOK /\ Own /\ Held /\ Opened
  BY DEF IInv
<1>2. \A j \in Cursors : cur'[j] = IF j = k THEN new ELSE cur[j]
  BY <1>1 DEF Typed
<1>3. Typed'
  <2>1. cur' \in [Cursors -> CursorType]
    BY <1>1 DEF Typed
  <2> QED
    BY <1>1, <2>1 DEF Typed, StmtsKept
<1>4. Registry' /\ Opened'
  BY <1>1 DEF Registry, Opened
<1>5. CursorsOK'
  BY <1>1, <1>2 DEF CursorsOK, StmtsKept
<1>6. Own'
  <2>1. \A j \in Cursors : cur'[j].statement \in {None, cur[j].statement}
    BY <1>2
  <2> QED
    BY <1>1, <2>1 DEF Own
<1>7. Held'
  <2> SUFFICES ASSUME NEW s \in 1 .. Len(stmts), stmts'[s].open
               PROVE  cx'[stmts'[s].cx].open /\ \E j \in Cursors : cur'[j].statement = s
    BY DEF Held, StmtsKept
  <2>1. cx[stmts[s].cx].open /\ stmts'[s].cx = stmts[s].cx
    BY <1>1 DEF Held, StmtsKept
  <2>2. PICK j \in Cursors : cur[j].statement = s
    BY <1>1 DEF Held, StmtsKept
  <2>3. cur'[j].statement = s
    BY <1>2, <2>2
  <2> QED
    BY <2>1, <2>3
<1> QED
  BY <1>3, <1>4, <1>5, <1>6, <1>7 DEF IInv

\* Only the thread of a cursor is in a call on it.
LEMMA Alone ==
  ASSUME CallsOK, NEW k \in Cursors, NEW u \in Thread, call[u].pc # "idle", call[u].k = k
  PROVE  cur[k].thread = u /\ cur[k].at = "live" /\ ~cur[k].closed
BY DEF CallsOK, CallOK

LEMMA CallsStep ==
  ASSUME Typed, CallsOK, NEW t \in Thread, NEW k \in Cursors, NEW new, cur' = [cur EXCEPT ![k] = new],
         cur[k].thread = t, NEW m \in CallType, call' = [call EXCEPT ![t] = m],
         m.pc # "idle" => m.k = k /\ CallOK(m, new, t)
  PROVE  call' \in [Thread -> CallType] /\ CallsOK'
<1>1. call' \in [Thread -> CallType]
  BY DEF Typed
<1>2. ASSUME NEW u \in Thread, call'[u].pc # "idle"
      PROVE  CallOK(call'[u], cur'[call'[u].k], u)
  <2>1. CASE u = t
    BY <1>2, <2>1 DEF Typed
  <2>2. CASE u # t
    <3>1. call'[u] = call[u] /\ call[u].pc # "idle"
      BY <1>2, <2>2 DEF Typed
    <3>2. CallOK(call[u], cur[call[u].k], u)
      BY <3>1 DEF CallsOK
    <3>3. call[u].k \in Cursors /\ call[u].k # k
      BY <2>2, <3>1, <3>2, Alone DEF CallOK
    <3>4. cur'[call[u].k] = cur[call[u].k]
      BY <3>3 DEF Typed
    <3> QED
      BY <3>1, <3>2, <3>4
  <2> QED
    BY <2>1, <2>2
<1> QED
  BY <1>1, <1>2 DEF CallsOK

\* The same for a cursor that is used outside of a call, or by nobody.
LEMMA CallsQuiet ==
  ASSUME Typed, CallsOK, NEW k \in Cursors, NEW new, cur' = [cur EXCEPT ![k] = new], UNCHANGED call,
         \A u \in Thread : call[u].pc # "idle" /\ call[u].k = k => CallOK(call[u], new, u)
  PROVE  call' \in [Thread -> CallType] /\ CallsOK'
<1>1. call' \in [Thread -> CallType]
  BY DEF Typed
<1>2. ASSUME NEW u \in Thread, call[u].pc # "idle"
      PROVE  CallOK(call[u], cur'[call[u].k], u)
  <2>1. CallOK(call[u], cur[call[u].k], u)
    BY <1>2 DEF CallsOK
  <2>2. call[u].k \in Cursors
    BY <2>1 DEF CallOK
  <2>3. CASE call[u].k = k
    BY <1>2, <2>3 DEF Typed
  <2>4. CASE call[u].k # k
    BY <2>1, <2>2, <2>4 DEF Typed
  <2> QED
    BY <2>3, <2>4
<1> QED
  BY <1>1, <1>2 DEF CallsOK

LEMMA OwnedQuiet ==
  ASSUME CallsOK, NEW t \in Thread, NEW k \in Cursors, Idle(t), cur[k].thread = t
  PROVE  \A u \in Thread : ~(call[u].pc # "idle" /\ call[u].k = k)
BY Alone DEF Idle

-------------------------------------------------------------------------------
LEMMA InitIInv == Init => IInv
<1> SUFFICES ASSUME Init PROVE IInv
  OBVIOUS
<1>1. stmts = <<>> /\ Len(stmts) = 0
  BY DEF Init
<1>2. NoCursor \in CursorType /\ CursorOK(NoCursor, 0, TRUE)
  BY NoCursorOK
<1>3. Typed
  <2>1. NoConn \in ConnType
    BY DEF NoConn, ConnType, States
  <2>2. NoCall \in CallType
    BY DEF NoCall, CallType, Points, NoTypes
  <2>3. stmts \in Seq(StmtType) /\ Len(stmts) <= MaxStmt
    BY <1>1, EmptySeq, BoundAssumption
  <2> QED
    BY <1>2, <2>1, <2>2, <2>3 DEF Init, Typed
<1>4. Registry
  BY DEF Init, Registry, registryCodes, registryNames
<1>5. CursorsOK
  BY <1>1, <1>2 DEF Init, CursorsOK
<1>6. CallsOK /\ Own /\ Opened
  BY DEF Init, CallsOK, Own, Opened, NoCall, NoCursor, NoConn
<1>7. Held
  BY <1>1 DEF Held
<1>8. Handed
  BY DEF Init, Handed, Proper, NoRow, NoBind, NoTypes, Given, None
<1> QED
  BY <1>3, <1>4, <1>5, <1>6, <1>7, <1>8 DEF IInv

-------------------------------------------------------------------------------
\* What the driver does to a statement.
LEMMA StmtStep ==
  ASSUME stmts \in Seq(StmtType), NEW s \in 1 .. Len(stmts), NEW new \in StmtType,
         stmts' = [stmts EXCEPT ![s] = new], new.cx = stmts[s].cx, new.open => stmts[s].open
  PROVE  StmtsKept /\ stmts'[s] = new
<1>1. /\ Len(stmts) \in Nat /\ DOMAIN stmts = 1 .. Len(stmts)
      /\ \A i \in 1 .. Len(stmts) : stmts[i] \in StmtType
  BY StmtAt
<1>2. \A i \in 1 .. Len(stmts) : stmts'[i] = IF i = s THEN new ELSE stmts[i]
  BY <1>1
<1>3. stmts' = [i \in DOMAIN stmts |-> stmts'[i]]
  BY <1>1
<1>4. stmts' \in Seq(StmtType) /\ Len(stmts') = Len(stmts)
  BY <1>1, <1>2, <1>3, StmtsMapped
<1> QED
  BY <1>2, <1>4 DEF StmtsKept

LEMMA ClosedStep ==
  ASSUME stmts \in Seq(StmtType), NEW s \in 1 .. Len(stmts), stmts' = StatementClosed(s)
  PROVE  StmtsKept /\ ~stmts'[s].open
<1>1. PICK new : new = ClosedStmt(stmts[s].cx)
  OBVIOUS
<1>2. stmts[s] \in StmtType
  BY StmtAt
<1>3. new \in StmtType /\ new.cx = stmts[s].cx /\ ~new.open
  BY <1>1, <1>2 DEF ClosedStmt, NewStmt, StmtType
<1>4. stmts' = [stmts EXCEPT ![s] = new]
  BY <1>1 DEF StatementClosed
<1> QED
  BY <1>3, <1>4, StmtStep

LEMMA FinishStep ==
  ASSUME stmts \in Seq(StmtType), NEW k, cur[k].statement \in 0 .. Len(stmts), stmts' = FinishedStmts(k)
  PROVE  StmtsKept /\ (cur[k].statement # None => ~stmts'[cur[k].statement].open)
<1>1. CASE cur[k].statement = None
  BY <1>1 DEF FinishedStmts, StmtsKept
<1>2. CASE cur[k].statement # None
  <2>1. Len(stmts) \in Nat
    BY StmtAt
  <2>2. cur[k].statement \in 1 .. Len(stmts)
    BY <1>2, <2>1 DEF None
  <2>3. stmts' = StatementClosed(cur[k].statement)
    BY <1>2 DEF FinishedStmts
  <2> QED
    BY <2>2, <2>3, ClosedStep
<1> QED
  BY <1>1, <1>2

LEMMA MovedStep ==
  ASSUME stmts \in Seq(StmtType), NEW s \in 1 .. Len(stmts), NEW p \in Nat, stmts' = Moved(s, p)
  PROVE  StmtsKept
<1> DEFINE reads == p <= Len(stmts[s].q.results) /\ stmts[s].q.results[p].rows # -1
<1>1. PICK read \in BOOLEAN : read = reads
  OBVIOUS
<1>2. PICK new : new = [stmts[s] EXCEPT !.pos = p, !.row = 0, !.reading = read]
  OBVIOUS
<1>3. stmts[s] \in StmtType
  BY StmtAt
<1>4. new \in StmtType /\ new.cx = stmts[s].cx /\ new.open = stmts[s].open
  <2>1. CASE read = TRUE
    BY <1>2, <1>3, <2>1 DEF StmtType
  <2>2. CASE read = FALSE
    BY <1>2, <1>3, <2>2 DEF StmtType
  <2> QED
    BY <2>1, <2>2
<1>5. stmts' = [stmts EXCEPT ![s].pos = p, ![s].row = 0, ![s].reading = read]
  BY <1>1 DEF Moved
<1>6. stmts' = [stmts EXCEPT ![s] = new]
  BY <1>2, <1>5
<1> QED
  BY <1>4, <1>6, StmtStep

LEMMA AdvancedStep ==
  ASSUME stmts \in Seq(StmtType), NEW set, set[1] \in 1 .. Len(stmts), stmts' = Advanced(set)
  PROVE  StmtsKept
<1>1. PICK s \in 1 .. Len(stmts) : s = set[1]
  OBVIOUS
<1>3. stmts[s] \in StmtType
  BY StmtAt
<1>r. PICK row \in Nat : row = stmts[s].row + 1
  BY <1>3 DEF StmtType
<1>2. PICK new : new = [stmts[s] EXCEPT !.row = row]
  OBVIOUS
<1>4. new \in StmtType /\ new.cx = stmts[s].cx /\ new.open = stmts[s].open
  BY <1>2, <1>3 DEF StmtType
<1>5. stmts' = [stmts EXCEPT ![s] = new]
  BY <1>1, <1>2, <1>r DEF Advanced
<1> QED
  BY <1>4, <1>5, StmtStep

LEMMA OutdatedType ==
  ASSUME NEW counted \in {"never", "earlier", "own"}
  PROVE  Outdated(counted) \in {"never", "earlier"}
BY DEF Outdated

\* What Cursor._finish, and a finalizer, leave of a cursor.
LEMMA FinishedOK ==
  ASSUME NEW c \in CursorType, NEW n \in Nat, NEW running \in BOOLEAN,
         c.at = "live" => c.cx \in Conn /\ c.thread \in Thread
  PROVE  /\ Finished(c) \in CursorType /\ CursorOK(Finished(c), n, running)
         /\ Finished(c).statement = None /\ Finished(c).at = c.at /\ Finished(c).thread = c.thread
         /\ Finished(c).closed = c.closed
<1>1. PICK new : new = Finished(c)
  OBVIOUS
<1>2. /\ new.at = c.at /\ new.cx = c.cx /\ new.thread = c.thread /\ new.closed = c.closed
      /\ new.statement = 0 /\ new.cause = 0 /\ new.rs = NoSet /\ new.desc = 0 /\ new.last = 0
      /\ new.counted = Outdated(c.counted) /\ new \in CursorType
  BY <1>1, OutdatedType DEF Finished, CursorType, None, Sets
<1>3. CursorOK(new, n, running)
  BY <1>2, OutdatedType DEF CursorOK, None, CursorType
<1> QED
  BY <1>1, <1>2, <1>3 DEF None

LEMMA RestOK ==
  ASSUME Typed, CursorsOK, NEW k \in Cursors
  PROVE  /\ Rest(k) \in CursorType /\ CursorOK(Rest(k), Len(stmts), FALSE)
         /\ Rest(k).statement = cur[k].statement /\ Rest(k).at = cur[k].at
         /\ Rest(k).thread = cur[k].thread /\ Rest(k).closed = cur[k].closed
         /\ Rest(k).cx = cur[k].cx /\ Rest(k).counted = "never"
<1>1. PICK new : new = Rest(k)
  OBVIOUS
<1>2. cur[k] \in CursorType /\ CursorOK(cur[k], Len(stmts), jvm)
  BY DEF Typed, CursorsOK
<1>3. NoCursor \in CursorType
  BY NoCursorOK
<1>4. /\ new.at = cur[k].at /\ new.cx = cur[k].cx /\ new.thread = cur[k].thread
      /\ new.closed = cur[k].closed /\ new.statement = cur[k].statement
      /\ new.rs = cur[k].rs /\ new.desc = 0 /\ new.last = 0 /\ new.counted = "never"
      /\ new \in CursorType
  BY <1>1, <1>2, <1>3 DEF Rest, CursorType, None, NoCursor
<1>5. CursorOK(new, Len(stmts), FALSE)
  BY <1>2, <1>4 DEF CursorOK, None
<1> QED
  BY <1>1, <1>4, <1>5

-------------------------------------------------------------------------------
\* One lemma for each action on a cursor.

LEMMA NewCursorStep ==
  ASSUME IInv, NEW t \in Thread, NEW c \in Conn, NEW k \in Cursors, NewCursor(t, c, k)
  PROVE  IInv'
<1>1. Typed /\ CursorsOK /\ CallsOK /\ Len(stmts) \in Nat /\ jvm \in BOOLEAN
  BY StmtAt DEF IInv, Typed
<1>2. /\ cur[k].at = "none" /\ UNCHANGED <<jvm, cx, codes, names, stmts, call>> /\ Silent
  BY DEF NewCursor, registry
<1>3. PICK new : new = [NoCursor EXCEPT !.at = "live", !.cx = c, !.thread = t]
  OBVIOUS
<1>4. cur' = [cur EXCEPT ![k] = new]
  BY <1>3 DEF NewCursor
<1>5. NoCursor \in CursorType /\ CursorOK(NoCursor, Len(stmts), jvm)
  BY <1>1, NoCursorOK
<1>6. new \in CursorType /\ new.statement = 0 /\ CursorOK(new, Len(stmts), jvm)
  <2>1. /\ new.at = "live" /\ new.cx = c /\ new.thread = t /\ new.closed = FALSE
        /\ new.statement = 0 /\ new.cause = 0 /\ new.rs = NoSet /\ new.desc = 0 /\ new.last = 0
        /\ new.counted = "never"
    BY <1>3 DEF NoCursor, None
  <2>2. new \in CursorType
    BY <1>3, <1>5 DEF CursorType, States
  <2> QED
    BY <1>1, <2>1, <2>2 DEF CursorOK, None
<1>7. call' \in [Thread -> CallType] /\ CallsOK'
  BY <1>1, <1>2, <1>4, Alone, CallsQuiet
<1>8. cur[k].statement = None
  BY <1>1, <1>2 DEF CursorsOK, CursorOK
<1> QED
  BY <1>1, <1>2, <1>4, <1>6, <1>7, <1>8, CursorStep, SameStmts, SilentHanded DEF None

\* What execute writes before any check.
LEMMA EnteredOK ==
  ASSUME Typed, CursorsOK, NEW k \in Cursors, NEW op
  PROVE  /\ Entered(k, op) \in CursorType
         /\ CursorOK(Entered(k, op), Len(stmts), jvm)
         /\ Entered(k, op).statement = cur[k].statement
         /\ Entered(k, op).at = cur[k].at /\ Entered(k, op).thread = cur[k].thread
         /\ Entered(k, op).closed = cur[k].closed /\ Entered(k, op).cx = cur[k].cx
<1>1. PICK new : new = Entered(k, op)
  OBVIOUS
<1>2. cur[k] \in CursorType /\ CursorOK(cur[k], Len(stmts), jvm)
  BY DEF Typed, CursorsOK
<1>3. CASE op = "call"
  BY <1>2, <1>3 DEF Entered
<1>4. CASE op # "call"
  <2>1. new = [cur[k] EXCEPT !.last = None]
    BY <1>1, <1>4 DEF Entered
  <2>2. /\ new.at = cur[k].at /\ new.cx = cur[k].cx /\ new.thread = cur[k].thread
        /\ new.closed = cur[k].closed /\ new.statement = cur[k].statement
        /\ new.cause = cur[k].cause /\ new.rs = cur[k].rs /\ new.cols = cur[k].cols
        /\ new.counted = cur[k].counted /\ new.desc = cur[k].desc /\ new.last = None
        /\ new \in CursorType
    BY <1>2, <2>1 DEF CursorType, None
  <2>3. CursorOK(new, Len(stmts), jvm)
    BY <1>2, <2>2 DEF CursorOK
  <2> QED
    BY <1>1, <1>4, <2>2, <2>3
<1> QED
  BY <1>3, <1>4

LEMMA HalfFinishedOK ==
  ASSUME NEW k, NEW c \in CursorType, NEW n, NEW running, CursorOK(c, n, running),
         NEW new \in HalfFinished(k, c)
  PROVE  /\ new \in CursorType /\ CursorOK(new, n, running)
         /\ new.statement = c.statement /\ new.at = c.at /\ new.thread = c.thread
         /\ new.closed = c.closed
<1>1. PICK counted : counted = Outdated(c.counted)
  OBVIOUS
<1>2. new = c \/ new = [c EXCEPT !.rs = NoSet, !.counted = counted]
  BY <1>1 DEF HalfFinished
<1>3. counted \in {"never", "earlier"}
  BY <1>1, OutdatedType DEF CursorType
<1>4. CASE new = [c EXCEPT !.rs = NoSet, !.counted = counted]
  <2>1. /\ new.at = c.at /\ new.cx = c.cx /\ new.thread = c.thread /\ new.closed = c.closed
        /\ new.statement = c.statement /\ new.cause = c.cause /\ new.rs = NoSet
        /\ new.counted = counted /\ new.desc = c.desc /\ new.last = c.last /\ new \in CursorType
    BY <1>3, <1>4 DEF CursorType, Sets
  <2>2. CursorOK(new, n, running)
    BY <1>3, <2>1 DEF CursorOK
  <2> QED
    BY <2>1, <2>2
<1> QED
  BY <1>2, <1>4

LEMMA BeginStep ==
  ASSUME IInv, NEW t \in Thread, NEW k \in Cursors, NEW op \in {"one", "many", "call"}, NEW q \in Query,
         NEW types \in {NoTypes, Given}, NEW rows \in 0 .. MaxRows, Begin(t, k, op, q, types, rows)
  PROVE  IInv'
<1>1. Typed /\ CursorsOK /\ CallsOK /\ Len(stmts) \in Nat /\ jvm \in BOOLEAN /\ stmts \in Seq(StmtType)
  BY StmtAt DEF IInv, Typed
<1>2. /\ cur[k].at = "live" /\ cur[k].thread = t /\ ~cur[k].closed
      /\ stmts' = FinishedStmts(k) /\ UNCHANGED <<jvm, cx, codes, names>> /\ Silent
  BY DEF Begin, Usable, registry
<1>3. PICK c : c = Entered(k, op)
  OBVIOUS
<1>4. /\ c \in CursorType /\ CursorOK(c, Len(stmts), jvm)
      /\ c.at = "live" /\ c.thread = t /\ ~c.closed /\ c.statement = cur[k].statement
  BY <1>1, <1>2, <1>3, EnteredOK
<1>5. c.cx \in Conn
  BY <1>4 DEF CursorOK
<1>6. PICK new : new = Finished(c)
  OBVIOUS
<1>7. /\ new \in CursorType /\ CursorOK(new, Len(stmts), jvm) /\ new.statement = None
      /\ new.at = "live" /\ new.thread = t /\ ~new.closed
  BY <1>1, <1>4, <1>5, <1>6, FinishedOK
<1>8. cur' = [cur EXCEPT ![k] = new]
  BY <1>3, <1>6 DEF Begin
<1>9. PICK m : m = [NoCall EXCEPT !.pc = "prepare", !.op = op, !.k = k, !.q = q, !.types = types,
                                  !.ptypes = types, !.rows = rows]
  OBVIOUS
<1>10. m \in CallType /\ m.pc = "prepare" /\ m.k = k /\ m.ptypes = m.types
  <2>1. rows \in Int /\ 0 \in Int /\ types \in Int
    BY BoundAssumption DEF NoTypes, Given
  <2>2. NoCall \in [pc : {"idle"}, op : {"none"}, k : {"none"}, q : {NoQuery}, types : {NoTypes},
                    rows : {0}, sum : {0}, ptypes : {NoTypes}, disturbed : {FALSE}]
    BY DEF NoCall
  <2> QED
    BY <1>9, <2>1, <2>2 DEF CallType, Points
<1>11. call' = [call EXCEPT ![t] = m]
  BY <1>9 DEF Begin
<1>12. CallOK(m, new, t)
  BY <1>4, <1>7, <1>10 DEF CallOK
<1>13. call' \in [Thread -> CallType] /\ CallsOK'
  BY <1>1, <1>2, <1>8, <1>10, <1>11, <1>12, CallsStep
<1>14. cur[k].statement \in 0 .. Len(stmts)
  BY <1>1 DEF CursorsOK, CursorOK
<1>15. StmtsKept /\ (cur[k].statement # None => ~stmts'[cur[k].statement].open)
  BY <1>1, <1>2, <1>14, FinishStep
<1> QED
  BY <1>2, <1>7, <1>8, <1>13, <1>15, CursorStep, SilentHanded

LEMMA BeginRejectedStep ==
  ASSUME IInv, NEW t \in Thread, NEW k \in Cursors, NEW op, NEW types \in {NoTypes, Given},
         BeginRejected(t, k, op, types)
  PROVE  IInv'
<1>1. Typed /\ CursorsOK /\ CallsOK
  BY DEF IInv
<1>2. UNCHANGED <<jvm, cx, codes, names, stmts>> /\ Silent
  BY DEF BeginRejected, registry
<1>3. PICK c : c = Entered(k, op)
  OBVIOUS
<1>4. /\ c \in CursorType /\ CursorOK(c, Len(stmts), jvm)
      /\ c.at = cur[k].at /\ c.thread = cur[k].thread /\ c.closed = cur[k].closed
      /\ c.statement = cur[k].statement
  BY <1>1, <1>3, EnteredOK
<1>5. cur' = [cur EXCEPT ![k] = c]
  BY <1>3 DEF BeginRejected
<1>6. ASSUME NEW u \in Thread
      PROVE  /\ call'[u] \in CallType
             /\ call'[u] = call[u] \/ call'[u] = [call[u] EXCEPT !.ptypes = types, !.disturbed = TRUE]
  <2>1. call[u] \in CallType /\ types \in Int
    BY <1>1 DEF Typed, NoTypes, Given
  <2>2. PICK marked : marked = [call[u] EXCEPT !.ptypes = types, !.disturbed = TRUE]
    OBVIOUS
  <2>3. marked \in CallType
    BY <2>1, <2>2 DEF CallType
  <2>4. call'[u] = call[u] \/ call'[u] = marked
    BY <2>2 DEF BeginRejected
  <2> QED
    BY <2>1, <2>2, <2>3, <2>4
<1>7. call' \in [Thread -> CallType]
  <2>1. call' = [u \in Thread |-> call'[u]]
    BY DEF BeginRejected
  <2> QED
    BY <1>6, <2>1
<1>8. ASSUME NEW u \in Thread, call'[u].pc # "idle"
      PROVE  CallOK(call'[u], cur'[call'[u].k], u)
  <2>1. PICK m : m = call'[u]
    OBVIOUS
  <2>2. /\ m.pc = call[u].pc /\ m.k = call[u].k
        /\ m.disturbed \/ (~call[u].disturbed /\ m.ptypes = call[u].ptypes /\ m.types = call[u].types)
    BY <1>1, <1>6, <2>1 DEF Typed, CallType
  <2>3. CallOK(call[u], cur[call[u].k], u)
    BY <1>1, <1>8, <2>1, <2>2 DEF CallsOK
  <2>4. call[u].k \in Cursors
    BY <2>3 DEF CallOK
  <2>5. PICK d : d = cur'[call[u].k]
    OBVIOUS
  <2>6. /\ d.at = cur[call[u].k].at /\ d.thread = cur[call[u].k].thread
        /\ d.closed = cur[call[u].k].closed /\ d.statement = cur[call[u].k].statement
    BY <1>1, <1>4, <1>5, <2>4, <2>5 DEF Typed
  <2>7. CallOK(m, d, u)
    BY <2>2, <2>3, <2>6 DEF CallOK
  <2> QED
    BY <2>1, <2>2, <2>5, <2>7
<1>9. CallsOK'
  BY <1>8 DEF CallsOK
<1> QED
  BY <1>1, <1>2, <1>4, <1>5, <1>7, <1>9, CursorStep, SameStmts, SilentHanded

LEMMA BeginFailsStep ==
  ASSUME IInv, NEW t \in Thread, NEW k \in Cursors, NEW op, BeginFails(t, k, op)
  PROVE  IInv'
<1>1. Typed /\ CursorsOK /\ CallsOK
  BY DEF IInv
<1>2. UNCHANGED <<jvm, cx, codes, names, stmts, call>> /\ Silent /\ Idle(t) /\ cur[k].thread = t
  BY DEF BeginFails, Usable, registry
<1>3. PICK c : c = Entered(k, op)
  OBVIOUS
<1>4. c \in CursorType /\ CursorOK(c, Len(stmts), jvm) /\ c.statement = cur[k].statement
  BY <1>1, <1>3, EnteredOK
<1>5. PICK new \in HalfFinished(k, c) : cur' = [cur EXCEPT ![k] = new]
  BY <1>3 DEF BeginFails
<1>6. new \in CursorType /\ CursorOK(new, Len(stmts), jvm) /\ new.statement = cur[k].statement
  BY <1>4, <1>5, HalfFinishedOK
<1>7. call' \in [Thread -> CallType] /\ CallsOK'
  BY <1>1, <1>2, <1>5, OwnedQuiet, CallsQuiet
<1> QED
  BY <1>1, <1>2, <1>5, <1>6, <1>7, CursorStep, SameStmts, SilentHanded

LEMMA CloseStep ==
  ASSUME IInv, NEW t \in Thread, NEW k \in Cursors, CursorClose(t, k) \/ CursorCloseFails(t, k)
  PROVE  IInv'
<1>1. Typed /\ CursorsOK /\ CallsOK /\ Len(stmts) \in Nat /\ jvm \in BOOLEAN /\ stmts \in Seq(StmtType)
  BY StmtAt DEF IInv, Typed
<1>2. /\ cur[k].at = "live" /\ \A u \in Thread : call[u].k # k
      /\ UNCHANGED <<jvm, cx, codes, names, call>> /\ Silent
  BY DEF CursorClose, CursorCloseFails, Closable, registry
<1>3. cur[k] \in CursorType /\ CursorOK(cur[k], Len(stmts), jvm)
  BY <1>1 DEF Typed, CursorsOK
<1>4. ASSUME NEW new, cur' = [cur EXCEPT ![k] = new]
      PROVE  call' \in [Thread -> CallType] /\ CallsOK'
  BY <1>1, <1>2, <1>4, CallsQuiet
<1>5. CASE CursorClose(t, k)
  <2>1. PICK f : f = Finished(Rest(k))
    OBVIOUS
  <2>2. PICK new : new = [f EXCEPT !.closed = TRUE]
    OBVIOUS
  <2>3. Rest(k) \in CursorType /\ Rest(k).at = "live" /\ Rest(k).cx \in Conn /\ Rest(k).thread \in Thread
    BY <1>1, <1>2, <1>3, RestOK DEF CursorOK
  <2>4. f \in CursorType /\ CursorOK(f, Len(stmts), jvm) /\ f.statement = None
    BY <1>1, <2>1, <2>3, FinishedOK
  <2>5. new \in CursorType /\ CursorOK(new, Len(stmts), jvm) /\ new.statement = None
    BY <2>2, <2>4 DEF CursorType, CursorOK
  <2>6. cur' = [cur EXCEPT ![k] = new] /\ stmts' = FinishedStmts(k)
    BY <1>5, <2>1, <2>2 DEF CursorClose
  <2>7. StmtsKept /\ (cur[k].statement # None => ~stmts'[cur[k].statement].open)
    BY <1>1, <1>3, <2>6, FinishStep DEF CursorOK
  <2> QED
    BY <1>2, <1>4, <2>5, <2>6, <2>7, CursorStep, SilentHanded
<1>6. CASE CursorCloseFails(t, k)
  <2>1. PICK new \in HalfFinished(k, cur[k]) : cur' = [cur EXCEPT ![k] = new]
    BY <1>6 DEF CursorCloseFails
  <2>2. new \in CursorType /\ CursorOK(new, Len(stmts), jvm) /\ new.statement = cur[k].statement
    BY <1>3, <2>1, HalfFinishedOK
  <2>3. UNCHANGED stmts
    BY <1>6 DEF CursorCloseFails
  <2> QED
    BY <1>1, <1>2, <1>4, <2>1, <2>2, <2>3, CursorStep, SameStmts, SilentHanded
<1> QED
  BY <1>5, <1>6

LEMMA DropStep ==
  ASSUME IInv, NEW k \in Cursors, CursorDrop(k) \/ CursorDel(k) \/ CursorDelFails(k)
  PROVE  IInv'
<1>1. /\ Typed /\ CursorsOK /\ CallsOK /\ Len(stmts) \in Nat /\ jvm \in BOOLEAN
      /\ stmts \in Seq(StmtType) /\ Held /\ Opened
  BY StmtAt DEF IInv, Typed
<1>2. UNCHANGED <<jvm, cx, codes, names, call>> /\ Silent
  BY DEF CursorDrop, CursorDel, CursorDelFails, registry
<1>3. cur[k] \in CursorType /\ CursorOK(cur[k], Len(stmts), jvm)
  BY <1>1 DEF Typed, CursorsOK
<1>4. \A u \in Thread : ~(call[u].pc # "idle" /\ call[u].k = k)
  <2>1. CASE CursorDrop(k)
    BY <2>1 DEF CursorDrop
  <2>2. CASE CursorDel(k) \/ CursorDelFails(k)
    BY <1>1, <2>2, Alone DEF CursorDel, CursorDelFails
  <2> QED
    BY <2>1, <2>2
<1>5. ASSUME NEW new, cur' = [cur EXCEPT ![k] = new]
      PROVE  call' \in [Thread -> CallType] /\ CallsOK'
  BY <1>1, <1>2, <1>4, <1>5, CallsQuiet
<1>6. NoCursor \in CursorType
  BY NoCursorOK
<1>7. CASE CursorDrop(k)
  <2>1. PICK r : r = Rest(k)
    OBVIOUS
  <2>2. PICK new : new = [r EXCEPT !.at = "dropped"]
    OBVIOUS
  <2>3. r \in CursorType /\ CursorOK(r, Len(stmts), FALSE) /\ r.statement = cur[k].statement
    BY <1>1, <2>1, RestOK
  <2>4. /\ new \in CursorType /\ new.statement = cur[k].statement /\ new.at = "dropped"
        /\ new.closed = r.closed /\ new.last = r.last /\ new.desc = r.desc /\ new.rs = r.rs
        /\ new.cols = r.cols /\ new.counted = r.counted
    BY <2>2, <2>3 DEF CursorType, States
  <2>5. CursorOK(new, Len(stmts), jvm)
    BY <2>3, <2>4 DEF CursorOK
  <2>6. cur' = [cur EXCEPT ![k] = new] /\ UNCHANGED stmts
    BY <1>7, <2>1, <2>2 DEF CursorDrop
  <2> QED
    BY <1>1, <1>2, <1>5, <2>4, <2>5, <2>6, CursorStep, SameStmts, SilentHanded
<1>8. CASE CursorDel(k)
  <2>1. PICK new : new = [NoCursor EXCEPT !.at = "gone"]
    OBVIOUS
  <2>2. /\ new \in CursorType /\ new.statement = 0 /\ new.at = "gone" /\ new.closed = FALSE
        /\ new.last = 0 /\ new.desc = 0 /\ new.rs = NoSet /\ new.counted = "never"
    BY <1>6, <2>1 DEF CursorType, States, NoCursor, None
  <2>3. CursorOK(new, Len(stmts), jvm)
    BY <1>1, <2>2 DEF CursorOK, None
  <2>4. cur' = [cur EXCEPT ![k] = new]
        /\ stmts' = IF jvm /\ ~cur[k].closed THEN FinishedStmts(k) ELSE stmts
    BY <1>8, <2>1 DEF CursorDel
  <2>5. StmtsKept /\ (cur[k].statement # None => ~stmts'[cur[k].statement].open)
    <3>1. CASE jvm /\ ~cur[k].closed
      BY <1>1, <1>3, <2>4, <3>1, FinishStep DEF CursorOK
    <3>2. CASE cur[k].closed
      <4>1. cur[k].statement = None /\ UNCHANGED stmts
        BY <1>3, <2>4, <3>2 DEF CursorOK
      <4> QED
        BY <1>1, <4>1, SameStmts
    <3>3. CASE ~jvm
      <4>1. UNCHANGED stmts /\ StmtsKept
        BY <1>1, <2>4, <3>3, SameStmts
      <4>2. \A s \in 1 .. Len(stmts) : stmts[s].cx \in Conn
        BY <1>1, StmtAt DEF StmtType
      <4>3. \A s \in 1 .. Len(stmts) : ~stmts[s].open
        BY <1>1, <3>3, <4>2 DEF Held, Opened
      <4>4. cur[k].statement # None => cur[k].statement \in 1 .. Len(stmts)
        BY <1>1, <1>3 DEF CursorOK, None
      <4> QED
        BY <4>1, <4>3, <4>4
    <3> QED
      BY <3>1, <3>2, <3>3
  <2> QED
    BY <1>2, <1>5, <2>2, <2>3, <2>4, <2>5, CursorStep, SilentHanded DEF None
<1>9. CASE CursorDelFails(k)
  <2>1. PICK new : new = [NoCursor EXCEPT !.at = "lost", !.statement = cur[k].statement]
    OBVIOUS
  <2>2. /\ new \in CursorType /\ new.statement = cur[k].statement /\ new.at = "lost"
        /\ new.closed = FALSE /\ new.last = 0 /\ new.desc = 0 /\ new.rs = NoSet
        /\ new.counted = "never"
    BY <1>3, <1>6, <2>1 DEF CursorType, States, NoCursor, None
  <2>3. CursorOK(new, Len(stmts), jvm)
    BY <1>3, <2>2 DEF CursorOK, None
  <2>4. cur' = [cur EXCEPT ![k] = new] /\ UNCHANGED stmts
    BY <1>9, <2>1 DEF CursorDelFails
  <2> QED
    BY <1>1, <1>2, <1>5, <2>2, <2>3, <2>4, CursorStep, SameStmts, SilentHanded
<1> QED
  BY <1>7, <1>8, <1>9

\* The description, the row ids and the iterator of a cursor.
LEMMA AskStep ==
  ASSUME IInv, NEW t \in Thread, NEW k \in Cursors,
         \/ IterBegin(t, k) \/ IterFails(t, k) \/ IterEnd(t, k) \/ Describe(t, k) \/ LastRowId(t, k)
  PROVE  IInv'
<1>1. Typed /\ CursorsOK /\ CallsOK /\ stmts \in Seq(StmtType) /\ Len(stmts) \in Nat
  BY StmtAt DEF IInv, Typed
<1>2. /\ Idle(t) /\ cur[k].thread = t /\ UNCHANGED <<jvm, cx, codes, names, call>> /\ Silent
  BY DEF IterBegin, IterFails, IterEnd, Describe, LastRowId, Owned, registry
<1>3. cur[k] \in CursorType /\ CursorOK(cur[k], Len(stmts), jvm)
  BY <1>1 DEF Typed, CursorsOK
<1>4. PICK iter \in BOOLEAN, desc \in {cur[k].desc, cur[k].statement},
           last \in {cur[k].last, cur[k].statement} :
             cur' = [cur EXCEPT ![k] = [cur[k] EXCEPT !.iter = iter, !.desc = desc, !.last = last]]
  <2>1. CASE IterBegin(t, k)
    <3>1. [cur[k] EXCEPT !.iter = TRUE]
          = [cur[k] EXCEPT !.iter = TRUE, !.desc = cur[k].desc, !.last = cur[k].last]
      BY <1>3 DEF CursorType
    <3> QED
      BY <2>1, <3>1 DEF IterBegin
  <2>2. CASE IterFails(t, k) \/ IterEnd(t, k)
    <3>1. [cur[k] EXCEPT !.iter = FALSE]
          = [cur[k] EXCEPT !.iter = FALSE, !.desc = cur[k].desc, !.last = cur[k].last]
      BY <1>3 DEF CursorType
    <3> QED
      BY <2>2, <3>1 DEF IterFails, IterEnd
  <2>3. CASE Describe(t, k)
    <3>1. [cur[k] EXCEPT !.desc = cur[k].statement]
          = [cur[k] EXCEPT !.iter = cur[k].iter, !.desc = cur[k].statement, !.last = cur[k].last]
      BY <1>3 DEF CursorType
    <3>2. cur[k].iter \in BOOLEAN
      BY <1>3 DEF CursorType
    <3> QED
      BY <2>3, <3>1, <3>2 DEF Describe
  <2>4. CASE LastRowId(t, k)
    <3>1. [cur[k] EXCEPT !.last = cur[k].statement]
          = [cur[k] EXCEPT !.iter = cur[k].iter, !.desc = cur[k].desc, !.last = cur[k].statement]
      BY <1>3 DEF CursorType
    <3>2. cur[k].iter \in BOOLEAN
      BY <1>3 DEF CursorType
    <3> QED
      BY <2>4, <3>1, <3>2 DEF LastRowId
  <2> QED
    BY <2>1, <2>2, <2>3, <2>4
<1>5. PICK new : new = [cur[k] EXCEPT !.iter = iter, !.desc = desc, !.last = last]
  OBVIOUS
<1>6. /\ new \in CursorType /\ new.at = cur[k].at /\ new.cx = cur[k].cx /\ new.thread = cur[k].thread
      /\ new.closed = cur[k].closed /\ new.statement = cur[k].statement /\ new.cause = cur[k].cause
      /\ new.rs = cur[k].rs /\ new.cols = cur[k].cols /\ new.counted = cur[k].counted
      /\ new.desc = desc /\ new.last = last
  BY <1>3, <1>5 DEF CursorType
<1>7. CursorOK(new, Len(stmts), jvm)
  BY <1>3, <1>6 DEF CursorOK
<1>8. call' \in [Thread -> CallType] /\ CallsOK'
  <2>1. cur' = [cur EXCEPT ![k] = new]
    BY <1>4, <1>5
  <2> QED
    BY <1>1, <1>2, <2>1, OwnedQuiet, CallsQuiet
<1>9. StmtsKept
  <2>1. CASE IterFails(t, k)
    <3>1. stmts' = Advanced(cur[k].rs) /\ cur[k].rs # NoSet
      BY <2>1 DEF IterFails, Readable
    <3>2. cur[k].rs[1] \in 1 .. Len(stmts)
      BY <1>1, <1>3, <3>1 DEF CursorOK, CursorType, Sets
    <3> QED
      BY <1>1, <3>1, <3>2, AdvancedStep
  <2>2. CASE IterBegin(t, k) \/ IterEnd(t, k) \/ Describe(t, k) \/ LastRowId(t, k)
    BY <1>1, <2>2, SameStmts DEF IterBegin, IterEnd, Describe, LastRowId
  <2> QED
    BY <2>1, <2>2
<1> QED
  BY <1>2, <1>4, <1>5, <1>6, <1>7, <1>8, <1>9, CursorStep, SilentHanded

-------------------------------------------------------------------------------
\* Fetching.  The column types that a row is read with are those of its set,
\* when the column count is.
LEMMA ColumnsOK ==
  ASSUME NEW k \in Cursors, cur[k] \in CursorType, CursorOK(cur[k], Len(stmts), jvm), NEW given
  PROVE  /\ ColumnTypes(k, given) \in Sets
         /\ cur[k].counted = "own" => ColumnTypes(k, given) = cur[k].rs
BY DEF CursorType, CursorOK, ColumnTypes

LEMMA WithColumns ==
  ASSUME NEW c \in CursorType, NEW n, NEW running, CursorOK(c, n, running), NEW cols \in Sets,
         c.counted = "own" => cols = c.rs, NEW new, new = [c EXCEPT !.cols = cols]
  PROVE  /\ new \in CursorType /\ CursorOK(new, n, running) /\ new.statement = c.statement
         /\ new.at = c.at /\ new.thread = c.thread /\ new.closed = c.closed
<1>1. /\ new \in CursorType /\ new.at = c.at /\ new.cx = c.cx /\ new.thread = c.thread
      /\ new.closed = c.closed /\ new.statement = c.statement /\ new.cause = c.cause
      /\ new.rs = c.rs /\ new.counted = c.counted /\ new.cols = cols /\ new.desc = c.desc
      /\ new.last = c.last
  BY DEF CursorType
<1>2. CursorOK(new, n, running)
  BY <1>1 DEF CursorOK
<1> QED
  BY <1>1, <1>2

\* A row is read, or passed over.
LEMMA RowStep ==
  ASSUME IInv, NEW k \in Cursors, NEW given, cur[k].at = "live", ReadRow(k, given) \/ SkipRow(k, given)
  PROVE  /\ StmtsKept /\ Handed'
         /\ \E new \in CursorType :
              /\ cur' = [cur EXCEPT ![k] = new] /\ CursorOK(new, Len(stmts), jvm)
              /\ new.statement = cur[k].statement /\ new.at = cur[k].at /\ new.thread = cur[k].thread
              /\ new.closed = cur[k].closed
<1>1. Typed /\ stmts \in Seq(StmtType) /\ Len(stmts) \in Nat /\ Held /\ Opened
  BY StmtAt DEF IInv, Typed
<1>2. cur[k] \in CursorType /\ CursorOK(cur[k], Len(stmts), jvm)
  BY DEF IInv, Typed, CursorsOK
<1>3. PICK cols : cols = ColumnTypes(k, given)
  OBVIOUS
<1>4. cur[k].rs # NoSet /\ stmts[cur[k].rs[1]].open /\ stmts' = Advanced(cur[k].rs)
  BY DEF ReadRow, SkipRow, Readable
<1>5. cols \in Sets /\ (cur[k].counted = "own" => cols = cur[k].rs)
  BY <1>2, <1>3, ColumnsOK
<1>6. cur[k].rs[1] \in 1 .. Len(stmts) /\ cur[k].rs[1] = cur[k].statement
  BY <1>1, <1>2, <1>4 DEF CursorOK, CursorType, Sets
<1>7. StmtsKept
  BY <1>1, <1>4, <1>6, AdvancedStep
<1>8. jvm
  <2>1. stmts[cur[k].rs[1]].cx \in Conn
    BY <1>1, <1>6, StmtAt DEF StmtType
  <2> QED
    BY <1>1, <1>4, <1>6, <2>1 DEF Held, Opened
<1>9. Handed'
  <2>1. CASE ReadRow(k, given)
    <3>1. /\ got' = [set |-> cur[k].rs, cause |-> cur[k].cause, types |-> cols,
                     counted |-> cur[k].counted = "own"]
          /\ bound' = NoBind
      BY <1>3, <2>1 DEF ReadRow
    <3>2. got'.set = cur[k].rs /\ got'.cause = cur[k].cause /\ got'.types = cols
      BY <3>1
    <3>3. cur[k].rs[1] = cur[k].cause
      BY <1>2, <1>6, <1>8 DEF CursorOK
    <3>4. got'.counted => got'.types = got'.set
      <4>1. got'.counted = (cur[k].counted = "own")
        BY <3>1
      <4> QED
        BY <1>5, <3>2, <4>1
    <3>5. bound'.from = NoTypes /\ bound'.asked = NoTypes
      BY <3>1 DEF NoBind
    <3> QED
      BY <3>2, <3>3, <3>4, <3>5 DEF Handed, Proper, NoTypes, Given
  <2>2. CASE SkipRow(k, given)
    BY <2>2, SilentHanded DEF SkipRow
  <2> QED
    BY <2>1, <2>2
<1>10. PICK new : cur' = [cur EXCEPT ![k] = new] /\ (new = cur[k] \/ new = [cur[k] EXCEPT !.cols = cols])
  <2>1. cur = [cur EXCEPT ![k] = cur[k]]
    BY <1>1 DEF Typed
  <2>2. cur' = cur \/ cur' = [cur EXCEPT ![k].cols = cols]
    BY <1>3 DEF ReadRow, SkipRow
  <2> QED
    BY <2>1, <2>2
<1>11. /\ new \in CursorType /\ CursorOK(new, Len(stmts), jvm)
       /\ new.statement = cur[k].statement /\ new.at = cur[k].at /\ new.thread = cur[k].thread
       /\ new.closed = cur[k].closed
  BY <1>2, <1>5, <1>10, WithColumns
<1> QED
  BY <1>7, <1>9, <1>10, <1>11

LEMMA IterNextStep ==
  ASSUME IInv, NEW t \in Thread, NEW k \in Cursors, IterNext(t, k)
  PROVE  IInv'
<1>1. Typed /\ CallsOK
  BY DEF IInv
<1>2. /\ Idle(t) /\ cur[k].at = "live" /\ cur[k].thread = t /\ UNCHANGED <<jvm, cx, codes, names, call>>
      /\ ReadRow(k, FALSE)
  BY DEF IterNext, Owned, registry
<1>3. StmtsKept /\ Handed'
  BY <1>2, RowStep
<1>4. PICK new \in CursorType :
         /\ cur' = [cur EXCEPT ![k] = new] /\ CursorOK(new, Len(stmts), jvm)
         /\ new.statement = cur[k].statement
  BY <1>2, RowStep
<1>5. call' \in [Thread -> CallType] /\ CallsOK'
  BY <1>1, <1>2, <1>4, OwnedQuiet, CallsQuiet
<1> QED
  BY <1>2, <1>3, <1>4, <1>5, CursorStep

LEMMA NoCallType == NoCall \in CallType /\ NoCall.pc = "idle"
BY DEF NoCall, CallType, Points, NoTypes

\* The cursor and the call of a thread that is in one.
LEMMA InTheCall ==
  ASSUME IInv, NEW t \in Thread, call[t].pc # "idle"
  PROVE  /\ call[t] \in CallType /\ CallOK(call[t], cur[call[t].k], t) /\ call[t].k \in Cursors
         /\ cur[call[t].k] \in CursorType /\ CursorOK(cur[call[t].k], Len(stmts), jvm)
         /\ Typed /\ CallsOK /\ stmts \in Seq(StmtType) /\ Len(stmts) \in Nat
<1>1. Typed /\ CallsOK /\ CursorsOK /\ stmts \in Seq(StmtType)
  BY DEF IInv, Typed
<1>2. call[t] \in CallType /\ CallOK(call[t], cur[call[t].k], t)
  BY <1>1 DEF Typed, CallsOK
<1>3. call[t].k \in Cursors
  BY <1>2 DEF CallOK
<1> QED
  BY <1>1, <1>2, <1>3, StmtAt DEF Typed, CursorsOK

LEMMA FetchStep ==
  ASSUME IInv, NEW t \in Thread, FetchNext(t) \/ FetchFails(t)
  PROVE  IInv'
<1>1. call[t].pc = "fetch" /\ UNCHANGED <<jvm, cx, codes, names>>
  BY DEF FetchNext, FetchFails, registry
<1>2. PICK k \in Cursors : k = call[t].k
  BY <1>1, InTheCall
<1>3. /\ call[t] \in CallType /\ CallOK(call[t], cur[k], t) /\ Typed /\ CallsOK
  BY <1>1, <1>2, InTheCall
<1>4. \E given : ReadRow(k, given) \/ SkipRow(k, given)
  BY <1>2 DEF FetchNext, FetchFails
<1>5. cur[k].at = "live" /\ cur[k].thread = t /\ ~cur[k].closed
  BY <1>3 DEF CallOK
<1>6. StmtsKept /\ Handed'
  BY <1>4, <1>5, RowStep
<1>7. PICK new \in CursorType :
         /\ cur' = [cur EXCEPT ![k] = new] /\ CursorOK(new, Len(stmts), jvm)
         /\ new.statement = cur[k].statement /\ new.at = cur[k].at /\ new.thread = cur[k].thread
         /\ new.closed = cur[k].closed
  BY <1>4, <1>5, RowStep
<1>8. PICK m : call' = [call EXCEPT ![t] = m] /\ (m = NoCall \/ m = [call[t] EXCEPT !.rows = @ - 1])
  <2>1. CASE FetchNext(t)
    <3>1. PICK less : less = [call[t] EXCEPT !.rows = @ - 1]
      OBVIOUS
    <3>2. call' = [call EXCEPT ![t] = IF call[t].rows = 1 THEN NoCall ELSE less]
      BY <2>1, <3>1 DEF FetchNext
    <3> QED
      BY <3>1, <3>2
  <2>2. CASE FetchFails(t)
    BY <2>2 DEF FetchFails, Return
  <2> QED
    BY <2>1, <2>2
<1>9. m \in CallType /\ (m.pc # "idle" => m.k = k /\ CallOK(m, new, t))
  <2>1. CASE m = NoCall
    BY <2>1, NoCallType
  <2>2. CASE m = [call[t] EXCEPT !.rows = @ - 1]
    <3>1. PICK n \in Int : n = call[t].rows - 1
      BY <1>3 DEF CallType
    <3>2. m = [call[t] EXCEPT !.rows = n]
      BY <2>2, <3>1
    <3>3. m \in CallType /\ m.pc = "fetch" /\ m.k = k
      BY <1>1, <1>2, <1>3, <3>2 DEF CallType
    <3> QED
      BY <1>5, <1>7, <3>3 DEF CallOK
  <2> QED
    BY <1>8, <2>1, <2>2
<1>10. call' \in [Thread -> CallType] /\ CallsOK'
  BY <1>3, <1>5, <1>7, <1>8, <1>9, CallsStep
<1> QED
  BY <1>1, <1>6, <1>7, <1>10, CursorStep

LEMMA FetchBeginStep ==
  ASSUME IInv, NEW t \in Thread, NEW k \in Cursors, NEW n \in 1 .. 2, NEW given \in BOOLEAN,
         FetchBegin(t, k, n, given)
  PROVE  IInv'
<1>1. Typed /\ CallsOK /\ cur[k] \in CursorType /\ CursorOK(cur[k], Len(stmts), jvm)
  BY DEF IInv, Typed, CursorsOK
<1>2. /\ cur[k].at = "live" /\ cur[k].thread = t /\ ~cur[k].closed /\ cur[k].rs # NoSet
      /\ UNCHANGED <<jvm, cx, codes, names, stmts>> /\ Silent
  BY DEF FetchBegin, Owned, Executed, Usable, registry
<1>3. PICK cols : cols = ColumnTypes(k, TRUE)
  OBVIOUS
<1>4. cols \in Sets /\ (cur[k].counted = "own" => cols = cur[k].rs)
  BY <1>1, <1>3, ColumnsOK
<1>5. PICK new : cur' = [cur EXCEPT ![k] = new] /\ (new = cur[k] \/ new = [cur[k] EXCEPT !.cols = cols])
  <2>1. cur = [cur EXCEPT ![k] = cur[k]]
    BY <1>1 DEF Typed
  <2>2. cur' = cur \/ cur' = [cur EXCEPT ![k].cols = cols]
    BY <1>3 DEF FetchBegin
  <2> QED
    BY <2>1, <2>2
<1>6. /\ new \in CursorType /\ CursorOK(new, Len(stmts), jvm)
      /\ new.statement = cur[k].statement /\ new.at = "live" /\ new.thread = t /\ ~new.closed
  BY <1>1, <1>2, <1>4, <1>5, WithColumns
<1>7. PICK op \in {"given", "fetch"} : op = IF given /\ n = 1 THEN "given" ELSE "fetch"
  OBVIOUS
<1>8. PICK m : m = [NoCall EXCEPT !.pc = "fetch", !.k = k, !.rows = n, !.op = op]
  OBVIOUS
<1>9. m \in CallType /\ m.pc = "fetch" /\ m.k = k
  <2>1. n \in Int /\ op \in {"none", "one", "many", "call", "fetch", "given"}
    OBVIOUS
  <2> QED
    BY <1>8, <2>1, NoCallType DEF CallType, Points
<1>10. call' = [call EXCEPT ![t] = m]
  BY <1>7, <1>8 DEF FetchBegin
<1>11. CallOK(m, new, t)
  BY <1>6, <1>9 DEF CallOK
<1>12. call' \in [Thread -> CallType] /\ CallsOK'
  BY <1>1, <1>2, <1>5, <1>9, <1>10, <1>11, CallsStep
<1> QED
  BY <1>1, <1>2, <1>5, <1>6, <1>12, CursorStep, SameStmts, SilentHanded

-------------------------------------------------------------------------------
\* Running a statement.
LEMMA CountType ==
  ASSUME stmts \in Seq(StmtType), NEW s \in 1 .. Len(stmts), NEW p \in Nat \ {0}
  PROVE  UpdateCount(s, p) \in Nat \cup {-1}
<1>1. stmts[s].q \in Query \cup {NoQuery}
  BY StmtAt DEF StmtType
<1>2. PICK q \in Query \cup {NoQuery} : q = stmts[s].q
  BY <1>1
<1>3. UpdateCount(s, p) = IF p <= Len(q.results) THEN q.results[p].count ELSE -1
  BY <1>2 DEF UpdateCount
<1>4. CASE q \in Query
  <2>1. p <= Len(q.results) => q.results[p].count \in Nat \cup {-1}
    BY <1>4, QueryAssumption
  <2> QED
    BY <1>3, <2>1
<1>5. CASE q = NoQuery
  <2>1. Len(q.results) = 0
    BY <1>5 DEF NoQuery
  <2> QED
    BY <1>3, <2>1
<1> QED
  BY <1>4, <1>5

LEMMA KnownType == ASSUME NEW sum \in Int PROVE Known(sum) \in Nat \cup {-1}
BY DEF Known

LEMMA WithRowcount ==
  ASSUME NEW c \in CursorType, NEW n, NEW running, CursorOK(c, n, running),
         NEW count \in Nat \cup {-1}, NEW new, new = [c EXCEPT !.rowcount = count]
  PROVE  /\ new \in CursorType /\ CursorOK(new, n, running) /\ new.statement = c.statement
         /\ new.at = c.at /\ new.thread = c.thread /\ new.closed = c.closed
<1>1. /\ new \in CursorType /\ new.at = c.at /\ new.cx = c.cx /\ new.thread = c.thread
      /\ new.closed = c.closed /\ new.statement = c.statement /\ new.cause = c.cause
      /\ new.rs = c.rs /\ new.counted = c.counted /\ new.cols = c.cols /\ new.desc = c.desc
      /\ new.last = c.last
  BY DEF CursorType
<1>2. CursorOK(new, n, running)
  BY <1>1 DEF CursorOK
<1> QED
  BY <1>1, <1>2

\* The cursor gets result p of its statement, wherever _onResultSet ends.
LEMMA ResultSetOK ==
  ASSUME Typed, NEW c \in CursorType, NEW running, CursorOK(c, Len(stmts), running),
         NEW s \in 1 .. Len(stmts), c.statement = s, NEW p \in Nat \ {0},
         NEW new, new = OnResultSet(c, s, p) \/ new \in Interrupted(c, s, p)
  PROVE  /\ new \in CursorType /\ CursorOK(new, Len(stmts), running) /\ new.statement = c.statement
         /\ new.at = c.at /\ new.thread = c.thread /\ new.closed = c.closed
<1>1. PICK set : set = <<s, p>>
  OBVIOUS
<1>2. set \in Sets /\ set[1] = s
  <2>1. Len(stmts) \in Nat /\ Len(stmts) <= MaxStmt /\ MaxStmt \in Nat
    BY StmtAt, BoundAssumption DEF Typed
  <2>2. s \in 1 .. MaxStmt
    BY <2>1
  <2> QED
    BY <1>1, <2>2 DEF Sets
<1>3. NoSet \in Sets
  BY DEF Sets
<1>4. PICK old \in {"never", "earlier"} : old = Outdated(c.counted)
  BY OutdatedType DEF CursorType
<1>5. \/ new = c
      \/ new = [c EXCEPT !.rs = set, !.counted = old]
      \/ new = [c EXCEPT !.rs = set, !.counted = "own", !.cols = NoSet]
  BY <1>1, <1>4 DEF OnResultSet, Interrupted
<1>6. CASE new = [c EXCEPT !.rs = set, !.counted = old]
  <2>1. /\ new \in CursorType /\ new.at = c.at /\ new.cx = c.cx /\ new.thread = c.thread
        /\ new.closed = c.closed /\ new.statement = c.statement /\ new.cause = c.cause
        /\ new.rs = set /\ new.counted = old /\ new.desc = c.desc /\ new.last = c.last
    BY <1>2, <1>6 DEF CursorType
  <2>2. CursorOK(new, Len(stmts), running)
    BY <1>2, <2>1 DEF CursorOK
  <2> QED
    BY <2>1, <2>2
<1>7. CASE new = [c EXCEPT !.rs = set, !.counted = "own", !.cols = NoSet]
  <2>1. /\ new \in CursorType /\ new.at = c.at /\ new.cx = c.cx /\ new.thread = c.thread
        /\ new.closed = c.closed /\ new.statement = c.statement /\ new.cause = c.cause
        /\ new.rs = set /\ new.cols = NoSet /\ new.desc = c.desc /\ new.last = c.last
    BY <1>2, <1>3, <1>7 DEF CursorType
  <2>2. CursorOK(new, Len(stmts), running)
    BY <1>2, <2>1 DEF CursorOK
  <2> QED
    BY <2>1, <2>2
<1> QED
  BY <1>5, <1>6, <1>7

LEMMA NextSetStep ==
  ASSUME IInv, NEW t \in Thread, NEW k \in Cursors,
         NextSet(t, k) \/ NextSetFails(t, k)
  PROVE  IInv'
<1>1. Typed /\ CallsOK /\ stmts \in Seq(StmtType) /\ Len(stmts) \in Nat
  BY StmtAt DEF IInv, Typed
<1>2. cur[k] \in CursorType /\ CursorOK(cur[k], Len(stmts), jvm)
  BY DEF IInv, Typed, CursorsOK
<1>3. /\ Idle(t) /\ cur[k].thread = t /\ cur[k].rs # NoSet
      /\ UNCHANGED <<jvm, cx, codes, names, call>> /\ Silent
  BY DEF NextSet, NextSetFails, Owned, registry
<1>4. PICK s \in 1 .. Len(stmts) : s = cur[k].statement
  BY <1>1, <1>2, <1>3 DEF CursorOK, CursorType, Sets
<1>5. PICK p \in Nat \ {0} : p = stmts[s].pos + 1
  BY <1>1, StmtAt DEF StmtType
<1>6. stmts' = Moved(s, p)
  BY <1>4, <1>5 DEF NextSet, NextSetFails
<1>7. PICK new : /\ cur' = [cur EXCEPT ![k] = new]
                 /\ \/ new = OnResultSet(cur[k], s, p) \/ new \in Interrupted(cur[k], s, p)
                    \/ new = [cur[k] EXCEPT !.rowcount = UpdateCount(s, p)]
  <2>1. PICK shown, counted : /\ shown = OnResultSet(cur[k], s, p)
                              /\ counted = [cur[k] EXCEPT !.rowcount = UpdateCount(s, p)]
    OBVIOUS
  <2>2. CASE NextSet(t, k)
    <3>1. cur' = [cur EXCEPT ![k] = IF Moved(s, p)[s].reading THEN shown ELSE counted]
      BY <1>4, <1>5, <2>1, <2>2 DEF NextSet
    <3> QED
      BY <2>1, <3>1
  <2>3. CASE NextSetFails(t, k)
    BY <1>4, <1>5, <2>3 DEF NextSetFails
  <2> QED
    BY <2>2, <2>3
<1>8. new \in CursorType /\ CursorOK(new, Len(stmts), jvm) /\ new.statement = cur[k].statement
  <2>1. UpdateCount(s, p) \in Nat \cup {-1}
    BY <1>1, CountType
  <2>2. CASE new = OnResultSet(cur[k], s, p) \/ new \in Interrupted(cur[k], s, p)
    BY <1>1, <1>2, <1>4, <2>2, ResultSetOK
  <2>3. CASE new = [cur[k] EXCEPT !.rowcount = UpdateCount(s, p)]
    BY <1>2, <2>1, <2>3, WithRowcount
  <2> QED
    BY <1>7, <2>2, <2>3
<1>9. StmtsKept
  BY <1>1, <1>6, MovedStep
<1>10. call' \in [Thread -> CallType] /\ CallsOK'
  BY <1>1, <1>3, <1>7, OwnedQuiet, CallsQuiet
<1> QED
  BY <1>3, <1>7, <1>8, <1>9, <1>10, CursorStep, SilentHanded

LEMMA RunStep ==
  ASSUME IInv, NEW t \in Thread, Run(t)
  PROVE  IInv'
<1>1. call[t].pc = "run" /\ UNCHANGED <<jvm, cx, codes, names>> /\ Silent
  BY DEF Run, registry
<1>2. PICK k \in Cursors : k = call[t].k
  BY <1>1, InTheCall
<1>3. /\ call[t] \in CallType /\ CallOK(call[t], cur[k], t) /\ Typed /\ CallsOK
      /\ cur[k] \in CursorType /\ CursorOK(cur[k], Len(stmts), jvm)
      /\ stmts \in Seq(StmtType) /\ Len(stmts) \in Nat
  BY <1>1, <1>2, InTheCall
<1>4. /\ cur[k].at = "live" /\ cur[k].thread = t /\ ~cur[k].closed /\ cur[k].statement # None
      /\ call[t].disturbed \/ call[t].ptypes \in Proper(call[t].types, cur[k].statement)
  BY <1>1, <1>3 DEF CallOK
<1>5. PICK s \in 1 .. Len(stmts) : s = cur[k].statement
  BY <1>3, <1>4 DEF CursorOK, None
<1>6. stmts' = Moved(s, 1)
  BY <1>2, <1>5 DEF Run
<1>7. PICK count \in Nat \cup {-1} : count = UpdateCount(s, 1)
  BY <1>3, CountType
<1>8. PICK sum \in Int : sum = call[t].sum + count
  BY <1>3 DEF CallType
<1>9. PICK base : /\ base = cur[k] \/ base = OnResultSet(cur[k], s, 1)
                  /\ Shown(cur[k], s, 1) = [base EXCEPT !.rowcount = count]
  <2>1. PICK new : new = OnResultSet(cur[k], s, 1)
    OBVIOUS
  <2>2. Shown(cur[k], s, 1) = [IF stmts[s].q.results[1].rows = -1 THEN cur[k] ELSE new
                                 EXCEPT !.rowcount = count]
    BY <1>7, <2>1 DEF Shown
  <2> QED
    BY <2>1, <2>2
<1>10. /\ base \in CursorType /\ CursorOK(base, Len(stmts), jvm) /\ base.statement = cur[k].statement
       /\ base.at = "live" /\ base.thread = t /\ ~base.closed
  <2>1. CASE base = cur[k]
    BY <1>3, <1>4, <2>1
  <2>2. CASE base = OnResultSet(cur[k], s, 1)
    <3>1. 1 \in Nat \ {0} /\ cur[k].statement = s
      BY <1>5
    <3>2. /\ base \in CursorType /\ CursorOK(base, Len(stmts), jvm)
          /\ base.statement = cur[k].statement /\ base.at = cur[k].at
          /\ base.thread = cur[k].thread /\ base.closed = cur[k].closed
      BY <1>3, <2>2, <3>1, ResultSetOK
    <3> QED
      BY <1>4, <3>2
  <2> QED
    BY <1>9, <2>1, <2>2
<1>11. PICK shown : shown = Shown(cur[k], s, 1)
  OBVIOUS
<1>12. /\ shown \in CursorType /\ CursorOK(shown, Len(stmts), jvm)
       /\ shown.statement = cur[k].statement /\ shown.at = "live" /\ shown.thread = t
       /\ ~shown.closed
  BY <1>9, <1>10, <1>11, WithRowcount
<1>13. PICK total \in Nat \cup {-1} :
         total = IF call[t].op = "many" /\ call[t].rows = 0 THEN Known(sum) ELSE shown.rowcount
  BY <1>12, KnownType DEF CursorType
<1>14. PICK new : new = [shown EXCEPT !.rowcount = total]
  OBVIOUS
<1>15. /\ new \in CursorType /\ CursorOK(new, Len(stmts), jvm)
       /\ new.statement = cur[k].statement /\ new.at = "live" /\ new.thread = t
       /\ ~new.closed
  BY <1>12, <1>14, WithRowcount
<1>16. cur' = [cur EXCEPT ![k] = new]
  BY <1>2, <1>5, <1>7, <1>8, <1>11, <1>13, <1>14 DEF Run
<1>17. PICK m : call' = [call EXCEPT ![t] = m]
                /\ (m = NoCall \/ m = [call[t] EXCEPT !.pc = "bind", !.sum = sum])
  <2>1. PICK next : next = [call[t] EXCEPT !.pc = "bind", !.sum = sum]
    OBVIOUS
  <2>2. call' = [call EXCEPT ![t] = IF call[t].op = "many" /\ call[t].rows > 0 THEN next ELSE NoCall]
    BY <1>2, <1>5, <1>7, <1>8, <2>1 DEF Run
  <2> QED
    BY <2>1, <2>2
<1>18. m \in CallType /\ (m.pc # "idle" => m.k = k /\ CallOK(m, new, t))
  <2>1. CASE m = NoCall
    BY <2>1, NoCallType
  <2>2. CASE m = [call[t] EXCEPT !.pc = "bind", !.sum = sum]
    <3>1. /\ m \in CallType /\ m.pc = "bind" /\ m.k = k /\ m.types = call[t].types
          /\ m.ptypes = call[t].ptypes /\ m.disturbed = call[t].disturbed
      BY <1>2, <1>3, <2>2 DEF CallType, Points
    <3> QED
      BY <1>4, <1>15, <3>1 DEF CallOK
  <2> QED
    BY <1>17, <2>1, <2>2
<1>19. call' \in [Thread -> CallType] /\ CallsOK'
  BY <1>3, <1>4, <1>16, <1>17, <1>18, CallsStep
<1>20. StmtsKept
  BY <1>3, <1>6, MovedStep
<1> QED
  BY <1>1, <1>15, <1>16, <1>19, <1>20, CursorStep, SilentHanded

LEMMA RunFailsStep ==
  ASSUME IInv, NEW t \in Thread, RunFails(t)
  PROVE  IInv'
<1>1. /\ call[t].pc = "run" /\ call' = [call EXCEPT ![t] = NoCall]
      /\ UNCHANGED <<jvm, cx, codes, names>> /\ Silent
  BY DEF RunFails, Return, registry
<1>2. PICK k \in Cursors : k = call[t].k
  BY <1>1, InTheCall
<1>3. /\ CallOK(call[t], cur[k], t) /\ Typed /\ CallsOK
      /\ cur[k] \in CursorType /\ CursorOK(cur[k], Len(stmts), jvm)
      /\ stmts \in Seq(StmtType) /\ Len(stmts) \in Nat
  BY <1>1, <1>2, InTheCall
<1>4. cur[k].thread = t /\ cur[k].statement # None
  BY <1>1, <1>3 DEF CallOK
<1>5. PICK s \in 1 .. Len(stmts) : s = cur[k].statement
  BY <1>3, <1>4 DEF CursorOK, None
<1>6. stmts' = Moved(s, 1)
  BY <1>2, <1>5 DEF RunFails
<1>7. PICK new \in Interrupted(cur[k], s, 1) : cur' = [cur EXCEPT ![k] = new]
  BY <1>2, <1>5 DEF RunFails
<1>8. new \in CursorType /\ CursorOK(new, Len(stmts), jvm) /\ new.statement = cur[k].statement
  <2>1. PICK p \in Nat \ {0} : p = 1
    OBVIOUS
  <2>2. cur[k].statement = s /\ new \in Interrupted(cur[k], s, p)
    BY <1>5, <1>7, <2>1
  <2>3. s \in 1 .. Len(stmts) /\ p \in Nat \ {0}
    OBVIOUS
  <2> QED
    BY ONLY <1>3, <2>2, <2>3, ResultSetOK, SMTT(30)
<1>9. call' \in [Thread -> CallType] /\ CallsOK'
  BY <1>1, <1>3, <1>4, <1>7, NoCallType, CallsStep
<1>10. StmtsKept
  BY <1>3, <1>6, MovedStep
<1> QED
  BY <1>1, <1>7, <1>8, <1>9, <1>10, CursorStep, SilentHanded

LEMMA RunBatchStep ==
  ASSUME IInv, NEW t \in Thread, RunBatch(t)
  PROVE  IInv'
<1>1. /\ call[t].pc = "batch" /\ call' = [call EXCEPT ![t] = NoCall]
      /\ UNCHANGED <<jvm, cx, codes, names, stmts>> /\ Silent
  BY DEF RunBatch, Return, registry
<1>2. PICK k \in Cursors : k = call[t].k
  BY <1>1, InTheCall
<1>3. /\ call[t] \in CallType /\ CallOK(call[t], cur[k], t) /\ Typed /\ CallsOK
      /\ cur[k] \in CursorType /\ CursorOK(cur[k], Len(stmts), jvm)
      /\ stmts \in Seq(StmtType) /\ Len(stmts) \in Nat
  BY <1>1, <1>2, InTheCall
<1>4. cur[k].thread = t /\ cur[k].statement # None
  BY <1>1, <1>3 DEF CallOK
<1>5. PICK s \in 1 .. Len(stmts) : s = cur[k].statement
  BY <1>3, <1>4 DEF CursorOK, None
<1>6. PICK n \in Nat \cup {-1} : n = UpdateCount(s, 1)
  BY <1>3, CountType
<1>7. PICK sum \in Int : sum = call[t].sum
  BY <1>3 DEF CallType
<1>8. PICK unknown \in 0 .. sum :
        cur' = [cur EXCEPT ![k].rowcount = Known((sum - unknown) * n - 2 * unknown)]
  BY <1>2, <1>5, <1>6, <1>7 DEF RunBatch
<1>9. PICK total \in Int : total = (sum - unknown) * n - 2 * unknown
  OBVIOUS
<1>10. PICK count \in Nat \cup {-1} : count = Known(total)
  BY KnownType
<1>11. PICK new : new = [cur[k] EXCEPT !.rowcount = count]
  OBVIOUS
<1>12. cur' = [cur EXCEPT ![k] = new]
  <2>1. cur' = [cur EXCEPT ![k].rowcount = count]
    BY <1>8, <1>9, <1>10
  <2> QED
    BY <1>11, <2>1
<1>13. new \in CursorType /\ CursorOK(new, Len(stmts), jvm) /\ new.statement = cur[k].statement
  <2>1. PICK c : c = cur[k]
    OBVIOUS
  <2>2. c \in CursorType /\ CursorOK(c, Len(stmts), jvm) /\ new = [c EXCEPT !.rowcount = count]
    BY <1>3, <1>11, <2>1
  <2>3. new \in CursorType /\ CursorOK(new, Len(stmts), jvm) /\ new.statement = c.statement
    BY <2>2, WithRowcount
  <2> QED
    BY <2>1, <2>3
<1>14. call' \in [Thread -> CallType] /\ CallsOK'
  BY <1>1, <1>3, <1>4, <1>12, NoCallType, CallsStep
<1> QED
  BY <1>1, <1>3, <1>12, <1>13, <1>14, CursorStep, SameStmts, SilentHanded

LEMMA RaiseStep ==
  ASSUME IInv, NEW t \in Thread, Raise(t)
  PROVE  IInv'
<1>1. /\ call[t].pc # "idle" /\ call' = [call EXCEPT ![t] = NoCall]
      /\ UNCHANGED <<jvm, cx, codes, names, stmts, cur>> /\ Silent
  BY DEF Raise, Return, Idle, registry
<1>2. PICK k \in Cursors : k = call[t].k
  BY <1>1, InTheCall
<1>3. /\ CallOK(call[t], cur[k], t) /\ Typed /\ CallsOK
      /\ cur[k] \in CursorType /\ CursorOK(cur[k], Len(stmts), jvm)
  BY <1>1, <1>2, InTheCall
<1>4. cur' = [cur EXCEPT ![k] = cur[k]]
  BY <1>1, <1>3 DEF Typed
<1>5. cur[k].thread = t
  BY <1>3 DEF CallOK
<1>6. call' \in [Thread -> CallType] /\ CallsOK'
  BY <1>1, <1>3, <1>4, <1>5, NoCallType, CallsStep
<1> QED
  BY <1>1, <1>3, <1>4, <1>6, CursorStep, SameStmts, SilentHanded

LEMMA BindStep ==
  ASSUME IInv, NEW t \in Thread, NEW args, Bind(t, args) \/ BindCall(t, args)
  PROVE  IInv'
<1>1. call[t].pc = "bind" /\ got' = NoRow /\ UNCHANGED <<jvm, cx, codes, names, stmts, cur>>
  BY DEF Bind, BindCall, registry
<1>2. PICK k \in Cursors : k = call[t].k
  BY <1>1, InTheCall
<1>3. /\ call[t] \in CallType /\ CallOK(call[t], cur[k], t) /\ Typed /\ CallsOK
      /\ cur[k] \in CursorType /\ CursorOK(cur[k], Len(stmts), jvm)
  BY <1>1, <1>2, InTheCall
<1>4. /\ cur[k].at = "live" /\ cur[k].thread = t /\ ~cur[k].closed /\ cur[k].statement # None
      /\ call[t].disturbed \/ call[t].ptypes \in Proper(call[t].types, cur[k].statement)
      /\ call[t].types \in {NoTypes, Given}
  BY <1>1, <1>3 DEF CallOK, CallType
<1>5. PICK rows \in Int : rows = call[t].rows - 1
  BY <1>3 DEF CallType
<1>6. cur' = [cur EXCEPT ![k] = cur[k]]
  BY <1>1, <1>3 DEF Typed
<1>7. PICK sum \in Int, pc \in {"bind", "batch", "run"}, ptypes \in Int :
        /\ call' = [call EXCEPT ![t] = [call[t] EXCEPT !.rows = rows, !.sum = sum, !.pc = pc,
                                                      !.ptypes = ptypes]]
        /\ ptypes = call[t].ptypes \/ (call[t].ptypes = NoTypes /\ ptypes = cur[k].statement)
  <2>1. CASE Bind(t, args)
    <3>1. PICK sum \in Int : sum = IF Batch(t) THEN call[t].sum + 1 ELSE call[t].sum
      BY <1>3 DEF CallType
    <3>2. PICK pc \in {"bind", "batch", "run"} :
            pc = IF ~Batch(t) THEN "run" ELSE IF call[t].rows = 1 THEN "batch" ELSE "bind"
      OBVIOUS
    <3>3. PICK ptypes \in Int :
            ptypes = IF args # <<>> /\ cx[cur[k].cx].lookup = "name" /\ call[t].ptypes = NoTypes
                     THEN cur[k].statement ELSE call[t].ptypes
      BY <1>3 DEF CallType, CursorType
    <3>4. call' = [call EXCEPT ![t].rows = rows, ![t].sum = sum, ![t].ptypes = ptypes, ![t].pc = pc]
      BY <1>2, <1>5, <2>1, <3>1, <3>2, <3>3 DEF Bind
    <3>5. [call[t] EXCEPT !.rows = rows, !.sum = sum, !.ptypes = ptypes, !.pc = pc]
          = [call[t] EXCEPT !.rows = rows, !.sum = sum, !.pc = pc, !.ptypes = ptypes]
      BY <1>3 DEF CallType
    <3>6. call' = [call EXCEPT ![t] = [call[t] EXCEPT !.rows = rows, !.sum = sum, !.ptypes = ptypes,
                                                     !.pc = pc]]
      BY <3>4
    <3> QED
      BY <3>3, <3>5, <3>6
  <2>2. CASE BindCall(t, args)
    <3>1. call[t].sum \in Int /\ call[t].ptypes \in Int
      BY <1>3 DEF CallType
    <3>2. call' = [call EXCEPT ![t].rows = rows, ![t].pc = "run"]
      BY <1>5, <2>2 DEF BindCall
    <3>3. [call[t] EXCEPT !.rows = rows, !.pc = "run"]
          = [call[t] EXCEPT !.rows = rows, !.sum = call[t].sum, !.pc = "run", !.ptypes = call[t].ptypes]
      BY <1>3 DEF CallType
    <3>4. call' = [call EXCEPT ![t] = [call[t] EXCEPT !.rows = rows, !.pc = "run"]]
      BY <3>2
    <3> QED
      BY <3>1, <3>3, <3>4
  <2> QED
    BY <2>1, <2>2
<1>8. PICK m : m = [call[t] EXCEPT !.rows = rows, !.sum = sum, !.pc = pc, !.ptypes = ptypes]
  OBVIOUS
<1>9. /\ m \in CallType /\ m.pc = pc /\ m.k = k /\ m.types = call[t].types /\ m.ptypes = ptypes
      /\ m.disturbed = call[t].disturbed
  BY <1>2, <1>3, <1>8 DEF CallType, Points
<1>10. CallOK(m, cur[k], t)
  BY <1>4, <1>7, <1>9 DEF CallOK, Proper, NoTypes, Given
<1>11. call' \in [Thread -> CallType] /\ CallsOK'
  BY <1>3, <1>4, <1>6, <1>7, <1>8, <1>9, <1>10, CallsStep
<1>12. Handed'
  <2>1. PICK types : /\ bound' = Bound(t, args, types)
                     /\ types = call[t].ptypes \/ types = call[t].types
    <3>1. CASE Bind(t, args)
      BY <3>1 DEF Bind
    <3>2. CASE BindCall(t, args)
      BY <3>2 DEF BindCall
    <3> QED
      BY <3>1, <3>2
  <2>2. types \in Proper(call[t].types, cur[k].statement) \/ call[t].disturbed
    BY <1>4, <2>1 DEF Proper
  <2>3. CASE args = <<>>
    BY <1>1, <2>1, <2>3 DEF Bound, NoBind, NoRow, Handed, Proper, NoTypes, Given
  <2>4. CASE args # <<>>
    <3>1. bound' = [statement |-> cur[k].statement, from |-> types, asked |-> call[t].types,
                    disturbed |-> call[t].disturbed]
      BY <1>2, <2>1, <2>4 DEF Bound
    <3>2. /\ bound'.statement = cur[k].statement /\ bound'.from = types
          /\ bound'.asked = call[t].types /\ bound'.disturbed = call[t].disturbed
      BY <3>1
    <3> QED
      BY <1>1, <2>2, <3>2 DEF Handed, NoRow
  <2> QED
    BY <2>3, <2>4
<1> QED
  BY <1>1, <1>3, <1>6, <1>11, <1>12, CursorStep, SameStmts

LEMMA PrepareStep ==
  ASSUME IInv, NEW t \in Thread, Prepare(t)
  PROVE  IInv'
<1>1. /\ call[t].pc = "prepare" /\ Len(stmts) < MaxStmt /\ UNCHANGED <<jvm, cx, codes, names>> /\ Silent
  BY DEF Prepare, registry
<1>2. PICK k \in Cursors : k = call[t].k
  BY <1>1, InTheCall
<1>3. /\ call[t] \in CallType /\ CallOK(call[t], cur[k], t) /\ Typed /\ CallsOK
      /\ cur[k] \in CursorType /\ CursorOK(cur[k], Len(stmts), jvm)
      /\ stmts \in Seq(StmtType) /\ Len(stmts) \in Nat
  BY <1>1, <1>2, InTheCall
<1>4. /\ cur[k].at = "live" /\ cur[k].thread = t /\ ~cur[k].closed /\ cur[k].statement = None
      /\ call[t].disturbed \/ call[t].ptypes = call[t].types
      /\ call[t].types \in {NoTypes, Given} /\ cur[k].cx \in Conn
  BY <1>1, <1>3 DEF CallOK, CursorOK, CallType
<1>5. PICK n \in Nat \ {0} : n = Len(stmts) + 1
  BY <1>3
<1>6. PICK stmt : stmt = NewStmt(cur[k].cx, call[t].q)
  OBVIOUS
<1>7. stmt \in StmtType /\ stmt.cx = cur[k].cx
  BY <1>3, <1>4, <1>6 DEF NewStmt, StmtType, CallType
<1>8. stmts' = Append(stmts, stmt) /\ cx[cur[k].cx].open
  BY <1>2, <1>6 DEF Prepare
<1>9. /\ stmts' \in Seq(StmtType) /\ Len(stmts') = n /\ stmts'[n] = stmt
      /\ \A s \in 1 .. Len(stmts) : stmts'[s] = stmts[s]
  BY <1>3, <1>5, <1>7, <1>8, AppendProperties
<1>10. PICK new : new = [cur[k] EXCEPT !.statement = n, !.cause = n]
  OBVIOUS
<1>11. cur' = [cur EXCEPT ![k] = new]
  <2>1. cur' = [cur EXCEPT ![k].statement = n, ![k].cause = n]
    BY <1>2, <1>5 DEF Prepare
  <2> QED
    BY <1>10, <2>1
<1>12. /\ new \in CursorType /\ new.at = "live" /\ new.cx = cur[k].cx /\ new.thread = t
       /\ ~new.closed /\ new.statement = n /\ new.cause = n /\ new.rs = cur[k].rs
       /\ new.counted = cur[k].counted /\ new.cols = cur[k].cols
       /\ new.desc = cur[k].desc /\ new.last = cur[k].last
  BY <1>3, <1>4, <1>10 DEF CursorType
<1>13. cur[k].rs = NoSet
  BY <1>3, <1>4 DEF CursorOK, CursorType, Sets, None
<1>14. CursorOK(new, n, jvm)
  BY <1>3, <1>4, <1>12, <1>13 DEF CursorOK, None
<1>15. \A j \in Cursors : cur'[j] = IF j = k THEN new ELSE cur[j]
  BY <1>3, <1>11 DEF Typed
<1>16. PICK pc \in {"batch", "bind"} : pc = IF call[t].rows = 0 THEN "batch" ELSE "bind"
  OBVIOUS
<1>17. PICK m : m = [call[t] EXCEPT !.pc = pc]
  OBVIOUS
<1>18. /\ m \in CallType /\ m.pc = pc /\ m.k = k /\ m.types = call[t].types
       /\ m.ptypes = call[t].ptypes /\ m.disturbed = call[t].disturbed
  BY <1>2, <1>3, <1>17 DEF CallType, Points
<1>19. call' = [call EXCEPT ![t] = m]
  BY <1>16, <1>17 DEF Prepare
<1>20. CallOK(m, new, t)
  BY <1>4, <1>12, <1>18 DEF CallOK, Proper, None
<1>21. call' \in [Thread -> CallType] /\ CallsOK'
  BY <1>3, <1>4, <1>11, <1>18, <1>19, <1>20, CallsStep
<1>22. Typed'
  <2>1. Len(stmts') <= MaxStmt
    BY <1>1, <1>3, <1>5, <1>9, BoundAssumption
  <2>2. cur' \in [Cursors -> CursorType]
    BY <1>3, <1>11, <1>12 DEF Typed
  <2> QED
    BY <1>1, <1>3, <1>9, <1>21, <2>1, <2>2 DEF Typed
<1>23. CursorsOK'
  <2> SUFFICES ASSUME NEW j \in Cursors PROVE CursorOK(cur'[j], n, jvm)
    BY <1>1, <1>9 DEF CursorsOK
  <2>1. CASE j = k
    BY <1>14, <1>15, <2>1
  <2>2. CASE j # k
    <3>1. cur'[j] = cur[j] /\ CursorOK(cur[j], Len(stmts), jvm)
      BY <1>15, <2>2 DEF IInv, CursorsOK
    <3>2. 0 .. Len(stmts) \subseteq 0 .. n
      BY <1>3, <1>5
    <3> QED
      BY <3>1, <3>2 DEF CursorOK
  <2> QED
    BY <2>1, <2>2
<1>24. \A j \in Cursors : cur[j].statement # n
  BY <1>3, <1>5 DEF IInv, CursorsOK, CursorOK
<1>25. Own'
  BY <1>12, <1>15, <1>24 DEF IInv, Own
<1>26. Held'
  <2> SUFFICES ASSUME NEW s \in 1 .. n, stmts'[s].open
               PROVE  cx'[stmts'[s].cx].open /\ \E j \in Cursors : cur'[j].statement = s
    BY <1>9 DEF Held
  <2>1. CASE s = n
    BY <1>1, <1>7, <1>8, <1>9, <1>12, <1>15, <2>1
  <2>2. CASE s # n
    <3>1. s \in 1 .. Len(stmts) /\ stmts'[s] = stmts[s]
      BY <1>3, <1>5, <1>9, <2>2
    <3>2. cx[stmts[s].cx].open /\ \E j \in Cursors : cur[j].statement = s
      BY <3>1 DEF IInv, Held
    <3>3. PICK j \in Cursors : cur[j].statement = s
      BY <3>2
    <3>4. j # k
      BY <1>4, <3>1, <3>3 DEF None
    <3> QED
      BY <1>1, <1>15, <3>1, <3>2, <3>3, <3>4
  <2> QED
    BY <2>1, <2>2
<1>27. Registry' /\ Opened'
  BY <1>1 DEF IInv, Registry, Opened
<1> QED
  BY <1>1, <1>21, <1>22, <1>23, <1>25, <1>26, <1>27, SilentHanded DEF IInv

-------------------------------------------------------------------------------
\* A step that changes one connection.
LEMMA ConnStep ==
  ASSUME IInv, NEW c \in Conn, NEW new \in ConnType, cx' = [cx EXCEPT ![c] = new],
         new.open => jvm /\ ~new.closed /\ new.at \in {"live", "dropped", "lost"}, StmtsKept,
         \A s \in 1 .. Len(stmts) : stmts'[s].open /\ stmts[s].cx = c => new.open,
         UNCHANGED <<jvm, codes, names, cur, call>>, Silent
  PROVE  IInv'
<1>1. Typed /\ Registry /\ CursorsOK /\ CallsOK /\ Own /\ Held /\ Opened
  BY DEF IInv
<1>2. \A d \in Conn : cx'[d] = IF d = c THEN new ELSE cx[d]
  BY <1>1 DEF Typed
<1>3. Typed'
  <2>1. cx' \in [Conn -> ConnType]
    BY <1>1 DEF Typed
  <2> QED
    BY <1>1, <2>1 DEF Typed, StmtsKept
<1>4. Registry' /\ CallsOK' /\ Own'
  BY <1>1 DEF Registry, CallsOK, Own
<1>5. CursorsOK'
  BY <1>1 DEF CursorsOK, StmtsKept
<1>6. Opened'
  BY <1>1, <1>2 DEF Opened
<1>7. Held'
  <2> SUFFICES ASSUME NEW s \in 1 .. Len(stmts), stmts'[s].open
               PROVE  cx'[stmts'[s].cx].open /\ \E j \in Cursors : cur'[j].statement = s
    BY DEF Held, StmtsKept
  <2>1. /\ stmts'[s].cx = stmts[s].cx /\ cx[stmts[s].cx].open
        /\ \E j \in Cursors : cur[j].statement = s
    BY <1>1 DEF Held, StmtsKept
  <2>2. stmts[s].cx \in Conn
    BY <1>1, StmtAt DEF Typed, StmtType
  <2> QED
    BY <1>2, <2>1, <2>2
<1> QED
  BY <1>3, <1>4, <1>5, <1>6, <1>7, SilentHanded DEF IInv

LEMMA AllClosedStep ==
  ASSUME stmts \in Seq(StmtType), NEW c \in Conn, stmts' = AllClosed(c)
  PROVE  StmtsKept /\ \A s \in 1 .. Len(stmts) : ~(stmts'[s].open /\ stmts[s].cx = c)
<1>1. /\ Len(stmts) \in Nat /\ DOMAIN stmts = 1 .. Len(stmts)
      /\ \A s \in 1 .. Len(stmts) : stmts[s] \in StmtType
  BY StmtAt
<1>2. PICK gone : gone = ClosedStmt(c)
  OBVIOUS
<1>3. gone \in StmtType /\ gone.cx = c /\ ~gone.open
  BY <1>2 DEF ClosedStmt, NewStmt, StmtType
<1>4. stmts' = [s \in DOMAIN stmts |-> IF stmts[s].cx = c THEN gone ELSE stmts[s]]
  BY <1>2 DEF AllClosed
<1>5. \A s \in 1 .. Len(stmts) : stmts'[s] = IF stmts[s].cx = c THEN gone ELSE stmts[s]
  BY <1>1, <1>4
<1>6. stmts' = [s \in DOMAIN stmts |-> stmts'[s]]
  BY <1>4
<1>7. stmts' \in Seq(StmtType) /\ Len(stmts') = Len(stmts)
  BY <1>1, <1>3, <1>5, <1>6, StmtsMapped
<1> QED
  BY <1>3, <1>5, <1>7 DEF StmtsKept

LEMMA OnConnectionStep ==
  ASSUME IInv, NEW c \in Conn,
         \/ \E t \in Thread : \/ Connect(t, c) \/ ConnectFails(t, c) \/ ConnClose(t, c)
                              \/ \E lookup \in {"type", "name"} : SetLookup(t, c, lookup)
         \/ ConnDrop(c) \/ ConnDel(c) \/ ConnDelFails(c)
  PROVE  IInv'
<1>1. Typed /\ Held /\ Opened /\ stmts \in Seq(StmtType) /\ cx[c] \in ConnType
  BY DEF IInv, Typed
<1>2. UNCHANGED <<jvm, codes, names, cur, call>> /\ Silent
  BY DEF Connect, ConnectFails, ConnClose, SetLookup, ConnDrop, ConnDel, ConnDelFails, registry
<1>3. cx[c].open => jvm /\ ~cx[c].closed /\ cx[c].at \in {"live", "dropped", "lost"}
  BY <1>1 DEF Opened
<1>4. \A s \in 1 .. Len(stmts) : stmts[s].open /\ stmts[s].cx = c => cx[c].open
  BY <1>1 DEF Held
<1>5. PICK new : /\ cx' = [cx EXCEPT ![c] = new]
                 /\ \/ /\ jvm /\ UNCHANGED stmts
                       /\ \E at \in {"live", "lost"}, batch \in BOOLEAN :
                            new = [NoConn EXCEPT !.at = at, !.open = TRUE, !.batch = batch]
                    \/ /\ UNCHANGED stmts
                       /\ \E lookup \in {"type", "name"} : new = [cx[c] EXCEPT !.lookup = lookup]
                    \/ /\ UNCHANGED stmts
                       /\ \E at \in {"dropped", "lost"} : new = [cx[c] EXCEPT !.at = at]
                    \/ /\ UNCHANGED stmts /\ ~cx[c].open
                       /\ new = [cx[c] EXCEPT !.at = "gone"]
                    \/ /\ stmts' = AllClosed(c)
                       /\ \E at \in {cx[c].at, "gone"} :
                            new = [cx[c] EXCEPT !.open = FALSE, !.closed = TRUE, !.at = at]
  <2>1. ASSUME NEW t \in Thread, Connect(t, c) \/ ConnectFails(t, c)
        PROVE  \E at \in {"live", "lost"}, batch \in BOOLEAN :
                 /\ cx' = [cx EXCEPT ![c] = [NoConn EXCEPT !.at = at, !.open = TRUE, !.batch = batch]]
                 /\ jvm /\ UNCHANGED stmts
    <3>1. CASE Connect(t, c)
      BY <3>1 DEF Connect
    <3>2. CASE ConnectFails(t, c)
      <4>1. [NoConn EXCEPT !.at = "lost", !.open = TRUE]
            = [NoConn EXCEPT !.at = "lost", !.open = TRUE, !.batch = FALSE]
        <5>1. NoConn \in ConnType /\ NoConn.batch = FALSE
          BY DEF NoConn, ConnType, States
        <5> QED
          BY <5>1 DEF ConnType
      <4> QED
        BY <3>2, <4>1 DEF ConnectFails
    <3> QED
      BY <2>1, <3>1, <3>2
  <2>2. ASSUME NEW t \in Thread, ConnClose(t, c)
        PROVE  /\ cx' = [cx EXCEPT ![c] = [cx[c] EXCEPT !.open = FALSE, !.closed = TRUE, !.at = cx[c].at]]
               /\ stmts' = AllClosed(c)
    <3>1. cx' = [cx EXCEPT ![c] = [cx[c] EXCEPT !.open = FALSE, !.closed = TRUE]]
      BY <2>2 DEF ConnClose, Disconnected
    <3>2. [cx[c] EXCEPT !.open = FALSE, !.closed = TRUE]
          = [cx[c] EXCEPT !.open = FALSE, !.closed = TRUE, !.at = cx[c].at]
      BY <1>1 DEF ConnType
    <3> QED
      BY <2>2, <3>1, <3>2 DEF ConnClose
  <2>3. ASSUME NEW t \in Thread, NEW lookup \in {"type", "name"}, SetLookup(t, c, lookup)
        PROVE  cx' = [cx EXCEPT ![c] = [cx[c] EXCEPT !.lookup = lookup]] /\ UNCHANGED stmts
    BY <2>3 DEF SetLookup
  <2>4. CASE ConnDrop(c)
    BY <2>4 DEF ConnDrop
  <2>5. CASE ConnDelFails(c)
    BY <2>5 DEF ConnDelFails
  <2>6. CASE ConnDel(c)
    <3>1. CASE jvm /\ ~cx[c].closed
      <4>1. stmts' = AllClosed(c) /\ cx' = [Disconnected(c) EXCEPT ![c].at = "gone"]
        BY <2>6, <3>1 DEF ConnDel
      <4>2. cx' = [cx EXCEPT ![c] = [cx[c] EXCEPT !.open = FALSE, !.closed = TRUE, !.at = "gone"]]
        BY <1>1, <4>1 DEF Disconnected, Typed
      <4> QED
        BY <4>1, <4>2
    <3>2. CASE ~(jvm /\ ~cx[c].closed)
      BY <1>3, <2>6, <3>2 DEF ConnDel
    <3> QED
      BY <3>1, <3>2
  <2> QED
    BY <2>1, <2>2, <2>3, <2>4, <2>5, <2>6
<1>6. CASE /\ jvm /\ UNCHANGED stmts
           /\ \E at \in {"live", "lost"}, batch \in BOOLEAN :
                new = [NoConn EXCEPT !.at = at, !.open = TRUE, !.batch = batch]
  <2>1. new \in ConnType /\ new.open /\ ~new.closed /\ new.at \in {"live", "lost"}
    BY <1>6 DEF NoConn, ConnType, States
  <2> QED
    BY <1>1, <1>2, <1>5, <1>6, <2>1, ConnStep, SameStmts
<1>7. CASE UNCHANGED stmts /\ \E lookup \in {"type", "name"} : new = [cx[c] EXCEPT !.lookup = lookup]
  <2>1. new \in ConnType /\ new.open = cx[c].open /\ new.closed = cx[c].closed /\ new.at = cx[c].at
    BY <1>1, <1>7 DEF ConnType
  <2> QED
    BY <1>1, <1>2, <1>3, <1>4, <1>5, <1>7, <2>1, ConnStep, SameStmts
<1>8. CASE UNCHANGED stmts /\ \E at \in {"dropped", "lost"} : new = [cx[c] EXCEPT !.at = at]
  <2>1. /\ new \in ConnType /\ new.open = cx[c].open /\ new.closed = cx[c].closed
        /\ new.at \in {"dropped", "lost"}
    BY <1>1, <1>8 DEF ConnType, States
  <2> QED
    BY <1>1, <1>2, <1>3, <1>4, <1>5, <1>8, <2>1, ConnStep, SameStmts
<1>9. CASE UNCHANGED stmts /\ ~cx[c].open /\ new = [cx[c] EXCEPT !.at = "gone"]
  <2>1. new \in ConnType /\ new.open = cx[c].open
    BY <1>1, <1>9 DEF ConnType, States
  <2> QED
    BY <1>1, <1>2, <1>4, <1>5, <1>9, <2>1, ConnStep, SameStmts
<1>10. CASE /\ stmts' = AllClosed(c)
            /\ \E at \in {cx[c].at, "gone"} :
                 new = [cx[c] EXCEPT !.open = FALSE, !.closed = TRUE, !.at = at]
  <2>1. new \in ConnType /\ ~new.open
    BY <1>1, <1>10 DEF ConnType, States
  <2>2. StmtsKept /\ \A s \in 1 .. Len(stmts) : ~(stmts'[s].open /\ stmts[s].cx = c)
    BY <1>1, <1>10, AllClosedStep
  <2> QED
    BY <1>2, <1>5, <2>1, <2>2, ConnStep
<1> QED
  BY <1>5, <1>6, <1>7, <1>8, <1>9, <1>10

LEMMA ShutdownStep ==
  ASSUME IInv, Shutdown
  PROVE  IInv'
<1>1. /\ Typed /\ Registry /\ CursorsOK /\ CallsOK /\ Own /\ Held /\ Opened
      /\ stmts \in Seq(StmtType) /\ Len(stmts) \in Nat
  BY StmtAt DEF IInv, Typed
<1>2. jvm' = FALSE /\ UNCHANGED <<codes, names, call>> /\ Silent
  BY DEF Shutdown, registry
<1>3. /\ cx' \in [Conn -> ConnType]
      /\ \A c \in Conn : ~cx'[c].open
  BY <1>1 DEF Shutdown, Typed, ConnType
<1>4. /\ stmts' \in Seq(StmtType) /\ Len(stmts') = Len(stmts)
      /\ \A s \in 1 .. Len(stmts) : ~stmts'[s].open
  <2>1. /\ DOMAIN stmts = 1 .. Len(stmts) /\ \A s \in 1 .. Len(stmts) : stmts[s] \in StmtType
    BY <1>1, StmtAt
  <2>2. \A s \in 1 .. Len(stmts) : /\ ClosedStmt(stmts[s].cx) \in StmtType
                                   /\ ~ClosedStmt(stmts[s].cx).open
    BY <2>1 DEF ClosedStmt, NewStmt, StmtType
  <2>3. stmts' = [s \in DOMAIN stmts |-> ClosedStmt(stmts[s].cx)]
    BY DEF Shutdown
  <2>4. \A s \in 1 .. Len(stmts) : stmts'[s] = ClosedStmt(stmts[s].cx)
    BY <2>1, <2>3
  <2>5. stmts' = [s \in DOMAIN stmts |-> stmts'[s]]
    BY <2>3
  <2>6. stmts' \in Seq(StmtType) /\ Len(stmts') = Len(stmts)
    BY <1>1, <2>2, <2>4, <2>5, StmtsMapped
  <2> QED
    BY <2>2, <2>4, <2>6
<1>5. ASSUME NEW k \in Cursors
      PROVE  /\ cur'[k] \in CursorType /\ CursorOK(cur'[k], Len(stmts), FALSE)
             /\ cur'[k].statement = cur[k].statement /\ cur'[k].at = cur[k].at
             /\ cur'[k].thread = cur[k].thread /\ cur'[k].closed = cur[k].closed
  <2>1. PICK r : r = Rest(k)
    OBVIOUS
  <2>2. cur'[k] = [r EXCEPT !.rs = NoSet]
    BY <2>1 DEF Shutdown
  <2>3. /\ r \in CursorType /\ CursorOK(r, Len(stmts), FALSE)
        /\ r.statement = cur[k].statement /\ r.at = cur[k].at
        /\ r.thread = cur[k].thread /\ r.closed = cur[k].closed /\ r.counted = "never"
    BY <1>1, <2>1, RestOK
  <2>4. /\ cur'[k] \in CursorType /\ cur'[k].at = r.at /\ cur'[k].cx = r.cx
        /\ cur'[k].thread = r.thread /\ cur'[k].closed = r.closed
        /\ cur'[k].statement = r.statement /\ cur'[k].rs = NoSet
        /\ cur'[k].desc = r.desc /\ cur'[k].last = r.last /\ cur'[k].counted = r.counted
    BY <2>2, <2>3 DEF CursorType, Sets
  <2>5. CursorOK(cur'[k], Len(stmts), FALSE)
    BY <2>3, <2>4 DEF CursorOK
  <2> QED
    BY <2>3, <2>4, <2>5
<1>6. cur' \in [Cursors -> CursorType]
  <2>1. cur' = [k \in Cursors |-> cur'[k]]
    BY DEF Shutdown
  <2> QED
    BY <1>5, <2>1
<1>7. Typed'
  BY <1>1, <1>2, <1>3, <1>4, <1>6 DEF Typed
<1>8. CursorsOK'
  BY <1>2, <1>4, <1>5 DEF CursorsOK
<1>9. CallsOK'
  <2> SUFFICES ASSUME NEW t \in Thread, call[t].pc # "idle"
               PROVE  CallOK(call[t], cur'[call[t].k], t)
    BY <1>2 DEF CallsOK
  <2>1. CallOK(call[t], cur[call[t].k], t) /\ call[t].k \in Cursors
    BY <1>1 DEF CallsOK, CallOK
  <2> QED
    BY <1>5, <2>1 DEF CallOK
<1>10. Own'
  <2>1. \A k \in Cursors : cur'[k].statement = cur[k].statement
    BY <1>5
  <2> QED
    BY <1>1, <2>1 DEF Own
<1>11. Held' /\ Opened'
  BY <1>3, <1>4 DEF Held, Opened
<1>12. Registry'
  BY <1>1, <1>2 DEF Registry
<1> QED
  BY <1>2, <1>7, <1>8, <1>9, <1>10, <1>11, <1>12, SilentHanded DEF IInv

LEMMA NewTypeStep ==
  ASSUME IInv, NEW u \in UserType, NewType(u)
  PROVE  IInv'
<1>1. Registry /\ UNCHANGED <<jvm, cx, cur, stmts, call>> /\ Silent /\ u.name \in UserNames
  BY DEF IInv, NewType, UserNames
<1>2. PICK name : name = u.name
  OBVIOUS
<1>3. PICK code : code = u.code
  OBVIOUS
<1>4. names' = Put(names, name, name) /\ (codes' = codes \/ codes' = Put(codes, code, name))
  BY <1>2, <1>3 DEF NewType
<1>5. Registry'
  BY <1>1, <1>2, <1>4 DEF Registry, Put
<1>6. Typed' /\ CursorsOK' /\ CallsOK' /\ Own' /\ Held' /\ Opened'
  BY <1>1 DEF IInv, Typed, CursorsOK, CallsOK, Own, Held, Opened
<1> QED
  BY <1>1, <1>5, <1>6, SilentHanded DEF IInv

-------------------------------------------------------------------------------
LEMMA NextIInv == IInv /\ [Next]_vars => IInv'
<1> SUFFICES ASSUME IInv, [Next]_vars PROVE IInv'
  OBVIOUS
<1>1. ASSUME NEW t \in Thread, InCall(t) PROVE IInv'
  BY <1>1, RaiseStep, PrepareStep, RunStep, RunFailsStep, RunBatchStep, FetchStep, BindStep DEF InCall
<1>2. ASSUME NEW t \in Thread, NEW c \in Conn, OnConnection(t, c) PROVE IInv'
  BY <1>2, OnConnectionStep, NewCursorStep DEF OnConnection
<1>3. ASSUME NEW t \in Thread, NEW k \in Cursors, OnCursor(t, k) PROVE IInv'
  BY <1>3, BeginStep, BeginRejectedStep, BeginFailsStep, FetchBeginStep, IterNextStep, AskStep, NextSetStep, CloseStep
  DEF OnCursor
<1>4. ASSUME NEW k \in Cursors, CursorDrop(k) \/ Collect(k) PROVE IInv'
  BY <1>4, DropStep DEF Collect
<1>5. ASSUME NEW c \in Conn, ConnDrop(c) \/ CollectConn(c) PROVE IInv'
  BY <1>5, OnConnectionStep DEF CollectConn
<1>6. CASE UNCHANGED vars
  BY <1>6 DEF vars, IInv, Typed, Registry, CursorsOK, CallsOK, Own, Held, Opened, Handed
<1> QED
  BY <1>1, <1>2, <1>3, <1>4, <1>5, <1>6, NewTypeStep, ShutdownStep DEF Next

\* The invariant of connections, cursors and statements holds in every state.
THEOREM Invariance == Spec => []IInv
BY InitIInv, NextIInv, PTL DEF Spec

\* The variables have their types; in particular a cursor never shows a row count
\* below -1, whatever the driver reports for the rows of a batch.
THEOREM TypeCorrect == Spec => []TypeOK
<1>1. IInv => TypeOK
  <2> SUFFICES ASSUME IInv PROVE TypeOK
    OBVIOUS
  <2>1. Typed /\ CursorsOK /\ Len(stmts) \in Nat
    BY StmtAt DEF IInv, Typed
  <2>2. \A c \in Conn : cx[c].at \in {"none", "live", "dropped", "gone", "lost"}
    BY <2>1 DEF Typed, ConnType, States
  <2>3. ASSUME NEW k \in Cursors
        PROVE  /\ cur[k].at \in {"none", "live", "dropped", "gone", "lost"}
               /\ cur[k].at = "live" => cur[k].cx \in Conn /\ cur[k].thread \in Thread
               /\ {cur[k].statement, cur[k].last, cur[k].desc} \subseteq 0 .. Len(stmts)
               /\ {cur[k].rs, cur[k].cols} \subseteq Sets
               /\ cur[k].rowcount >= -1
    <3>1. cur[k] \in CursorType /\ CursorOK(cur[k], Len(stmts), jvm)
      BY <2>1 DEF Typed, CursorsOK
    <3>2. cur[k].statement \in 0 .. Len(stmts) /\ cur[k].last \in 0 .. Len(stmts)
          /\ cur[k].desc \in 0 .. Len(stmts)
      BY <2>1, <3>1 DEF CursorOK, None
    <3>3. cur[k].rs \in Sets /\ cur[k].cols \in Sets /\ cur[k].rowcount \in Nat \cup {-1}
          /\ cur[k].at \in States
      BY <3>1 DEF CursorType
    <3>4. cur[k].rowcount >= -1
      BY <3>3
    <3> QED
      BY <3>1, <3>2, <3>3, <3>4 DEF CursorOK, States
  <2>4. \A t \in Thread : call[t].pc \in {"idle", "prepare", "bind", "batch", "run", "fetch"}
    BY <2>1 DEF Typed, CallType, Points
  <2> QED
    BY <2>1, <2>2, <2>3, <2>4 DEF TypeOK, Typed
<1> QED
  BY <1>1, Invariance, PTL

\* A row, its column types, the types of the parameters, the row ids and the
\* description are those of the statement that the cursor has prepared last, for
\* any number of cursors and threads and whatever JDBC call raises, but for the column
\* types after a getColumnCount that raised (dbapi2.py:846) and the types of the
\* parameters after another thread's execute that was refused (dbapi2.py:1139).
THEOREM CachesAreCurrent == Spec => []CachesCurrent
<1>1. IInv => CachesCurrent
  BY DEF IInv, Handed, Proper, CursorsOK, CursorOK, CachesCurrent
<1> QED
  BY <1>1, Invariance, PTL

\* An open statement has one cursor that still closes it, and an open connection
\* its Connection, but for the finalizers and the connect() whose call raised.
THEOREM NothingIsLeaked == Spec => []NothingLeaked
<1>1. IInv => NothingLeaked
  <2> SUFFICES ASSUME IInv PROVE NothingLeaked
    OBVIOUS
  <2>1. Typed /\ CursorsOK /\ Own /\ Held /\ Opened /\ DOMAIN stmts = 1 .. Len(stmts)
    BY StmtAt DEF IInv, Typed
  <2>2. ASSUME NEW s \in DOMAIN stmts, stmts[s].open
        PROVE  \E k \in Cursors : /\ cur[k].statement = s
                                  /\ ~cur[k].closed /\ cur[k].at \in {"live", "dropped", "lost"}
                                  /\ \A j \in Cursors \ {k} : cur[j].statement # s
    <3>1. PICK k \in Cursors : cur[k].statement = s
      BY <2>1, <2>2 DEF Held
    <3>2. s # None
      BY <2>1 DEF None
    <3>3. ~cur[k].closed /\ cur[k].at \in {"live", "dropped", "lost"}
      BY <2>1, <3>1, <3>2 DEF Typed, CursorsOK, CursorOK, CursorType, States
    <3>4. \A j \in Cursors \ {k} : cur[j].statement # s
      BY <2>1, <3>1, <3>2 DEF Own
    <3> QED
      BY <3>1, <3>3, <3>4
  <2> QED
    BY <2>1, <2>2 DEF NothingLeaked, Opened
<1> QED
  BY <1>1, Invariance, PTL

\* A column of any code of the module has a type with a getter, whatever types a
\* program registers, and an SQL NULL comes out as None but for BIT.
THEOREM LookupIsTotal == Spec => []LookupTotal
<1>1. IInv => LookupTotal
  <2> SUFFICES ASSUME Registry, NEW col,
                      col \in [code : Coded, name : {"unknown"}]
                                \cup [code : {"OTHER"}, name : {u.name : u \in UserType}]
               PROVE  /\ GETTERS_BY_NAME(codes, names, col) # NoKey
                      /\ codes[col.code] \in Coded => /\ GETTERS_BY_TYPE(codes, names, col) # NoKey
                                                      /\ SETTERS_BY_META(codes, col.code) # NoKey
                      /\ \A t \in {GETTERS_BY_NAME(codes, names, col),
                                   GETTERS_BY_TYPE(codes, names, col)} \ {"BIT"} :
                           Get(t, "null") = "None"
    BY DEF IInv, LookupTotal, Columns
  <2>1. NoKey \notin Coded \cup Aliases /\ "OTHER" \in Coded
    BY DEF NoKey, Coded, Aliases
  <2>2. NoKey \notin UserNames
    BY UserAssumption DEF UserNames
  <2>3. col.code \in Coded
    BY <2>1
  <2>4. col.code \in DOMAIN codes /\ codes[col.code] \in Coded \cup UserNames
    BY <2>3 DEF Registry
  <2>5. At(codes, col.code) = codes[col.code]
    BY <2>4 DEF At
  <2>6. col.name \in DOMAIN names => names[col.name] \in Coded \cup Aliases \cup UserNames
    BY DEF Registry
  <2>7. GETTERS_BY_NAME(codes, names, col) # NoKey
    <3>1. PICK tp : tp = IF col.name \in DOMAIN names THEN names[col.name] ELSE At(codes, col.code)
      OBVIOUS
    <3>2. tp \in Coded \cup Aliases \cup UserNames
      BY <2>4, <2>5, <2>6, <3>1
    <3>3. GETTERS_BY_NAME(codes, names, col) = IF tp \in DOMAIN default_map THEN default_map[tp] ELSE tp
      BY <3>1 DEF GETTERS_BY_NAME
    <3> QED
      BY <2>1, <2>2, <3>2, <3>3, DefaultMap
  <2>8. ASSUME codes[col.code] \in Coded
        PROVE  /\ GETTERS_BY_TYPE(codes, names, col) # NoKey
               /\ SETTERS_BY_META(codes, col.code) # NoKey
    <3>1. At(default_map, codes[col.code]) # NoKey
      BY <2>1, <2>8, DefaultMap DEF At
    <3> QED
      BY <2>1, <2>2, <2>5, <2>6, <2>8, <3>1 DEF GETTERS_BY_TYPE, SETTERS_BY_META
  <2>9. \A t : t # "BIT" => Get(t, "null") = "None"
    BY DEF Get, PrimitiveGetter, Primitive
  <2> QED
    BY <2>7, <2>8, <2>9
<1> QED
  BY <1>1, Invariance, PTL
===============================================================================
