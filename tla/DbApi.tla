--------------------------------- MODULE DbApi ---------------------------------
(***************************************************************************)
(* Connections and cursors of jpype.dbapi2, called from several threads.   *)
(*                                                                         *)
(* A cursor is bound to the thread that made it; a connection is not.      *)
(* execute, executemany, callproc and the fetch methods give up the Python *)
(* lock in every JDBC call, so they are calls of several steps: begin,     *)
(* prepare, bind, run and fetch.  Every JDBC call may raise; the call then *)
(* ends where it stands (Raise, and the *Fails actions).  The methods that *)
(* check neither the thread nor whether the cursor is open (nextset,       *)
(* description, lastrowid, iteration) are called by the cursor's thread    *)
(* only; __exit__ by any thread, but not in the middle of another's call.  *)
(*                                                                         *)
(* The JDBC driver is external: statements and result sets are as they     *)
(* are used here.  A result set is named by its statement and the position *)
(* of the result in what the statement returns.                            *)
(***************************************************************************)
EXTENDS DbTypes, Integers, Sequences

CONSTANTS
  Conn,        \* connections
  Cursors,     \* cursors
  Thread,      \* Python threads
  Query,       \* statements: [params, results], see QueryAssumption
  UserType,    \* types a program makes: [name, code]
  MaxStmt,     \* bound on the number of statements prepared
  MaxRows      \* bound on the parameter rows of executemany

\* A result is a set of rows with one column or an update count.
SetOf(rows, col) == [rows |-> rows, count |-> -1, col |-> col]
Count(n) == [rows |-> -1, count |-> n, col |-> [code |-> "NULL", name |-> "NULL"]]

ASSUME QueryAssumption ==
  \A q \in Query :
    /\ \A i \in DOMAIN q.params : q.params[i] \in {"in", "out", "inout"}
    /\ Len(q.results) \in Nat \ {0}
    /\ \A i \in 1 .. Len(q.results) :
         \/ q.results[i].rows \in Nat /\ q.results[i].count = -1
         \/ q.results[i].rows = -1 /\ q.results[i].count \in Nat
ASSUME UserAssumption == \A u \in UserType : u.name # NoKey
ASSUME BoundAssumption == MaxStmt \in Nat /\ MaxRows \in Nat

None == 0
NoSet == <<0, 0>>
NoTypes == 0
Given == -1
NoQuery == [params |-> <<>>, results |-> <<>>]

VARIABLES
  jvm,      \* is the JVM running
  codes,    \* _registry, by code
  names,    \* _registry, by name
  cx,       \* connections
  cur,      \* cursors
  stmts,    \* JDBC statements, in the order they were prepared
  call,     \* the call each thread is in
  got,      \* the row that the last step handed to the program
  bound     \* the parameter types that the last step set parameters with

vars == <<jvm, codes, names, cx, cur, stmts, call, got, bound>>
registry == <<codes, names>>

NoConn == [at |-> "none", closed |-> FALSE, open |-> FALSE, batch |-> FALSE,
           lookup |-> "type"]
NoCursor == [at |-> "none", cx |-> "none", thread |-> "none", closed |-> FALSE, statement |-> None,
             cause |-> None, rs |-> NoSet, counted |-> "never", cols |-> NoSet, desc |-> None,
             last |-> None, rowcount |-> -1, iter |-> FALSE]
\* What is left of a cursor that only its finalizer uses again.
Rest(k) == [NoCursor EXCEPT !.at = cur[k].at, !.cx = cur[k].cx, !.thread = cur[k].thread, !.closed = cur[k].closed,
                            !.statement = cur[k].statement, !.rs = cur[k].rs]
NoCall == [pc |-> "idle", op |-> "none", k |-> "none", q |-> NoQuery, types |-> NoTypes,
           rows |-> 0, sum |-> 0, ptypes |-> NoTypes, disturbed |-> FALSE]
NoBind == [statement |-> None, from |-> NoTypes, asked |-> NoTypes, disturbed |-> FALSE]
NoRow == [set |-> NoSet, cause |-> None, types |-> NoSet, counted |-> TRUE]

Init ==
  /\ jvm = TRUE
  /\ codes = registryCodes
  /\ names = registryNames
  /\ cx = [c \in Conn |-> NoConn]
  /\ cur = [k \in Cursors |-> NoCursor]
  /\ stmts = <<>>
  /\ call = [t \in Thread |-> NoCall]
  /\ got = NoRow
  /\ bound = NoBind

\* A step that hands out no row and sets no parameters.
Silent == got' = NoRow /\ bound' = NoBind

-------------------------------------------------------------------------------
\* The JDBC driver.

Result(set) == stmts[set[1]].q.results[set[2]]

\* The result set can still be read.
Readable(set) ==
  /\ set # NoSet
  /\ stmts[set[1]].open
  /\ stmts[set[1]].pos = set[2]
  /\ stmts[set[1]].reading

\* Of a closed statement nothing is left but its connection.
NewStmt(c, q) == [cx |-> c, q |-> q, open |-> TRUE, pos |-> 0, row |-> 0, reading |-> FALSE]
ClosedStmt(c) == [NewStmt(c, NoQuery) EXCEPT !.open = FALSE]
StatementClosed(s) == [stmts EXCEPT ![s] = ClosedStmt(@.cx)]

\* Closing a connection closes its statements.
AllClosed(c) ==
  [s \in DOMAIN stmts |-> IF stmts[s].cx = c THEN ClosedStmt(c) ELSE stmts[s]]

Disconnected(c) == [cx EXCEPT ![c].open = FALSE, ![c].closed = TRUE]

\* The statement moves to result p, which closes the set it was reading.
Moved(s, p) ==
  [stmts EXCEPT ![s].pos = p, ![s].row = 0,
                ![s].reading = (p \leq Len(stmts[s].q.results) /\ stmts[s].q.results[p].rows # -1)]

UpdateCount(s, p) ==
  IF p \leq Len(stmts[s].q.results) THEN stmts[s].q.results[p].count ELSE -1

-------------------------------------------------------------------------------
\* JDBCType(name, code), which also initializes the type when the JVM runs.
NewType(u) ==
  /\ names' = Put(names, u.name, u.name)
  /\ codes' = IF u.code = "None" THEN codes ELSE Put(codes, u.code, u.name)
  /\ u.name \notin DOMAIN names
  /\ UNCHANGED <<jvm, cx, cur, stmts, call>> /\ Silent

Idle(t) == call[t].pc = "idle"
Return(t) == call' = [call EXCEPT ![t] = NoCall]

\* connect and Connection.__init__.  A driver without transactions refuses
\* setAutoCommit, which is let pass.  Other getters and setters than the default
\* are SetLookup.
Connect(t, c) ==
  /\ jvm /\ Idle(t)
  /\ cx[c].at = "none"
  /\ \E batch \in BOOLEAN :
       cx' = [cx EXCEPT ![c] = [NoConn EXCEPT !.at = "live", !.open = TRUE, !.batch = batch]]
  /\ UNCHANGED <<jvm, registry, cur, stmts, call>> /\ Silent

\* setAutoCommit raises another error: the object has no _closed, its
\* finalizer fails, and nobody closes the JDBC connection.
ConnectFails(t, c) ==
  /\ jvm /\ Idle(t)
  /\ cx[c].at = "none"
  /\ cx' = [cx EXCEPT ![c] = [NoConn EXCEPT !.at = "lost", !.open = TRUE]]
  /\ UNCHANGED <<jvm, registry, cur, stmts, call>> /\ Silent

\* Connection._validate
ValidConn(t, c) == /\ jvm /\ Idle(t)
                   /\ cx[c].at = "live" /\ ~cx[c].closed /\ cx[c].open

\* Connection.close and __exit__
ConnClose(t, c) ==
  /\ ValidConn(t, c)
  /\ cx' = Disconnected(c)
  /\ stmts' = AllClosed(c)
  /\ UNCHANGED <<jvm, registry, cur, call>> /\ Silent

\* The setters and getters properties, which no check guards: SETTERS_BY_TYPE
\* with GETTERS_BY_TYPE, or SETTERS_BY_META with GETTERS_BY_NAME.
SetLookup(t, c, lookup) ==
  /\ Idle(t)
  /\ cx[c].at = "live"
  /\ cx' = [cx EXCEPT ![c].lookup = lookup]
  /\ UNCHANGED <<jvm, registry, cur, stmts, call>> /\ Silent

-------------------------------------------------------------------------------
\* Connection.cursor and Cursor.__init__
NewCursor(t, c, k) ==
  /\ ValidConn(t, c)
  /\ cur[k].at = "none"
  /\ cur' = [cur EXCEPT ![k] = [NoCursor EXCEPT !.at = "live", !.cx = c, !.thread = t]]
  /\ UNCHANGED <<jvm, registry, cx, stmts, call>> /\ Silent

Owned(t, k) == Idle(t) /\ cur[k].at = "live" /\ cur[k].thread = t

\* Cursor._validate
Usable(t, k) == jvm /\ ~cur[k].closed /\ cx[cur[k].cx].open /\ cur[k].thread = t

\* Cursor._check_executed
Executed(t, k) == Usable(t, k) /\ cur[k].rs # NoSet

\* _resultSetCount and _columnTypes stay when the cursor has another result set.
Outdated(counted) == IF counted = "never" THEN counted ELSE "earlier"

\* Cursor._finish, which closes the result set and then the statement.
Finished(c) ==
  [c EXCEPT !.rs = NoSet, !.counted = Outdated(@), !.statement = None, !.cause = None, !.rowcount = -1, !.desc = None,
            !.last = None]
FinishedStmts(k) == IF cur[k].statement = None THEN stmts ELSE StatementClosed(cur[k].statement)

\* What _finish has done when a close() raises: nothing, or it has let go of
\* the result set.
HalfFinished(k, c) ==
  (IF Readable(cur[k].rs) THEN {c} ELSE {})
    \cup (IF cur[k].statement # None /\ stmts[cur[k].statement].open
          THEN {[c EXCEPT !.rs = NoSet, !.counted = Outdated(@)]} ELSE {})

\* execute and executemany write _last and _parameterTypes before any check,
\* callproc neither.  _parameterTypes is read by an execute only, after it has
\* written it; it is kept with that call (ptypes).
Entered(k, op) == IF op = "call" THEN cur[k] ELSE [cur[k] EXCEPT !.last = None]

\* execute, executemany and callproc up to the preparation of the statement.
Begin(t, k, op, q, types, rows) ==
  /\ Idle(t) /\ cur[k].at = "live" /\ Usable(t, k)
  /\ op \in {"one", "call"} => rows = 1
  /\ cur' = [cur EXCEPT ![k] = Finished(Entered(k, op))]
  /\ stmts' = FinishedStmts(k)
  /\ call' = [call EXCEPT ![t] = [NoCall EXCEPT !.pc = "prepare", !.op = op, !.k = k, !.q = q,
                                                !.types = types, !.ptypes = types, !.rows = rows]]
  /\ UNCHANGED <<jvm, registry, cx>> /\ Silent

\* A closed cursor, or a call from another thread, is rejected after the
\* assignments at the head of the method.  An execute that is under way finds
\* _parameterTypes replaced (disturbed is for the properties).
BeginRejected(t, k, op, types) ==
  /\ Idle(t) /\ cur[k].at = "live" /\ ~Usable(t, k)
  /\ cur' = [cur EXCEPT ![k] = Entered(k, op)]
  /\ call' = [u \in Thread |->
               IF op # "call" /\ call[u].k = k /\ call[u].op \in {"one", "many"} /\ call[u].rows > 0
               THEN [call[u] EXCEPT !.ptypes = types, !.disturbed = TRUE] ELSE call[u]]
  /\ UNCHANGED <<jvm, registry, cx, stmts>> /\ Silent

BeginFails(t, k, op) ==
  /\ Idle(t) /\ cur[k].at = "live" /\ Usable(t, k)
  /\ \E c \in HalfFinished(k, Entered(k, op)) : cur' = [cur EXCEPT ![k] = c]
  /\ UNCHANGED <<jvm, registry, cx, stmts, call>> /\ Silent

\* Any step of the call may raise: a JDBC error, an argument of the wrong
\* type, a type without a setter, a closed connection.  A fetch also ends when
\* there are no more rows.
Raise(t) ==
  /\ ~Idle(t)
  /\ Return(t)
  /\ UNCHANGED <<jvm, registry, cx, cur, stmts>> /\ Silent

\* prepareStatement and prepareCall
Prepare(t) ==
  /\ call[t].pc = "prepare"
  /\ cx[cur[call[t].k].cx].open
  /\ Len(stmts) < MaxStmt
  /\ stmts' = Append(stmts, NewStmt(cur[call[t].k].cx, call[t].q))
  /\ cur' = [cur EXCEPT ![call[t].k].statement = Len(stmts) + 1, ![call[t].k].cause = Len(stmts) + 1]
  /\ call' = [call EXCEPT ![t].pc = IF call[t].rows = 0 THEN "batch" ELSE "bind"]
  /\ UNCHANGED <<jvm, registry, cx>> /\ Silent

\* addBatch takes the rows and the batch runs once; without it each row runs.
Batch(t) == call[t].op = "many" /\ cx[cur[call[t].k].cx].batch

\* The setter that the connection finds for a value.
Setter(setters, value) ==
  IF setters = "type" THEN SETTERS_BY_TYPE(Adapt(value)) ELSE SETTERS_BY_META(codes, "VARCHAR")
Bound(t, args, types) ==
  IF args = <<>> THEN NoBind
  ELSE [statement |-> cur[call[t].k].statement, from |-> types, asked |-> call[t].types,
        disturbed |-> call[t].disturbed]

\* _setParams of one row of parameters (no more than one parameter here).
Bind(t, args) ==
  LET k == call[t].k
      types == call[t].ptypes
      setters == cx[cur[k].cx].lookup
  IN
  /\ call[t].pc = "bind" /\ call[t].op # "call"
  /\ stmts[cur[k].statement].open
  /\ args # <<>> => /\ Len(args) = Len(call[t].q.params)
                    /\ types = NoTypes => Setter(setters, args[1]) \notin {NoSetter, NoKey}
  /\ got' = NoRow
  /\ bound' = Bound(t, args, types)
  /\ call' = [call EXCEPT ![t].rows = @ - 1,
                          ![t].sum = IF Batch(t) THEN @ + 1 ELSE @,
                          ![t].ptypes = IF args # <<>> /\ setters = "name" /\ types = NoTypes
                                        THEN cur[k].statement ELSE @,
                          ![t].pc = IF ~Batch(t) THEN "run"
                                    ELSE IF call[t].rows = 1 THEN "batch" ELSE "bind"]
  /\ UNCHANGED <<jvm, registry, cx, cur, stmts>>

\* callproc sets its parameters itself, with the types of the call and without
\* keeping any.  Parameters that the procedure hands back are refused: Cursor
\* has no registerOutParameter.
BindCall(t, args) ==
  LET k == call[t].k IN
  /\ call[t].pc = "bind" /\ call[t].op = "call"
  /\ stmts[cur[k].statement].open
  /\ args # <<>> =>
       /\ call[t].q.params = <<"in">>
       /\ call[t].types = NoTypes
            => Setter(cx[cur[k].cx].lookup, args[1]) \notin {NoSetter, NoKey}
  /\ got' = NoRow
  /\ bound' = Bound(t, args, call[t].types)
  /\ call' = [call EXCEPT ![t].rows = @ - 1, ![t].pc = "run"]
  /\ UNCHANGED <<jvm, registry, cx, cur, stmts>>

\* Mutant: the column types of the previous result set are kept.
OnResultSetKeep(c, s, p) == [c EXCEPT !.rs = <<s, p>>, !.counted = "own"]

\* _onResultSet
OnResultSet(c, s, p) == [c EXCEPT !.rs = <<s, p>>, !.counted = "own", !.cols = NoSet]

\* A JDBC call raises when the statement has moved to result p: before
\* _onResultSet has assigned anything, in getColumnCount, which leaves the
\* column count and the column types of an earlier set, or after it.
Interrupted(c, s, p) ==
  {c} \cup (IF Moved(s, p)[s].reading
            THEN {[c EXCEPT !.rs = <<s, p>>, !.counted = Outdated(@)], OnResultSet(c, s, p)} ELSE {})

\* The cursor after a statement has moved to result p.
Shown(c, s, p) ==
  [IF stmts[s].q.results[p].rows = -1 THEN c ELSE OnResultSet(c, s, p)
     EXCEPT !.rowcount = UpdateCount(s, p)]

\* Mutant: the sum of the counts is taken as it is.
KnownRaw(sum) == sum

\* A sum below zero is not known.
Known(sum) == IF sum < 0 THEN -1 ELSE sum

\* _executeone: a row of parameters runs; executemany then binds the next one.
Run(t) ==
  LET k == call[t].k
      s == cur[k].statement
      sum == call[t].sum + UpdateCount(s, 1)
      many == call[t].op = "many"
  IN
  /\ call[t].pc = "run"
  /\ stmts[s].open
  /\ stmts' = Moved(s, 1)
  /\ cur' = [cur EXCEPT ![k] = [Shown(cur[k], s, 1) EXCEPT
               !.rowcount = IF many /\ call[t].rows = 0 THEN Known(sum) ELSE @]]
  /\ call' = [call EXCEPT ![t] = IF many /\ call[t].rows > 0
                                 THEN [@ EXCEPT !.pc = "bind", !.sum = sum] ELSE NoCall]
  /\ UNCHANGED <<jvm, registry, cx>> /\ Silent

\* The statement has run, and a JDBC call on its result raises.
RunFails(t) ==
  LET k == call[t].k
      s == cur[k].statement
  IN
  /\ call[t].pc = "run"
  /\ stmts[s].open
  /\ stmts' = Moved(s, 1)
  /\ \E c \in Interrupted(cur[k], s, 1) : cur' = [cur EXCEPT ![k] = c]
  /\ Return(t)
  /\ UNCHANGED <<jvm, registry, cx>> /\ Silent

\* executeBatch; a driver may report -2 for a row whose count it does not know.
\* Without batches this is executemany of no rows.
RunBatch(t) ==
  LET k == call[t].k
      n == UpdateCount(cur[k].statement, 1)
  IN
  /\ call[t].pc = "batch"
  /\ Batch(t) => stmts[cur[k].statement].open /\ n # -1
  /\ \E unknown \in 0 .. call[t].sum :
       cur' = [cur EXCEPT ![k].rowcount = Known((call[t].sum - unknown) * n - 2 * unknown)]
  /\ Return(t)
  /\ UNCHANGED <<jvm, registry, cx, stmts>> /\ Silent

-------------------------------------------------------------------------------
\* The type of the column by the getters of the connection.
ColumnType(k, set) ==
  IF cx[cur[k].cx].lookup = "type" THEN GETTERS_BY_TYPE(codes, names, Result(set).col)
  ELSE GETTERS_BY_NAME(codes, names, Result(set).col)

\* The set whose columns _columnTypes of _fetchRow is for: the present one, when
\* the caller gives the types or the getters look for them, or an earlier one
\* whose types were kept.
ColumnTypes(k, given) ==
  IF given \/ cur[k].cols = NoSet THEN cur[k].rs ELSE cur[k].cols

\* There are such types: the getters find one for every column, and know how many.
\* A cursor that has never read a column count has no _resultSetCount.
Found(k, given) ==
  /\ cur[k].counted # "never"
  /\ given \/ cur[k].cols # NoSet \/ ColumnType(k, cur[k].rs) # NoKey

More(set) == stmts[set[1]].row < Result(set).rows
Advanced(set) == [stmts EXCEPT ![set[1]].row = @ + 1]

\* next() moves to a row and _fetchRow hands it to the program.
ReadRow(k, given) ==
  /\ Readable(cur[k].rs) /\ More(cur[k].rs)
  /\ Found(k, given)
  /\ stmts' = Advanced(cur[k].rs)
  /\ cur' = [cur EXCEPT ![k].cols = ColumnTypes(k, given)]
  /\ got' = [set |-> cur[k].rs, cause |-> cur[k].cause, types |-> ColumnTypes(k, given),
             counted |-> cur[k].counted = "own"]
  /\ bound' = NoBind

\* The row is passed over: its type, its value or its converter raises.
SkipRow(k, given) ==
  /\ Readable(cur[k].rs) /\ More(cur[k].rs)
  /\ stmts' = Advanced(cur[k].rs)
  /\ cur' \in {cur} \cup (IF given \/ Found(k, given) THEN {[cur EXCEPT ![k].cols = ColumnTypes(k, given)]} ELSE {})
  /\ Silent

\* fetchone (n = 1), fetchmany and fetchall, with or without types of the caller.
FetchBegin(t, k, n, given) ==
  /\ Owned(t, k) /\ Executed(t, k)
  /\ call' = [call EXCEPT ![t] = [NoCall EXCEPT !.pc = "fetch", !.k = k, !.rows = n,
                                                !.op = IF given /\ n = 1 THEN "given" ELSE "fetch"]]
  /\ cur' = IF given /\ n > 1 THEN [cur EXCEPT ![k].cols = ColumnTypes(k, TRUE)] ELSE cur
  /\ UNCHANGED <<jvm, registry, cx, stmts>> /\ Silent

FetchNext(t) ==
  /\ call[t].pc = "fetch"
  /\ ReadRow(call[t].k, call[t].op = "given")
  /\ call' = [call EXCEPT ![t] = IF call[t].rows = 1 THEN NoCall ELSE [call[t] EXCEPT !.rows = @ - 1]]
  /\ UNCHANGED <<jvm, registry, cx>>

FetchFails(t) ==
  /\ call[t].pc = "fetch"
  /\ SkipRow(call[t].k, call[t].op = "given")
  /\ Return(t)
  /\ UNCHANGED <<jvm, registry, cx>>

\* __iter__ checks the cursor once, when the first row is asked for.
IterBegin(t, k) ==
  /\ Owned(t, k) /\ Executed(t, k)
  /\ ~cur[k].iter
  /\ cur' = [cur EXCEPT ![k].iter = TRUE]
  /\ UNCHANGED <<jvm, registry, cx, stmts, call>> /\ Silent

IterNext(t, k) ==
  /\ Owned(t, k) /\ cur[k].iter
  /\ ReadRow(k, FALSE)
  /\ UNCHANGED <<jvm, registry, cx, call>>

IterFails(t, k) ==
  /\ Owned(t, k) /\ cur[k].iter
  /\ Readable(cur[k].rs) /\ More(cur[k].rs)
  /\ stmts' = Advanced(cur[k].rs)
  /\ cur' = [cur EXCEPT ![k].iter = FALSE]
  /\ UNCHANGED <<jvm, registry, cx, call>> /\ Silent

\* The rows are at an end, or the cursor has no result set any more.
IterEnd(t, k) ==
  /\ Owned(t, k) /\ cur[k].iter
  /\ ~(Readable(cur[k].rs) /\ More(cur[k].rs))
  /\ cur' = [cur EXCEPT ![k].iter = FALSE]
  /\ UNCHANGED <<jvm, registry, cx, stmts, call>> /\ Silent

\* nextset: close() of the current set, then getMoreResults.
NextSet(t, k) ==
  LET s == cur[k].statement
      p == stmts[s].pos + 1
  IN
  /\ Owned(t, k)
  /\ cur[k].rs # NoSet
  /\ stmts[s].open
  /\ p \leq Len(stmts[s].q.results) + 1
  /\ stmts' = Moved(s, p)
  /\ cur' = [cur EXCEPT ![k] = IF Moved(s, p)[s].reading THEN OnResultSet(@, s, p)
                               ELSE [@ EXCEPT !.rowcount = UpdateCount(s, p)]]
  /\ UNCHANGED <<jvm, registry, cx, call>> /\ Silent

\* A JDBC call raises when getMoreResults has moved the statement, the set it
\* was reading being closed.
NextSetFails(t, k) ==
  LET s == cur[k].statement
      p == stmts[s].pos + 1
  IN
  /\ Owned(t, k)
  /\ cur[k].rs # NoSet
  /\ stmts[s].open
  /\ p \leq Len(stmts[s].q.results) + 1
  /\ stmts' = Moved(s, p)
  /\ \E c \in Interrupted(cur[k], s, p) : cur' = [cur EXCEPT ![k] = c]
  /\ UNCHANGED <<jvm, registry, cx, call>> /\ Silent

\* description, which is kept once it has been asked for.
Describe(t, k) ==
  /\ Owned(t, k)
  /\ cur[k].desc = None
  /\ Readable(cur[k].rs)
  /\ cur' = [cur EXCEPT ![k].desc = cur[k].statement]
  /\ UNCHANGED <<jvm, registry, cx, stmts, call>> /\ Silent

\* lastrowid of a statement that made keys.
LastRowId(t, k) ==
  /\ Owned(t, k)
  /\ cur[k].last = None /\ cur[k].statement # None
  /\ stmts[cur[k].statement].open
  /\ cur' = [cur EXCEPT ![k].last = cur[k].statement]
  /\ UNCHANGED <<jvm, registry, cx, stmts, call>> /\ Silent

-------------------------------------------------------------------------------
\* close() checks the thread and __exit__ does not.
Closable(t, k) ==
  /\ jvm /\ Idle(t)
  /\ cur[k].at = "live" /\ ~cur[k].closed
  /\ \A u \in Thread : call[u].k # k

\* close() and __exit__ of a cursor
CursorClose(t, k) ==
  /\ Closable(t, k)
  /\ cur' = [cur EXCEPT ![k] = [Finished(Rest(k)) EXCEPT !.closed = TRUE]]
  /\ stmts' = FinishedStmts(k)
  /\ UNCHANGED <<jvm, registry, cx, call>> /\ Silent

CursorCloseFails(t, k) ==
  /\ Closable(t, k)
  /\ \E c \in HalfFinished(k, cur[k]) : cur' = [cur EXCEPT ![k] = c]
  /\ UNCHANGED <<jvm, registry, cx, stmts, call>> /\ Silent

\* The program lets go of a cursor that no call is using.
CursorDrop(k) ==
  /\ cur[k].at = "live"
  /\ \A t \in Thread : call[t].k # k
  /\ cur' = [cur EXCEPT ![k] = [Rest(k) EXCEPT !.at = "dropped"]]
  /\ UNCHANGED <<jvm, registry, cx, stmts, call>> /\ Silent

\* Mutant: the finalizer closes nothing unless rows are still open.
CursorDelLazy(k) ==
  /\ cur[k].at = "dropped"
  /\ cur' = [cur EXCEPT ![k] = [NoCursor EXCEPT !.at = "gone"]]
  /\ stmts' = IF jvm /\ ~cur[k].closed /\ cur[k].rs # NoSet THEN FinishedStmts(k) ELSE stmts
  /\ UNCHANGED <<jvm, registry, cx, call>> /\ Silent

\* Cursor.__del__
CursorDel(k) ==
  /\ cur[k].at = "dropped"
  /\ cur' = [cur EXCEPT ![k] = [NoCursor EXCEPT !.at = "gone"]]
  /\ stmts' = IF jvm /\ ~cur[k].closed THEN FinishedStmts(k) ELSE stmts
  /\ UNCHANGED <<jvm, registry, cx, call>> /\ Silent

\* It swallows the error of a close(); nothing tries again.
CursorDelFails(k) ==
  /\ cur[k].at = "dropped"
  /\ jvm /\ ~cur[k].closed
  /\ HalfFinished(k, cur[k]) # {}
  /\ cur' = [cur EXCEPT ![k] = [NoCursor EXCEPT !.at = "lost", !.statement = cur[k].statement]]
  /\ UNCHANGED <<jvm, registry, cx, stmts, call>> /\ Silent

ConnDrop(c) ==
  /\ cx[c].at = "live"
  /\ cx' = [cx EXCEPT ![c].at = "dropped"]
  /\ UNCHANGED <<jvm, registry, cur, stmts, call>> /\ Silent

\* A cursor keeps its connection.
Unused(c) == \A k \in Cursors : cur[k].cx # c

\* Connection.__del__
ConnDel(c) ==
  /\ cx[c].at = "dropped" /\ Unused(c)
  /\ IF jvm /\ ~cx[c].closed
     THEN /\ cx' = [Disconnected(c) EXCEPT ![c].at = "gone"]
          /\ stmts' = AllClosed(c)
     ELSE /\ cx' = [cx EXCEPT ![c].at = "gone"]
          /\ UNCHANGED stmts
  /\ UNCHANGED <<jvm, registry, cur, call>> /\ Silent

ConnDelFails(c) ==
  /\ cx[c].at = "dropped" /\ Unused(c)
  /\ jvm /\ ~cx[c].closed /\ cx[c].open
  /\ cx' = [cx EXCEPT ![c].at = "lost"]
  /\ UNCHANGED <<jvm, registry, cur, stmts, call>> /\ Silent

\* The JVM goes, and every JDBC object with it; whatever asks for one raises.
Shutdown ==
  /\ jvm
  /\ jvm' = FALSE
  /\ cx' = [c \in Conn |-> [cx[c] EXCEPT !.open = FALSE]]
  /\ stmts' = [s \in DOMAIN stmts |-> ClosedStmt(stmts[s].cx)]
  /\ cur' = [k \in Cursors |-> [Rest(k) EXCEPT !.rs = NoSet]]
  /\ UNCHANGED <<registry, call>> /\ Silent

-------------------------------------------------------------------------------
OnConnection(t, c) ==
  \/ Connect(t, c) \/ ConnectFails(t, c) \/ ConnClose(t, c)
  \/ \E lookup \in {"type", "name"} : SetLookup(t, c, lookup)
  \/ \E k \in Cursors : NewCursor(t, c, k)

OnCursor(t, k) ==
  \/ \E op \in {"one", "many", "call"}, types \in {NoTypes, Given} :
       \/ BeginRejected(t, k, op, types)
       \/ \E q \in Query, rows \in 0 .. MaxRows : Begin(t, k, op, q, types, rows)
  \/ \E op \in {"one", "many", "call"} : BeginFails(t, k, op)
  \/ \E n \in 1 .. 2, given \in BOOLEAN : FetchBegin(t, k, n, given)
  \/ IterBegin(t, k) \/ IterNext(t, k) \/ IterFails(t, k) \/ IterEnd(t, k)
  \/ NextSet(t, k) \/ NextSetFails(t, k) \/ Describe(t, k) \/ LastRowId(t, k)
  \/ CursorClose(t, k) \/ CursorCloseFails(t, k)

InCall(t) ==
  \/ Raise(t) \/ Prepare(t) \/ Run(t) \/ RunFails(t) \/ RunBatch(t)
  \/ FetchNext(t) \/ FetchFails(t)
  \/ \E args \in {<<>>, <<"Decimal">>, <<"object">>} : Bind(t, args) \/ BindCall(t, args)

Collect(k) == CursorDel(k) \/ CursorDelFails(k)
CollectConn(c) == ConnDel(c) \/ ConnDelFails(c)

Next ==
  \/ \E t \in Thread : \/ InCall(t)
                       \/ \E c \in Conn : OnConnection(t, c)
                       \/ \E k \in Cursors : OnCursor(t, k)
  \/ \E k \in Cursors : CursorDrop(k) \/ Collect(k)
  \/ \E c \in Conn : ConnDrop(c) \/ CollectConn(c)
  \/ \E u \in UserType : NewType(u)
  \/ Shutdown

Spec == Init /\ [][Next]_vars

-------------------------------------------------------------------------------
Sets == {NoSet} \cup ((1 .. MaxStmt) \X (Nat \ {0}))

\* Every variable has its type.
TypeOK ==
  /\ jvm \in BOOLEAN
  /\ \A c \in Conn : cx[c].at \in {"none", "live", "dropped", "gone", "lost"}
  /\ \A k \in Cursors :
       /\ cur[k].at \in {"none", "live", "dropped", "gone", "lost"}
       /\ cur[k].at = "live" => cur[k].cx \in Conn /\ cur[k].thread \in Thread
       /\ {cur[k].statement, cur[k].last, cur[k].desc} \subseteq 0 .. Len(stmts)
       /\ {cur[k].rs, cur[k].cols} \subseteq Sets
       /\ cur[k].rowcount \geq -1
  /\ \A t \in Thread : call[t].pc \in {"idle", "prepare", "bind", "batch", "run", "fetch"}
  /\ Len(stmts) \leq MaxStmt

\* What a fetch or an iteration hands out, and what the cursor keeps, belongs to
\* the statement that the cursor prepared last, whatever step of that execute or
\* of an earlier one has raised: the row itself, the column types it is decoded
\* with, the row ids and the description.  Parameters are set with the types that
\* this execute was given, or with none, or with those its own statement has.
\* Two cases are not promised.  A result set whose getColumnCount raised is read
\* with the column count and the column types of an earlier set: types are
\* those of a set whose count was read.  And a call that another thread makes in
\* the middle of an execute is rejected, but has replaced _parameterTypes by then.
CachesCurrent ==
  /\ got.set # NoSet => got.set[1] = got.cause
  /\ got.counted => got.types = got.set
  /\ ~bound.disturbed =>
       bound.from \in IF bound.asked = Given THEN {Given} ELSE {NoTypes, bound.statement}
  /\ \A k \in Cursors : {cur[k].last, cur[k].desc} \subseteq {None, cur[k].statement}

\* No JDBC object is leaked.  A statement that is open, on an open connection, is
\* the statement of exactly one cursor and a connection that is open belongs to a
\* Connection, so that closing or dropping these closes it; the exceptions are a
\* finalizer whose close() has failed and a connect() that has.
NothingLeaked ==
  /\ \A s \in DOMAIN stmts :
       stmts[s].open /\ cx[stmts[s].cx].open =>
         \E k \in Cursors :
           /\ cur[k].statement = s
           /\ ~cur[k].closed /\ cur[k].at \in {"live", "dropped", "lost"}
           /\ \A j \in Cursors \ {k} : cur[j].statement # s
  /\ \A c \in Conn : cx[c].open => ~cx[c].closed /\ cx[c].at \in {"live", "dropped", "lost"}

Columns == [code : Coded, name : {"unknown"}] \cup [code : {"OTHER"}, name : {u.name : u \in UserType}]

\* Every code that the module defines has a type to get a column with, by either
\* lookup and under any name, unless a type of the program has taken the code;
\* and the getter of that type makes None of an SQL NULL, as the rules of DBAPI2
\* have it.  BIT is the exception: its getter answers false (dbapi2.py:178).
LookupTotal ==
  \A col \in Columns :
    LET byName == GETTERS_BY_NAME(codes, names, col)
        byType == GETTERS_BY_TYPE(codes, names, col)
    IN  /\ byName # NoKey
        /\ codes[col.code] \in Coded => byType # NoKey /\ SETTERS_BY_META(codes, col.code) # NoKey
        /\ \A t \in {byName, byType} \ {"BIT"} : Get(t, "null") = "None"
===============================================================================
