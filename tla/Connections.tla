------------------------------ MODULE Connections ------------------------------
(***************************************************************************)
(* The connections of jpype.dbapi2 that threads share: transactions, the   *)
(* adapters, the isolation level and the list of types, which is read in a *)
(* with statement over a Java result set.  (The cursors are in DbApi.)     *)
(*                                                                         *)
(* External, as JDBC has it: a change of the autocommit mode commits; a    *)
(* commit or a rollback raises in autocommit mode and after close; what    *)
(* close does to an open transaction is left to the driver, which may      *)
(* commit it or roll it back.  A call that only raises leaves no step.     *)
(***************************************************************************)
EXTENDS FiniteSets, Naturals

CONSTANTS Link,      \* connections
          DbUser,    \* Python threads
          Row,       \* rows that may be written
          Level,     \* isolation levels
          Supported  \* the levels that the driver has

ASSUME LevelAssumption == Supported \subseteq Level /\ Supported # {}
ASSUME LinkAssumption == "default" \notin Link /\ "user" \notin Link

VARIABLES
  link,     \* the connections
  dicts,    \* the Python dictionaries of adapters, with who added to them
  durable,  \* the rows in the database
  fate,     \* history: what the program knows of its rows
  dbcall    \* what each thread is doing

dbVars == <<link, dicts, durable, fate, dbcall>>

\* The dictionary of the module, one of the program, and one per connection.
DictRef == {"default", "user"} \cup Link

NoLink == [at |-> "none", auto |-> FALSE, pending |-> {}, level |-> CHOOSE l \in Supported : TRUE,
           adapters |-> "default", own |-> TRUE]
Resting == [pc |-> "idle", c |-> CHOOSE c \in Link : TRUE, body |-> "ok", close |-> "ok", handling |-> FALSE,
            raised |-> "none"]

DbInit ==
  /\ link = [c \in Link |-> NoLink]
  /\ dicts = [d \in DictRef |-> {}]
  /\ durable = {}
  /\ fate = [r \in Row |-> [who |-> "none", is |-> "new"]]
  /\ dbcall = [u \in DbUser |-> Resting]

\* _validate
Valid(c) == link[c].at = "open"

\* The fate of the rows of a connection that are neither kept nor gone.
Settle(c, is) == [r \in Row |-> IF fate[r].who = c /\ fate[r].is = "open" THEN [fate[r] EXCEPT !.is = is]
                                ELSE fate[r]]

-------------------------------------------------------------------------------
\* The adapters of a new connection: a copy of the defaults, none, or the
\* dictionary of the caller.
UseDefaults(c, given) ==
  CASE given = "default" -> <<c, [dicts EXCEPT ![c] = dicts["default"]]>>
    [] given = "none" -> <<c, [dicts EXCEPT ![c] = {}]>>
    [] given = "user" -> <<"user", dicts>>

\* connect; a driver without transactions stays in autocommit mode.
NewLink(c, given, auto) ==
  /\ link[c].at = "none"
  /\ LET used == UseDefaults(c, given) IN
     /\ link' = [link EXCEPT ![c] = [NoLink EXCEPT !.at = "open", !.auto = auto, !.adapters = used[1],
                                                   !.own = given # "user"]]
     /\ dicts' = used[2]
  /\ UNCHANGED <<durable, fate, dbcall>>

\* cx.adapters = v, which raises for what is no mapping.
adapters(c, v) ==
  /\ link[c].at # "none" /\ v # "alien"
  /\ link' = [link EXCEPT ![c].adapters = IF v = "none" THEN c ELSE v, ![c].own = v = "none"]
  /\ dicts' = IF v = "none" THEN [dicts EXCEPT ![c] = {}] ELSE dicts
  /\ UNCHANGED <<durable, fate, dbcall>>

\* cx.adapters[key] = f
AddAdapter(c) ==
  /\ link[c].at # "none"
  /\ dicts' = [dicts EXCEPT ![link[c].adapters] = @ \cup {c}]
  /\ UNCHANGED <<link, durable, fate, dbcall>>

\* cx.isolation_level = level, which raises for what the driver does not have.
isolation_level(c, level) ==
  /\ Valid(c) /\ level \in Supported
  /\ link' = [link EXCEPT ![c].level = level]
  /\ UNCHANGED <<dicts, durable, fate, dbcall>>

-------------------------------------------------------------------------------
\* A cursor of the connection writes a row.
Write(c, r) ==
  /\ Valid(c) /\ fate[r].is = "new"
  /\ IF link[c].auto
     THEN durable' = durable \cup {r} /\ UNCHANGED link
     ELSE link' = [link EXCEPT ![c].pending = @ \cup {r}] /\ UNCHANGED durable
  /\ fate' = [fate EXCEPT ![r] = [who |-> c, is |-> IF link[c].auto THEN "kept" ELSE "open"]]
  /\ UNCHANGED <<dicts, dbcall>>

\* cx.autocommit = enabled
autocommit(c, enabled) ==
  /\ Valid(c) /\ link[c].auto # enabled
  /\ durable' = durable \cup link[c].pending
  /\ link' = [link EXCEPT ![c].auto = enabled, ![c].pending = {}]
  /\ fate' = Settle(c, "committed by the change")
  /\ UNCHANGED <<dicts, dbcall>>

\* commit and rollback look at the mode first, and raise NotSupportedError in
\* autocommit mode.
Ask(u, c, op) ==
  /\ dbcall[u].pc = "idle" /\ Valid(c) /\ ~link[c].auto
  /\ dbcall' = [dbcall EXCEPT ![u] = [Resting EXCEPT !.pc = op, !.c = c]]
  /\ UNCHANGED <<link, dicts, durable, fate>>

Able(c) == Valid(c) /\ ~link[c].auto

\* Mutant: an error of the driver is not passed on.
commitQuiet(u) ==
  LET c == dbcall[u].c IN
  /\ dbcall[u].pc = "commit"
  /\ \/ /\ Able(c)
        /\ durable' = durable \cup link[c].pending
        /\ link' = [link EXCEPT ![c].pending = {}]
     \/ UNCHANGED <<durable, link>>
  /\ fate' = Settle(c, "kept")
  /\ dbcall' = [dbcall EXCEPT ![u] = Resting]
  /\ UNCHANGED dicts

\* commit returns, or raises OperationalError.
commit(u) ==
  LET c == dbcall[u].c IN
  /\ dbcall[u].pc = "commit"
  /\ \/ /\ Able(c)
        /\ durable' = durable \cup link[c].pending
        /\ link' = [link EXCEPT ![c].pending = {}]
        /\ fate' = Settle(c, "kept")
     \/ UNCHANGED <<durable, link, fate>>
  /\ dbcall' = [dbcall EXCEPT ![u] = Resting]
  /\ UNCHANGED dicts

rollback(u) ==
  LET c == dbcall[u].c IN
  /\ dbcall[u].pc = "rollback"
  /\ \/ Able(c) /\ link' = [link EXCEPT ![c].pending = {}] /\ fate' = Settle(c, "gone")
     \/ UNCHANGED <<link, fate>>
  /\ dbcall' = [dbcall EXCEPT ![u] = Resting]
  /\ UNCHANGED <<dicts, durable>>

\* close, the end of a with statement, or the finalizer: the code only closes the
\* Java connection, and the driver ends the transaction its way.
CloseLink(c) ==
  /\ Valid(c)
  /\ link' = [link EXCEPT ![c].at = "closed", ![c].pending = {}]
  /\ fate' = Settle(c, "closed")
  /\ \E ended \in {{}, link[c].pending} : durable' = durable \cup ended
  /\ UNCHANGED <<dicts, dbcall>>

-------------------------------------------------------------------------------
\* __exit__ of a Closeable: an error of close() is not raised when sys.exc_info has
\* another one, that of the body or one that the caller is handling.
closeableExit(body, close, handling) ==
  IF body = "raised" THEN "body"
  ELSE IF close = "raised" /\ ~handling THEN "close" ELSE "none"

\* cx.typeinfo reads a result set in a with statement; a row may name an unknown
\* type, and close() may raise.
typeinfo(u, c, handling) ==
  /\ dbcall[u].pc = "idle" /\ Valid(c)
  /\ \E body, close \in {"ok", "raised"} :
       dbcall' = [dbcall EXCEPT ![u] =
         [Resting EXCEPT !.pc = "answer", !.body = body, !.close = close, !.handling = handling,
                         !.raised = closeableExit(body, close, handling)]]
  /\ UNCHANGED <<link, dicts, durable, fate>>

\* The caller goes on.
Answered(u) ==
  /\ dbcall[u].pc = "answer"
  /\ dbcall' = [dbcall EXCEPT ![u] = Resting]
  /\ UNCHANGED <<link, dicts, durable, fate>>

Connecting ==
  \E c \in Link :
    \/ \E given \in {"default", "none", "user"}, auto \in BOOLEAN : NewLink(c, given, auto)
    \/ CloseLink(c)

Transacting ==
  \/ \E c \in Link :
       \/ \E enabled \in BOOLEAN : autocommit(c, enabled)
       \/ \E r \in Row : Write(c, r)
       \/ \E u \in DbUser, op \in {"commit", "rollback"} : Ask(u, c, op)
  \/ \E u \in DbUser : commit(u) \/ rollback(u)

Setting ==
  \/ \E c \in Link :
       \/ \E v \in {"none", "user", "alien"} : adapters(c, v)
       \/ AddAdapter(c)
       \/ \E level \in Level : isolation_level(c, level)
       \/ \E u \in DbUser, handling \in BOOLEAN : typeinfo(u, c, handling)
  \/ \E u \in DbUser : Answered(u)

-------------------------------------------------------------------------------
\* What the connections promise, whichever threads use them and whenever the mode
\* is changed or a connection closed.  A commit() that returned has kept the rows
\* written so far, a rollback() that returned has undone those since the last
\* commit; of what a close() found open nothing is promised.  "Adapters set on a
\* connection apply only to that connection", unless the program gave its own
\* dictionary.  typeinfo passes on the error of its with statement, and that of
\* close() unless another exception is being handled.
ConnectionHonest ==
  /\ \A r \in Row : /\ fate[r].is = "kept" => r \in durable
                    /\ fate[r].is = "gone" => r \notin durable
  /\ dicts["default"] = {}
  /\ \A c \in Link : link[c].own => dicts[link[c].adapters] \subseteq {c}
  /\ \A u \in DbUser : dbcall[u].pc = "answer" =>
       /\ dbcall[u].body = "raised" => dbcall[u].raised = "body"
       /\ dbcall[u].close = "raised" /\ dbcall[u].raised = "none" => dbcall[u].handling
===============================================================================
