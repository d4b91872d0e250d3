------------------------------ MODULE TableStore ------------------------------
(* Tables of one database as the SQLite and PostgreSQL connectors write them,  *)
(* alone or inside a transaction, and the SDK's table transaction on top.      *)
(* A write is two or three statements on a connection: DROP TABLE (replace),   *)
(* CREATE TABLE and the INSERT of its two rows.  Without a transaction the     *)
(* connector opens a connection for the call, commits and closes it.  With one,*)
(* the statements go to the transaction's connection, which the connector      *)
(* finds in a context variable: a task started while a transaction is open     *)
(* inherits the variable, and only the context that finishes the transaction   *)
(* clears its own.                                                             *)
(* Python's sqlite3 opens a transaction at the first INSERT only, so that a    *)
(* DROP or CREATE before it is in force at once; PostgreSQL's DDL is part of   *)
(* the transaction, and a failed statement dooms it.  Any statement may fail   *)
(* for reasons of the database's own.  The read of a table changes nothing and *)
(* appears as what a context sees.                                             *)
EXTENDS Naturals, Sequences, FiniteSets

CONSTANTS Contexts,    \* threads and tasks that use the connector
          Root,        \* the context whose event loop runs the tasks
          Tasks,       \* the other contexts that Root starts, which copy its variable
          TableNames,  \* tables of the database
          Txs,         \* bound: transactions begun
          MaxWrites,   \* bound: frames written
          Nothing      \* no transaction, no context

ASSUME StoreAssumption ==
  /\ Root \in Contexts \ Tasks /\ Tasks \subseteq Contexts
  /\ Contexts \cap Txs = {} /\ Nothing \notin Contexts \cup Txs
  /\ MaxWrites \in Nat

VARIABLES connector,  \* the connector in use
          db,         \* per table: does it exist, and its committed rows
          conn,       \* connections: one per call (named by its context) or transaction
          active,     \* per context: what the context variable holds
          born,       \* contexts started
          writing,    \* per context: the write or SDK transaction in progress
          history     \* history: per write its table, connection, answer, and
                      \* the writes whose rows it dropped

tableVars == <<connector, db, conn, active, born, writing, history>>

Writes == 1..MaxWrites
AllRows == Writes \X {1, 2}
RowsOf(w) == {w} \X {1, 2}
Modes == {"append", "error", "replace", "execute"}

\* What a connection has changed in a table and not committed: `own` says it
\* dropped or created the table, which then holds only the connection's rows.
Same == [own |-> FALSE, there |-> FALSE, rows |-> {}]
Fresh == [open |-> TRUE, begun |-> FALSE, failed |-> FALSE, closer |-> Nothing, kept |-> FALSE,
          change |-> [t \in TableNames |-> Same]]
Closed(c, kept) == [Fresh EXCEPT !.open = FALSE, !.closer = c, !.kept = kept]

Idle == [kind |-> "idle", table |-> Nothing, mode |-> "append", todo |-> <<>>,
         step |-> "none", on |-> Nothing]
NoWrite == [table |-> Nothing, on |-> Nothing, answer |-> "none", over |-> {}]

Written == {w \in Writes : history[w].answer # "none"}
NextWrite == Cardinality(Written) + 1

\* Contexts of one thread run their calls one at a time.
Loop == {Root} \cup Tasks
Free(c) == /\ c \in born
           /\ \A d \in IF c \in Loop THEN Loop ELSE {c} : writing[d] = Idle

-----------------------------------------------------------------------------
(* What a connection sees and what its statements do.                        *)

View(k, t) ==
  LET mine == conn[k].change[t]
  IN IF mine.own THEN [there |-> mine.there, rows |-> mine.rows]
     ELSE [there |-> db[t].there, rows |-> db[t].rows \cup mine.rows]

\* A variant: the open transaction is the connector's, not a context's.
SharedSeen(c, t) ==
  IF \E x \in Txs : conn[x].open THEN View(CHOOSE x \in Txs : conn[x].open, t).rows
  ELSE db[t].rows

\* What a read in context c returns: the active transaction's view, or what is
\* committed; nothing when the variable holds a transaction already closed.
Seen(c, t) ==
  IF active[c] = Nothing THEN db[t].rows
  ELSE IF conn[active[c]].open THEN View(active[c], t).rows ELSE {}

\* SQLite: one connection at a time may have written.  PostgreSQL: the table
\* lock of a DROP or CREATE, and that of rows against a DROP or CREATE.
Blocked(k, t, ddl) ==
  \E j \in DOMAIN conn \ {k} :
     \/ connector = "sqlite" /\ conn[j].begun
     \/ connector = "postgres" /\ \/ conn[j].change[t].own
                                  \/ ddl /\ conn[j].change[t].rows # {}

Place(k, t, there) == [conn EXCEPT ![k].change[t] =
                          [own |-> TRUE, there |-> there, rows |-> {}]]

\* DDL before the first INSERT of a SQLite connection commits by itself.
SQLiteDdl(k, t, there) ==
  IF conn[k].begun
  THEN conn' = Place(k, t, there) /\ UNCHANGED db
  ELSE /\ db' = [db EXCEPT ![t] = [there |-> there, rows |-> {}]]
       /\ UNCHANGED conn

\* A variant: every statement of a connection commits by itself.
PostgresDdlAtOnce(k, t, there) ==
  db' = [db EXCEPT ![t] = [there |-> there, rows |-> {}]] /\ UNCHANGED conn
PostgresDdl(k, t, there) == conn' = Place(k, t, there) /\ UNCHANGED db

Ddl(k, t, there) ==
  /\ ~Blocked(k, t, TRUE)
  /\ \/ connector = "sqlite" /\ SQLiteDdl(k, t, there)
     \/ connector = "postgres" /\ PostgresDdl(k, t, there)

Add(k, t, rows) == [conn EXCEPT ![k].begun = TRUE, ![k].change[t].rows = @ \cup rows]
Doom(k) == [conn EXCEPT ![k].failed = connector = "postgres"]

\* What a COMMIT leaves.  PostgreSQL answers the COMMIT of a doomed transaction
\* without an error, and rolls it back.
Settled(k) == IF conn[k].failed THEN db ELSE [t \in TableNames |-> View(k, t)]

-----------------------------------------------------------------------------
(* Transactions and contexts.                                                *)

UnusedTxs == {x \in Txs : conn[x].closer = Nothing /\ ~conn[x].open}
TakenBy(x, c) == /\ conn' = [conn EXCEPT ![x] = Fresh]
                 /\ active' = [active EXCEPT ![c] = x]

\* begin_for: refused, with nothing changed, while the variable is set.
BeginTx(c) ==
  /\ Free(c) /\ active[c] = Nothing /\ UnusedTxs # {}
  /\ TakenBy(CHOOSE x \in UnusedTxs : TRUE, c)
  /\ UNCHANGED <<connector, db, born, writing, history>>

\* A task starts with a copy of its parent's context.
StartTask(c) ==
  /\ c \in Tasks \ born /\ Free(Root)
  /\ born' = born \cup {c}
  /\ active' = [active EXCEPT ![c] = active[Root]]
  /\ UNCHANGED <<connector, db, conn, writing, history>>

\* A variant: a COMMIT that fails leaves the variable set.
ClearedOnSuccess(c, x) ==
  IF active[c] = x /\ conn[x].begun = FALSE THEN [active EXCEPT ![c] = Nothing] ELSE active

\* The variable of the context that finishes is cleared, whatever happens.
Cleared(c, x) == IF active[c] = x THEN [active EXCEPT ![c] = Nothing] ELSE active

\* The connection commits or rolls back, and is closed even when that fails.
Close(c, x, commit) ==
  /\ db' = IF commit THEN Settled(x) ELSE db
  /\ conn' = [conn EXCEPT ![x] = Closed(c, commit)]
  /\ active' = Cleared(c, x)

\* How a COMMIT ends.  One that raises, its connection lost or its receipt not
\* made, may have been carried out: the call fails in the same words whether it
\* was ("denied") or not ("failed").
Commits == {"committed", "failed", "denied"}
TookEffect(a) == a \in {"committed", "denied"}

Answered(ws, a) ==
  [w \in Writes |->
     IF w \in ws
     THEN [history[w] EXCEPT !.answer = a,
             !.over = IF a \in {"refused", "undone", "failed"} /\ connector = "postgres"
                      THEN {} ELSE @]
     ELSE history[w]]
StagedIn(x) == {w \in Writes : history[w].on = x /\ history[w].answer = "staged"}

\* commit() or abort() of a transaction by a context that holds it.  Closing
\* the connection rolls back what an abort that raises has left.
FinishTx(c, a) ==
  /\ Free(c) /\ active[c] # Nothing /\ conn[active[c]].open
  /\ Close(c, active[c], TookEffect(a))
  /\ history' = Answered(StagedIn(active[c]), a)
  /\ UNCHANGED <<connector, born, writing>>

-----------------------------------------------------------------------------
(* Writes.                                                                   *)

FirstStep(mode) == CASE mode = "replace" -> "drop"
                     [] mode = "execute" -> "insert"
                     [] OTHER -> "create"

\* The connection of a write: the context's transaction or one of its own.
Route(c) == IF active[c] = Nothing THEN c ELSE active[c]
\* write and execute; a context whose transaction is closed is refused, and
\* nothing changes.
StartWrite(c, t, mode) ==
  /\ Free(c) /\ NextWrite \in Writes
  /\ active[c] # Nothing => conn[active[c]].open
  /\ writing' = [writing EXCEPT ![c] = [kind |-> "write", table |-> t, mode |-> mode,
                                        todo |-> <<NextWrite>>, step |-> FirstStep(mode),
                                        on |-> Route(c)]]
  /\ conn' = IF Route(c) = c THEN [conn EXCEPT ![c] = Fresh] ELSE conn
  /\ history' = [history EXCEPT ![NextWrite] = [table |-> t, on |-> Route(c),
                                                answer |-> "running", over |-> {}]]
  /\ UNCHANGED <<connector, db, active, born>>

\* TableTransaction.commit: the buffered frames go to a new transaction, as
\* appends (SQLite only; the PostgreSQL connector has no SDK transaction).
StartBatch(c, t, n) ==
  LET x == CHOOSE y \in UnusedTxs : TRUE
      ws == NextWrite..(NextWrite + n - 1)
  IN /\ connector = "sqlite" /\ Free(c) /\ active[c] = Nothing
     /\ UnusedTxs # {} /\ ws \subseteq Writes
     /\ TakenBy(x, c)
     /\ writing' = [writing EXCEPT ![c] = [kind |-> "batch", table |-> t, mode |-> "append",
                                           todo |-> [i \in 1..n |-> NextWrite + i - 1],
                                           step |-> "create", on |-> x]]
     /\ history' = [w \in Writes |->
                      IF w \in ws
                      THEN [table |-> t, on |-> x, answer |-> "running", over |-> {}]
                      ELSE history[w]]
     /\ UNCHANGED <<connector, db, born>>

At(c, step) == writing[c].kind # "idle" /\ writing[c].step = step
Healthy(c) == ~conn[writing[c].on].failed
Goto(c, step) == writing' = [writing EXCEPT ![c].step = step]

Drop(c) ==
  LET k == writing[c].on   t == writing[c].table   w == Head(writing[c].todo)
  IN /\ At(c, "drop") /\ Healthy(c)
     /\ Goto(c, "create")
     /\ IF View(k, t).there
        THEN /\ Ddl(k, t, FALSE)
             /\ history' = [history EXCEPT ![w].over = {r[1] : r \in View(k, t).rows}]
        ELSE UNCHANGED <<db, conn, history>>
     /\ UNCHANGED <<connector, active, born>>

CreateIn(c) ==
  LET k == writing[c].on   t == writing[c].table
  IN /\ At(c, "create") /\ Healthy(c)
     /\ Goto(c, "insert")
     /\ IF View(k, t).there
        THEN writing[c].mode # "error" /\ UNCHANGED <<db, conn>>
        ELSE Ddl(k, t, TRUE)
     /\ UNCHANGED <<connector, active, born, history>>

\* After its rows, a write on its own connection commits; one in a transaction
\* has been answered; a batch goes on with the next frame, then commits.
AfterInsert(c) ==
  IF writing[c].on = c THEN [writing EXCEPT ![c].step = "commit"]
  ELSE IF writing[c].kind = "write" THEN [writing EXCEPT ![c] = Idle]
  ELSE [writing EXCEPT ![c].todo = Tail(@),
                       ![c].step = IF Len(writing[c].todo) = 1 THEN "commit" ELSE "create"]

Insert(c) ==
  LET k == writing[c].on   t == writing[c].table   w == Head(writing[c].todo)
  IN /\ At(c, "insert") /\ Healthy(c) /\ View(k, t).there /\ ~Blocked(k, t, FALSE)
     /\ conn' = Add(k, t, RowsOf(w))
     /\ writing' = AfterInsert(c)
     /\ history' = IF k = c THEN history ELSE Answered({w}, "staged")
     /\ UNCHANGED <<connector, db, active, born>>

\* A variant: the SDK transaction goes on to its commit.
CommitsAnyway(c) ==
  IF writing[c].kind = "batch" THEN [writing EXCEPT ![c].step = "commit"]
                               ELSE [writing EXCEPT ![c] = Idle]

\* What a failed statement leads to: a connection of the call's own is closed,
\* a batch aborts its transaction, a transaction stays as it is.
AfterFailure(c) ==
  IF writing[c].kind = "batch" THEN [writing EXCEPT ![c].step = "abort"]
                               ELSE [writing EXCEPT ![c] = Idle]

Failed(c, left) ==
  /\ writing' = AfterFailure(c)
  /\ conn' = IF writing[c].on = c THEN [conn EXCEPT ![c] = Closed(c, FALSE)] ELSE left
  /\ history' = Answered({Head(writing[c].todo)}, "refused")
  /\ UNCHANGED <<connector, db, active, born>>

\* A statement fails and changes nothing: the table exists or does not, a lock
\* is not had in time, the frame does not fit, the disk is full, the
\* transaction is doomed, or the SDK transaction holds an update or a delete.
StatementFails(c) ==
  /\ \E step \in {"drop", "create", "insert"} : At(c, step)
  /\ Failed(c, Doom(writing[c].on))

\* The second row is refused: SQLite keeps the first one in the transaction.
InsertFailsMidway(c) ==
  LET k == writing[c].on   t == writing[c].table   w == Head(writing[c].todo)
  IN /\ At(c, "insert") /\ Healthy(c) /\ View(k, t).there /\ ~Blocked(k, t, FALSE)
     /\ connector = "sqlite"
     /\ Failed(c, Add(k, t, {<<w, 1>>}))

\* The commit of a connection of its own.
CommitOwn(c, a) ==
  /\ At(c, "commit") /\ writing[c].on = c
  /\ db' = IF TookEffect(a) THEN Settled(c) ELSE db
  /\ conn' = [conn EXCEPT ![c] = Closed(c, FALSE)]
  /\ writing' = [writing EXCEPT ![c] = Idle]
  /\ history' = Answered({Head(writing[c].todo)}, a)
  /\ UNCHANGED <<connector, active, born>>

\* The SDK transaction commits or, after a failure, aborts.  When the commit
\* itself fails, the abort finds the transaction closed.
BatchWrites(c) == {w \in Writes : history[w].on = writing[c].on}
FinishBatch(c, a) ==
  /\ writing[c].kind = "batch"
  /\ \/ writing[c].step = "commit" /\ a \in Commits
     \/ writing[c].step = "abort" /\ a = "refused"
  /\ Close(c, writing[c].on, TookEffect(a))
  /\ writing' = [writing EXCEPT ![c] = Idle]
  /\ history' = Answered(BatchWrites(c), a)
  /\ UNCHANGED <<connector, born>>

-----------------------------------------------------------------------------
TableInit ==
  /\ connector \in {"sqlite", "postgres"}
  /\ db \in [TableNames -> [there : BOOLEAN, rows : {{}}]]
  /\ conn = [k \in Contexts \cup Txs |-> [Fresh EXCEPT !.open = FALSE]]
  /\ active = [c \in Contexts |-> Nothing]
  /\ born = Contexts \ Tasks
  /\ writing = [c \in Contexts |-> Idle]
  /\ history = [w \in Writes |-> NoWrite]

Statement(c) == \/ Drop(c) \/ CreateIn(c) \/ Insert(c) \/ StatementFails(c)
                \/ InsertFailsMidway(c)
                \/ \E a \in Commits : CommitOwn(c, a)
                \/ \E a \in Commits \cup {"refused"} : FinishBatch(c, a)

TableNext == \E c \in Contexts :
               \/ BeginTx(c) \/ StartTask(c) \/ Statement(c)
               \/ \E a \in Commits \cup {"undone"} : FinishTx(c, a)
               \/ \E t \in TableNames : \/ \E mode \in Modes : StartWrite(c, t, mode)
                                        \/ \E n \in {1, 2} : StartBatch(c, t, n)

TableSpec == TableInit /\ [][TableNext]_tableVars

-----------------------------------------------------------------------------
WriteAnswers == {"none", "running", "staged", "refused", "undone"} \cup Commits

\* Type invariant.
TableTypeOK ==
  /\ connector \in {"sqlite", "postgres"}
  /\ db \in [TableNames -> [there : BOOLEAN, rows : SUBSET AllRows]]
  /\ conn \in [Contexts \cup Txs ->
       [open : BOOLEAN, begun : BOOLEAN, failed : BOOLEAN, closer : Contexts \cup {Nothing},
        kept : BOOLEAN, change : [TableNames -> [own : BOOLEAN, there : BOOLEAN, rows : SUBSET AllRows]]]]
  /\ active \in [Contexts -> Txs \cup {Nothing}]
  /\ born \subseteq Contexts
  /\ \A w \in Writes : history[w].answer \in WriteAnswers /\ history[w].over \subseteq Writes

\* The writes of a transaction in which a write was refused: what its commit
\* says of them is not to be relied on (PostgreSQL rolled everything back,
\* SQLite may have kept half of the refused one).
Tainted(w) == \E v \in Writes : history[v].on = history[w].on /\ history[w].on \in Txs
                                /\ history[v].answer = "refused"
Dropped(w) == \E v \in Writes : w \in history[v].over

\* What callers cannot tell apart, the writes whose COMMIT raised: those of one
\* transaction, or one on a connection of its own, are there whole or not at
\* all, until a replace drops them.
Raised(w) == history[w].answer \in {"failed", "denied"} /\ ~Tainted(w) /\ ~Dropped(w)
FailedCommitsAreWhole ==
  \A v, w \in Writes :
    (Raised(v) /\ Raised(w) /\ (v = w \/ (history[v].on = history[w].on /\ history[w].on \in Txs)))
      => \/ RowsOf(v) \subseteq db[history[v].table].rows
         \/ RowsOf(w) \cap db[history[w].table].rows = {}

\* A write answered as committed, alone or with its transaction, is in its
\* table whole until a replace drops the table; one whose statement was refused
\* or whose transaction was rolled back has left no row.  In an SDK transaction,
\* that is all of its frames or none, also when a statement or the commit fails
\* (sdk/table.py TableTransaction.commit).
AnswersMatchTables ==
  \A w \in Writes :
    LET t == history[w].table
    IN /\ (history[w].answer = "committed" /\ ~Tainted(w) /\ ~Dropped(w))
             => RowsOf(w) \subseteq db[t].rows
       /\ history[w].answer = "undone" => RowsOf(w) \cap db[t].rows = {}
       /\ (history[w].answer = "refused" /\ ~conn[history[w].on].kept)
             => RowsOf(w) \cap db[t].rows = {}

\* Nobody but the transaction's own contexts sees a row that is not committed,
\* and a context that has none sees nobody's.
NoDirtyReads ==
  \A c \in Contexts, w \in Writes, t \in TableNames :
    (RowsOf(w) \cap Seen(c, t) # {} /\ history[w].answer \in {"running", "staged"})
      => active[c] # Nothing /\ active[c] = history[w].on

\* A context whose variable holds a closed transaction, and can do nothing any
\* more, is one whose transaction another context finished.
OnlyOthersCanStick ==
  \A c \in Contexts :
    (active[c] # Nothing /\ ~conn[active[c]].open) => conn[active[c]].closer # c

\* PostgreSQL's replace never leaves a moment without the table (SQLite's does).
ReplaceLeavesNoGap ==
  [][connector = "postgres" => \A t \in TableNames : db[t].there => db'[t].there]_tableVars

\* A transaction's rows are seen by nobody else, and a closed transaction sticks
\* only to contexts that did not close it (sqlite/reader.py, postgres/reader.py).
TransactionsAreIsolated == NoDirtyReads /\ OnlyOthersCanStick
WritesAreTrue == AnswersMatchTables /\ FailedCommitsAreWhole /\ TransactionsAreIsolated
=============================================================================
