----------------------------- MODULE SQLiteStore -----------------------------
(***************************************************************************)
(* sqlite/temporal.py, SQLiteManagedTemporalStore: the snapshot lifecycle  *)
(* in one SQLite database.  Every call is a transaction of a connection of *)
(* its own: BEGIN IMMEDIATE admits one writer, which works on its private  *)
(* view until COMMIT installs it in the database, or an exception or the   *)
(* death of its process rolls it back.  current() reads the pointer and    *)
(* the snapshot in two read transactions, and writers may commit between   *)
(* them.                                                                   *)
(*                                                                         *)
(* One logical target: _bind_target refuses any other.  No name of this    *)
(* module is one of PostgresStore, so that one module can be about both.   *)
(***************************************************************************)
EXTENDS ManagedTables

CONSTANT Process  \* processes using the database

ASSUME ProcessAssumption == None \notin Process

VARIABLES
  database,     \* the database
  view,         \* what the writer's transaction sees; the database if none runs
  writer,       \* holder of the write lock
  called,       \* what the writer was called with
  executed,     \* the writer's statements are done, COMMIT is next
  observed,     \* client -> snapshot its current() found in the pointer
  acknowledged  \* stages a commit receipt was returned for, a history

sqliteVars == <<database, view, writer, called, executed, observed, acknowledged>>

SQLiteTypeOK ==
  /\ database \in Tables
  /\ view \in Tables
  /\ writer \in Process \cup {None}
  /\ called \in Request \cup {None}
  /\ executed \in BOOLEAN
  /\ observed \in [Process -> Content \cup {None}]
  /\ acknowledged \subseteq Stage

\* __init__ creates the tables.
SQLiteInit ==
  /\ database = NoRows
  /\ view = NoRows
  /\ writer = None
  /\ called = None
  /\ executed = FALSE
  /\ observed = [p \in Process |-> None]
  /\ acknowledged = {}

-----------------------------------------------------------------------------
(* _connection(immediate=True)                                             *)

\* BEGIN IMMEDIATE; a writer that waits too long raises and changes nothing.
Begin(p, r) ==
  /\ writer = None
  /\ writer' = p
  /\ called' = r
  /\ UNCHANGED <<database, view, executed, observed, acknowledged>>

Writing(p, op) == writer = p /\ ~executed /\ called.op = op

\* The statements of a handler are done, its view is w.
Write(w) ==
  /\ view' = w
  /\ executed' = TRUE
  /\ UNCHANGED <<database, writer, called, observed>>

\* COMMIT or ROLLBACK leaves the database db.
Finish(db) ==
  /\ database' = db
  /\ view' = db
  /\ writer' = None
  /\ called' = None
  /\ executed' = FALSE
  /\ UNCHANGED observed

\* COMMIT succeeds, then the receipt is returned.
CommitTransaction(p) ==
  /\ writer = p
  /\ executed
  /\ Finish(view)
  /\ acknowledged' =
       IF called.op = "commit" THEN acknowledged \cup {called.stage} ELSE acknowledged

\* Whatever leaves the block - a refusal, a conflict, the deadline, the fault
\* injected before the pointer update, a failing COMMIT, the death of the
\* process - rolls back, before or after the statements.
Rollback(p) ==
  /\ writer = p
  /\ Finish(database)
  /\ UNCHANGED acknowledged

-----------------------------------------------------------------------------
(* stage, commit, abort                                                    *)

AnswerStage(p) ==
  /\ Writing(p, "stage")
  /\ StageFound(view, called.stage)
  /\ Write(view)
  /\ UNCHANGED acknowledged

InsertStage(p) ==
  /\ Writing(p, "stage")
  /\ MayStage(view, called.stage)
  /\ Write(RowsOfStage(view, called.stage))
  /\ UNCHANGED acknowledged

AnswerCommit(p) ==
  /\ Writing(p, "commit")
  /\ CommitFound(view, called.stage, called.key)
  /\ Write(view)
  /\ UNCHANGED acknowledged

InsertCommit(p) ==
  /\ Writing(p, "commit")
  /\ MayCommit(view, called.stage, called.key)
  /\ Write(RowsOfCommit(view, called.stage))
  /\ UNCHANGED acknowledged

AnswerAbort(p) ==
  /\ Writing(p, "abort")
  /\ ~MayRemove(view, called.stage)
  /\ Write(view)
  /\ UNCHANGED acknowledged

RemoveStage(p) ==
  /\ Writing(p, "abort")
  /\ MayRemove(view, called.stage)
  /\ Write(RowsOfAbort(view, called.stage))
  /\ UNCHANGED acknowledged

-----------------------------------------------------------------------------
(* current                                                                 *)

\* First read transaction: the row with current = 1; two of them raise.
CurrentReadsPointer(p) ==
  /\ observed[p] = None
  /\ \E k \in Key :
       /\ database.current = {k}
       /\ observed' = [observed EXCEPT ![p] = database.commits[k].content]
  /\ UNCHANGED <<database, view, writer, called, executed, acknowledged>>

\* Second read transaction, read_snapshot: the bytes or SNAPSHOT_UNAVAILABLE.
CurrentReadsSnapshot(p) ==
  /\ observed[p] # None
  /\ observed' = [observed EXCEPT ![p] = None]
  /\ UNCHANGED <<database, view, writer, called, executed, acknowledged>>

-----------------------------------------------------------------------------
SQLiteNext ==
  \E p \in Process :
    \/ \E r \in Request : Begin(p, r)
    \/ AnswerStage(p) \/ InsertStage(p)
    \/ AnswerCommit(p) \/ InsertCommit(p)
    \/ AnswerAbort(p) \/ RemoveStage(p)
    \/ CommitTransaction(p) \/ Rollback(p)
    \/ CurrentReadsPointer(p) \/ CurrentReadsSnapshot(p)

SQLiteSpec == SQLiteInit /\ [][SQLiteNext]_sqliteVars

-----------------------------------------------------------------------------
\* current() meets exactly one current row once there is a commit, although a
\* commit moves it in two statements that may be rolled back between them.
OneCurrentRow == OneCurrentIn(database)

\* No interleaving of stages, commits, aborts and rollbacks leaves a commit row
\* without its stage, its mark or its snapshot.
CommitRowsWhole == CommitRowsCompleteIn(database)

\* A commit that was answered stays committed, whatever is rolled back, aborted
\* or staged afterwards.
AcknowledgedIsDurable ==
  \A s \in acknowledged : database.commits[s.key] = s

\* Between current()'s two transactions another commit may replace the
\* pointer, but never takes away the snapshot that was found.
CurrentFindsItsSnapshot ==
  \A p \in Process : observed[p] # None => observed[p] \in database.snapshots

RowsTarget == INSTANCE ManagedTarget WITH
  staged <- Staged(database),
  committed <- Committed(database),
  current <- Current(database)

\* The store implements the managed target, rollbacks and crashes included.
ImplementsManagedTarget == RowsTarget!Spec

\* Every commit row has its stage and its snapshot, and current(), which reads
\* in two transactions, finds the snapshot the first one named
\* (sqlite/temporal.py commit, abort, current, read_snapshot).
RowsAreWhole == CommitRowsWhole /\ CurrentFindsItsSnapshot
=============================================================================
