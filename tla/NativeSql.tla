------------------------------ MODULE NativeSql ------------------------------
(***************************************************************************)
(* Provider-native SQL (packages/sdk .../sql.py NativeSql): one statement,  *)
(* sent as it is to the connector of a database (sqlite and postgres        *)
(* reader.py) and answered with what became of it.                          *)
(***************************************************************************)
EXTENDS Integers, FiniteSetsExt

CONSTANTS
  Calls,   \* the calls: what is asked, of which connector, in a transaction or not
  MaxSize  \* bound: rows a statement has

VARIABLES
  call,    \* the call
  pc,      \* how far it is
  size,    \* the rows the statement has
  effect,  \* of the statement on the database: "none", "pending" in a transaction, "committed"
  got,     \* the rows the connector fetched
  answer   \* what the caller is told

NoAnswer == [kind |-> "none", commit |-> "none", key |-> FALSE, rows |-> 0]

\* A refusal, an uncertain outcome with its reconciliation reference, an exception of
\* the driver that nothing catches.
Rejected(code) == [kind |-> code, commit |-> "not_started", key |-> FALSE, rows |-> 0]
Unknown == [kind |-> "uncertain_mutation", commit |-> "unknown", key |-> TRUE, rows |-> 0]
Escaped == [kind |-> "driver_error", commit |-> "none", key |-> FALSE, rows |-> 0]

Answer(a) ==
  /\ answer' = a /\ pc' = "answered"
  /\ UNCHANGED <<call, size>>

\* query takes one SELECT without into, locks, functions that change or that are not
\* known, or a write inside it; execute takes anything else
Valid ==
  /\ call.statement.parts = 1
  /\ IF call.op = "query"
     THEN call.statement.kind = "select" /\ call.statement.flags = {}
     ELSE call.statement.kind # "select"

\* What the connector's error makes of the answer: a query is refused, whatever had run;
\* of an execution nobody knows.
Failed(code) == IF call.op = "query" THEN Rejected(code) ELSE Unknown

Validate ==
  /\ pc = "called"
  /\ IF ~ Valid THEN Answer(Rejected("invalid_sql"))
     ELSE IF call.connector = "file" THEN Answer(Rejected("unsupported_capability"))
     ELSE pc' = "dispatched" /\ UNCHANGED <<call, size, answer>>
  /\ UNCHANGED <<effect, got>>

\* postgres reads no query in a transaction that may write
Conflicts == call.op = "query" /\ call.inTransaction /\ call.connector = "postgres"

Conflict ==
  /\ pc = "dispatched" /\ Conflicts
  /\ Answer(Failed("execution_failed"))
  /\ UNCHANGED <<effect, got>>

\* A connection of its own cannot be made.  sqlite's execute makes it outside of the
\* code that turns the driver's exceptions into connector errors.
ConnectFails ==
  /\ pc = "dispatched" /\ ~ call.inTransaction
  /\ Answer(IF call.connector = "sqlite" /\ call.op = "execute" THEN Escaped ELSE Failed("authentication"))
  /\ UNCHANGED <<effect, got>>

StatementFails ==
  /\ pc = "dispatched" /\ ~ Conflicts
  /\ Answer(Failed("execution_failed"))
  /\ UNCHANGED <<effect, got>>

\* A variant: the connector is asked for no row more than the limit.
FetchedToTheLimit == Min({size, call.maxRows})

\* the connector fetches to its limit, one row above the caller's
Fetched == Min({size, call.maxRows + 1})

Fetch ==
  /\ pc = "dispatched" /\ call.op = "query" /\ ~ Conflicts
  /\ got' = Fetched /\ pc' = "done"
  /\ UNCHANGED <<call, size, effect, answer>>

\* the statement runs; sqlite commits a definition at once when no transaction is open
Run ==
  /\ pc = "dispatched" /\ call.op = "execute"
  /\ effect' = IF call.connector = "sqlite" /\ call.statement.kind = "ddl" /\ ~ call.inTransaction
               THEN "committed" ELSE "pending"
  /\ pc' = IF call.inTransaction THEN "done" ELSE "commit"
  /\ UNCHANGED <<call, size, got, answer>>

Commit ==
  /\ pc = "commit"
  /\ effect' = "committed" /\ pc' = "done"
  /\ UNCHANGED <<call, size, got, answer>>

\* The commit raises and the connection is closed: what was pending is rolled back, or
\* a server had committed it and its reply was lost.
CommitFails ==
  /\ pc = "commit"
  /\ effect' \in IF effect = "committed" THEN {"committed"}
                 ELSE IF call.connector = "postgres" THEN {"none", "committed"} ELSE {"none"}
  /\ Answer(Failed("execution_failed"))
  /\ UNCHANGED got

\* A variant: an execution that took too long is refused like a query.
LateIsRefused(late) ==
  IF late THEN Rejected("timeout")
  ELSE [kind |-> "succeeded", commit |-> "committed", key |-> TRUE, rows |-> 0]

\* what a completed execution answers; too late, it is uncertain
Executed(late) ==
  IF late THEN Unknown
  ELSE [kind |-> "succeeded", commit |-> "committed", key |-> TRUE, rows |-> 0]

\* the rows a query answers with, unless there are too many or they are too late
Queried(late) ==
  IF got > call.maxRows THEN Rejected("resource_limit")
  ELSE IF late THEN Rejected("timeout")
  ELSE [kind |-> "succeeded", commit |-> "not_applicable", key |-> FALSE, rows |-> got]

Respond ==
  /\ pc = "done"
  /\ \E late \in BOOLEAN : Answer(IF call.op = "query" THEN Queried(late) ELSE Executed(late))
  /\ UNCHANGED <<effect, got>>

NativeInit ==
  /\ call \in Calls /\ size \in 0 .. MaxSize
  /\ pc = "called" /\ effect = "none" /\ got = 0 /\ answer = NoAnswer

NativeNext ==
  \/ Validate \/ Conflict \/ ConnectFails \/ StatementFails \/ Fetch \/ Run \/ Commit \/ CommitFails
  \/ Respond

-----------------------------------------------------------------------------
\* A statement that was refused had no effect and one answered as committed is
\* committed, or waits for the end of the transaction it ran in; in doubt the answer
\* says so and names the key.  A query answers with all its rows or none
\* (sql.py query, execute).
NativeIsHonest ==
  pc = "answered" =>
    /\ answer.commit = "not_started" => effect = "none"
    /\ answer.commit = "committed" => effect = IF call.inTransaction THEN "pending" ELSE "committed"
    /\ effect # "none" => answer.key
    /\ call.op = "query" => effect = "none" /\ (answer.kind = "succeeded" => answer.rows = size)
=============================================================================
