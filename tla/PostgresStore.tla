---------------------------- MODULE PostgresStore ----------------------------
(***************************************************************************)
(* postgres/temporal.py, PostgresManagedTemporalStore: the snapshot        *)
(* lifecycle in a PostgreSQL schema, over connections that may be lost at  *)
(* any time, in particular after COMMIT was sent and before its outcome is *)
(* known.                                                                  *)
(*                                                                         *)
(* Every mutating call takes pg_advisory_xact_lock of the target first and *)
(* holds it to the end of its transaction, so the server runs one such     *)
(* transaction at a time: `running`, working on its private view `working` *)
(* until it installs it in the database `tables` or drops it.  The server  *)
(* ends the transaction of a lost connection by itself, and installs it if *)
(* COMMIT had arrived.  A commit whose transaction failed looks for its    *)
(* commit row on a new connection, without the lock (_reconcile_commit).   *)
(***************************************************************************)
EXTENDS ManagedTables

CONSTANT Client  \* callers, each with one call at a time

\* A receipt; an error code that says why the call was refused; the deadline
\* error raised after COMMIT; VISIBILITY_INCOMPLETE; the driver's exception.
Answer == {"receipt", "refused", "late", "unknown", "error"}

ASSUME CallerAssumption == None \notin Client \cup Answer

VARIABLES
  tables,     \* the database
  working,    \* the running transaction's view; the database if none runs
  running,    \* "none", "open", "executed" (its statements), "committing" (COMMIT sent)
  owner,      \* the client whose call opened the running transaction
  connected,  \* the owner still listens to it
  request,    \* what the running transaction was opened for
  phase,      \* client -> where its call stands
  asked,      \* client -> its present or last call
  answer      \* client -> what its last call gave

vars == <<tables, working, running, owner, connected, request, phase, asked, answer>>

Phase == {"idle", "waiting", "in_transaction", "committed", "reconciling"}

TypeOK ==
  /\ tables \in Tables
  /\ working \in Tables
  /\ running \in {"none", "open", "executed", "committing"}
  /\ owner \in Client \cup {None}
  /\ connected \in BOOLEAN
  /\ request \in Request \cup {None}
  /\ phase \in [Client -> Phase]
  /\ asked \in [Client -> Request \cup {None}]
  /\ answer \in [Client -> Answer \cup {None}]

Init ==
  /\ tables = NoRows
  /\ working = NoRows
  /\ running = "none"
  /\ owner = None
  /\ connected = FALSE
  /\ request = None
  /\ phase = [p \in Client |-> "idle"]
  /\ asked = [p \in Client |-> None]
  /\ answer = [p \in Client |-> None]

-----------------------------------------------------------------------------
(* The caller's side.                                                      *)

server == <<tables, working, running, owner, connected, request>>

GoTo(p, ph) ==
  /\ phase' = [phase EXCEPT ![p] = ph]
  /\ UNCHANGED <<asked, answer>>

Answers(p, a) ==
  /\ phase' = [phase EXCEPT ![p] = "idle"]
  /\ answer' = [answer EXCEPT ![p] = a]
  /\ UNCHANGED asked

\* An exception that is not a TemporalExtensionError: commit reconciles,
\* stage and abort pass it on.
Fails(p) == IF asked[p].op = "commit" THEN GoTo(p, "reconciling") ELSE Answers(p, "error")

\* A call begins: it validates what it was given, connects and asks for the
\* advisory lock.
Call(p, r) ==
  /\ phase[p] = "idle"
  /\ phase' = [phase EXCEPT ![p] = "waiting"]
  /\ asked' = [asked EXCEPT ![p] = r]
  /\ answer' = [answer EXCEPT ![p] = None]
  /\ UNCHANGED server

\* Variant: a bound on the wait, reported like the other bounds.
WaitRefused(p) ==
  /\ phase[p] = "waiting"
  /\ Answers(p, "refused")
  /\ UNCHANGED server

\* A stage looks at its artifact, the bounds and the descriptor's hash before it
\* connects, whatever an earlier try of the same stage has left running.
StageRefusedEarly(p) ==
  /\ phase[p] = "waiting"
  /\ asked[p].op = "stage"
  /\ Answers(p, "refused")
  /\ UNCHANGED server

\* The connection is refused or lost before the lock is granted.
WaitFails(p) ==
  /\ phase[p] = "waiting"
  /\ Fails(p)
  /\ UNCHANGED server

Lock(p) ==
  /\ phase[p] = "waiting"
  /\ running = "none"
  /\ running' = "open"
  /\ owner' = p
  /\ connected' = TRUE
  /\ request' = asked[p]
  /\ GoTo(p, "in_transaction")
  /\ UNCHANGED <<tables, working>>

Mine(p) == owner = p /\ connected

\* The transaction is over, the database is db.
Ends(db) ==
  /\ tables' = db
  /\ working' = db
  /\ running' = "none"
  /\ owner' = None
  /\ connected' = FALSE
  /\ request' = None

-----------------------------------------------------------------------------
(* Inside the transaction.                                                 *)

Executing(p, op) == Mine(p) /\ running = "open" /\ request.op = op

Execute(w) ==
  /\ working' = w
  /\ running' = "executed"
  /\ UNCHANGED <<tables, owner, connected, request, phase, asked, answer>>

StageAnswered(p) ==
  /\ Executing(p, "stage")
  /\ StageFound(working, request.stage)
  /\ Execute(working)

StageInserts(p) ==
  /\ Executing(p, "stage")
  /\ MayStage(working, request.stage)
  /\ Execute(RowsOfStage(working, request.stage))

CommitAnswered(p) ==
  /\ Executing(p, "commit")
  /\ CommitFound(working, request.stage, request.key)
  /\ Execute(working)

CommitInserts(p) ==
  /\ Executing(p, "commit")
  /\ MayCommit(working, request.stage, request.key)
  /\ Execute(RowsOfCommit(working, request.stage))

AbortAnswered(p) ==
  /\ Executing(p, "abort")
  /\ ~MayRemove(working, request.stage)
  /\ Execute(working)

AbortRemoves(p) ==
  /\ Executing(p, "abort")
  /\ MayRemove(working, request.stage)
  /\ Execute(RowsOfAbort(working, request.stage))

\* A conflict, an unavailable stage, a bound, or the deadline at the end of
\* stage: raised inside the block, which rolls back.
Refused(p) ==
  /\ Mine(p)
  /\ \/ running = "open" /\ request.op = "commit"
        /\ ~CommitFound(working, request.stage, request.key)
     \/ running \in {"open", "executed"} /\ request.op = "stage"
  /\ Ends(tables)
  /\ Answers(p, "refused")

SendCommit(p) ==
  /\ Mine(p)
  /\ running = "executed"
  /\ running' = "committing"
  /\ UNCHANGED <<tables, working, owner, connected, request, phase, asked, answer>>

\* The connection dies: the caller gets an exception and the server, which
\* notices later, keeps the transaction and its lock for the time being.
ConnectionLost(p) ==
  /\ \/ Mine(p) /\ connected' = FALSE
     \/ phase[p] = "committed" /\ UNCHANGED connected
  /\ Fails(p)
  /\ UNCHANGED <<tables, working, running, owner, request>>

-----------------------------------------------------------------------------
(* The server.                                                             *)

\* COMMIT arrived and succeeds.
ServerCommits ==
  /\ running = "committing"
  /\ Ends(working)
  /\ IF connected THEN GoTo(owner, "committed") ELSE UNCHANGED <<phase, asked, answer>>

\* A statement or COMMIT fails, or the connection is found gone.
ServerDrops ==
  /\ running # "none"
  /\ Ends(tables)
  /\ IF connected THEN Fails(owner) ELSE UNCHANGED <<phase, asked, answer>>

-----------------------------------------------------------------------------
(* The answer.                                                             *)

\* The receipt prepared in the transaction.
Receipt(p) ==
  /\ phase[p] = "committed"
  /\ Answers(p, "receipt")
  /\ UNCHANGED server

\* Variant: the deadline is looked at in the transaction, as sqlite does.
LateInTransaction(p) ==
  /\ Mine(p)
  /\ running = "executed"
  /\ request.op = "commit"
  /\ Ends(tables)
  /\ Answers(p, "late")

\* commit() looks at the deadline once more when the transaction is over.
Late(p) ==
  /\ phase[p] = "committed"
  /\ asked[p].op = "commit"
  /\ Answers(p, "late")
  /\ UNCHANGED server

\* Variant: any commit row of the key is taken for this commit's.
ReconcilesByKey(p) ==
  /\ phase[p] = "reconciling"
  /\ tables.commits[asked[p].key] # None
  /\ Answers(p, "receipt")
  /\ UNCHANGED server

\* The commit row is found, on a new connection and without the lock.
Reconciles(p) ==
  /\ phase[p] = "reconciling"
  /\ CommitFound(tables, asked[p].stage, asked[p].key)
  /\ Answers(p, "receipt")
  /\ UNCHANGED server

\* No row, a row of another stage (its error is swallowed) or no connection.
ReconcileFails(p) ==
  /\ phase[p] = "reconciling"
  /\ Answers(p, "unknown")
  /\ UNCHANGED server

-----------------------------------------------------------------------------
\* What a call does until it is answered.
Progress(p) ==
  \/ StageAnswered(p) \/ StageInserts(p)
  \/ CommitAnswered(p) \/ CommitInserts(p)
  \/ AbortAnswered(p) \/ AbortRemoves(p)
  \/ Refused(p) \/ SendCommit(p)
  \/ Receipt(p) \/ Late(p) \/ Reconciles(p) \/ ReconcileFails(p)

Server == ServerCommits \/ ServerDrops

Next ==
  \/ \E p \in Client :
       \/ \E r \in Request : Call(p, r)
       \/ StageRefusedEarly(p) \/ WaitFails(p) \/ Lock(p) \/ Progress(p) \/ ConnectionLost(p)
  \/ Server

Spec == Init /\ [][Next]_vars

-----------------------------------------------------------------------------
\* current() meets exactly one current row once there is a commit.
OneCurrent == OneCurrentIn(tables)

\* Lost connections never leave a commit row without its stage, its mark or its
\* snapshot.
CommitRowsComplete == CommitRowsCompleteIn(tables)

\* "They never return success speculatively"
\* (docs/superpowers/specs/2026-08-29-portable-time-series-storage-design.md:488):
\* a receipt of a commit, from its own transaction or reconciled, is only given
\* when its stage is the one committed under the key.
ReceiptMeansCommitted ==
  \A p \in Client :
    answer[p] = "receipt" /\ asked[p].op = "commit" =>
      tables.commits[asked[p].key] = asked[p].stage

\* A commit that is refused with a code is decided: no transaction of an earlier
\* try of the same commit is still on its way.  (A stage that is refused is not:
\* it may be refused before it connects, while an earlier try is still running.)
RefusedIsDecided ==
  \A p \in Client :
    ~ /\ answer[p] = "refused" /\ asked[p].op = "commit"
      /\ running # "none" /\ owner = p
      /\ request = asked[p]

\* The deadline raised after COMMIT does not undo anything: retrying the late
\* commit can only answer the receipt.
LateIsCommitted ==
  \A p \in Client :
    answer[p] = "late" => tables.commits[asked[p].key] = asked[p].stage

Target == INSTANCE ManagedTarget WITH
  staged <- Staged(tables),
  committed <- Committed(tables),
  current <- Current(tables)

\* The store implements the managed target, lost connections included.
ImplementsTarget == Target!Spec

\* A receipt and a late answer are of commits in the tables, and the refusal of
\* a commit is final (postgres/temporal.py commit, _reconcile_commit).
AnswersAreTrue == ReceiptMeansCommitted /\ RefusedIsDecided /\ LateIsCommitted
=============================================================================
