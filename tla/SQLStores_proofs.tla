------------------------- MODULE SQLStores_proofs -------------------------
(***************************************************************************)
(* The safety of PostgresStore and of SQLiteStore, that each of them       *)
(* implements ManagedTarget, and what their clients are told, for any      *)
(* number of callers, keys and contents.                                   *)
(*                                                                         *)
(* What one transaction does to the rows is proved once for both           *)
(* (StageRows, CommitRows, AbortRows, AdvanceKept).                        *)
(*                                                                         *)
(* For PostgreSQL, ServerInv says that the running transaction is at most  *)
(* one step of the managed target ahead of a consistent database, CallInv  *)
(* what a caller may know: it is inside the running transaction exactly if *)
(* it still listens to it, and what it was answered is in the database.    *)
(* For SQLite, SQLiteInv says it of the writer's view, and that what was   *)
(* acknowledged or found as the current snapshot is there.                 *)
(*                                                                         *)
(* Beside the stores run the clients of MCSQLiteStore: FacadeInv is about  *)
(* the rows the SDK's handles point into, RemoteInv about the receipts of  *)
(* the managed store on MaybeAI, CreationInv about the creation of tables  *)
(* there: whose number a call has, what its request may still do and what  *)
(* the provider told it.                                                   *)
(***************************************************************************)
EXTENDS PostgresStore, MCSQLiteStore, FiniteSetTheorems, TLAPS

USE TablesAssumption, CallerAssumption, ProcessAssumption

ServerInv ==
  /\ tables \in Tables /\ Consistent(tables)
  /\ Advance(tables, working)
  /\ running \in {"none", "open"} => working = tables
  /\ owner \in Client \cup {None}
  /\ running = "none" <=> owner = None
  /\ connected \in BOOLEAN
  /\ owner = None => ~connected
  /\ running \in {"none", "open", "executed", "committing"}
  /\ request \in Request \cup {None}
  /\ running # "none" => request \in Request
  /\ (running \in {"executed", "committing"} /\ request.op = "commit") =>
        working.commits[request.key] = request.stage

\* What p's call has been told is true of the database.
Told(p) ==
  (phase[p] = "committed" \/ answer[p] \in {"receipt", "late"}) /\ asked[p].op = "commit" =>
     tables.commits[asked[p].key] = asked[p].stage

CallInv(p) ==
  /\ phase[p] # "idle" => answer[p] = None
  /\ (phase[p] # "idle" \/ answer[p] # None) => asked[p] \in Request
  /\ phase[p] = "in_transaction" <=> Mine(p)
  /\ phase[p] = "in_transaction" => asked[p] = request
  /\ phase[p] = "reconciling" => asked[p].op = "commit"
  /\ answer[p] = "late" => asked[p].op = "commit"
  /\ answer[p] = "refused" /\ asked[p].op = "commit" => owner # p
  /\ Told(p)

CallTypes ==
  /\ phase \in [Client -> Phase]
  /\ asked \in [Client -> Request \cup {None}]
  /\ answer \in [Client -> Answer \cup {None}]

Inv == ServerInv /\ CallTypes /\ \A p \in Client : CallInv(p)

-----------------------------------------------------------------------------
(* What one transaction on the rows keeps, and which step of ManagedTarget *)
(* it is.                                                                  *)

\* A stage identity determines its key and content.
LEMMA StageFields ==
  ASSUME NEW s \in Stage
  PROVE  /\ s.key \in Key /\ s.content \in Content
         /\ s.key # None /\ s.content # None /\ s # None
         /\ s = [key |-> s.key, content |-> s.content]
  BY DEF Stage

\* Creating the tables.
LEMMA NoRowsKept == NoRows \in Tables /\ Consistent(NoRows)
  BY DEF NoRows, Tables, Consistent, OneCurrentIn, CommitRowsCompleteIn

\* stage's INSERT is Stage of the managed target.
LEMMA StageRows ==
  ASSUME NEW db \in Tables, Consistent(db), NEW new, NEW s \in Stage, StageStep(db, new, s)
  PROVE  /\ Kept(db, new)
         /\ Staged(db)[s.key] = None /\ Committed(db)[s.key] = None
         /\ Staged(new) = [Staged(db) EXCEPT ![s.key] = s.content]
         /\ Committed(new) = Committed(db) /\ Current(new) = Current(db)
<1>1. s.key \in Key /\ s.content \in Content
  BY StageFields
<1>2. /\ db.stages[s.key] = None
      /\ new \in Tables
      /\ new.stages = [db.stages EXCEPT ![s.key] = s.content]
      /\ new.committed = db.committed /\ new.commits = db.commits
      /\ new.current = db.current /\ new.snapshots = db.snapshots
  BY <1>1 DEF StageStep, MayStage, RowsOfStage, Tables
<1>3. db.commits[s.key] = None
  BY <1>1, <1>2 DEF Consistent, CommitRowsCompleteIn
<1>4. Kept(db, new)
  <2>1. CommitRowsCompleteIn(new)
    BY <1>1, <1>2, <1>3 DEF Consistent, CommitRowsCompleteIn, Tables
  <2>2. QED BY <1>2, <2>1 DEF Kept, Consistent, OneCurrentIn
<1>5. Staged(new) = [Staged(db) EXCEPT ![s.key] = s.content]
  BY <1>1, <1>2, <1>3 DEF Staged, Tables
<1>6. Staged(db)[s.key] = None /\ Committed(db)[s.key] = None
  BY <1>1, <1>2, <1>3 DEF Staged, Committed
<1>7. Committed(new) = Committed(db) /\ Current(new) = Current(db)
  BY <1>2 DEF Committed, Current
<1>8. QED BY <1>4, <1>5, <1>6, <1>7

\* commit's statements are Commit of the managed target: the new row is complete
\* and the only current one, and no earlier row changes.
LEMMA CommitRows ==
  ASSUME NEW db \in Tables, Consistent(db), NEW new, NEW s \in Stage, CommitStep(db, new, s)
  PROVE  /\ Kept(db, new) /\ new.commits[s.key] = s
         /\ Staged(db)[s.key] # None /\ Committed(db)[s.key] = None
         /\ Committed(new) = [Committed(db) EXCEPT ![s.key] = Staged(db)[s.key]]
         /\ Staged(new) = [Staged(db) EXCEPT ![s.key] = None]
         /\ Current(new) = s.key
<1>1. /\ s.key \in Key /\ s.content \in Content /\ s # None /\ s.content # None
      /\ s = [key |-> s.key, content |-> s.content]
  BY StageFields
<1>2. /\ db.commits[s.key] = None
      /\ db.stages[s.key] = s.content
      /\ new.stages = db.stages
      /\ new.committed = db.committed \cup {s.key}
      /\ new.commits = [db.commits EXCEPT ![s.key] = s]
      /\ new.current = {s.key}
      /\ new.snapshots = db.snapshots \cup {s.content}
  BY DEF CommitStep, MayCommit, RowsOfCommit, Tables
<1>3. new \in Tables
  BY <1>1 DEF CommitStep, RowsOfCommit, Tables
<1>4. new.commits[s.key] = s /\ \A k \in Key \ {s.key} : new.commits[k] = db.commits[k]
  BY <1>1, <1>2 DEF Tables
<1>5. Kept(db, new)
  <2>1. OneCurrentIn(new)
    BY <1>1, <1>2, <1>4 DEF OneCurrentIn
  <2>2. ASSUME NEW k \in Key
        PROVE  /\ new.commits[k] # None =>
                    /\ new.commits[k] = [key |-> k, content |-> new.stages[k]]
                    /\ new.stages[k] \in Content
                    /\ new.stages[k] \in new.snapshots
               /\ k \in new.committed <=> new.commits[k] # None
    <3>1. CASE k = s.key
      BY <1>1, <1>2, <1>4, <3>1
    <3>2. CASE k # s.key
      BY <1>2, <1>4, <3>2 DEF Consistent, CommitRowsCompleteIn
    <3>3. QED BY <3>1, <3>2
  <2>3. QED BY <1>2, <1>3, <1>4, <2>1, <2>2 DEF Kept, Consistent, CommitRowsCompleteIn
<1>6. Staged(db)[s.key] = s.content /\ Committed(db)[s.key] = None
  BY <1>1, <1>2 DEF Staged, Committed
<1>7. Staged(new) = [Staged(db) EXCEPT ![s.key] = None]
  BY <1>1, <1>2 DEF Staged, Tables
<1>8. Committed(new) = [Committed(db) EXCEPT ![s.key] = s.content]
  BY <1>1, <1>2 DEF Committed, Tables
<1>9. Current(new) = s.key
  BY <1>2 DEF Current
<1>10. QED BY <1>1, <1>4, <1>5, <1>6, <1>7, <1>8, <1>9

\* abort's DELETE is Abort of the managed target: what it removes no commit row
\* names.
LEMMA AbortRows ==
  ASSUME NEW db \in Tables, Consistent(db), NEW new, NEW s \in Stage, RemoveStep(db, new, s)
  PROVE  /\ Kept(db, new)
         /\ Staged(db)[s.key] # None
         /\ Staged(new) = [Staged(db) EXCEPT ![s.key] = None]
         /\ Committed(new) = Committed(db) /\ Current(new) = Current(db)
<1>1. s.key \in Key /\ s.content \in Content /\ s.content # None
  BY StageFields
<1>2. /\ db.stages[s.key] = s.content /\ s.key \notin db.committed
      /\ new \in Tables
      /\ new.stages = [db.stages EXCEPT ![s.key] = None]
      /\ new.committed = db.committed /\ new.commits = db.commits
      /\ new.current = db.current /\ new.snapshots = db.snapshots
  BY <1>1 DEF RemoveStep, MayRemove, RowsOfAbort, Tables
<1>3. db.commits[s.key] = None
  BY <1>1, <1>2 DEF Consistent, CommitRowsCompleteIn
<1>4. Kept(db, new)
  <2>1. CommitRowsCompleteIn(new)
    BY <1>1, <1>2, <1>3 DEF Consistent, CommitRowsCompleteIn, Tables
  <2>2. QED BY <1>2, <2>1 DEF Kept, Consistent, OneCurrentIn
<1>5. Staged(db)[s.key] # None
  BY <1>1, <1>2, <1>3 DEF Staged
<1>6. Staged(new) = [Staged(db) EXCEPT ![s.key] = None]
  BY <1>1, <1>2, <1>3 DEF Staged, Tables
<1>7. Committed(new) = Committed(db) /\ Current(new) = Current(db)
  BY <1>2 DEF Committed, Current
<1>8. QED BY <1>4, <1>5, <1>6, <1>7

\* One transaction on consistent rows leaves consistent rows.
LEMMA AdvanceKept ==
  ASSUME NEW db \in Tables, Consistent(db), NEW new, Advance(db, new)
  PROVE  Kept(db, new)
<1>1. CASE new = db
  BY <1>1 DEF Kept
<1>2. ASSUME NEW s \in Stage, StageStep(db, new, s) \/ CommitStep(db, new, s) \/ RemoveStep(db, new, s)
      PROVE  Kept(db, new)
  BY <1>2, StageRows, CommitRows, AbortRows
<1>3. QED BY <1>1, <1>2 DEF Advance

-----------------------------------------------------------------------------
\* What a commit request consists of.
LEMMA CommitFields ==
  ASSUME NEW r \in Request, r.op = "commit"
  PROVE  r.stage \in Stage /\ r.stage # None /\ r.key \in Key
  BY StageFields DEF Request, StageRequest, CommitRequest, AbortRequest

\* Every request names a stage.
LEMMA RequestStage == ASSUME NEW r \in Request PROVE r.stage \in Stage /\ r # None
  BY DEF Request, StageRequest, CommitRequest, AbortRequest

\* The tables as ensure_schema creates them.
LEMMA InvInit == Init => Inv
  BY NoRowsKept
  DEF Init, Inv, ServerInv, CallTypes, CallInv, Told, Advance, Mine, Phase, Answer

\* Installing the view or dropping it leaves a consistent database in which no
\* commit row is lost.
LEMMA EndsKeeps ==
  ASSUME ServerInv, NEW db, db \in {tables, working}, Ends(db)
  PROVE  /\ ServerInv'
         /\ \A k \in Key : tables.commits[k] # None => tables'.commits[k] = tables.commits[k]
<1>1. Kept(tables, working)
  BY AdvanceKept DEF ServerInv
<1>2. /\ db \in Tables /\ Consistent(db)
      /\ \A k \in Key : tables.commits[k] # None => db.commits[k] = tables.commits[k]
  BY <1>1 DEF ServerInv, Kept
<1>3. QED
  BY <1>2 DEF Ends, ServerInv, Advance

\* What a caller was told stays true when a transaction ends.
LEMMA ToldKept ==
  ASSUME NEW p \in Client, CallInv(p), UNCHANGED <<phase[p], asked[p], answer[p]>>,
         \A k \in Key : tables.commits[k] # None => tables'.commits[k] = tables.commits[k]
  PROVE  Told(p)'
<1> SUFFICES ASSUME phase[p] = "committed" \/ answer[p] \in {"receipt", "late"},
                    asked[p].op = "commit"
             PROVE  tables'.commits[asked[p].key] = asked[p].stage
  BY DEF Told
<1>1. asked[p] \in Request
  BY DEF CallInv, Answer
<1>2. asked[p].stage # None /\ asked[p].key \in Key
  BY <1>1, CommitFields
<1>3. tables.commits[asked[p].key] = asked[p].stage
  BY DEF CallInv, Told
<1>4. QED BY <1>2, <1>3

-----------------------------------------------------------------------------
\* The other callers when p moves and no commit row is lost: the transaction
\* they are in is not touched.
LEMMA OthersKept ==
  ASSUME NEW p \in Client, NEW q \in Client, q # p, CallInv(q),
         UNCHANGED <<phase[q], asked[q], answer[q]>>,
         Mine(q)' <=> Mine(q), Mine(q) => request' = request,
         owner' \in {owner, p, None},
         \A k \in Key : tables.commits[k] # None => tables'.commits[k] = tables.commits[k]
  PROVE  CallInv(q)'
<1>1. Told(q)'
  BY ToldKept
<1>2. QED
  BY <1>1 DEF CallInv

\* A caller's own step: neither the server nor another caller changes.
LEMMA CallerStep ==
  ASSUME Inv, NEW p \in Client, UNCHANGED server, CallTypes',
         \A q \in Client : q # p => UNCHANGED <<phase[q], asked[q], answer[q]>>,
         CallInv(p)'
  PROVE  Inv'
<1>1. ServerInv'
  BY DEF Inv, ServerInv, server
<1>2. ASSUME NEW q \in Client, q # p PROVE CallInv(q)'
  BY <1>2, OthersKept DEF Inv, server, Mine
<1>3. QED BY <1>1, <1>2 DEF Inv

\* The statements of a handler: the view advances, the callers stay.
LEMMA ExecuteKeeps ==
  ASSUME Inv, NEW p \in Client, Mine(p), running = "open", NEW w, Execute(w),
         Advance(tables, w),
         request.op = "commit" => w.commits[request.key] = request.stage
  PROVE  Inv'
<1>1. ServerInv'
  BY DEF Inv, ServerInv, Execute, Mine
<1>2. CallTypes' /\ \A q \in Client : CallInv(q)'
  BY DEF Inv, CallTypes, Execute, CallInv, Told, Mine
<1>3. QED BY <1>1, <1>2 DEF Inv

\* A transaction ends, and its owner, if it still listens, moves on.
LEMMA EndsStep ==
  ASSUME Inv, NEW db, db \in {tables, working}, Ends(db), CallTypes',
         \A q \in Client : ~Mine(q) => UNCHANGED <<phase[q], asked[q], answer[q]>>,
         \A q \in Client : Mine(q) => CallInv(q)'
  PROVE  Inv'
<1>1. /\ ServerInv'
      /\ \A k \in Key : tables.commits[k] # None => tables'.commits[k] = tables.commits[k]
  BY EndsKeeps DEF Inv
<1>2. ASSUME NEW q \in Client, ~Mine(q) PROVE CallInv(q)'
  <2>1. Told(q)'
    BY <1>1, <1>2, ToldKept DEF Inv
  <2>2. ~Mine(q)' /\ owner' = None
    BY DEF Ends, Mine
  <2>3. QED
    BY <1>2, <2>1, <2>2 DEF CallInv, Inv, Mine
<1>3. QED
  BY <1>1, <1>2 DEF Inv

\* The request of an executing handler.
LEMMA ExecutingRequest ==
  ASSUME Inv, NEW p \in Client, NEW op, Executing(p, op)
  PROVE  /\ Mine(p) /\ running = "open" /\ working = tables /\ request.op = op
         /\ request \in Request /\ request.stage \in Stage
         /\ op = "commit" => request.key \in Key
<1>1. /\ Mine(p) /\ running = "open" /\ working = tables /\ request.op = op
      /\ request \in Request
  BY DEF Executing, Inv, ServerInv
<1>2. QED BY <1>1, RequestStage, CommitFields

-----------------------------------------------------------------------------
\* Every step of a handler keeps the invariant.
LEMMA StatementsKeep ==
  ASSUME Inv, NEW p \in Client,
         \/ StageAnswered(p) \/ StageInserts(p)
         \/ CommitAnswered(p) \/ CommitInserts(p)
         \/ AbortAnswered(p) \/ AbortRemoves(p)
  PROVE  Inv'
<1>1. CASE StageAnswered(p)
  BY <1>1, ExecutingRequest, ExecuteKeeps DEF StageAnswered, Advance
<1>2. CASE StageInserts(p)
  BY <1>2, ExecutingRequest, ExecuteKeeps DEF StageInserts, Advance, StageStep
<1>3. CASE CommitAnswered(p)
  BY <1>3, ExecutingRequest, ExecuteKeeps DEF CommitAnswered, CommitFound, Advance
<1>4. CASE CommitInserts(p)
  <2> DEFINE s == request.stage
             w == RowsOfCommit(working, s)
  <2>1. Executing(p, "commit") /\ MayCommit(working, s, request.key) /\ Execute(w)
    BY <1>4 DEF CommitInserts
  <2>2. /\ Mine(p) /\ running = "open" /\ working = tables /\ s \in Stage
        /\ request.key = s.key
    BY <2>1, ExecutingRequest DEF MayCommit
  <2>3. CommitStep(tables, w, s)
    BY <2>1, <2>2 DEF CommitStep
  <2>4. Advance(tables, w)
    BY <2>2, <2>3 DEF Advance
  <2>5. w.commits[request.key] = s
    <3>1. tables \in Tables /\ Consistent(tables)
      BY DEF Inv, ServerInv
    <3>2. QED BY <2>2, <2>3, <3>1, CommitRows
  <2> HIDE DEF w
  <2>6. QED
    BY <2>1, <2>2, <2>4, <2>5, ExecuteKeeps
<1>5. CASE AbortAnswered(p)
  BY <1>5, ExecutingRequest, ExecuteKeeps DEF AbortAnswered, Advance
<1>6. CASE AbortRemoves(p)
  BY <1>6, ExecutingRequest, ExecuteKeeps DEF AbortRemoves, Advance, RemoveStep
<1>7. QED BY <1>1, <1>2, <1>3, <1>4, <1>5, <1>6

\* A call starts.
LEMMA CallKeeps == ASSUME Inv, NEW p \in Client, NEW r \in Request, Call(p, r) PROVE Inv'
<1>1. CallTypes'
  BY DEF Inv, CallTypes, Call, Phase
<1>2. \A q \in Client : q # p => UNCHANGED <<phase[q], asked[q], answer[q]>>
  BY DEF Inv, CallTypes, Call
<1>3. CallInv(p)'
  BY RequestStage DEF Inv, CallTypes, Call, CallInv, Told, Mine, server, Answer
<1>4. QED BY <1>1, <1>2, <1>3, CallerStep DEF Call

\* Taking the advisory lock opens a transaction.
LEMMA LockKeeps == ASSUME Inv, NEW p \in Client, Lock(p) PROVE Inv'
<1>1. ServerInv'
  BY DEF Inv, ServerInv, CallTypes, CallInv, Lock, Advance
<1>2. CallTypes'
  BY DEF Inv, CallTypes, Lock, GoTo, Phase
<1>3. ASSUME NEW q \in Client PROVE CallInv(q)'
  <2>1. CASE q = p
    BY <2>1 DEF Inv, ServerInv, CallTypes, CallInv, Told, Lock, GoTo, Mine, Answer
  <2>2. CASE q # p
    <3>1. UNCHANGED <<phase[q], asked[q], answer[q], tables>> /\ owner' = p
      BY <2>2 DEF Inv, CallTypes, Lock, GoTo
    <3>2. ~Mine(q) /\ ~Mine(q)'
      BY <2>2, <3>1 DEF Inv, ServerInv, Lock, Mine
    <3>3. QED BY <2>2, <3>1, <3>2, OthersKept DEF Inv
  <2>3. QED BY <2>1, <2>2
<1>4. QED BY <1>1, <1>2, <1>3 DEF Inv

\* What GoTo, Answers and Fails leave of a caller that is not in a transaction
\* afterwards.
LEMMA MovedOn ==
  ASSUME Inv, NEW p \in Client, phase[p] # "idle",
         \/ Fails(p)
         \/ Answers(p, "refused") /\ (asked[p].op = "commit" => owner' # p)
         \/ Answers(p, "unknown")
         \/ \E a \in {"receipt", "late"} :
              /\ Answers(p, a)
              /\ asked[p].op = "commit" => tables'.commits[asked[p].key] = asked[p].stage
              /\ a = "late" => asked[p].op = "commit"
         \/ GoTo(p, "committed") /\
              (asked[p].op = "commit" => tables'.commits[asked[p].key] = asked[p].stage),
         ~Mine(p)'
  PROVE  /\ CallTypes'
         /\ \A q \in Client : q # p => UNCHANGED <<phase[q], asked[q], answer[q]>>
         /\ CallInv(p)'
<1>1. CallTypes' /\ \A q \in Client : q # p => UNCHANGED <<phase[q], asked[q], answer[q]>>
  BY DEF Inv, CallTypes, Fails, GoTo, Answers, Phase, Answer
<1>2. asked[p] \in Request /\ answer[p] = None
  BY DEF Inv, CallInv
<1>3. CallInv(p)'
  BY <1>2 DEF Inv, CallTypes, Fails, GoTo, Answers, CallInv, Told, Answer
<1>4. QED BY <1>1, <1>3

\* The caller's answers and failures outside a transaction.
LEMMA AnswerKeeps ==
  ASSUME Inv, NEW p \in Client,
         \/ StageRefusedEarly(p) \/ WaitFails(p)
         \/ Receipt(p) \/ Late(p) \/ Reconciles(p) \/ ReconcileFails(p)
  PROVE  Inv'
<1>1. /\ UNCHANGED server
      /\ phase[p] \in {"waiting", "committed", "reconciling"}
  BY DEF StageRefusedEarly, WaitFails, Receipt, Late, Reconciles, ReconcileFails
<1>2. ~Mine(p)'
  BY <1>1 DEF Inv, CallInv, Mine, server
<1>3. tables' = tables
  BY <1>1 DEF server
<1>4. phase[p] = "committed" /\ asked[p].op = "commit" =>
        tables'.commits[asked[p].key] = asked[p].stage
  BY <1>3 DEF Inv, CallInv, Told
<1>5. /\ CallTypes'
      /\ \A q \in Client : q # p => UNCHANGED <<phase[q], asked[q], answer[q]>>
      /\ CallInv(p)'
  <2>1. CASE WaitFails(p)
    BY <1>1, <1>2, <2>1, MovedOn DEF WaitFails
  <2>2. CASE Receipt(p)
    BY <1>1, <1>2, <1>4, <2>2, MovedOn DEF Receipt
  <2>3. CASE Late(p)
    BY <1>1, <1>2, <1>4, <2>3, MovedOn DEF Late
  <2>4. CASE Reconciles(p)
    BY <1>1, <1>2, <1>3, <2>4, MovedOn DEF Reconciles, CommitFound
  <2>5. CASE ReconcileFails(p)
    BY <1>1, <1>2, <2>5, MovedOn DEF ReconcileFails
  <2>6. CASE StageRefusedEarly(p)
    BY <1>1, <1>2, <2>6, MovedOn DEF StageRefusedEarly
  <2>7. QED BY <2>1, <2>2, <2>3, <2>4, <2>5, <2>6
<1>6. QED BY <1>1, <1>5, CallerStep

\* A refusal rolls back and leaves no transaction of the caller.
LEMMA RefusedKeeps == ASSUME Inv, NEW p \in Client, Refused(p) PROVE Inv'
<1>1. Mine(p) /\ Ends(tables) /\ Answers(p, "refused")
  BY DEF Refused
<1>2. phase[p] # "idle" /\ owner' # p /\ ~Mine(p)'
  BY <1>1 DEF Inv, CallInv, Ends, Mine
<1>3. /\ CallTypes'
      /\ \A q \in Client : q # p => UNCHANGED <<phase[q], asked[q], answer[q]>>
      /\ CallInv(p)'
  BY <1>1, <1>2, MovedOn
<1>4. \A q \in Client : Mine(q) => q = p
  BY <1>1 DEF Mine
<1>5. QED BY <1>1, <1>3, <1>4, EndsStep

\* COMMIT is on its way.
LEMMA SendCommitKeeps == ASSUME Inv, NEW p \in Client, SendCommit(p) PROVE Inv'
<1>1. ServerInv'
  BY DEF Inv, ServerInv, SendCommit
<1>2. CallTypes' /\ \A q \in Client : CallInv(q)'
  BY DEF Inv, CallTypes, SendCommit, CallInv, Told, Mine
<1>3. QED BY <1>1, <1>2 DEF Inv

\* A lost connection leaves its transaction to the server.
LEMMA ConnectionLostKeeps == ASSUME Inv, NEW p \in Client, ConnectionLost(p) PROVE Inv'
<1>1. /\ Fails(p)
      /\ UNCHANGED <<tables, working, running, owner, request>>
      /\ \/ Mine(p) /\ connected' = FALSE
         \/ phase[p] = "committed" /\ UNCHANGED connected
  BY DEF ConnectionLost
<1>2. phase[p] # "idle" /\ ~Mine(p)'
  BY <1>1 DEF Inv, CallInv, Mine
<1>3. /\ CallTypes'
      /\ \A q \in Client : q # p => UNCHANGED <<phase[q], asked[q], answer[q]>>
      /\ CallInv(p)'
  BY <1>1, <1>2, MovedOn
<1>4. ServerInv'
  <2>1. CASE UNCHANGED connected
    BY <1>1, <2>1 DEF Inv, ServerInv
  <2>2. CASE connected' = FALSE
    BY <1>1, <2>2 DEF Inv, ServerInv
  <2>3. QED BY <1>1, <2>1, <2>2
<1>5. ASSUME NEW q \in Client, q # p PROVE CallInv(q)'
  <2>1. Mine(q)' <=> Mine(q)
    BY <1>1, <1>5 DEF Mine
  <2>2. QED BY <1>1, <1>3, <1>5, <2>1, OthersKept DEF Inv
<1>6. QED BY <1>3, <1>4, <1>5 DEF Inv

\* The server installs the view, and an owner that listens hears of it.
LEMMA ServerCommitsKeeps == ASSUME Inv, ServerCommits PROVE Inv'
<1>1. running = "committing" /\ Ends(working)
  BY DEF ServerCommits
<1>2. CASE ~connected
  <2>1. UNCHANGED <<phase, asked, answer>>
    BY <1>2 DEF ServerCommits
  <2>2. CallTypes'
    BY <2>1 DEF Inv, CallTypes
  <2>3. QED BY <1>1, <1>2, <2>1, <2>2, EndsStep DEF Mine
<1>3. CASE connected
  <2>1. owner \in Client /\ Mine(owner) /\ GoTo(owner, "committed")
    BY <1>1, <1>3 DEF ServerCommits, Inv, ServerInv, Mine
  <2>2. phase[owner] # "idle" /\ asked[owner] = request
    BY <2>1 DEF Inv, CallInv
  <2>3. asked[owner].op = "commit" => tables'.commits[asked[owner].key] = asked[owner].stage
    BY <1>1, <2>2 DEF Inv, ServerInv, Ends
  <2>4. PICK q \in Client : q = owner
    BY <2>1
  <2>5. ~Mine(q)'
    BY <1>1 DEF Ends, Mine
  <2>6. /\ CallTypes'
        /\ \A r \in Client : r # q => UNCHANGED <<phase[r], asked[r], answer[r]>>
        /\ CallInv(q)'
    BY <2>1, <2>2, <2>3, <2>4, <2>5, MovedOn
  <2>7. \A r \in Client : Mine(r) => r = q
    BY <2>4 DEF Mine
  <2>8. \A r \in Client : Mine(r) => CallInv(r)'
    BY <2>6, <2>7
  <2>9. \A r \in Client : ~Mine(r) => UNCHANGED <<phase[r], asked[r], answer[r]>>
    BY <2>1, <2>4, <2>6
  <2>10. QED BY <1>1, <2>6, <2>8, <2>9, EndsStep
<1>4. QED BY <1>2, <1>3 DEF Inv, ServerInv

\* The server drops the view, and an owner that listens gets an exception.
LEMMA ServerDropsKeeps == ASSUME Inv, ServerDrops PROVE Inv'
<1>1. running # "none" /\ Ends(tables)
  BY DEF ServerDrops
<1>2. CASE ~connected
  <2>1. UNCHANGED <<phase, asked, answer>>
    BY <1>2 DEF ServerDrops
  <2>2. CallTypes'
    BY <2>1 DEF Inv, CallTypes
  <2>3. QED BY <1>1, <1>2, <2>1, <2>2, EndsStep DEF Mine
<1>3. CASE connected
  <2>1. PICK q \in Client : q = owner
    BY <1>1 DEF Inv, ServerInv
  <2>2. Mine(q) /\ Fails(q)
    BY <1>3, <2>1 DEF ServerDrops, Mine
  <2>3. phase[q] # "idle" /\ ~Mine(q)'
    BY <1>1, <2>2 DEF Inv, CallInv, Ends, Mine
  <2>4. /\ CallTypes'
        /\ \A r \in Client : r # q => UNCHANGED <<phase[r], asked[r], answer[r]>>
        /\ CallInv(q)'
    BY <2>2, <2>3, MovedOn
  <2>5. \A r \in Client : Mine(r) => r = q
    BY <2>1 DEF Mine
  <2>6. QED BY <1>1, <2>2, <2>4, <2>5, EndsStep
<1>4. QED BY <1>2, <1>3 DEF Inv, ServerInv

\* Every step keeps the invariant.
LEMMA InvNext == Inv /\ [Next]_vars => Inv'
<1> SUFFICES ASSUME Inv, [Next]_vars PROVE Inv'
  OBVIOUS
<1>1. CASE UNCHANGED vars
  BY <1>1 DEF vars, Inv, ServerInv, CallTypes, CallInv, Told, Mine
<1>2. CASE Next
  BY <1>2, CallKeeps, LockKeeps, AnswerKeeps, StatementsKeep, RefusedKeeps, SendCommitKeeps,
     ConnectionLostKeeps, ServerCommitsKeeps, ServerDropsKeeps
  DEF Next, Progress, Server
<1>3. QED BY <1>1, <1>2

\* The inductive invariant holds in every reachable state.
THEOREM Invariance == Spec => []Inv
  BY InvInit, InvNext, PTL DEF Spec

-----------------------------------------------------------------------------
\* Every variable keeps its type.
THEOREM TypeCorrect == Spec => []TypeOK
<1>1. Inv => TypeOK
  <2> SUFFICES ASSUME Inv PROVE TypeOK
    OBVIOUS
  <2>1. working \in Tables
    BY AdvanceKept DEF Inv, ServerInv, Kept
  <2>2. QED BY <2>1 DEF Inv, ServerInv, CallTypes, TypeOK
<1>2. QED BY <1>1, Invariance, PTL

\* One current commit as soon as there is one, whatever connections are lost.
THEOREM CurrentUnambiguous == Spec => []OneCurrent
<1>1. Inv => OneCurrent
  BY DEF Inv, ServerInv, Consistent, OneCurrent
<1>2. QED BY <1>1, Invariance, PTL

\* Every commit row is complete, whatever connections are lost.
THEOREM CommitsComplete == Spec => []CommitRowsComplete
<1>1. Inv => CommitRowsComplete
  BY DEF Inv, ServerInv, Consistent, CommitRowsComplete
<1>2. QED BY <1>1, Invariance, PTL

\* No receipt of a commit is speculative.
THEOREM ReceiptsAreTrue == Spec => []ReceiptMeansCommitted
<1>1. Inv => ReceiptMeansCommitted
  BY DEF Inv, CallInv, Told, ReceiptMeansCommitted
<1>2. QED BY <1>1, Invariance, PTL

\* A commit refused with a code leaves no transaction behind, not even that of an
\* earlier try whose connection was lost (postgres/temporal.py _commit_once).
THEOREM RefusalsAreFinal == Spec => []RefusedIsDecided
<1>1. Inv => RefusedIsDecided
  BY DEF Inv, CallInv, RefusedIsDecided
<1>2. QED BY <1>1, Invariance, PTL

\* A commit reported late is committed.
THEOREM LateCommits == Spec => []LateIsCommitted
<1>1. Inv => LateIsCommitted
  BY DEF Inv, CallInv, Told, LateIsCommitted
<1>2. QED BY <1>1, Invariance, PTL

-----------------------------------------------------------------------------
(* The refinement: only the server's COMMIT moves the target.              *)

\* The steps of the store are steps of the target, or stutter.
LEMMA TargetNext == Inv /\ [Next]_vars => [Target!Next]_(Target!vars)
<1> SUFFICES ASSUME Inv, [Next]_vars PROVE [Target!Next]_(Target!vars)
  OBVIOUS
<1>1. CASE UNCHANGED tables
  BY <1>1 DEF Target!vars, Staged, Committed, Current
<1>2. CASE ~UNCHANGED tables
  <2>1. ServerCommits
    BY <1>2
    DEF Next, vars, server, Call, StageRefusedEarly, WaitFails, Lock, Progress, ConnectionLost, Server,
        StageAnswered, StageInserts, CommitAnswered, CommitInserts, AbortAnswered,
        AbortRemoves, Execute, Refused, SendCommit, Receipt, Late, Reconciles,
        ReconcileFails, ServerDrops, Ends
  <2>2. Advance(tables, tables') /\ tables \in Tables /\ Consistent(tables)
    BY <2>1 DEF ServerCommits, Ends, Inv, ServerInv
  <2>3. PICK s \in Stage : \/ StageStep(tables, tables', s)
                           \/ CommitStep(tables, tables', s)
                           \/ RemoveStep(tables, tables', s)
    BY <1>2, <2>2 DEF Advance
  <2>4. s.key \in Key /\ s.content \in Content
    BY StageFields
  <2>5. CASE StageStep(tables, tables', s)
    <3>1. Target!Stage(s.key, s.content)
      BY <2>2, <2>5, StageRows DEF Target!Stage
    <3>2. QED BY <2>4, <3>1 DEF Target!Next
  <2>6. CASE CommitStep(tables, tables', s)
    <3>1. Target!Commit(s.key)
      BY <2>2, <2>6, CommitRows DEF Target!Commit
    <3>2. QED BY <2>4, <3>1 DEF Target!Next
  <2>7. CASE RemoveStep(tables, tables', s)
    <3>1. Target!Abort(s.key)
      BY <2>2, <2>7, AbortRows DEF Target!Abort
    <3>2. QED BY <2>4, <3>1 DEF Target!Next
  <2>8. QED BY <2>3, <2>5, <2>6, <2>7
<1>3. QED BY <1>1, <1>2

\* The empty tables are the initial target.
LEMMA TargetInit == Init => Target!Init
  BY DEF Init, NoRows, Target!Init, Staged, Committed, Current

\* The store of postgres/temporal.py implements the managed target although
\* connections are lost at any point: what its callers see changes by whole
\* stages, commits and aborts.
THEOREM Refinement == Spec => ImplementsTarget
  BY TargetInit, TargetNext, Invariance, PTL DEF Spec, ImplementsTarget, Target!Spec

\* What commit answers is true of the tables, and stays so.
THEOREM AnswersHold == Spec => []AnswersAreTrue
  BY ReceiptsAreTrue, RefusalsAreFinal, LateCommits, PTL DEF AnswersAreTrue

-----------------------------------------------------------------------------
(* SQLiteStore.                                                            *)

SQLiteInv ==
  /\ SQLiteTypeOK
  /\ Consistent(database)
  /\ Advance(database, view)
  /\ ~executed => view = database
  /\ writer = None => ~executed
  /\ writer # None => called \in Request
  /\ (executed /\ writer # None /\ called.op = "commit") =>
        view.commits[called.stage.key] = called.stage
  /\ AcknowledgedIsDurable
  /\ CurrentFindsItsSnapshot

-----------------------------------------------------------------------------
\* The tables as __init__ creates them.
LEMMA SQLiteInvInit == SQLiteInit => SQLiteInv
  BY NoRowsKept
  DEF SQLiteInit, SQLiteInv, SQLiteTypeOK, Advance, AcknowledgedIsDurable, CurrentFindsItsSnapshot

\* What the statements of the six handler branches have in common.
LEMMA SQLiteWriteKeepsInv ==
  ASSUME NEW p \in Process, SQLiteInv, writer = p, ~executed, NEW new, Write(new),
         Advance(database, new), UNCHANGED acknowledged,
         called.op = "commit" => new.commits[called.stage.key] = called.stage
  PROVE  SQLiteInv'
<1>1. new \in Tables
  BY AdvanceKept DEF SQLiteInv, SQLiteTypeOK, Kept
<1>2. QED
  BY <1>1 DEF SQLiteInv, SQLiteTypeOK, Write, AcknowledgedIsDurable, CurrentFindsItsSnapshot

\* The request the writer works on.
LEMMA SQLiteWritingRequest ==
  ASSUME NEW p \in Process, SQLiteInv, NEW op, Writing(p, op)
  PROVE  /\ writer = p /\ ~executed /\ view = database /\ called.op = op
         /\ called.stage \in Stage
         /\ op = "commit" => called.key \in Key
  BY DEF SQLiteInv, Writing, Request, StageRequest, CommitRequest, AbortRequest

\* The commit row that answers a commit is of the stage's own key.
LEMMA SQLiteCommitFoundKey ==
  ASSUME Consistent(database), NEW s \in Stage, NEW k \in Key, CommitFound(database, s, k)
  PROVE  s.key = k
<1>1. database.commits[k] = s /\ s # None
  BY StageFields DEF CommitFound
<1>2. s = [key |-> k, content |-> database.stages[k]]
  BY <1>1 DEF Consistent, CommitRowsCompleteIn
<1>3. QED BY <1>2

\* Every step keeps the invariant.
LEMMA SQLiteInvNext == SQLiteInv /\ [SQLiteNext]_sqliteVars => SQLiteInv'
<1> SUFFICES ASSUME SQLiteInv, [SQLiteNext]_sqliteVars PROVE SQLiteInv'
  OBVIOUS
<1>1. CASE UNCHANGED sqliteVars
  BY <1>1 DEF sqliteVars, SQLiteInv, SQLiteTypeOK, AcknowledgedIsDurable, CurrentFindsItsSnapshot
<1>2. ASSUME NEW p \in Process, NEW r \in Request, Begin(p, r) PROVE SQLiteInv'
  <2>1. ~executed' => view' = database'
    BY <1>2 DEF Begin, SQLiteInv
  <2>2. QED
    BY <1>2, <2>1 DEF Begin, SQLiteInv, SQLiteTypeOK, AcknowledgedIsDurable, CurrentFindsItsSnapshot
<1>3. ASSUME NEW p \in Process, AnswerStage(p) PROVE SQLiteInv'
  BY <1>3, SQLiteWritingRequest, SQLiteWriteKeepsInv DEF AnswerStage, Writing, Advance
<1>4. ASSUME NEW p \in Process, InsertStage(p) PROVE SQLiteInv'
  BY <1>4, SQLiteWritingRequest, SQLiteWriteKeepsInv DEF InsertStage, Writing, Advance, StageStep
<1>5. ASSUME NEW p \in Process, AnswerCommit(p) PROVE SQLiteInv'
  <2>1. /\ Writing(p, "commit")
        /\ CommitFound(view, called.stage, called.key)
        /\ Write(view)
        /\ UNCHANGED acknowledged
    BY <1>5 DEF AnswerCommit
  <2>2. /\ view = database /\ called.stage \in Stage /\ called.key \in Key
        /\ writer = p /\ ~executed
    BY <2>1, SQLiteWritingRequest
  <2>3. called.stage.key = called.key
    BY <2>1, <2>2, SQLiteCommitFoundKey DEF SQLiteInv
  <2>4. QED
    BY <2>1, <2>2, <2>3, SQLiteWriteKeepsInv DEF Advance, CommitFound
<1>6. ASSUME NEW p \in Process, InsertCommit(p) PROVE SQLiteInv'
  <2> DEFINE s == called.stage
             w == RowsOfCommit(view, s)
  <2>1. /\ Writing(p, "commit") /\ MayCommit(view, s, called.key)
        /\ Write(w) /\ UNCHANGED acknowledged
    BY <1>6 DEF InsertCommit
  <2>2. /\ view = database /\ s \in Stage /\ writer = p /\ ~executed
    BY <2>1, SQLiteWritingRequest
  <2>3. CommitStep(database, w, s)
    BY <2>1, <2>2 DEF CommitStep, MayCommit
  <2>4. Advance(database, w)
    BY <2>2, <2>3 DEF Advance
  <2>5. w.commits[s.key] = s
    <3>1. database \in Tables /\ Consistent(database)
      BY DEF SQLiteInv, SQLiteTypeOK
    <3>2. QED BY <2>2, <2>3, <3>1, CommitRows
  <2> HIDE DEF w
  <2>6. QED
    BY <2>1, <2>2, <2>4, <2>5, SQLiteWriteKeepsInv
<1>7. ASSUME NEW p \in Process, AnswerAbort(p) PROVE SQLiteInv'
  BY <1>7, SQLiteWritingRequest, SQLiteWriteKeepsInv DEF AnswerAbort, Writing, Advance
<1>8. ASSUME NEW p \in Process, RemoveStage(p) PROVE SQLiteInv'
  BY <1>8, SQLiteWritingRequest, SQLiteWriteKeepsInv DEF RemoveStage, Writing, Advance, RemoveStep
<1>9. ASSUME NEW p \in Process, CommitTransaction(p) PROVE SQLiteInv'
  <2>1. /\ writer = p /\ executed /\ Finish(view)
        /\ acknowledged' =
             IF called.op = "commit" THEN acknowledged \cup {called.stage} ELSE acknowledged
    BY <1>9 DEF CommitTransaction
  <2>2. /\ view \in Tables /\ Consistent(view)
        /\ database.snapshots \subseteq view.snapshots
        /\ \A k \in Key : database.commits[k] # None => view.commits[k] = database.commits[k]
    BY AdvanceKept DEF SQLiteInv, SQLiteTypeOK, Kept
  <2>3. called \in Request /\ called.op = "commit" => called.stage \in Stage
    BY DEF Request, StageRequest, CommitRequest, AbortRequest
  <2>4. acknowledged' \subseteq Stage
    BY <2>1, <2>3 DEF SQLiteInv, SQLiteTypeOK
  <2>5. \A s \in acknowledged' : database'.commits[s.key] = s
    <3> SUFFICES ASSUME NEW s \in acknowledged' PROVE view.commits[s.key] = s
      BY <2>1 DEF Finish
    <3>1. CASE s \in acknowledged
      <4>1. s \in Stage /\ database.commits[s.key] = s
        BY <3>1 DEF SQLiteInv, SQLiteTypeOK, AcknowledgedIsDurable
      <4>2. QED BY <4>1, <2>2, StageFields
    <3>2. CASE s \notin acknowledged
      BY <2>1, <3>2 DEF SQLiteInv
    <3>3. QED BY <3>1, <3>2
  <2>6. QED
    BY <2>1, <2>2, <2>4, <2>5
    DEF Finish, SQLiteInv, SQLiteTypeOK, Advance, AcknowledgedIsDurable, CurrentFindsItsSnapshot
<1>10. ASSUME NEW p \in Process, Rollback(p) PROVE SQLiteInv'
  BY <1>10 DEF Rollback, Finish, SQLiteInv, SQLiteTypeOK, Advance, AcknowledgedIsDurable,
               CurrentFindsItsSnapshot
<1>11. ASSUME NEW p \in Process, CurrentReadsPointer(p) PROVE SQLiteInv'
  <2>1. PICK k \in Key :
           /\ database.current = {k}
           /\ observed' = [observed EXCEPT ![p] = database.commits[k].content]
    BY <1>11 DEF CurrentReadsPointer
  <2>2. database.commits[k].content \in Content /\ database.commits[k].content \in database.snapshots
    <3>1. k \in database.current
      BY <2>1
    <3>2. database.commits[k] # None
      BY <3>1 DEF SQLiteInv, Consistent, OneCurrentIn
    <3>3. /\ database.commits[k] = [key |-> k, content |-> database.stages[k]]
          /\ database.stages[k] \in Content /\ database.stages[k] \in database.snapshots
      BY <3>2 DEF SQLiteInv, Consistent, CommitRowsCompleteIn
    <3>4. database.commits[k].content = database.stages[k]
      BY <3>3
    <3>5. QED BY <3>3, <3>4
  <2>3. QED
    BY <1>11, <2>1, <2>2
    DEF CurrentReadsPointer, SQLiteInv, SQLiteTypeOK, AcknowledgedIsDurable, CurrentFindsItsSnapshot
<1>12. ASSUME NEW p \in Process, CurrentReadsSnapshot(p) PROVE SQLiteInv'
  BY <1>12 DEF CurrentReadsSnapshot, SQLiteInv, SQLiteTypeOK, AcknowledgedIsDurable, CurrentFindsItsSnapshot
<1>13. QED
  BY <1>1, <1>2, <1>3, <1>4, <1>5, <1>6, <1>7, <1>8, <1>9, <1>10, <1>11, <1>12 DEF SQLiteNext

\* The inductive invariant holds in every reachable state.
THEOREM SQLiteInvariance == SQLiteSpec => []SQLiteInv
  BY SQLiteInvInit, SQLiteInvNext, PTL DEF SQLiteSpec

-----------------------------------------------------------------------------
\* Every variable keeps its type, in particular the tables their columns'.
THEOREM SQLiteTypeCorrect == SQLiteSpec => []SQLiteTypeOK
<1>1. SQLiteInv => SQLiteTypeOK
  BY DEF SQLiteInv
<1>2. QED BY <1>1, SQLiteInvariance, PTL

\* current() never meets two current rows, nor none after a commit: the UPDATE
\* and the INSERT of commit are one transaction.
THEOREM SQLiteCurrentUnambiguous == SQLiteSpec => []OneCurrentRow
<1>1. SQLiteInv => OneCurrentRow
  BY DEF SQLiteInv, Consistent, OneCurrentRow
<1>2. QED BY <1>1, SQLiteInvariance, PTL

\* Every commit row names the kept, flagged stage of its key and a readable
\* snapshot, whatever is aborted or rolled back.
THEOREM SQLiteCommitsComplete == SQLiteSpec => []CommitRowsWhole
<1>1. SQLiteInv => CommitRowsWhole
  BY DEF SQLiteInv, Consistent, CommitRowsWhole
<1>2. QED BY <1>1, SQLiteInvariance, PTL

\* A commit whose receipt was returned is never lost.
THEOREM SQLiteCommitsDurable == SQLiteSpec => []AcknowledgedIsDurable
<1>1. SQLiteInv => AcknowledgedIsDurable
  BY DEF SQLiteInv
<1>2. QED BY <1>1, SQLiteInvariance, PTL

\* The two read transactions of current() never miss each other.
THEOREM SQLiteCurrentReads == SQLiteSpec => []CurrentFindsItsSnapshot
<1>1. SQLiteInv => CurrentFindsItsSnapshot
  BY DEF SQLiteInv
<1>2. QED BY <1>1, SQLiteInvariance, PTL

-----------------------------------------------------------------------------
(* The refinement: only COMMIT moves the target.                           *)

\* The steps of the store are steps of the target, or stutter.
LEMMA SQLiteTargetNext == SQLiteInv /\ [SQLiteNext]_sqliteVars => [RowsTarget!Next]_(RowsTarget!vars)
<1> SUFFICES ASSUME SQLiteInv, [SQLiteNext]_sqliteVars PROVE [RowsTarget!Next]_(RowsTarget!vars)
  OBVIOUS
<1>1. CASE UNCHANGED database
  BY <1>1 DEF RowsTarget!vars, Staged, Committed, Current
<1>2. CASE ~UNCHANGED database
  <2>1. PICK p \in Process : CommitTransaction(p)
    BY <1>2
    DEF SQLiteNext, sqliteVars, Begin, AnswerStage, InsertStage, AnswerCommit, InsertCommit,
        AnswerAbort, RemoveStage, Rollback, CurrentReadsPointer, CurrentReadsSnapshot,
        Write, Finish
  <2>2. Advance(database, database') /\ database \in Tables /\ Consistent(database)
    BY <2>1 DEF CommitTransaction, Finish, SQLiteInv, SQLiteTypeOK
  <2>3. PICK s \in Stage : \/ StageStep(database, database', s)
                           \/ CommitStep(database, database', s)
                           \/ RemoveStep(database, database', s)
    BY <1>2, <2>2 DEF Advance
  <2>4. s.key \in Key /\ s.content \in Content
    BY StageFields
  <2>5. CASE StageStep(database, database', s)
    <3>1. RowsTarget!Stage(s.key, s.content)
      BY <2>2, <2>5, StageRows DEF RowsTarget!Stage
    <3>2. QED BY <2>4, <3>1 DEF RowsTarget!Next
  <2>6. CASE CommitStep(database, database', s)
    <3>1. RowsTarget!Commit(s.key)
      BY <2>2, <2>6, CommitRows DEF RowsTarget!Commit
    <3>2. QED BY <2>4, <3>1 DEF RowsTarget!Next
  <2>7. CASE RemoveStep(database, database', s)
    <3>1. RowsTarget!Abort(s.key)
      BY <2>2, <2>7, AbortRows DEF RowsTarget!Abort
    <3>2. QED BY <2>4, <3>1 DEF RowsTarget!Next
  <2>8. QED BY <2>3, <2>5, <2>6, <2>7
<1>3. QED BY <1>1, <1>2

\* The empty tables are the initial target.
LEMMA SQLiteTargetInit == SQLiteInit => RowsTarget!Init
  BY DEF SQLiteInit, NoRows, RowsTarget!Init, Staged, Committed, Current

\* The store of sqlite/temporal.py implements the managed target: what its
\* callers see changes by whole stages, commits and aborts, each key committed
\* once and under its own stage, whatever transactions roll back.
THEOREM SQLiteRefinement == SQLiteSpec => ImplementsManagedTarget
  BY SQLiteTargetInit, SQLiteTargetNext, SQLiteInvariance, PTL
  DEF SQLiteSpec, ImplementsManagedTarget, RowsTarget!Spec

\* Commit rows are complete, and current() finds the snapshot it was sent to.
THEOREM SQLiteRowsWhole == SQLiteSpec => []RowsAreWhole
  BY SQLiteCommitsComplete, SQLiteCurrentReads, PTL DEF RowsAreWhole

---------------------------------------------------------------------------
(* The handles of the SDK's facade.                                        *)

\* The rows as far as handles rely on them: a commit row is complete, a current
\* row is a commit's, and what an abort removed is neither staged nor committed.
FacadeInv ==
  /\ rows \in Facade!Tables
  /\ \A k \in Key : rows.commits[k] # None =>
       /\ rows.commits[k] \in Facade!Stage
       /\ rows.commits[k].key = k
       /\ rows.commits[k].content = rows.stages[k]
       /\ rows.commits[k].content \in rows.snapshots
       /\ k \in rows.committed
  /\ \A k \in rows.current : rows.commits[k] # None
  /\ \A c \in pending : c.stage \in Facade!Stage
  /\ \A h \in handles : h.stage \in Facade!Stage
  /\ removed \subseteq Facade!Stage
  /\ \A s \in removed : rows.stages[s.key] # s.content
  /\ Facade!SnapshotsStay

\* What the rows of a store over Frames are made of.
LEMMA FrameFields ==
  ASSUME NEW s \in Facade!Stage
  PROVE  /\ s.key \in Key /\ s.content \in Frames
         /\ s.content # None /\ s # None
  BY FacadeAssumption DEF Facade!Stage

\* Before the first call there is no handle to account for.
LEMMA FacadeInvInit == Facade!Init => FacadeInv
  BY DEF Facade!Init, Facade!NoRows, FacadeInv, Facade!Tables, Facade!SnapshotsStay

\* The SDK's steps.
LEMMA FacadeInvNext == FacadeInv /\ [Facade!Next]_facadeVars => FacadeInv'
<1> SUFFICES ASSUME FacadeInv, [Facade!Next]_facadeVars PROVE FacadeInv'
  OBVIOUS
<1> USE DEF FacadeInv, Facade!SnapshotsStay
<1>1. CASE UNCHANGED facadeVars
  BY <1>1 DEF facadeVars
<1>2. CASE Facade!Tick
  BY <1>2 DEF Facade!Tick
<1>3. ASSUME NEW v \in Views, NEW s \in Facade!Stage, NEW lease, Facade!Stage_(v, s, lease)
      PROVE  FacadeInv'
  <2> USE <1>3 DEF Facade!Stage_
  <2>0. s.key \in Key /\ s.content \in Frames
    BY FrameFields
  <2>1. /\ UNCHANGED <<pending, snapshots>> /\ removed' = removed \ {s}
        /\ \A h \in handles' : h.stage \in Facade!Stage
    OBVIOUS
  <2>2. CASE ~Facade!MayStage(rows, s)
    <3>1. rows' = rows
      BY <2>2
    <3> QED BY <2>1, <3>1
  <2>3. CASE Facade!MayStage(rows, s)
    <3>1. rows' = [rows EXCEPT !.stages[s.key] = s.content] /\ rows.stages[s.key] = None
      BY <2>3 DEF Facade!MayStage, Facade!RowsOfStage
    <3>2. rows' \in Facade!Tables
      BY <2>0, <3>1 DEF Facade!Tables
    <3>3. rows.commits[s.key] = None
      BY <2>0, <3>1, FrameFields
    <3>4. \A t \in removed' : rows'.stages[t.key] # t.content
      <4> SUFFICES ASSUME NEW t \in removed, t # s, rows'.stages[t.key] = t.content
                   PROVE FALSE
        BY <2>1
      <4>1. t \in Facade!Stage /\ t.key \in Key
        BY FrameFields
      <4>2. rows'.stages[t.key] = IF t.key = s.key THEN s.content ELSE rows.stages[t.key]
        BY <2>0, <3>1, <4>1 DEF Facade!Tables
      <4>3. t.key = s.key /\ t.content = s.content
        BY <4>1, <4>2
      <4> QED BY <4>1, <4>3 DEF Facade!Stage
    <3>5. \A k \in Key : rows'.commits[k] = rows.commits[k]
                         /\ (k # s.key => rows'.stages[k] = rows.stages[k])
      BY <2>0, <3>1 DEF Facade!Tables
    <3>6. rows'.snapshots = rows.snapshots /\ rows'.committed = rows.committed
          /\ rows'.current = rows.current /\ rows.current \subseteq Key
      BY <3>1 DEF Facade!Tables
    <3> QED BY <2>1, <3>2, <3>3, <3>4, <3>5, <3>6
  <2> QED BY <2>2, <2>3
<1>4. ASSUME NEW op, NEW h \in handles, NEW until, Facade!Check(op, h, until)
      PROVE  FacadeInv'
  BY <1>4 DEF Facade!Check
<1>5. ASSUME NEW c \in pending, NEW answered \in BOOLEAN, Facade!CommitStage(c, answered)
      PROVE  FacadeInv'
  <2> DEFINE s == c.stage
  <2> USE <1>5 DEF Facade!CommitStage
  <2>0. s \in Facade!Stage /\ s.key \in Key /\ s.content \in Frames /\ s # None
    BY FrameFields
  <2>1. /\ UNCHANGED <<handles, removed>> /\ pending' \subseteq pending
        /\ \A n \in snapshots' : n \in snapshots \/ n.commit = s
    OBVIOUS
  <2>2. CASE Facade!CommitFound(rows, s, s.key)
    <3>1. rows' = rows /\ s.content \in rows.snapshots
      BY <2>0, <2>2 DEF Facade!CommitFound
    <3> QED BY <2>1, <3>1
  <2>3. CASE ~Facade!CommitFound(rows, s, s.key)
    <3>1. /\ rows' = Facade!RowsOfCommit(rows, s) /\ rows.commits[s.key] = None
          /\ rows.stages[s.key] = s.content
      BY <2>3 DEF Facade!StageThere
    <3>2. /\ rows'.stages = rows.stages
          /\ rows'.committed = rows.committed \cup {s.key}
          /\ rows'.commits = [rows.commits EXCEPT ![s.key] = s]
          /\ rows'.current = {s.key}
          /\ rows'.snapshots = rows.snapshots \cup {s.content}
      BY <2>0, <3>1 DEF Facade!RowsOfCommit, Facade!Tables
    <3>4. rows'.commits \in [Key -> Facade!Stage \cup {None}]
      BY <2>0, <3>2 DEF Facade!Tables
    <3>5. rows' \in Facade!Tables
      <4>1. rows' = [stages |-> rows'.stages, committed |-> rows'.committed,
                     commits |-> rows'.commits, current |-> rows'.current,
                     snapshots |-> rows'.snapshots]
        BY <3>1 DEF Facade!RowsOfCommit, Facade!Tables
      <4> QED BY <2>0, <3>2, <3>4, <4>1 DEF Facade!Tables
    <3>3. \A k \in Key : rows'.commits[k] = IF k = s.key THEN s ELSE rows.commits[k]
      BY <2>0, <3>2 DEF Facade!Tables
    <3> QED BY <2>0, <2>1, <3>1, <3>2, <3>3, <3>5
  <2> QED BY <2>2, <2>3
<1>6. ASSUME NEW c \in pending, NEW answered \in BOOLEAN, Facade!AbortStage(c, answered)
      PROVE  FacadeInv'
  <2> DEFINE s == c.stage
  <2> USE <1>6 DEF Facade!AbortStage
  <2>0. s \in Facade!Stage /\ s.key \in Key /\ s.content \in Frames /\ s.content # None
    BY FrameFields
  <2>1. /\ UNCHANGED <<handles, snapshots>> /\ pending' \subseteq pending
        /\ removed' = removed \/ (removed' = removed \cup {s} /\ rows'.stages[s.key] # s.content)
    OBVIOUS
  <2>2. CASE ~Facade!MayRemove(rows, s)
    <3>1. rows' = rows
      BY <2>2
    <3> QED BY <2>0, <2>1, <3>1
  <2>3. CASE Facade!MayRemove(rows, s)
    <3>1. /\ rows' = [rows EXCEPT !.stages[s.key] = None]
          /\ s.key \notin rows.committed
      BY <2>3 DEF Facade!MayRemove, Facade!RowsOfAbort
    <3>2. /\ rows' \in Facade!Tables
          /\ rows'.snapshots = rows.snapshots /\ rows'.committed = rows.committed
          /\ rows'.current = rows.current /\ rows'.commits = rows.commits
          /\ \A k \in Key : rows'.stages[k] = IF k = s.key THEN None ELSE rows.stages[k]
      BY <2>0, <3>1 DEF Facade!Tables
    <3>3. rows.commits[s.key] = None
      BY <2>0, <3>1
    <3>4. \A t \in removed' : rows'.stages[t.key] # t.content
      BY <2>0, <2>1, <3>2, FrameFields
    <3> QED BY <2>0, <2>1, <3>2, <3>3, <3>4
  <2> QED BY <2>2, <2>3
<1>7. ASSUME NEW c \in pending, Facade!CommitRefused(c) PROVE FacadeInv'
  BY <1>7 DEF Facade!CommitRefused
<1>8. ASSUME NEW v \in Views, Facade!CurrentOf(v) PROVE FacadeInv'
  <2> DEFINE s == rows.commits[Facade!Current(rows)]
  <2>1. /\ UNCHANGED <<rows, handles, pending, removed>> /\ rows.current # {}
        /\ \A n \in snapshots' : n \in snapshots \/ n.commit = s
    BY <1>8 DEF Facade!CurrentOf
  <2>2. Facade!Current(rows) \in rows.current
    BY <2>1 DEF Facade!Current
  <2>3. s.content \in rows.snapshots
    BY <2>2 DEF Facade!Tables
  <2> QED BY <2>1, <2>3
<1>9. ASSUME NEW n \in snapshots, Facade!Readback(n) PROVE FacadeInv'
  BY <1>9 DEF Facade!Readback
<1> QED
  BY <1>1, <1>2, <1>3, <1>4, <1>5, <1>6, <1>7, <1>8, <1>9 DEF Facade!Next

\* While a view's handles are used the rest of MCSQLiteStore's variables rest,
\* and the other way round.
LEMMA FacadeInvariance == MCSpec => []FacadeInv
<1>1. MCInit => FacadeInv
  BY FacadeInvInit DEF MCInit
<1>2. [MCNext]_<<sqliteVars, about, facadeVars, remoteVars, createVars>> => [Facade!Next]_facadeVars
  BY DEF MCNext
<1> QED BY <1>1, <1>2, FacadeInvNext, PTL DEF MCSpec

\* A stage whose abort was answered is not committed afterwards unless it is staged
\* again, and every snapshot handed out can be read back (sdk/temporal.py abort,
\* commit, readback), for any number of views, keys and frames.
THEOREM HandlesHold == MCSpec => []HandlesAreTrue
<1>1. FacadeInv => HandlesAreTrue
  BY FrameFields DEF FacadeInv, HandlesAreTrue, Facade!AbortedStaysAborted
<1> QED BY <1>1, FacadeInvariance, PTL

---------------------------------------------------------------------------
(* The managed store on MaybeAI.                                           *)

\* Every receipt the provider wrote is of an operation it executed, and what a
\* readback is compared with was fetched for it.
RemoteInv ==
  /\ provider \in Remote!Tables
  /\ call = [op |-> call.op, stage |-> call.stage, step |-> call.step,
             inode |-> call.inode, got |-> call.got]
  /\ call.step \in {"none", "open", "send", "fetch", "answer"}
  /\ call.step = "open" => call.op = "stage"
  /\ call.step # "none" => call.stage \in Remote!Stage
  /\ call.op = "readback" /\ call.step \in {"send", "answer"} => call.got = call.stage.content
  /\ \A r \in receipts :
       /\ r.stage \in Remote!Stage
       /\ r.op = "commit" => Remote!CommitFound(provider, r.stage, r.stage.key)
       /\ r.op = "readback" => r.stage.content \in provider.snapshots
  /\ Remote!ReceiptsAreEarned
  /\ \A r \in accepted : r.stage \in Remote!Stage
  /\ \A r \in receipts : r = Remote!Receipt(r.op, r.stage)

\* No command takes back a commit row or a snapshot.
LEMMA RemoteRowsStay ==
  ASSUME provider \in Remote!Tables, NEW s \in Remote!Stage, NEW op, Remote!Executed(op, s)
  PROVE  /\ provider' \in Remote!Tables
         /\ \A k \in Key : provider.commits[k] # None => provider'.commits[k] = provider.commits[k]
         /\ provider.snapshots \subseteq provider'.snapshots
         /\ op = "commit" => Remote!CommitFound(provider', s, s.key)
         /\ op = "readback" => s.content \in provider'.snapshots
<1>0. s.key \in Key /\ s.content \in Content
  BY DEF Remote!Stage
<1>1. CASE op = "stage" /\ provider' = Remote!RowsOfStage(provider, s)
  BY <1>0, <1>1 DEF Remote!RowsOfStage, Remote!Tables
<1>2. CASE op = "commit" /\ Remote!CommitFound(provider, s, s.key) /\ UNCHANGED provider
  BY <1>0, <1>2 DEF Remote!CommitFound
<1>3. CASE op = "commit" /\ Remote!MayCommit(provider, s, s.key)
           /\ provider' = Remote!RowsOfCommit(provider, s)
  <2>1. provider' = [provider EXCEPT !.snapshots = @ \cup {s.content}, !.current = {s.key},
                                     !.commits[s.key] = s, !.committed = @ \cup {s.key}]
    BY <1>3 DEF Remote!RowsOfCommit
  <2>2. provider.commits[s.key] = None
    BY <1>3 DEF Remote!MayCommit
  <2>3. /\ provider'.stages = provider.stages
        /\ provider'.committed = provider.committed \cup {s.key}
        /\ provider'.commits = [provider.commits EXCEPT ![s.key] = s]
        /\ provider'.current = {s.key}
        /\ provider'.snapshots = provider.snapshots \cup {s.content}
        /\ provider' = [stages |-> provider'.stages, committed |-> provider'.committed,
                        commits |-> provider'.commits, current |-> provider'.current,
                        snapshots |-> provider'.snapshots]
    BY <2>1 DEF Remote!Tables
  <2>4. /\ provider'.commits \in [Key -> Remote!Stage \cup {None}]
        /\ \A k \in Key : provider'.commits[k] = IF k = s.key THEN s ELSE provider.commits[k]
    BY <1>0, <2>3 DEF Remote!Tables
  <2>5. provider' \in Remote!Tables
    BY <1>0, <2>3, <2>4 DEF Remote!Tables
  <2> QED BY <1>0, <1>3, <2>2, <2>3, <2>4, <2>5 DEF Remote!CommitFound
<1>4. CASE /\ op = "abort"
           /\ provider' = IF Remote!MayRemove(provider, s)
                          THEN Remote!RowsOfAbort(provider, s) ELSE provider
  BY <1>0, <1>4 DEF Remote!RowsOfAbort, Remote!Tables
<1>5. CASE op = "readback" /\ s.content \in provider.snapshots /\ UNCHANGED provider
  BY <1>5
<1> QED BY <1>1, <1>2, <1>3, <1>4, <1>5 DEF Remote!Executed

\* The invariant of MaybeAI's snapshots at the start.
LEMMA RemoteInvInit == Remote!Init => RemoteInv
  BY DEF Remote!Init, Remote!NoRows, Remote!Idle, RemoteInv, Remote!Tables, Remote!ReceiptsAreEarned

\* What was committed or kept stays so while the rows only grow.
LEMMA RemoteInvNext == RemoteInv /\ [Remote!Next]_remoteVars => RemoteInv'
<1> SUFFICES ASSUME RemoteInv, [Remote!Next]_remoteVars PROVE RemoteInv'
  OBVIOUS
<1> USE DEF RemoteInv, Remote!ReceiptsAreEarned
<1>1. CASE UNCHANGED remoteVars
  BY <1>1 DEF remoteVars, Remote!CommitFound
<1>2. ASSUME NEW complete \in BOOLEAN, Remote!Probe(complete) PROVE RemoteInv'
  BY <1>2 DEF Remote!Probe, Remote!CommitFound
<1>3. ASSUME NEW a \in Content, NEW what, Remote!ChangeFile(a, what) PROVE RemoteInv'
  BY <1>3 DEF Remote!ChangeFile, Remote!CommitFound
<1>4. ASSUME NEW op \in {"stage", "commit", "readback", "abort"}, NEW s \in Remote!Stage,
             Remote!Begin(op, s)
      PROVE  RemoteInv'
  <2>1. /\ UNCHANGED <<provider, receipts, accepted>>
        /\ call'.stage = s /\ call'.op = op
        /\ call'.step \in {"open", "send", "fetch"}
        /\ op = "readback" => call'.step = "fetch"
        /\ call'.step = "open" => op = "stage"
        /\ call' = [op |-> call'.op, stage |-> call'.stage, step |-> call'.step,
                    inode |-> call'.inode, got |-> call'.got]
    BY <1>4 DEF Remote!Begin, Remote!Start
  <2>2. \A r \in receipts' \cup accepted' :
          Remote!CommitFound(provider, r.stage, r.stage.key)
          => Remote!CommitFound(provider', r.stage, r.stage.key)
    BY <2>1 DEF Remote!CommitFound
  <2> QED BY <2>1, <2>2
<1>5. CASE Remote!ReadArtifact
  <2>1. /\ UNCHANGED <<provider, receipts, accepted>> /\ call.step = "open"
        /\ \/ /\ call'.op = call.op /\ call'.stage = call.stage /\ call'.step = "send"
              /\ call' = [op |-> call'.op, stage |-> call'.stage, step |-> call'.step,
                          inode |-> call'.inode, got |-> call'.got]
           \/ call' = Remote!Idle
    BY <1>5 DEF Remote!ReadArtifact
  <2> QED BY <2>1 DEF Remote!CommitFound, Remote!Idle
<1>6. CASE Remote!Execute
  <2>1. /\ call.step = "send" /\ Remote!Executed(call.op, call.stage)
        /\ receipts' = receipts \cup {[op |-> call.op, stage |-> call.stage]}
        /\ call' = [call EXCEPT !.step = "answer"] /\ UNCHANGED accepted
    BY <1>6 DEF Remote!Execute, Remote!Receipt
  <2>2. call.stage \in Remote!Stage
    BY <2>1
  <2>3. /\ provider' \in Remote!Tables
        /\ \A k \in Key : provider.commits[k] # None => provider'.commits[k] = provider.commits[k]
        /\ provider.snapshots \subseteq provider'.snapshots
        /\ call.op = "commit" => Remote!CommitFound(provider', call.stage, call.stage.key)
        /\ call.op = "readback" => call.stage.content \in provider'.snapshots
    BY <2>1, <2>2, RemoteRowsStay
  <2>4. \A s \in Remote!Stage : Remote!CommitFound(provider, s, s.key)
          => Remote!CommitFound(provider', s, s.key)
    BY <2>3 DEF Remote!CommitFound, Remote!Stage, Stage
  <2>5. \A r \in receipts' :
          /\ r.stage \in Remote!Stage
          /\ r.op = "commit" => Remote!CommitFound(provider', r.stage, r.stage.key)
          /\ r.op = "readback" => r.stage.content \in provider'.snapshots
          /\ r = Remote!Receipt(r.op, r.stage)
    BY <2>1, <2>2, <2>3, <2>4 DEF Remote!Receipt
  <2>6. \A r \in accepted' :
          /\ r.stage \in Remote!Stage
          /\ r.op = "commit" => Remote!CommitFound(provider', r.stage, r.stage.key)
          /\ r.op = "readback" => r.stage.content \in provider'.snapshots
          /\ r.op \in {"stage", "abort"} => r \in receipts'
    BY <2>1, <2>3, <2>4
  <2>7. /\ call'.op = call.op /\ call'.stage = call.stage /\ call'.got = call.got
        /\ call'.step = "answer"
        /\ call' = [op |-> call'.op, stage |-> call'.stage, step |-> call'.step,
                    inode |-> call'.inode, got |-> call'.got]
    BY <2>1
  <2> QED BY <2>1, <2>2, <2>3, <2>5, <2>6, <2>7
<1>7. CASE Remote!Lose
  BY <1>7 DEF Remote!Lose, Remote!Idle, Remote!CommitFound
<1>8. ASSUME NEW content \in Content, Remote!Fetch(content) PROVE RemoteInv'
  <2>1. /\ UNCHANGED <<provider, receipts, accepted>> /\ call.step = "fetch"
        /\ \/ /\ call'.got = call.stage.content /\ call'.step = "send"
              /\ call'.op = call.op /\ call'.stage = call.stage
              /\ call' = [op |-> call'.op, stage |-> call'.stage, step |-> call'.step,
                          inode |-> call'.inode, got |-> call'.got]
           \/ call' = Remote!Idle
    BY <1>8 DEF Remote!Fetch
  <2> QED BY <2>1 DEF Remote!CommitFound, Remote!Idle
<1>9. ASSUME NEW r \in receipts, Remote!TakeReceipt(r) PROVE RemoteInv'
  <2>1. /\ UNCHANGED <<provider, receipts>> /\ call' = Remote!Idle
        /\ call.step \in {"send", "answer"}
        /\ accepted' = IF Remote!Matches(r)
                       THEN accepted \cup {[op |-> call.op, stage |-> call.stage]} ELSE accepted
    BY <1>9 DEF Remote!TakeReceipt, Remote!Receipt
  <2> USE DEF Remote!CommitFound, Remote!Idle
  <2>2. CASE ~Remote!Matches(r)
    BY <2>1, <2>2
  <2>3. CASE Remote!Matches(r)
    <3>1. /\ r.op = call.op
          /\ r.op # "readback" => r.stage = call.stage
          /\ r.op = "readback" => r.stage.content = call.stage.content
      BY <2>1, <2>3 DEF Remote!Matches
    <3>2. call.op \in {"stage", "abort"} => [op |-> call.op, stage |-> call.stage] \in receipts
      BY <3>1 DEF Remote!Receipt
    <3> QED BY <2>1, <2>3, <3>1, <3>2
  <2> QED BY <2>2, <2>3
<1> QED BY <1>1, <1>2, <1>3, <1>4, <1>5, <1>6, <1>7, <1>8, <1>9 DEF Remote!Next

\* The invariant of MaybeAI's snapshots holds in every behaviour.
LEMMA RemoteInvariance == MCSpec => []RemoteInv
<1>1. MCInit => RemoteInv
  BY RemoteInvInit DEF MCInit
<1>2. [MCNext]_<<sqliteVars, about, facadeVars, remoteVars, createVars>> => [Remote!Next]_remoteVars
  BY DEF MCNext
<1> QED BY <1>1, <1>2, RemoteInvNext, PTL DEF MCSpec

---------------------------------------------------------------------------
(* The creation of tables on MaybeAI.                                      *)

\* The creation of tables: what is known of calls, requests, tables and answers.
Numbers == 1..MaxCreates
CreateOp == {"create", "reconcile"}
Entry == [op : CreateOp, key : Key, content : Content, table : 0..MaxCreates,
          answer : {"running", "unknown", "rejected", "partial", "succeeded", "failed"}]
Created == [op : CreateOp, n : Numbers, key : Key, name : Names, content : Content,
            step : {"sent", "asked", "created", "refused", "partial"},
            table : 0..MaxCreates, revision : Nat]
Document == [there : BOOLEAN, name : Names \cup {None}, content : Content \cup {Half, None},
             revision : Nat]
Named == [key : Key, name : Names, content : Content]

CreationTypeOK ==
  /\ documents \in [Numbers -> Document]
  /\ made \in [Key -> [table : 0..MaxCreates, name : Names \cup {None},
                       content : Content \cup {None}, revision : Nat]]
  /\ flight \subseteq Creation!Request
  /\ create \in [Process -> Created \cup {Creation!Idle}]
  /\ refs \subseteq Named
  /\ log \in [Numbers -> Entry \cup {Creation!NoAnswer}]
  /\ held \in [Numbers -> SUBSET (Content \cup {Half})]

\* The numbers begun are the first ones.
Counted == \E k \in 0..MaxCreates : \A n \in Numbers : log[n] # Creation!NoAnswer <=> n <= k

\* A call in progress is the one its number was given to; what it was told by
\* the provider is still so.
CallIsRunning(c) ==
  /\ log[create[c].n].answer = "running" /\ log[create[c].n].op = create[c].op
  /\ log[create[c].n].key = create[c].key /\ log[create[c].n].content = create[c].content
  /\ create[c].step \in {"sent", "refused", "partial"} => create[c].op = "create"
  /\ create[c].step = "refused" =>
       held[create[c].n] = {} /\ \A req \in flight : req.n # create[c].n
  /\ create[c].step \in {"created", "partial"} =>
       create[c].table # 0 /\ made[create[c].key].table = create[c].table
CallsAreRunning ==
  \A c \in Process : create[c] # Creation!Idle =>
    /\ CallIsRunning(c)
    /\ \A d \in Process : create[d] # Creation!Idle /\ create[d].n = create[c].n => d = c

\* A request in flight made no table and was not refused.
RequestsAreOpen ==
  \A req \in flight :
    /\ log[req.n] # Creation!NoAnswer
    /\ log[req.n].op = "create" /\ log[req.n].key = req.key /\ log[req.n].answer # "rejected"
    /\ held[req.n] = {}
    /\ \A other \in flight : other.n = req.n => other = req

TablesAreHeld ==
  \A t \in Numbers :
    /\ documents[t].there => documents[t].content \in held[t]
    /\ held[t] # {} => log[t] # Creation!NoAnswer

\* What was answered is true, and of a table that was made.
AnswerIsTrue(n) ==
  /\ log[n].answer \in {"succeeded", "failed", "partial"} =>
       log[n].table # 0 /\ made[log[n].key].table = log[n].table
  /\ log[n].answer = "succeeded" => log[n].content \in held[log[n].table]
  /\ log[n].op = "create" /\ log[n].answer = "rejected" =>
       held[n] = {} /\ \A req \in flight : req.n # n
AnswersKeep == \A n \in Numbers : log[n] # Creation!NoAnswer => AnswerIsTrue(n)

CreationInv ==
  /\ CreationTypeOK /\ Counted
  /\ CallsAreRunning /\ RequestsAreOpen /\ TablesAreHeld /\ AnswersKeep

\* The invariant of MaybeAI's table creation at the start.
LEMMA CreationInvInit == Creation!Init => CreationInv
<1> SUFFICES ASSUME Creation!Init PROVE CreationInv
  OBVIOUS
<1> USE BoundAssumption DEF Creation!Init
<1>1. CreationTypeOK
  BY DEF CreationTypeOK, Document, Creation!Calls, Numbers
<1>2. Counted
  <2>1. \A n \in Numbers : log[n] = Creation!NoAnswer /\ ~(n <= 0)
    BY DEF Numbers, Creation!Calls
  <2> QED BY <2>1 DEF Counted
<1>3. CallsAreRunning /\ RequestsAreOpen
  BY DEF CallsAreRunning, RequestsAreOpen
<1>4. TablesAreHeld
  BY DEF TablesAreHeld, Numbers, Creation!Calls
<1>5. AnswersKeep
  BY DEF AnswersKeep, Numbers, Creation!Calls
<1> QED BY <1>1, <1>2, <1>3, <1>4, <1>5 DEF CreationInv

\* The records that stand for nothing are none of the others.
LEMMA NoRecord == Creation!Idle \notin Created /\ Creation!NoAnswer \notin Entry
  BY DEF Creation!Idle, Creation!NoAnswer, Created, Entry, CreateOp

\* The number a call is given is one that nobody had.
LEMMA CreationNumber ==
  ASSUME CreationInv, Creation!Begun < MaxCreates
  PROVE  /\ Creation!Begun + 1 \in Numbers
         /\ log[Creation!Begun + 1] = Creation!NoAnswer
         /\ \A n \in Numbers : log[n] # Creation!NoAnswer <=> n <= Creation!Begun
         /\ Creation!Begun \in Nat
<1>1. PICK k \in 0..MaxCreates : \A n \in Numbers : log[n] # Creation!NoAnswer <=> n <= k
  BY DEF CreationInv, Counted
<1>2. {n \in Creation!Calls : log[n] # Creation!NoAnswer} = 1..k
  BY <1>1, BoundAssumption DEF Creation!Calls, Numbers
<1>3. Creation!Begun = k
  <2>1. Creation!Begun = Cardinality(1..k)
    BY <1>2 DEF Creation!Begun, Creation!Cardinality, Cardinality
  <2>2. k \in Int /\ 1 \in Int
    BY BoundAssumption
  <2>3. Cardinality(1..k) = IF 1 > k THEN 0 ELSE k - 1 + 1
    BY <2>2, FS_Interval
  <2> QED BY <2>1, <2>2, <2>3, BoundAssumption
<1> QED BY <1>1, <1>3, BoundAssumption DEF Numbers


\* What a call in progress relies on.
LEMMA RunningCall ==
  ASSUME CreationInv, NEW c \in Process, create[c] # Creation!Idle
  PROVE  /\ create[c] \in Created /\ create[c].n \in Numbers /\ create[c].key \in Key
         /\ CallIsRunning(c)
         /\ log[create[c].n] \in Entry /\ log[create[c].n] # Creation!NoAnswer
         /\ \A d \in Process : create[d] # Creation!Idle /\ create[d].n = create[c].n => d = c
<1>1. create[c] \in Created
  BY DEF CreationInv, CreationTypeOK
<1>2. create[c].n \in Numbers /\ create[c].key \in Key
  BY <1>1 DEF Created
<1>3. CallIsRunning(c)
  BY DEF CreationInv, CallsAreRunning
<1>4. log[create[c].n] # Creation!NoAnswer
  BY <1>3 DEF CallIsRunning, Creation!NoAnswer
<1>5. log[create[c].n] \in Entry
  BY <1>2, <1>4 DEF CreationInv, CreationTypeOK
<1> QED BY <1>1, <1>2, <1>3, <1>4, <1>5 DEF CreationInv, CallsAreRunning

\* An answer ends its call; it must be true of the tables as they are.
LEMMA CreationAnswerKeeps ==
  ASSUME CreationInv, NEW c \in Process, create[c] # Creation!Idle,
         NEW a \in {"unknown", "rejected", "partial", "succeeded", "failed"},
         NEW t \in 0..MaxCreates, Creation!Answer(c, a, t),
         UNCHANGED <<documents, made, flight, held>>, refs' \subseteq Named,
         a \in {"succeeded", "failed", "partial"} => t # 0 /\ made[create[c].key].table = t,
         a = "succeeded" => create[c].content \in held[t],
         a = "rejected" => create[c].step = "refused"
  PROVE  CreationInv'
<1> DEFINE n == create[c].n
<1>1. /\ create[c] \in Created /\ n \in Numbers /\ CallIsRunning(c)
      /\ log[n] \in Entry /\ log[n] # Creation!NoAnswer
      /\ \A d \in Process : create[d] # Creation!Idle /\ create[d].n = n => d = c
  BY RunningCall
<1>2. /\ \A m \in Numbers : m # n => log'[m] = log[m]
      /\ log'[n] = [log[n] EXCEPT !.answer = a, !.table = t]
      /\ DOMAIN log' = Numbers
      /\ \A d \in Process : create'[d] = IF d = c THEN Creation!Idle ELSE create[d]
      /\ create' \in [Process -> Created \cup {Creation!Idle}]
  BY <1>1 DEF Creation!Answer, CreationInv, CreationTypeOK
<1>3. /\ log'[n] \in Entry /\ log'[n] # Creation!NoAnswer
      /\ log'[n].op = log[n].op /\ log'[n].key = log[n].key /\ log'[n].content = log[n].content
      /\ log'[n].answer = a /\ log'[n].table = t
  <2>1. log'[n] \in Entry
    BY <1>1, <1>2 DEF Entry
  <2> QED BY <1>1, <1>2, <2>1, NoRecord DEF Entry
<1> HIDE DEF n
<1>4. log' \in [Numbers -> Entry \cup {Creation!NoAnswer}]
  <2>1. \A m \in Numbers : log'[m] \in Entry \cup {Creation!NoAnswer}
    BY <1>2, <1>3 DEF CreationInv, CreationTypeOK
  <2>2. log' = [m \in Numbers |-> log'[m]]
    BY <1>2 DEF Creation!Answer, CreationInv, CreationTypeOK, n
  <2> QED BY <2>1, <2>2
<1>5. CreationTypeOK'
  BY <1>2, <1>4 DEF CreationInv, CreationTypeOK
<1>6. Counted'
  BY <1>1, <1>2, <1>3 DEF CreationInv, Counted
<1>7. CallsAreRunning'
  <2> SUFFICES ASSUME NEW d \in Process, create'[d] # Creation!Idle
               PROVE  /\ CallIsRunning(d)'
                      /\ \A o \in Process : create'[o] # Creation!Idle /\ create'[o].n = create'[d].n
                                            => o = d
    BY DEF CallsAreRunning
  <2>1. d # c /\ create'[d] = create[d] /\ create[d].n # n
    BY <1>1, <1>2
  <2>2. /\ CallIsRunning(d) /\ create[d].n \in Numbers
        /\ \A o \in Process : create[o] # Creation!Idle /\ create[o].n = create[d].n => o = d
    BY <1>2, <2>1, RunningCall
  <2>3. CallIsRunning(d)'
    BY <1>2, <2>1, <2>2 DEF CallIsRunning
  <2> QED BY <1>2, <2>1, <2>2, <2>3
<1>8. RequestsAreOpen'
  <2> SUFFICES ASSUME NEW req \in flight
               PROVE  /\ log'[req.n] # Creation!NoAnswer
                      /\ log'[req.n].op = "create" /\ log'[req.n].key = req.key
                      /\ log'[req.n].answer # "rejected"
    BY DEF RequestsAreOpen, CreationInv
  <2>1. req.n \in Numbers
    BY DEF CreationInv, CreationTypeOK, Creation!Request, Creation!Calls, Numbers
  <2>2. CASE req.n # n
    BY <1>2, <2>1, <2>2 DEF RequestsAreOpen, CreationInv
  <2>3. CASE req.n = n
    BY <1>1, <1>3, <2>3 DEF RequestsAreOpen, CreationInv, CallIsRunning, n
  <2> QED BY <2>2, <2>3
<1>9. TablesAreHeld'
  BY <1>2, <1>3 DEF TablesAreHeld, CreationInv
<1>10. AnswersKeep'
  <2> SUFFICES ASSUME NEW m \in Numbers, log'[m] # Creation!NoAnswer PROVE AnswerIsTrue(m)'
    BY DEF AnswersKeep
  <2>1. CASE m # n
    BY <1>2, <2>1 DEF AnswersKeep, AnswerIsTrue, CreationInv
  <2>2. CASE m = n
    <3>1. /\ log[n].key = create[c].key /\ log[n].content = create[c].content
          /\ a = "rejected" => held[n] = {} /\ \A req \in flight : req.n # n
      BY <1>1 DEF CallIsRunning, n
    <3> QED BY <1>3, <2>2, <3>1 DEF AnswerIsTrue
  <2> QED BY <2>1, <2>2
<1> QED BY <1>5, <1>6, <1>7, <1>8, <1>9, <1>10 DEF CreationInv

\* A call that begins has the next number; one refused at once leaves no more
\* than its entry.
LEMMA CreationBeginKeeps ==
  ASSUME CreationInv, NEW c \in Process, create[c] = Creation!Idle, Creation!Begun < MaxCreates,
         NEW e \in Entry, log' = [log EXCEPT ![Creation!Begun + 1] = e],
         e.answer \in {"running", "rejected"},
         UNCHANGED <<documents, made, held, refs>>,
         NEW d \in Created, d.n = Creation!Begun + 1, d.op = e.op, d.key = e.key,
         d.content = e.content,
         \/ d.step = "sent" /\ d.op = "create" /\ create' = [create EXCEPT ![c] = d]
         \/ d.step = "asked" /\ d.op = "reconcile" /\ create' = [create EXCEPT ![c] = d]
         \/ d.op = "reconcile" /\ create' = create,
         create' # create => e.answer = "running",
         NEW r \in Creation!Request, r.n = Creation!Begun + 1, r.key = e.key,
         \/ e.op = "create" /\ e.answer = "running" /\ flight' = flight \cup {r}
         \/ e.op = "reconcile" /\ flight' = flight
  PROVE  CreationInv'
<1> DEFINE n == Creation!Begun + 1
<1>1. /\ n \in Numbers /\ log[n] = Creation!NoAnswer
      /\ \A m \in Numbers : log[m] # Creation!NoAnswer <=> m <= Creation!Begun
      /\ Creation!Begun \in Nat
  BY CreationNumber
<1>2. /\ \A m \in Numbers : m # n => log'[m] = log[m]
      /\ log'[n] = e /\ e # Creation!NoAnswer
      /\ log' \in [Numbers -> Entry \cup {Creation!NoAnswer}]
  BY <1>1, NoRecord DEF CreationInv, CreationTypeOK
<1>3. /\ create' \in [Process -> Created \cup {Creation!Idle}]
      /\ \A o \in Process : o # c => create'[o] = create[o]
      /\ create'[c] # Creation!Idle =>
           create'[c] = d /\ e.answer = "running" /\ d.step \in {"sent", "asked"}
           /\ (d.step = "sent" => d.op = "create")
  BY DEF CreationInv, CreationTypeOK
<1>4. /\ held[n] = {}
      /\ \A req \in flight : req.n # n /\ req.n \in Numbers
      /\ \A o \in Process : create[o] # Creation!Idle => create[o].n # n
  <2>1. held[n] = {}
    BY <1>1 DEF CreationInv, TablesAreHeld
  <2>2. \A req \in flight : req.n # n /\ req.n \in Numbers
    BY <1>1 DEF CreationInv, CreationTypeOK, RequestsAreOpen, Creation!Request, Creation!Calls, Numbers
  <2>3. \A o \in Process : create[o] # Creation!Idle => create[o].n # n
    BY <1>1, RunningCall
  <2> QED BY <2>1, <2>2, <2>3
<1>5. /\ \A req \in flight' : req \in flight \/ (req = r /\ e.op = "create" /\ e.answer = "running")
      /\ flight \subseteq flight'
      /\ flight' \subseteq Creation!Request
  BY DEF CreationInv, CreationTypeOK
<1>6. CreationTypeOK'
  BY <1>2, <1>3, <1>5 DEF CreationInv, CreationTypeOK
<1>7. Counted'
  <2>1. n \in 0..MaxCreates
    BY <1>1, BoundAssumption DEF Numbers
  <2>2. ASSUME NEW m \in Numbers PROVE log'[m] # Creation!NoAnswer <=> m <= n
    BY <1>1, <1>2, BoundAssumption DEF Numbers
  <2> QED BY <2>1, <2>2 DEF Counted
<1> HIDE DEF n
<1>n. r.n = n /\ d.n = n
  BY DEF n
<1>8. CallsAreRunning'
  <2> SUFFICES ASSUME NEW o \in Process, create'[o] # Creation!Idle
               PROVE  /\ CallIsRunning(o)'
                      /\ \A p \in Process : create'[p] # Creation!Idle /\ create'[p].n = create'[o].n
                                            => p = o
    BY DEF CallsAreRunning
  <2>1. CASE o = c
    <3>1. create'[o] = d /\ e.answer = "running" /\ d.step \in {"sent", "asked"}
          /\ (d.step = "sent" => d.op = "create")
      BY <1>3, <2>1
    <3>2. CallIsRunning(o)'
      BY <1>2, <1>n, <3>1 DEF CallIsRunning
    <3> QED BY <1>3, <1>4, <1>n, <2>1, <3>1, <3>2
  <2>2. CASE o # c
    <3>1. create'[o] = create[o] /\ create[o].n # n
      BY <1>3, <1>4, <2>2
    <3>2. /\ CallIsRunning(o) /\ create[o].n \in Numbers
          /\ \A p \in Process : create[p] # Creation!Idle /\ create[p].n = create[o].n => p = o
      BY <3>1, RunningCall
    <3>3. log'[create[o].n] = log[create[o].n]
      BY <1>2, <3>1, <3>2
    <3>4. \A req \in flight' : req \in flight \/ req.n # create[o].n
      BY <1>5, <1>n, <3>1
    <3>5. CallIsRunning(o)'
      BY <3>1, <3>2, <3>3, <3>4 DEF CallIsRunning
    <3> QED BY <1>3, <1>n, <3>1, <3>2, <3>5
  <2> QED BY <2>1, <2>2
<1>9. RequestsAreOpen'
  <2> SUFFICES ASSUME NEW req \in flight'
               PROVE  /\ log'[req.n] # Creation!NoAnswer
                      /\ log'[req.n].op = "create" /\ log'[req.n].key = req.key
                      /\ log'[req.n].answer # "rejected" /\ held[req.n] = {}
                      /\ \A other \in flight' : other.n = req.n => other = req
    BY DEF RequestsAreOpen
  <2>1. CASE req \in flight
    BY <1>2, <1>4, <1>5, <1>n, <2>1 DEF RequestsAreOpen, CreationInv
  <2>2. CASE req = r /\ e.op = "create" /\ e.answer = "running"
    BY <1>2, <1>4, <1>5, <1>n, <2>2
  <2> QED BY <1>5, <2>1, <2>2
<1>10. TablesAreHeld'
  BY <1>2 DEF TablesAreHeld, CreationInv
<1>11. AnswersKeep'
  <2> SUFFICES ASSUME NEW m \in Numbers, log'[m] # Creation!NoAnswer PROVE AnswerIsTrue(m)'
    BY DEF AnswersKeep
  <2>1. CASE m = n
    BY <1>2, <2>1 DEF AnswerIsTrue
  <2>2. CASE m # n
    <3>1. AnswerIsTrue(m) /\ log'[m] = log[m]
      BY <1>2, <2>2 DEF AnswersKeep, CreationInv
    <3>2. \A req \in flight' : req \in flight \/ req.n # m
      BY <1>5, <1>n, <2>2
    <3> QED BY <3>1, <3>2 DEF AnswerIsTrue
  <2> QED BY <2>1, <2>2
<1> QED BY <1>6, <1>7, <1>8, <1>9, <1>10, <1>11 DEF CreationInv

\* The calls: what a client begins, and how it ends.
LEMMA CreationCallsKeep ==
  ASSUME CreationInv, NEW c \in Process,
         \/ \E key \in Key, name \in Names, content \in Content :
              Creation!CreateTable(c, key, name, content)
         \/ \E ref \in refs, name \in Names : Creation!Reconcile(c, ref, name)
         \/ Creation!Lose(c) \/ Creation!Refused(c) \/ Creation!Partial(c)
         \/ Creation!Unavailable(c) \/ \E read \in BOOLEAN : Creation!ReadBack(c, read)
  PROVE  CreationInv'
<1>1. ASSUME NEW key \in Key, NEW name \in Names, NEW content \in Content,
             Creation!CreateTable(c, key, name, content)
      PROVE  CreationInv'
  <2> DEFINE e == [op |-> "create", key |-> key, content |-> content, answer |-> "running", table |-> 0]
             r == [n |-> Creation!Begun + 1, key |-> key, name |-> name, content |-> content]
             d == [op |-> "create", n |-> Creation!Begun + 1, key |-> key, name |-> name,
                   content |-> content, step |-> "sent", table |-> 0, revision |-> 0]
  <2>1. /\ create[c] = Creation!Idle /\ Creation!Begun < MaxCreates
        /\ log' = [log EXCEPT ![Creation!Begun + 1] = e]
        /\ flight' = flight \cup {r} /\ create' = [create EXCEPT ![c] = d]
        /\ UNCHANGED <<documents, made, held, refs>>
    BY <1>1 DEF Creation!CreateTable, Creation!Started
  <2>2. Creation!Begun + 1 \in Numbers
    BY <2>1, CreationNumber
  <2>3. e \in Entry /\ d \in Created /\ r \in Creation!Request
    BY <2>2, BoundAssumption DEF Entry, Created, Creation!Request, CreateOp, Numbers, Creation!Calls
  <2> QED BY <2>1, <2>3, CreationBeginKeeps
<1>2. ASSUME NEW ref \in refs, NEW name \in Names, Creation!Reconcile(c, ref, name)
      PROVE  CreationInv'
  <2> DEFINE e == [op |-> "reconcile", key |-> ref.key, content |-> ref.content,
                   answer |-> IF ref.name = name THEN "running" ELSE "rejected", table |-> 0]
             r == [n |-> Creation!Begun + 1, key |-> ref.key, name |-> name, content |-> ref.content]
             d == [op |-> "reconcile", n |-> Creation!Begun + 1, key |-> ref.key, name |-> name,
                   content |-> ref.content, step |-> "asked", table |-> 0, revision |-> 0]
  <2>1. /\ create[c] = Creation!Idle /\ Creation!Begun < MaxCreates
        /\ flight' = flight
        /\ create' = IF ref.name = name THEN [create EXCEPT ![c] = d] ELSE create
        /\ UNCHANGED <<documents, made, held, refs>>
    BY <1>2 DEF Creation!Reconcile
  <2>2. Creation!Begun + 1 \in Numbers
    BY <2>1, CreationNumber
  <2>3. log' = [log EXCEPT ![Creation!Begun + 1] = e]
    <3> DEFINE s == [op |-> "reconcile", key |-> ref.key, content |-> ref.content,
                     answer |-> "running", table |-> 0]
               b == Creation!Begun + 1
    <3>1. log' = [[log EXCEPT ![b] = s] EXCEPT ![b].answer = e.answer]
      BY <1>2 DEF Creation!Reconcile, Creation!Started
    <3>2. b \in Numbers /\ log \in [Numbers -> Entry \cup {Creation!NoAnswer}]
      BY <2>2 DEF CreationInv, CreationTypeOK
    <3>3. e = [s EXCEPT !.answer = e.answer]
      OBVIOUS
    <3> HIDE DEF s, e, b
    <3>4. log' = [log EXCEPT ![b] = [s EXCEPT !.answer = e.answer]]
      BY <3>1, <3>2
    <3> QED BY <3>3, <3>4 DEF b
  <2>4. e \in Entry /\ d \in Created /\ r \in Creation!Request
    BY <2>2, BoundAssumption
    DEF CreationInv, CreationTypeOK, Named, Entry, Created, Creation!Request, CreateOp, Numbers,
        Creation!Calls
  <2> QED BY <2>1, <2>3, <2>4, CreationBeginKeeps
<1>3. CASE Creation!Lose(c)
  <2>1. /\ create[c] # Creation!Idle /\ Creation!Answer(c, "unknown", 0)
        /\ UNCHANGED <<documents, made, flight, held>>
        /\ refs' = refs \cup {Creation!Reference(c)}
    BY <1>3 DEF Creation!Lose, Creation!Idle
  <2>2. Creation!Reference(c) \in Named
    BY <2>1, RunningCall DEF Created, Named, Creation!Reference
  <2>3. 0 \in 0..MaxCreates /\ refs' \subseteq Named
    BY <2>1, <2>2, BoundAssumption DEF CreationInv, CreationTypeOK
  <2> QED BY <2>1, <2>3, CreationAnswerKeeps
<1>4. CASE Creation!Refused(c)
  <2>1. /\ create[c] # Creation!Idle /\ Creation!Answer(c, "rejected", 0)
        /\ UNCHANGED <<documents, made, flight, held>> /\ refs' = refs
        /\ create[c].step = "refused"
    BY <1>4 DEF Creation!Refused, Creation!Idle
  <2>3. 0 \in 0..MaxCreates /\ refs' \subseteq Named
    BY <2>1, BoundAssumption DEF CreationInv, CreationTypeOK
  <2> QED BY <2>1, <2>3, CreationAnswerKeeps
<1>5. CASE Creation!Partial(c)
  <2>1. /\ create[c] # Creation!Idle /\ Creation!Answer(c, "partial", create[c].table)
        /\ UNCHANGED <<documents, made, flight, held>>
        /\ refs' = refs \cup {Creation!Reference(c)} /\ create[c].step = "partial"
    BY <1>5 DEF Creation!Partial, Creation!Idle
  <2>2. create[c] \in Created /\ CallIsRunning(c)
    BY <2>1, RunningCall
  <2>3. Creation!Reference(c) \in Named /\ create[c].table \in 0..MaxCreates
    BY <2>2 DEF Created, Named, Creation!Reference
  <2>4. refs' \subseteq Named
    BY <2>1, <2>3 DEF CreationInv, CreationTypeOK
  <2>5. create[c].table # 0 /\ made[create[c].key].table = create[c].table
    BY <2>1, <2>2 DEF CallIsRunning
  <2> QED BY <2>1, <2>3, <2>4, <2>5, CreationAnswerKeeps
<1>6. CASE Creation!Unavailable(c)
  <2>1. /\ create[c] # Creation!Idle /\ Creation!Answer(c, "unknown", 0)
        /\ UNCHANGED <<documents, made, flight, held>> /\ refs' = refs
    BY <1>6 DEF Creation!Unavailable, Creation!Idle
  <2>3. 0 \in 0..MaxCreates /\ refs' \subseteq Named
    BY <2>1, BoundAssumption DEF CreationInv, CreationTypeOK
  <2> QED BY <2>1, <2>3, CreationAnswerKeeps
<1>7. ASSUME NEW read \in BOOLEAN, Creation!ReadBack(c, read) PROVE CreationInv'
  <2> DEFINE a == IF read /\ Creation!ReadBackSame(c) THEN "succeeded" ELSE "failed"
  <2>1. /\ create[c] # Creation!Idle /\ Creation!Answer(c, a, create[c].table)
        /\ UNCHANGED <<documents, made, flight, held>> /\ refs' = refs
        /\ create[c].step = "created" /\ (read => documents[create[c].table].there)
    BY <1>7 DEF Creation!ReadBack, Creation!Idle
  <2>2. create[c] \in Created /\ CallIsRunning(c)
    BY <2>1, RunningCall
  <2>3. create[c].table \in 0..MaxCreates /\ refs' \subseteq Named
    BY <2>1, <2>2 DEF CreationInv, CreationTypeOK, Created
  <2>5. create[c].table # 0 /\ made[create[c].key].table = create[c].table
    BY <2>1, <2>2 DEF CallIsRunning
  <2>6. create[c].table \in Numbers
    BY <2>3, <2>5, BoundAssumption DEF Numbers
  <2>7. a = "succeeded" => create[c].content \in held[create[c].table]
    BY <2>1, <2>6 DEF Creation!ReadBackSame, CreationInv, TablesAreHeld
  <2>8. a \in {"unknown", "rejected", "partial", "succeeded", "failed"} /\ a # "rejected"
    OBVIOUS
  <2> HIDE DEF a
  <2> QED BY <2>1, <2>3, <2>5, <2>7, <2>8, CreationAnswerKeeps
<1> QED BY <1>1, <1>2, <1>3, <1>4, <1>5, <1>6, <1>7

\* What a request in flight relies on.
LEMMA OpenRequest ==
  ASSUME CreationInv, NEW req \in flight
  PROVE  /\ req \in Creation!Request /\ req.n \in Numbers /\ req.key \in Key
         /\ log[req.n] # Creation!NoAnswer /\ log[req.n].key = req.key
         /\ held[req.n] = {}
         /\ \A other \in flight : other.n = req.n => other = req
  BY DEF CreationInv, CreationTypeOK, RequestsAreOpen, Creation!Request, Creation!Calls, Numbers

\* A reply reaches the create that waits for it and nobody else.
LEMMA CreationReply ==
  ASSUME CreationInv, NEW req \in flight, NEW step \in {"created", "refused", "partial"},
         NEW table \in 0..MaxCreates, NEW revision \in Nat,
         create' = Creation!Reply(req, step, table, revision)
  PROVE  /\ create' \in [Process -> Created \cup {Creation!Idle}]
         /\ \A c \in Process :
              \/ create'[c] = create[c]
              \/ /\ create[c] # Creation!Idle /\ create'[c] # Creation!Idle
                 /\ create[c].n = req.n /\ create[c].key = req.key
                 /\ create'[c].n = create[c].n /\ create'[c].key = create[c].key
                 /\ create'[c].op = create[c].op /\ create'[c].op = "create"
                 /\ create'[c].content = create[c].content
                 /\ create'[c].step = step /\ create'[c].table = table
<1>1. ASSUME NEW c \in Process
      PROVE  /\ create'[c] \in Created \cup {Creation!Idle}
             /\ \/ create'[c] = create[c]
                \/ /\ create[c] # Creation!Idle /\ create'[c] # Creation!Idle
                   /\ create[c].n = req.n /\ create[c].key = req.key
                   /\ create'[c].n = create[c].n /\ create'[c].key = create[c].key
                   /\ create'[c].op = create[c].op /\ create'[c].op = "create"
                   /\ create'[c].content = create[c].content
                   /\ create'[c].step = step /\ create'[c].table = table
  <2>1. CASE c \notin Creation!Waiting(req)
    BY <2>1 DEF Creation!Reply, CreationInv, CreationTypeOK
  <2>2. CASE c \in Creation!Waiting(req)
    <3>1. create[c].n = req.n /\ create[c].step = "sent" /\ create[c] # Creation!Idle
      BY <2>2 DEF Creation!Waiting, Creation!Idle
    <3>2. create[c] \in Created /\ CallIsRunning(c)
      BY <3>1, RunningCall
    <3>3. create'[c] = [create[c] EXCEPT !.step = step, !.table = table, !.revision = revision]
      BY <2>2 DEF Creation!Reply
    <3>4. /\ create'[c] \in Created
          /\ create'[c].n = create[c].n /\ create'[c].key = create[c].key
          /\ create'[c].op = create[c].op /\ create'[c].content = create[c].content
          /\ create'[c].step = step /\ create'[c].table = table
      BY <3>2, <3>3 DEF Created
    <3>5. create[c].op = "create" /\ create[c].key = req.key
      BY <3>1, <3>2, OpenRequest DEF CallIsRunning
    <3> QED BY <3>1, <3>4, <3>5, NoRecord
  <2> QED BY <2>1, <2>2
<1>2. create' = [c \in Process |-> create'[c]]
  BY DEF Creation!Reply
<1> QED BY <1>1, <1>2

\* The provider makes a table for a key that has none.
LEMMA TableMade ==
  ASSUME CreationInv, NEW req \in flight, NEW content \in Content \cup {Half},
         NEW step \in {"created", "partial"}, Creation!Make(req, content, step),
         flight' = flight \ {req}, UNCHANGED <<refs, log>>
  PROVE  CreationInv'
<1> USE DEF Creation!Make
<1>1. /\ req \in Creation!Request /\ req.n \in Numbers /\ req.key \in Key
      /\ log[req.n] # Creation!NoAnswer /\ log[req.n].key = req.key
      /\ held[req.n] = {}
      /\ \A other \in flight : other.n = req.n => other = req
  BY OpenRequest
<1>2. req.n \in 0..MaxCreates /\ req.n # 0
  BY <1>1, BoundAssumption DEF Numbers
<1>3. /\ create' \in [Process -> Created \cup {Creation!Idle}]
      /\ \A c \in Process :
           \/ create'[c] = create[c]
           \/ /\ create[c] # Creation!Idle /\ create'[c] # Creation!Idle
              /\ create[c].n = req.n /\ create[c].key = req.key
              /\ create'[c].n = create[c].n /\ create'[c].key = create[c].key
              /\ create'[c].op = create[c].op /\ create'[c].op = "create"
              /\ create'[c].content = create[c].content
              /\ create'[c].step = step /\ create'[c].table = req.n
  BY <1>2, CreationReply
<1>4. /\ made[req.key].table = 0 /\ made'[req.key].table = req.n
      /\ \A k \in Key : k # req.key => made'[k] = made[k]
      /\ held'[req.n] = {content}
      /\ \A t \in Numbers : t # req.n => held'[t] = held[t] /\ documents'[t] = documents[t]
      /\ documents'[req.n].content = content
  BY <1>1 DEF CreationInv, CreationTypeOK
<1>5. CreationTypeOK'
  <2>1. documents' \in [Numbers -> Document]
    BY <1>1 DEF CreationInv, CreationTypeOK, Creation!Request, Document
  <2>2. made' \in [Key -> [table : 0..MaxCreates, name : Names \cup {None},
                           content : Content \cup {None}, revision : Nat]]
    BY <1>1, <1>2 DEF CreationInv, CreationTypeOK, Creation!Request
  <2>3. held' \in [Numbers -> SUBSET (Content \cup {Half})]
    BY <1>1 DEF CreationInv, CreationTypeOK
  <2> QED BY <1>3, <2>1, <2>2, <2>3 DEF CreationInv, CreationTypeOK
<1>6. Counted'
  BY DEF CreationInv, Counted
<1>7. CallsAreRunning'
  <2> SUFFICES ASSUME NEW c \in Process, create'[c] # Creation!Idle
               PROVE  /\ CallIsRunning(c)'
                      /\ \A o \in Process : create'[o] # Creation!Idle /\ create'[o].n = create'[c].n
                                            => o = c
    BY DEF CallsAreRunning
  <2>1. create[c] # Creation!Idle /\ create'[c].n = create[c].n
    BY <1>3
  <2>2. /\ CallIsRunning(c) /\ create[c].n \in Numbers /\ create[c].key \in Key
        /\ \A o \in Process : create[o] # Creation!Idle /\ create[o].n = create[c].n => o = c
    BY <2>1, RunningCall
  <2>3. CASE create'[c] = create[c]
    <3>1. create[c].step = "refused" => create[c].n # req.n
      BY <2>2 DEF CallIsRunning
    <3>2. create[c].step \in {"created", "partial"} => create[c].key # req.key
      BY <1>4, <2>2 DEF CallIsRunning
    <3>3. create[c].step = "refused" => held'[create[c].n] = {} /\ \A r \in flight' : r.n # create[c].n
      BY <1>4, <2>2, <3>1 DEF CallIsRunning
    <3>4. create[c].step \in {"created", "partial"} =>
            create[c].table # 0 /\ made'[create[c].key].table = create[c].table
      BY <1>4, <2>2, <3>2 DEF CallIsRunning
    <3>5. CallIsRunning(c)'
      BY <2>2, <2>3, <3>3, <3>4 DEF CallIsRunning
    <3> QED BY <1>3, <2>1, <2>2, <3>5
  <2>4. CASE create'[c] # create[c]
    <3>1. CallIsRunning(c)'
      BY <1>2, <1>3, <1>4, <2>2, <2>4 DEF CallIsRunning
    <3> QED BY <1>3, <2>1, <2>2, <3>1
  <2> QED BY <2>3, <2>4
<1>8. RequestsAreOpen'
  <2>1. \A r \in flight' : r \in flight /\ r.n # req.n /\ r.n \in Numbers
    BY <1>1, OpenRequest
  <2> QED BY <1>4, <2>1 DEF RequestsAreOpen, CreationInv
<1>9. TablesAreHeld'
  BY <1>1, <1>4 DEF TablesAreHeld, CreationInv
<1>10. AnswersKeep'
  <2> SUFFICES ASSUME NEW n \in Numbers, log[n] # Creation!NoAnswer PROVE AnswerIsTrue(n)'
    BY DEF AnswersKeep
  <2>1. AnswerIsTrue(n)
    BY DEF AnswersKeep, CreationInv
  <2>2. log[n].key \in Key /\ log[n].table \in 0..MaxCreates
    BY DEF CreationInv, CreationTypeOK, Entry
  <2>3. ASSUME log[n].answer \in {"succeeded", "failed", "partial"}
        PROVE  log[n].table # 0 /\ made'[log[n].key].table = log[n].table
    BY <1>4, <2>1, <2>2, <2>3 DEF AnswerIsTrue
  <2>4. ASSUME log[n].answer = "succeeded" PROVE log[n].content \in held'[log[n].table]
    <3>1. log[n].table \in Numbers /\ log[n].content \in held[log[n].table]
      BY <2>1, <2>2, <2>4, BoundAssumption DEF AnswerIsTrue, Numbers
    <3> QED BY <1>1, <1>4, <3>1
  <2>5. ASSUME log[n].op = "create", log[n].answer = "rejected"
        PROVE  held'[n] = {} /\ \A r \in flight' : r.n # n
    BY <1>4, <2>1, <2>5 DEF AnswerIsTrue
  <2> QED BY <2>3, <2>4, <2>5 DEF AnswerIsTrue
<1> QED BY <1>5, <1>6, <1>7, <1>8, <1>9, <1>10 DEF CreationInv

\* A request that makes nothing: answered from what its key made, refused, or
\* dropped without an answer.
LEMMA NoTableMade ==
  ASSUME CreationInv, NEW req \in flight,
         flight' = flight \ {req}, UNCHANGED <<documents, made, held, refs, log>>,
         create' \in [Process -> Created \cup {Creation!Idle}],
         NEW step \in {"created", "refused"}, NEW table,
         step = "created" => table # 0 /\ made[req.key].table = table,
         \A c \in Process :
           \/ create'[c] = create[c]
           \/ /\ create[c] # Creation!Idle /\ create'[c] # Creation!Idle
              /\ create[c].n = req.n /\ create[c].key = req.key
              /\ create'[c].n = create[c].n /\ create'[c].key = create[c].key
              /\ create'[c].op = create[c].op /\ create'[c].op = "create"
              /\ create'[c].content = create[c].content
              /\ create'[c].step = step /\ create'[c].table = table
  PROVE  CreationInv'
<1>1. /\ held[req.n] = {} /\ \A other \in flight : other.n = req.n => other = req
  BY OpenRequest
<1>2. CreationTypeOK' /\ Counted' /\ TablesAreHeld'
  BY DEF CreationInv, CreationTypeOK, Counted, TablesAreHeld
<1>3. CallsAreRunning'
  <2> SUFFICES ASSUME NEW c \in Process, create'[c] # Creation!Idle
               PROVE  /\ CallIsRunning(c)'
                      /\ \A o \in Process : create'[o] # Creation!Idle /\ create'[o].n = create'[c].n
                                            => o = c
    BY DEF CallsAreRunning
  <2>1. create[c] # Creation!Idle /\ create'[c].n = create[c].n
    OBVIOUS
  <2>2. /\ CallIsRunning(c)
        /\ \A o \in Process : create[o] # Creation!Idle /\ create[o].n = create[c].n => o = c
    BY <2>1, RunningCall
  <2>3. CallIsRunning(c)'
    BY <1>1, <2>1, <2>2 DEF CallIsRunning
  <2> QED BY <2>1, <2>2, <2>3
<1>4. RequestsAreOpen'
  BY DEF RequestsAreOpen, CreationInv
<1>5. AnswersKeep'
  BY DEF AnswersKeep, AnswerIsTrue, CreationInv
<1> QED BY <1>2, <1>3, <1>4, <1>5 DEF CreationInv

\* A request that reaches the provider, in time or late: it makes a table, whole or
\* half, answers again with the one there is, is refused, or has no effect.
LEMMA RequestKeeps ==
  ASSUME CreationInv, NEW req \in flight, Creation!Execute(req)
  PROVE  CreationInv'
<1>1. flight' = flight \ {req} /\ UNCHANGED <<refs, log>>
  BY DEF Creation!Execute
<1>2. req.content \in Content /\ req.key \in Key /\ made[req.key].table \in 0..MaxCreates
      /\ made[req.key].revision \in Nat /\ 0 \in 0..MaxCreates
  BY OpenRequest, BoundAssumption DEF Creation!Request, CreationInv, CreationTypeOK
<1>3. CASE Creation!Make(req, req.content, "created")
  BY <1>1, <1>2, <1>3, TableMade
<1>4. CASE Creation!Make(req, Half, "partial")
  BY <1>1, <1>4, TableMade
<1>5. CASE Creation!Again(req)
  <2> DEFINE table == made[req.key].table
  <2>1. /\ table # 0 /\ create' = Creation!Reply(req, "created", table, made[req.key].revision)
        /\ UNCHANGED <<documents, made, held>>
    BY <1>5 DEF Creation!Again
  <2>2. table \in 0..MaxCreates /\ made[req.key].revision \in Nat
    BY <1>2
  <2> HIDE DEF table
  <2>3. made[req.key].table = table
    BY DEF table
  <2> QED BY <1>1, <2>1, <2>2, <2>3, CreationReply, NoTableMade
<1>6. CASE Creation!Refuse(req)
  <2>1. create' = Creation!Reply(req, "refused", 0, 0) /\ UNCHANGED <<documents, made, held>>
    BY <1>6 DEF Creation!Refuse
  <2> QED BY <1>1, <1>2, <2>1, CreationReply, NoTableMade
<1>7. CASE create' = create /\ UNCHANGED <<documents, made, held>>
  <2>1. create' \in [Process -> Created \cup {Creation!Idle}]
    BY <1>7 DEF CreationInv, CreationTypeOK
  <2> QED BY <1>1, <1>7, <2>1, NoTableMade
<1> QED BY <1>3, <1>4, <1>5, <1>6, <1>7 DEF Creation!Execute

\* Others edit and delete tables; a reconcile finds one.
LEMMA OthersEditTables ==
  ASSUME CreationInv,
         \/ \E t \in Creation!Calls : Creation!DeleteTable(t)
         \/ \E t \in Creation!Calls, content \in Content : Creation!EditTable(t, content)
  PROVE  CreationInv'
<1>1. PICK t \in Numbers : /\ documents[t].there /\ UNCHANGED <<made, flight, create, refs, log>>
                           /\ Creation!DeleteTable(t)
                              \/ \E content \in Content : Creation!EditTable(t, content)
  BY DEF Creation!DeleteTable, Creation!EditTable, Numbers, Creation!Calls
<1>2. /\ \A o \in Numbers : o # t => documents'[o] = documents[o] /\ held'[o] = held[o]
      /\ documents'[t].there => documents'[t].content \in held'[t]
      /\ held[t] \subseteq held'[t] /\ held[t] # {}
      /\ documents' \in [Numbers -> Document]
      /\ held' \in [Numbers -> SUBSET (Content \cup {Half})]
  <2>1. held[t] # {}
    BY <1>1 DEF CreationInv, TablesAreHeld
  <2>2. documents \in [Numbers -> Document] /\ held \in [Numbers -> SUBSET (Content \cup {Half})]
    BY DEF CreationInv, CreationTypeOK
  <2>3. CASE Creation!DeleteTable(t)
    <3>1. documents' = [documents EXCEPT ![t].there = FALSE] /\ held' = held
      BY <2>3 DEF Creation!DeleteTable
    <3>2. [documents[t] EXCEPT !.there = FALSE] \in Document
      BY <2>2 DEF Document
    <3>3. /\ documents'[t].there = FALSE /\ documents' \in [Numbers -> Document]
          /\ \A o \in Numbers : o # t => documents'[o] = documents[o]
      BY <2>2, <3>1, <3>2
    <3> QED BY <2>1, <2>2, <3>1, <3>3
  <2>4. ASSUME NEW content \in Content, Creation!EditTable(t, content)
        PROVE  /\ \A o \in Numbers : o # t => documents'[o] = documents[o] /\ held'[o] = held[o]
               /\ documents'[t].content \in held'[t]
               /\ held[t] \subseteq held'[t]
               /\ documents' \in [Numbers -> Document]
               /\ held' \in [Numbers -> SUBSET (Content \cup {Half})]
    <3>1. /\ documents' = [documents EXCEPT ![t].content = content, ![t].revision = @ + 1]
          /\ held' = [held EXCEPT ![t] = @ \cup {content}]
      BY <2>4 DEF Creation!EditTable
    <3>2. /\ documents'[t].content = content
          /\ documents' \in [Numbers -> Document]
          /\ \A o \in Numbers : o # t => documents'[o] = documents[o]
      <4> DEFINE z == [documents[t] EXCEPT !.content = content]
                 x == [z EXCEPT !.revision = @ + 1]
                 one == [documents EXCEPT ![t].content = content]
      <4>1. documents[t] \in Document
        BY <2>2
      <4>2. z \in Document /\ z.content = content
        BY <4>1 DEF Document
      <4>3. one = [documents EXCEPT ![t] = z]
        OBVIOUS
      <4>4. documents' = [one EXCEPT ![t].revision = @ + 1]
        BY <3>1
      <4> HIDE DEF z, one
      <4>5. x \in Document /\ x.content = content
        BY <4>2 DEF Document
      <4>6. documents' = [documents EXCEPT ![t] = x]
        BY <2>2, <4>3, <4>4
      <4> HIDE DEF x
      <4> QED BY <2>2, <4>5, <4>6
    <3>3. /\ held'[t] = held[t] \cup {content} /\ \A o \in Numbers : o # t => held'[o] = held[o]
          /\ held' \in [Numbers -> SUBSET (Content \cup {Half})]
      BY <2>2, <3>1
    <3> QED BY <3>2, <3>3
  <2> QED BY <1>1, <2>1, <2>3, <2>4
<1>3. CreationTypeOK' /\ Counted'
  BY <1>1, <1>2 DEF CreationInv, CreationTypeOK, Counted
<1>4. TablesAreHeld'
  BY <1>1, <1>2 DEF TablesAreHeld, CreationInv
<1>5. \A n \in Numbers : held[n] = {} => held'[n] = {}
  BY <1>2
<1>6. CallsAreRunning'
  <2>1. \A c \in Process : create[c] # Creation!Idle => CallIsRunning(c) /\ create[c].n \in Numbers
    BY RunningCall
  <2>2. \A c \in Process : create[c] # Creation!Idle => CallIsRunning(c)'
    BY <1>1, <1>5, <2>1 DEF CallIsRunning
  <2> QED BY <1>1, <2>2 DEF CallsAreRunning, CreationInv
<1>7. RequestsAreOpen'
  BY <1>1, <1>5, OpenRequest DEF RequestsAreOpen, CreationInv
<1>8. AnswersKeep'
  <2> SUFFICES ASSUME NEW n \in Numbers, log[n] # Creation!NoAnswer PROVE AnswerIsTrue(n)'
    BY <1>1 DEF AnswersKeep
  <2>1. AnswerIsTrue(n) /\ log[n].table \in 0..MaxCreates
    BY DEF AnswersKeep, CreationInv, CreationTypeOK, Entry
  <2>2. log[n].answer = "succeeded" => log[n].table \in Numbers
    BY <2>1, BoundAssumption DEF AnswerIsTrue, Numbers
  <2> QED BY <1>1, <1>2, <1>5, <2>1, <2>2 DEF AnswerIsTrue
<1> QED BY <1>3, <1>4, <1>6, <1>7, <1>8 DEF CreationInv

\* A call that asked after its key learns which table was made for it.
LEMMA TableFound ==
  ASSUME CreationInv, NEW c \in Process, Creation!Found(c)
  PROVE  CreationInv'
<1>1. /\ create[c].step = "asked" /\ create[c] # Creation!Idle
      /\ made[create[c].key].table # 0
      /\ UNCHANGED <<documents, made, flight, refs, log, held>>
  BY DEF Creation!Found, Creation!Idle
<1>2. create[c] \in Created /\ create[c].key \in Key
  BY <1>1, RunningCall
<1>3. /\ create' = [create EXCEPT ![c] = create'[c]]
      /\ create'[c] = [create[c] EXCEPT !.step = "created", !.table = made[create[c].key].table,
                                        !.revision = made[create[c].key].revision]
  BY DEF Creation!Found, CreationInv, CreationTypeOK
<1>4. /\ create'[c] \in Created
      /\ create'[c].op = create[c].op /\ create'[c].n = create[c].n /\ create'[c].key = create[c].key
      /\ create'[c].content = create[c].content
      /\ create'[c].step = "created" /\ create'[c].table = made[create[c].key].table
  BY <1>2, <1>3 DEF Created, CreationInv, CreationTypeOK
<1>5. \A d \in Process : d # c => create'[d] = create[d]
  BY <1>3 DEF CreationInv, CreationTypeOK
<1>6. CreationTypeOK'
  BY <1>1, <1>3, <1>4 DEF CreationInv, CreationTypeOK
<1>7. CallsAreRunning'
  <2>1. \A d \in Process : create'[d] # Creation!Idle => create[d] # Creation!Idle /\ create'[d].n = create[d].n
    BY <1>1, <1>4, <1>5
  <2>2. ASSUME NEW d \in Process, create'[d] # Creation!Idle PROVE CallIsRunning(d)'
    <3>1. CallIsRunning(d)
      BY <2>1, <2>2, RunningCall
    <3>2. CASE d = c
      BY <1>1, <1>4, <3>1, <3>2 DEF CallIsRunning
    <3>3. CASE d # c
      BY <1>1, <1>5, <3>1, <3>3 DEF CallIsRunning
    <3> QED BY <3>2, <3>3
  <2> QED BY <2>1, <2>2 DEF CallsAreRunning, CreationInv
<1>8. Counted' /\ RequestsAreOpen' /\ TablesAreHeld' /\ AnswersKeep'
  BY <1>1 DEF CreationInv, Counted, RequestsAreOpen, TablesAreHeld, AnswersKeep, AnswerIsTrue
<1> QED BY <1>6, <1>7, <1>8 DEF CreationInv

\* Every step keeps the invariant of table creation.
LEMMA CreationInvNext == CreationInv /\ [Creation!Next]_createVars => CreationInv'
<1> SUFFICES ASSUME CreationInv, [Creation!Next]_createVars PROVE CreationInv'
  OBVIOUS
<1>1. ASSUME UNCHANGED <<documents, made, flight, create, refs, log, held>> PROVE CreationInv'
  BY <1>1 DEF CreationInv, CreationTypeOK, Counted, CallsAreRunning, CallIsRunning,
              RequestsAreOpen, TablesAreHeld, AnswersKeep, AnswerIsTrue
<1>2. CASE UNCHANGED createVars
  BY <1>1, <1>2 DEF createVars
<1>3. ASSUME NEW c \in Process, NEW proven \in BOOLEAN, Creation!ProbeNative(c, proven)
      PROVE  CreationInv'
  BY <1>1, <1>3 DEF Creation!ProbeNative
<1> QED BY <1>2, <1>3, CreationCallsKeep, TableFound, RequestKeeps, OthersEditTables DEF Creation!Next

\* The invariant of table creation holds in every behaviour.
LEMMA CreationInvariance == MCSpec => []CreationInv
<1>1. MCInit => CreationInv
  BY CreationInvInit DEF MCInit
<1>2. [MCNext]_<<sqliteVars, about, facadeVars, remoteVars, createVars>> => [Creation!Next]_createVars
  BY DEF MCNext
<1> QED BY <1>1, <1>2, CreationInvNext, PTL DEF MCSpec

\* The invariant says what a creation was answered.
LEMMA MaterializedHolds == CreationInv => Creation!MaterializedIsTrue
<1> SUFFICES ASSUME CreationInv, NEW n \in Numbers
             PROVE  /\ log[n].answer = "succeeded" =>
                         /\ made[log[n].key].table = log[n].table
                         /\ log[n].content \in held[log[n].table]
                    /\ log[n].op = "create" /\ log[n].answer = "rejected" =>
                         held[n] = {} /\ \A req \in flight : req.n # n
                    /\ log[n].answer \in {"failed", "partial"} =>
                         made[log[n].key].table = log[n].table /\ log[n].table # 0
  BY DEF Creation!MaterializedIsTrue, Creation!Calls, Numbers
<1>1. CASE log[n] = Creation!NoAnswer
  BY <1>1 DEF Creation!NoAnswer
<1>2. CASE log[n] # Creation!NoAnswer
  BY <1>2 DEF CreationInv, AnswersKeep, AnswerIsTrue
<1> QED BY <1>1, <1>2

\* What the provider's answers were taken to say has happened: a receipt the store
\* returned and the answer of a create or reconcile are true, for any number of
\* clients, keys and frames, however answers are lost, late or swapped.
THEOREM RemoteAnswersHold == MCSpec => []RemoteAnswersAreTrue
<1>1. RemoteInv /\ CreationInv => RemoteAnswersAreTrue
  BY MaterializedHolds DEF RemoteInv, RemoteAnswersAreTrue
<1> QED BY <1>1, RemoteInvariance, CreationInvariance, PTL
===========================================================================
