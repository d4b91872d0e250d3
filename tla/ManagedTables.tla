---------------------------- MODULE ManagedTables ----------------------------
(***************************************************************************)
(* The rows in which the SQL stores (sqlite/temporal.py and                *)
(* postgres/temporal.py) keep one logical target, and what a stage, a      *)
(* commit and an abort write to them once they are decided.  Both stores   *)
(* create the same tables and issue the same statements; what differs, the *)
(* transaction around them, is in SQLiteStore and PostgresStore.           *)
(*                                                                         *)
(* A stage identity is a hash of key and content, modelled as the pair; a  *)
(* snapshot identity is the hash of the content, modelled as the content.  *)
(* The receipts table is written and never read, and is left out.          *)
(***************************************************************************)
CONSTANTS
  Key,      \* idempotency keys
  Content,  \* artifacts to stage
  None      \* no key, content, stage, client

Stage == [key : Key, content : Content]

StageRequest == [op : {"stage"}, stage : Stage]
CommitRequest == [op : {"commit"}, stage : Stage, key : Key]
AbortRequest == [op : {"abort"}, stage : Stage]
Request == StageRequest \cup CommitRequest \cup AbortRequest

ASSUME TablesAssumption ==
  /\ None \notin Key \cup Content
  /\ None \notin Stage
  /\ None \notin Request

\* _otc_ts_stages (one row a key, and the rows marked committed),
\* _otc_ts_commits (one row a key, and those with current set),
\* _otc_ts_snapshots.
Tables ==
  [ stages : [Key -> Content \cup {None}],
    committed : SUBSET Key,
    commits : [Key -> Stage \cup {None}],
    current : SUBSET Key,
    snapshots : SUBSET Content ]

NoRows ==
  [ stages |-> [k \in Key |-> None],
    committed |-> {},
    commits |-> [k \in Key |-> None],
    current |-> {},
    snapshots |-> {} ]

-----------------------------------------------------------------------------
(* stage                                                                   *)

\* validate_stage_retry: a row of the key is answered if it binds the same
\* content and conflicts otherwise.
StageFound(db, s) == db.stages[s.key] = s.content
\* Variant: another content under the key is replaced (INSERT OR REPLACE).
MayStageOver(db, s) == db.commits[s.key] = None

MayStage(db, s) == db.stages[s.key] = None

RowsOfStage(db, s) == [db EXCEPT !.stages[s.key] = s.content]

-----------------------------------------------------------------------------
(* commit                                                                  *)

\* The key's commit row names this stage; another one is a conflict.
CommitFound(db, s, k) == db.commits[k] = s

\* No commit row of the key, and the stage is there under this key.
MayCommit(db, s, k) ==
  /\ db.commits[k] = None
  /\ db.stages[s.key] = s.content
  /\ s.key = k

\* Variant: no UPDATE of the stage's committed.
RowsUnflagged(db, s) ==
  [db EXCEPT !.snapshots = @ \cup {s.content}, !.current = {s.key}, !.commits[s.key] = s]

\* The snapshot unless it is there, the older current row reset, the commit row
\* as the current one, the stage row marked.
RowsOfCommit(db, s) ==
  [db EXCEPT !.snapshots = @ \cup {s.content},
             !.current = {s.key},
             !.commits[s.key] = s,
             !.committed = @ \cup {s.key}]

-----------------------------------------------------------------------------
(* abort                                                                   *)

\* Otherwise the answer is ALREADY_ABSENT or ALREADY_COMMITTED.
MayRemove(db, s) == db.stages[s.key] = s.content /\ s.key \notin db.committed

RowsOfAbort(db, s) == [db EXCEPT !.stages[s.key] = None]

-----------------------------------------------------------------------------
(* What a consistent database is.                                          *)

\* current() is never ambiguous, and finds a snapshot as soon as one commit
\* succeeded: exactly one commit row is the current one.
OneCurrentIn(db) ==
  /\ \A k, l \in db.current : k = l
  /\ \A k \in db.current : db.commits[k] # None
  /\ (\E k \in Key : db.commits[k] # None) => db.current # {}

\* A commit row is complete: it names the stage of its own key, that stage is
\* still there, marked committed, and its snapshot is readable.  Nothing else
\* is marked committed, so abort may remove what is not marked.
CommitRowsCompleteIn(db) ==
  \A k \in Key :
    /\ db.commits[k] # None =>
         /\ db.commits[k] = [key |-> k, content |-> db.stages[k]]
         /\ db.stages[k] \in Content
         /\ db.stages[k] \in db.snapshots
    /\ k \in db.committed <=> db.commits[k] # None

-----------------------------------------------------------------------------
(* The managed target in the rows: an uncommitted row is a stage, a commit *)
(* row a commit.                                                           *)

Staged(db) == [k \in Key |-> IF db.commits[k] = None THEN db.stages[k] ELSE None]
Committed(db) ==
  [k \in Key |-> IF db.commits[k] = None THEN None ELSE db.commits[k].content]
Current(db) == IF db.current = {} THEN None ELSE CHOOSE k \in db.current : TRUE

-----------------------------------------------------------------------------
(* What one transaction does to the rows, and what it keeps.               *)

Consistent(db) == OneCurrentIn(db) /\ CommitRowsCompleteIn(db)

StageStep(db, new, s) == MayStage(db, s) /\ new = RowsOfStage(db, s)
CommitStep(db, new, s) == MayCommit(db, s, s.key) /\ new = RowsOfCommit(db, s)
RemoveStep(db, new, s) == MayRemove(db, s) /\ new = RowsOfAbort(db, s)

Advance(db, new) ==
  \/ new = db
  \/ \E s \in Stage : StageStep(db, new, s) \/ CommitStep(db, new, s) \/ RemoveStep(db, new, s)

\* No step loses a commit row or a snapshot.
Kept(db, new) ==
  /\ new \in Tables
  /\ Consistent(new)
  /\ db.snapshots \subseteq new.snapshots
  /\ \A k \in Key : db.commits[k] # None => new.commits[k] = db.commits[k]
=============================================================================
