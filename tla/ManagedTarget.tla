--------------------------- MODULE ManagedTarget ---------------------------
(***************************************************************************)
(* What one logical target of managed temporal storage promises to its     *)
(* callers, whichever provider keeps it (local files, SQLite, PostgreSQL). *)
(*                                                                         *)
(* A caller stages one content under an idempotency key, invisibly; then   *)
(* commits that stage, which makes its content the current snapshot of the *)
(* target; or aborts it.  The requests, receipts and dispositions are      *)
(* those of open_table_connector.timeseries.storage; retries and refusals  *)
(* change nothing and are stuttering steps here.                           *)
(***************************************************************************)

CONSTANTS
  Key,      \* idempotency keys
  Content,  \* what a stage binds: artifact hash, descriptor hash, target
  None      \* neither a key nor a content

VARIABLES
  staged,     \* key -> content staged under it and neither committed nor aborted
  committed,  \* key -> content its commit made visible
  current     \* key whose commit is the visible one

vars == <<staged, committed, current>>

TypeOK ==
  /\ staged \in [Key -> Content \cup {None}]
  /\ committed \in [Key -> Content \cup {None}]
  /\ current \in Key \cup {None}

Init ==
  /\ staged = [k \in Key |-> None]
  /\ committed = [k \in Key |-> None]
  /\ current = None

\* A key is bound to the first content staged under it (validate_stage_retry
\* refuses any other), and stays bound once it is committed.
Stage(k, c) ==
  /\ staged[k] = None
  /\ committed[k] = None
  /\ staged' = [staged EXCEPT ![k] = c]
  /\ UNCHANGED <<committed, current>>

\* A commit takes effect once: its key was staged and was not committed.
Commit(k) ==
  /\ staged[k] # None
  /\ committed[k] = None
  /\ committed' = [committed EXCEPT ![k] = staged[k]]
  /\ staged' = [staged EXCEPT ![k] = None]
  /\ current' = k

\* Only an uncommitted stage is removed; the visible snapshot stays.
Abort(k) ==
  /\ staged[k] # None
  /\ staged' = [staged EXCEPT ![k] = None]
  /\ UNCHANGED <<committed, current>>

Next ==
  \E k \in Key :
    \/ \E c \in Content : Stage(k, c)
    \/ Commit(k)
    \/ Abort(k)

Spec == Init /\ [][Next]_vars
=============================================================================
