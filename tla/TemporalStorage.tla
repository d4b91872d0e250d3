--------------------------- MODULE TemporalStorage ---------------------------
(* The SDK's managed storage of a time-series view (sdk/temporal.py           *)
(* TemporalStorage) over the SQLite extension (sqlite/sdk_temporal.py).  The   *)
(* facade hands out stages and snapshots as values that carry their lease and  *)
(* retention: it compares them with the clock before it calls the store, and   *)
(* the store knows nothing of them.  The store's target is the database, so    *)
(* the views of two tables of one database share it; a handle is only good for *)
(* the view that made it and while its descriptor hash is the view's.  The     *)
(* store's own transactions are SQLiteStore's, one atomic step here, whose     *)
(* answer may be lost.                                                         *)
EXTENDS ManagedTables, Naturals, FiniteSets

CONSTANTS Views,      \* time-series views of tables of one database
          Hash,       \* view or content -> descriptor hash
          Times,      \* instants of the clock
          Never,      \* later than every instant: no deadline
          MaxCalls    \* bound: calls started

Deadlines == Times \cup {Never}

VARIABLES rows,       \* the managed tables of the database
          clock,      \* the extension's clock
          handles,    \* stages handed out: view, stage, hash, lease
          snapshots,  \* snapshots handed out: view, commit, retention
          pending,    \* calls between their check and their store transaction
          calls,      \* calls started
          removed,    \* history: stages an abort said are gone, not staged since
          shown       \* history: what the last current() or readback() returned

vars == <<rows, clock, handles, snapshots, pending, calls, removed, shown>>

Call == [op : {"commit", "abort"}, stage : Stage, view : Views, until : Deadlines]
Expired(deadline) == deadline < clock

Started == calls < MaxCalls /\ calls' = calls + 1

\* _assert_stage
Mine(h, v) == h.view = v /\ h.hash = Hash[v]

Tick == /\ clock + 1 \in Times
        /\ clock' = clock + 1
        /\ UNCHANGED <<rows, handles, snapshots, pending, calls, removed, shown>>

\* stage: the frame's artifact is written, the store stages it or finds it
\* staged; the handle carries the lease asked for now.
Stage_(v, s, lease) ==
  /\ Started
  /\ StageFound(rows, s) \/ MayStage(rows, s)
  /\ rows' = IF MayStage(rows, s) THEN RowsOfStage(rows, s) ELSE rows
  /\ \/ handles' = handles \cup {[view |-> v, stage |-> s, hash |-> Hash[s.content],
                                  lease |-> lease]}
     \/ UNCHANGED handles
  /\ removed' = removed \ {s}
  /\ UNCHANGED <<clock, snapshots, pending, shown>>

\* commit and abort look at the handle and the clock, then call the store; an
\* abort of an expired handle is answered EXPIRED and reaches nothing.
Check(op, h, until) ==
  /\ Started
  /\ Mine(h, h.view) /\ ~Expired(h.lease)
  /\ pending' = pending \cup {[op |-> op, stage |-> h.stage, view |-> h.view, until |-> until]}
  /\ UNCHANGED <<rows, clock, handles, snapshots, removed, shown>>

\* A variant: the stage committed is looked for among the handles.
HeldStage(s) == \E h \in handles : h.stage = s
\* commit: the commit row found, or the stage made current.
StageThere(s) == rows.stages[s.key] = s.content

CommitStage(call, answered) ==
  LET s == call.stage
  IN /\ call.op = "commit"
     /\ CommitFound(rows, s, s.key) \/ (rows.commits[s.key] = None /\ StageThere(s))
     /\ rows' = IF CommitFound(rows, s, s.key) THEN rows ELSE RowsOfCommit(rows, s)
     /\ snapshots' = IF answered
                     THEN snapshots \cup {[view |-> call.view, commit |-> s, hash |-> Hash[s.content],
                                           until |-> call.until]}
                     ELSE snapshots
     /\ pending' = pending \ {call}
     /\ UNCHANGED <<clock, handles, calls, removed, shown>>

\* The stage is gone, or another content was committed under the key.
CommitRefused(call) ==
  /\ call.op = "commit"
  /\ rows.commits[call.stage.key] # call.stage
  /\ rows.commits[call.stage.key] # None \/ ~StageThere(call.stage)
  /\ pending' = pending \ {call}
  /\ UNCHANGED <<rows, clock, handles, snapshots, calls, removed, shown>>

\* ABORTED and ALREADY_ABORTED; ALREADY_COMMITTED says nothing is removed.
AbortStage(call, answered) ==
  LET s == call.stage
  IN /\ call.op = "abort"
     /\ rows' = IF MayRemove(rows, s) THEN RowsOfAbort(rows, s) ELSE rows
     /\ removed' = IF answered /\ rows'.stages[s.key] # s.content THEN removed \cup {s} ELSE removed
     /\ pending' = pending \ {call}
     /\ UNCHANGED <<clock, handles, snapshots, calls, shown>>

\* current(): the snapshot of the database's last commit, whichever view made
\* it, under the asking view's name; refused when its descriptor hash differs.
CurrentOf(v) ==
  LET s == rows.commits[Current(rows)]
  IN /\ Started
     /\ rows.current # {} /\ Hash[s.content] = Hash[v]
     /\ shown' = s
     /\ snapshots' = snapshots \cup {[view |-> v, commit |-> s, hash |-> Hash[s.content],
                                      until |-> Never]}
     /\ UNCHANGED <<rows, clock, handles, pending, removed>>

\* readback(): the bytes the snapshot's reference names.
Readback(n) ==
  /\ Started
  /\ n.hash = Hash[n.view] /\ ~Expired(n.until)
  /\ n.commit.content \in rows.snapshots
  /\ shown' = n.commit
  /\ UNCHANGED <<rows, clock, handles, snapshots, pending, removed>>

Init ==
  /\ rows = NoRows
  /\ clock = 0
  /\ handles = {} /\ snapshots = {}
  /\ pending = {} /\ calls = 0
  /\ removed = {} /\ shown = None

Next ==
  \/ Tick
  \/ \E v \in Views, s \in Stage, lease \in Deadlines : Stage_(v, s, lease)
  \/ \E op \in {"commit", "abort"}, h \in handles, until \in Deadlines :
        (op = "abort" => until = Never) /\ Check(op, h, until)
  \/ \E call \in pending :
        \/ \E answered \in BOOLEAN : CommitStage(call, answered) \/ AbortStage(call, answered)
        \/ CommitRefused(call)
  \/ \E v \in Views : CurrentOf(v)
  \/ \E n \in snapshots : Readback(n)

Spec == Init /\ [][Next]_vars

\* Type invariant.
TypeOK ==
  /\ rows \in Tables /\ clock \in Times
  /\ pending \subseteq Call
  /\ removed \subseteq Stage /\ shown \in Stage \cup {None}

\* A stage whose abort was answered ABORTED or ALREADY_ABORTED is not committed
\* afterwards, through any other handle of it and although a commit may have
\* passed its checks before, unless somebody stages it again.
AbortedStaysAborted == \A s \in removed : rows.commits[s.key] # s

\* A snapshot handed out can be read back for ever, whatever is staged, aborted
\* or committed through other views and handles of the database.
SnapshotsStay == \A n \in snapshots : n.commit.content \in rows.snapshots
=============================================================================
