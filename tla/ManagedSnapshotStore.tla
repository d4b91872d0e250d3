------------------------ MODULE ManagedSnapshotStore ------------------------
(***************************************************************************)
(* local_files/managed_snapshots.py: the snapshot lifecycle the CSV, JSON, *)
(* JSONL and Excel stores share.  One logical target is a directory        *)
(*                                                                         *)
(*    current.json            the pointer to the visible snapshot          *)
(*    stages/<digest>.arrow   staged bytes, invisible                      *)
(*    snapshots/<sha>.<ext>   immutable published bytes                    *)
(*    receipts/<op>.json      one receipt per operation                    *)
(*    commit.lock             flock held by stage, commit, abort, recover  *)
(*                                                                         *)
(* used by several processes at once.  A file is always written to a       *)
(* temporary sibling and renamed, so every handler is a chain of           *)
(* WriteTemporary and rename steps, and dies between any two of them when  *)
(* its process crashes or an exception leaves it (Crash).                  *)
(*                                                                         *)
(* Operation identities are those LocalFilesSdkTemporalExtension derives   *)
(* (sdk-stage-<key>, sdk-commit-<stage_id>, ...), so a receipt file is     *)
(* never shared by two operations and the stage and commit receipts are    *)
(* functions of the idempotency key.  A stage identity is a hash of key    *)
(* and content, a snapshot identity a hash of the content: both are        *)
(* modelled as what is hashed.                                             *)
(***************************************************************************)
EXTENDS Naturals

CONSTANTS
  Client,     \* processes working on the target
  Key,        \* idempotency keys
  Content,    \* artifacts (with descriptor and physical target) to stage
  None,       \* no key, no content, no stage, no client
  MaxCrashes  \* bound: how many handlers may die half-way

Stage == [key : Key, content : Content]

StageRequest == [op : {"stage"}, stage : Stage]
CommitRequest == [op : {"commit"}, stage : Stage, key : Key]
AbortRequest == [op : {"abort"}, stage : Stage]
RecoverRequest == [op : {"recover"}]
ReadbackRequest == [op : {"readback"}, content : Content]

LockedRequest == StageRequest \cup CommitRequest \cup AbortRequest \cup RecoverRequest
Request == LockedRequest \cup ReadbackRequest

Directory == {"layout", "stages", "snapshots", "receipts"}

\* A uuid4 name: a client has one live temporary, and what a dead handler of
\* it left behind was born under a smaller crash count.
Temporary == [owner : Client, born : Nat, dir : Directory]

ASSUME StoreAssumption ==
  /\ None \notin Client \cup Key \cup Content
  /\ None \notin Stage
  /\ None \notin Temporary
  /\ MaxCrashes \in Nat

VARIABLES
  stages,        \* stages whose bytes are under stages/
  snapshots,     \* contents published under snapshots/
  stageReceipt,  \* key -> content of its stage receipt
  commitReceipt, \* key -> content of its commit receipt
  pointer,       \* the stage current.json names
  temporaries,   \* *.tmp files
  lock,          \* holder of commit.lock
  listed,        \* temporaries the holder's recovery found and has to unlink
  phase,         \* client -> where its handler stands
  temporary,     \* client -> the temporary its handler has written and not renamed
  request,       \* client -> what it was called with
  disposition,   \* client -> the answer its abort is about to give
  crashes,       \* handlers that died, a history that also names temporaries
  published      \* stages the pointer ever named, a history

files == <<stages, snapshots, stageReceipt, commitReceipt, pointer>>
handlers == <<phase, temporary, request, disposition>>
vars == <<files, temporaries, lock, listed, handlers, crashes, published>>

-----------------------------------------------------------------------------
(* The files each phase writes and the directory of its temporary.         *)

Destination(ph) ==
  CASE ph = "stage_bytes" -> "stages"
    [] ph = "snapshot" -> "snapshots"
    [] ph = "pointer" -> "layout"
    [] OTHER -> "receipts"

ReceiptPhase == {"stage_receipt", "commit_receipt", "abort_receipt"}
LockedWritePhase == {"stage_bytes", "snapshot", "pointer"} \cup ReceiptPhase
WritePhase == LockedWritePhase \cup {"readback_receipt"}
LockedPhase == {"locked"} \cup LockedWritePhase
Phase == {"idle"} \cup LockedPhase \cup {"readback_receipt"}

Disposition == {"removed", "already_absent", "already_committed"}

TypeOK ==
  /\ stages \subseteq Stage
  /\ snapshots \subseteq Content
  /\ stageReceipt \in [Key -> Content \cup {None}]
  /\ commitReceipt \in [Key -> Content \cup {None}]
  /\ pointer \in Stage \cup {None}
  /\ temporaries \subseteq Temporary
  /\ lock \in Client \cup {None}
  /\ listed \subseteq Temporary
  /\ phase \in [Client -> Phase]
  /\ temporary \in [Client -> Temporary \cup {None}]
  /\ request \in [Client -> Request \cup {None}]
  /\ disposition \in [Client -> Disposition \cup {None}]
  /\ crashes \in Nat
  /\ published \subseteq Stage

Init ==
  /\ stages = {}
  /\ snapshots = {}
  /\ stageReceipt = [k \in Key |-> None]
  /\ commitReceipt = [k \in Key |-> None]
  /\ pointer = None
  /\ temporaries = {}
  /\ lock = None
  /\ listed = {}
  /\ phase = [p \in Client |-> "idle"]
  /\ temporary = [p \in Client |-> None]
  /\ request = [p \in Client |-> None]
  /\ disposition = [p \in Client |-> None]
  /\ crashes = 0
  /\ published = {}

-----------------------------------------------------------------------------
(* Entering and leaving a handler.                                         *)

\* Variant: the lock is taken and nothing is recovered.
AcquireWithoutRecovery(p, r) ==
  /\ phase[p] = "idle"
  /\ lock = None
  /\ lock' = p
  /\ listed' = {}
  /\ phase' = [phase EXCEPT ![p] = "locked"]
  /\ request' = [request EXCEPT ![p] = r]
  /\ UNCHANGED <<files, temporaries, temporary, disposition, crashes, published>>

\* _locked with _recover_unlocked: flock is free, the holder recovers first
\* and so lists every *.tmp; abort_stage takes the lock without recovering.
Acquire(p, r) ==
  /\ phase[p] = "idle"
  /\ lock = None
  /\ lock' = p
  /\ listed' = IF r.op = "abort" THEN {} ELSE temporaries
  /\ phase' = [phase EXCEPT ![p] = "locked"]
  /\ request' = [request EXCEPT ![p] = r]
  /\ UNCHANGED <<files, temporaries, temporary, disposition, crashes, published>>

\* The handler answers or raises: `finally` unlocks.
Return(p) ==
  /\ phase' = [phase EXCEPT ![p] = "idle"]
  /\ request' = [request EXCEPT ![p] = None]
  /\ temporary' = [temporary EXCEPT ![p] = None]
  /\ disposition' = [disposition EXCEPT ![p] = None]
  /\ lock' = IF lock = p THEN None ELSE lock
  /\ listed' = IF lock = p THEN {} ELSE listed

GoTo(p, ph) ==
  /\ phase' = [phase EXCEPT ![p] = ph]
  /\ UNCHANGED <<request, disposition, lock, listed>>

\* The recovery of a glob'ed directory unlinks what it listed, file by file.
RecoverUnlink(p, t) ==
  /\ phase[p] = "locked"
  /\ t \in listed
  /\ t \in temporaries
  /\ temporaries' = temporaries \ {t}
  /\ listed' = listed \ {t}
  /\ UNCHANGED <<files, handlers, lock, crashes, published>>

\* Variant: a file that is gone is tried again and again.
RecoverRetries(p, t) ==
  /\ phase[p] = "locked"
  /\ t \in listed
  /\ t \notin temporaries
  /\ UNCHANGED vars

\* A readback, which takes no lock, renamed the file after it was listed:
\* unlink raises FileNotFoundError and the whole operation fails.
RecoverRaises(p, t) ==
  /\ phase[p] = "locked"
  /\ t \in listed
  /\ t \notin temporaries
  /\ Return(p)
  /\ UNCHANGED <<files, temporaries, crashes, published>>

\* The handler holds the lock and has finished recovering.
Deciding(p, op) ==
  /\ phase[p] = "locked"
  /\ listed = {}
  /\ request[p].op = op

RecoverDone(p) ==
  /\ Deciding(p, "recover")
  /\ Return(p)
  /\ UNCHANGED <<files, temporaries, crashes, published>>

\* The process dies, or an exception leaves the handler: the kernel or the
\* `finally` drops the lock, the files stay as they are.
Crash(p) ==
  /\ phase[p] # "idle"
  /\ crashes < MaxCrashes
  /\ crashes' = crashes + 1
  /\ Return(p)
  /\ UNCHANGED <<files, temporaries, published>>

-----------------------------------------------------------------------------
(* _write_temporary and os.replace, for every file a handler writes.       *)

\* An O_EXCL temporary beside the destination, written and fsynced.
WriteTemporary(p) ==
  LET t == [owner |-> p, born |-> crashes, dir |-> Destination(phase[p])]
  IN /\ phase[p] \in WritePhase
     /\ temporary[p] = None
     /\ temporary' = [temporary EXCEPT ![p] = t]
     /\ temporaries' = temporaries \cup {t}
     /\ UNCHANGED <<files, lock, listed, phase, request, disposition,
                    crashes, published>>

\* os.replace of the temporary written in phase ph.
Renaming(p, ph) ==
  /\ phase[p] = ph
  /\ temporary[p] \in temporaries
  /\ temporaries' = temporaries \ {temporary[p]}
  /\ UNCHANGED crashes

-----------------------------------------------------------------------------
(* stage_artifact                                                          *)

\* The key has a stage receipt: it is returned, or the request conflicts
\* with it.  The staged bytes are not looked at.
StageAnswered(p) ==
  /\ Deciding(p, "stage")
  /\ stageReceipt[request[p].stage.key] # None
  /\ Return(p)
  /\ UNCHANGED <<files, temporaries, crashes, published>>

\* A missing artifact, its descriptor, a row bound or the deadline.
StageRefused(p) ==
  /\ Deciding(p, "stage")
  /\ stageReceipt[request[p].stage.key] = None
  /\ Return(p)
  /\ UNCHANGED <<files, temporaries, crashes, published>>

\* Variant: no earlier receipt of the key is looked for.
StageAcceptedOver(p) ==
  /\ Deciding(p, "stage")
  /\ GoTo(p, IF request[p].stage \in stages THEN "stage_receipt" ELSE "stage_bytes")
  /\ UNCHANGED <<files, temporaries, temporary, crashes, published>>

\* _write_content_once skips bytes an interrupted stage already left.
StageAccepted(p) ==
  /\ Deciding(p, "stage")
  /\ stageReceipt[request[p].stage.key] = None
  /\ GoTo(p, IF request[p].stage \in stages THEN "stage_receipt" ELSE "stage_bytes")
  /\ UNCHANGED <<files, temporaries, temporary, crashes, published>>

StageBytes(p) ==
  /\ Renaming(p, "stage_bytes")
  /\ stages' = stages \cup {request[p].stage}
  /\ temporary' = [temporary EXCEPT ![p] = None]
  /\ GoTo(p, "stage_receipt")
  /\ UNCHANGED <<snapshots, stageReceipt, commitReceipt, pointer, published>>

StageReceipt(p) ==
  /\ Renaming(p, "stage_receipt")
  /\ stageReceipt' = [stageReceipt EXCEPT ![request[p].stage.key] = request[p].stage.content]
  /\ Return(p)
  /\ UNCHANGED <<stages, snapshots, commitReceipt, pointer, published>>

-----------------------------------------------------------------------------
(* publish_snapshot                                                        *)

PointerHasKey(k) == pointer # None /\ pointer.key = k

\* The key has a commit receipt: it is returned, or the request conflicts.
CommitAnswered(p) ==
  /\ Deciding(p, "commit")
  /\ commitReceipt[request[p].key] # None
  /\ Return(p)
  /\ UNCHANGED <<files, temporaries, crashes, published>>

\* Variant: the pointer's key is compared, its stage is not.
CommitReconcilesByKey(p) ==
  /\ Deciding(p, "commit")
  /\ commitReceipt[request[p].key] = None
  /\ PointerHasKey(request[p].key)
  /\ GoTo(p, "commit_receipt")
  /\ UNCHANGED <<files, temporaries, temporary, crashes, published>>

\* The pointer carries the key: the commit was interrupted between pointer
\* and receipt, and the receipt is written from the pointer.
CommitReconciles(p) ==
  /\ Deciding(p, "commit")
  /\ commitReceipt[request[p].key] = None
  /\ PointerHasKey(request[p].key)
  /\ pointer = request[p].stage
  /\ GoTo(p, "commit_receipt")
  /\ UNCHANGED <<files, temporaries, temporary, crashes, published>>

\* Neither receipt nor pointer: the stage has to be there, under this key.
MayCommit(p) ==
  LET s == request[p].stage
  IN /\ Deciding(p, "commit")
     /\ commitReceipt[request[p].key] = None
     /\ ~PointerHasKey(request[p].key)
     /\ stageReceipt[s.key] = s.content
     /\ s.key = request[p].key
     /\ s \in stages

\* Variant: the pointer is written first.
CommitAcceptedPointerFirst(p) ==
  /\ MayCommit(p)
  /\ GoTo(p, "pointer")
  /\ UNCHANGED <<files, temporaries, temporary, crashes, published>>

CommitAccepted(p) ==
  /\ MayCommit(p)
  /\ GoTo(p, IF request[p].stage.content \in snapshots THEN "pointer" ELSE "snapshot")
  /\ UNCHANGED <<files, temporaries, temporary, crashes, published>>

\* Another stage under the key, an unknown stage, missing bytes, a bound or
\* the deadline.
CommitRefused(p) ==
  /\ Deciding(p, "commit")
  /\ commitReceipt[request[p].key] = None
  /\ PointerHasKey(request[p].key) => pointer # request[p].stage
  /\ Return(p)
  /\ UNCHANGED <<files, temporaries, crashes, published>>

Snapshot(p) ==
  /\ Renaming(p, "snapshot")
  /\ snapshots' = snapshots \cup {request[p].stage.content}
  /\ temporary' = [temporary EXCEPT ![p] = None]
  /\ GoTo(p, "pointer")
  /\ UNCHANGED <<stages, stageReceipt, commitReceipt, pointer, published>>

\* The commit takes effect.
PointerReplace(p) ==
  /\ Renaming(p, "pointer")
  /\ pointer' = request[p].stage
  /\ published' = published \cup {request[p].stage}
  /\ temporary' = [temporary EXCEPT ![p] = None]
  /\ GoTo(p, "commit_receipt")
  /\ UNCHANGED <<stages, snapshots, stageReceipt, commitReceipt>>

CommitReceipt(p) ==
  /\ Renaming(p, "commit_receipt")
  /\ commitReceipt' = [commitReceipt EXCEPT ![request[p].key] = request[p].stage.content]
  /\ Return(p)
  /\ UNCHANGED <<stages, snapshots, stageReceipt, pointer, published>>

-----------------------------------------------------------------------------
(* abort_stage                                                             *)

\* A variant: only the receipts are consulted.
CommittedByReceipt(s) == commitReceipt[s.key] = s.content

\* _commit_by_stage: a commit receipt of the stage, or the pointer naming it.
CommittedByRecord(s) == commitReceipt[s.key] = s.content \/ pointer = s

AbortDecides(p) ==
  LET s == request[p].stage
  IN /\ Deciding(p, "abort")
     /\ \/ /\ CommittedByRecord(s)
           /\ disposition' = [disposition EXCEPT ![p] = "already_committed"]
           /\ UNCHANGED stages
        \/ /\ ~CommittedByRecord(s)
           /\ s \notin stages
           /\ disposition' = [disposition EXCEPT ![p] = "already_absent"]
           /\ UNCHANGED stages
        \/ /\ ~CommittedByRecord(s)
           /\ s \in stages
           /\ disposition' = [disposition EXCEPT ![p] = "removed"]
           /\ stages' = stages \ {s}
     /\ phase' = [phase EXCEPT ![p] = "abort_receipt"]
     /\ UNCHANGED <<snapshots, stageReceipt, commitReceipt, pointer, temporaries,
                    temporary, lock, listed, request, crashes, published>>

AbortReceipt(p) ==
  /\ Renaming(p, "abort_receipt")
  /\ Return(p)
  /\ UNCHANGED <<files, published>>

-----------------------------------------------------------------------------
(* readback_snapshot: no lock is taken, not even for its receipt.          *)

Readback(p, c) ==
  /\ phase[p] = "idle"
  /\ c \in snapshots
  /\ request' = [request EXCEPT ![p] = [op |-> "readback", content |-> c]]
  /\ phase' = [phase EXCEPT ![p] = "readback_receipt"]
  /\ UNCHANGED <<files, temporaries, temporary, lock, listed, disposition,
                 crashes, published>>

ReadbackReceipt(p) ==
  /\ Renaming(p, "readback_receipt")
  /\ Return(p)
  /\ UNCHANGED <<files, published>>

\* A recovery unlinked the temporary: os.replace raises FileNotFoundError.
ReadbackRaises(p) ==
  /\ phase[p] = "readback_receipt"
  /\ temporary[p] # None
  /\ temporary[p] \notin temporaries
  /\ Return(p)
  /\ UNCHANGED <<files, temporaries, crashes, published>>

-----------------------------------------------------------------------------
\* What a running handler does next, whatever happened to it before.
Progress(p) ==
  \/ \E t \in listed : RecoverUnlink(p, t) \/ RecoverRaises(p, t)
  \/ RecoverDone(p)
  \/ WriteTemporary(p)
  \/ StageAnswered(p) \/ StageRefused(p) \/ StageAccepted(p)
  \/ StageBytes(p) \/ StageReceipt(p)
  \/ CommitAnswered(p) \/ CommitReconciles(p) \/ CommitAccepted(p) \/ CommitRefused(p)
  \/ Snapshot(p) \/ PointerReplace(p) \/ CommitReceipt(p)
  \/ AbortDecides(p) \/ AbortReceipt(p)
  \/ ReadbackReceipt(p) \/ ReadbackRaises(p)

Next ==
  \E p \in Client :
    \/ \E r \in LockedRequest : Acquire(p, r)
    \/ \E c \in Content : Readback(p, c)
    \/ Progress(p)
    \/ Crash(p)

Spec == Init /\ [][Next]_vars

\* A process that is not killed runs its handler on; nothing makes a client
\* call again.
FairSpec == Spec /\ \A p \in Client : WF_vars(Progress(p))

-----------------------------------------------------------------------------
(* Safety, whatever crashes.                                               *)

\* A reader that follows current.json, at any moment and after any crash,
\* finds the snapshot; so does one holding an older commit receipt.  The
\* snapshot file is in place before the pointer and is never removed.
PublishedReadable ==
  /\ pointer \in published \cup {None}
  /\ \A s \in published : s.content \in snapshots

\* An idempotency key makes at most one content visible, even if a stage died
\* between its bytes and its receipt and another content was then staged
\* under the key, so that both stage files exist.
OneContentPerKey ==
  \A s, t \in published : s.key = t.key => s = t

\* A commit receipt states what happened: its stage was published, and is the
\* one the stage receipt of the key binds.
ReceiptsAreTrue ==
  \A k \in Key : commitReceipt[k] # None =>
    /\ [key |-> k, content |-> commitReceipt[k]] \in published
    /\ stageReceipt[k] = commitReceipt[k]

\* Abort never removes the bytes of a commit that a receipt or the pointer
\* records, in particular not of one that died before its receipt.
CommittedBytesKept ==
  /\ pointer # None => pointer \in stages
  /\ \A k \in Key : commitReceipt[k] # None =>
       [key |-> k, content |-> commitReceipt[k]] \in stages

\* Once the commit receipt is durable no retry publishes its stage again: the
\* pointer moves only to a key without a receipt.
ReceiptedCommitIsFinal ==
  [][pointer' # pointer => commitReceipt[pointer'.key] = None]_vars

\* A handler that passed its recovery works in a directory free of what dead
\* handlers left: every temporary outside receipts/ is its own.
TemporariesReclaimed ==
  \A p \in Client :
    phase[p] \in {"stage_bytes", "snapshot", "pointer", "stage_receipt", "commit_receipt"} =>
      \A t \in temporaries : t.dir # "receipts" => t = temporary[p]

-----------------------------------------------------------------------------
(* Liveness.                                                               *)

\* Whoever takes commit.lock gives it back, though its recovery may meet the
\* temporaries readbacks keep creating without the lock.
LockReleased == \A p \in Client : lock = p ~> lock # p

-----------------------------------------------------------------------------
(* The target as its callers see it.  Commits count from the pointer on.   *)

Effective(k) == {s \in published : s.key = k}

\* What is staged under a key: its receipt and its bytes are there, and nothing
\* of it was made visible.
Staged(k) ==
  IF /\ stageReceipt[k] # None
     /\ [key |-> k, content |-> stageReceipt[k]] \in stages
     /\ Effective(k) = {}
    THEN stageReceipt[k] ELSE None

Committed(k) ==
  IF Effective(k) = {} THEN None ELSE (CHOOSE s \in Effective(k) : TRUE).content

Target == INSTANCE ManagedTarget WITH
  staged <- [k \in Key |-> Staged(k)],
  committed <- [k \in Key |-> Committed(k)],
  current <- IF pointer = None THEN None ELSE pointer.key

\* The store implements the target until a handler dies half-way.
ImplementsTarget ==
  Target!Init /\ [][crashes' = 0 => [Target!Next]_(Target!vars)]_vars

\* What is published can be read, a key stands for one content, and the bytes of
\* a commit stay (managed_snapshots.py publish_snapshot, stage_rows, abort_stage).
DataIsKept == PublishedReadable /\ OneContentPerKey /\ CommittedBytesKept
=============================================================================
