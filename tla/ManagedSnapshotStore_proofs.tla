--------------------- MODULE ManagedSnapshotStore_proofs ---------------------
(***************************************************************************)
(* The safety of ManagedSnapshotStore for any number of clients, keys,     *)
(* contents and crashes.                                                   *)
(***************************************************************************)
EXTENDS ManagedSnapshotStore, TLAPS

USE StoreAssumption

(* A handler's phase tells what it was called with.                        *)
RequestOK ==
  \A p \in Client :
    /\ phase[p] = "locked" => request[p] \in LockedRequest
    /\ phase[p] \in {"stage_bytes", "stage_receipt"} => request[p] \in StageRequest
    /\ phase[p] \in {"snapshot", "pointer", "commit_receipt"} => request[p] \in CommitRequest
    /\ phase[p] = "abort_receipt" => request[p] \in AbortRequest

TypeInv == TypeOK /\ RequestOK

\* Nothing staged yet.
LEMMA TypeInvInit == Init => TypeInv
  BY DEF Init, TypeInv, TypeOK, RequestOK, Phase

\* What the lock holder decides upon.
LEMMA DecidingRequest ==
  ASSUME NEW p \in Client, RequestOK
  PROVE  /\ Deciding(p, "stage") => request[p] \in StageRequest
         /\ Deciding(p, "commit") => request[p] \in CommitRequest
         /\ Deciding(p, "abort") => request[p] \in AbortRequest
  BY DEF RequestOK, Deciding, LockedRequest, StageRequest, CommitRequest, AbortRequest,
         RecoverRequest

\* Leaving a handler.
LEMMA ReturnTypeInv ==
  ASSUME NEW p \in Client, TypeInv, Return(p)
  PROVE  /\ lock' \in Client \cup {None}
         /\ listed' \subseteq Temporary
         /\ phase' \in [Client -> Phase]
         /\ temporary' \in [Client -> Temporary \cup {None}]
         /\ request' \in [Client -> Request \cup {None}]
         /\ disposition' \in [Client -> Disposition \cup {None}]
         /\ RequestOK'
  BY DEF TypeInv, TypeOK, RequestOK, Return, Phase

\* Moving on inside a handler.
LEMMA GoToTypeInv ==
  ASSUME NEW p \in Client, NEW ph \in LockedWritePhase, TypeInv, GoTo(p, ph),
         ph \in {"stage_bytes", "stage_receipt"} => request[p] \in StageRequest,
         ph \in {"snapshot", "pointer", "commit_receipt"} => request[p] \in CommitRequest,
         ph = "abort_receipt" => request[p] \in AbortRequest
  PROVE  /\ phase' \in [Client -> Phase]
         /\ RequestOK'
         /\ UNCHANGED <<request, disposition, lock, listed>>
  BY DEF TypeInv, TypeOK, RequestOK, GoTo, Phase, LockedPhase, LockedWritePhase, ReceiptPhase

(* The handlers that only answer change nothing but the handler's own state *)
(* and the lock.                                                            *)
Answers(p) ==
  \/ \E t \in listed : RecoverRaises(p, t)
  \/ RecoverDone(p) \/ StageAnswered(p) \/ StageRefused(p)
  \/ CommitAnswered(p) \/ CommitRefused(p) \/ ReadbackRaises(p)

\* An answer leaves the files alone.
LEMMA AnswersShape ==
  ASSUME NEW p \in Client, Answers(p)
  PROVE  Return(p) /\ UNCHANGED <<files, temporaries, crashes, published>>
  BY DEF Answers, RecoverRaises, RecoverDone, StageAnswered, StageRefused, CommitAnswered,
         CommitRefused, ReadbackRaises

\* The steps, the answering ones grouped.
LEMMA NextCases ==
  ASSUME Next
  PROVE  \E p \in Client :
    \/ \E r \in LockedRequest : Acquire(p, r)
    \/ \E c \in Content : Readback(p, c)
    \/ Crash(p)
    \/ Answers(p)
    \/ \E t \in listed : RecoverUnlink(p, t)
    \/ WriteTemporary(p)
    \/ StageAccepted(p) \/ StageBytes(p) \/ StageReceipt(p)
    \/ CommitReconciles(p) \/ CommitAccepted(p)
    \/ Snapshot(p) \/ PointerReplace(p) \/ CommitReceipt(p)
    \/ AbortDecides(p) \/ AbortReceipt(p) \/ ReadbackReceipt(p)
  BY DEF Next, Progress, Answers

\* Every step keeps the types.
LEMMA TypeInvNext == TypeInv /\ [Next]_vars => TypeInv'
<1> SUFFICES ASSUME TypeInv, [Next]_vars PROVE TypeInv'
  OBVIOUS
<1> USE DEF TypeInv
<1>1. CASE UNCHANGED vars
  BY <1>1 DEF vars, files, handlers, TypeOK, RequestOK
<1>2. CASE Next
  <2>1. PICK p \in Client :
          \/ \E r \in LockedRequest : Acquire(p, r)
          \/ \E c \in Content : Readback(p, c)
          \/ Crash(p)
          \/ Answers(p)
          \/ \E t \in listed : RecoverUnlink(p, t)
          \/ WriteTemporary(p)
          \/ StageAccepted(p) \/ StageBytes(p) \/ StageReceipt(p)
          \/ CommitReconciles(p) \/ CommitAccepted(p)
          \/ Snapshot(p) \/ PointerReplace(p) \/ CommitReceipt(p)
          \/ AbortDecides(p) \/ AbortReceipt(p) \/ ReadbackReceipt(p)
    BY <1>2, NextCases
  <2>2. ASSUME NEW r \in LockedRequest, Acquire(p, r) PROVE TypeInv'
    BY <2>2 DEF Acquire, files, TypeOK, RequestOK, Phase, LockedPhase, Request
  <2>3. ASSUME NEW c \in Content, Readback(p, c) PROVE TypeInv'
    BY <2>3 DEF Readback, files, TypeOK, RequestOK, Phase, Request, ReadbackRequest
  <2>4. CASE Crash(p)
    <3>1. Return(p) /\ UNCHANGED <<files, temporaries, published>> /\ crashes' = crashes + 1
      BY <2>4 DEF Crash
    <3>2. QED BY <3>1, ReturnTypeInv DEF files, TypeOK
  <2>5. CASE Answers(p)
    BY <2>5, AnswersShape, ReturnTypeInv DEF files, TypeOK
  <2>6. ASSUME NEW t \in listed, RecoverUnlink(p, t) PROVE TypeInv'
    BY <2>6 DEF RecoverUnlink, files, handlers, TypeOK, RequestOK
  <2>7. CASE WriteTemporary(p)
    <3> DEFINE t == [owner |-> p, born |-> crashes, dir |-> Destination(phase[p])]
    <3>1. t \in Temporary
      BY DEF Temporary, Destination, Directory, TypeOK
    <3>2. QED BY <2>7, <3>1 DEF WriteTemporary, files, TypeOK, RequestOK
  <2>8. CASE StageAccepted(p)
    <3>1. request[p] \in StageRequest
      BY <2>8, DecidingRequest DEF StageAccepted
    <3>2. QED
      BY <2>8, <3>1, GoToTypeInv DEF StageAccepted, files, TypeOK, LockedWritePhase, ReceiptPhase
  <2>9. CASE StageBytes(p)
    <3>1. request[p] \in StageRequest
      BY <2>9 DEF StageBytes, Renaming, RequestOK
    <3>2. GoTo(p, "stage_receipt")
      BY <2>9 DEF StageBytes
    <3>3. request[p].stage \in Stage
      BY <3>1 DEF StageRequest
    <3>4. QED
      BY <2>9, <3>1, <3>2, <3>3, GoToTypeInv
      DEF StageBytes, Renaming, TypeOK, LockedWritePhase, ReceiptPhase
  <2>10. CASE StageReceipt(p)
    <3>1. request[p].stage \in Stage
      BY <2>10 DEF StageReceipt, Renaming, RequestOK, StageRequest
    <3>2. Return(p)
      BY <2>10 DEF StageReceipt
    <3>3. QED
      BY <2>10, <3>1, <3>2, ReturnTypeInv DEF StageReceipt, Renaming, TypeOK, Stage
  <2>11. CASE CommitReconciles(p)
    <3>1. request[p] \in CommitRequest
      BY <2>11, DecidingRequest DEF CommitReconciles
    <3>2. QED
      BY <2>11, <3>1, GoToTypeInv DEF CommitReconciles, files, TypeOK, LockedWritePhase, ReceiptPhase
  <2>12. CASE CommitAccepted(p)
    <3>1. request[p] \in CommitRequest
      BY <2>12, DecidingRequest DEF CommitAccepted, MayCommit
    <3>2. QED
      BY <2>12, <3>1, GoToTypeInv DEF CommitAccepted, files, TypeOK, LockedWritePhase
  <2>13. CASE Snapshot(p)
    <3>1. request[p] \in CommitRequest /\ request[p].stage \in Stage
      BY <2>13 DEF Snapshot, Renaming, RequestOK, CommitRequest
    <3>2. GoTo(p, "pointer")
      BY <2>13 DEF Snapshot
    <3>3. QED
      BY <2>13, <3>1, <3>2, GoToTypeInv DEF Snapshot, Renaming, TypeOK, LockedWritePhase, Stage
  <2>14. CASE PointerReplace(p)
    <3>1. request[p] \in CommitRequest /\ request[p].stage \in Stage
      BY <2>14 DEF PointerReplace, Renaming, RequestOK, CommitRequest
    <3>2. GoTo(p, "commit_receipt")
      BY <2>14 DEF PointerReplace
    <3>3. QED
      BY <2>14, <3>1, <3>2, GoToTypeInv
      DEF PointerReplace, Renaming, TypeOK, LockedWritePhase, ReceiptPhase
  <2>15. CASE CommitReceipt(p)
    <3>1. request[p].stage \in Stage
      BY <2>15 DEF CommitReceipt, Renaming, RequestOK, CommitRequest
    <3>2. Return(p)
      BY <2>15 DEF CommitReceipt
    <3>3. QED
      BY <2>15, <3>1, <3>2, ReturnTypeInv DEF CommitReceipt, Renaming, TypeOK, Stage
  <2>16. CASE AbortDecides(p)
    <3>1. request[p] \in AbortRequest
      BY <2>16, DecidingRequest DEF AbortDecides
    <3>2. QED
      BY <2>16, <3>1
      DEF AbortDecides, TypeOK, RequestOK, Phase, LockedPhase, LockedWritePhase, ReceiptPhase,
          Disposition
  <2>17. CASE AbortReceipt(p)
    BY <2>17, ReturnTypeInv DEF AbortReceipt, Renaming, files, TypeOK
  <2>18. CASE ReadbackReceipt(p)
    BY <2>18, ReturnTypeInv DEF ReadbackReceipt, Renaming, files, TypeOK
  <2>19. QED
    BY <2>1, <2>2, <2>3, <2>4, <2>5, <2>6, <2>7, <2>8, <2>9, <2>10, <2>11, <2>12, <2>13,
       <2>14, <2>15, <2>16, <2>17, <2>18
<1>3. QED BY <1>1, <1>2

\* Every variable keeps its type, and a handler's phase its kind of request,
\* in every reachable state (all handlers of managed_snapshots.py).
THEOREM TypeCorrect == Spec => []TypeOK
<1>1. Spec => []TypeInv
  BY TypeInvInit, TypeInvNext, PTL DEF Spec
<1>2. QED BY <1>1, PTL DEF TypeInv

-----------------------------------------------------------------------------
(* The files.  Only the holder of commit.lock touches them, and each phase *)
(* of its handler knows what it decided upon: Handler(p) says what.        *)

LockHeld == \A p \in Client : phase[p] \in LockedPhase <=> lock = p

Files ==
  /\ pointer \in published \cup {None}
  /\ pointer # None => pointer \in stages
  /\ \A s \in published : s.content \in snapshots /\ stageReceipt[s.key] = s.content
  /\ \A k \in Key : commitReceipt[k] # None =>
       /\ [key |-> k, content |-> commitReceipt[k]] \in published
       /\ [key |-> k, content |-> commitReceipt[k]] \in stages

\* A commit that was accepted and has not taken effect.
Accepted(s, k) ==
  /\ s.key = k
  /\ s \in stages
  /\ stageReceipt[k] = s.content
  /\ commitReceipt[k] = None

Handler(p) ==
  /\ phase[p] \in {"stage_bytes", "stage_receipt"} => stageReceipt[request[p].stage.key] = None
  /\ phase[p] \in {"snapshot", "pointer"} => Accepted(request[p].stage, request[p].key)
  /\ phase[p] = "pointer" => request[p].stage.content \in snapshots
  /\ phase[p] = "commit_receipt" =>
       /\ pointer = request[p].stage
       /\ request[p].stage.key = request[p].key
       /\ commitReceipt[request[p].key] = None

Inv == TypeInv /\ LockHeld /\ Files /\ \A p \in Client : Handler(p)

\* The phases in which a handler holds the lock.
LEMMA Phases ==
  /\ LockedPhase = {"locked", "stage_bytes", "snapshot", "pointer",
                    "stage_receipt", "commit_receipt", "abort_receipt"}
  /\ "idle" \notin LockedPhase /\ "readback_receipt" \notin LockedPhase
  BY DEF LockedPhase, LockedWritePhase, ReceiptPhase

\* A stage or commit request names a stage.
LEMMA RequestFields ==
  ASSUME TypeInv, NEW p \in Client
  PROVE  /\ request[p] \in StageRequest =>
              /\ request[p].stage \in Stage
              /\ request[p].stage.key \in Key /\ request[p].stage.content \in Content
         /\ request[p] \in CommitRequest =>
              /\ request[p].stage \in Stage /\ request[p].key \in Key
              /\ request[p].stage.key \in Key /\ request[p].stage.content \in Content
         /\ request[p] \in AbortRequest => request[p].stage \in Stage
  BY DEF StageRequest, CommitRequest, AbortRequest, Stage

\* Nothing is locked, nothing is published.
LEMMA InvInit == Init => Inv
  BY TypeInvInit, Phases DEF Init, Inv, LockHeld, Files, Handler

\* Whoever does not hold the lock is in no phase that knows anything.
LEMMA OthersQuiet ==
  ASSUME Inv, NEW p \in Client, lock = p, NEW q \in Client, q # p, phase'[q] = phase[q]
  PROVE  Handler(q)'
<1>1. phase[q] \notin LockedPhase
  BY DEF Inv, LockHeld
<1>2. QED BY <1>1, Phases DEF Handler

\* Leaving the handler with the files as they are.
LEMMA ReturnKeeps ==
  ASSUME Inv, NEW p \in Client, Return(p), UNCHANGED <<files, published>>
  PROVE  LockHeld' /\ Files' /\ \A q \in Client : Handler(q)'
<1>1. /\ phase' = [phase EXCEPT ![p] = "idle"]
      /\ request' = [request EXCEPT ![p] = None]
      /\ lock' = IF lock = p THEN None ELSE lock
      /\ phase \in [Client -> Phase] /\ request \in [Client -> Request \cup {None}]
  BY DEF Return, Inv, TypeInv, TypeOK
<1>2. LockHeld'
  BY <1>1, Phases DEF Inv, LockHeld
<1>3. Files'
  BY DEF Inv, Files, files
<1>4. ASSUME NEW q \in Client PROVE Handler(q)'
  <2>1. CASE q = p
    BY <1>1, <2>1 DEF Handler
  <2>2. CASE q # p
    BY <1>1, <2>2 DEF Inv, Handler, Accepted, files
  <2>3. QED BY <2>1, <2>2
<1>5. QED BY <1>2, <1>3, <1>4

\* Moving on under the lock.
LEMMA GoToKeeps ==
  ASSUME Inv, NEW p \in Client, lock = p, NEW ph \in LockedWritePhase, GoTo(p, ph),
         Files', Handler(p)'
  PROVE  LockHeld' /\ Files' /\ \A q \in Client : Handler(q)'
<1>1. phase' = [phase EXCEPT ![p] = ph] /\ lock' = lock /\ phase \in [Client -> Phase]
  BY DEF GoTo, Inv, TypeInv, TypeOK
<1>2. LockHeld'
  BY <1>1 DEF Inv, LockHeld, LockedPhase
<1>3. \A q \in Client : q # p => Handler(q)'
  BY <1>1, OthersQuiet
<1>4. QED BY <1>2, <1>3

\* A handler in a locked phase holds the lock.
LEMMA Holds ==
  ASSUME Inv, NEW p \in Client, phase[p] \in LockedPhase
  PROVE  lock = p
  BY DEF Inv, LockHeld

\* The lock, the files and what each handler knows of them.
SafeInv == LockHeld /\ Files /\ \A p \in Client : Handler(p)

\* The renames that change a file.
LEMMA StageRenamesKeep ==
  ASSUME Inv, NEW p \in Client, StageBytes(p) \/ StageReceipt(p) \/ CommitReceipt(p)
  PROVE  SafeInv'
<1> DEFINE s == request[p].stage
<1>1. CASE StageBytes(p)
  <2>1. /\ phase[p] = "stage_bytes" /\ lock = p
        /\ request[p] \in StageRequest /\ stageReceipt[s.key] = None
    BY <1>1, Holds, Phases DEF StageBytes, Renaming, Inv, TypeInv, RequestOK, Handler
  <2>2. /\ stages' = stages \cup {s}
        /\ UNCHANGED <<snapshots, stageReceipt, commitReceipt, pointer, published>>
        /\ GoTo(p, "stage_receipt") /\ phase' = [phase EXCEPT ![p] = "stage_receipt"]
        /\ request' = request
    BY <1>1 DEF StageBytes, GoTo
  <2>3. Files'
    BY <2>2 DEF Inv, Files
  <2>4. Handler(p)'
    BY <2>1, <2>2 DEF Handler, Inv, TypeInv, TypeOK
  <2>5. "stage_receipt" \in LockedWritePhase
    BY DEF LockedWritePhase, ReceiptPhase
  <2>6. QED BY <2>1, <2>2, <2>3, <2>4, <2>5, GoToKeeps DEF SafeInv
<1>2. CASE StageReceipt(p)
  <2>1. /\ phase[p] = "stage_receipt" /\ lock = p
        /\ s.key \in Key /\ s.content \in Content /\ stageReceipt[s.key] = None
    BY <1>2, Holds, Phases, RequestFields
    DEF StageReceipt, Renaming, Inv, TypeInv, RequestOK, Handler
  <2>2. /\ stageReceipt' = [stageReceipt EXCEPT ![s.key] = s.content]
        /\ UNCHANGED <<stages, snapshots, commitReceipt, pointer, published>>
        /\ Return(p)
    BY <1>2 DEF StageReceipt
  <2>3. Files'
    <3>1. \A t \in published : t.key # s.key /\ t.key \in Key
      BY <2>1 DEF Inv, Files, TypeInv, TypeOK, Stage
    <3>2. \A t \in published : stageReceipt'[t.key] = stageReceipt[t.key]
      BY <2>2, <3>1 DEF Inv, TypeInv, TypeOK
    <3>3. QED BY <2>2, <3>2 DEF Inv, Files
  <2>4. phase' = [phase EXCEPT ![p] = "idle"] /\ lock' = None
    BY <2>1, <2>2 DEF Return
  <2>5. LockHeld'
    BY <2>1, <2>4, Phases DEF Inv, LockHeld, TypeInv, TypeOK
  <2>6. \A q \in Client : phase'[q] \notin LockedPhase
    BY <2>4, <2>5 DEF LockHeld
  <2>7. \A q \in Client : Handler(q)'
    BY <2>6, Phases DEF Handler
  <2>8. QED BY <2>3, <2>5, <2>7 DEF SafeInv
<1>3. CASE CommitReceipt(p)
  <2>1. /\ phase[p] = "commit_receipt" /\ lock = p /\ s \in Stage
        /\ s.key \in Key /\ s.content \in Content /\ s.key = request[p].key /\ pointer = s
    BY <1>3, Holds, Phases, RequestFields
    DEF CommitReceipt, Renaming, Inv, TypeInv, RequestOK, Handler
  <2>2. /\ commitReceipt' = [commitReceipt EXCEPT ![s.key] = s.content]
        /\ UNCHANGED <<stages, snapshots, stageReceipt, pointer, published>>
        /\ Return(p)
    BY <1>3, <2>1 DEF CommitReceipt
  <2>3. Files'
    <3>1. s = [key |-> s.key, content |-> s.content] /\ s \in published /\ s \in stages
      BY <2>1 DEF Inv, Files, Stage
    <3>2. QED BY <2>1, <2>2, <3>1 DEF Inv, Files, TypeInv, TypeOK
  <2>4. phase' = [phase EXCEPT ![p] = "idle"] /\ lock' = None
    BY <2>1, <2>2 DEF Return
  <2>5. LockHeld'
    BY <2>1, <2>4, Phases DEF Inv, LockHeld, TypeInv, TypeOK
  <2>6. \A q \in Client : phase'[q] \notin LockedPhase
    BY <2>4, <2>5 DEF LockHeld
  <2>7. \A q \in Client : Handler(q)'
    BY <2>6, Phases DEF Handler
  <2>8. QED BY <2>3, <2>5, <2>7 DEF SafeInv
<1>4. QED BY <1>1, <1>2, <1>3

\* The snapshot first, the pointer to it afterwards.
LEMMA CommitRenamesKeep ==
  ASSUME Inv, NEW p \in Client, Snapshot(p) \/ PointerReplace(p)
  PROVE  SafeInv'
<1> DEFINE s == request[p].stage
<1>1. CASE Snapshot(p)
  <2>1. phase[p] = "snapshot" /\ lock = p /\ Accepted(s, request[p].key)
    BY <1>1, Holds, Phases DEF Snapshot, Renaming, Inv, Handler
  <2>2. /\ snapshots' = snapshots \cup {s.content}
        /\ UNCHANGED <<stages, stageReceipt, commitReceipt, pointer, published>>
        /\ GoTo(p, "pointer") /\ phase' = [phase EXCEPT ![p] = "pointer"]
        /\ request' = request
    BY <1>1 DEF Snapshot, GoTo
  <2>3. Files'
    BY <2>2 DEF Inv, Files
  <2>4. Handler(p)'
    BY <2>1, <2>2 DEF Handler, Accepted, Inv, TypeInv, TypeOK
  <2>5. "pointer" \in LockedWritePhase
    BY DEF LockedWritePhase
  <2>6. QED BY <2>1, <2>2, <2>3, <2>4, <2>5, GoToKeeps DEF SafeInv
<1>2. CASE PointerReplace(p)
  <2>1. /\ phase[p] = "pointer" /\ lock = p /\ Accepted(s, request[p].key)
        /\ s.content \in snapshots
    BY <1>2, Holds, Phases DEF PointerReplace, Renaming, Inv, Handler
  <2>2. /\ pointer' = s /\ published' = published \cup {s}
        /\ UNCHANGED <<stages, snapshots, stageReceipt, commitReceipt>>
        /\ GoTo(p, "commit_receipt") /\ phase' = [phase EXCEPT ![p] = "commit_receipt"]
        /\ request' = request
    BY <1>2 DEF PointerReplace, GoTo
  <2>3. Files'
    BY <2>1, <2>2 DEF Inv, Files, Accepted
  <2>4. Handler(p)'
    BY <2>1, <2>2 DEF Handler, Accepted, Inv, TypeInv, TypeOK
  <2>5. "commit_receipt" \in LockedWritePhase
    BY DEF LockedWritePhase, ReceiptPhase
  <2>6. QED BY <2>1, <2>2, <2>3, <2>4, <2>5, GoToKeeps DEF SafeInv
<1>3. QED BY <1>1, <1>2

\* Deciding changes no file, except that an abort removes a stage nobody
\* committed.
LEMMA DecisionsKeep ==
  ASSUME Inv, NEW p \in Client,
         StageAccepted(p) \/ CommitReconciles(p) \/ CommitAccepted(p) \/ AbortDecides(p)
  PROVE  SafeInv'
<1> DEFINE s == request[p].stage
<1>1. phase[p] = "locked" /\ lock = p
  BY Holds, Phases
  DEF StageAccepted, CommitReconciles, CommitAccepted, MayCommit, AbortDecides, Deciding
<1>2. CASE StageAccepted(p)
  <2>1. PICK ph \in {"stage_receipt", "stage_bytes"} : GoTo(p, ph)
    BY <1>2 DEF StageAccepted
  <2>2. UNCHANGED files /\ UNCHANGED published /\ stageReceipt[s.key] = None
    BY <1>2 DEF StageAccepted
  <2>3. Files'
    BY <2>2 DEF Inv, Files, files
  <2>4. Handler(p)'
    BY <2>1, <2>2 DEF GoTo, Handler, files, Inv, TypeInv, TypeOK
  <2>5. ph \in LockedWritePhase
    BY DEF LockedWritePhase, ReceiptPhase
  <2>6. QED BY <1>1, <2>1, <2>3, <2>4, <2>5, GoToKeeps DEF SafeInv
<1>3. CASE CommitReconciles(p)
  <2>1. /\ GoTo(p, "commit_receipt") /\ UNCHANGED files /\ UNCHANGED published
        /\ commitReceipt[request[p].key] = None
        /\ pointer = s /\ s.key = request[p].key
    BY <1>3 DEF CommitReconciles, PointerHasKey
  <2>2. Files'
    BY <2>1 DEF Inv, Files, files
  <2>3. Handler(p)'
    BY <2>1 DEF GoTo, Handler, files, Inv, TypeInv, TypeOK
  <2>4. "commit_receipt" \in LockedWritePhase
    BY DEF LockedWritePhase, ReceiptPhase
  <2>5. QED BY <1>1, <2>1, <2>2, <2>3, <2>4, GoToKeeps DEF SafeInv
<1>4. CASE CommitAccepted(p)
  <2>1. PICK ph \in {"pointer", "snapshot"} :
           GoTo(p, ph) /\ (ph = "pointer" => s.content \in snapshots)
    BY <1>4 DEF CommitAccepted
  <2>2. UNCHANGED files /\ UNCHANGED published /\ Accepted(s, request[p].key)
    BY <1>4 DEF CommitAccepted, MayCommit, Accepted
  <2>3. Files'
    BY <2>2 DEF Inv, Files, files
  <2>4. Handler(p)'
    BY <2>1, <2>2 DEF GoTo, Handler, Accepted, files, Inv, TypeInv, TypeOK
  <2>5. ph \in LockedWritePhase
    BY DEF LockedWritePhase
  <2>6. QED BY <1>1, <2>1, <2>3, <2>4, <2>5, GoToKeeps DEF SafeInv
<1>5. CASE AbortDecides(p)
  <2>1. /\ phase' = [phase EXCEPT ![p] = "abort_receipt"] /\ lock' = lock
        /\ UNCHANGED <<snapshots, stageReceipt, commitReceipt, pointer, request, published>>
        /\ stages' = stages \/ (stages' = stages \ {s} /\ ~CommittedByRecord(s))
    BY <1>5 DEF AbortDecides
  <2>2. LockHeld'
    BY <1>1, <2>1, Phases DEF Inv, LockHeld, TypeInv, TypeOK
  <2>3. Files'
    BY <2>1 DEF Inv, Files, CommittedByRecord
  <2>4. Handler(p)'
    BY <2>1 DEF Handler, Inv, TypeInv, TypeOK
  <2>5. \A q \in Client : q # p => Handler(q)'
    BY <1>1, <2>1, OthersQuiet DEF Inv, TypeInv, TypeOK
  <2>6. QED BY <2>2, <2>3, <2>4, <2>5 DEF SafeInv
<1>6. QED BY <1>2, <1>3, <1>4, <1>5

\* Steps that leave the files and move nobody into a phase that knows something.
LEMMA SameFilesKeep ==
  ASSUME Inv, UNCHANGED <<files, published>>, LockHeld',
         \A q \in Client : \/ phase'[q] \in {"locked", "readback_receipt"}
                           \/ phase'[q] = phase[q] /\ request'[q] = request[q]
  PROVE  SafeInv'
<1>1. Files'
  BY DEF Inv, Files, files
<1>2. ASSUME NEW q \in Client PROVE Handler(q)'
  <2>1. CASE phase'[q] \in {"locked", "readback_receipt"}
    BY <2>1 DEF Handler
  <2>2. CASE phase'[q] = phase[q] /\ request'[q] = request[q]
    BY <2>2 DEF Inv, Handler, Accepted, files
  <2>3. QED BY <2>1, <2>2
<1>3. QED BY <1>1, <1>2 DEF SafeInv

\* Every step keeps the invariant.
LEMMA InvNext == Inv /\ [Next]_vars => Inv'
<1> SUFFICES ASSUME Inv, [Next]_vars PROVE SafeInv'
  BY TypeInvNext DEF Inv, SafeInv
<1>1. CASE UNCHANGED vars
  BY <1>1 DEF vars, files, handlers, Inv, SafeInv, LockHeld, Files, Handler, Accepted
<1>2. CASE Next
  <2>1. PICK p \in Client :
          \/ \E r \in LockedRequest : Acquire(p, r)
          \/ \E c \in Content : Readback(p, c)
          \/ Crash(p)
          \/ Answers(p)
          \/ \E t \in listed : RecoverUnlink(p, t)
          \/ WriteTemporary(p)
          \/ StageAccepted(p) \/ StageBytes(p) \/ StageReceipt(p)
          \/ CommitReconciles(p) \/ CommitAccepted(p)
          \/ Snapshot(p) \/ PointerReplace(p) \/ CommitReceipt(p)
          \/ AbortDecides(p) \/ AbortReceipt(p) \/ ReadbackReceipt(p)
    BY <1>2, NextCases
  <2>2. ASSUME NEW r \in LockedRequest, Acquire(p, r) PROVE SafeInv'
    <3>1. LockHeld'
      BY <2>2, Phases DEF Acquire, Inv, LockHeld, TypeInv, TypeOK
    <3>2. QED BY <2>2, <3>1, SameFilesKeep DEF Acquire, Inv, TypeInv, TypeOK
  <2>3. ASSUME NEW c \in Content, Readback(p, c) PROVE SafeInv'
    <3>1. LockHeld'
      BY <2>3, Phases DEF Readback, Inv, LockHeld, TypeInv, TypeOK
    <3>2. QED BY <2>3, <3>1, SameFilesKeep DEF Readback, files, Inv, TypeInv, TypeOK
  <2>4. CASE Crash(p) \/ Answers(p) \/ AbortReceipt(p) \/ ReadbackReceipt(p)
    <3>1. Return(p) /\ UNCHANGED <<files, published>>
      BY <2>4, AnswersShape DEF Crash, AbortReceipt, ReadbackReceipt
    <3>2. QED BY <3>1, ReturnKeeps DEF SafeInv
  <2>5. ASSUME \/ \E t \in listed : RecoverUnlink(p, t)
               \/ WriteTemporary(p)
        PROVE  SafeInv'
    <3>1. UNCHANGED <<files, published, phase, request, lock>>
      BY <2>5 DEF RecoverUnlink, WriteTemporary, handlers
    <3>2. LockHeld'
      BY <3>1 DEF Inv, LockHeld
    <3>3. QED BY <3>1, <3>2, SameFilesKeep
  <2>6. QED
    BY <2>1, <2>2, <2>3, <2>4, <2>5, StageRenamesKeep, CommitRenamesKeep, DecisionsKeep
<1>3. QED BY <1>1, <1>2

\* The inductive invariant holds in every reachable state.
THEOREM Invariance == Spec => []Inv
  BY InvInit, InvNext, PTL DEF Spec

-----------------------------------------------------------------------------
\* A reader always finds the snapshot the pointer names or ever named, whatever
\* crashes.
THEOREM SnapshotsReadable == Spec => []PublishedReadable
<1>1. Inv => PublishedReadable
  BY DEF Inv, Files, PublishedReadable
<1>2. QED BY <1>1, Invariance, PTL

\* A key makes at most one content visible: what was published is what the
\* stage receipt of its key binds.
THEOREM KeysBindOneContent == Spec => []OneContentPerKey
<1>1. Inv => OneContentPerKey
  <2> SUFFICES ASSUME Inv, NEW s \in published, NEW t \in published, s.key = t.key
               PROVE  s = t
    BY DEF OneContentPerKey
  <2>1. s \in Stage /\ t \in Stage /\ s.content = t.content
    BY DEF Inv, Files, TypeInv, TypeOK
  <2>2. QED BY <2>1 DEF Stage
<1>2. QED BY <1>1, Invariance, PTL

\* Every commit receipt is of a published stage, the one bound to its key.
THEOREM CommitReceiptsTrue == Spec => []ReceiptsAreTrue
<1>1. Inv => ReceiptsAreTrue
  BY DEF Inv, Files, ReceiptsAreTrue
<1>2. QED BY <1>1, Invariance, PTL

\* No abort removes the bytes of the current or of a receipted commit.
THEOREM CommittedBytesStay == Spec => []CommittedBytesKept
<1>1. Inv => CommittedBytesKept
  BY DEF Inv, Files, CommittedBytesKept
<1>2. QED BY <1>1, Invariance, PTL

\* A step that moves the pointer commits a key that has no receipt yet.
LEMMA PointerStep ==
  Inv /\ [Next]_vars => (pointer' # pointer => commitReceipt[pointer'.key] = None)
<1> SUFFICES ASSUME Inv, [Next]_vars, pointer' # pointer
             PROVE  commitReceipt[pointer'.key] = None
  OBVIOUS
<1>1. Next
  BY DEF vars, files
<1>2. PICK p \in Client : PointerReplace(p)
  BY <1>1, NextCases, AnswersShape
  DEF files, handlers, Acquire, Readback, Crash, RecoverUnlink, WriteTemporary, StageAccepted,
      StageBytes, StageReceipt, CommitReconciles, CommitAccepted, Snapshot, CommitReceipt,
      AbortDecides, AbortReceipt, ReadbackReceipt
<1>3. Accepted(request[p].stage, request[p].key) /\ pointer' = request[p].stage
  BY <1>2 DEF PointerReplace, Renaming, Inv, Handler
<1>4. QED BY <1>3 DEF Accepted

\* Once its receipt is durable a commit is never made visible again by a retry.
THEOREM ReceiptedCommitsAreFinal == Spec => ReceiptedCommitIsFinal
<1>1. Inv /\ [Next]_vars => [pointer' # pointer => commitReceipt[pointer'.key] = None]_vars
  BY PointerStep
<1>2. QED BY <1>1, Invariance, PTL DEF Spec, ReceiptedCommitIsFinal

-----------------------------------------------------------------------------
(* Temporaries.  The holder of the lock has listed, and unlinks before it  *)
(* decides anything, whatever dead handlers left outside receipts/; beside *)
(* it only readbacks write, and only to receipts/.                         *)

Reclaimed ==
  /\ \A p \in Client : phase[p] = "locked" /\ request[p].op # "abort" =>
       \A t \in temporaries : t.dir # "receipts" => t \in listed
  /\ TemporariesReclaimed

\* Every step keeps the temporaries accounted for.
LEMMA ReclaimedNext == Inv /\ Inv' /\ Reclaimed /\ [Next]_vars => Reclaimed'
<1> SUFFICES ASSUME Inv, Inv', Reclaimed, [Next]_vars PROVE Reclaimed'
  OBVIOUS
<1> DEFINE busy == {"stage_bytes", "snapshot", "pointer", "stage_receipt", "commit_receipt"}
<1>1. ASSUME temporaries' \subseteq temporaries,
             \A q \in Client :
               \/ phase'[q] \notin {"locked"} \cup busy
               \/ UNCHANGED <<phase[q], request[q], temporary[q], listed>>
      PROVE  Reclaimed'
  BY <1>1 DEF Reclaimed, TemporariesReclaimed
<1>2. CASE UNCHANGED vars
  BY <1>1, <1>2 DEF vars, handlers
<1>3. CASE Next
  <2>1. PICK p \in Client :
          \/ \E r \in LockedRequest : Acquire(p, r)
          \/ \E c \in Content : Readback(p, c)
          \/ Crash(p)
          \/ Answers(p)
          \/ \E t \in listed : RecoverUnlink(p, t)
          \/ WriteTemporary(p)
          \/ StageAccepted(p) \/ StageBytes(p) \/ StageReceipt(p)
          \/ CommitReconciles(p) \/ CommitAccepted(p)
          \/ Snapshot(p) \/ PointerReplace(p) \/ CommitReceipt(p)
          \/ AbortDecides(p) \/ AbortReceipt(p) \/ ReadbackReceipt(p)
    BY <1>3, NextCases
  <2>2. \A q \in Client : q # p /\ lock = p => phase[q] \notin {"locked"} \cup busy
    BY Phases DEF Inv, LockHeld
  <2>3. \A q \in Client : q # p /\ lock' = p => phase'[q] \notin {"locked"} \cup busy
    BY Phases DEF Inv, LockHeld
  <2>4. ASSUME NEW r \in LockedRequest, Acquire(p, r) PROVE Reclaimed'
    <3>1. /\ phase' = [phase EXCEPT ![p] = "locked"] /\ lock' = p
          /\ request' = [request EXCEPT ![p] = r]
          /\ listed' = IF r.op = "abort" THEN {} ELSE temporaries
          /\ temporaries' = temporaries
      BY <2>4 DEF Acquire
    <3>2. phase'[p] = "locked" /\ request'[p] = r
      BY <3>1 DEF Inv, TypeInv, TypeOK
    <3>3. QED BY <2>3, <3>1, <3>2 DEF Reclaimed, TemporariesReclaimed
  <2>5. ASSUME NEW c \in Content, Readback(p, c) PROVE Reclaimed'
    BY <1>1, <2>5 DEF Readback, Inv, TypeInv, TypeOK
  <2>6. CASE Crash(p) \/ Answers(p) \/ StageReceipt(p) \/ CommitReceipt(p) \/ AbortReceipt(p)
             \/ ReadbackReceipt(p)
    <3>1. Return(p) /\ temporaries' \subseteq temporaries
      BY <2>6, AnswersShape
      DEF Crash, StageReceipt, CommitReceipt, AbortReceipt, ReadbackReceipt, Renaming
    <3>2. phase' = [phase EXCEPT ![p] = "idle"] /\ request' = [request EXCEPT ![p] = None]
          /\ temporary' = [temporary EXCEPT ![p] = None]
          /\ listed' = IF lock = p THEN {} ELSE listed
      BY <3>1 DEF Return
    <3>3. ASSUME NEW q \in Client
          PROVE  \/ phase'[q] \notin {"locked"} \cup busy
                 \/ UNCHANGED <<phase[q], request[q], temporary[q], listed>>
      BY <2>2, <3>2, <3>3 DEF Inv, TypeInv, TypeOK
    <3>4. QED BY <1>1, <3>1, <3>3
  <2>7. ASSUME NEW t \in listed, RecoverUnlink(p, t) PROVE Reclaimed'
    <3>1. /\ phase[p] = "locked" /\ lock = p
          /\ temporaries' = temporaries \ {t} /\ listed' = listed \ {t}
          /\ UNCHANGED <<phase, request, temporary>>
      BY <2>7, Holds, Phases DEF RecoverUnlink, handlers
    <3>2. QED BY <2>2, <3>1 DEF Reclaimed, TemporariesReclaimed
  <2>8. CASE WriteTemporary(p)
    <3> DEFINE n == [owner |-> p, born |-> crashes, dir |-> Destination(phase[p])]
    <3>1. /\ phase[p] \in WritePhase /\ temporary[p] = None
          /\ temporary' = [temporary EXCEPT ![p] = n]
          /\ temporaries' = temporaries \cup {n}
          /\ UNCHANGED <<lock, listed, phase, request>>
      BY <2>8 DEF WriteTemporary
    <3>2. n.dir = Destination(phase[p]) /\ temporary'[p] = n /\ \A t \in temporaries : t # None
      BY <3>1 DEF Inv, TypeInv, TypeOK
    <3>3. CASE phase[p] = "readback_receipt"
      <4>1. n.dir = "receipts"
        BY <3>2, <3>3 DEF Destination
      <4>2. \A q \in Client : q # p => temporary'[q] = temporary[q]
        BY <3>1 DEF Inv, TypeInv, TypeOK
      <4>3. QED BY <3>1, <3>3, <4>1, <4>2 DEF Reclaimed, TemporariesReclaimed
    <3>4. CASE phase[p] # "readback_receipt"
      <4>1. phase[p] \in LockedPhase /\ phase[p] # "locked" /\ lock = p
        BY <3>1, <3>4, Holds, Phases DEF WritePhase, LockedWritePhase, ReceiptPhase
      <4>2. phase[p] \in busy => \A t \in temporaries : t.dir = "receipts"
        BY <3>1, <3>2 DEF Reclaimed, TemporariesReclaimed
      <4>3. QED BY <2>2, <3>1, <3>2, <4>1, <4>2 DEF Reclaimed, TemporariesReclaimed
    <3>5. QED BY <3>3, <3>4
  <2>9. CASE StageAccepted(p) \/ CommitReconciles(p) \/ CommitAccepted(p)
    <3>1. /\ phase[p] = "locked" /\ listed = {} /\ request[p].op # "abort" /\ lock = p
          /\ UNCHANGED <<lock, temporaries>>
      BY <2>9, Holds, Phases
      DEF StageAccepted, CommitReconciles, CommitAccepted, MayCommit, Deciding, GoTo
    <3>2. \A t \in temporaries : t.dir = "receipts"
      BY <3>1 DEF Reclaimed
    <3>3. phase'[p] # "locked"
      BY <2>9
      DEF StageAccepted, CommitReconciles, CommitAccepted, GoTo, Inv, TypeInv, TypeOK
    <3>4. QED BY <2>3, <3>1, <3>2, <3>3 DEF Reclaimed, TemporariesReclaimed
  <2>10. CASE StageBytes(p) \/ Snapshot(p) \/ PointerReplace(p)
    <3>1. /\ phase[p] \in busy /\ lock = p
          /\ temporaries' = temporaries \ {temporary[p]} /\ lock' = lock
      BY <2>10, Holds, Phases DEF StageBytes, Snapshot, PointerReplace, Renaming, GoTo
    <3>2. \A t \in temporaries' : t.dir = "receipts"
      BY <3>1 DEF Reclaimed, TemporariesReclaimed
    <3>3. phase'[p] # "locked"
      BY <2>10 DEF StageBytes, Snapshot, PointerReplace, GoTo, Inv, TypeInv, TypeOK
    <3>4. QED BY <2>3, <3>1, <3>2, <3>3 DEF Reclaimed, TemporariesReclaimed
  <2>11. CASE AbortDecides(p)
    <3>1. phase[p] = "locked" /\ lock = p
      BY <2>11, Holds, Phases DEF AbortDecides, Deciding
    <3>2. QED BY <1>1, <2>2, <2>11, <3>1 DEF AbortDecides, Inv, TypeInv, TypeOK
  <2>12. QED
    BY <2>1, <2>4, <2>5, <2>6, <2>7, <2>8, <2>9, <2>10, <2>11
<1>4. QED BY <1>2, <1>3

\* A handler that has recovered works in a directory free of dead handlers'
\* temporaries, for any number of clients and crashes.
THEOREM TemporariesAreReclaimed == Spec => []TemporariesReclaimed
<1>1. Init => Reclaimed
  BY DEF Init, Reclaimed, TemporariesReclaimed
<1>2. Reclaimed => TemporariesReclaimed
  BY DEF Reclaimed
<1>3. QED BY <1>1, <1>2, Invariance, ReclaimedNext, PTL DEF Spec

\* Published stages can be read, keys keep their content and committed bytes
\* stay, for any number of handlers, keys and contents.
THEOREM DataKept == Spec => []DataIsKept
  BY SnapshotsReadable, KeysBindOneContent, CommittedBytesStay, PTL DEF DataIsKept

-----------------------------------------------------------------------------
(* The refinement.  As long as no handler died, whatever is published has  *)
(* its receipt, or is what the holder of the lock is about to write the    *)
(* receipt of: only then does a commit never take effect a second time.    *)

Completed ==
  /\ \A p \in Client : phase[p] = "stage_receipt" => request[p].stage \in stages
  /\ crashes = 0 =>
       \A s \in published : \/ commitReceipt[s.key] # None
                            \/ \E p \in Client : /\ phase[p] = "commit_receipt"
                                                 /\ request[p].stage = s

\* A step that leaves the files and every handler that is writing a receipt.
LEMMA QuietCompleted ==
  ASSUME Completed, UNCHANGED <<files, published>>, crashes' = 0 => crashes = 0,
         \A q \in Client :
           /\ phase[q] = "commit_receipt" =>
                phase'[q] = "commit_receipt" /\ request'[q] = request[q]
           /\ phase'[q] = "stage_receipt" =>
                \/ phase[q] = "stage_receipt" /\ request'[q] = request[q]
                \/ request'[q].stage \in stages
  PROVE  Completed'
  BY DEF Completed, files

\* A handler that leaves without dying has no receipt of a commit to write.
LEMMA ReturnCompleted ==
  ASSUME Inv, Completed, NEW p \in Client, Return(p), UNCHANGED <<files, published>>,
         phase[p] # "commit_receipt" \/ crashes' # 0,
         crashes' = 0 => crashes = 0
  PROVE  Completed'
<1>1. /\ phase' = [phase EXCEPT ![p] = "idle"]
      /\ request' = [request EXCEPT ![p] = None]
      /\ phase \in [Client -> Phase] /\ request \in [Client -> Request \cup {None}]
  BY DEF Return, Inv, TypeInv, TypeOK
<1>2. QED BY <1>1 DEF Completed, files

\* Every step keeps it: a pointer is followed by its receipt before the lock is
\* given back, and a stage's receipt by no abort.
LEMMA CompletedNext == Inv /\ Completed /\ [Next]_vars => Completed'
<1> SUFFICES ASSUME Inv, Completed, [Next]_vars PROVE Completed'
  OBVIOUS
<1>0. /\ phase \in [Client -> Phase] /\ request \in [Client -> Request \cup {None}]
      /\ crashes \in Nat
  BY DEF Inv, TypeInv, TypeOK
<1>1. CASE UNCHANGED vars
  BY <1>1, QuietCompleted DEF vars, handlers
<1>2. CASE Next
  <2>1. PICK p \in Client :
          \/ \E r \in LockedRequest : Acquire(p, r)
          \/ \E c \in Content : Readback(p, c)
          \/ Crash(p)
          \/ Answers(p)
          \/ \E t \in listed : RecoverUnlink(p, t)
          \/ WriteTemporary(p)
          \/ StageAccepted(p) \/ StageBytes(p) \/ StageReceipt(p)
          \/ CommitReconciles(p) \/ CommitAccepted(p)
          \/ Snapshot(p) \/ PointerReplace(p) \/ CommitReceipt(p)
          \/ AbortDecides(p) \/ AbortReceipt(p) \/ ReadbackReceipt(p)
    BY <1>2, NextCases
  <2> DEFINE s == request[p].stage
  <2>2. ASSUME NEW r \in LockedRequest, Acquire(p, r) PROVE Completed'
    BY <1>0, <2>2, QuietCompleted DEF Acquire
  <2>3. ASSUME NEW c \in Content, Readback(p, c) PROVE Completed'
    BY <1>0, <2>3, QuietCompleted DEF Readback
  <2>4. CASE Crash(p)
    <3>1. Return(p) /\ UNCHANGED <<files, published>> /\ crashes' # 0
      BY <1>0, <2>4 DEF Crash
    <3>2. QED BY <3>1, ReturnCompleted
  <2>5. CASE Answers(p) \/ AbortReceipt(p) \/ ReadbackReceipt(p)
    <3>1. phase[p] # "commit_receipt"
      BY <2>5
      DEF Answers, RecoverRaises, RecoverDone, StageAnswered, StageRefused, CommitAnswered,
          CommitRefused, ReadbackRaises, Deciding, AbortReceipt, ReadbackReceipt, Renaming
    <3>2. Return(p) /\ UNCHANGED <<files, published, crashes>>
      BY <2>5, AnswersShape DEF AbortReceipt, ReadbackReceipt, Renaming
    <3>3. QED BY <3>1, <3>2, ReturnCompleted
  <2>6. CASE (\E t \in listed : RecoverUnlink(p, t)) \/ WriteTemporary(p)
    BY <2>6, QuietCompleted DEF RecoverUnlink, WriteTemporary, handlers
  <2>7. CASE StageAccepted(p) \/ CommitReconciles(p) \/ CommitAccepted(p)
    <3>1. PICK ph \in {"stage_receipt", "stage_bytes", "commit_receipt", "pointer", "snapshot"} :
            GoTo(p, ph) /\ (ph = "stage_receipt" => s \in stages)
      BY <2>7 DEF StageAccepted, CommitReconciles, CommitAccepted
    <3>2. phase[p] = "locked" /\ UNCHANGED <<files, published, crashes>>
      BY <2>7 DEF StageAccepted, CommitReconciles, CommitAccepted, MayCommit, Deciding
    <3>3. phase' = [phase EXCEPT ![p] = ph] /\ request' = request
      BY <3>1 DEF GoTo
    <3>4. QED BY <1>0, <3>1, <3>2, <3>3, QuietCompleted
  <2>8. CASE StageBytes(p)
    <3>1. /\ phase' = [phase EXCEPT ![p] = "stage_receipt"] /\ request' = request
          /\ stages' = stages \cup {s} /\ phase[p] = "stage_bytes"
          /\ UNCHANGED <<commitReceipt, published, crashes>>
      BY <2>8 DEF StageBytes, GoTo, Renaming
    <3>2. QED BY <1>0, <3>1 DEF Completed
  <2>9. CASE StageReceipt(p)
    <3>1. /\ phase' = [phase EXCEPT ![p] = "idle"]
          /\ request' = [request EXCEPT ![p] = None] /\ phase[p] = "stage_receipt"
          /\ UNCHANGED <<stages, commitReceipt, published, crashes>>
      BY <2>9 DEF StageReceipt, Return, Renaming
    <3>2. QED BY <1>0, <3>1 DEF Completed
  <2>10. CASE Snapshot(p)
    <3>1. /\ phase' = [phase EXCEPT ![p] = "pointer"] /\ request' = request
          /\ phase[p] = "snapshot"
          /\ UNCHANGED <<stages, commitReceipt, published, crashes>>
      BY <2>10 DEF Snapshot, GoTo, Renaming
    <3>2. QED BY <1>0, <3>1 DEF Completed
  <2>11. CASE PointerReplace(p)
    <3>1. /\ phase' = [phase EXCEPT ![p] = "commit_receipt"] /\ request' = request
          /\ phase[p] = "pointer" /\ published' = published \cup {s}
          /\ UNCHANGED <<stages, commitReceipt, crashes>>
      BY <2>11 DEF PointerReplace, GoTo, Renaming
    <3>2. QED BY <1>0, <3>1 DEF Completed
  <2>12. CASE CommitReceipt(p)
    <3>1. /\ phase' = [phase EXCEPT ![p] = "idle"]
          /\ request' = [request EXCEPT ![p] = None] /\ phase[p] = "commit_receipt"
          /\ commitReceipt' = [commitReceipt EXCEPT ![request[p].key] = s.content]
          /\ UNCHANGED <<stages, published, crashes>>
      BY <2>12 DEF CommitReceipt, Return, Renaming
    <3>2. s.key = request[p].key /\ s \in Stage /\ s.key \in Key /\ s.content # None
      BY <3>1, RequestFields DEF Inv, TypeInv, RequestOK, Handler
    <3>3. commitReceipt \in [Key -> Content \cup {None}]
      BY DEF Inv, TypeInv, TypeOK
    <3>4. \A q \in Client : q # p => phase[q] # "commit_receipt"
      BY <3>1, Phases DEF Inv, LockHeld
    <3>5. \A k \in Key : commitReceipt[k] # None => commitReceipt'[k] # None
      BY <3>1, <3>2, <3>3
    <3>6. commitReceipt'[s.key] # None
      BY <3>1, <3>2, <3>3
    <3>7. \A t \in published : t.key \in Key
      BY DEF Inv, TypeInv, TypeOK, Stage
    <3>8. QED BY <1>0, <3>1, <3>4, <3>5, <3>6, <3>7 DEF Completed
  <2>13. CASE AbortDecides(p)
    <3>1. /\ phase' = [phase EXCEPT ![p] = "abort_receipt"] /\ request' = request
          /\ phase[p] = "locked"
          /\ UNCHANGED <<commitReceipt, published, crashes>>
      BY <2>13 DEF AbortDecides, Deciding
    <3>2. \A q \in Client : q # p => phase[q] # "stage_receipt"
      BY <3>1, Phases DEF Inv, LockHeld
    <3>3. QED BY <1>0, <3>1, <3>2 DEF Completed
  <2>14. QED
    BY <2>1, <2>2, <2>3, <2>4, <2>5, <2>6, <2>7, <2>8, <2>9, <2>10, <2>11, <2>12, <2>13
<1>3. QED BY <1>1, <1>2

\* What a step does not touch it leaves the target.
LEMMA SameTarget ==
  ASSUME UNCHANGED <<stageReceipt, pointer, published>>,
         \A k \in Key : Effective(k) = {} /\ stageReceipt[k] # None =>
           ([key |-> k, content |-> stageReceipt[k]] \in stages' <=>
              [key |-> k, content |-> stageReceipt[k]] \in stages)
  PROVE  UNCHANGED (Target!vars)
<1>1. ASSUME NEW k \in Key PROVE Staged(k)' = Staged(k) /\ Committed(k)' = Committed(k)
  BY DEF Staged, Committed, Effective
<1>2. QED BY <1>1 DEF Target!vars

\* A stage becomes visible to callers with its receipt.
LEMMA StageReceiptTarget ==
  ASSUME Inv, Completed, NEW p \in Client, StageReceipt(p)
  PROVE  Target!Next
<1>0. PICK s \in Stage : s = request[p].stage
  BY RequestFields DEF StageReceipt, Renaming, Inv, TypeInv, RequestOK
<1>1. /\ phase[p] = "stage_receipt" /\ s \in stages /\ stageReceipt[s.key] = None
      /\ s \in Stage /\ s.key \in Key /\ s.content \in Content
  BY <1>0, RequestFields DEF StageReceipt, Renaming, Completed, Inv, TypeInv, RequestOK, Handler
<1>2. /\ stageReceipt' = [stageReceipt EXCEPT ![s.key] = s.content]
      /\ UNCHANGED <<stages, pointer, published>>
      /\ stageReceipt \in [Key -> Content \cup {None}]
  BY <1>0 DEF StageReceipt, Inv, TypeInv, TypeOK
<1>3. Effective(s.key) = {}
  BY <1>1 DEF Effective, Inv, Files, TypeInv, TypeOK, Stage
<1>4. [key |-> s.key, content |-> s.content] = s
  BY <1>1 DEF Stage
<1>5. Staged(s.key) = None /\ Committed(s.key) = None /\ Staged(s.key)' = s.content
  BY <1>1, <1>2, <1>3, <1>4 DEF Staged, Committed, Effective
<1>6. ASSUME NEW k \in Key
      PROVE  /\ Staged(k)' = IF k = s.key THEN s.content ELSE Staged(k)
             /\ Committed(k)' = Committed(k)
  BY <1>1, <1>2, <1>5 DEF Staged, Committed, Effective
<1>7. Target!Stage(s.key, s.content)
  BY <1>1, <1>2, <1>5, <1>6 DEF Target!Stage
<1>8. QED BY <1>1, <1>7 DEF Target!Next

\* A commit takes effect with the pointer, and for the first time.
LEMMA PointerReplaceTarget ==
  ASSUME Inv, Completed, crashes = 0, NEW p \in Client, PointerReplace(p)
  PROVE  Target!Next
<1>0. PICK s \in Stage : s = request[p].stage
  BY RequestFields DEF PointerReplace, Renaming, Inv, TypeInv, RequestOK
<1>1. /\ phase[p] = "pointer" /\ s \in stages
      /\ stageReceipt[s.key] = s.content /\ commitReceipt[s.key] = None
      /\ s \in Stage /\ s.key \in Key /\ s.content \in Content
  BY <1>0, RequestFields
  DEF PointerReplace, Renaming, Inv, TypeInv, RequestOK, Handler, Accepted
<1>2. /\ pointer' = s /\ published' = published \cup {s}
      /\ UNCHANGED <<stages, stageReceipt>>
  BY <1>0 DEF PointerReplace
<1>3. \A q \in Client : phase[q] # "commit_receipt"
  BY <1>1, Phases DEF Inv, LockHeld
<1>4. Effective(s.key) = {}
  BY <1>1, <1>3 DEF Completed, Effective
<1>5. [key |-> s.key, content |-> s.content] = s
  BY <1>1 DEF Stage
<1>6. Effective(s.key)' = {s} /\ \A k \in Key : k # s.key => Effective(k)' = Effective(k)
  BY <1>1, <1>2, <1>4 DEF Effective
<1>7. /\ Staged(s.key) = s.content /\ Committed(s.key) = None
      /\ Staged(s.key)' = None /\ Committed(s.key)' = s.content
  BY <1>1, <1>4, <1>5, <1>6 DEF Staged, Committed
<1>8. ASSUME NEW k \in Key
      PROVE  /\ Staged(k)' = IF k = s.key THEN None ELSE Staged(k)
             /\ Committed(k)' = IF k = s.key THEN Staged(s.key) ELSE Committed(k)
  <2>1. CASE k = s.key
    BY <1>7, <2>1
  <2>2. CASE k # s.key
    <3>1. Effective(k)' = Effective(k) /\ UNCHANGED <<stages, stageReceipt>>
      BY <1>2, <1>6, <2>2
    <3>2. Staged(k)' = Staged(k)
      BY <3>1 DEF Staged
    <3>3. Committed(k)' = Committed(k)
      BY <3>1 DEF Committed
    <3>4. QED BY <2>2, <3>2, <3>3
  <2>3. QED BY <2>1, <2>2
<1>9. pointer' # None
  BY <1>1, <1>2
<1>10. Target!Commit(s.key)
  BY <1>1, <1>2, <1>7, <1>8, <1>9 DEF Target!Commit
<1>11. QED BY <1>1, <1>10 DEF Target!Next

\* An abort takes away what is staged, or nothing a caller can see.
LEMMA AbortTarget ==
  ASSUME Inv, NEW p \in Client, AbortDecides(p)
  PROVE  [Target!Next]_(Target!vars)
<1>0. PICK s \in Stage : s = request[p].stage
  BY DecidingRequest, RequestFields DEF AbortDecides, Inv, TypeInv
<1>1. /\ s \in Stage /\ s.key \in Key /\ s.content \in Content
      /\ [key |-> s.key, content |-> s.content] = s
  BY DEF Stage
<1>2. /\ UNCHANGED <<stageReceipt, pointer, published>>
      /\ stages' = stages \/ stages' = stages \ {s}
  BY <1>0 DEF AbortDecides
<1>3. CASE stages' = stages
  BY <1>2, <1>3, SameTarget
<1>4. CASE stages' = stages \ {s}
  <2>1. \A k \in Key : [key |-> k, content |-> stageReceipt[k]] = s =>
          k = s.key /\ stageReceipt[k] = s.content
    OBVIOUS
  <2>2. CASE Staged(s.key) = s.content
    <3>1. stageReceipt[s.key] = s.content /\ Effective(s.key) = {} /\ s.content # None
      BY <1>1, <2>2 DEF Staged
    <3>2. Staged(s.key)' = None
      BY <1>1, <1>2, <1>4, <3>1 DEF Staged
    <3>3. ASSUME NEW k \in Key
          PROVE  /\ Staged(k)' = IF k = s.key THEN None ELSE Staged(k)
                 /\ Committed(k)' = Committed(k)
      <4>1. Committed(k)' = Committed(k) /\ Effective(k)' = Effective(k)
        BY <1>2 DEF Committed, Effective
      <4>2. k # s.key => Staged(k)' = Staged(k)
        BY <1>2, <1>4, <2>1, <4>1 DEF Staged
      <4>3. QED BY <3>2, <4>1, <4>2
    <3>4. Target!Abort(s.key)
      BY <1>1, <1>2, <2>2, <3>1, <3>3 DEF Target!Abort
    <3>5. QED BY <1>1, <3>4 DEF Target!Next
  <2>3. CASE Staged(s.key) # s.content
    <3>1. \A k \in Key : Effective(k) = {} /\ stageReceipt[k] # None =>
            ([key |-> k, content |-> stageReceipt[k]] \in stages' <=>
               [key |-> k, content |-> stageReceipt[k]] \in stages)
      BY <1>1, <1>4, <2>1, <2>3 DEF Staged
    <3>2. QED BY <1>2, <3>1, SameTarget
  <2>4. QED BY <2>2, <2>3
<1>5. QED BY <1>2, <1>3, <1>4

\* The steps of the store, until a handler dies, are steps of the target.
LEMMA TargetNext ==
  Inv /\ Completed /\ [Next]_vars => (crashes' = 0 => [Target!Next]_(Target!vars))
<1> SUFFICES ASSUME Inv, Completed, [Next]_vars, crashes' = 0
             PROVE  [Target!Next]_(Target!vars)
  OBVIOUS
<1>1. CASE UNCHANGED <<stages, stageReceipt, pointer, published>>
  BY <1>1, SameTarget
<1>2. CASE ~UNCHANGED <<stages, stageReceipt, pointer, published>>
  <2>1. PICK p \in Client : StageBytes(p) \/ StageReceipt(p) \/ PointerReplace(p) \/ AbortDecides(p)
    BY <1>2, NextCases, AnswersShape
    DEF vars, files, handlers, Acquire, Readback, Crash, RecoverUnlink, WriteTemporary,
        StageAccepted, CommitReconciles, CommitAccepted, Snapshot, CommitReceipt,
        AbortReceipt, ReadbackReceipt
  <2>2. CASE StageBytes(p)
    <3> DEFINE s == request[p].stage
    <3>1. stageReceipt[s.key] = None /\ s \in Stage
      BY <2>2, RequestFields DEF StageBytes, Renaming, Inv, TypeInv, RequestOK, Handler
    <3>2. stages' = stages \cup {s} /\ UNCHANGED <<stageReceipt, pointer, published>>
      BY <2>2 DEF StageBytes
    <3>3. \A k \in Key : stageReceipt[k] # None =>
            [key |-> k, content |-> stageReceipt[k]] # s
      BY <3>1
    <3>4. QED BY <3>2, <3>3, SameTarget
  <2>3. CASE PointerReplace(p)
    <3>1. crashes = 0
      BY <2>3 DEF PointerReplace, Renaming
    <3>2. QED BY <2>3, <3>1, PointerReplaceTarget
  <2>4. QED BY <2>1, <2>2, <2>3, StageReceiptTarget, AbortTarget
<1>3. QED BY <1>1, <1>2

\* The empty directory is the initial target.
LEMMA TargetInit == Init => Target!Init
  BY DEF Init, Target!Init, Staged, Committed, Effective

\* Until a handler dies half-way the store of managed_snapshots.py implements the
\* managed target: what callers see changes by whole stages, commits and aborts,
\* and each key is committed once.
THEOREM Refinement == Spec => ImplementsTarget
<1>1. Init => Completed
  BY DEF Init, Completed
<1>2. Inv /\ Completed /\ [Next]_vars =>
        [crashes' = 0 => [Target!Next]_(Target!vars)]_vars
  BY TargetNext
<1>3. QED
  BY <1>1, <1>2, Invariance, CompletedNext, TargetInit, PTL DEF Spec, ImplementsTarget
=============================================================================
