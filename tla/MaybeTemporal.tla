---------------------------- MODULE MaybeTemporal ----------------------------
(* The managed temporal store on MaybeAI (maybe_sheet/temporal.py).  Every     *)
(* operation is one run of the provider's command line, which may time out     *)
(* with the command executed or not, and whose answer is checked against the   *)
(* request before it counts.  The store keeps nothing but what the probe       *)
(* proved; the artifact to stage is a local file that others may replace.      *)
(* The provider executes a command correctly or not at all, and its command    *)
(* line may hand out the receipt or the carrier of another command: what the   *)
(* code's checks are for.  Its rows are those of ManagedTables.                *)
EXTENDS ManagedTables, Naturals, FiniteSets

CONSTANTS MaxOps,     \* bound: operations started
          MaxChanges  \* bound: changes of local files

VARIABLES proved,    \* the probe: not asked, refused, or the whole lifecycle
          rows,      \* the provider's tables
          files,     \* artifacts on the local disk: what is in each file
          call,      \* the operation in progress
          ops,       \* operations started
          changes,   \* changes of files
          receipts,  \* receipts the provider has written
          accepted   \* history: receipts the store returned

vars == <<proved, rows, files, call, ops, changes, receipts, accepted>>

Idle == [op |-> "idle", stage |-> None, step |-> "none", inode |-> 0, got |-> None]
Missing == [what |-> None, inode |-> 0]

\* _probe and _capabilities: one description proves everything or the store is
\* not made; a description that cannot be had is asked for again.
Probe(complete) ==
  /\ proved = "unknown"
  /\ proved' = IF complete THEN "yes" ELSE "no"
  /\ UNCHANGED <<rows, files, call, ops, changes, receipts, accepted>>

\* A file is written, replaced by another of any content, or removed.
ChangeFile(a, what) ==
  /\ changes < MaxChanges
  /\ changes' = changes + 1
  /\ files' = [files EXCEPT ![a] = [what |-> what, inode |-> @.inode + 1]]
  /\ UNCHANGED <<proved, rows, call, ops, receipts, accepted>>

Start(op, s, step) ==
  /\ proved = "yes" /\ call = Idle /\ ops < MaxOps
  /\ ops' = ops + 1
  /\ call' = [op |-> op, stage |-> s, step |-> step,
              inode |-> IF op = "stage" THEN files[s.content].inode ELSE 0, got |-> None]
  /\ UNCHANGED <<proved, rows, files, changes, receipts, accepted>>

\* _read_artifact: looked at, opened, and the bytes compared with their hash; it
\* is refused when the file was replaced in between or holds other bytes.
Begin(op, s) ==
  \/ op = "stage" /\ files[s.content].what # None /\ Start(op, s, "open")
  \/ op \in {"commit", "abort"} /\ Start(op, s, "send")
  \/ op = "readback" /\ Start(op, s, "fetch")

ReadArtifact ==
  LET f == files[call.stage.content]
  IN /\ call.step = "open"
     /\ call' = IF f.what = call.stage.content /\ f.inode = call.inode
                THEN [call EXCEPT !.step = "send"] ELSE Idle
     /\ UNCHANGED <<proved, rows, files, ops, changes, receipts, accepted>>

\* The provider executes the command, or refuses it and writes no receipt.
Receipt(op, s) == [op |-> op, stage |-> s]
Executed(op, s) ==
  \/ /\ op = "stage" /\ (MayStage(rows, s) \/ StageFound(rows, s))
     /\ rows' = RowsOfStage(rows, s)
  \/ /\ op = "commit" /\ CommitFound(rows, s, s.key) /\ UNCHANGED rows
  \/ /\ op = "commit" /\ MayCommit(rows, s, s.key)
     /\ rows' = RowsOfCommit(rows, s)
  \/ /\ op = "abort" /\ s.key \notin rows.committed
     /\ rows' = IF MayRemove(rows, s) THEN RowsOfAbort(rows, s) ELSE rows
  \/ /\ op = "readback" /\ s.content \in rows.snapshots /\ UNCHANGED rows

Execute ==
  /\ call.step = "send" /\ Executed(call.op, call.stage)
  /\ receipts' = receipts \cup {Receipt(call.op, call.stage)}
  /\ call' = [call EXCEPT !.step = "answer"]
  /\ UNCHANGED <<proved, files, ops, changes, accepted>>

\* snapshot-read: a carrier of some snapshot, kept if it hashes to the one asked.
Fetch(content) ==
  /\ call.step = "fetch" /\ content \in rows.snapshots
  /\ call' = IF content = call.stage.content
             THEN [call EXCEPT !.step = "send", !.got = content] ELSE Idle
  /\ UNCHANGED <<proved, rows, files, ops, changes, receipts, accepted>>

\* A variant: any receipt of the right kind will do.
OfTheKind(r) == r.op = call.op
\* The receipt is the request's: target, stage and key of a commit, operation
\* and stage of an abort, the binding of a stage, and of a readback what was
\* read must hash to what the receipt observed.
Matches(r) ==
  /\ r.op = call.op
  /\ r.op # "readback" => r.stage = call.stage
  /\ r.op = "readback" => r.stage.content = call.got

\* An answer arrives: the receipt just written, or another one, with this
\* command executed or not.
TakeReceipt(r) ==
  /\ call.step \in {"send", "answer"}
  /\ accepted' = IF Matches(r) THEN accepted \cup {Receipt(call.op, call.stage)} ELSE accepted
  /\ call' = Idle
  /\ UNCHANGED <<proved, rows, files, ops, changes, receipts>>

\* The command line fails or times out, executed or not.
Lose ==
  /\ call.step \in {"send", "fetch", "answer"}
  /\ call' = Idle
  /\ UNCHANGED <<proved, rows, files, ops, changes, receipts, accepted>>

Init ==
  /\ proved = "unknown" /\ rows = NoRows
  /\ files \in [Content -> {Missing} \cup [what : Content, inode : {1}]]
  /\ \A a \in Content : files[a].what \in {a, None}
  /\ call = Idle /\ ops = 0 /\ changes = 0
  /\ receipts = {} /\ accepted = {}

Next ==
  \/ \E complete \in BOOLEAN : Probe(complete)
  \/ \E a \in Content, what \in Content \cup {None} : ChangeFile(a, what)
  \/ \E op \in {"stage", "commit", "readback", "abort"}, s \in Stage : Begin(op, s)
  \/ ReadArtifact \/ Execute \/ Lose
  \/ \E content \in Content : Fetch(content)
  \/ \E r \in receipts : TakeReceipt(r)

Spec == Init /\ [][Next]_vars

\* What the store returned happened: a commit that was answered is in the
\* provider's rows and stays there, a readback was of a snapshot with those
\* bytes, and a stage or abort was executed, although answers may be lost or
\* belong to another command (maybe_sheet/temporal.py commit, readback, stage).
ReceiptsAreEarned ==
  \A r \in accepted :
    /\ r.op = "commit" => CommitFound(rows, r.stage, r.stage.key)
    /\ r.op = "readback" => r.stage.content \in rows.snapshots
    /\ r.op \in {"stage", "abort"} => r \in receipts
=============================================================================
