------------------------- MODULE SpreadsheetSession -------------------------
(***************************************************************************)
(* A buffered workbook session shared by threads (spreadsheets/_session.py) *)
(* and the provider that executes its writes: MaybeSheet, one command per  *)
(* edit with no transaction around them (maybe_sheet/spreadsheet.py), or a *)
(* local file that takes a whole batch at once.                            *)
(*                                                                         *)
(* Edits queue until write(); every method tries a lock and refuses when   *)
(* another thread has it.  A command that was sent may be executed long    *)
(* after its reply was given up.                                           *)
(*                                                                         *)
(* Edits are numbered in the order they were accepted.  Pending edits only *)
(* ever join at the end and leave all together, so they are an interval.   *)
(* Command 0 creates or copies the workbook, command e applies edit e (the  *)
(* bands of one worksheet configuration count as edits of their own).      *)
(***************************************************************************)
EXTENDS Naturals

CONSTANTS
    Thread,
    MaxEdits,  \* bound of the model: the edits queued in a session
    MaxSends,  \* bound of the model: how often one command is sent
    None

ASSUME SessionAssumption ==
    /\ MaxEdits \in Nat
    /\ MaxSends \in Nat
    /\ None \notin Thread

VARIABLES
    provider,     \* what the session is bound to; "literal" is a local file too
    queued,       \* how many edits were accepted
    cleared,      \* how many of them are pending no longer
    fresh,        \* the workbook is to be created or copied by the first write
    closed,
    sealed,
    unresolved,   \* why mutation is frozen, "none" when it is not
    last,         \* the state of the last write that returned, "none" before
    mutex,        \* the thread inside the session
    pc,           \* what each thread does
    batch,        \* the edits of the running write
    sent,         \* the last edit of the running write that was acknowledged
    receipts,     \* whether a command of the running write was acknowledged
    outstanding,  \* how often a command was sent and may yet be executed
    executed,     \* how often the provider executed a command
    told,         \* history: what a write answered of each edit
    interrupted   \* history: a write was left by a KeyboardInterrupt

session == <<provider, queued, cleared, fresh, closed, sealed, unresolved, last>>
writer == <<batch, sent, receipts>>
remote == <<outstanding, executed>>
vars == <<session, mutex, pc, writer, remote, told, interrupted>>

Edit == 1 .. MaxEdits
Command == 0 .. MaxEdits
State == {"committed", "not_committed", "partial", "unknown"}

\* The local provider takes a batch at once; a literal artifact is sealed by
\* its first write.
Atomic == provider # "maybe"
Literal == provider = "literal"

Pending == cleared + 1 .. queued

TypeOK ==
    /\ provider \in {"maybe", "local", "literal"}
    /\ queued \in Command /\ cleared \in 0 .. queued
    /\ fresh \in BOOLEAN /\ closed \in BOOLEAN /\ sealed \in BOOLEAN
    /\ unresolved \in State \cup {"none"}
    /\ last \in State \cup {"none"}
    /\ mutex \in Thread \cup {None}
    /\ pc \in [Thread -> {"idle", "writing", "creating", "sent"}]
    /\ batch \subseteq Edit
    /\ sent \in 0 .. queued
    /\ receipts \in BOOLEAN
    /\ outstanding \in [Command -> Nat]
    /\ executed \in [Command -> Nat]
    /\ told \in [Edit -> State \cup {"planned"}]
    /\ interrupted \in BOOLEAN

Init ==
    /\ provider \in {"maybe", "local", "literal"}
    /\ queued = 0 /\ cleared = 0
    /\ fresh \in BOOLEAN
    /\ closed = FALSE /\ sealed = FALSE
    /\ unresolved = "none" /\ last = "none"
    /\ mutex = None
    /\ pc = [t \in Thread |-> "idle"]
    /\ batch = {} /\ sent = 0 /\ receipts = FALSE
    /\ outstanding = [c \in Command |-> 0]
    /\ executed = [c \in Command |-> 0]
    /\ told = [e \in Edit |-> "planned"]
    /\ interrupted = FALSE

-----------------------------------------------------------------------------
(* Entering the session.                                                   *)

\* The lock is tried, never waited for: a busy session refuses.
MayEnter(t) == pc[t] = "idle" /\ mutex = None /\ ~ closed

\* A variant: an unknown outcome does not freeze the session.
MayMutateAnyway == ~ sealed

MayMutate == ~ sealed /\ unresolved = "none"

\* The provider accepts the edit; one it refuses changes nothing.
Queue(t) ==
    /\ MayEnter(t) /\ MayMutate
    /\ queued < MaxEdits
    /\ queued' = queued + 1
    /\ UNCHANGED <<provider, cleared, fresh, closed, sealed, unresolved, last, mutex, pc, writer, remote, told, interrupted>>

\* A second write with nothing pending answers with the last result; a dry run
\* and a preflight that refuses change nothing.
BeginWrite(t) ==
    /\ MayEnter(t) /\ MayMutate
    /\ Pending # {} \/ last = "none"
    /\ mutex' = t
    /\ pc' = [pc EXCEPT ![t] = "writing"]
    /\ batch' = Pending
    /\ sent' = cleared
    /\ receipts' = FALSE
    /\ told' = [e \in Edit |-> IF e \in Pending THEN "planned" ELSE told[e]]
    /\ UNCHANGED <<session, remote, interrupted>>

Close(t) ==
    /\ pc[t] = "idle" /\ mutex = None
    /\ closed' = TRUE
    /\ cleared' = queued
    /\ UNCHANGED <<provider, queued, fresh, sealed, unresolved, last, mutex, pc, writer, remote, told, interrupted>>

-----------------------------------------------------------------------------
(* How a write ends.                                                       *)

\* A variant: the lock is kept.
LeaveLocked(t) == UNCHANGED mutex /\ pc' = [pc EXCEPT ![t] = "idle"]

Leave(t) == mutex' = None /\ pc' = [pc EXCEPT ![t] = "idle"]

Tell(state) == told' = [e \in Edit |-> IF e \in batch THEN state ELSE told[e]]

\* A variant: the queue is emptied whatever the outcome.
ClearsAlways(state) == cleared' = queued

Clears(state) == cleared' = IF state = "committed" THEN queued ELSE cleared

Seals(state) == sealed' = (sealed \/ (state = "committed" /\ Literal))

\* provider.commit returned a result.
Returns(t, state) ==
    /\ Leave(t) /\ Tell(state) /\ Clears(state) /\ Seals(state)
    /\ last' = state
    /\ unresolved' = IF state \in {"unknown", "partial"} THEN state ELSE unresolved
    /\ UNCHANGED <<provider, queued, closed, writer, interrupted>>

\* provider.commit raised a ConnectorError that says how far it came.
Raises(t, state) ==
    /\ Leave(t) /\ Tell(state) /\ Clears(state) /\ Seals(state)
    /\ unresolved' = IF state \in {"committed", "unknown", "partial"} THEN state ELSE unresolved
    /\ UNCHANGED <<provider, queued, fresh, closed, last, writer, interrupted>>

\* Nothing was dispatched: the batch is refused, or a preflight inside the
\* commit ran into its timeout, which counts as unknown.
Refused(t) ==
    /\ pc[t] = "writing" /\ ~ receipts
    /\ \E state \in {"not_committed", "unknown"} :
           (state = "unknown" => ~ Atomic) /\ Raises(t, state)
    /\ UNCHANGED remote

-----------------------------------------------------------------------------
(* MaybeSheet: the workbook first, then one command per edit.              *)

Left == {e \in batch : e > sent}
InTransit(t) == IF pc[t] = "creating" THEN 0 ELSE sent + 1

NextCommand == IF fresh THEN 0 ELSE sent + 1

Send(t) ==
    /\ ~ Atomic /\ pc[t] = "writing"
    /\ fresh \/ Left # {}
    /\ executed[NextCommand] + outstanding[NextCommand] < MaxSends
    /\ outstanding' = [outstanding EXCEPT ![NextCommand] = @ + 1]
    /\ pc' = [pc EXCEPT ![t] = IF fresh THEN "creating" ELSE "sent"]
    /\ UNCHANGED <<session, mutex, writer, executed, told, interrupted>>

\* The provider executes a command that was sent, listened to or not.
Execute(c) ==
    /\ outstanding[c] > 0
    /\ outstanding' = [outstanding EXCEPT ![c] = @ - 1]
    /\ executed' = [executed EXCEPT ![c] = @ + 1]
    /\ UNCHANGED <<session, mutex, pc, writer, told, interrupted>>

Acknowledge(t) ==
    /\ pc[t] \in {"creating", "sent"} /\ outstanding[InTransit(t)] = 0
    /\ receipts' = TRUE
    /\ sent' = IF pc[t] = "sent" THEN sent + 1 ELSE sent
    /\ fresh' = (fresh /\ pc[t] = "sent")
    /\ pc' = [pc EXCEPT ![t] = "writing"]
    /\ UNCHANGED <<provider, queued, cleared, closed, sealed, unresolved, last, mutex, batch, remote, told, interrupted>>

\* A variant: a reply that was lost counts as a command that failed.
NoReplyFailed(t) ==
    /\ pc[t] \in {"creating", "sent"}
    /\ Returns(t, IF receipts THEN "partial" ELSE "not_committed")
    /\ UNCHANGED <<fresh, remote>>

\* The reply is lost, late, or not what was asked for; a created workbook
\* whose worksheets cannot be listed is bound all the same.
NoReply(t) ==
    /\ pc[t] \in {"creating", "sent"}
    /\ Returns(t, "unknown")
    /\ fresh' \in {fresh, fresh /\ outstanding[0] # 0}
    /\ UNCHANGED remote

\* An edit cannot be turned into a command: it was not dispatched.
CompileFails(t) ==
    /\ ~ Atomic /\ pc[t] = "writing" /\ ~ fresh /\ Left # {}
    /\ Returns(t, IF receipts THEN "partial" ELSE "not_committed")
    /\ UNCHANGED <<fresh, remote>>

AllAcknowledged(t) ==
    /\ ~ Atomic /\ pc[t] = "writing" /\ ~ fresh /\ Left = {}
    /\ Returns(t, "committed")
    /\ UNCHANGED <<fresh, remote>>

-----------------------------------------------------------------------------
(* A local file takes the batch at once.                                   *)

ExecuteBatch ==
    executed' = [c \in Command |->
        IF c \in batch \/ (c = 0 /\ fresh) THEN executed[c] + 1 ELSE executed[c]]

Publish(t) ==
    /\ Atomic /\ pc[t] = "writing"
    /\ ExecuteBatch
    /\ Returns(t, "committed")
    /\ fresh' = FALSE
    /\ UNCHANGED outstanding

\* The file was published and the cleanup failed.
PublishUnclean(t) ==
    /\ Atomic /\ pc[t] = "writing"
    /\ ExecuteBatch
    /\ Raises(t, "committed")
    /\ UNCHANGED outstanding

-----------------------------------------------------------------------------

\* KeyboardInterrupt is no Exception, neither to the provider nor to the
\* session: the lock is released, nothing is recorded.
Interrupt(t) ==
    /\ pc[t] \in {"writing", "creating", "sent"}
    /\ Leave(t)
    /\ interrupted' = TRUE
    /\ UNCHANGED <<session, writer, remote, told>>

-----------------------------------------------------------------------------

Advance(t) ==
    \/ Refused(t) \/ Send(t) \/ Acknowledge(t) \/ NoReply(t) \/ CompileFails(t)
    \/ AllAcknowledged(t) \/ Publish(t) \/ PublishUnclean(t)

Next ==
    \/ \E t \in Thread :
          Queue(t) \/ BeginWrite(t) \/ Close(t) \/ Interrupt(t) \/ Advance(t)
    \/ \E c \in Command : Execute(c)

Spec == Init /\ [][Next]_vars

\* Every command has a timeout, so a write that was begun goes on.
FairSpec == Spec /\ \A t \in Thread : WF_vars(Advance(t))

-----------------------------------------------------------------------------
(* Properties.                                                             *)

\* No command of the session is executed twice by the provider, as long as
\* no write was interrupted.
AtMostOnce ==
    interrupted \/ \A c \in Command : executed[c] + outstanding[c] <= 1

\* A write answers what happened: committed edits were executed, edits that
\* were not committed never will be by that write, and a partial write leaves
\* nothing in doubt.
AnswersAreTrue ==
    interrupted \/ \A e \in Edit :
        /\ told[e] = "committed" => executed[e] > 0
        /\ told[e] = "not_committed" => executed[e] = 0 /\ outstanding[e] = 0
        /\ told[e] = "partial" => outstanding[e] = 0

\* A queued edit leaves the queue by a write that commits it or by close().
NothingIsDropped ==
    [][\A e \in Pending \ Pending' : told'[e] = "committed" \/ closed']_vars

\* The session does not stay locked.
SessionIsFreed == mutex # None ~> mutex = None
=============================================================================
