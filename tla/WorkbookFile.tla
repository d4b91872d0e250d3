---------------------------- MODULE WorkbookFile ----------------------------
(***************************************************************************)
(* One local .xlsx file and the calls that change it (packages/local_files) *)
(*                                                                         *)
(*  - the write of a buffered workbook session, of an existing file or as  *)
(*    the creation of a new one (LocalSpreadsheetProvider.commit), with    *)
(*    the general or literal profile or with the rich one (_rich_commit);  *)
(*  - the immediate formula set (ExcelFormulaExtension.set_grid);          *)
(*  - the immediate recalculation (recalculate_grid).                      *)
(*                                                                         *)
(* Sessions and formula sets take the same advisory lock next to the file, *)
(* stage a temporary file, and publish it with os.link or os.replace.      *)
(* Recalculation takes no lock.  Formula calls carry idempotency keys that *)
(* a ledger in memory remembers.                                           *)
(*                                                                         *)
(* A file's content is the set of the edits it holds; each save gives the  *)
(* file other bytes, so its revision, the hash of them, is that set.  The  *)
(* range and the expression of formula calls with one key are the same.    *)
(***************************************************************************)
EXTENDS Naturals, FiniteSets

CONSTANTS
    Creates,     \* session writes that create the file
    Commits,     \* session writes to an existing file
    Sets,        \* formula sets
    Recalcs,     \* recalculations
    MaxCalls,    \* bound of the model: how many calls are made
    Key,         \* idempotency keys
    Foreign,     \* the content another application creates the file with
    None

Call == Creates \cup Commits \cup Sets \cup Recalcs
FormulaCall == Sets \cup Recalcs
Content == SUBSET (Call \cup {Foreign})
Answer ==
    {"committed", "uncleaned", "replayed", "rejected", "failed", "unknown", "mismatch"}
NoFile == {}

ASSUME FileAssumption ==
    /\ MaxCalls \in Nat
    /\ Creates \cap Commits = {}
    /\ (Creates \cup Commits) \cap FormulaCall = {}
    /\ Sets \cap Recalcs = {}
    /\ Foreign \notin Call
    /\ None \notin Call \cup Key \cup Answer

VARIABLES
    file,       \* the content of the file, NoFile while there is none
    lock,       \* the call that holds the advisory lock
    temp,       \* calls whose staged temporary file exists
    at,         \* how far each call has come
    revision,   \* the revision a call was bound to, NoFile when it names none
    base,       \* the content a call read under (or without) the lock
    rich,       \* session writes that use the rich-artifact profile
    key,        \* the idempotency key of a formula call
    ledger,     \* state and payload of each key, per kind of formula call
    answer,     \* what a call answered
    published,  \* history: calls whose content became the file
    stuck       \* history: calls whose temporary file could not be removed

vars ==
    <<file, lock, temp, at, revision, base, rich, key, ledger, answer, published, stuck>>

Phase == {"idle", "opened", "locked", "read", "built", "staged", "ready", "published", "done"}
Entry == {"absent", "in_flight", "succeeded", "failed", "unknown"}
LedgerKey == {"set", "recalculate"} \X Key
Ledger == [LedgerKey -> [state : Entry, payload : Content]]

TypeOK ==
    /\ file \in Content
    /\ lock \in Call \cup {None}
    /\ temp \in SUBSET Call
    /\ at \in [Call -> Phase]
    /\ revision \in [Call -> Content]
    /\ base \in [Call -> Content]
    /\ rich \in SUBSET Call
    /\ key \in [Call -> Key \cup {None}]
    /\ ledger \in Ledger
    /\ answer \in [Call -> Answer \cup {None}]
    /\ published \in SUBSET Call
    /\ stuck \in SUBSET Call

Init ==
    /\ file \in {NoFile, {Foreign}}
    /\ lock = None
    /\ temp = {}
    /\ at = [c \in Call |-> "idle"]
    /\ revision = [c \in Call |-> NoFile]
    /\ base = [c \in Call |-> NoFile]
    /\ rich = {}
    /\ key = [c \in Call |-> None]
    /\ ledger = [k \in LedgerKey |-> [state |-> "absent", payload |-> NoFile]]
    /\ answer = [c \in Call |-> None]
    /\ published = {}
    /\ stuck = {}

-----------------------------------------------------------------------------
(* Helpers.                                                                *)

GoTo(c, phase) == at' = [at EXCEPT ![c] = phase]

\* A variant: the lock is kept.
EndsLocked(c, a) ==
    /\ GoTo(c, "done")
    /\ answer' = [answer EXCEPT ![c] = a]
    /\ UNCHANGED lock

\* A call ends: it answers, and the lock it may hold is released.
Ends(c, a) ==
    /\ GoTo(c, "done")
    /\ answer' = [answer EXCEPT ![c] = a]
    /\ lock' = IF lock = c THEN None ELSE lock

\* A variant: only a published temporary file is cleaned up.
EndsAfterPublish(c, a) ==
    /\ Ends(c, a)
    /\ temp' = IF c \in published THEN temp \ {c} ELSE temp
    /\ UNCHANGED stuck

\* A call fails: it removes its temporary file on the way out, of which the
\* removal may fail too, and the rich profile does not remove it at all.
EndsClean(c, a) ==
    /\ Ends(c, a)
    /\ \/ c \notin rich /\ temp' = temp \ {c} /\ UNCHANGED stuck
       \/ c \notin rich /\ temp' = temp \cup {c} /\ stuck' = stuck \cup {c}
       \/ c \in rich /\ temp' \in {temp, temp \cup {c}} /\ UNCHANGED stuck

LedgerKeyOf(c) == <<IF c \in Sets THEN "set" ELSE "recalculate", key[c]>>
Keyed(c) == c \in FormulaCall /\ key[c] # None
EntryOf(c) == ledger[LedgerKeyOf(c)]

\* The payload a key is bound to: of what differs between retries, the
\* expected revision.
SamePayload(c) == EntryOf(c).payload = revision[c]

SetEntry(c, state) ==
    ledger' = [ledger EXCEPT ![LedgerKeyOf(c)] =
                  [state |-> state, payload |-> revision[c]]]

\* ledger.succeed, fail_known and mark_unknown; without an entry of this
\* payload they raise, which is swallowed.
Record(c, state) ==
    IF Keyed(c) /\ EntryOf(c).state # "absent" /\ SamePayload(c)
    THEN SetEntry(c, state)
    ELSE UNCHANGED ledger

-----------------------------------------------------------------------------
(* A call is made.                                                         *)

\* Another application creates the file; it knows nothing of the lock.
ForeignCreate ==
    /\ file = NoFile
    /\ file' = {Foreign}
    /\ UNCHANGED <<lock, temp, at, revision, base, rich, key, ledger, answer, published, stuck>>

MayCall(c) ==
    at[c] = "idle" /\ Cardinality({d \in Call : at[d] # "idle"}) < MaxCalls

\* A session is bound and preflighted, a formula view is bound: the revision
\* of the file is the one the write expects.  A formula call may name none,
\* and _rich_preflight never notes one.
Open(c) ==
    /\ MayCall(c)
    /\ c \notin FormulaCall
    /\ (c \in Creates) <=> (file = NoFile)
    /\ rich' \in {rich, rich \cup {c}}
    /\ revision' = [revision EXCEPT ![c] = IF c \in rich' THEN NoFile ELSE file]
    /\ GoTo(c, "opened")
    /\ UNCHANGED <<file, lock, temp, base, key, ledger, answer, published, stuck>>

OpenFormula(c) ==
    /\ MayCall(c)
    /\ c \in FormulaCall
    /\ file # NoFile
    /\ \E expected \in {file, NoFile} : revision' = [revision EXCEPT ![c] = expected]
    /\ \E k \in Key \cup {None} : key' = [key EXCEPT ![c] = k]
    /\ GoTo(c, "opened")
    /\ UNCHANGED <<file, lock, temp, base, rich, ledger, answer, published, stuck>>

\* The target is not what the call needs: it is refused before anything else.
OpenRefused(c) ==
    /\ MayCall(c)
    /\ (c \in Creates) <=> (file # NoFile)
    /\ Ends(c, "rejected")
    /\ UNCHANGED <<file, temp, revision, base, rich, key, ledger, published, stuck>>

-----------------------------------------------------------------------------
(* The lock, and what is read under it.                                    *)

\* The session's write validates against the file before it locks.
PreflightStale(c) == c \in Creates \cup Commits /\ c \notin rich /\ file # revision[c]

\* A variant: the lock is shared.
LockShared(c) ==
    /\ at[c] = "opened"
    /\ c \notin Recalcs
    /\ ~ PreflightStale(c)
    /\ lock' = c
    /\ GoTo(c, "locked")
    /\ UNCHANGED <<file, temp, revision, base, rich, key, ledger, answer, published, stuck>>

Lock(c) ==
    /\ at[c] = "opened"
    /\ c \notin Recalcs
    /\ ~ PreflightStale(c)
    /\ lock = None
    /\ lock' = c
    /\ GoTo(c, "locked")
    /\ UNCHANGED <<file, temp, revision, base, rich, key, ledger, answer, published, stuck>>

\* The revision is stale, or a change cannot be applied.
RefusedBeforeLock(c) ==
    /\ at[c] = "opened"
    /\ c \in Creates \cup Commits
    /\ Ends(c, "rejected")
    /\ UNCHANGED <<file, temp, revision, base, rich, key, ledger, published, stuck>>

\* _build under the lock: the revision is compared again.
Build(c) ==
    /\ at[c] = "locked"
    /\ c \in Creates \cup Commits
    /\ \/ /\ PreflightStale(c)
          /\ Ends(c, "rejected")
          /\ UNCHANGED base
       \/ /\ ~ PreflightStale(c)
          /\ base' = [base EXCEPT ![c] = IF c \in Creates THEN NoFile ELSE file]
          /\ GoTo(c, "built")
          /\ UNCHANGED <<lock, answer>>
    /\ UNCHANGED <<file, temp, revision, rich, key, ledger, published, stuck>>

\* A formula set reads the file under the lock, a recalculation without it.
MayRead(c) ==
    \/ c \in Sets /\ at[c] = "locked"
    \/ c \in Recalcs /\ at[c] = "opened"

ReadFile(c) ==
    /\ MayRead(c)
    /\ base' = [base EXCEPT ![c] = file]
    /\ GoTo(c, "read")
    /\ UNCHANGED <<file, lock, temp, revision, rich, key, ledger, answer, published, stuck>>

\* The lock cannot be opened, the file cannot be read or is over a limit of
\* this request: a set marks its key failed although it never began it.
ReadFails(c) ==
    /\ c \in FormulaCall
    /\ at[c] \in {"opened", "locked"}
    /\ IF c \in Sets THEN Record(c, "failed") ELSE UNCHANGED ledger
    /\ Ends(c, "failed")
    /\ UNCHANGED <<file, temp, revision, base, rich, key, published, stuck>>

-----------------------------------------------------------------------------
(* The ledger of idempotency keys.                                         *)

Stale(c) == revision[c] # NoFile /\ revision[c] # base[c]

\* A variant: an unknown outcome may be retried too.
MayBeginAgain(c) ==
    \/ EntryOf(c).state = "absent"
    \/ EntryOf(c).state \in {"failed", "unknown"} /\ SamePayload(c)

\* The key is new, or a known failure of the same payload may be retried.
MayBegin(c) ==
    \/ EntryOf(c).state = "absent"
    \/ EntryOf(c).state = "failed" /\ SamePayload(c)

\* ledger.begin.  A recalculation compares the revision before it, a set after.
Begin(c) ==
    /\ at[c] = "read"
    /\ ~ Stale(c)
    /\ IF Keyed(c) THEN MayBegin(c) /\ SetEntry(c, "in_flight") ELSE UNCHANGED ledger
    /\ GoTo(c, "built")
    /\ UNCHANGED <<file, lock, temp, revision, base, rich, key, answer, published, stuck>>

\* The ledger answers for the call: a conflict, a replay or a refusal.
Answered(c) ==
    /\ at[c] = "read"
    /\ Keyed(c) /\ ~ MayBegin(c)
    /\ c \in Recalcs => ~ Stale(c)
    /\ CASE ~ SamePayload(c) -> Ends(c, "rejected")
         [] SamePayload(c) /\ EntryOf(c).state = "succeeded" -> Ends(c, "replayed")
         [] SamePayload(c) /\ EntryOf(c).state = "unknown" -> Ends(c, "unknown")
         [] OTHER -> Ends(c, "rejected")
    /\ UNCHANGED <<file, temp, revision, base, rich, key, ledger, published, stuck>>

StaleRevision(c) ==
    /\ at[c] = "read"
    /\ Stale(c)
    /\ IF c \in Sets /\ Keyed(c)
       THEN MayBegin(c) /\ SetEntry(c, "failed")
       ELSE UNCHANGED ledger
    /\ Ends(c, "rejected")
    /\ UNCHANGED <<file, temp, revision, base, rich, key, published, stuck>>

-----------------------------------------------------------------------------
(* Staging and publication.                                                *)

Stage(c) ==
    /\ at[c] = "built"
    /\ temp' = temp \cup {c}
    /\ GoTo(c, "staged")
    /\ UNCHANGED <<file, lock, revision, base, rich, key, ledger, answer, published, stuck>>

\* A change cannot be applied or saved, or the staged bytes do not verify.
StageFails(c) ==
    /\ at[c] \in {"built", "staged"}
    /\ EndsClean(c, "failed")
    /\ Record(c, "failed")
    /\ UNCHANGED <<file, revision, base, rich, key, published>>

\* A session's write of an existing file looks at the revision once more.
Compare(c) ==
    /\ at[c] = "staged"
    /\ \/ c \in FormulaCall \cup Creates
       \/ c \in Commits /\ file = revision[c]
    /\ GoTo(c, "ready")
    /\ UNCHANGED <<file, lock, temp, revision, base, rich, key, ledger, answer, published, stuck>>

CompareStale(c) ==
    /\ at[c] = "staged"
    /\ c \in Commits /\ file # revision[c]
    /\ EndsClean(c, "failed")
    /\ UNCHANGED <<file, revision, base, rich, key, ledger, published>>

\* os.replace: the temporary file becomes the file.
Replace(c) ==
    /\ at[c] = "ready"
    /\ c \notin Creates
    /\ file' = base[c] \cup {c}
    /\ temp' = temp \ {c}
    /\ published' = published \cup {c}
    /\ GoTo(c, "published")
    /\ UNCHANGED <<lock, revision, base, rich, key, ledger, answer, stuck>>

\* A variant: os.replace for a new file as well.
LinkReplaces(c) ==
    /\ at[c] = "ready"
    /\ c \in Creates
    /\ file' = {c}
    /\ published' = published \cup {c}
    /\ GoTo(c, "published")
    /\ UNCHANGED <<lock, temp, revision, base, rich, key, ledger, answer, stuck>>

\* os.link: the file appears under a second name, or exists already.
Link(c) ==
    /\ at[c] = "ready"
    /\ c \in Creates
    /\ file = NoFile
    /\ file' = {c}
    /\ published' = published \cup {c}
    /\ GoTo(c, "published")
    /\ UNCHANGED <<lock, temp, revision, base, rich, key, ledger, answer, stuck>>

LinkRefused(c) ==
    /\ at[c] = "ready"
    /\ c \in Creates
    /\ file # NoFile
    /\ EndsClean(c, "failed")
    /\ UNCHANGED <<file, revision, base, rich, key, ledger, published>>

\* The system call fails.
PublishFails(c) ==
    /\ at[c] = "ready"
    /\ EndsClean(c, "failed")
    /\ Record(c, "failed")
    /\ UNCHANGED <<file, revision, base, rich, key, published>>

\* A recalculation that changes nothing publishes nothing.
NothingToPublish(c) ==
    /\ at[c] = "built"
    /\ c \in Recalcs
    /\ GoTo(c, "published")
    /\ UNCHANGED <<file, lock, temp, revision, base, rich, key, ledger, answer, published, stuck>>

-----------------------------------------------------------------------------
(* After the publication.                                                  *)

\* A session's write removes its staging name, if it still has one, and returns
\* its receipt.
SessionReturns(c) ==
    /\ at[c] = "published"
    /\ c \in Creates \cup Commits
    /\ temp' = IF c \in rich THEN temp ELSE temp \ {c}
    /\ Ends(c, "committed")
    /\ UNCHANGED <<file, revision, base, rich, key, ledger, published, stuck>>

\* The removal fails: an error is raised that says the write is committed, and
\* the removal is tried once more.
CleanupFails(c) ==
    /\ at[c] = "published"
    /\ c \in (Creates \cup Commits) \ rich
    /\ \/ temp' = temp \ {c} /\ UNCHANGED stuck
       \/ stuck' = stuck \cup {c} /\ UNCHANGED temp
    /\ Ends(c, "uncleaned")
    /\ UNCHANGED <<file, revision, base, rich, key, ledger, published>>

\* The published file is read again: a set compares its formulas.
Readback(c) ==
    /\ at[c] = "published"
    /\ c \in FormulaCall
    /\ \/ /\ c \in Recalcs \cup file
          /\ Record(c, "succeeded")
          /\ Ends(c, "committed")
       \/ /\ c \in Sets \ file
          /\ Record(c, "unknown")
          /\ Ends(c, "mismatch")
    /\ UNCHANGED <<file, temp, revision, base, rich, key, published, stuck>>

\* A variant: every failure is reported as one before the publication.
ReadbackFailsKnown(c) ==
    /\ at[c] = "published"
    /\ c \in FormulaCall
    /\ Record(c, "failed")
    /\ Ends(c, "failed")
    /\ UNCHANGED <<file, temp, revision, base, rich, key, published, stuck>>

\* The directory cannot be flushed or the file not be read after the
\* publication: the outcome is unknown, unless nothing had been published.
ReadbackFails(c) ==
    /\ at[c] = "published"
    /\ c \in FormulaCall
    /\ \/ c \in published /\ Record(c, "unknown") /\ Ends(c, "unknown")
       \/ c \notin published /\ Record(c, "failed") /\ Ends(c, "failed")
    /\ UNCHANGED <<file, temp, revision, base, rich, key, published, stuck>>

-----------------------------------------------------------------------------

\* What a call does when nothing fails ...
Advance(c) ==
    \/ Lock(c) \/ (PreflightStale(c) /\ RefusedBeforeLock(c)) \/ Build(c)
    \/ ReadFile(c) \/ Begin(c) \/ Answered(c) \/ StaleRevision(c)
    \/ Stage(c) \/ Compare(c) \/ CompareStale(c)
    \/ Replace(c) \/ Link(c) \/ LinkRefused(c)
    \/ SessionReturns(c) \/ Readback(c)

\* ... and what it may do besides.
Step(c) ==
    \/ Advance(c)
    \/ RefusedBeforeLock(c) \/ ReadFails(c) \/ StageFails(c)
    \/ PublishFails(c) \/ NothingToPublish(c) \/ CleanupFails(c) \/ ReadbackFails(c)

Next ==
    \/ \E c \in Call : Open(c) \/ OpenFormula(c) \/ OpenRefused(c) \/ Step(c)
    \/ ForeignCreate

Spec == Init /\ [][Next]_vars

\* A call that was made goes on, without waiting for a failure to end it.  Each
\* takes the lock once, so the lock need not be fair.
FairSpec == Spec /\ \A c \in Call : WF_vars(Advance(c))

-----------------------------------------------------------------------------
(* Properties.                                                             *)

Recalculated == Recalcs \cap published # {}

\* No save loses an edit: whatever the file held, edits of other calls or what
\* another application created it with, it goes on holding, until a
\* recalculation is published.
NoEditIsLost ==
    [][~ Recalculated' => file \subseteq file']_vars

\* A call that answered that nothing was committed published nothing, and one
\* that answered committed, or replays a commit, did.
AnswersAreTrue ==
    \A c \in Call :
        /\ answer[c] \in {"rejected", "failed"} => c \notin published
        /\ answer[c] \in {"committed", "uncleaned"} /\ c \notin Recalcs => c \in published
        /\ answer[c] = "replayed" /\ c \in Sets =>
               \E q \in published : Keyed(q) /\ LedgerKeyOf(q) = LedgerKeyOf(c)

\* A call that names a revision publishes only over that revision, whoever else
\* saves in between (the enforcement capability details call atomic), until a
\* recalculation is published.
RevisionIsEnforced ==
    [][~ Recalculated' => \A c \in Call :
        c \in published' \ published /\ revision[c] # NoFile => file = revision[c]]_vars

\* "Lost acknowledgement never causes a blind repeat" (the same document, :582):
\* one idempotency key never publishes twice, however often it is retried.
NoBlindRepeat ==
    \A c, q \in published :
        Keyed(c) /\ Keyed(q) /\ LedgerKeyOf(c) = LedgerKeyOf(q) => c = q

\* The same, as long as no set fails before it looks into the ledger.
FailedEarly(c) == c \in Sets /\ answer[c] = "failed" /\ base[c] = NoFile
NoRepeatUnlessFailedEarly == (\A c \in Sets : ~ FailedEarly(c)) => NoBlindRepeat

\* A call that has answered leaves a temporary file beside the workbook only if
\* its own removal of it failed, and then it answered with an error; the rich
\* profile removes none.
NoStagingLeft ==
    \A c \in temp \ rich :
        at[c] = "done" => c \in stuck /\ answer[c] \in {"failed", "uncleaned"}

\* However they interleave, there comes a time when every call that was made has
\* answered: none waits for the lock for ever.
CallsEnd == []<>(\A c \in Call : at[c] \in {"idle", "done"})

\* What a call answers is what became of the file, and a set is repeated only
\* where an early failure has released its key (excel_formula.py set_grid,
\* spreadsheet_workbook.py write).
AnsweredOnce == AnswersAreTrue /\ NoRepeatUnlessFailedEarly

\* No edit disappears and no revision is passed over, except by a recalculation
\* (spreadsheet_workbook.py _publish, excel_formula.py set_grid).
EditsStay == NoEditIsLost /\ RevisionIsEnforced
=============================================================================
