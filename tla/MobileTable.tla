----------------------------- MODULE MobileTable -----------------------------
(***************************************************************************)
(* The mobile table: the TypeScript controller that loads pages, keeps     *)
(* drafts and saves single records (clients/mobile-table/core), over the   *)
(* HTTP adapter and SDK host (packages/mobile_table) and a table that      *)
(* other writers change.  Every await of the controller is a point where   *)
(* the user, the table and the other requests may act.                     *)
(*                                                                         *)
(* A revision is the number of the table's last change.  The SDK host      *)
(* labels every row it reads with the revision of the table it resolved,   *)
(* so a row's revision is "not changed after".  The record updater behind  *)
(* Table.update_record is external: it refuses a record changed after the  *)
(* expected revision and answers a known idempotency key from its ledger.  *)
(*                                                                         *)
(* Left out: rendering and column widths, values that validateFieldValue   *)
(* refuses (they are never sent), and listeners that throw.                *)
(***************************************************************************)
EXTENDS Naturals, FiniteSets

CONSTANTS
    Records,       \* record ids
    PageOf,        \* the page, 1 or 2, each record is served on
    Fields,        \* the editable fields of every record
    Values,        \* the values a field can hold in the table
    MaxCalls,      \* bound on load, refresh and loadMore calls in progress
    None,          \* absent
    Undefined,     \* a draft key that is left with the value undefined
    MaxLoads,      \* bound on load() calls (the renderers load once, then refresh)
    MaxRefreshes,  \* bound on refresh() calls
    MaxEdits,      \* bound on beginEdit() calls
    MaxSaves,      \* bound on update requests
    MaxForeign     \* bound on changes by other writers

ASSUME PagesAssumption == PageOf \in [Records -> {1, 2}]
ASSUME ValuesAssumption == Values # {}
ASSUME BoundsAssumption ==
    /\ MaxCalls \in Nat /\ MaxLoads \in Nat /\ MaxRefreshes \in Nat
    /\ MaxEdits \in Nat /\ MaxSaves \in Nat /\ MaxForeign \in Nat

VARIABLES
    table,       \* record -> its values and the revision of its last change
    tableRev,    \* the table's revision
    ledger,      \* idempotency key -> what the updater executed under it
    foreign,     \* changes made by other writers
    supported,   \* the connector offers record updates and stable ids
    phase, caps, rows, token, sourceRev, drafts, mutation,  \* controller.state
    generation,  \* refresh() calls so far
    activeRead,  \* the call whose operation is the active read
    calls,       \* the calls in progress
    update,      \* the update request in flight
    loads,       \* history: load() calls that started a read
    edits,       \* history: beginEdit() calls so far
    keys,        \* idempotency keys made so far
    saves,       \* history: update requests sent
    commits,     \* history: edit -> how often the updater executed it
    touched      \* history: an update's answer changed rows or sourceRev since
                 \*   the last first page

server == <<table, tableRev, ledger, foreign, supported>>
state == <<phase, caps, rows, token, sourceRev, drafts, mutation>>
reads == <<generation, activeRead, calls>>
history == <<loads, edits, keys, saves, commits, touched>>
vars == <<server, state, reads, update, history>>

Calls == 1..MaxCalls
Contents == [Fields -> Values]
Revisions == 0..(MaxForeign + MaxSaves)
Row == [rev : Revisions, vals : Contents, gen : 0..MaxRefreshes]
Draft == [base : Contents, vals : Contents, changed : SUBSET Fields,
          key : 0..MaxSaves, edit : 1..MaxEdits, reread : BOOLEAN]

\* An update request and its answer: the fields it changes, their values when
\* the draft was taken, and the revisions that were shown.
Shown == [rev : Revisions, vals : Contents]
Patch == UNION {[fs -> Values] : fs \in SUBSET Fields}
Update == [rec : Records, key : 1..MaxSaves, edit : 1..MaxEdits,
           patch : Patch, base : Patch, reread : BOOLEAN,
           tableRev : Revisions, rowRev : Revisions,
           answer : {"none", "saved", "unverified", "unknown", "refused", "stale"},
           current : Shown \union {None}]

ASSUME NoneAssumption ==
    /\ None \notin Nat \union Draft \union Update \union Shown
    /\ Undefined \notin Draft
    /\ None # Undefined

IsDraft(d) == d \notin {None, Undefined}

Idle == [kind |-> "none", gen |-> 0, pc |-> "idle", prior |-> None,
         tries |-> 0, label |-> 0, page |-> <<>>]

RecordsOn(p) == {r \in Records : PageOf[r] = p}
NoRows == [r \in Records |-> None]
Busy == {"loading", "refreshing", "loading_more"}

-----------------------------------------------------------------------------
(***************************************************************************)
(* Reads.                                                                  *)
(***************************************************************************)

canEdit == caps = "editable"
Settled == IF canEdit THEN "ready" ELSE "read_only"

\* The calls that wait for c, in the order they were made, resume in the same
\* turn; the last of them becomes the active read, and the finally blocks
\* before them clear it only while it is still their own.
\* A variant: nobody waits for an earlier read to end.
NobodyResumes(c) == {}
Waiters(c) == {w \in Calls : calls[w].pc = "waiting" /\ calls[w].prior = c}
LastWaiter(c) == CHOOSE w \in Waiters(c) :
                   \A v \in Waiters(c) : calls[v].gen <= calls[w].gen
Finish(c) ==
    /\ calls' = [d \in Calls |->
                   IF d = c THEN Idle
                   ELSE IF d \in Waiters(c)
                     THEN [calls[d] EXCEPT !.pc = "caps", !.prior = None]
                   ELSE calls[d]]
    /\ activeRead' = IF Waiters(c) # {} THEN LastWaiter(c)
                     ELSE IF activeRead = c THEN None ELSE activeRead
Advance(c, pc) ==
    /\ calls' = [calls EXCEPT ![c].pc = pc]
    /\ UNCHANGED activeRead

\* A new call takes the first free slot.
Free(c) == /\ calls[c].pc = "idle"
           /\ \A d \in 1..(c - 1) : calls[d].pc # "idle"
Start(c, kind, gen, pc, prior) ==
    calls' = [calls EXCEPT ![c] = [Idle EXCEPT !.kind = kind, !.gen = gen,
                                               !.pc = pc, !.prior = prior]]

\* load(): joins the active read when there is one (a step that changes nothing).
load(c) ==
    /\ Free(c) /\ activeRead = None /\ loads < MaxLoads
    /\ loads' = loads + 1
    /\ phase' = "loading"
    /\ Start(c, "load", generation, "caps", None)
    /\ activeRead' = c
    /\ UNCHANGED <<server, caps, rows, token, sourceRev, drafts, mutation,
                   generation, update, edits, keys, saves, commits, touched>>

\* refresh(): invalidates what is shown, then waits for the active read.
refresh(c) ==
    /\ Free(c) /\ generation < MaxRefreshes
    /\ generation' = generation + 1
    /\ phase' = "refreshing"
    /\ rows' = NoRows
    /\ token' = None
    /\ sourceRev' = None
    /\ \/ /\ activeRead = None
          /\ Start(c, "load", generation + 1, "caps", None)
          /\ activeRead' = c
       \/ /\ activeRead # None
          /\ Start(c, "load", generation + 1, "waiting", activeRead)
          /\ UNCHANGED activeRead
    /\ UNCHANGED <<server, caps, drafts, mutation, update, history>>

\* loadMore(): nothing while a read is active or when there is no next page.
loadMore(c) ==
    /\ Free(c) /\ activeRead = None /\ token # None
    /\ phase' = "loading_more"
    /\ Start(c, "more", generation, "read", None)
    /\ activeRead' = c
    /\ UNCHANGED <<server, caps, rows, token, sourceRev, drafts, mutation,
                   generation, update, history>>

Current(c) == calls[c].gen = generation

\* loadGeneration: the answers to capabilities and inspect, and what follows.
CapabilitiesAnswer(c) ==
    /\ calls[c].pc = "caps"
    /\ IF Current(c) THEN Advance(c, "inspect") ELSE Finish(c)
    /\ UNCHANGED <<server, state, generation, update, history>>

\* SdkMobileTableHost.capabilities, as canEdit reads it.
Advertised == IF supported THEN "editable" ELSE "read_only"

InspectAnswer(c) ==
    /\ calls[c].pc = "inspect"
    /\ \/ /\ ~Current(c)
          /\ Finish(c)
          /\ UNCHANGED <<phase, caps>>
       \/ /\ Current(c)
          /\ Advance(c, "read")
          /\ caps' = Advertised
          /\ phase' = "loading"
    /\ UNCHANGED <<server, rows, token, sourceRev, drafts, mutation, generation,
                   update, history>>

\* A failed capabilities, inspect or second read request: the current generation
\* shows the error, an older one says nothing.
Throw(c) ==
    /\ Finish(c)
    /\ phase' = IF Current(c) THEN "error" ELSE phase

LoadFails(c) ==
    /\ calls[c].pc \in {"caps", "inspect"}
    /\ Throw(c)
    /\ UNCHANGED <<server, caps, rows, token, sourceRev, drafts, mutation,
                   generation, update, history>>

\* readPage: a failed read is repeated once.
ReadFails(c) ==
    /\ calls[c].pc \in {"read", "bound", "answered"}
    /\ \/ /\ calls[c].tries = 0
          /\ calls' = [calls EXCEPT ![c].tries = 1, ![c].pc = "read",
                                    ![c].label = 0, ![c].page = <<>>]
          /\ UNCHANGED <<activeRead, phase>>
       \/ /\ calls[c].tries = 1
          /\ Throw(c)
    /\ UNCHANGED <<server, caps, rows, token, sourceRev, drafts, mutation,
                   generation, update, history>>

\* SdkMobileTableHost.read: the table is resolved, and its revision is the
\* revision of every row; the rows are read after that.
ResolveTable(c) ==
    /\ calls[c].pc = "read"
    /\ calls' = [calls EXCEPT ![c].pc = "bound", ![c].label = tableRev]
    /\ UNCHANGED <<server, state, generation, activeRead, update, history>>

ReadRows(c) ==
    /\ calls[c].pc = "bound"
    /\ LET p == IF calls[c].kind = "more" THEN 2 ELSE 1
       IN calls' = [calls EXCEPT ![c].pc = "answered",
                      ![c].page = [r \in RecordsOn(p) |-> table[r].vals]]
    /\ UNCHANGED <<server, state, generation, activeRead, update, history>>

\* readPage after its await: an answer for an older generation is dropped, a
\* next page of another revision is refused.
\* A variant: answers of an older generation are applied.
LateAnswersApply(c) == FALSE
StalePage(c) == ~Current(c)
\* A variant: the next page is appended whatever its revision.
AnyRevisionAppends(c) == FALSE
ChangedSincePage(c) == calls[c].kind = "more" /\ calls[c].label # sourceRev

WithPage(c) ==
    [r \in Records |->
        IF r \in DOMAIN calls[c].page
        THEN [rev |-> calls[c].label, vals |-> calls[c].page[r], gen |-> calls[c].gen]
        ELSE IF calls[c].kind = "more" THEN rows[r] ELSE None]

Reread(d, r, shown) ==
    IF IsDraft(d) /\ r \in shown THEN [d EXCEPT !.reread = TRUE] ELSE d

ReadAnswer(c) ==
    /\ calls[c].pc = "answered"
    /\ Finish(c)
    /\ \/ /\ StalePage(c)
          /\ UNCHANGED <<phase, rows, token, sourceRev, drafts, touched>>
       \/ /\ ~StalePage(c) /\ ChangedSincePage(c)
          /\ phase' = "error"
          /\ UNCHANGED <<rows, token, sourceRev, drafts, touched>>
       \/ /\ ~StalePage(c) /\ ~ChangedSincePage(c)
          /\ phase' = Settled
          /\ rows' = WithPage(c)
          /\ token' = IF calls[c].kind = "more" \/ RecordsOn(2) = {} THEN None ELSE 2
          /\ sourceRev' = calls[c].label
          /\ drafts' = [r \in Records |-> Reread(drafts[r], r, DOMAIN calls[c].page)]
          /\ touched' = (touched /\ calls[c].kind = "more")
    /\ UNCHANGED <<server, caps, mutation, generation, update,
                   loads, edits, keys, saves, commits>>

-----------------------------------------------------------------------------
(***************************************************************************)
(* Edits.                                                                  *)
(***************************************************************************)

beginEdit(r) ==
    /\ canEdit /\ rows[r] # None /\ edits < MaxEdits
    /\ edits' = edits + 1
    /\ drafts' = [drafts EXCEPT ![r] =
                    [base |-> rows[r].vals, vals |-> rows[r].vals, changed |-> {},
                     key |-> 0, edit |-> edits + 1, reread |-> FALSE]]
    /\ mutation' = [mutation EXCEPT ![r] = "idle"]
    /\ UNCHANGED <<server, phase, caps, rows, token, sourceRev, reads, update,
                   loads, keys, saves, commits, touched>>

setDraftField(r, f, v) ==
    /\ IsDraft(drafts[r])
    /\ drafts' = [drafts EXCEPT
                    ![r].vals[f] = v,
                    ![r].changed = IF v = drafts[r].base[f] THEN @ \ {f} ELSE @ \union {f}]
    /\ UNCHANGED <<server, phase, caps, rows, token, sourceRev, mutation, reads,
                   update, history>>

cancel(r) ==
    /\ drafts[r] # None
    /\ drafts' = [drafts EXCEPT ![r] = None]
    /\ mutation' = [mutation EXCEPT ![r] = "idle"]
    /\ UNCHANGED <<server, phase, caps, rows, token, sourceRev, reads, update, history>>

\* The idempotency key of a draft: made by its first save, kept by the draft.
NoKey == 0
\* A variant: every save makes a new key.
NewKeyEverySave(d) == keys + 1
KeyOf(d) == IF d.key # NoKey THEN d.key ELSE keys + 1

\* save() and retry() up to the await of transport.update.  The changed fields
\* go out with the revision of the row as it is shown now.
save(r) ==
    LET d == drafts[r]
    IN /\ update = None /\ saves < MaxSaves
       /\ IsDraft(d) /\ rows[r] # None
       /\ d.changed # {}
       /\ saves' = saves + 1
       /\ keys' = IF KeyOf(d) > keys THEN KeyOf(d) ELSE keys
       /\ drafts' = [drafts EXCEPT ![r].key = KeyOf(d)]
       /\ mutation' = [mutation EXCEPT ![r] = "saving"]
       /\ update' = [rec |-> r, key |-> KeyOf(d), edit |-> d.edit,
                     patch |-> [f \in d.changed |-> d.vals[f]],
                     base |-> [f \in d.changed |-> d.base[f]],
                     reread |-> d.reread,
                     tableRev |-> sourceRev, rowRev |-> rows[r].rev,
                     answer |-> "none", current |-> None]
       /\ UNCHANGED <<server, phase, caps, rows, token, sourceRev, reads, loads, edits,
                      commits, touched>>

\* The updater, reached through MobileTableAdapter._update and Table.update_record.
Patched(r, patch) ==
    [f \in Fields |-> IF f \in DOMAIN patch THEN patch[f] ELSE table[r].vals[f]]
Snapshot(r) == [rev |-> tableRev, vals |-> table[r].vals]
Known == update.key \in DOMAIN ledger
SameRequest == /\ ledger[update.key].rec = update.rec
               /\ ledger[update.key].patch = update.patch
Stale == table[update.rec].at > update.rowRev
Answer(kind, current) ==
    update' = [update EXCEPT !.answer = kind, !.current = current]

UpdaterExecutes ==
    LET r == update.rec
        after == Patched(r, update.patch)
    IN /\ update # None /\ update.answer = "none"
       /\ ~Known /\ ~Stale
       /\ table' = [table EXCEPT ![r] = [vals |-> after, at |-> tableRev + 1]]
       /\ tableRev' = tableRev + 1
       /\ ledger' = [k \in DOMAIN ledger \union {update.key} |->
                       IF k = update.key
                       THEN [rec |-> r, patch |-> update.patch,
                             row |-> [rev |-> tableRev + 1, vals |-> after]]
                       ELSE ledger[k]]
       /\ commits' = [commits EXCEPT ![update.edit] = @ + 1]
       /\ \E kind \in {"saved", "unverified", "unknown"} :
            Answer(kind, [rev |-> tableRev + 1, vals |-> after])
       /\ UNCHANGED <<foreign, supported, state, reads, loads, edits, keys,
                      saves, touched>>

UpdaterAnswers ==
    /\ update # None /\ update.answer = "none"
    /\ \/ Known /\ SameRequest /\ Answer("saved", ledger[update.key].row)
       \/ Known /\ ~SameRequest /\ Answer("refused", None)
       \/ /\ ~Known
          /\ Stale \/ update.tableRev # tableRev
          /\ Answer("stale", Snapshot(update.rec))
       \/ ~Known /\ Answer("unknown", None)
    /\ UNCHANGED <<server, state, reads, history>>

\* save() after its await: applyUpdate, or the catch block when the transport
\* failed.  The adapter sends every result that carries an error as an error
\* envelope, so an unknown or partial outcome arrives as one too.
Replace(r, row) ==
    [rows EXCEPT ![r] = IF @ = None THEN None
                        ELSE [rev |-> row.rev, vals |-> row.vals, gen |-> generation]]
Settle(m) ==
    /\ mutation' = [mutation EXCEPT ![update.rec] = m]
    /\ update' = None

SaveAnswer ==
    /\ update # None /\ update.answer = "saved"
    /\ Settle("idle")
    /\ rows' = Replace(update.rec, update.current)
    /\ sourceRev' = update.current.rev
    /\ touched' = TRUE
    /\ drafts' = [drafts EXCEPT ![update.rec] = None]
    /\ UNCHANGED <<server, phase, caps, token, reads, loads, edits, keys, saves, commits>>

\* A variant: a conflict does not touch the draft.
KeepsOldBase(d, current) == d
\* A variant: a conflict puts the server's values into the draft.
TakesServerRow(d, current) ==
    [d EXCEPT !.base = current.vals, !.vals = current.vals, !.changed = {}]
Rebased(d, current) ==
    [d EXCEPT !.base = current.vals,
              !.changed = {f \in @ : d.vals[f] # current.vals[f]},
              !.reread = FALSE]

ConflictAnswer ==
    LET r == update.rec
    IN /\ update # None /\ update.answer = "stale"
       /\ Settle("conflict")
       /\ rows' = Replace(r, update.current)
       /\ sourceRev' = update.current.rev
       /\ touched' = TRUE
       /\ drafts' = [drafts EXCEPT ![r] = IF IsDraft(@) THEN Rebased(@, update.current)
                                          ELSE Undefined]
       /\ UNCHANGED <<server, phase, caps, token, reads, loads, edits, keys, saves, commits>>

ErrorAnswer ==
    LET r == update.rec
    IN /\ update # None /\ update.answer \in {"unverified", "unknown", "refused"}
       /\ Settle("error")
       /\ drafts' = IF IsDraft(drafts[r]) \/ update.answer = "unverified" THEN drafts
                    ELSE [drafts EXCEPT ![r] = Undefined]
       /\ UNCHANGED <<server, phase, caps, rows, token, sourceRev, reads, history>>

TransportFails ==
    /\ update # None
    /\ Settle("error")
    /\ UNCHANGED <<server, phase, caps, rows, token, sourceRev, drafts, reads, history>>

\* Another writer changes a record.
ForeignChange(r) ==
    /\ foreign < MaxForeign
    /\ foreign' = foreign + 1
    /\ tableRev' = tableRev + 1
    /\ \E c \in Contents \ {table[r].vals} :
         table' = [table EXCEPT ![r] = [vals |-> c, at |-> tableRev + 1]]
    /\ UNCHANGED <<ledger, supported, state, reads, update, history>>

-----------------------------------------------------------------------------
Init ==
    /\ table = [r \in Records |-> [vals |-> CHOOSE c \in Contents : TRUE, at |-> 0]]
    /\ tableRev = 0 /\ ledger = <<>> /\ foreign = 0
    /\ supported \in BOOLEAN
    /\ phase = "idle" /\ caps = None /\ rows = NoRows /\ token = None
    /\ sourceRev = None
    /\ drafts = [r \in Records |-> None]
    /\ mutation = [r \in Records |-> "idle"]
    /\ generation = 0 /\ activeRead = None
    /\ calls = [c \in Calls |-> Idle]
    /\ update = None
    /\ loads = 0 /\ edits = 0 /\ keys = 0 /\ saves = 0
    /\ commits = [e \in 1..MaxEdits |-> 0]
    /\ touched = FALSE

CallStep(c) ==
    \/ CapabilitiesAnswer(c) \/ InspectAnswer(c) \/ LoadFails(c)
    \/ ResolveTable(c) \/ ReadRows(c) \/ ReadAnswer(c) \/ ReadFails(c)
UpdateStep ==
    \/ UpdaterExecutes \/ UpdaterAnswers
    \/ SaveAnswer \/ ConflictAnswer \/ ErrorAnswer \/ TransportFails
UserStep ==
    \/ \E c \in Calls : load(c) \/ refresh(c) \/ loadMore(c)
    \/ \E r \in Records :
         \/ beginEdit(r) \/ cancel(r) \/ save(r)
         \/ \E f \in Fields, v \in Values : setDraftField(r, f, v)

Next ==
    \/ UserStep
    \/ \E c \in Calls : CallStep(c)
    \/ UpdateStep
    \/ \E r \in Records : ForeignChange(r)

Spec == Init /\ [][Next]_vars

-----------------------------------------------------------------------------
(***************************************************************************)
(* Properties.                                                             *)
(***************************************************************************)

\* What a read has brought: nothing yet, or a page.
Page == {<<>>} \union UNION {[RecordsOn(p) -> Contents] : p \in {1, 2}}

CallRecord == [kind : {"none", "load", "more"}, gen : 0..MaxRefreshes,
               pc : {"idle", "waiting", "caps", "inspect", "read", "bound", "answered"},
               prior : Calls \union {None}, tries : {0, 1}, label : Revisions,
               page : Page]

\* The controller's state has its declared shape, a revision is known whenever
\* rows are shown (so no save can send an empty expected revision), a draft's
\* changed fields differ from its base, and "saving" is shown only while the
\* request is in flight.
TypeOK ==
    /\ table \in [Records -> [vals : Contents, at : Revisions]]
    /\ tableRev \in Revisions
    /\ phase \in Busy \union {"idle", "ready", "read_only", "error"}
    /\ caps \in {None, "editable", "read_only"}
    /\ \A r \in Records : rows[r] = None \/ rows[r] \in Row
    /\ token \in {None, 2}
    /\ sourceRev \in Revisions \union {None}
    /\ \A r \in Records : IsDraft(drafts[r]) => drafts[r] \in Draft
    /\ mutation \in [Records -> {"idle", "saving", "conflict", "error"}]
    /\ calls \in [Calls -> CallRecord]
    /\ activeRead \in Calls \union {None}
    /\ (\E r \in Records : rows[r] # None) => sourceRev # None
    /\ \A r \in Records : mutation[r] = "saving" => update # None /\ update.rec = r
    /\ \A r \in Records : IsDraft(drafts[r]) =>
         \A f \in drafts[r].changed : drafts[r].vals[f] # drafts[r].base[f]

\* A refresh hides everything read before it, for good: no row that is shown came
\* from a request made before the latest refresh(), however late its answer.
ReadsAreFresh ==
    \A r \in Records : rows[r] # None => rows[r].gen = generation

\* Pages of two revisions are never mixed: unless a save or a conflict has moved
\* the controller's revision, every row shown was read at that revision.
PagesAreNotMixed ==
    ~touched => \A r \in Records : rows[r] # None => rows[r].rev = sourceRev

\* A save that is executed replaces the values its draft started from: no edit
\* overwrites a change its user has not been shown, unless the table was read
\* again while the draft was open (the draft keeps its old base then).
Executed == commits' # commits
SavesReplaceWhatWasEdited ==
    [][Executed /\ ~update.reread =>
         \A f \in DOMAIN update.patch : table[update.rec].vals[f] = update.base[f]]_vars

\* An edit is executed at most once, through failures, lost answers, refreshes,
\* and retries.
EditCommitsOnce == \A e \in DOMAIN commits : commits[e] <= 1

\* Nothing but cancel, a new edit and a verified save removes a draft: after a
\* conflict, an error or a lost answer the values the user typed are still there.
DraftSurvivesFailure ==
    [][\A r \in Records :
         IsDraft(drafts[r]) /\ mutation[r] = "saving" /\ mutation'[r] \in {"conflict", "error"}
           => IsDraft(drafts'[r]) /\ drafts'[r].vals = drafts[r].vals
              /\ drafts'[r].key = drafts[r].key]_vars

\* The table never shows a spinner nobody will stop: while it is loading, a call
\* of the current generation is at work, and a refresh that waits for an earlier
\* read waits for one that is still there.
SpinnerMeansWork ==
    /\ phase \in Busy => \E c \in Calls : calls[c].pc # "idle" /\ Current(c)
    /\ \A c \in Calls : calls[c].pc = "waiting" => calls[calls[c].prior].pc # "idle"

\* Every row on display is of the newest read and of one revision
\* (controller.ts refresh, loadMore).
RowsAreFresh == ReadsAreFresh /\ PagesAreNotMixed

\* A save replaces the values its draft was taken from, and a draft outlives a
\* failed save (controller.ts save, applyConflict).
EditsAreKept == SavesReplaceWhatWasEdited /\ DraftSurvivesFailure
=============================================================================
