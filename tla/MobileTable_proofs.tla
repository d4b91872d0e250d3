-------------------------- MODULE MobileTable_proofs --------------------------
(***************************************************************************)
(* The safety of MobileTable for any records, pages, values and bounds.    *)
(***************************************************************************)
EXTENDS MobileTable, FiniteSetTheorems, TLAPS

USE PagesAssumption, ValuesAssumption, BoundsAssumption, NoneAssumption

(* The types the handlers rely on.                                         *)
Counters ==
  /\ foreign \in 0..MaxForeign
  /\ saves \in 0..MaxSaves
  /\ generation \in 0..MaxRefreshes
  /\ edits \in 0..MaxEdits
  /\ keys \in 0..saves
  /\ commits \in [1..MaxEdits -> Nat]

\* Every change of the table is another writer's or that of a request that is
\* no longer on its way.
Pending == IF update # None /\ update.answer = "none" THEN 1 ELSE 0
RevisionsCounted == tableRev + Pending <= foreign + saves

Requests ==
  /\ update \in Update \union {None}
  /\ update # None => update.key <= keys /\ update.edit <= edits
  /\ update # None => DOMAIN update.patch \subseteq DOMAIN update.base
  /\ update # None /\ update.answer \in {"saved", "stale"} => update.current # None
  /\ DOMAIN ledger \subseteq 1..keys
  /\ \A k \in DOMAIN ledger : ledger[k].rec \in Records /\ ledger[k].row \in Shown

Display ==
  /\ rows \in [Records -> Row \union {None}]
  /\ drafts \in [Records -> Draft \union {None, Undefined}]
  /\ \A r \in Records : IsDraft(drafts[r]) => drafts[r].edit <= edits /\ drafts[r].key <= keys

PageNo(c) == IF calls[c].kind = "more" THEN 2 ELSE 1
Pages ==
  \A c \in Calls : calls[c].pc = "answered" =>
    calls[c].page \in [RecordsOn(PageNo(c)) -> Contents]

TypeInv == TypeOK /\ Counters /\ RevisionsCounted /\ Requests /\ Display /\ Pages

-----------------------------------------------------------------------------
(* Reads: whoever is waited for is at work.                                *)
Work ==
  /\ SpinnerMeansWork
  /\ activeRead # None => calls[activeRead].pc # "idle"
  /\ \A c \in Calls : calls[c].pc = "waiting" => calls[c].prior \in Calls

-----------------------------------------------------------------------------
(* Edits: one key for an edit, in the ledger from its execution on.        *)
OneKey ==
  /\ \A r, q \in Records :
       IsDraft(drafts[r]) /\ IsDraft(drafts[q]) /\ r # q => drafts[r].edit # drafts[q].edit
  /\ update # None =>
       \A r \in Records : IsDraft(drafts[r]) /\ drafts[r].edit = update.edit =>
         drafts[r].key = update.key

ExecutedIsKnown ==
  \A e \in 1..MaxEdits : commits[e] # 0 =>
    /\ e <= edits
    /\ \A r \in Records : IsDraft(drafts[r]) /\ drafts[r].edit = e => drafts[r].key \in DOMAIN ledger
    /\ update # None /\ update.edit = e => update.key \in DOMAIN ledger

EditInv == EditCommitsOnce /\ OneKey /\ ExecutedIsKnown

-----------------------------------------------------------------------------
(* Revisions: a row labelled with a revision is the record of the table, if *)
(* the record was not changed after it.                                     *)
TrueAt(r, rev, vals) ==
  /\ rev <= tableRev
  /\ table[r].at <= rev => table[r].vals = vals

ChangesAreCounted == \A r \in Records : table[r].at <= tableRev
RowsAreTrue == \A r \in Records : rows[r] # None => TrueAt(r, rows[r].rev, rows[r].vals)
CallIsTrue(i) ==
  /\ i.label <= tableRev
  /\ i.pc = "answered" => \A r \in DOMAIN i.page : TrueAt(r, i.label, i.page[r])
CallsAreTrue == \A c \in Calls : CallIsTrue(calls[c])
LedgerIsTrue ==
  \A k \in DOMAIN ledger : TrueAt(ledger[k].rec, ledger[k].row.rev, ledger[k].row.vals)
UpdateIsTrue ==
  update # None =>
    /\ update.rowRev <= tableRev
    /\ update.current # None =>
         TrueAt(update.rec, update.current.rev, update.current.vals)
LabelsAreTrue ==
  ChangesAreCounted /\ RowsAreTrue /\ CallsAreTrue /\ LedgerIsTrue /\ UpdateIsTrue

\* A draft that was not read again, and a request made from one, start from the
\* row that is shown.
DraftsAreShown ==
  \A r \in Records : IsDraft(drafts[r]) /\ ~drafts[r].reread /\ rows[r] # None =>
    rows[r].vals = drafts[r].base
RequestIsShown ==
  update # None /\ ~update.reread /\ table[update.rec].at <= update.rowRev =>
    \A f \in DOMAIN update.patch : table[update.rec].vals[f] = update.base[f]
BasesAreShown == DraftsAreShown /\ RequestIsShown

Inv ==
  /\ TypeInv
  /\ RowsAreFresh /\ Work
  /\ EditInv
  /\ LabelsAreTrue /\ BasesAreShown

-----------------------------------------------------------------------------
(* A read that ends, and the calls that waited for it.                     *)

\* The fields of a call.
LEMMA CallFields ==
  ASSUME NEW x \in CallRecord
  PROVE  /\ x.gen \in 0..MaxRefreshes /\ x.label \in Revisions /\ x.prior \in Calls \union {None}
         /\ x.kind \in {"none", "load", "more"}
  BY DEF CallRecord

\* A call moves on to another answer.
LEMMA CallMoves ==
  ASSUME NEW x \in CallRecord, NEW y,
         NEW pc \in {"caps", "inspect", "read", "bound", "answered"}, y = [x EXCEPT !.pc = pc]
  PROVE  /\ y \in CallRecord /\ y.pc = pc /\ y.gen = x.gen /\ y.label = x.label
         /\ y.prior = x.prior /\ y.kind = x.kind /\ y.page = x.page
  BY DEF CallRecord

\* A waiting call starts its own read.
LEMMA WaiterMoves ==
  ASSUME NEW x \in CallRecord, NEW y, y = [x EXCEPT !.pc = "caps", !.prior = None]
  PROVE  y \in CallRecord /\ y.pc = "caps" /\ y.gen = x.gen /\ y.label = x.label
  BY DEF CallRecord

\* A slot nobody uses.
LEMMA IdleFields == /\ Idle \in CallRecord
                    /\ Idle.pc = "idle" /\ Idle.label = 0 /\ Idle.prior = None
  BY DEF Idle, CallRecord, Revisions, Page

\* Among numbers up to a bound there is a largest: the intervals that end at
\* the bound are well-founded by inclusion.
LEMMA Largest ==
  ASSUME NEW N \in Nat, NEW S \in SUBSET (0..N), S # {}
  PROVE  \E m \in S : \A n \in S : n <= m
<1> DEFINE T == {n..N : n \in S}
<1>1. T \subseteq FiniteSubsetsOf(0..N) /\ T # {}
  <2>1. \A n \in S : n..N \subseteq 0..N /\ IsFiniteSet(n..N)
    <3>1. ASSUME NEW n \in S PROVE n..N \subseteq 0..N /\ IsFiniteSet(n..N)
      BY FS_Interval
    <3>2. QED BY <3>1
  <2>2. QED BY <2>1 DEF FiniteSubsetsOf
<1>2. PICK x \in T : \A y \in T : ~(<<y, x>> \in StrictSubsetOrdering(0..N))
  BY <1>1, WFMin, FS_StrictSubsetOrderingWellFounded
<1>3. PICK m \in S : x = m..N
  BY DEF T
<1>4. ASSUME NEW n \in S, n > m PROVE FALSE
  <2>1. n..N \in T /\ n..N \subseteq m..N /\ m \in m..N /\ m \notin n..N
    BY <1>4
  <2>2. n..N \subseteq 0..N /\ m..N \subseteq 0..N
    OBVIOUS
  <2>3. <<n..N, x>> \in StrictSubsetOrdering(0..N)
    BY <1>3, <2>1, <2>2 DEF StrictSubsetOrdering
  <2>4. QED BY <1>2, <2>1, <2>3
<1>5. QED BY <1>4

\* The last of the waiting calls is one of them.
LEMMA LastWaits ==
  ASSUME calls \in [Calls -> CallRecord], NEW c \in Calls, Waiters(c) # {}
  PROVE  LastWaiter(c) \in Waiters(c)
<1> DEFINE S == {calls[w].gen : w \in Waiters(c)}
<1>1. S \in SUBSET (0..MaxRefreshes) /\ S # {}
  <2>1. ASSUME NEW w \in Waiters(c) PROVE calls[w].gen \in 0..MaxRefreshes
    <3>1. calls[w] \in CallRecord
      BY DEF Waiters
    <3>2. QED BY <3>1, CallFields
  <2>2. QED BY <2>1
<1>2. PICK m \in S : \A n \in S : n <= m
  BY <1>1, Largest
<1>3. PICK w \in Waiters(c) : calls[w].gen = m
  OBVIOUS
<1>4. \A v \in Waiters(c) : calls[v].gen <= calls[w].gen
  BY <1>2, <1>3
<1>5. QED BY <1>4 DEF LastWaiter

\* What the end of a read leaves of the calls.
LEMMA Finished ==
  ASSUME calls \in [Calls -> CallRecord], activeRead \in Calls \union {None},
         NEW c \in Calls, Finish(c)
  PROVE  /\ calls' \in [Calls -> CallRecord]
         /\ activeRead' \in Calls \union {None}
         /\ calls'[c] = Idle
         /\ \A d \in Calls : d # c =>
              \/ calls'[d] = calls[d] /\ d \notin Waiters(c)
              \/ d \in Waiters(c) /\ calls'[d] = [calls[d] EXCEPT !.pc = "caps", !.prior = None]
         /\ activeRead' # None =>
              \/ activeRead' \in Waiters(c)
              \/ activeRead' = activeRead /\ activeRead # c
<1>1. Waiters(c) \subseteq Calls
  BY DEF Waiters
<1>2. Waiters(c) # {} => LastWaiter(c) \in Waiters(c)
  BY LastWaits
<1>3. ASSUME NEW d \in Waiters(c) PROVE [calls[d] EXCEPT !.pc = "caps", !.prior = None] \in CallRecord
  BY <1>1, WaiterMoves
<1>4. calls' = [d \in Calls |->
                  IF d = c THEN Idle
                  ELSE IF d \in Waiters(c) THEN [calls[d] EXCEPT !.pc = "caps", !.prior = None]
                  ELSE calls[d]]
  BY DEF Finish
<1>5. calls' \in [Calls -> CallRecord]
  BY <1>3, <1>4, IdleFields
<1>6. /\ activeRead' \in Calls \union {None}
      /\ activeRead' # None =>
           \/ activeRead' \in Waiters(c)
           \/ activeRead' = activeRead /\ activeRead # c
  <2>1. activeRead' = IF Waiters(c) # {} THEN LastWaiter(c)
                      ELSE IF activeRead = c THEN None ELSE activeRead
    BY DEF Finish
  <2>2. QED BY <1>1, <1>2, <2>1
<1>7. QED BY <1>4, <1>5, <1>6

\* The same in the words of the invariants: the others keep their pages and their
\* generations, and stay at work.
LEMMA FinishedCalls ==
  ASSUME calls \in [Calls -> CallRecord], activeRead \in Calls \union {None},
         NEW c \in Calls, Finish(c)
  PROVE  /\ \A d \in Calls : calls'[d].label = calls[d].label \/ calls'[d].label = 0
         /\ \A d \in Calls : calls'[d].pc = "answered" =>
              /\ calls[d].pc = "answered" /\ calls'[d] = calls[d]
         /\ \A d \in Calls : d # c => 
              /\ calls'[d].gen = calls[d].gen
              /\ calls[d].pc # "idle" => calls'[d].pc # "idle"
         /\ \A d \in Calls : calls'[d].pc = "waiting" =>
              calls'[d] = calls[d] /\ calls[d].prior # c
<1>1. ASSUME NEW d \in Calls, d \in Waiters(c),
             calls'[d] = [calls[d] EXCEPT !.pc = "caps", !.prior = None]
      PROVE  calls'[d].pc = "caps" /\ calls'[d].gen = calls[d].gen /\ calls'[d].label = calls[d].label
  BY <1>1, WaiterMoves
<1>2. \A d \in Waiters(c) : calls[d].pc = "waiting" /\ calls[d].prior = c
  BY DEF Waiters
<1>3. \A d \in Calls : calls[d].pc = "waiting" /\ calls[d].prior = c => d \in Waiters(c)
  BY DEF Waiters
<1>4. QED BY <1>1, <1>2, <1>3, Finished, IdleFields

-----------------------------------------------------------------------------
(* Drafts and requests.                                                    *)

\* How the handlers change a draft.
LEMMA DraftFields ==
  ASSUME NEW d \in Draft
  PROVE  /\ IsDraft(d)
         /\ d.key \in 0..MaxSaves /\ d.edit \in 1..MaxEdits
         /\ d.base \in Contents /\ d.vals \in Contents /\ d.changed \in SUBSET Fields
         /\ d.reread \in BOOLEAN
  BY DEF Draft, IsDraft

\* A page that was read again is marked in the draft.
LEMMA DraftReread ==
  ASSUME NEW d \in Draft, NEW e, e = [d EXCEPT !.reread = TRUE]
  PROVE  /\ e \in Draft /\ e.key = d.key /\ e.edit = d.edit /\ e.base = d.base
         /\ e.vals = d.vals /\ e.changed = d.changed /\ e.reread
  BY DEF Draft

\* The first save gives the draft its key.
LEMMA DraftKeyed ==
  ASSUME NEW d \in Draft, NEW k \in 0..MaxSaves, NEW e, e = [d EXCEPT !.key = k]
  PROVE  /\ e \in Draft /\ e.key = k /\ e.edit = d.edit /\ e.base = d.base
         /\ e.vals = d.vals /\ e.changed = d.changed /\ e.reread = d.reread
  BY DEF Draft

\* A conflict gives the draft the server's row as its base.
LEMMA DraftRebased ==
  ASSUME NEW d \in Draft, NEW row \in Shown
  PROVE  LET e == Rebased(d, row)
         IN  /\ e \in Draft /\ e.key = d.key /\ e.edit = d.edit /\ e.base = row.vals
             /\ e.vals = d.vals /\ ~e.reread
             /\ \A f \in e.changed : e.vals[f] # e.base[f]
  BY DEF Draft, Rebased, Shown

\* What is no draft is absent.
LEMMA DraftKinds ==
  ASSUME NEW d \in Draft \union {None, Undefined}
  PROVE  IsDraft(d) <=> d \in Draft
  BY DEF IsDraft

\* The fields of a request, and its answer.
LEMMA UpdateFields ==
  ASSUME NEW u \in Update
  PROVE  /\ u # None
         /\ u.rec \in Records /\ u.key \in 1..MaxSaves /\ u.edit \in 1..MaxEdits
         /\ u.rowRev \in Revisions /\ u.current \in Shown \union {None}
         /\ u.patch \in Patch
  BY DEF Update

\* A patch changes fields to values of theirs.
LEMMA PatchedContents ==
  ASSUME TypeInv, NEW r \in Records, NEW patch \in Patch
  PROVE  Patched(r, patch) \in Contents
<1>1. table[r].vals \in [Fields -> Values]
  BY DEF TypeInv, TypeOK, Contents
<1>2. PICK fs \in SUBSET Fields : patch \in [fs -> Values]
  BY DEF Patch
<1>3. QED BY <1>1, <1>2 DEF Patched, Contents

\* What a table that nobody has changed yet holds.
LEMMA SomeContents == (CHOOSE c \in Contents : TRUE) \in Contents
<1>1. [f \in Fields |-> CHOOSE v \in Values : TRUE] \in Contents
  BY DEF Contents
<1>2. QED BY <1>1

-----------------------------------------------------------------------------
(* Types.                                                                  *)

\* Nothing read, nothing edited.
LEMMA TypeInvInit == Init => TypeInv
<1> SUFFICES ASSUME Init PROVE TypeInv
  OBVIOUS
<1>1. TypeOK
  BY SomeContents, IdleFields
  DEF Init, TypeOK, NoRows, IsDraft, Busy, Revisions
<1>2. Counters /\ RevisionsCounted /\ Requests
  BY DEF Init, Counters, RevisionsCounted, Pending, Requests
<1>3. Display /\ Pages
  BY IdleFields DEF Init, Display, Pages, NoRows, IsDraft
<1>4. QED BY <1>1, <1>2, <1>3 DEF TypeInv

\* A step of the reads keeps the types if what it assigns has its type.
LEMMA ReadStepTypes ==
  ASSUME TypeInv, UNCHANGED <<table, tableRev, ledger, foreign, mutation, update>>,
         UNCHANGED <<edits, keys, saves, commits>>,
         calls' \in [Calls -> CallRecord], activeRead' \in Calls \union {None},
         phase' \in Busy \union {"idle", "ready", "read_only", "error"},
         caps' \in {None, "editable", "read_only"}, token' \in {None, 2},
         rows' \in [Records -> Row \union {None}],
         sourceRev' \in Revisions \union {None},
         generation' \in 0..MaxRefreshes,
         (\E r \in Records : rows'[r] # None) => sourceRev' # None,
         Pages',
         drafts' \in [Records -> Draft \union {None, Undefined}],
         \A r \in Records : IsDraft(drafts'[r]) =>
           /\ IsDraft(drafts[r])
           /\ drafts'[r].edit = drafts[r].edit /\ drafts'[r].key = drafts[r].key
           /\ drafts'[r].vals = drafts[r].vals /\ drafts'[r].base = drafts[r].base
           /\ drafts'[r].changed = drafts[r].changed
  PROVE  TypeInv'
<1>1. TypeOK'
  BY DraftKinds DEF TypeInv, TypeOK
<1>2. Counters' /\ RevisionsCounted' /\ Requests'
  BY DEF TypeInv, Counters, RevisionsCounted, Pending, Requests
<1>3. Display'
  BY DEF TypeInv, Display
<1>4. QED BY <1>1, <1>2, <1>3 DEF TypeInv

\* What the reads find.
LEMMA ReadFacts ==
  ASSUME TypeInv
  PROVE  /\ calls \in [Calls -> CallRecord] /\ activeRead \in Calls \union {None}
         /\ phase \in Busy \union {"idle", "ready", "read_only", "error"}
         /\ caps \in {None, "editable", "read_only"} /\ token \in {None, 2}
         /\ rows \in [Records -> Row \union {None}]
         /\ sourceRev \in Revisions \union {None} /\ tableRev \in Revisions
         /\ generation \in 0..MaxRefreshes
         /\ (\E r \in Records : rows[r] # None) => sourceRev # None
         /\ drafts \in [Records -> Draft \union {None, Undefined}]
         /\ Pages
  BY DEF TypeInv, TypeOK, Counters, Display

\* The end of a read keeps the pages of the others.
LEMMA FinishKeepsPages ==
  ASSUME TypeInv, NEW c \in Calls, Finish(c)
  PROVE  calls' \in [Calls -> CallRecord] /\ activeRead' \in Calls \union {None} /\ Pages'
<1>1. Pages'
  <2> SUFFICES ASSUME NEW d \in Calls, calls'[d].pc = "answered"
               PROVE  calls'[d].page \in [RecordsOn(PageNo(d)') -> Contents]
    BY DEF Pages, RecordsOn, Contents
  <2>1. calls[d].pc = "answered" /\ calls'[d] = calls[d]
    BY ReadFacts, FinishedCalls
  <2>2. QED BY <2>1, ReadFacts DEF Pages, PageNo
<1>2. QED BY <1>1, ReadFacts, Finished

\* A call moves on.
LEMMA MoveKeepsPages ==
  ASSUME TypeInv, NEW c \in Calls, NEW x \in CallRecord, calls' = [calls EXCEPT ![c] = x],
         x.pc = "answered" =>
           x.page \in [RecordsOn(IF x.kind = "more" THEN 2 ELSE 1) -> Contents]
  PROVE  calls' \in [Calls -> CallRecord] /\ Pages'
<1>1. calls' \in [Calls -> CallRecord]
  BY ReadFacts
<1>2. ASSUME NEW d \in Calls, calls'[d].pc = "answered"
      PROVE  calls'[d].page \in [RecordsOn(PageNo(d)') -> Contents]
  <2>1. calls'[d] = IF d = c THEN x ELSE calls[d]
    BY ReadFacts
  <2>2. PageNo(d)' = IF calls'[d].kind = "more" THEN 2 ELSE 1
    BY DEF PageNo
  <2>3. QED BY <1>2, <2>1, <2>2, ReadFacts DEF Pages, PageNo
<1>3. QED BY <1>1, <1>2 DEF Pages, RecordsOn, Contents

\* The slot a new call takes.
LEMMA Started ==
  ASSUME TypeInv, NEW c \in Calls, NEW kind \in {"load", "more"}, NEW gen \in 0..MaxRefreshes,
         NEW pc \in {"waiting", "caps", "read"}, NEW prior \in Calls \union {None},
         Start(c, kind, gen, pc, prior)
  PROVE  \E x \in CallRecord :
           /\ calls' = [calls EXCEPT ![c] = x]
           /\ x.kind = kind /\ x.gen = gen /\ x.pc = pc /\ x.prior = prior /\ x.label = 0
<1> DEFINE x == [Idle EXCEPT !.kind = kind, !.gen = gen, !.pc = pc, !.prior = prior]
<1>1. x \in CallRecord /\ x.kind = kind /\ x.gen = gen /\ x.pc = pc /\ x.prior = prior
      /\ x.label = 0
  <2>1. PICK i \in CallRecord : i = Idle /\ i.label = 0
    BY IdleFields
  <2>2. x = [i EXCEPT !.kind = kind, !.gen = gen, !.pc = pc, !.prior = prior]
    BY <2>1
  <2> HIDE DEF x
  <2>3. QED BY <2>1, <2>2 DEF CallRecord
<1>2. QED BY <1>1 DEF Start

\* A new read hides or keeps what is shown.
LEMMA StartsTypes ==
  ASSUME TypeInv, NEW c \in Calls, load(c) \/ refresh(c) \/ loadMore(c)
  PROVE  TypeInv'
<1>1. CASE load(c)
  <2>1. PICK x \in CallRecord : calls' = [calls EXCEPT ![c] = x] /\ x.pc = "caps"
    BY <1>1, ReadFacts, Started DEF load
  <2>2. calls' \in [Calls -> CallRecord] /\ Pages'
    BY <2>1, MoveKeepsPages
  <2>3. QED
    BY <1>1, <2>2, ReadFacts, ReadStepTypes DEF load, server, Busy
<1>2. CASE refresh(c)
  <2>1. generation + 1 \in 0..MaxRefreshes
    BY <1>2, ReadFacts DEF refresh
  <2>2. PICK x \in CallRecord :
          calls' = [calls EXCEPT ![c] = x] /\ x.pc # "answered"
    BY <1>2, <2>1, ReadFacts, Started DEF refresh
  <2>3. calls' \in [Calls -> CallRecord] /\ Pages'
    BY <2>2, MoveKeepsPages
  <2>4. rows' \in [Records -> Row \union {None}] /\ \A r \in Records : rows'[r] = None
    BY <1>2 DEF refresh, NoRows
  <2>5. activeRead' \in Calls \union {None}
    BY <1>2, ReadFacts DEF refresh
  <2>6. QED
    BY <1>2, <2>1, <2>3, <2>4, <2>5, ReadFacts, ReadStepTypes DEF refresh, server, history, Busy
<1>3. CASE loadMore(c)
  <2>1. PICK x \in CallRecord : calls' = [calls EXCEPT ![c] = x] /\ x.pc = "read"
    BY <1>3, ReadFacts, Started DEF loadMore
  <2>2. calls' \in [Calls -> CallRecord] /\ Pages'
    BY <2>1, MoveKeepsPages
  <2>3. QED
    BY <1>3, <2>2, ReadFacts, ReadStepTypes DEF loadMore, server, history, Busy
<1>4. QED BY <1>1, <1>2, <1>3

\* A call's next answer.
LEMMA AdvanceKeeps ==
  ASSUME TypeInv, NEW c \in Calls, NEW pc \in {"inspect", "read"}, Advance(c, pc)
  PROVE  calls' \in [Calls -> CallRecord] /\ activeRead' \in Calls \union {None} /\ Pages'
<1>0. calls[c] \in CallRecord
  BY ReadFacts
<1> DEFINE x == [calls[c] EXCEPT !.pc = pc]
<1>1. x \in CallRecord /\ x.pc = pc
  BY <1>0, CallMoves
<1>2. calls' = [calls EXCEPT ![c] = x]
  BY <1>0, ReadFacts DEF Advance
<1> HIDE DEF x
<1>3. QED BY <1>1, <1>2, MoveKeepsPages, ReadFacts DEF Advance

\* The answers before the rows, and the failures.
LEMMA AnswersTypes ==
  ASSUME TypeInv, NEW c \in Calls,
         CapabilitiesAnswer(c) \/ InspectAnswer(c) \/ LoadFails(c) \/ ReadFails(c)
  PROVE  TypeInv'
<1>1. CASE CapabilitiesAnswer(c)
  <2>1. Advance(c, "inspect") \/ Finish(c)
    BY <1>1 DEF CapabilitiesAnswer
  <2>2. calls' \in [Calls -> CallRecord] /\ activeRead' \in Calls \union {None} /\ Pages'
    BY <2>1, AdvanceKeeps, FinishKeepsPages
  <2>3. QED
    BY <1>1, <2>2, ReadFacts, ReadStepTypes DEF CapabilitiesAnswer, server, state, history
<1>2. CASE InspectAnswer(c)
  <2>1. Advance(c, "read") \/ Finish(c)
    BY <1>2 DEF InspectAnswer
  <2>2. calls' \in [Calls -> CallRecord] /\ activeRead' \in Calls \union {None} /\ Pages'
    BY <2>1, AdvanceKeeps, FinishKeepsPages
  <2>3. caps' \in {None, "editable", "read_only"}
        /\ phase' \in Busy \union {"idle", "ready", "read_only", "error"}
    BY <1>2, ReadFacts DEF InspectAnswer, Advertised, Busy
  <2>4. QED
    BY <1>2, <2>2, <2>3, ReadFacts, ReadStepTypes DEF InspectAnswer, server, history
<1>3. CASE LoadFails(c)
  <2>1. Finish(c) /\ (phase' = "error" \/ phase' = phase)
    BY <1>3 DEF LoadFails, Throw
  <2>2. QED
    BY <1>3, <2>1, FinishKeepsPages, ReadFacts, ReadStepTypes DEF LoadFails, server, history
<1>4. CASE ReadFails(c)
  <2>1. CASE Throw(c)
    <3>1. Finish(c) /\ (phase' = "error" \/ phase' = phase)
      BY <2>1 DEF Throw
    <3>2. QED
      BY <1>4, <3>1, FinishKeepsPages, ReadFacts, ReadStepTypes DEF ReadFails, server, history
  <2>2. CASE ~Throw(c)
    <3>1. calls' = [calls EXCEPT ![c].tries = 1, ![c].pc = "read", ![c].label = 0, ![c].page = <<>>]
          /\ UNCHANGED <<activeRead, phase>>
      BY <1>4, <2>2 DEF ReadFails
    <3> DEFINE x == [calls[c] EXCEPT !.tries = 1, !.pc = "read", !.label = 0, !.page = <<>>]
    <3>2. x \in CallRecord /\ x.pc = "read"
      <4>1. PICK y \in CallRecord : y = calls[c]
        BY ReadFacts
      <4>2. <<>> \in Page /\ 0 \in Revisions
        BY DEF Page, Revisions
      <4>3. QED BY <4>1, <4>2 DEF CallRecord
    <3>3. calls' = [calls EXCEPT ![c] = x]
      BY <3>1, ReadFacts
    <3>4. calls' \in [Calls -> CallRecord] /\ Pages'
      <4> HIDE DEF x
      <4>1. QED BY <3>2, <3>3, MoveKeepsPages
    <3>5. QED
      BY <1>4, <3>1, <3>4, ReadFacts, ReadStepTypes DEF ReadFails, server, history
  <2>3. QED BY <2>1, <2>2
<1>5. QED BY <1>1, <1>2, <1>3, <1>4

\* The table is resolved, its rows are read.
LEMMA FetchTypes ==
  ASSUME TypeInv, NEW c \in Calls, ResolveTable(c) \/ ReadRows(c)
  PROVE  TypeInv'
<1>0. PICK i \in CallRecord : i = calls[c]
  BY ReadFacts
<1>1. CASE ResolveTable(c)
  <2> DEFINE x == [i EXCEPT !.pc = "bound", !.label = tableRev]
  <2>1. x \in CallRecord /\ x.pc = "bound"
    BY ReadFacts DEF CallRecord
  <2>2. calls' = [calls EXCEPT ![c] = x]
    BY <1>0, <1>1, ReadFacts DEF ResolveTable
  <2> HIDE DEF x
  <2>3. calls' \in [Calls -> CallRecord] /\ Pages'
    BY <2>1, <2>2, MoveKeepsPages
  <2>4. QED
    BY <1>1, <2>3, ReadFacts, ReadStepTypes DEF ResolveTable, server, state, history
<1>2. CASE ReadRows(c)
  <2> DEFINE p == IF i.kind = "more" THEN 2 ELSE 1
             page == [r \in RecordsOn(p) |-> table[r].vals]
             x == [i EXCEPT !.pc = "answered", !.page = page]
  <2>1. page \in [RecordsOn(p) -> Contents]
    BY DEF RecordsOn, TypeInv, TypeOK
  <2>2. page \in Page
    BY <2>1 DEF Page
  <2>3. calls' = [calls EXCEPT ![c] = x]
    BY <1>0, <1>2, ReadFacts DEF ReadRows
  <2> HIDE DEF page
  <2>4. x \in CallRecord /\ x.page = page /\ x.kind = i.kind
    BY <2>2 DEF CallRecord
  <2> HIDE DEF x
  <2>5. calls' \in [Calls -> CallRecord] /\ Pages'
    BY <2>1, <2>3, <2>4, MoveKeepsPages
  <2>6. QED
    BY <1>2, <2>5, ReadFacts, ReadStepTypes DEF ReadRows, server, state, history
<1>3. QED BY <1>1, <1>2

\* A page is shown.
LEMMA PageTypes ==
  ASSUME TypeInv, NEW c \in Calls, ReadAnswer(c)
  PROVE  TypeInv'
<1>1. calls' \in [Calls -> CallRecord] /\ activeRead' \in Calls \union {None} /\ Pages'
  BY FinishKeepsPages DEF ReadAnswer
<1>2. UNCHANGED <<table, tableRev, ledger, foreign, mutation, update,
                  edits, keys, saves, commits, caps, generation>>
  BY DEF ReadAnswer, server
<1>3. CASE ~(~StalePage(c) /\ ~ChangedSincePage(c))
  <2>1. UNCHANGED <<rows, token, sourceRev, drafts>> /\ (phase' = "error" \/ phase' = phase)
    BY <1>3 DEF ReadAnswer
  <2>2. QED BY <1>1, <1>2, <2>1, ReadFacts, ReadStepTypes
<1>4. CASE ~StalePage(c) /\ ~ChangedSincePage(c)
  <2>1. /\ phase' = Settled /\ rows' = WithPage(c) /\ token' \in {None, 2}
        /\ sourceRev' = calls[c].label
        /\ drafts' = [r \in Records |-> Reread(drafts[r], r, DOMAIN calls[c].page)]
        /\ calls[c].pc = "answered"
    BY <1>4 DEF ReadAnswer
  <2>2. calls[c] \in CallRecord /\ calls[c].page \in [RecordsOn(PageNo(c)) -> Contents]
    BY <2>1, ReadFacts DEF Pages
  <2>3. calls[c].label \in Revisions /\ calls[c].gen \in 0..MaxRefreshes
    BY <2>2, CallFields
  <2>4. rows' \in [Records -> Row \union {None}]
    <3>1. ASSUME NEW r \in DOMAIN calls[c].page
          PROVE  [rev |-> calls[c].label, vals |-> calls[c].page[r], gen |-> calls[c].gen] \in Row
      BY <2>2, <2>3 DEF Row
    <3>2. QED BY <2>1, <3>1, ReadFacts DEF WithPage
  <2>5. ASSUME NEW r \in Records
        PROVE  /\ drafts'[r] \in Draft \union {None, Undefined}
               /\ IsDraft(drafts'[r]) =>
                    /\ IsDraft(drafts[r])
                    /\ drafts'[r].edit = drafts[r].edit /\ drafts'[r].key = drafts[r].key
                    /\ drafts'[r].vals = drafts[r].vals /\ drafts'[r].base = drafts[r].base
                    /\ drafts'[r].changed = drafts[r].changed
    <3>1. drafts'[r] = Reread(drafts[r], r, DOMAIN calls[c].page)
      BY <2>1
    <3>2. CASE IsDraft(drafts[r])
      <4>1. drafts[r] \in Draft
        BY <3>2, ReadFacts, DraftKinds
      <4>2. QED BY <3>1, <3>2, <4>1, DraftReread DEF Reread
    <3>3. CASE ~IsDraft(drafts[r])
      BY <3>1, <3>3, ReadFacts DEF Reread
    <3>4. QED BY <3>2, <3>3
  <2>6. phase' \in {"ready", "read_only"} /\ sourceRev' # None /\ sourceRev' \in Revisions
    BY <2>1, <2>3 DEF Settled, Revisions
  <2>7. drafts' \in [Records -> Draft \union {None, Undefined}]
    BY <2>1, <2>5
  <2>8. QED
    BY <1>1, <1>2, <2>1, <2>4, <2>5, <2>6, <2>7, ReadFacts, ReadStepTypes
<1>5. QED BY <1>3, <1>4

\* What a user's step finds.
LEMMA EditFacts ==
  ASSUME TypeInv
  PROVE  /\ drafts \in [Records -> Draft \union {None, Undefined}]
         /\ mutation \in [Records -> {"idle", "saving", "conflict", "error"}]
         /\ \A r \in Records : IsDraft(drafts[r]) =>
              /\ drafts[r] \in Draft /\ drafts[r].edit <= edits /\ drafts[r].key <= keys
              /\ \A f \in drafts[r].changed : drafts[r].vals[f] # drafts[r].base[f]
         /\ \A r \in Records : mutation[r] = "saving" => update # None /\ update.rec = r
         /\ \A r \in Records : rows[r] # None => rows[r] \in Row
         /\ edits \in 0..MaxEdits /\ saves \in 0..MaxSaves /\ keys \in 0..saves
         /\ update \in Update \union {None}
  BY DraftKinds DEF TypeInv, TypeOK, Counters, Display, Requests

\* A user's step, or an answer that concerns the drafts, keeps the types if what
\* it assigns has its type.
LEMMA EditStepTypes ==
  ASSUME TypeInv, UNCHANGED <<table, tableRev, ledger, foreign, phase, caps, rows, token,
                              sourceRev, generation, activeRead, calls, commits>>,
         drafts' \in [Records -> Draft \union {None, Undefined}],
         \A r \in Records : IsDraft(drafts'[r]) =>
           /\ drafts'[r].edit <= edits' /\ drafts'[r].key <= keys'
           /\ \A f \in drafts'[r].changed : drafts'[r].vals[f] # drafts'[r].base[f],
         mutation' \in [Records -> {"idle", "saving", "conflict", "error"}],
         \A r \in Records : mutation'[r] = "saving" => update' # None /\ update'.rec = r,
         edits' \in 0..MaxEdits, saves' \in 0..MaxSaves, keys' \in 0..saves', keys' >= keys,
         RevisionsCounted', Requests'
  PROVE  TypeInv'
<1>1. TypeOK'
  BY DraftKinds DEF TypeInv, TypeOK, CallRecord, Revisions
<1>2. Counters'
  BY DEF TypeInv, Counters
<1>3. Display' /\ Pages'
  BY DEF TypeInv, Display, Pages, PageNo
<1>4. QED BY <1>1, <1>2, <1>3 DEF TypeInv

\* An edit begins, changes, is cancelled.
LEMMA EditsTypes ==
  ASSUME TypeInv, NEW r \in Records,
         \/ beginEdit(r)
         \/ cancel(r)
         \/ \E f \in Fields, v \in Values : setDraftField(r, f, v)
  PROVE  TypeInv'
<1>0. RevisionsCounted' /\ Requests'
  <2>1. /\ UNCHANGED <<tableRev, ledger, foreign, update, keys, saves>>
        /\ edits' = edits \/ edits' = edits + 1
    BY DEF beginEdit, cancel, setDraftField, server, history
  <2>2. update # None => update.edit \in Nat
    BY UpdateFields, EditFacts
  <2>3. QED
    BY <2>1, <2>2, EditFacts DEF TypeInv, RevisionsCounted, Pending, Requests
<1>1. CASE beginEdit(r)
  <2> DEFINE d == [base |-> rows[r].vals, vals |-> rows[r].vals, changed |-> {},
                   key |-> 0, edit |-> edits + 1, reread |-> FALSE]
  <2>1. rows[r] \in Row /\ edits + 1 \in 1..MaxEdits
    BY <1>1, EditFacts DEF beginEdit
  <2>2. d \in Draft /\ d.edit = edits + 1 /\ d.key = 0 /\ d.changed = {}
    BY <2>1 DEF Row, Draft
  <2>3. /\ drafts' = [drafts EXCEPT ![r] = d] /\ mutation' = [mutation EXCEPT ![r] = "idle"]
        /\ edits' = edits + 1
        /\ UNCHANGED <<table, tableRev, ledger, foreign, phase, caps, rows, token,
                       sourceRev, generation, activeRead, calls, update, commits, keys, saves>>
    BY <1>1 DEF beginEdit, server, reads
  <2> HIDE DEF d
  <2>4. ASSUME NEW q \in Records, IsDraft(drafts'[q])
        PROVE  /\ drafts'[q].edit <= edits' /\ drafts'[q].key <= keys'
               /\ \A f \in drafts'[q].changed : drafts'[q].vals[f] # drafts'[q].base[f]
    <3>1. CASE q = r
      BY <2>2, <2>3, <3>1, EditFacts
    <3>2. CASE q # r
      <4>1. drafts'[q] = drafts[q]
        BY <2>3, <3>2, EditFacts
      <4>2. drafts[q].edit \in Nat
        BY <2>4, <4>1, EditFacts, DraftFields
      <4>3. QED BY <2>3, <2>4, <4>1, <4>2, EditFacts
    <3>3. QED BY <3>1, <3>2
  <2>5. QED BY <1>0, <2>1, <2>2, <2>3, <2>4, EditFacts, EditStepTypes
<1>2. CASE cancel(r)
  <2>1. /\ drafts' = [drafts EXCEPT ![r] = None] /\ mutation' = [mutation EXCEPT ![r] = "idle"]
        /\ UNCHANGED <<table, tableRev, ledger, foreign, phase, caps, rows, token,
                       sourceRev, generation, activeRead, calls, update, commits, keys, saves, edits>>
    BY <1>2 DEF cancel, server, reads, history
  <2>2. QED BY <1>0, <2>1, EditFacts, EditStepTypes DEF IsDraft
<1>3. ASSUME NEW f \in Fields, NEW v \in Values, setDraftField(r, f, v) PROVE TypeInv'
  <2>1. PICK d \in Draft : d = drafts[r] /\ d.edit <= edits /\ d.key <= keys
                           /\ \A g \in d.changed : d.vals[g] # d.base[g]
    BY <1>3, EditFacts DEF setDraftField
  <2> DEFINE e == [d EXCEPT !.vals[f] = v,
                            !.changed = IF v = d.base[f] THEN @ \ {f} ELSE @ \union {f}]
  <2>2. /\ e \in Draft /\ e.edit = d.edit /\ e.key = d.key
        /\ e.vals = [d.vals EXCEPT ![f] = v] /\ e.base = d.base
        /\ e.changed = IF v = d.base[f] THEN d.changed \ {f} ELSE d.changed \union {f}
    BY DEF Draft, Contents
  <2>3. \A g \in e.changed : e.vals[g] # e.base[g]
    <3>1. d.vals \in [Fields -> Values] /\ d.changed \subseteq Fields
      BY DEF Draft, Contents
    <3> HIDE DEF e
    <3>2. QED BY <2>1, <2>2, <3>1
  <2>4. /\ drafts' = [drafts EXCEPT ![r] = e]
        /\ UNCHANGED <<table, tableRev, ledger, foreign, phase, caps, rows, token, mutation,
                       sourceRev, generation, activeRead, calls, update, commits, keys, saves, edits>>
    BY <1>3, <2>1, EditFacts DEF setDraftField, server, reads, history
  <2> HIDE DEF e
  <2>5. ASSUME NEW q \in Records, IsDraft(drafts'[q])
        PROVE  /\ drafts'[q].edit <= edits' /\ drafts'[q].key <= keys'
               /\ \A g \in drafts'[q].changed : drafts'[q].vals[g] # drafts'[q].base[g]
    BY <2>1, <2>2, <2>3, <2>4, <2>5, EditFacts
  <2>6. QED BY <1>0, <2>2, <2>4, <2>5, EditFacts, EditStepTypes
<1>4. QED BY <1>1, <1>2, <1>3

\* What a save sends: its draft's key, made now or before, and the row on show.
LEMMA SaveSends ==
  ASSUME TypeInv, NEW r \in Records, save(r)
  PROVE  \E d \in Draft, k \in 1..MaxSaves :
           /\ d = drafts[r] /\ k = KeyOf(d) /\ k <= keys' /\ k \in 1..saves'
           /\ rows[r] \in Row
           /\ update' \in Update
           /\ update'.rec = r /\ update'.key = k /\ update'.edit = d.edit
           /\ update'.patch = [f \in d.changed |-> d.vals[f]]
           /\ update'.base = [f \in d.changed |-> d.base[f]]
           /\ update'.reread = d.reread /\ update'.rowRev = rows[r].rev
           /\ update'.answer = "none" /\ update'.current = None
<1>1. PICK d \in Draft : d = drafts[r] /\ d.key <= keys
  BY EditFacts DEF save
<1>2. PICK row \in Row : row = rows[r]
  BY EditFacts DEF save
<1>3. KeyOf(d) \in 1..(keys + 1) /\ saves' = saves + 1 /\ saves + 1 \in 1..MaxSaves
      /\ keys' = IF KeyOf(d) > keys THEN KeyOf(d) ELSE keys
  BY <1>1, EditFacts, DraftFields DEF save, KeyOf, NoKey
<1>4. KeyOf(d) \in 1..MaxSaves /\ KeyOf(d) <= keys' /\ KeyOf(d) \in 1..saves'
  BY <1>3, EditFacts
<1>5. sourceRev \in Revisions
  BY <1>2, ReadFacts DEF save
<1> DEFINE patch == [f \in d.changed |-> d.vals[f]]
           base == [f \in d.changed |-> d.base[f]]
<1>6. patch \in Patch /\ base \in Patch
  BY DraftFields DEF Patch, Contents
<1>7. row.rev \in Revisions /\ d.edit \in 1..MaxEdits /\ d.reread \in BOOLEAN
  BY DraftFields DEF Row
<1>8. update' = [rec |-> r, key |-> KeyOf(d), edit |-> d.edit, patch |-> patch, base |-> base,
                 reread |-> d.reread, tableRev |-> sourceRev, rowRev |-> row.rev,
                 answer |-> "none", current |-> None]
  BY <1>1, <1>2 DEF save
<1> HIDE DEF patch, base
<1>9. /\ update' \in Update
      /\ update'.rec = r /\ update'.key = KeyOf(d) /\ update'.edit = d.edit
      /\ update'.patch = patch /\ update'.base = base
      /\ update'.reread = d.reread /\ update'.rowRev = row.rev
      /\ update'.answer = "none" /\ update'.current = None
  BY <1>4, <1>5, <1>6, <1>7, <1>8 DEF Update
<1>10. QED BY <1>1, <1>2, <1>4, <1>9 DEF patch, base

\* A request leaves.
LEMMA SaveTypes ==
  ASSUME TypeInv, NEW r \in Records, save(r)
  PROVE  TypeInv'
<1>1. PICK d \in Draft, k \in 1..MaxSaves :
           /\ d = drafts[r] /\ k = KeyOf(d) /\ k <= keys' /\ k \in 1..saves'
           /\ update' \in Update
           /\ update'.rec = r /\ update'.key = k /\ update'.edit = d.edit
           /\ update'.patch = [f \in d.changed |-> d.vals[f]]
           /\ update'.base = [f \in d.changed |-> d.base[f]]
           /\ update'.answer = "none" /\ update'.current = None
  BY SaveSends
<1>2. /\ drafts' = [drafts EXCEPT ![r].key = k]
      /\ mutation' = [mutation EXCEPT ![r] = "saving"]
      /\ saves' = saves + 1 /\ saves < MaxSaves /\ update = None
      /\ keys' = IF k > keys THEN k ELSE keys
      /\ UNCHANGED <<table, tableRev, ledger, foreign, phase, caps, rows, token,
                     sourceRev, generation, activeRead, calls, commits, edits>>
  BY <1>1 DEF save, server, reads
<1> DEFINE e == [d EXCEPT !.key = k]
<1>3. /\ e \in Draft /\ e.key = k /\ e.edit = d.edit /\ e.base = d.base
      /\ e.vals = d.vals /\ e.changed = d.changed
  BY DEF Draft
<1>4. drafts' = [drafts EXCEPT ![r] = e]
  BY <1>1, <1>2, EditFacts
<1> HIDE DEF e
<1>5. saves' \in 0..MaxSaves /\ keys' \in 0..saves' /\ keys' >= keys
  BY <1>1, <1>2, EditFacts
<1>6. update' # None /\ d.edit <= edits
  BY <1>1, EditFacts, UpdateFields, DraftFields
<1>7. RevisionsCounted'
  <2>1. tableRev + 0 <= foreign + saves /\ tableRev \in Nat /\ foreign \in Nat /\ saves \in Nat
    BY <1>2 DEF TypeInv, TypeOK, Counters, RevisionsCounted, Pending, Revisions
  <2>2. Pending' = 1
    BY <1>1, <1>6 DEF Pending
  <2>3. QED BY <1>2, <2>1, <2>2 DEF RevisionsCounted
<1>8. Requests'
  <2>1. DOMAIN ledger \subseteq 1..keys
        /\ \A q \in DOMAIN ledger : ledger[q].rec \in Records /\ ledger[q].row \in Shown
    BY DEF TypeInv, Requests
  <2>2. DOMAIN ledger \subseteq 1..keys'
    BY <1>5, <2>1, EditFacts
  <2>3. QED BY <1>1, <1>2, <1>6, <2>1, <2>2 DEF Requests, Shown, Revisions, Contents
<1>9. ASSUME NEW q \in Records, IsDraft(drafts'[q])
      PROVE  /\ drafts'[q].edit <= edits' /\ drafts'[q].key <= keys'
             /\ \A f \in drafts'[q].changed : drafts'[q].vals[f] # drafts'[q].base[f]
  <2>1. CASE q = r
    BY <1>1, <1>2, <1>3, <1>4, <2>1, EditFacts, DraftFields
  <2>2. CASE q # r
    <3>1. drafts'[q] = drafts[q] /\ drafts[q] \in Draft /\ drafts[q].key <= keys
      BY <1>4, <1>9, <2>2, EditFacts
    <3>2. drafts[q].key \in Nat /\ keys \in Nat /\ keys' \in Nat
      BY <1>5, <3>1, EditFacts, DraftFields
    <3>3. QED BY <1>2, <1>5, <1>9, <3>1, <3>2, EditFacts
  <2>3. QED BY <2>1, <2>2
<1>10. mutation' \in [Records -> {"idle", "saving", "conflict", "error"}]
       /\ \A q \in Records : mutation'[q] = "saving" => update' # None /\ update'.rec = q
  BY <1>1, <1>2, <1>6, EditFacts
<1>11. drafts' \in [Records -> Draft \union {None, Undefined}] /\ edits' \in 0..MaxEdits
  BY <1>2, <1>3, <1>4, EditFacts
<1>12. QED BY <1>2, <1>5, <1>7, <1>8, <1>9, <1>10, <1>11, EditStepTypes

\* What the updater answers without executing the request.
LEMMA UpdaterSays ==
  ASSUME TypeInv, UpdaterAnswers, NEW u \in Update, u = update
  PROVE  \E kind \in {"saved", "refused", "stale", "unknown"}, current \in Shown \union {None} :
           /\ update' \in Update /\ update'.answer = kind /\ update'.current = current
           /\ update'.rec = u.rec /\ update'.key = u.key /\ update'.edit = u.edit
           /\ update'.patch = u.patch /\ update'.base = u.base
           /\ update'.reread = u.reread /\ update'.rowRev = u.rowRev
           /\ kind \in {"saved", "stale"} => current # None
           /\ \/ current = None
              \/ kind = "saved" /\ Known /\ SameRequest /\ current = ledger[u.key].row
              \/ kind = "stale" /\ current = Snapshot(u.rec)
<1>0. u.rec \in Records
  BY UpdateFields
<1>1. PICK kind \in {"saved", "refused", "stale", "unknown"}, current \in Shown \union {None} :
        /\ update' = [u EXCEPT !.answer = kind, !.current = current]
        /\ kind \in {"saved", "stale"} => current # None
        /\ \/ current = None
           \/ kind = "saved" /\ Known /\ SameRequest /\ current = ledger[u.key].row
           \/ kind = "stale" /\ current = Snapshot(u.rec)
  <2>1. CASE Known /\ SameRequest /\ Answer("saved", ledger[update.key].row)
    <3>1. ledger[u.key].row \in Shown
      BY <2>1 DEF Known, TypeInv, Requests
    <3>2. QED BY <2>1, <3>1 DEF Answer
  <2>2. CASE Known /\ ~SameRequest /\ Answer("refused", None)
    BY <2>2 DEF Answer
  <2>3. CASE Answer("stale", Snapshot(update.rec))
    <3>1. Snapshot(u.rec) \in Shown
      BY <1>0 DEF Snapshot, Shown, TypeInv, TypeOK
    <3>2. QED BY <2>3, <3>1 DEF Answer
  <2>4. CASE Answer("unknown", None)
    BY <2>4 DEF Answer
  <2>5. QED BY <2>1, <2>2, <2>3, <2>4 DEF UpdaterAnswers
<1>2. /\ update' \in Update /\ update'.answer = kind /\ update'.current = current
      /\ update'.rec = u.rec /\ update'.key = u.key /\ update'.edit = u.edit
      /\ update'.patch = u.patch /\ update'.base = u.base
      /\ update'.reread = u.reread /\ update'.rowRev = u.rowRev
  <2>1. kind \in {"none", "saved", "unverified", "unknown", "refused", "stale"}
    OBVIOUS
  <2>2. QED BY <1>1, <2>1 DEF Update
<1>3. QED BY <1>1, <1>2

\* The updater executes or answers.
LEMMA UpdaterTypes ==
  ASSUME TypeInv, UpdaterExecutes \/ UpdaterAnswers
  PROVE  TypeInv'
<1>1. PICK u \in Update : u = update /\ u.answer = "none" /\ u.rec \in Records
                          /\ u.key \in 1..MaxSaves /\ u.edit \in 1..MaxEdits /\ u.patch \in Patch
  BY EditFacts, UpdateFields DEF UpdaterExecutes, UpdaterAnswers
<1>2. /\ tableRev + 1 <= foreign + saves /\ tableRev \in Nat
      /\ foreign \in 0..MaxForeign /\ saves \in 0..MaxSaves
  <2>1. Pending = 1
    BY <1>1, UpdateFields DEF Pending
  <2>2. QED BY <2>1 DEF TypeInv, TypeOK, Counters, RevisionsCounted, Revisions
<1>3. tableRev + 1 \in Revisions
  BY <1>2 DEF Revisions
<1>4. CASE UpdaterExecutes
  <2> DEFINE after == Patched(u.rec, u.patch)
             row == [rev |-> tableRev + 1, vals |-> after]
             entry == [rec |-> u.rec, patch |-> u.patch, row |-> row]
  <2>1. after \in Contents
    BY <1>1, PatchedContents
  <2> HIDE DEF after
  <2>2. row \in Shown
    BY <1>3, <2>1 DEF Shown
  <2> HIDE DEF row
  <2>3. entry.rec \in Records /\ entry.row \in Shown
    BY <1>1, <2>2
  <2>4. PICK kind \in {"saved", "unverified", "unknown"} :
          update' = [u EXCEPT !.answer = kind, !.current = row]
    BY <1>1, <1>4 DEF UpdaterExecutes, Answer, row, after
  <2>5. /\ update' \in Update /\ update'.answer = kind /\ update'.current = row
        /\ update'.rec = u.rec /\ update'.key = u.key /\ update'.edit = u.edit
        /\ update'.patch = u.patch /\ update'.base = u.base
    <3>1. row \in Shown \union {None}
      BY <2>2
    <3>2. kind \in {"none", "saved", "unverified", "unknown", "refused", "stale"}
      OBVIOUS
    <3>3. QED BY <2>4, <3>1, <3>2, UpdateFields DEF Update
  <2>6. /\ ledger' = [k \in DOMAIN ledger \union {u.key} |->
                        IF k = u.key THEN entry ELSE ledger[k]]
        /\ table' = [table EXCEPT ![u.rec] = [vals |-> after, at |-> tableRev + 1]]
        /\ tableRev' = tableRev + 1
        /\ commits' = [commits EXCEPT ![u.edit] = @ + 1]
    BY <1>1, <1>4 DEF UpdaterExecutes, row, after
  <2> HIDE DEF entry
  <2>7. UNCHANGED <<foreign, phase, caps, rows, token, sourceRev, drafts, mutation,
                    generation, activeRead, calls, edits, keys, saves>>
    BY <1>4 DEF UpdaterExecutes, state, reads
  <2>8. update' # None /\ row # None
    BY <2>2, <2>5, UpdateFields
  <2>9. Counters' /\ RevisionsCounted'
    <3>1. Pending' = 0
      BY <2>5 DEF Pending
    <3>2. commits' \in [1..MaxEdits -> Nat]
      BY <1>1, <2>6 DEF TypeInv, Counters
    <3>3. QED BY <1>2, <2>6, <2>7, <3>1, <3>2 DEF TypeInv, Counters, RevisionsCounted
  <2>10. Requests'
    <3>1. /\ u.key <= keys /\ u.edit <= edits /\ DOMAIN u.patch \subseteq DOMAIN u.base
          /\ DOMAIN ledger \subseteq 1..keys
          /\ \A q \in DOMAIN ledger : ledger[q].rec \in Records /\ ledger[q].row \in Shown
      BY <1>1, UpdateFields DEF TypeInv, Requests
    <3>2. DOMAIN ledger' \subseteq 1..keys
      BY <1>1, <2>6, <3>1, EditFacts
    <3>3. \A q \in DOMAIN ledger' : ledger'[q].rec \in Records /\ ledger'[q].row \in Shown
      BY <2>3, <2>6, <3>1
    <3>4. QED BY <2>5, <2>7, <2>8, <3>1, <3>2, <3>3 DEF Requests, Shown, Revisions, Contents
  <2>11. TypeOK'
    <3>1. table' \in [Records -> [vals : Contents, at : Revisions]] /\ tableRev' \in Revisions
      BY <1>1, <1>3, <2>1, <2>6 DEF TypeInv, TypeOK
    <3>2. \A r \in Records : mutation'[r] = "saving" => update' # None /\ update'.rec = r
      BY <1>1, <2>5, <2>7, <2>8, EditFacts
    <3>3. QED BY <2>7, <3>1, <3>2 DEF TypeInv, TypeOK
  <2>12. Display' /\ Pages'
    BY <2>7 DEF TypeInv, Display, Pages, PageNo
  <2>13. QED BY <2>9, <2>10, <2>11, <2>12 DEF TypeInv
<1>5. CASE UpdaterAnswers
  <2>1. PICK kind \in {"saved", "refused", "stale", "unknown"}, current \in Shown \union {None} :
          /\ update' \in Update /\ update'.answer = kind /\ update'.current = current
          /\ update'.rec = u.rec /\ update'.key = u.key /\ update'.edit = u.edit
          /\ update'.patch = u.patch /\ update'.base = u.base
          /\ kind \in {"saved", "stale"} => current # None
    BY <1>1, <1>5, UpdaterSays
  <2>3. UNCHANGED <<table, tableRev, ledger, foreign, phase, caps, rows, token, sourceRev,
                    drafts, mutation, generation, activeRead, calls, edits, keys, saves, commits>>
    BY <1>5 DEF UpdaterAnswers, server, state, reads, history
  <2>4. update' # None
    BY <2>1, UpdateFields
  <2>5. RevisionsCounted'
    <3>1. Pending' = 0
      BY <2>1 DEF Pending
    <3>2. QED BY <1>2, <2>3, <3>1 DEF RevisionsCounted
  <2>6. Requests'
    BY <1>1, <2>1, <2>3, <2>4, UpdateFields DEF TypeInv, Requests, Shown, Revisions, Contents
  <2>7. QED
    BY <1>1, <2>1, <2>3, <2>4, <2>5, <2>6, EditFacts, EditStepTypes
<1>6. QED BY <1>4, <1>5

\* An answer reaches the controller.
LEMMA SettleTypes ==
  ASSUME TypeInv, NEW u \in Update, u = update,
         UNCHANGED <<table, tableRev, ledger, foreign, phase, caps, token, generation,
                     activeRead, calls, commits, edits, keys, saves>>,
         NEW m \in {"idle", "conflict", "error"}, Settle(m),
         \/ UNCHANGED <<rows, sourceRev>>
         \/ \E row \in Shown : rows' = Replace(u.rec, row) /\ sourceRev' = row.rev,
         drafts' \in [Records -> Draft \union {None, Undefined}],
         \A r \in Records : IsDraft(drafts'[r]) =>
           /\ drafts'[r].edit <= edits /\ drafts'[r].key <= keys
           /\ \A f \in drafts'[r].changed : drafts'[r].vals[f] # drafts'[r].base[f]
  PROVE  TypeInv'
<1>1. u.rec \in Records
  BY UpdateFields
<1>2. mutation' = [mutation EXCEPT ![u.rec] = m] /\ update' = None
  BY DEF Settle
<1>3. mutation' \in [Records -> {"idle", "saving", "conflict", "error"}]
      /\ \A r \in Records : mutation'[r] # "saving"
  BY <1>1, <1>2, EditFacts
<1>4. /\ rows' \in [Records -> Row \union {None}] /\ sourceRev' \in Revisions \union {None}
      /\ (\E r \in Records : rows'[r] # None) => sourceRev' # None
  <2>1. CASE UNCHANGED <<rows, sourceRev>>
    BY <2>1, ReadFacts
  <2>2. ASSUME NEW row \in Shown, rows' = Replace(u.rec, row), sourceRev' = row.rev
        PROVE  /\ rows' \in [Records -> Row \union {None}]
               /\ sourceRev' \in Revisions \union {None}
               /\ (\E r \in Records : rows'[r] # None) => sourceRev' # None
    <3>1. [rev |-> row.rev, vals |-> row.vals, gen |-> generation] \in Row
          /\ row.rev \in Revisions
      BY ReadFacts DEF Shown, Row
    <3>2. rows' \in [Records -> Row \union {None}]
      BY <1>1, <2>2, <3>1, ReadFacts DEF Replace
    <3>3. QED BY <2>2, <3>1, <3>2 DEF Revisions
  <2>3. QED BY <2>1, <2>2
<1>5. TypeOK'
  BY <1>3, <1>4, DraftKinds DEF TypeInv, TypeOK
<1>6. Counters' /\ RevisionsCounted'
  <2>1. Pending \in {0, 1} /\ Pending' = 0
    BY <1>2 DEF Pending
  <2>2. QED BY <2>1 DEF TypeInv, TypeOK, Counters, RevisionsCounted, Revisions
<1>7. Requests'
  BY <1>2 DEF TypeInv, Requests
<1>8. Display' /\ Pages'
  BY <1>4 DEF TypeInv, Display, Pages, PageNo
<1>9. QED BY <1>5, <1>6, <1>7, <1>8 DEF TypeInv

\* The answers to a save.
LEMMA SaveAnswersTypes ==
  ASSUME TypeInv, SaveAnswer \/ ConflictAnswer \/ ErrorAnswer \/ TransportFails
  PROVE  TypeInv'
<1>1. PICK u \in Update : u = update /\ u.rec \in Records
  BY EditFacts, UpdateFields DEF SaveAnswer, ConflictAnswer, ErrorAnswer, TransportFails
<1>2. UNCHANGED <<table, tableRev, ledger, foreign, phase, caps, token, generation,
                  activeRead, calls, commits, edits, keys, saves>>
  BY DEF SaveAnswer, ConflictAnswer, ErrorAnswer, TransportFails, server, reads, history
<1>3. \A r \in Records : drafts'[r] = drafts[r] /\ IsDraft(drafts[r]) =>
        /\ drafts'[r].edit <= edits /\ drafts'[r].key <= keys
        /\ \A f \in drafts'[r].changed : drafts'[r].vals[f] # drafts'[r].base[f]
  BY EditFacts
<1>4. u.answer \in {"saved", "stale"} => u.current \in Shown
  BY <1>1, UpdateFields DEF TypeInv, Requests
<1>5. CASE SaveAnswer
  <2>1. /\ Settle("idle") /\ rows' = Replace(u.rec, u.current) /\ sourceRev' = u.current.rev
        /\ drafts' = [drafts EXCEPT ![u.rec] = None] /\ u.answer = "saved"
    BY <1>1, <1>5 DEF SaveAnswer
  <2>2. \A r \in Records : IsDraft(drafts'[r]) => drafts'[r] = drafts[r]
    BY <1>1, <2>1, EditFacts DEF IsDraft
  <2>3. drafts' \in [Records -> Draft \union {None, Undefined}]
    BY <2>1, EditFacts
  <2>4. QED BY <1>1, <1>2, <1>3, <1>4, <2>1, <2>2, <2>3, SettleTypes
<1>6. CASE ConflictAnswer
  <2>1. /\ Settle("conflict") /\ rows' = Replace(u.rec, u.current) /\ sourceRev' = u.current.rev
        /\ drafts' = [drafts EXCEPT ![u.rec] = IF IsDraft(drafts[u.rec])
                                                 THEN Rebased(drafts[u.rec], u.current)
                                               ELSE Undefined]
        /\ u.answer = "stale"
    BY <1>1, <1>6, EditFacts DEF ConflictAnswer
  <2>2. ASSUME NEW r \in Records
        PROVE  /\ drafts'[r] \in Draft \union {None, Undefined}
               /\ IsDraft(drafts'[r]) =>
                    /\ drafts'[r].edit <= edits /\ drafts'[r].key <= keys
                    /\ \A f \in drafts'[r].changed : drafts'[r].vals[f] # drafts'[r].base[f]
    <3>1. CASE r = u.rec /\ IsDraft(drafts[r])
      <4>1. PICK d \in Draft : d = drafts[r] /\ d.edit <= edits /\ d.key <= keys
        BY <3>1, EditFacts
      <4>2. u.current \in Shown
        BY <1>4, <2>1
      <4>3. drafts'[r] = Rebased(d, u.current)
        BY <2>1, <3>1, <4>1, EditFacts
      <4>4. QED BY <4>1, <4>2, <4>3, DraftRebased
    <3>2. CASE r = u.rec /\ ~IsDraft(drafts[r])
      BY <2>1, <3>2, EditFacts DEF IsDraft
    <3>3. CASE r # u.rec
      BY <1>3, <2>1, <3>3, EditFacts
    <3>4. QED BY <3>1, <3>2, <3>3
  <2>3. drafts' \in [Records -> Draft \union {None, Undefined}]
    <3>1. DOMAIN drafts' = Records
      BY <2>1, EditFacts
    <3>2. drafts' = [r \in Records |-> drafts'[r]]
      BY <2>1, EditFacts
    <3>3. QED BY <2>2, <3>2
  <2>4. QED BY <1>1, <1>2, <1>4, <2>1, <2>2, <2>3, SettleTypes
<1>7. CASE ErrorAnswer
  <2>1. /\ Settle("error") /\ UNCHANGED <<rows, sourceRev>>
        /\ drafts' = drafts \/ drafts' = [drafts EXCEPT ![u.rec] = Undefined]
    BY <1>1, <1>7 DEF ErrorAnswer
  <2>2. \A r \in Records : IsDraft(drafts'[r]) => drafts'[r] = drafts[r]
    BY <1>1, <2>1, EditFacts DEF IsDraft
  <2>3. drafts' \in [Records -> Draft \union {None, Undefined}]
    BY <2>1, EditFacts
  <2>4. QED BY <1>1, <1>2, <1>3, <2>1, <2>2, <2>3, SettleTypes
<1>8. CASE TransportFails
  <2>1. Settle("error") /\ UNCHANGED <<rows, sourceRev, drafts>>
    BY <1>8 DEF TransportFails
  <2>2. QED BY <1>1, <1>2, <1>3, <2>1, EditFacts, SettleTypes
<1>9. QED BY <1>5, <1>6, <1>7, <1>8

\* Another writer.
LEMMA ForeignTypes ==
  ASSUME TypeInv, NEW r \in Records, ForeignChange(r)
  PROVE  TypeInv'
<1>1. PICK c \in Contents :
        /\ table' = [table EXCEPT ![r] = [vals |-> c, at |-> tableRev + 1]]
        /\ tableRev' = tableRev + 1 /\ foreign' = foreign + 1 /\ foreign < MaxForeign
  BY DEF ForeignChange
<1>2. UNCHANGED <<ledger, phase, caps, rows, token, sourceRev, drafts, mutation,
                  generation, activeRead, calls, update, edits, keys, saves, commits>>
  BY DEF ForeignChange, state, reads, history
<1>3. /\ tableRev + Pending <= foreign + saves /\ tableRev \in Nat /\ Pending \in {0, 1}
      /\ foreign \in 0..MaxForeign /\ saves \in 0..MaxSaves
  BY DEF TypeInv, TypeOK, Counters, RevisionsCounted, Revisions, Pending
<1>4. tableRev + 1 \in Revisions
  BY <1>1, <1>3 DEF Revisions
<1>5. TypeOK'
  BY <1>1, <1>2, <1>4 DEF TypeInv, TypeOK
<1>6. Counters' /\ RevisionsCounted'
  <2>1. Pending' = Pending
    BY <1>2 DEF Pending
  <2>2. QED BY <1>1, <1>2, <1>3, <2>1 DEF TypeInv, Counters, RevisionsCounted
<1>7. Requests' /\ Display' /\ Pages'
  BY <1>2 DEF TypeInv, Requests, Display, Pages, PageNo
<1>8. QED BY <1>5, <1>6, <1>7 DEF TypeInv

\* The steps, by who takes them.
LEMMA NextCases ==
  ASSUME Next
  PROVE  \/ \E c \in Calls :
              \/ load(c) \/ refresh(c) \/ loadMore(c)
              \/ CapabilitiesAnswer(c) \/ InspectAnswer(c) \/ LoadFails(c) \/ ReadFails(c)
              \/ ResolveTable(c) \/ ReadRows(c) \/ ReadAnswer(c)
         \/ \E r \in Records :
              \/ beginEdit(r) \/ cancel(r)
              \/ \E f \in Fields, v \in Values : setDraftField(r, f, v)
              \/ save(r) \/ ForeignChange(r)
         \/ UpdaterExecutes \/ UpdaterAnswers
         \/ SaveAnswer \/ ConflictAnswer \/ ErrorAnswer \/ TransportFails
  BY DEF Next, UserStep, CallStep, UpdateStep

\* Every step keeps the types.
LEMMA TypeInvNext == TypeInv /\ [Next]_vars => TypeInv'
<1> SUFFICES ASSUME TypeInv, [Next]_vars PROVE TypeInv'
  OBVIOUS
<1>1. CASE UNCHANGED vars
  BY <1>1
  DEF vars, server, state, reads, history, TypeInv, TypeOK, Counters, RevisionsCounted, Pending,
      Requests, Display, Pages, PageNo
<1>2. CASE Next
  BY <1>2, NextCases, StartsTypes, AnswersTypes, FetchTypes, PageTypes, EditsTypes, SaveTypes,
     UpdaterTypes, SaveAnswersTypes, ForeignTypes
<1>3. QED BY <1>1, <1>2

\* Every variable keeps its type, rows are shown with a revision to send, "saving"
\* is shown only while a request is on its way (controller.ts, for any records,
\* fields and number of calls).
THEOREM TypeCorrect == Spec => []TypeOK
<1>1. Spec => []TypeInv
  BY TypeInvInit, TypeInvNext, PTL DEF Spec
<1>2. QED BY <1>1, PTL DEF TypeInv

-----------------------------------------------------------------------------
(* What is shown.                                                          *)

\* A page adds rows of its own generation and revision, a refresh hides all.
LEMMA FreshNext == TypeInv /\ RowsAreFresh /\ [Next]_vars => RowsAreFresh'
<1> SUFFICES ASSUME TypeInv, RowsAreFresh, [Next]_vars PROVE RowsAreFresh'
  OBVIOUS
<1> USE DEF RowsAreFresh, ReadsAreFresh, PagesAreNotMixed
<1>1. CASE UNCHANGED <<rows, generation, sourceRev, touched>>
  BY <1>1
<1>2. ASSUME NEW c \in Calls, refresh(c) PROVE RowsAreFresh'
  BY <1>2 DEF refresh, NoRows
<1>3. ASSUME NEW c \in Calls, ReadAnswer(c) PROVE RowsAreFresh'
  <2>1. CASE UNCHANGED <<rows, sourceRev, touched>>
    BY <1>3, <2>1 DEF ReadAnswer
  <2>2. CASE ~UNCHANGED <<rows, sourceRev, touched>>
    <3>1. /\ Current(c) /\ ~ChangedSincePage(c)
          /\ rows' = WithPage(c) /\ sourceRev' = calls[c].label
          /\ touched' = (touched /\ calls[c].kind = "more")
          /\ generation' = generation
      BY <1>3, <2>2 DEF ReadAnswer, StalePage
    <3>2. ASSUME NEW r \in Records, rows'[r] # None
          PROVE  /\ rows'[r].gen = generation
                 /\ ~touched' => rows'[r].rev = sourceRev'
      <4>1. CASE r \in DOMAIN calls[c].page
        BY <3>1, <4>1 DEF WithPage, Current
      <4>2. CASE r \notin DOMAIN calls[c].page
        <5>1. calls[c].kind = "more" /\ rows'[r] = rows[r]
          BY <3>1, <3>2, <4>2 DEF WithPage
        <5>2. calls[c].label = sourceRev /\ (touched' <=> touched)
          BY <3>1, <5>1 DEF ChangedSincePage
        <5>3. QED BY <3>1, <3>2, <5>1, <5>2
      <4>3. QED BY <4>1, <4>2
    <3>3. QED BY <3>1, <3>2
  <2>3. QED BY <2>1, <2>2
<1>4. ASSUME SaveAnswer \/ ConflictAnswer PROVE RowsAreFresh'
  <2>1. touched' /\ generation' = generation /\ rows' = Replace(update.rec, update.current)
    BY <1>4 DEF SaveAnswer, ConflictAnswer, reads
  <2>2. \A r \in Records : rows'[r] # None => rows'[r].gen = generation
    BY <2>1, ReadFacts DEF Replace
  <2>3. QED BY <2>1, <2>2
<1>5. CASE UNCHANGED vars
  BY <1>1, <1>5 DEF vars, state, reads, history
<1>6. CASE Next
  <2>1. ASSUME NEW c \in Calls,
               \/ load(c) \/ loadMore(c)
               \/ CapabilitiesAnswer(c) \/ InspectAnswer(c) \/ LoadFails(c) \/ ReadFails(c)
               \/ ResolveTable(c) \/ ReadRows(c)
        PROVE  UNCHANGED <<rows, generation, sourceRev, touched>>
    BY <2>1
    DEF load, loadMore, CapabilitiesAnswer, InspectAnswer, LoadFails, ReadFails, ResolveTable,
        ReadRows, state, history
  <2>2. ASSUME NEW r \in Records,
               \/ beginEdit(r) \/ cancel(r)
               \/ \E f \in Fields, v \in Values : setDraftField(r, f, v)
               \/ save(r) \/ ForeignChange(r)
        PROVE  UNCHANGED <<rows, generation, sourceRev, touched>>
    BY <2>2 DEF beginEdit, cancel, setDraftField, save, ForeignChange, state, reads, history
  <2>3. ASSUME UpdaterExecutes \/ UpdaterAnswers \/ ErrorAnswer \/ TransportFails
        PROVE  UNCHANGED <<rows, generation, sourceRev, touched>>
    BY <2>3
    DEF UpdaterExecutes, UpdaterAnswers, ErrorAnswer, TransportFails, state, reads, history
  <2>4. QED BY <1>1, <1>2, <1>3, <1>4, <1>6, <2>1, <2>2, <2>3, NextCases
<1>7. QED BY <1>5, <1>6

-----------------------------------------------------------------------------
(* Who is at work.                                                         *)

\* A call that only moves on waits for nobody and nobody's wait is for nothing.
LEMMA MoveKeepsWork ==
  ASSUME TypeInv, Work, NEW c \in Calls, calls[c].pc # "idle", NEW x \in CallRecord,
         calls' = [calls EXCEPT ![c] = x], x.gen = calls[c].gen,
         x.pc \notin {"idle", "waiting"}, UNCHANGED <<activeRead, generation>>,
         phase' \in Busy => phase \in Busy \/ x.gen = generation
  PROVE  Work'
<1>1. calls' \in [Calls -> CallRecord] /\ \A d \in Calls : calls'[d] = IF d = c THEN x ELSE calls[d]
  BY ReadFacts
<1>2. phase' \in Busy => \E d \in Calls : calls'[d].pc # "idle" /\ calls'[d].gen = generation'
  BY <1>1, ReadFacts DEF Work, SpinnerMeansWork, Current
<1>3. \A d \in Calls : calls'[d].pc = "waiting" =>
        calls'[d].prior \in Calls /\ calls'[calls'[d].prior].pc # "idle"
  BY <1>1 DEF Work, SpinnerMeansWork
<1>4. activeRead' # None => calls'[activeRead'].pc # "idle"
  BY <1>1, ReadFacts DEF Work
<1>5. QED BY <1>2, <1>3, <1>4 DEF Work, SpinnerMeansWork, Current

\* The end of a read leaves nobody waiting for it, and the spinner to a call of
\* the current generation.
LEMMA FinishKeepsWork ==
  ASSUME TypeInv, Work, NEW c \in Calls, calls[c].pc \notin {"idle", "waiting"}, Finish(c),
         generation' = generation,
         phase' \in Busy => phase \in Busy /\ ~Current(c)
  PROVE  Work'
<1>1. /\ calls' \in [Calls -> CallRecord] /\ activeRead' \in Calls \union {None}
      /\ \A d \in Calls : d # c =>
           calls'[d].gen = calls[d].gen /\ (calls[d].pc # "idle" => calls'[d].pc # "idle")
      /\ \A d \in Calls : calls'[d].pc = "waiting" => calls'[d] = calls[d] /\ calls[d].prior # c
  BY ReadFacts, Finished, FinishedCalls
<1>2. phase' \in Busy => \E d \in Calls : calls'[d].pc # "idle" /\ calls'[d].gen = generation'
  BY <1>1 DEF Work, SpinnerMeansWork, Current
<1>3. \A d \in Calls : calls'[d].pc = "waiting" =>
        calls'[d].prior \in Calls /\ calls'[calls'[d].prior].pc # "idle"
  BY <1>1 DEF Work, SpinnerMeansWork
<1>4. activeRead' # None => calls'[activeRead'].pc # "idle"
  <2>1. CASE activeRead' \in Waiters(c)
    <3>1. activeRead' \in Calls /\ activeRead' # c
      BY <2>1 DEF Waiters
    <3>2. calls[activeRead'].pc # "idle"
      BY <2>1 DEF Waiters
    <3>3. QED BY <1>1, <3>1, <3>2
  <2>2. CASE activeRead' = activeRead /\ activeRead # c
    BY <1>1, <2>2, ReadFacts DEF Work
  <2>3. QED BY <2>1, <2>2, ReadFacts, Finished
<1>5. QED BY <1>2, <1>3, <1>4 DEF Work, SpinnerMeansWork, Current

\* A new call is at work for the current generation, or waits for one that is.
LEMMA StartKeepsWork ==
  ASSUME TypeInv, Work, NEW c \in Calls, calls[c].pc = "idle", NEW x \in CallRecord,
         calls' = [calls EXCEPT ![c] = x], x.gen = generation', x.pc # "idle",
         x.pc = "waiting" => x.prior = activeRead /\ activeRead # None,
         \/ activeRead' = c
         \/ activeRead' = activeRead /\ activeRead # None
  PROVE  Work'
<1>1. calls' \in [Calls -> CallRecord] /\ \A d \in Calls : calls'[d] = IF d = c THEN x ELSE calls[d]
  BY ReadFacts
<1>2. \E d \in Calls : calls'[d].pc # "idle" /\ calls'[d].gen = generation'
  BY <1>1
<1>3. activeRead # None => activeRead \in Calls /\ activeRead # c /\ calls[activeRead].pc # "idle"
  BY ReadFacts DEF Work
<1>4. ASSUME NEW d \in Calls, calls'[d].pc = "waiting"
      PROVE  calls'[d].prior \in Calls /\ calls'[calls'[d].prior].pc # "idle"
  <2>1. CASE d = c
    BY <1>1, <1>3, <1>4, <2>1
  <2>2. CASE d # c
    <3>1. calls'[d] = calls[d] /\ calls[d].prior \in Calls /\ calls[calls[d].prior].pc # "idle"
      BY <1>1, <1>4, <2>2 DEF Work, SpinnerMeansWork
    <3>2. QED BY <1>1, <3>1
  <2>3. QED BY <2>1, <2>2
<1>5. activeRead' # None => calls'[activeRead'].pc # "idle"
  BY <1>1, <1>3
<1>6. QED BY <1>2, <1>4, <1>5 DEF Work, SpinnerMeansWork, Current

\* Every step keeps whoever is waited for at work.
LEMMA WorkNext == TypeInv /\ Work /\ [Next]_vars => Work'
<1> SUFFICES ASSUME TypeInv, Work, [Next]_vars PROVE Work'
  OBVIOUS
<1>1. CASE UNCHANGED <<phase, calls, activeRead, generation>>
  BY <1>1 DEF Work, SpinnerMeansWork, Current
<1>2. ASSUME NEW c \in Calls, load(c) \/ refresh(c) \/ loadMore(c) PROVE Work'
  <2>1. calls[c].pc = "idle"
    BY <1>2 DEF load, refresh, loadMore, Free
  <2>2. CASE load(c)
    <3>1. PICK x \in CallRecord :
            calls' = [calls EXCEPT ![c] = x] /\ x.pc = "caps" /\ x.gen = generation
      BY <2>2, ReadFacts, Started DEF load
    <3>2. activeRead' = c /\ generation' = generation
      BY <2>2 DEF load
    <3>3. QED BY <2>1, <3>1, <3>2, StartKeepsWork
  <2>3. CASE refresh(c)
    <3>1. generation' = generation + 1 /\ generation + 1 \in 0..MaxRefreshes
      BY <2>3, ReadFacts DEF refresh
    <3>2. CASE activeRead = None
      <4>1. PICK x \in CallRecord :
              calls' = [calls EXCEPT ![c] = x] /\ x.pc = "caps" /\ x.gen = generation + 1
        BY <2>3, <3>1, <3>2, Started DEF refresh
      <4>2. activeRead' = c
        BY <2>3, <3>2 DEF refresh
      <4>3. QED BY <2>1, <3>1, <4>1, <4>2, StartKeepsWork
    <3>3. CASE activeRead # None
      <4>1. PICK x \in CallRecord :
              calls' = [calls EXCEPT ![c] = x] /\ x.pc = "waiting" /\ x.gen = generation + 1
              /\ x.prior = activeRead
        BY <2>3, <3>1, <3>3, ReadFacts, Started DEF refresh
      <4>2. activeRead' = activeRead
        BY <2>3, <3>3 DEF refresh
      <4>3. QED BY <2>1, <3>1, <3>3, <4>1, <4>2, StartKeepsWork
    <3>4. QED BY <3>2, <3>3
  <2>4. CASE loadMore(c)
    <3>1. PICK x \in CallRecord :
            calls' = [calls EXCEPT ![c] = x] /\ x.pc = "read" /\ x.gen = generation
      BY <2>4, ReadFacts, Started DEF loadMore
    <3>2. activeRead' = c /\ generation' = generation
      BY <2>4 DEF loadMore
    <3>3. QED BY <2>1, <3>1, <3>2, StartKeepsWork
  <2>5. QED BY <1>2, <2>2, <2>3, <2>4
<1>3. ASSUME NEW c \in Calls, NEW pc \in {"inspect", "read"}, Advance(c, pc),
             calls[c].pc # "idle", generation' = generation,
             phase' \in Busy => phase \in Busy \/ Current(c)
      PROVE  Work'
  <2>1. PICK i \in CallRecord : i = calls[c]
    BY ReadFacts
  <2> DEFINE x == [i EXCEPT !.pc = pc]
  <2>2. x \in CallRecord /\ x.pc = pc /\ x.gen = i.gen
    BY DEF CallRecord
  <2>3. calls' = [calls EXCEPT ![c] = x] /\ activeRead' = activeRead
    BY <1>3, <2>1, ReadFacts DEF Advance
  <2> HIDE DEF x
  <2>4. QED BY <1>3, <2>1, <2>2, <2>3, MoveKeepsWork DEF Current
<1>4. ASSUME NEW c \in Calls, CapabilitiesAnswer(c) \/ InspectAnswer(c) PROVE Work'
  <2>1. calls[c].pc \notin {"idle", "waiting"} /\ generation' = generation
    BY <1>4 DEF CapabilitiesAnswer, InspectAnswer
  <2>2. \/ Finish(c) /\ phase' = phase /\ ~Current(c)
        \/ /\ Advance(c, "inspect") \/ Advance(c, "read")
           /\ phase' = phase \/ Current(c)
    BY <1>4 DEF CapabilitiesAnswer, InspectAnswer, state
  <2>3. QED BY <1>3, <2>1, <2>2, FinishKeepsWork
<1>5. ASSUME NEW c \in Calls, Throw(c), calls[c].pc \notin {"idle", "waiting"},
             generation' = generation
      PROVE  Work'
  <2>1. phase' \in Busy => phase \in Busy /\ ~Current(c)
    BY <1>5 DEF Throw, Busy
  <2>2. QED BY <1>5, <2>1, FinishKeepsWork DEF Throw
<1>6. ASSUME NEW c \in Calls, LoadFails(c) \/ ReadFails(c) PROVE Work'
  <2>1. calls[c].pc \notin {"idle", "waiting"} /\ generation' = generation
    BY <1>6 DEF LoadFails, ReadFails
  <2>2. CASE Throw(c)
    BY <1>5, <2>1, <2>2
  <2>3. CASE ~Throw(c)
    <3>1. calls' = [calls EXCEPT ![c].tries = 1, ![c].pc = "read", ![c].label = 0, ![c].page = <<>>]
          /\ UNCHANGED <<activeRead, phase>>
      BY <1>6, <2>3 DEF LoadFails, ReadFails
    <3>2. PICK i \in CallRecord : i = calls[c]
      BY ReadFacts
    <3> DEFINE x == [i EXCEPT !.tries = 1, !.pc = "read", !.label = 0, !.page = <<>>]
    <3>3. x \in CallRecord /\ x.pc = "read" /\ x.gen = i.gen
      <4>1. <<>> \in Page /\ 0 \in Revisions
        BY DEF Page, Revisions
      <4>2. QED BY <4>1 DEF CallRecord
    <3>4. calls' = [calls EXCEPT ![c] = x]
      BY <3>1, <3>2, ReadFacts
    <3> HIDE DEF x
    <3>5. QED BY <2>1, <3>1, <3>2, <3>3, <3>4, MoveKeepsWork
  <2>4. QED BY <2>2, <2>3
<1>7. ASSUME NEW c \in Calls, ResolveTable(c) \/ ReadRows(c) PROVE Work'
  <2>1. calls[c].pc # "idle" /\ UNCHANGED <<activeRead, generation, phase>>
    BY <1>7 DEF ResolveTable, ReadRows, state
  <2>2. PICK i \in CallRecord : i = calls[c]
    BY ReadFacts
  <2>3. \E x \in CallRecord : /\ calls' = [calls EXCEPT ![c] = x] /\ x.gen = i.gen
                              /\ x.pc \in {"bound", "answered"}
    <3>1. calls' \in [Calls -> CallRecord]
      BY <1>7, FetchTypes, ReadFacts DEF TypeInv, TypeOK
    <3>2. CASE ResolveTable(c)
      <4> DEFINE x == [i EXCEPT !.pc = "bound", !.label = tableRev]
      <4>1. calls' = [calls EXCEPT ![c] = x]
        BY <2>2, <3>2, ReadFacts DEF ResolveTable
      <4>2. x.gen = i.gen /\ x.pc = "bound"
        BY DEF CallRecord
      <4> HIDE DEF x
      <4>3. x \in CallRecord
        BY <3>1, <4>1, ReadFacts
      <4>4. QED BY <4>1, <4>2, <4>3
    <3>3. CASE ReadRows(c)
      <4> DEFINE page == [r \in RecordsOn(IF i.kind = "more" THEN 2 ELSE 1) |-> table[r].vals]
                 x == [i EXCEPT !.pc = "answered", !.page = page]
      <4>1. calls' = [calls EXCEPT ![c] = x]
        BY <2>2, <3>3, ReadFacts DEF ReadRows
      <4> HIDE DEF page
      <4>2. x.gen = i.gen /\ x.pc = "answered"
        BY DEF CallRecord
      <4> HIDE DEF x
      <4>3. x \in CallRecord
        BY <3>1, <4>1, ReadFacts
      <4>4. QED BY <4>1, <4>2, <4>3
    <3>4. QED BY <1>7, <3>2, <3>3
  <2>4. QED BY <2>1, <2>2, <2>3, MoveKeepsWork
<1>8. ASSUME NEW c \in Calls, ReadAnswer(c) PROVE Work'
  <2>1. /\ calls[c].pc \notin {"idle", "waiting"} /\ Finish(c) /\ generation' = generation
        /\ phase' \in Busy => phase \in Busy /\ ~Current(c)
    BY <1>8 DEF ReadAnswer, StalePage, Settled, Busy
  <2>2. QED BY <2>1, FinishKeepsWork
<1>9. CASE UNCHANGED vars
  BY <1>1, <1>9 DEF vars, state, reads
<1>10. CASE Next
  <2>1. ASSUME NEW r \in Records,
               \/ beginEdit(r) \/ cancel(r)
               \/ \E f \in Fields, v \in Values : setDraftField(r, f, v)
               \/ save(r) \/ ForeignChange(r)
        PROVE  UNCHANGED <<phase, calls, activeRead, generation>>
    BY <2>1 DEF beginEdit, cancel, setDraftField, save, ForeignChange, state, reads
  <2>2. ASSUME \/ UpdaterExecutes \/ UpdaterAnswers
               \/ SaveAnswer \/ ConflictAnswer \/ ErrorAnswer \/ TransportFails
        PROVE  UNCHANGED <<phase, calls, activeRead, generation>>
    BY <2>2
    DEF UpdaterExecutes, UpdaterAnswers, SaveAnswer, ConflictAnswer, ErrorAnswer,
        TransportFails, state, reads
  <2>3. QED BY <1>1, <1>2, <1>4, <1>6, <1>7, <1>8, <1>10, <2>1, <2>2, NextCases
<1>11. QED BY <1>9, <1>10

-----------------------------------------------------------------------------
(* Edits.                                                                  *)

\* What becomes of the drafts when no edit begins and no request leaves: some go,
\* the others stay the drafts of their edits, under their keys.
DraftsFollow ==
  \A r \in Records : IsDraft(drafts'[r]) =>
    IsDraft(drafts[r]) /\ drafts'[r].edit = drafts[r].edit /\ drafts'[r].key = drafts[r].key

\* A page marks drafts as read again.
LEMMA PageFollows ==
  ASSUME TypeInv, NEW c \in Calls, ReadAnswer(c)
  PROVE  DraftsFollow
<1>1. CASE drafts' = drafts
  BY <1>1 DEF DraftsFollow
<1>2. CASE drafts' = [r \in Records |-> Reread(drafts[r], r, DOMAIN calls[c].page)]
  <2>1. ASSUME NEW r \in Records, IsDraft(drafts'[r])
        PROVE  /\ IsDraft(drafts[r]) /\ drafts'[r].edit = drafts[r].edit
               /\ drafts'[r].key = drafts[r].key
    <3>1. drafts'[r] = Reread(drafts[r], r, DOMAIN calls[c].page)
      BY <1>2
    <3>2. CASE IsDraft(drafts[r])
      <4>1. drafts[r] \in Draft
        BY <3>2, EditFacts
      <4>2. QED BY <3>1, <3>2, <4>1, DraftReread DEF Reread
    <3>3. CASE ~IsDraft(drafts[r])
      BY <2>1, <3>1, <3>3 DEF Reread
    <3>4. QED BY <3>2, <3>3
  <2>2. QED BY <2>1 DEF DraftsFollow
<1>3. QED BY <1>1, <1>2 DEF ReadAnswer

\* An answer takes its draft away, leaves it, or gives it another base.
LEMMA AnswerFollows ==
  ASSUME TypeInv, SaveAnswer \/ ConflictAnswer \/ ErrorAnswer \/ TransportFails
  PROVE  DraftsFollow
<1>1. PICK u \in Update : u = update /\ u.rec \in Records
  BY EditFacts, UpdateFields DEF SaveAnswer, ConflictAnswer, ErrorAnswer, TransportFails
<1>2. CASE ~ConflictAnswer
  <2>1. \/ drafts' = drafts
        \/ drafts' = [drafts EXCEPT ![u.rec] = None]
        \/ drafts' = [drafts EXCEPT ![u.rec] = Undefined]
    BY <1>1, <1>2 DEF SaveAnswer, ErrorAnswer, TransportFails
  <2>2. QED BY <2>1, EditFacts DEF DraftsFollow, IsDraft
<1>3. CASE ConflictAnswer
  <2>1. u.current \in Shown
    BY <1>1, <1>3, UpdateFields DEF ConflictAnswer, TypeInv, Requests
  <2>2. drafts' = [drafts EXCEPT ![u.rec] = IF IsDraft(drafts[u.rec])
                                              THEN Rebased(drafts[u.rec], u.current)
                                            ELSE Undefined]
    BY <1>1, <1>3, EditFacts DEF ConflictAnswer
  <2>3. CASE IsDraft(drafts[u.rec])
    <3>1. PICK d \in Draft : d = drafts[u.rec]
      BY <1>1, <2>3, EditFacts
    <3>2. PICK e \in Draft : e = Rebased(d, u.current) /\ e.key = d.key /\ e.edit = d.edit
      BY <2>1, DraftRebased
    <3>3. drafts' = [drafts EXCEPT ![u.rec] = e]
      BY <2>2, <2>3, <3>1, <3>2
    <3>4. QED BY <1>1, <2>3, <3>1, <3>2, <3>3, EditFacts DEF DraftsFollow
  <2>4. CASE ~IsDraft(drafts[u.rec])
    BY <2>2, <2>4, EditFacts DEF DraftsFollow, IsDraft
  <2>5. QED BY <2>3, <2>4
<1>4. QED BY <1>2, <1>3

\* The user changes a field or cancels.
LEMMA FieldFollows ==
  ASSUME TypeInv, NEW r \in Records,
         cancel(r) \/ \E f \in Fields, v \in Values : setDraftField(r, f, v)
  PROVE  DraftsFollow
<1>1. CASE cancel(r)
  BY <1>1, EditFacts DEF cancel, DraftsFollow, IsDraft
<1>2. ASSUME NEW f \in Fields, NEW v \in Values, setDraftField(r, f, v) PROVE DraftsFollow
  <2>1. PICK d \in Draft : d = drafts[r] /\ IsDraft(drafts[r])
    BY <1>2, EditFacts DEF setDraftField
  <2> DEFINE changed == IF v = d.base[f] THEN d.changed \ {f} ELSE d.changed \union {f}
             e == [d EXCEPT !.vals[f] = v, !.changed = changed]
  <2>2. drafts' = [drafts EXCEPT ![r] = e]
    BY <1>2, <2>1, EditFacts DEF setDraftField
  <2> HIDE DEF changed
  <2>3. e.edit = d.edit /\ e.key = d.key
    BY DEF Draft
  <2> HIDE DEF e
  <2>4. QED BY <2>1, <2>2, <2>3, EditFacts DEF DraftsFollow
<1>3. QED BY <1>1, <1>2

\* While nothing is executed and drafts only follow, nothing about edits changes.
LEMMA FollowKeepsEdits ==
  ASSUME TypeInv, EditInv, DraftsFollow, UNCHANGED <<ledger, commits, edits>>,
         \/ update' = None
         \/ update' # None /\ update # None /\ update'.key = update.key /\ update'.edit = update.edit
  PROVE  EditInv'
<1>1. EditCommitsOnce'
  BY DEF EditInv, EditCommitsOnce
<1>2. OneKey'
  BY DEF EditInv, OneKey, DraftsFollow
<1>3. ExecutedIsKnown'
  BY DEF EditInv, ExecutedIsKnown, DraftsFollow
<1>4. QED BY <1>1, <1>2, <1>3 DEF EditInv

\* A new edit has a number of its own.
LEMMA BeginKeepsEdits ==
  ASSUME TypeInv, EditInv, NEW r \in Records, beginEdit(r)
  PROVE  EditInv'
<1>1. /\ edits' = edits + 1 /\ edits \in Nat
      /\ UNCHANGED <<ledger, commits, update>>
  BY EditFacts DEF beginEdit, server
<1>2. /\ drafts'[r].edit = edits + 1 /\ drafts'[r].key = 0
      /\ \A q \in Records : q # r => drafts'[q] = drafts[q]
  BY EditFacts DEF beginEdit
<1>3. \A q \in Records : IsDraft(drafts[q]) => drafts[q].edit <= edits /\ drafts[q].edit \in Nat
  BY EditFacts, DraftFields
<1>4. update # None => update.edit <= edits /\ update.edit \in Nat
  BY EditFacts, UpdateFields DEF TypeInv, Requests
<1>5. OneKey'
  <2>1. \A q, p \in Records : IsDraft(drafts'[q]) /\ IsDraft(drafts'[p]) /\ q # p =>
          drafts'[q].edit # drafts'[p].edit
    BY <1>1, <1>2, <1>3 DEF EditInv, OneKey
  <2>2. update' # None => \A q \in Records : IsDraft(drafts'[q]) /\ drafts'[q].edit = update'.edit =>
          drafts'[q].key = update'.key
    BY <1>1, <1>2, <1>4 DEF EditInv, OneKey
  <2>3. QED BY <2>1, <2>2 DEF OneKey
<1>6. ExecutedIsKnown'
  <2>1. ASSUME NEW e \in 1..MaxEdits, commits'[e] # 0
        PROVE  /\ e <= edits'
               /\ \A q \in Records : IsDraft(drafts'[q]) /\ drafts'[q].edit = e =>
                    drafts'[q].key \in DOMAIN ledger'
               /\ update' # None /\ update'.edit = e => update'.key \in DOMAIN ledger'
    BY <1>1, <1>2, <2>1 DEF EditInv, ExecutedIsKnown
  <2>2. QED BY <2>1 DEF ExecutedIsKnown
<1>7. EditCommitsOnce'
  BY <1>1 DEF EditInv, EditCommitsOnce
<1>8. QED BY <1>5, <1>6, <1>7 DEF EditInv

\* A request carries its edit's key: the one the draft has, or a new one if the
\* edit was never sent.
LEMMA SaveKeepsEdits ==
  ASSUME TypeInv, EditInv, NEW r \in Records, save(r)
  PROVE  EditInv'
<1>1. PICK d \in Draft, k \in 1..MaxSaves :
           /\ d = drafts[r] /\ k = KeyOf(d) /\ k <= keys' /\ k \in 1..saves'
           /\ update' \in Update
           /\ update'.rec = r /\ update'.key = k /\ update'.edit = d.edit
           /\ update'.patch = [f \in d.changed |-> d.vals[f]]
           /\ update'.base = [f \in d.changed |-> d.base[f]]
           /\ update'.answer = "none" /\ update'.current = None
  BY SaveSends
<1>2. /\ drafts' = [drafts EXCEPT ![r].key = k] /\ update = None
      /\ UNCHANGED <<ledger, commits, edits>>
  BY <1>1 DEF save, server
<1> DEFINE e == [d EXCEPT !.key = k]
<1>3. e \in Draft /\ e.key = k /\ e.edit = d.edit
  BY DEF Draft
<1>4. drafts' = [drafts EXCEPT ![r] = e]
  BY <1>1, <1>2, EditFacts
<1> HIDE DEF e
<1>5. drafts'[r] = e /\ \A q \in Records : q # r => drafts'[q] = drafts[q]
  BY <1>4, EditFacts
<1>6. IsDraft(d) /\ IsDraft(e) /\ update' # None
  BY <1>1, <1>3, DraftFields, UpdateFields
<1>7. OneKey'
  BY <1>1, <1>3, <1>5, <1>6 DEF EditInv, OneKey
<1>8. commits[d.edit] # 0 => k \in DOMAIN ledger
  <2>1. SUFFICES ASSUME commits[d.edit] # 0 PROVE k \in DOMAIN ledger
    OBVIOUS
  <2>2. d.key \in DOMAIN ledger /\ DOMAIN ledger \subseteq 1..keys
    BY <1>1, <1>6, <2>1, DraftFields DEF EditInv, ExecutedIsKnown, TypeInv, Requests
  <2>3. d.key # 0
    BY <2>2
  <2>4. QED BY <1>1, <2>2, <2>3 DEF KeyOf, NoKey
<1>9. ExecutedIsKnown'
  <2>1. ASSUME NEW n \in 1..MaxEdits, commits'[n] # 0
        PROVE  /\ n <= edits'
               /\ \A q \in Records : IsDraft(drafts'[q]) /\ drafts'[q].edit = n =>
                    drafts'[q].key \in DOMAIN ledger'
               /\ update' # None /\ update'.edit = n => update'.key \in DOMAIN ledger'
    BY <1>1, <1>2, <1>3, <1>5, <1>8, <2>1 DEF EditInv, ExecutedIsKnown
  <2>2. QED BY <2>1 DEF ExecutedIsKnown
<1>10. EditCommitsOnce'
  BY <1>2 DEF EditInv, EditCommitsOnce
<1>11. QED BY <1>7, <1>9, <1>10 DEF EditInv

\* The updater executes a request only while its key is unknown, so its edit was
\* not executed before.
LEMMA ExecuteKeepsEdits ==
  ASSUME TypeInv, EditInv, UpdaterExecutes
  PROVE  EditInv'
<1>1. PICK u \in Update : u = update /\ u.key \in 1..MaxSaves /\ u.edit \in 1..MaxEdits /\ u # None
  BY EditFacts, UpdateFields DEF UpdaterExecutes
<1>2. /\ update'.key = u.key /\ update'.edit = u.edit
      /\ DOMAIN ledger' = DOMAIN ledger \union {u.key} /\ u.key \notin DOMAIN ledger
      /\ commits' = [commits EXCEPT ![u.edit] = commits[u.edit] + 1]
      /\ UNCHANGED <<drafts, edits>>
  <2>1. PICK kind \in {"saved", "unverified", "unknown"} :
          update' = [u EXCEPT !.answer = kind,
                              !.current = [rev |-> tableRev + 1, vals |-> Patched(u.rec, u.patch)]]
    BY <1>1 DEF UpdaterExecutes, Answer
  <2>2. update'.key = u.key /\ update'.edit = u.edit
    BY <2>1 DEF Update
  <2>3. QED BY <1>1, <2>2 DEF UpdaterExecutes, Known, state
<1>3. commits \in [1..MaxEdits -> Nat] /\ commits[u.edit] = 0 /\ u.edit <= edits
  <2>1. commits \in [1..MaxEdits -> Nat] /\ u.edit <= edits
    BY <1>1 DEF TypeInv, Counters, Requests
  <2>2. QED BY <1>1, <1>2, <2>1 DEF EditInv, ExecutedIsKnown
<1>4. EditCommitsOnce'
  BY <1>1, <1>2, <1>3 DEF EditInv, EditCommitsOnce
<1>5. OneKey'
  BY <1>1, <1>2 DEF EditInv, OneKey
<1>6. ExecutedIsKnown'
  <2>1. ASSUME NEW n \in 1..MaxEdits, commits'[n] # 0
        PROVE  /\ n <= edits'
               /\ \A q \in Records : IsDraft(drafts'[q]) /\ drafts'[q].edit = n =>
                    drafts'[q].key \in DOMAIN ledger'
               /\ update' # None /\ update'.edit = n => update'.key \in DOMAIN ledger'
    <3>1. CASE n = u.edit
      BY <1>1, <1>2, <1>3, <3>1 DEF EditInv, OneKey
    <3>2. CASE n # u.edit
      BY <1>1, <1>2, <1>3, <2>1, <3>2 DEF EditInv, ExecutedIsKnown
    <3>3. QED BY <3>1, <3>2
  <2>2. QED BY <2>1 DEF ExecutedIsKnown
<1>7. QED BY <1>4, <1>5, <1>6 DEF EditInv

\* Every step keeps what is known of the edits.
LEMMA EditsNext == TypeInv /\ EditInv /\ [Next]_vars => EditInv'
<1> SUFFICES ASSUME TypeInv, EditInv, [Next]_vars PROVE EditInv'
  OBVIOUS
<1>1. CASE UNCHANGED <<drafts, update, ledger, commits, edits>>
  BY <1>1 DEF EditInv, EditCommitsOnce, OneKey, ExecutedIsKnown
<1>2. ASSUME NEW c \in Calls, ReadAnswer(c) PROVE EditInv'
  <2>1. UNCHANGED <<ledger, commits, edits, update>>
    BY <1>2 DEF ReadAnswer, server
  <2>2. QED BY <1>2, <2>1, PageFollows, FollowKeepsEdits
<1>3. ASSUME SaveAnswer \/ ConflictAnswer \/ ErrorAnswer \/ TransportFails PROVE EditInv'
  <2>1. UNCHANGED <<ledger, commits, edits>> /\ update' = None
    BY <1>3
    DEF SaveAnswer, ConflictAnswer, ErrorAnswer, TransportFails, Settle, server, history
  <2>2. QED BY <1>3, <2>1, AnswerFollows, FollowKeepsEdits
<1>4. ASSUME NEW r \in Records,
             cancel(r) \/ \E f \in Fields, v \in Values : setDraftField(r, f, v)
      PROVE  EditInv'
  <2>1. UNCHANGED <<ledger, commits, edits, update>>
    BY <1>4 DEF cancel, setDraftField, server, history
  <2>2. QED BY <1>4, <2>1, FieldFollows, FollowKeepsEdits
<1>5. ASSUME UpdaterAnswers PROVE EditInv'
  <2>1. PICK u \in Update : u = update /\ u # None
    BY <1>5, EditFacts, UpdateFields DEF UpdaterAnswers
  <2>3. update'.key = u.key /\ update'.edit = u.edit /\ update' # None
    BY <1>5, <2>1, UpdaterSays, UpdateFields
  <2>4. UNCHANGED <<drafts, ledger, commits, edits>>
    BY <1>5 DEF UpdaterAnswers, server, state, history
  <2>5. DraftsFollow
    BY <2>4 DEF DraftsFollow
  <2>6. QED BY <2>1, <2>3, <2>4, <2>5, FollowKeepsEdits
<1>6. CASE UNCHANGED vars
  BY <1>1, <1>6 DEF vars, server, state, history
<1>7. CASE Next
  <2>1. ASSUME NEW c \in Calls,
               \/ load(c) \/ refresh(c) \/ loadMore(c)
               \/ CapabilitiesAnswer(c) \/ InspectAnswer(c) \/ LoadFails(c) \/ ReadFails(c)
               \/ ResolveTable(c) \/ ReadRows(c)
        PROVE  UNCHANGED <<drafts, update, ledger, commits, edits>>
    BY <2>1
    DEF load, refresh, loadMore, CapabilitiesAnswer, InspectAnswer, LoadFails, ReadFails,
        ResolveTable, ReadRows, server, state, history
  <2>2. ASSUME NEW r \in Records, ForeignChange(r)
        PROVE  UNCHANGED <<drafts, update, ledger, commits, edits>>
    BY <2>2 DEF ForeignChange, state, history
  <2>3. QED
    BY <1>1, <1>2, <1>3, <1>4, <1>5, <1>7, <2>1, <2>2, NextCases, BeginKeepsEdits,
       SaveKeepsEdits, ExecuteKeepsEdits
<1>8. QED BY <1>6, <1>7

-----------------------------------------------------------------------------
(* Labels.                                                                 *)

\* A change of a record gets a revision above every label, so no label says
\* anything of the record any more, and those of the others stay true.
LEMMA ChangeKeepsTruth ==
  ASSUME TypeInv, LabelsAreTrue, NEW r \in Records, NEW vals,
         table' = [table EXCEPT ![r] = [vals |-> vals, at |-> tableRev + 1]],
         tableRev' = tableRev + 1
  PROVE  /\ ChangesAreCounted'
         /\ table'[r].at = tableRev + 1
         /\ \A q \in Records, rev \in Revisions : \A v :
              TrueAt(q, rev, v) => rev <= tableRev' /\ (table'[q].at <= rev => table'[q].vals = v)
<1>1. /\ table \in [Records -> [vals : Contents, at : Revisions]]
      /\ tableRev \in Nat /\ \A q \in Records : table[q].at \in Nat /\ table[q].at <= tableRev
  BY DEF TypeInv, TypeOK, LabelsAreTrue, ChangesAreCounted, Revisions
<1>2. \A q \in Records : table'[q] = IF q = r THEN [vals |-> vals, at |-> tableRev + 1] ELSE table[q]
  BY <1>1
<1>3. ChangesAreCounted'
  <2>1. ASSUME NEW q \in Records PROVE table'[q].at <= tableRev'
    BY <1>1, <1>2
  <2>2. QED BY <2>1 DEF ChangesAreCounted
<1>4. table'[r].at = tableRev + 1
  BY <1>2
<1>5. ASSUME NEW q \in Records, NEW rev \in Revisions, NEW v, TrueAt(q, rev, v)
      PROVE  rev <= tableRev' /\ (table'[q].at <= rev => table'[q].vals = v)
  <2>1. rev \in Nat /\ rev <= tableRev /\ (table[q].at <= rev => table[q].vals = v)
    BY <1>5 DEF TrueAt, Revisions
  <2>2. CASE q = r
    BY <1>1, <1>4, <2>1, <2>2
  <2>3. CASE q # r
    BY <1>1, <1>2, <2>1, <2>3
  <2>4. QED BY <2>2, <2>3
<1>6. QED BY <1>3, <1>4, <1>5

\* What has labels.
LEMMA LabelTypes ==
  ASSUME TypeInv
  PROVE  /\ \A r \in Records : rows[r] # None => rows[r] \in Row /\ rows[r].rev \in Revisions
         /\ \A c \in Calls : calls[c].label \in Revisions
         /\ \A c \in Calls : calls[c].pc = "answered" => DOMAIN calls[c].page \subseteq Records
         /\ \A k \in DOMAIN ledger :
              ledger[k].rec \in Records /\ ledger[k].row.rev \in Revisions
         /\ update # None =>
              /\ update \in Update /\ update.rec \in Records /\ update.rowRev \in Revisions
              /\ update.current # None => update.current \in Shown /\ update.current.rev \in Revisions
<1>1. \A r \in Records : rows[r] # None => rows[r] \in Row /\ rows[r].rev \in Revisions
  BY ReadFacts DEF Row
<1>2. \A c \in Calls : calls[c].label \in Revisions
  BY ReadFacts, CallFields
<1>3. \A c \in Calls : calls[c].pc = "answered" => DOMAIN calls[c].page \subseteq Records
  BY DEF TypeInv, Pages, RecordsOn
<1>4. \A k \in DOMAIN ledger : ledger[k].rec \in Records /\ ledger[k].row.rev \in Revisions
  BY DEF TypeInv, Requests, Shown
<1>5. update # None =>
        /\ update \in Update /\ update.rec \in Records /\ update.rowRev \in Revisions
        /\ update.current # None => update.current \in Shown
  BY EditFacts, UpdateFields
<1>6. update # None /\ update.current # None => update.current.rev \in Revisions
  BY <1>5 DEF Shown
<1>7. QED BY <1>1, <1>2, <1>3, <1>4, <1>5, <1>6

\* What a change of the table by anyone leaves true.
LEMMA ChangeKeepsLabels ==
  ASSUME TypeInv, LabelsAreTrue, NEW r \in Records, NEW vals,
         table' = [table EXCEPT ![r] = [vals |-> vals, at |-> tableRev + 1]],
         tableRev' = tableRev + 1, UNCHANGED <<rows, calls>>
  PROVE  /\ ChangesAreCounted' /\ RowsAreTrue' /\ CallsAreTrue'
         /\ \A k \in DOMAIN ledger :
              /\ ledger[k].row.rev <= tableRev'
              /\ table'[ledger[k].rec].at <= ledger[k].row.rev =>
                   table'[ledger[k].rec].vals = ledger[k].row.vals
<1>1. ChangesAreCounted'
  BY ChangeKeepsTruth
<1>2. RowsAreTrue'
  <2>1. ASSUME NEW q \in Records, rows'[q] # None
        PROVE  TrueAt(q, rows[q].rev, rows[q].vals)'
    <3>1. TrueAt(q, rows[q].rev, rows[q].vals) /\ rows[q].rev \in Revisions /\ rows' = rows
      BY <2>1, LabelTypes DEF LabelsAreTrue, RowsAreTrue
    <3>2. QED BY <3>1, ChangeKeepsTruth DEF TrueAt
  <2>2. QED BY <2>1 DEF RowsAreTrue
<1>3. CallsAreTrue'
  <2>1. ASSUME NEW c \in Calls PROVE CallIsTrue(calls[c])'
    <3>1. CallIsTrue(calls[c]) /\ calls' = calls /\ calls[c].label \in Revisions
          /\ (calls[c].pc = "answered" => DOMAIN calls[c].page \subseteq Records)
      BY LabelTypes DEF LabelsAreTrue, CallsAreTrue
    <3>2. calls[c].label <= tableRev'
      BY <3>1 DEF CallIsTrue, TypeInv, TypeOK, Revisions
    <3>3. ASSUME calls[c].pc = "answered", NEW q \in DOMAIN calls[c].page
          PROVE  /\ calls[c].label <= tableRev'
                 /\ table'[q].at <= calls[c].label => table'[q].vals = calls[c].page[q]
      <4>1. TrueAt(q, calls[c].label, calls[c].page[q]) /\ q \in Records
        BY <3>1, <3>3 DEF CallIsTrue
      <4>2. QED BY <3>1, <4>1, ChangeKeepsTruth
    <3>4. QED BY <3>1, <3>2, <3>3 DEF CallIsTrue, TrueAt
  <2>2. QED BY <2>1 DEF CallsAreTrue
<1>4. ASSUME NEW k \in DOMAIN ledger
      PROVE  /\ ledger[k].row.rev <= tableRev'
             /\ table'[ledger[k].rec].at <= ledger[k].row.rev =>
                  table'[ledger[k].rec].vals = ledger[k].row.vals
  <2>1. TrueAt(ledger[k].rec, ledger[k].row.rev, ledger[k].row.vals)
        /\ ledger[k].rec \in Records /\ ledger[k].row.rev \in Revisions
    BY LabelTypes DEF LabelsAreTrue, LedgerIsTrue
  <2>2. QED BY <2>1, ChangeKeepsTruth
<1>5. QED BY <1>1, <1>2, <1>3, <1>4

\* A step of a call that leaves the table alone: the label it takes is at most the
\* table's revision, and the page it brings is true.
LEMMA MoveKeepsCalls ==
  ASSUME TypeInv, CallsAreTrue, UNCHANGED <<table, tableRev>>, NEW c \in Calls,
         NEW x \in CallRecord, calls' = [calls EXCEPT ![c] = x], CallIsTrue(x)
  PROVE  CallsAreTrue'
<1>1. ASSUME NEW d \in Calls PROVE CallIsTrue(calls[d])'
  <2>1. calls'[d] = IF d = c THEN x ELSE calls[d]
    BY ReadFacts
  <2>2. CallIsTrue(calls'[d])
    BY <2>1 DEF CallsAreTrue
  <2>3. QED BY <2>2 DEF CallIsTrue, TrueAt
<1>2. QED BY <1>1 DEF CallsAreTrue

\* The end of a read.
LEMMA FinishKeepsCalls ==
  ASSUME TypeInv, CallsAreTrue, UNCHANGED <<table, tableRev>>, NEW c \in Calls, Finish(c)
  PROVE  CallsAreTrue'
<1>1. tableRev \in Nat
  BY ReadFacts DEF Revisions
<1>2. ASSUME NEW d \in Calls PROVE CallIsTrue(calls[d])'
  <2>1. CallIsTrue(calls'[d])
    <3>1. CASE d = c
      <4>1. calls'[d].label = 0 /\ calls'[d].pc = "idle"
        BY <3>1, ReadFacts, Finished, IdleFields
      <4>2. QED BY <1>1, <4>1 DEF CallIsTrue
    <3>2. CASE d # c /\ calls'[d] = calls[d]
      BY <3>2 DEF CallsAreTrue
    <3>3. CASE d # c /\ calls'[d] = [calls[d] EXCEPT !.pc = "caps", !.prior = None]
      <4>1. PICK i \in CallRecord : i = calls[d]
        BY ReadFacts
      <4>2. calls'[d] = [i EXCEPT !.pc = "caps", !.prior = None]
        BY <3>3, <4>1
      <4>3. calls'[d].pc = "caps" /\ calls'[d].label = i.label
        BY <4>2 DEF CallRecord
      <4>4. QED BY <4>1, <4>3 DEF CallIsTrue, CallsAreTrue
    <3>4. \/ d = c
          \/ d # c /\ calls'[d] = calls[d]
          \/ d # c /\ calls'[d] = [calls[d] EXCEPT !.pc = "caps", !.prior = None]
      <4>1. calls \in [Calls -> CallRecord] /\ activeRead \in Calls \union {None}
        BY ReadFacts
      <4>2. d # c =>
              \/ calls'[d] = calls[d] /\ d \notin Waiters(c)
              \/ d \in Waiters(c) /\ calls'[d] = [calls[d] EXCEPT !.pc = "caps", !.prior = None]
        BY <4>1, Finished
      <4>3. QED BY <4>2
    <3>5. QED BY <3>1, <3>2, <3>3, <3>4
  <2>2. QED BY <2>1 DEF CallIsTrue, TrueAt
<1>3. QED BY <1>2 DEF CallsAreTrue

\* Every step of a call keeps what its labels say.
LEMMA CallsStayTrue ==
  ASSUME TypeInv, LabelsAreTrue, NEW c \in Calls,
         \/ load(c) \/ refresh(c) \/ loadMore(c)
         \/ CapabilitiesAnswer(c) \/ InspectAnswer(c) \/ LoadFails(c) \/ ReadFails(c)
         \/ ResolveTable(c) \/ ReadRows(c) \/ ReadAnswer(c)
  PROVE  CallsAreTrue'
<1> USE DEF LabelsAreTrue
<1>1. UNCHANGED <<table, tableRev>> /\ tableRev \in Nat
  BY ReadFacts
  DEF load, refresh, loadMore, CapabilitiesAnswer, InspectAnswer, LoadFails, ReadFails,
      ResolveTable, ReadRows, ReadAnswer, server, Revisions
<1>2. CASE load(c) \/ refresh(c) \/ loadMore(c)
  <2>1. PICK kind \in {"load", "more"}, gen \in 0..MaxRefreshes, pc \in {"waiting", "caps", "read"},
             prior \in Calls \union {None} : Start(c, kind, gen, pc, prior)
    <3>1. CASE load(c)
      BY <3>1, ReadFacts DEF load
    <3>2. CASE refresh(c)
      <4>1. generation + 1 \in 0..MaxRefreshes
        BY <3>2, ReadFacts DEF refresh
      <4>2. QED BY <3>2, <4>1, ReadFacts DEF refresh
    <3>3. CASE loadMore(c)
      BY <3>3, ReadFacts DEF loadMore
    <3>4. QED BY <1>2, <3>1, <3>2, <3>3
  <2>2. PICK x \in CallRecord : calls' = [calls EXCEPT ![c] = x] /\ x.pc = pc /\ x.label = 0
    BY <2>1, Started
  <2>3. CallIsTrue(x)
    BY <1>1, <2>2 DEF CallIsTrue
  <2>4. QED BY <1>1, <2>2, <2>3, MoveKeepsCalls
<1>3. CASE Finish(c)
  BY <1>1, <1>3, FinishKeepsCalls
<1>4. ASSUME NEW pc \in {"inspect", "read"}, Advance(c, pc) PROVE CallsAreTrue'
  <2>1. PICK i \in CallRecord : i = calls[c] /\ i.label <= tableRev
    BY ReadFacts DEF CallsAreTrue, CallIsTrue
  <2> DEFINE x == [i EXCEPT !.pc = pc]
  <2>2. x \in CallRecord /\ x.pc = pc /\ x.label = i.label
    BY DEF CallRecord
  <2>3. calls' = [calls EXCEPT ![c] = x]
    BY <1>4, <2>1, ReadFacts DEF Advance
  <2> HIDE DEF x
  <2>4. CallIsTrue(x)
    BY <2>1, <2>2 DEF CallIsTrue
  <2>5. QED BY <1>1, <2>2, <2>3, <2>4, MoveKeepsCalls
<1>5. CASE CapabilitiesAnswer(c) \/ InspectAnswer(c)
  BY <1>3, <1>4, <1>5 DEF CapabilitiesAnswer, InspectAnswer
<1>6. CASE LoadFails(c) \/ ReadAnswer(c)
  BY <1>3, <1>6 DEF LoadFails, Throw, ReadAnswer
<1>7. CASE ReadFails(c)
  <2>1. CASE Throw(c)
    BY <1>3, <2>1 DEF Throw
  <2>2. CASE ~Throw(c)
    <3>1. PICK i \in CallRecord : i = calls[c]
      BY ReadFacts
    <3> DEFINE x == [i EXCEPT !.tries = 1, !.pc = "read", !.label = 0, !.page = <<>>]
    <3>2. x \in CallRecord /\ x.pc = "read" /\ x.label = 0
      <4>1. <<>> \in Page /\ 0 \in Revisions
        BY DEF Page, Revisions
      <4>2. QED BY <4>1 DEF CallRecord
    <3>3. calls' = [calls EXCEPT ![c] = x]
      BY <1>7, <2>2, <3>1, ReadFacts DEF ReadFails
    <3> HIDE DEF x
    <3>4. CallIsTrue(x)
      BY <1>1, <3>2 DEF CallIsTrue
    <3>5. QED BY <1>1, <3>2, <3>3, <3>4, MoveKeepsCalls
  <2>3. QED BY <2>1, <2>2
<1>8. CASE ResolveTable(c)
  <2>1. PICK i \in CallRecord : i = calls[c]
    BY ReadFacts
  <2> DEFINE x == [i EXCEPT !.pc = "bound", !.label = tableRev]
  <2>2. x \in CallRecord /\ x.pc = "bound" /\ x.label = tableRev
    BY ReadFacts DEF CallRecord
  <2>3. calls' = [calls EXCEPT ![c] = x]
    BY <1>8, <2>1, ReadFacts DEF ResolveTable
  <2> HIDE DEF x
  <2>4. CallIsTrue(x)
    BY <1>1, <2>2 DEF CallIsTrue
  <2>5. QED BY <1>1, <2>2, <2>3, <2>4, MoveKeepsCalls
<1>9. CASE ReadRows(c)
  <2>1. PICK i \in CallRecord : i = calls[c] /\ i.label <= tableRev
    BY ReadFacts DEF CallsAreTrue, CallIsTrue
  <2> DEFINE page == [r \in RecordsOn(IF i.kind = "more" THEN 2 ELSE 1) |-> table[r].vals]
             x == [i EXCEPT !.pc = "answered", !.page = page]
  <2>2. \A r \in DOMAIN page : page[r] = table[r].vals
    OBVIOUS
  <2>3. calls' = [calls EXCEPT ![c] = x]
    BY <1>9, <2>1, ReadFacts DEF ReadRows
  <2> HIDE DEF page
  <2>4. x.label = i.label /\ x.page = page
    BY DEF CallRecord
  <2> HIDE DEF x
  <2>5. x \in CallRecord
    <3>1. calls' \in [Calls -> CallRecord]
      BY <1>9, FetchTypes, ReadFacts DEF TypeInv, TypeOK
    <3>2. QED BY <2>3, <3>1, ReadFacts
  <2>6. CallIsTrue(x)
    BY <2>1, <2>2, <2>4 DEF CallIsTrue, TrueAt
  <2>7. QED BY <1>1, <2>3, <2>5, <2>6, MoveKeepsCalls
<1>10. QED BY <1>2, <1>5, <1>6, <1>7, <1>8, <1>9

\* The row an answer brings replaces the row that is shown.
LEMMA ReplaceKeepsRows ==
  ASSUME TypeInv, RowsAreTrue, UNCHANGED <<table, tableRev>>, NEW u \in Update, NEW row \in Shown,
         TrueAt(u.rec, row.rev, row.vals), rows' = Replace(u.rec, row)
  PROVE  /\ RowsAreTrue'
         /\ \A r \in Records : rows'[r] # None =>
              rows[r] # None /\ rows'[r].vals = IF r = u.rec THEN row.vals ELSE rows[r].vals
<1>1. ASSUME NEW r \in Records, rows'[r] # None
      PROVE  /\ TrueAt(r, rows'[r].rev, rows'[r].vals)
             /\ rows[r] # None /\ rows'[r].vals = IF r = u.rec THEN row.vals ELSE rows[r].vals
  <2>1. CASE r = u.rec
    <3>1. rows[r] # None /\ rows'[r] = [rev |-> row.rev, vals |-> row.vals, gen |-> generation]
      BY <1>1, <2>1, ReadFacts DEF Replace
    <3>2. QED BY <2>1, <3>1
  <2>2. CASE r # u.rec
    <3>1. rows'[r] = rows[r]
      BY <2>2, ReadFacts DEF Replace
    <3>2. QED BY <1>1, <2>2, <3>1 DEF RowsAreTrue
  <2>3. QED BY <2>1, <2>2
<1>2. QED BY <1>1 DEF RowsAreTrue, TrueAt

\* A page that is shown is true.
LEMMA PageKeepsTruth ==
  ASSUME TypeInv, LabelsAreTrue, BasesAreShown, NEW c \in Calls, ReadAnswer(c)
  PROVE  LabelsAreTrue' /\ BasesAreShown'
<1>1. UNCHANGED <<table, tableRev, ledger, update>>
  BY DEF ReadAnswer, server
<1>2. ChangesAreCounted' /\ LedgerIsTrue' /\ UpdateIsTrue' /\ RequestIsShown' /\ CallsAreTrue'
  BY <1>1, CallsStayTrue
  DEF LabelsAreTrue, BasesAreShown, ChangesAreCounted, LedgerIsTrue, UpdateIsTrue,
      RequestIsShown, TrueAt
<1>3. CASE UNCHANGED <<rows, drafts>>
  BY <1>1, <1>2, <1>3
  DEF LabelsAreTrue, BasesAreShown, RowsAreTrue, DraftsAreShown, TrueAt
<1>4. CASE ~UNCHANGED <<rows, drafts>>
  <2>1. /\ calls[c].pc = "answered" /\ rows' = WithPage(c)
        /\ drafts' = [r \in Records |-> Reread(drafts[r], r, DOMAIN calls[c].page)]
    BY <1>4 DEF ReadAnswer
  <2>2. CallIsTrue(calls[c])
    BY DEF LabelsAreTrue, CallsAreTrue
  <2>3. ASSUME NEW r \in Records, rows'[r] # None
        PROVE  TrueAt(r, rows'[r].rev, rows'[r].vals)
    <3>1. CASE r \in DOMAIN calls[c].page
      <4>1. rows'[r].rev = calls[c].label /\ rows'[r].vals = calls[c].page[r]
        BY <2>1, <3>1 DEF WithPage
      <4>2. QED BY <2>1, <2>2, <3>1, <4>1 DEF CallIsTrue
    <3>2. CASE r \notin DOMAIN calls[c].page
      <4>1. rows'[r] = rows[r]
        BY <2>1, <2>3, <3>2 DEF WithPage
      <4>2. QED BY <2>3, <4>1 DEF LabelsAreTrue, RowsAreTrue
    <3>3. QED BY <3>1, <3>2
  <2>4. ASSUME NEW r \in Records, IsDraft(drafts'[r]), ~drafts'[r].reread, rows'[r] # None
        PROVE  rows'[r].vals = drafts'[r].base
    <3>1. drafts'[r] = Reread(drafts[r], r, DOMAIN calls[c].page)
      BY <2>1
    <3>2. r \notin DOMAIN calls[c].page /\ drafts'[r] = drafts[r]
      <4>1. CASE IsDraft(drafts[r])
        <5>1. drafts[r] \in Draft
          BY <4>1, EditFacts
        <5>2. QED BY <2>4, <3>1, <4>1, <5>1, DraftReread DEF Reread
      <4>2. CASE ~IsDraft(drafts[r])
        BY <2>4, <3>1, <4>2 DEF Reread
      <4>3. QED BY <4>1, <4>2
    <3>3. rows'[r] = rows[r]
      BY <2>1, <2>4, <3>2 DEF WithPage
    <3>4. QED BY <2>4, <3>2, <3>3 DEF BasesAreShown, DraftsAreShown
  <2>5. RowsAreTrue'
    BY <1>1, <2>3 DEF RowsAreTrue, TrueAt
  <2>6. DraftsAreShown'
    BY <2>4 DEF DraftsAreShown
  <2>7. QED BY <1>2, <2>5, <2>6 DEF LabelsAreTrue, BasesAreShown
<1>5. QED BY <1>3, <1>4

\* The other steps of a call change no row, or hide all.
LEMMA CallKeepsTruth ==
  ASSUME TypeInv, LabelsAreTrue, BasesAreShown, NEW c \in Calls,
         \/ load(c) \/ refresh(c) \/ loadMore(c)
         \/ CapabilitiesAnswer(c) \/ InspectAnswer(c) \/ LoadFails(c) \/ ReadFails(c)
         \/ ResolveTable(c) \/ ReadRows(c)
  PROVE  LabelsAreTrue' /\ BasesAreShown'
<1>1. UNCHANGED <<table, tableRev, ledger, update, drafts>> /\ (rows' = rows \/ rows' = NoRows)
  BY DEF load, refresh, loadMore, CapabilitiesAnswer, InspectAnswer, LoadFails, ReadFails,
         ResolveTable, ReadRows, server, state
<1>2. CallsAreTrue'
  BY CallsStayTrue
<1>3. ChangesAreCounted' /\ LedgerIsTrue' /\ UpdateIsTrue' /\ RequestIsShown'
  BY <1>1
  DEF LabelsAreTrue, BasesAreShown, ChangesAreCounted, LedgerIsTrue, UpdateIsTrue,
      RequestIsShown, TrueAt
<1>4. \A r \in Records : rows'[r] # None => rows'[r] = rows[r]
  BY <1>1 DEF NoRows
<1>5. RowsAreTrue' /\ DraftsAreShown'
  BY <1>1, <1>4 DEF LabelsAreTrue, BasesAreShown, RowsAreTrue, DraftsAreShown, TrueAt
<1>6. QED BY <1>2, <1>3, <1>5 DEF LabelsAreTrue, BasesAreShown

\* The user's steps on a draft: an edit starts from the row on show, no other step
\* changes the base.
LEMMA DraftKeepsTruth ==
  ASSUME TypeInv, LabelsAreTrue, BasesAreShown, NEW r \in Records,
         \/ beginEdit(r) \/ cancel(r)
         \/ \E f \in Fields, v \in Values : setDraftField(r, f, v)
  PROVE  LabelsAreTrue' /\ BasesAreShown'
<1>1. UNCHANGED <<table, tableRev, ledger, update, rows, calls>>
  BY DEF beginEdit, cancel, setDraftField, server, reads
<1>2. LabelsAreTrue' /\ RequestIsShown'
  BY <1>1
  DEF LabelsAreTrue, BasesAreShown, ChangesAreCounted, RowsAreTrue, CallsAreTrue, CallIsTrue,
      LedgerIsTrue, UpdateIsTrue, RequestIsShown, TrueAt
<1>3. CASE beginEdit(r)
  <2>1. drafts'[r].base = rows[r].vals /\ \A q \in Records : q # r => drafts'[q] = drafts[q]
    BY <1>3, EditFacts DEF beginEdit
  <2>2. QED BY <1>1, <1>2, <2>1 DEF BasesAreShown, DraftsAreShown
<1>4. CASE cancel(r)
  <2>1. drafts'[r] = None /\ \A q \in Records : q # r => drafts'[q] = drafts[q]
    BY <1>4, EditFacts DEF cancel
  <2>2. QED BY <1>1, <1>2, <2>1 DEF BasesAreShown, DraftsAreShown, IsDraft
<1>5. ASSUME NEW f \in Fields, NEW v \in Values, setDraftField(r, f, v)
      PROVE  BasesAreShown'
  <2>1. PICK d \in Draft : d = drafts[r] /\ IsDraft(drafts[r])
    BY <1>5, EditFacts DEF setDraftField
  <2> DEFINE changed == IF v = d.base[f] THEN d.changed \ {f} ELSE d.changed \union {f}
             e == [d EXCEPT !.vals[f] = v, !.changed = changed]
  <2>2. drafts' = [drafts EXCEPT ![r] = e]
    BY <1>5, <2>1, EditFacts DEF setDraftField
  <2> HIDE DEF changed
  <2>3. e.base = d.base /\ e.reread = d.reread
    BY DEF Draft
  <2> HIDE DEF e
  <2>4. \A q \in Records : IsDraft(drafts'[q]) =>
          /\ IsDraft(drafts[q]) /\ drafts'[q].base = drafts[q].base
          /\ drafts'[q].reread = drafts[q].reread
    BY <2>1, <2>2, <2>3, EditFacts
  <2>5. QED BY <1>1, <1>2, <2>4 DEF BasesAreShown, DraftsAreShown
<1>6. QED BY <1>2, <1>3, <1>4, <1>5 DEF BasesAreShown

\* A request that leaves carries the label of the row on show and the base of its
\* draft.
LEMMA SaveKeepsTruth ==
  ASSUME TypeInv, LabelsAreTrue, BasesAreShown, NEW r \in Records, save(r)
  PROVE  LabelsAreTrue' /\ BasesAreShown'
<1>1. PICK d \in Draft, k \in 1..MaxSaves :
           /\ d = drafts[r] /\ k = KeyOf(d) /\ k <= keys' /\ k \in 1..saves'
           /\ rows[r] \in Row
           /\ update' \in Update
           /\ update'.rec = r /\ update'.key = k /\ update'.edit = d.edit
           /\ update'.patch = [f \in d.changed |-> d.vals[f]]
           /\ update'.base = [f \in d.changed |-> d.base[f]]
           /\ update'.reread = d.reread /\ update'.rowRev = rows[r].rev
           /\ update'.answer = "none" /\ update'.current = None
  BY SaveSends
<1>2. /\ drafts' = [drafts EXCEPT ![r].key = k]
      /\ UNCHANGED <<table, tableRev, ledger, rows, calls>> /\ rows[r] # None
  BY <1>1 DEF save, server, reads
<1>3. ChangesAreCounted' /\ RowsAreTrue' /\ CallsAreTrue' /\ LedgerIsTrue'
  BY <1>2
  DEF LabelsAreTrue, ChangesAreCounted, RowsAreTrue, CallsAreTrue, CallIsTrue, LedgerIsTrue, TrueAt
<1>4. TrueAt(r, rows[r].rev, rows[r].vals)
  BY <1>2 DEF LabelsAreTrue, RowsAreTrue
<1>5. UpdateIsTrue'
  BY <1>1, <1>2, <1>4 DEF UpdateIsTrue, TrueAt
<1>6. IsDraft(d)
  BY DraftFields
<1>7. RequestIsShown'
  <2>1. SUFFICES ASSUME ~d.reread, table[r].at <= rows[r].rev, NEW f \in DOMAIN update'.patch
                 PROVE  table[r].vals[f] = update'.base[f]
    BY <1>1, <1>2 DEF RequestIsShown
  <2>2. rows[r].vals = d.base
    BY <1>1, <1>2, <1>6, <2>1 DEF BasesAreShown, DraftsAreShown
  <2>3. table[r].vals = rows[r].vals
    BY <1>4, <2>1 DEF TrueAt
  <2>4. f \in d.changed /\ update'.base[f] = d.base[f]
    BY <1>1, <2>1
  <2>5. QED BY <2>2, <2>3, <2>4
<1>8. DraftsAreShown'
  <2> DEFINE e == [d EXCEPT !.key = k]
  <2>1. e.base = d.base /\ e.reread = d.reread
    BY DEF Draft
  <2>2. drafts' = [drafts EXCEPT ![r] = e]
    BY <1>1, <1>2, EditFacts
  <2> HIDE DEF e
  <2>3. \A q \in Records : IsDraft(drafts'[q]) =>
          /\ IsDraft(drafts[q]) /\ drafts'[q].base = drafts[q].base
          /\ drafts'[q].reread = drafts[q].reread
    BY <1>1, <1>6, <2>1, <2>2, EditFacts
  <2>4. QED BY <1>2, <2>3 DEF BasesAreShown, DraftsAreShown
<1>9. QED BY <1>3, <1>5, <1>7, <1>8 DEF LabelsAreTrue, BasesAreShown

\* A request that is executed gives its record a new revision, and its answer, like
\* the ledger, carries the record as it is then.
LEMMA ExecuteKeepsTruth ==
  ASSUME TypeInv, LabelsAreTrue, BasesAreShown, UpdaterExecutes
  PROVE  LabelsAreTrue' /\ BasesAreShown'
<1>1. PICK u \in Update : u = update /\ u # None /\ u.rec \in Records /\ u.patch \in Patch
  BY EditFacts, UpdateFields DEF UpdaterExecutes
<1> DEFINE after == Patched(u.rec, u.patch)
           row == [rev |-> tableRev + 1, vals |-> after]
           entry == [rec |-> u.rec, patch |-> u.patch, row |-> row]
<1>2. /\ table' = [table EXCEPT ![u.rec] = [vals |-> after, at |-> tableRev + 1]]
      /\ tableRev' = tableRev + 1
      /\ ledger' = [k \in DOMAIN ledger \union {u.key} |-> IF k = u.key THEN entry ELSE ledger[k]]
      /\ UNCHANGED <<rows, calls, drafts>>
  BY <1>1 DEF UpdaterExecutes, state, reads
<1>3. PICK kind \in {"saved", "unverified", "unknown"} :
        update' = [u EXCEPT !.answer = kind, !.current = row]
  BY <1>1 DEF UpdaterExecutes, Answer
<1>4. /\ update'.rec = u.rec /\ update'.rowRev = u.rowRev /\ update'.current = row
  BY <1>3 DEF Update
<1>5. row.rev = tableRev + 1 /\ row.vals = after
  OBVIOUS
<1>6. entry.rec = u.rec /\ entry.row = row
  OBVIOUS
<1> HIDE DEF after, row, entry
<1>7. /\ ChangesAreCounted' /\ RowsAreTrue' /\ CallsAreTrue'
      /\ \A k \in DOMAIN ledger :
           /\ ledger[k].row.rev <= tableRev'
           /\ table'[ledger[k].rec].at <= ledger[k].row.rev =>
                table'[ledger[k].rec].vals = ledger[k].row.vals
  BY <1>1, <1>2, ChangeKeepsLabels
<1>8. table'[u.rec].vals = after /\ table'[u.rec].at = tableRev + 1 /\ tableRev \in Nat
  BY <1>1, <1>2 DEF TypeInv, TypeOK, Revisions
<1>9. LedgerIsTrue'
  <2>1. ASSUME NEW k \in DOMAIN ledger'
        PROVE  /\ ledger'[k].row.rev <= tableRev'
               /\ table'[ledger'[k].rec].at <= ledger'[k].row.rev =>
                    table'[ledger'[k].rec].vals = ledger'[k].row.vals
    <3>1. CASE k = u.key
      <4>1. ledger'[k] = entry
        BY <1>2, <3>1
      <4>2. QED BY <1>2, <1>5, <1>6, <1>8, <4>1
    <3>2. CASE k # u.key
      <4>1. k \in DOMAIN ledger /\ ledger'[k] = ledger[k]
        BY <1>2, <2>1, <3>2
      <4>2. QED BY <1>7, <4>1
    <3>3. QED BY <3>1, <3>2
  <2>2. QED BY <2>1 DEF LedgerIsTrue, TrueAt
<1>10. u.rowRev \in Nat /\ u.rowRev <= tableRev
  BY <1>1, LabelTypes DEF LabelsAreTrue, UpdateIsTrue, Revisions
<1>11. UpdateIsTrue'
  <2>1. update'.rowRev <= tableRev'
    BY <1>2, <1>4, <1>8, <1>10
  <2>2. TrueAt(update.rec, update.current.rev, update.current.vals)'
    BY <1>2, <1>4, <1>5, <1>8 DEF TrueAt
  <2>3. QED BY <2>1, <2>2 DEF UpdateIsTrue
<1>12. RequestIsShown'
  <2>1. ~(table'[update'.rec].at <= update'.rowRev)
    BY <1>4, <1>8, <1>10
  <2>2. QED BY <2>1 DEF RequestIsShown
<1>13. DraftsAreShown'
  BY <1>2 DEF BasesAreShown, DraftsAreShown
<1>14. QED BY <1>7, <1>9, <1>11, <1>12, <1>13 DEF LabelsAreTrue, BasesAreShown

\* Another answer carries nothing, the row the ledger kept, or the record as it is.
LEMMA AnswerKeepsTruth ==
  ASSUME TypeInv, LabelsAreTrue, BasesAreShown, UpdaterAnswers
  PROVE  LabelsAreTrue' /\ BasesAreShown'
<1>1. PICK u \in Update : u = update /\ u # None /\ u.rec \in Records
  BY EditFacts, UpdateFields DEF UpdaterAnswers
<1>2. UNCHANGED <<table, tableRev, ledger, rows, calls, drafts>>
  BY DEF UpdaterAnswers, server, state, reads
<1>3. PICK kind \in {"saved", "refused", "stale", "unknown"}, current \in Shown \union {None} :
        /\ update' \in Update /\ update'.answer = kind /\ update'.current = current
        /\ update'.rec = u.rec /\ update'.key = u.key /\ update'.edit = u.edit
        /\ update'.patch = u.patch /\ update'.base = u.base
        /\ update'.reread = u.reread /\ update'.rowRev = u.rowRev
        /\ \/ current = None
           \/ kind = "saved" /\ Known /\ SameRequest /\ current = ledger[u.key].row
           \/ kind = "stale" /\ current = Snapshot(u.rec)
  BY <1>1, UpdaterSays
<1>4. ChangesAreCounted' /\ RowsAreTrue' /\ CallsAreTrue' /\ LedgerIsTrue' /\ DraftsAreShown'
  BY <1>2
  DEF LabelsAreTrue, BasesAreShown, ChangesAreCounted, RowsAreTrue, CallsAreTrue, CallIsTrue,
      LedgerIsTrue, DraftsAreShown, TrueAt
<1>5. current # None => TrueAt(u.rec, current.rev, current.vals)
  <2>1. CASE Known /\ SameRequest /\ current = ledger[u.key].row
    BY <1>1, <2>1 DEF Known, SameRequest, LabelsAreTrue, LedgerIsTrue
  <2>2. CASE current = Snapshot(u.rec)
    <3>1. current.rev = tableRev /\ current.vals = table[u.rec].vals /\ tableRev \in Nat
      BY <2>2, ReadFacts DEF Snapshot, Revisions
    <3>2. QED BY <3>1 DEF TrueAt
  <2>3. QED BY <1>3, <2>1, <2>2
<1>6. UpdateIsTrue'
  BY <1>1, <1>2, <1>3, <1>5 DEF LabelsAreTrue, UpdateIsTrue, TrueAt
<1>7. RequestIsShown'
  BY <1>1, <1>2, <1>3 DEF BasesAreShown, RequestIsShown
<1>8. QED BY <1>4, <1>6, <1>7 DEF LabelsAreTrue, BasesAreShown

\* What the controller makes of an answer: the draft goes, or stays on the base of
\* the row that is put on show.
LEMMA SettleKeepsTruth ==
  ASSUME TypeInv, LabelsAreTrue, BasesAreShown,
         SaveAnswer \/ ConflictAnswer \/ ErrorAnswer \/ TransportFails
  PROVE  LabelsAreTrue' /\ BasesAreShown'
<1>1. PICK u \in Update : u = update /\ u # None /\ u.rec \in Records
  BY EditFacts, UpdateFields DEF SaveAnswer, ConflictAnswer, ErrorAnswer, TransportFails
<1>2. UNCHANGED <<table, tableRev, ledger, calls>> /\ update' = None
  BY DEF SaveAnswer, ConflictAnswer, ErrorAnswer, TransportFails, Settle, server, reads
<1>3. ChangesAreCounted' /\ CallsAreTrue' /\ LedgerIsTrue' /\ UpdateIsTrue' /\ RequestIsShown'
  BY <1>2
  DEF LabelsAreTrue, ChangesAreCounted, CallsAreTrue, CallIsTrue, LedgerIsTrue, UpdateIsTrue,
      RequestIsShown, TrueAt
<1>4. CASE ErrorAnswer \/ TransportFails
  <2>1. /\ rows' = rows
        /\ drafts' = drafts \/ drafts' = [drafts EXCEPT ![u.rec] = Undefined]
    BY <1>1, <1>4 DEF ErrorAnswer, TransportFails
  <2>2. \A r \in Records : IsDraft(drafts'[r]) => drafts'[r] = drafts[r]
    BY <2>1, EditFacts DEF IsDraft
  <2>3. RowsAreTrue' /\ DraftsAreShown'
    BY <1>2, <2>1, <2>2 DEF LabelsAreTrue, BasesAreShown, RowsAreTrue, DraftsAreShown, TrueAt
  <2>4. QED BY <1>3, <2>3 DEF LabelsAreTrue, BasesAreShown
<1>5. CASE SaveAnswer \/ ConflictAnswer
  <2>1. /\ rows' = Replace(u.rec, u.current) /\ u.current \in Shown
        /\ TrueAt(u.rec, u.current.rev, u.current.vals)
    <3>1. u.current # None /\ rows' = Replace(u.rec, u.current)
      BY <1>1, <1>5 DEF SaveAnswer, ConflictAnswer, TypeInv, Requests
    <3>2. QED BY <1>1, <3>1, UpdateFields DEF LabelsAreTrue, UpdateIsTrue
  <2>2. /\ RowsAreTrue'
        /\ \A r \in Records : rows'[r] # None =>
             rows[r] # None /\ rows'[r].vals = IF r = u.rec THEN u.current.vals ELSE rows[r].vals
    BY <1>2, <2>1, ReplaceKeepsRows DEF LabelsAreTrue
  <2>3. ASSUME NEW r \in Records, IsDraft(drafts'[r]), ~drafts'[r].reread
        PROVE  IF r = u.rec THEN drafts'[r].base = u.current.vals ELSE drafts'[r] = drafts[r]
    <3>1. CASE SaveAnswer
      <4>1. drafts' = [drafts EXCEPT ![u.rec] = None]
        BY <1>1, <3>1 DEF SaveAnswer
      <4>2. QED BY <2>3, <4>1, EditFacts DEF IsDraft
    <3>2. CASE ConflictAnswer
      <4>1. drafts' = [drafts EXCEPT ![u.rec] = IF IsDraft(drafts[u.rec])
                                                  THEN Rebased(drafts[u.rec], u.current)
                                                ELSE Undefined]
        BY <1>1, <3>2, EditFacts DEF ConflictAnswer
      <4>2. CASE r = u.rec
        <5>1. IsDraft(drafts[r]) /\ drafts[r] \in Draft /\ drafts'[r] = Rebased(drafts[r], u.current)
          BY <2>3, <4>1, <4>2, EditFacts DEF IsDraft
        <5>2. QED BY <2>1, <4>2, <5>1, DraftRebased
      <4>3. CASE r # u.rec
        BY <4>1, <4>3, EditFacts
      <4>4. QED BY <4>2, <4>3
    <3>3. QED BY <1>5, <3>1, <3>2
  <2>4. DraftsAreShown'
    <3>1. ASSUME NEW r \in Records, IsDraft(drafts'[r]), ~drafts'[r].reread, rows'[r] # None
          PROVE  rows'[r].vals = drafts'[r].base
      BY <2>2, <2>3, <3>1 DEF BasesAreShown, DraftsAreShown
    <3>2. QED BY <3>1 DEF DraftsAreShown
  <2>5. QED BY <1>3, <2>2, <2>4 DEF LabelsAreTrue, BasesAreShown
<1>6. QED BY <1>4, <1>5

\* Another writer's change is above every label.
LEMMA ForeignKeepsTruth ==
  ASSUME TypeInv, LabelsAreTrue, BasesAreShown, NEW r \in Records, ForeignChange(r)
  PROVE  LabelsAreTrue' /\ BasesAreShown'
<1>1. PICK c \in Contents :
        /\ table' = [table EXCEPT ![r] = [vals |-> c, at |-> tableRev + 1]]
        /\ tableRev' = tableRev + 1
  BY DEF ForeignChange
<1>2. UNCHANGED <<ledger, rows, drafts, calls, update>>
  BY DEF ForeignChange, state, reads
<1>3. /\ ChangesAreCounted' /\ RowsAreTrue' /\ CallsAreTrue'
      /\ \A k \in DOMAIN ledger :
           /\ ledger[k].row.rev <= tableRev'
           /\ table'[ledger[k].rec].at <= ledger[k].row.rev =>
                table'[ledger[k].rec].vals = ledger[k].row.vals
  BY <1>1, <1>2, ChangeKeepsLabels
<1>4. LedgerIsTrue'
  BY <1>2, <1>3 DEF LedgerIsTrue, TrueAt
<1>5. UpdateIsTrue' /\ RequestIsShown'
  <2>1. CASE update = None
    BY <1>2, <2>1 DEF UpdateIsTrue, RequestIsShown
  <2>2. CASE update # None
    <3>1. PICK u \in Update :
            /\ u = update /\ u.rec \in Records /\ u.rowRev \in Revisions /\ u.rowRev <= tableRev
            /\ u.current # None => u.current.rev \in Revisions /\ TrueAt(u.rec, u.current.rev, u.current.vals)
      BY <2>2, LabelTypes DEF LabelsAreTrue, UpdateIsTrue
    <3>2. /\ table'[r].at = tableRev + 1
          /\ \A q \in Records, rev \in Revisions : \A v :
               TrueAt(q, rev, v) => rev <= tableRev' /\ (table'[q].at <= rev => table'[q].vals = v)
      BY <1>1, ChangeKeepsTruth
    <3>3. tableRev \in Nat /\ u.rowRev \in Nat
      BY <3>1, ReadFacts DEF Revisions
    <3>4. UpdateIsTrue'
      BY <1>1, <1>2, <3>1, <3>2, <3>3 DEF UpdateIsTrue, TrueAt
    <3>5. RequestIsShown'
      <4>1. CASE u.rec = r
        <5>1. ~(table'[u.rec].at <= u.rowRev)
          BY <3>1, <3>2, <3>3, <4>1
        <5>2. QED BY <1>2, <3>1, <5>1 DEF RequestIsShown
      <4>2. CASE u.rec # r
        <5>1. table'[u.rec] = table[u.rec]
          BY <1>1, <3>1, <4>2 DEF TypeInv, TypeOK
        <5>2. QED BY <1>2, <3>1, <5>1 DEF BasesAreShown, RequestIsShown
      <4>3. QED BY <4>1, <4>2
    <3>6. QED BY <3>4, <3>5
  <2>3. QED BY <2>1, <2>2
<1>6. DraftsAreShown'
  BY <1>2 DEF BasesAreShown, DraftsAreShown
<1>7. QED BY <1>3, <1>4, <1>5, <1>6 DEF LabelsAreTrue, BasesAreShown

\* Every step keeps what the labels and the bases say.
LEMMA TruthNext ==
  ASSUME TypeInv, LabelsAreTrue, BasesAreShown, [Next]_vars
  PROVE  LabelsAreTrue' /\ BasesAreShown'
<1>1. CASE UNCHANGED vars
  BY <1>1
  DEF vars, server, state, reads, LabelsAreTrue, BasesAreShown, ChangesAreCounted, RowsAreTrue,
      CallsAreTrue, CallIsTrue, LedgerIsTrue, UpdateIsTrue, DraftsAreShown, RequestIsShown, TrueAt
<1>2. CASE Next
  BY <1>2, NextCases, CallKeepsTruth, PageKeepsTruth, DraftKeepsTruth, SaveKeepsTruth,
     ExecuteKeepsTruth, AnswerKeepsTruth, SettleKeepsTruth, ForeignKeepsTruth
<1>3. QED BY <1>1, <1>2

-----------------------------------------------------------------------------
(* The invariant.                                                          *)

\* Nothing is shown, nothing was sent.
LEMMA InvInit == Init => Inv
<1> SUFFICES ASSUME Init PROVE Inv
  OBVIOUS
<1>1. TypeInv
  BY TypeInvInit
<1>2. RowsAreFresh /\ Work
  <2>1. \A c \in Calls : calls[c].pc = "idle"
    BY IdleFields DEF Init
  <2>2. QED
    BY <2>1
    DEF Init, NoRows, RowsAreFresh, ReadsAreFresh, PagesAreNotMixed, Work, SpinnerMeansWork, Busy
<1>3. EditInv
  BY DEF Init, EditInv, EditCommitsOnce, OneKey, ExecutedIsKnown, IsDraft
<1>4. LabelsAreTrue
  <2>1. \A c \in Calls : calls[c].pc = "idle" /\ calls[c].label = 0
    BY IdleFields DEF Init
  <2>2. CallsAreTrue
    BY <2>1 DEF Init, CallsAreTrue, CallIsTrue
  <2>3. ChangesAreCounted /\ RowsAreTrue /\ LedgerIsTrue /\ UpdateIsTrue
    BY DEF Init, NoRows, ChangesAreCounted, RowsAreTrue, LedgerIsTrue, UpdateIsTrue
  <2>4. QED BY <2>2, <2>3 DEF LabelsAreTrue
<1>5. BasesAreShown
  BY DEF Init, BasesAreShown, DraftsAreShown, RequestIsShown, IsDraft
<1>6. QED BY <1>1, <1>2, <1>3, <1>4, <1>5 DEF Inv

\* Every step keeps it.
LEMMA InvNext == Inv /\ [Next]_vars => Inv'
  BY TypeInvNext, FreshNext, WorkNext, EditsNext, TruthNext DEF Inv

\* The invariant, of every behaviour.
THEOREM Invariance == Spec => []Inv
  BY InvInit, InvNext, PTL DEF Spec

\* Every row on display is of the newest refresh and, until a save moves the
\* revision, of one revision, however late an answer comes (controller.ts refresh,
\* readPage).
THEOREM RowsFresh == Spec => []RowsAreFresh
<1>1. Inv => RowsAreFresh
  BY DEF Inv
<1>2. QED BY <1>1, Invariance, PTL

\* The updater executes an edit at most once, whatever answers are lost and however
\* often the user retries (controller.ts save, retry).
THEOREM EditsOnce == Spec => []EditCommitsOnce
<1>1. Inv => EditCommitsOnce
  BY DEF Inv, EditInv
<1>2. QED BY <1>1, Invariance, PTL

\* While the table shows that it loads, a call of the current generation is at work
\* (controller.ts load, refresh).
THEOREM SpinnerWorks == Spec => []SpinnerMeansWork
<1>1. Inv => SpinnerMeansWork
  BY DEF Inv, Work
<1>2. QED BY <1>1, Invariance, PTL

\* A step that commits is the updater's.
LEMMA OnlyTheUpdaterCommits ==
  ASSUME [Next]_vars, Executed
  PROVE  UpdaterExecutes
<1>1. CASE UNCHANGED vars
  BY <1>1 DEF Executed, vars, history
<1>2. ASSUME NEW c \in Calls,
             \/ load(c) \/ refresh(c) \/ loadMore(c)
             \/ CapabilitiesAnswer(c) \/ InspectAnswer(c) \/ LoadFails(c) \/ ReadFails(c)
             \/ ResolveTable(c) \/ ReadRows(c) \/ ReadAnswer(c)
      PROVE  FALSE
  BY <1>2
  DEF Executed, load, refresh, loadMore, CapabilitiesAnswer, InspectAnswer, LoadFails, ReadFails,
      ResolveTable, ReadRows, ReadAnswer, history
<1>3. ASSUME NEW r \in Records,
             \/ beginEdit(r) \/ cancel(r)
             \/ \E f \in Fields, v \in Values : setDraftField(r, f, v)
             \/ save(r) \/ ForeignChange(r)
      PROVE  FALSE
  BY <1>3 DEF Executed, beginEdit, cancel, setDraftField, save, ForeignChange, history
<1>4. CASE UpdaterAnswers \/ SaveAnswer \/ ConflictAnswer \/ ErrorAnswer \/ TransportFails
  BY <1>4
  DEF Executed, UpdaterAnswers, SaveAnswer, ConflictAnswer, ErrorAnswer, TransportFails, history
<1>5. QED BY <1>1, <1>2, <1>3, <1>4, NextCases

\* Of all steps only an answer to a save ends a draft's "saving" in a conflict or an
\* error.
LEMMA OnlyAnswersFail ==
  ASSUME TypeInv, [Next]_vars, NEW r \in Records, mutation[r] = "saving",
         mutation'[r] \in {"conflict", "error"}
  PROVE  ConflictAnswer \/ ErrorAnswer \/ TransportFails
<1>1. CASE UNCHANGED vars
  BY <1>1 DEF vars, state
<1>2. ASSUME NEW c \in Calls,
             \/ load(c) \/ refresh(c) \/ loadMore(c)
             \/ CapabilitiesAnswer(c) \/ InspectAnswer(c) \/ LoadFails(c) \/ ReadFails(c)
             \/ ResolveTable(c) \/ ReadRows(c) \/ ReadAnswer(c)
      PROVE  FALSE
  BY <1>2
  DEF load, refresh, loadMore, CapabilitiesAnswer, InspectAnswer, LoadFails, ReadFails,
      ResolveTable, ReadRows, ReadAnswer, state
<1>3. ASSUME NEW q \in Records,
             \/ beginEdit(q) \/ cancel(q)
             \/ \E f \in Fields, v \in Values : setDraftField(q, f, v)
             \/ save(q) \/ ForeignChange(q)
      PROVE  FALSE
  BY <1>3, EditFacts DEF beginEdit, cancel, setDraftField, save, ForeignChange, state
<1>4. CASE UpdaterExecutes \/ UpdaterAnswers
  BY <1>4 DEF UpdaterExecutes, UpdaterAnswers, state
<1>5. CASE SaveAnswer
  BY <1>5, EditFacts DEF SaveAnswer, Settle
<1>6. QED BY <1>1, <1>2, <1>3, <1>4, <1>5, NextCases

\* A save replaces what its user was shown, and a draft outlives a save that failed
\* (controller.ts save, applyConflict).
THEOREM EditsKept == Spec => EditsAreKept
<1>1. Inv /\ [Next]_vars =>
        (Executed /\ ~update.reread =>
           \A f \in DOMAIN update.patch : table[update.rec].vals[f] = update.base[f])
  <2> SUFFICES ASSUME Inv, [Next]_vars, Executed, ~update.reread, NEW f \in DOMAIN update.patch
               PROVE  table[update.rec].vals[f] = update.base[f]
    OBVIOUS
  <2>1. update # None /\ ~Stale
    BY OnlyTheUpdaterCommits DEF UpdaterExecutes
  <2>2. table[update.rec].at <= update.rowRev
    <3>1. PICK u \in Update : u = update /\ u.rec \in Records /\ u.rowRev \in Revisions
      BY <2>1, LabelTypes DEF Inv
    <3>2. table[u.rec].at \in Nat /\ u.rowRev \in Nat
      BY <3>1 DEF Inv, TypeInv, TypeOK, Revisions
    <3>3. QED BY <2>1, <3>1, <3>2 DEF Stale
  <2>3. QED BY <2>1, <2>2 DEF Inv, BasesAreShown, RequestIsShown
<1>2. Inv /\ [Next]_vars =>
        \A r \in Records :
          IsDraft(drafts[r]) /\ mutation[r] = "saving" /\ mutation'[r] \in {"conflict", "error"}
            => IsDraft(drafts'[r]) /\ drafts'[r].vals = drafts[r].vals
               /\ drafts'[r].key = drafts[r].key
  <2> SUFFICES ASSUME Inv, [Next]_vars, NEW r \in Records, IsDraft(drafts[r]),
                      mutation[r] = "saving", mutation'[r] \in {"conflict", "error"}
               PROVE  IsDraft(drafts'[r]) /\ drafts'[r].vals = drafts[r].vals
                      /\ drafts'[r].key = drafts[r].key
    OBVIOUS
  <2>1. TypeInv /\ update # None /\ update.rec = r
    BY EditFacts DEF Inv
  <2>2. CASE ConflictAnswer
    <3>1. PICK u \in Update : u = update /\ u.current \in Shown
      BY <2>1, <2>2, EditFacts, UpdateFields DEF ConflictAnswer, TypeInv, Requests
    <3>2. PICK d \in Draft : d = drafts[r]
      BY <2>1, EditFacts
    <3>3. drafts'[r] = Rebased(d, u.current)
      BY <2>1, <2>2, <3>1, <3>2, EditFacts DEF ConflictAnswer
    <3>4. QED BY <3>1, <3>2, <3>3, DraftRebased, DraftFields
  <2>3. CASE ErrorAnswer \/ TransportFails
    BY <2>1, <2>3 DEF ErrorAnswer, TransportFails
  <2>4. QED BY <2>1, <2>2, <2>3, OnlyAnswersFail
<1>3. Spec => SavesReplaceWhatWasEdited
  BY <1>1, Invariance, PTL DEF Spec, SavesReplaceWhatWasEdited
<1>4. Spec => DraftSurvivesFailure
  BY <1>2, Invariance, PTL DEF Spec, DraftSurvivesFailure
<1>5. QED BY <1>3, <1>4 DEF EditsAreKept
=============================================================================
