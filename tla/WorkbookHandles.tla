--------------------------- MODULE WorkbookHandles ---------------------------
(* Worksheet and range handles over a session, down to the sheets of the       *)
(* document.  A handle keeps a name and the generation the name had when the   *)
(* handle was made; every structural edit that is queued bumps the generations *)
(* of its names, so that a handle whose name may mean another sheet is refused *)
(* as stale.  The queued changes name sheets too; the MaybeSheet provider      *)
(* compares the document's worksheets with the ones the session was bound to   *)
(* and sends one command per change, most of them with the sheet's gid.        *)
(*                                                                             *)
(* Handles are used by several threads: the generation is compared before the  *)
(* session's lock is taken, and read again after it was released.  Each of     *)
(* these calls is two steps here.  A field `of` tells (history) which sheet is *)
(* meant: a sheet's gid, or the negative number of the change that creates it. *)
EXTENDS Integers, Sequences, FiniteSets, SequencesExt

CONSTANTS
    Threads, SheetNames,
    Absent,       \* no sheet, no handle, no call, no name
    Bound,        \* the worksheets of the document when the session binds it
    MaxChanges,   \* bound: changes queued in one behaviour
    MaxOthers     \* bound: structural edits of other users

VARIABLES
    document,     \* Seq of [name, gid, of]: the worksheets on the server
    worksheets,   \* the same as the session knows them (binding["worksheets"])
    pending,      \* Seq of queued changes
    generations,  \* [SheetNames -> Nat]
    numbered,     \* number of changes queued so far
    handles,      \* thread -> the worksheet or range handle it holds, or Absent
    calls,        \* thread -> the call it is in, or Absent
    committing,   \* the commit that is running, or Absent
    uncertain,    \* its effects are unknown: no more changes
    stray,        \* history: changes whose command changed another sheet
    others        \* number of structural edits of other users

handlesVars == <<document, worksheets, pending, generations, numbered, handles, calls,
                 committing, uncertain, stray, others>>

sessionVars == <<worksheets, pending, generations, numbered, committing, uncertain>>

NoGid == 0
Named(sheets, name) == {i \in DOMAIN sheets : sheets[i].name = name}
Position(sheets, name) == CHOOSE i \in DOMAIN sheets : sheets[i].name = name
Meant(sheets, name) ==
    IF Named(sheets, name) = {} THEN Absent ELSE sheets[Position(sheets, name)].of

(***************************************************************************)
(* What a structural change does to a list of worksheets.  A name that is   *)
(* taken, or a sheet that is missing, is refused.                           *)
(***************************************************************************)
Valid(sheets, change) ==
    CASE change.op = "create" -> Named(sheets, change.name) = {}
      [] change.op = "rename" ->
             /\ Named(sheets, change.name) # {}
             /\ Named(sheets, change.new) \subseteq Named(sheets, change.name)
      [] OTHER -> Named(sheets, change.name) # {}

Renamed(row, name) == [row EXCEPT !.name = name]

Edited(sheets, change) ==
    LET i == Position(sheets, change.name)
    IN  CASE change.op = "create" ->
                 Append(sheets, [name |-> change.name, gid |-> NoGid, of |-> -change.n])
          [] change.op = "rename" -> [sheets EXCEPT ![i] = Renamed(@, change.new)]
          [] change.op = "delete" -> RemoveAt(sheets, i)
          [] OTHER -> sheets

(* The sheets after each of a sequence of changes, and before the first        *)
Stages(sheets, changes) ==
    LET stage[k \in 0..Len(changes)] ==
            IF k = 0 THEN sheets ELSE Edited(stage[k - 1], changes[k])
    IN  stage

Draft == Stages(worksheets, pending)[Len(pending)]

-----------------------------------------------------------------------------
Ops == {"create", "rename", "delete", "write", "style"}
SheetRows == [name : SheetNames, gid : Int, of : Int]
Sheets == Seq(SheetRows)
Changes == [op : Ops, name : SheetNames, new : SheetNames \cup {Absent}, n : Nat,
            of : Int \cup {Absent}, raced : BOOLEAN, generation : Nat]

HandleRecords ==
    [kind : {"sheet", "range"}, name : SheetNames, generation : Nat,
     of : Int \cup {Absent}, raced : BOOLEAN]
CallRecords ==
    [step : {"range"}, change : {Absent}] \cup
    [step : {"queue", "renamed"}, change : Changes]
BatchRecords ==
    [k : Nat \ {0}, sheets : Sheets, created : SUBSET SheetNames, others : Nat]

(* A number from 1 is the gid of a sheet from before the session, a negative   *)
(* one that of a sheet that a change creates                                   *)
ASSUME HandlesAssumption ==
    /\ MaxChanges \in Nat /\ MaxOthers \in Nat
    /\ Bound \in Sheets
    /\ \A i, j \in DOMAIN Bound :
          /\ Bound[i].gid = Bound[i].of /\ Bound[i].gid > 0
          /\ i # j => Bound[i].name # Bound[j].name /\ Bound[i].gid # Bound[j].gid

HandlesTypeOK ==
    /\ document \in Sheets /\ worksheets \in Sheets
    /\ pending \in Seq(Changes)
    /\ generations \in [SheetNames -> Nat]
    /\ numbered \in 0..MaxChanges /\ others \in 0..MaxOthers
    /\ handles \in [Threads -> {Absent} \cup HandleRecords]
    /\ calls \in [Threads -> {Absent} \cup CallRecords]
    /\ committing \in {Absent} \cup BatchRecords
    /\ uncertain \in BOOLEAN
    /\ stray \subseteq 1..MaxChanges

HandlesInit ==
    /\ document = Bound
    /\ worksheets = Bound
    /\ pending = <<>>
    /\ generations = [name \in SheetNames |-> 0]
    /\ numbered = 0
    /\ handles = [t \in Threads |-> Absent]
    /\ calls = [t \in Threads |-> Absent]
    /\ committing = Absent
    /\ uncertain = FALSE
    /\ stray = {}
    /\ others = 0

(***************************************************************************)
(* Making handles                                                          *)
(***************************************************************************)
Handle(kind, name, of, raced) ==
    [kind |-> kind, name |-> name, generation |-> generations[name], of |-> of,
     raced |-> raced]

(* Bound: no more calls after the last change                                  *)
Idling(t) == calls[t] = Absent /\ numbered < MaxChanges

Get(t, name) ==
    /\ Idling(t)
    /\ handles' = [handles EXCEPT ![t] = Handle("sheet", name, Meant(Draft, name), FALSE)]
    /\ UNCHANGED <<document, sessionVars, calls, stray, others>>

(* _assert_generation: a handle whose name was edited since is refused         *)
UpToDate(h) == generations[h.name] = h.generation

(* Worksheet.range, Worksheet.formulas: the generation is compared, and then   *)
(* read again for the new handle                                               *)
StartRange(t) ==
    /\ Idling(t)
    /\ handles[t] # Absent /\ handles[t].kind = "sheet"
    /\ UpToDate(handles[t])
    /\ calls' = [calls EXCEPT ![t] = [step |-> "range", change |-> Absent]]
    /\ UNCHANGED <<document, sessionVars, handles, stray, others>>

FinishRange(t) ==
    /\ calls[t] # Absent /\ calls[t].step = "range"
    /\ handles' = [handles EXCEPT ![t] =
           Handle("range", @.name, @.of, @.raced \/ ~UpToDate(@))]
    /\ calls' = [calls EXCEPT ![t] = Absent]
    /\ UNCHANGED <<document, sessionVars, stray, others>>

(***************************************************************************)
(* Queueing                                                                *)
(***************************************************************************)
Change(op, h, new) ==
    [op |-> op, name |-> h.name, new |-> new, n |-> 0, of |-> h.of,
     raced |-> h.raced, generation |-> h.generation]

(* Worksheet._queue, Range._queue: the generation is compared                  *)
Ask(t, op, new) ==
    /\ Idling(t)
    /\ handles[t] # Absent
    /\ (op = "write") = (handles[t].kind = "range")
    /\ (op = "rename") = (new # Absent)
    /\ UpToDate(handles[t])
    /\ calls' = [calls EXCEPT ![t] = [step |-> "queue", change |-> Change(op, handles[t], new)]]
    /\ UNCHANGED <<document, sessionVars, handles, stray, others>>

AskCreate(t, name) ==
    /\ Idling(t)
    /\ calls' = [calls EXCEPT ![t] =
           [step |-> "queue",
            change |-> [op |-> "create", name |-> name, new |-> Absent, n |-> 0,
                        of |-> Absent, raced |-> FALSE, generation |-> 0]]]
    /\ UNCHANGED <<document, sessionVars, handles, stray, others>>

Structural(change) == change.op \in {"create", "delete", "rename"}

(* A variant: a rename bumps the old name only                                 *)
BumpedOld(change) ==
    [name \in SheetNames |-> generations[name] +
        IF Structural(change) /\ name = change.name THEN 1 ELSE 0]

Bumped(change) ==
    [name \in SheetNames |-> generations[name] +
        IF Structural(change)
           /\ (name = change.name \/ (change.op = "rename" /\ name = change.new))
        THEN 1 ELSE 0]

Unchanged == document = worksheets     \* _checked_sheets

(* SpreadsheetSession.queue: the lock is free, the document's worksheets are   *)
(* the ones the session knows, and the changes queued before and this one pass *)
QueueChange(t) ==
    /\ calls[t] # Absent /\ calls[t].step = "queue"
    /\ committing = Absent /\ ~uncertain
    /\ numbered < MaxChanges
    /\ Unchanged
    /\ LET asked == calls[t].change
           change == [asked EXCEPT !.n = numbered + 1, !.generation = 0,
                         !.raced = @ \/ (asked.op # "create" /\
                                         generations[asked.name] # asked.generation)]
       IN  /\ Valid(Draft, change)
           /\ pending' = Append(pending, change)
           /\ generations' = Bumped(change)
           /\ calls' = [calls EXCEPT ![t] =
                  IF change.op = "rename"
                  THEN [step |-> "renamed",
                        change |-> [change EXCEPT !.generation = Bumped(change)[change.new]]]
                  ELSE Absent]
           /\ handles' = [handles EXCEPT ![t] =
                  IF change.op = "create" THEN Absent ELSE @]
    /\ numbered' = numbered + 1
    /\ UNCHANGED <<document, worksheets, committing, uncertain, stray, others>>

(* Refused: the session is writing or unresolved, or the change is not valid   *)
QueueRefused(t) ==
    /\ calls[t] # Absent /\ calls[t].step = "queue"
    /\ committing # Absent \/ uncertain \/ ~Unchanged \/ ~Valid(Draft, calls[t].change)
    /\ calls' = [calls EXCEPT ![t] = Absent]
    /\ UNCHANGED <<document, sessionVars, handles, stray, others>>

(* Worksheet.rename: the handle takes the new name and the generation that the *)
(* name has by now                                                             *)
AdoptName(t) ==
    /\ calls[t] # Absent /\ calls[t].step = "renamed"
    /\ LET change == calls[t].change
           later == generations[change.new] # change.generation
       IN  handles' = [handles EXCEPT ![t] =
               Handle("sheet", change.new, @.of, @.raced \/ change.raced \/ later)]
    /\ calls' = [calls EXCEPT ![t] = Absent]
    /\ UNCHANGED <<document, sessionVars, stray, others>>

(***************************************************************************)
(* Commit: one command per change                                          *)
(***************************************************************************)
CommitStart ==
    /\ committing = Absent /\ ~uncertain /\ pending # <<>>
    /\ Unchanged
    /\ committing' = [k |-> 1, sheets |-> worksheets, created |-> {}, others |-> others]
    /\ UNCHANGED <<document, worksheets, pending, generations, numbered, handles, calls,
                   uncertain, stray, others>>

(* The flags of a command: every one names its sheet; only a command of the    *)
(* style, row and image groups goes without the gid the session knows          *)
Pin(change) ==
    IF change.op \in {"style", "create"} THEN NoGid
    ELSE committing.sheets[Position(committing.sheets, change.name)].gid

(* The server looks for the gid, or for the name                               *)
Hit(change) ==
    IF Pin(change) # NoGid
    THEN {i \in DOMAIN document : document[i].gid = Pin(change)}
    ELSE Named(document, change.name)

MayRun(change) ==
    IF change.op = "create" THEN Named(document, change.name) = {}
    ELSE /\ Hit(change) # {}
         /\ change.op = "rename" => Named(document, change.new) \subseteq Hit(change)

(* A gid that no sheet of the document has had: the session's changes are      *)
(* numbered up to MaxChanges, other users' edits from there                    *)
NewGid(change) == -change.n

Run(change) ==
    IF change.op = "create"
    THEN /\ document' = Append(document, [name |-> change.name, gid |-> NewGid(change),
                                          of |-> -change.n])
         /\ UNCHANGED stray
    ELSE LET i == CHOOSE j \in Hit(change) : TRUE
         IN  /\ document' = CASE change.op = "rename" -> [document EXCEPT ![i].name = change.new]
                              [] change.op = "delete" -> RemoveAt(document, i)
                              [] OTHER -> document
             /\ stray' = IF \/ document[i].of = change.of
                            \/ change.raced
                            \/ change.op = "style" /\ others # committing.others
                         THEN stray ELSE stray \cup {change.n}

(* A variant: the created gid is entered in the first row                      *)
PinnedFirst(sheets, name, gid) == [sheets EXCEPT ![1].gid = gid]

(* The local copy after the command: validated again, the created sheet's gid  *)
(* entered under the name the change has                                       *)
Pinned(sheets, name, gid) == [sheets EXCEPT ![Position(sheets, name)].gid = gid]

Current == pending[committing.k]

(* The command's answer arrives                                                *)
Acknowledged ==
    LET change == Current
        after == Edited(committing.sheets, change)
    IN  /\ \/ change.op = "create"
           \/ change.name \notin committing.created
           \/ Named(after, change.name) # {}
        /\ committing' = [committing EXCEPT !.k = @ + 1,
               !.sheets = IF change.op = "create"
                          THEN Pinned(after, change.name, NewGid(change)) ELSE after,
               !.created = IF change.op = "create" THEN @ \cup {change.name} ELSE @]

(* Everything else: the document may have been changed, or not                 *)
GiveUp(outcome) ==
    /\ committing' = Absent
    /\ uncertain' = (outcome = "unknown")

RunCommand ==
    /\ committing # Absent /\ committing.k <= Len(pending)
    /\ MayRun(Current)
    /\ Run(Current)
    /\ Acknowledged
    /\ UNCHANGED <<worksheets, pending, generations, numbered, handles, calls,
                   uncertain, others>>

(* The answer is lost, or it is the change of a sheet that this batch created  *)
(* under a name that it no longer has: the created gid cannot be entered       *)
CommandLost ==
    /\ committing # Absent /\ committing.k <= Len(pending)
    /\ \/ MayRun(Current) /\ Run(Current)
       \/ UNCHANGED <<document, stray>>
    /\ GiveUp("unknown")
    /\ UNCHANGED <<worksheets, pending, generations, numbered, handles, calls, others>>

(* The evidence that a merge or a sort reads first cannot be had: nothing was  *)
(* dispatched, and without earlier commands nothing was committed              *)
EvidenceFails ==
    /\ committing # Absent /\ committing.k <= Len(pending)
    /\ Current.op = "write"
    /\ GiveUp(IF committing.k = 1 THEN "failed" ELSE "unknown")
    /\ UNCHANGED <<document, worksheets, pending, generations, numbered, handles, calls,
                   stray, others>>

Committed ==
    /\ committing # Absent /\ committing.k > Len(pending)
    /\ worksheets' = committing.sheets
    /\ pending' = <<>>
    /\ committing' = Absent
    /\ UNCHANGED <<document, generations, numbered, handles, calls, uncertain, stray, others>>

(***************************************************************************)
(* Other users of the document.  Bound: their structural edits come while a *)
(* batch runs; before, they only make every call a refusal.                 *)
(***************************************************************************)
Other ==
    /\ others < MaxOthers
    /\ committing # Absent
    /\ \E name, new \in SheetNames :
           \E op \in {"create", "rename", "delete"} :
              LET change == [op |-> op, name |-> name, new |-> new, n |-> MaxChanges + 1 + others]
              IN  /\ Valid(document, change)
                  /\ document' =
                        IF op = "create"
                        THEN Pinned(Edited(document, change), name, NewGid(change))
                        ELSE Edited(document, change)
    /\ document' # document
    /\ others' = others + 1
    /\ UNCHANGED <<sessionVars, handles, calls, stray>>

HandlesNext ==
    \/ \E t \in Threads :
          \/ \E name \in SheetNames : Get(t, name) \/ AskCreate(t, name) \/ Ask(t, "rename", name)
          \/ \E op \in {"write", "style", "delete"} : Ask(t, op, Absent)
          \/ StartRange(t) \/ FinishRange(t)
          \/ QueueChange(t) \/ QueueRefused(t) \/ AdoptName(t)
    \/ CommitStart \/ RunCommand \/ CommandLost \/ EvidenceFails \/ Committed
    \/ Other

HandlesSpec == HandlesInit /\ [][HandlesNext]_handlesVars

-----------------------------------------------------------------------------
(* A change that was accepted through a handle names the sheet the handle was  *)
(* obtained for, unless another thread's structural edit fell between the two  *)
(* steps of a call.                                                            *)
HandlesMeanTheirSheet ==
    \A i \in DOMAIN pending :
        (pending[i].op # "create" /\ ~pending[i].raced) =>
            Meant(Stages(worksheets, pending)[i - 1], pending[i].name) = pending[i].of

(* A command changes the sheet that was meant, whatever the batch renamed or   *)
(* created before it; another user's rename during the batch can misdirect only *)
(* the commands that go without a gid.                                         *)
CommandsReachTheirSheet == stray = {}

SheetsAreTheOnesMeant == HandlesMeanTheirSheet /\ CommandsReachTheirSheet
=============================================================================
