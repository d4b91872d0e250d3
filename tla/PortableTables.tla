--------------------------- MODULE PortableTables ---------------------------
(***************************************************************************)
(* Create-only materialization of portable tables into local files: a JSON *)
(* or JSONL file holds one table (sdk_temporal.create_table and            *)
(* portable_json.py), a workbook holds one per worksheet                   *)
(* (sdk_excel_table.create_portable_excel_table); client.materialize hands *)
(* the answer on.                                                          *)
(*                                                                         *)
(* A call takes the lock of its file and then the lock of the directory's  *)
(* index, publishes, and keeps a replay record by which a retry is known.  *)
(* The locks bind these calls only: other programs write the files and     *)
(* workbooks at any time.  A call is made once; a retry is another call    *)
(* with the same request.                                                  *)
(***************************************************************************)
EXTENDS Naturals

CONSTANTS
    Call,
    Table,       \* destinations in one directory
    Sheet,       \* those that are worksheets of the one workbook
    Key,         \* idempotency keys
    Body,        \* what a portable table may hold
    Foreign,     \* what no call asks for and another program may write
    MaxForeign,  \* bound of the model: writes by other programs
    None

Request == [table : Table, key : Key, body : Body]
Entry == [key : Key, body : Body]  \* of a replay record; revision, size and rows follow from the body

\* Committed and verified; committed, but not found as it should be; evidence
\* that the client does not accept; and the answers that say nothing was
\* started or committed.  "lost" is told in the words of "refused": it marks
\* the calls that had published their table by then.
NotStarted == {"exists", "conflict", "stale", "refused"}
Answer == {"succeeded", "mismatch", "protocol", "lost"} \cup NotStarted

ASSUME PortableAssumption ==
    /\ Sheet \subseteq Table
    /\ Foreign \notin Body
    /\ None \notin Body \cup Call \cup {Foreign}
    /\ None \notin Entry /\ None \notin Answer
    /\ MaxForeign \in Nat

VARIABLES
    table,     \* what each destination holds
    revision,  \* how often the workbook was written; 0 when there is none
    record,    \* the replay record beside each destination
    index,     \* the requests in the index of the directory
    phase,     \* what each call does next
    request,   \* what each call asks for
    seen,      \* the revision of the workbook that a call opened
    copy,      \* the index as a call read it
    answer,    \* what the caller was told
    creator,   \* history: the call that published each table
    foreign    \* history: how often another program wrote each table

files == <<table, revision, record, index>>
local == <<request, seen, copy>>
vars == <<files, phase, local, answer, creator, foreign>>

\* Phases in which a call holds the lock of its file; in all but the first of
\* them it holds the lock of the index too.
Held == {"opened", "locked", "publishing", "checking", "recording", "indexing", "replacing",
         "reading"}

TypeOK ==
    /\ table \in [Table -> Body \cup {Foreign, None}]
    /\ revision \in Nat
    /\ record \in [Table -> Entry \cup {None}]
    /\ index \subseteq Request
    /\ phase \in [Call -> Held \cup {"idle", "done", "dead"}]
    /\ request \in [Call -> Request \cup {None}]
    /\ seen \in [Call -> Nat]
    /\ copy \in [Call -> SUBSET Request]
    /\ answer \in [Call -> Answer \cup {None}]
    /\ creator \in [Table -> Call \cup {None}]
    /\ foreign \in [Table -> Nat]

Init ==
    /\ table = [t \in Table |-> None]
    /\ revision \in {0, 1}
    /\ record = [t \in Table |-> None]
    /\ index = {}
    /\ phase = [c \in Call |-> "idle"]
    /\ request = [c \in Call |-> None]
    /\ seen = [c \in Call |-> 0]
    /\ copy = [c \in Call |-> {}]
    /\ answer = [c \in Call |-> None]
    /\ creator = [t \in Table |-> None]
    /\ foreign = [t \in Table |-> 0]

-----------------------------------------------------------------------------
(* A call and its locks.                                                   *)

T(c) == request[c].table
B(c) == request[c].body

E(c) == [key |-> request[c].key, body |-> request[c].body]

Goes(c, next) == phase' = [phase EXCEPT ![c] = next]

\* The handler ends: its locals are gone and the kernel gives both locks back.
Leaves(c, end) ==
    /\ Goes(c, end)
    /\ seen' = [seen EXCEPT ![c] = 0]
    /\ copy' = [copy EXCEPT ![c] = {}]

Answers(c, a) ==
    /\ answer' = [answer EXCEPT ![c] = a]
    /\ Leaves(c, "done")

Continues(c, next) == Goes(c, next) /\ UNCHANGED <<seen, copy, answer>>

\* The worksheets of a workbook share the lock of its file.
File(t) == IF t \in Sheet THEN Sheet ELSE {t}

Begin(c) ==
    /\ phase[c] = "idle"
    /\ \E r \in Request :
          /\ \A d \in Call : phase[d] \in Held => T(d) \notin File(r.table)
          /\ request' = [request EXCEPT ![c] = r]
    /\ Goes(c, "opened")
    /\ UNCHANGED <<files, seen, copy, answer, creator, foreign>>

IndexFree == \A d \in Call : phase[d] \notin Held \ {"opened"}

Lock(c) ==
    /\ phase[c] = "opened"
    /\ IndexFree
    /\ Goes(c, "locked")
    /\ UNCHANGED <<files, local, answer, creator, foreign>>

\* The process dies; the files stay as they are.
Crash(c) ==
    /\ phase[c] \in Held
    /\ Leaves(c, "dead")
    /\ UNCHANGED <<files, request, answer, creator, foreign>>

-----------------------------------------------------------------------------
(* Has this request, or another, been here before?                         *)

\* A variant: the key of a record is not compared.
KnowsAny(c) == record[T(c)] # None

\* A record decides without looking at the table: a retry only reads back.
Knows(c) == record[T(c)] # None /\ record[T(c)].key = request[c].key

Replay(c) ==
    /\ phase[c] = "locked" /\ record[T(c)] # None
    /\ \/ ~ Knows(c) /\ Answers(c, "exists")
       \/ Knows(c) /\ record[T(c)].body # B(c) /\ Answers(c, "conflict")
       \/ Knows(c) /\ record[T(c)].body = B(c) /\ Continues(c, "reading")
    /\ UNCHANGED <<files, request, creator, foreign>>

\* Without one an equal table is adopted, whoever wrote it: a call may have
\* died before it recorded its own.
Inspect(c) ==
    /\ phase[c] = "locked" /\ record[T(c)] = None
    /\ \/ /\ table[T(c)] = None
          /\ seen' = [seen EXCEPT ![c] = revision]
          /\ Goes(c, "publishing")
          /\ UNCHANGED <<copy, answer>>
       \/ table[T(c)] = B(c) /\ Continues(c, "recording")
       \/ table[T(c)] \notin {None, B(c)} /\ Answers(c, "exists")
    /\ UNCHANGED <<files, request, creator, foreign>>

\* A record that cannot be read, a workbook that cannot be opened; a file that
\* is there and cannot be read passes for committed.  An exception that leaves
\* the handler for workbooks without an answer counts as "refused".
InspectFails(c) ==
    /\ phase[c] \in {"opened", "locked"}
    /\ \/ Answers(c, "refused")
       \/ /\ phase[c] = "locked" /\ record[T(c)] = None
          /\ table[T(c)] # None /\ T(c) \notin Sheet
          /\ Answers(c, "mismatch")
    /\ UNCHANGED <<files, request, creator, foreign>>

-----------------------------------------------------------------------------
(* Publication.                                                            *)

Puts(c) ==
    /\ table' = [table EXCEPT ![T(c)] = B(c)]
    /\ revision' = IF T(c) \in Sheet THEN revision + 1 ELSE revision
    /\ creator' = [creator EXCEPT ![T(c)] = c]

\* A variant: publication replaces what it finds, as os.replace would.
MayPutAnyway(c) == TRUE

\* A file is linked under its name, which fails if the name is taken.  A
\* workbook is saved if it is still the one that was opened: this is the commit
\* of WorkbookFile, under a lock that other workbook writers take too.
MayPut(c) ==
    IF T(c) \in Sheet THEN revision = seen[c] ELSE table[T(c)] = None

Publish(c) ==
    /\ phase[c] = "publishing" /\ MayPut(c)
    /\ Puts(c)
    /\ Goes(c, IF T(c) \in Sheet THEN "checking" ELSE "recording")
    /\ UNCHANGED <<record, index, local, answer, foreign>>

PublishLate(c) ==
    /\ phase[c] = "publishing" /\ ~ MayPut(c)
    /\ Answers(c, CASE T(c) \notin Sheet -> "exists"
                    [] T(c) \in Sheet /\ seen[c] = 0 -> "refused"
                    [] OTHER -> "stale")
    /\ UNCHANGED <<files, request, creator, foreign>>

\* An error before the table has its name.  The handler for JSON then looks
\* whether the file exists, not whose it is.
PublishFails(c) ==
    /\ phase[c] = "publishing"
    /\ Answers(c, IF T(c) \notin Sheet /\ table[T(c)] # None THEN "mismatch" ELSE "refused")
    /\ UNCHANGED <<files, request, creator, foreign>>

\* An error after it: the temporary of a new file or workbook cannot be
\* removed, or the directory not synchronised.
PublishUnclean(c) ==
    /\ phase[c] = "publishing" /\ MayPut(c)
    /\ T(c) \in Sheet => seen[c] = 0
    /\ Puts(c)
    /\ Answers(c, IF T(c) \in Sheet THEN "lost" ELSE "mismatch")
    /\ UNCHANGED <<record, index, request, foreign>>

\* A worksheet is read back before its record is written.
Check(c) ==
    /\ phase[c] = "checking"
    /\ \/ table[T(c)] = B(c) /\ Continues(c, "recording")
       \/ Answers(c, "mismatch")
    /\ UNCHANGED <<files, request, creator, foreign>>

-----------------------------------------------------------------------------
(* The record, the index and the answer.                                   *)

Record(c) ==
    /\ phase[c] = "recording"
    /\ record' = [record EXCEPT ![T(c)] = E(c)]
    /\ Goes(c, "indexing")
    /\ UNCHANGED <<table, revision, index, local, answer, creator, foreign>>

\* store_replay_index reads the index of the whole directory, changes it and
\* replaces the file.
ReadIndex(c) ==
    /\ phase[c] = "indexing"
    /\ copy' = [copy EXCEPT ![c] = index]
    /\ Goes(c, "replacing")
    /\ UNCHANGED <<files, request, seen, answer, creator, foreign>>

WriteIndex(c) ==
    /\ phase[c] = "replacing"
    /\ index' = {r \in copy[c] : <<r.table, r.key>> # <<T(c), request[c].key>>} \cup {request[c]}
    /\ \/ T(c) \notin Sheet /\ Continues(c, "reading")
       \/ T(c) \in Sheet /\ Answers(c, "succeeded")
    /\ UNCHANGED <<table, revision, record, request, creator, foreign>>

\* An error after publication.  For a worksheet that was adopted nothing was
\* written; for a file it is enough that it exists.
StoreFails(c) ==
    /\ phase[c] \in {"recording", "replacing"}
    /\ Answers(c, IF T(c) \in Sheet /\ creator[T(c)] # c THEN "refused" ELSE "mismatch")
    /\ UNCHANGED <<files, request, creator, foreign>>

\* An index that cannot be read is a ValueError, which the handler for JSON
\* takes for an invalid target.
IndexUnreadable(c) ==
    /\ phase[c] = "indexing"
    /\ Answers(c, CASE creator[T(c)] # c -> "refused"
                    [] creator[T(c)] = c /\ T(c) \in Sheet -> "mismatch"
                    [] OTHER -> "lost")
    /\ UNCHANGED <<files, request, creator, foreign>>

\* The last look.  A worksheet that was created by an earlier call is not
\* compared here but by the client, against the fingerprint of the request.
ReadBack(c) ==
    /\ phase[c] = "reading"
    /\ \/ table[T(c)] = B(c) /\ Answers(c, "succeeded")
       \/ table[T(c)] # B(c) /\ T(c) \in Sheet /\ Answers(c, "protocol")
       \/ Answers(c, IF T(c) \in Sheet THEN "refused" ELSE "mismatch")
    /\ UNCHANGED <<files, request, creator, foreign>>

-----------------------------------------------------------------------------

\* Another program writes a table, or something else in its workbook.  Nobody
\* deletes one.
Write(t) ==
    /\ foreign[t] < MaxForeign
    /\ foreign' = [foreign EXCEPT ![t] = @ + 1]
    /\ \E b \in Body \cup {Foreign, table[t]} : table' = [table EXCEPT ![t] = b]
    /\ revision' = IF t \in Sheet THEN revision + 1 ELSE revision
    /\ UNCHANGED <<record, index, phase, local, answer, creator>>

Step(c) ==
    \/ Begin(c) \/ Lock(c) \/ Crash(c)
    \/ Replay(c) \/ Inspect(c) \/ InspectFails(c)
    \/ Publish(c) \/ PublishLate(c) \/ PublishFails(c) \/ PublishUnclean(c) \/ Check(c)
    \/ Record(c) \/ ReadIndex(c) \/ WriteIndex(c)
    \/ StoreFails(c) \/ IndexUnreadable(c) \/ ReadBack(c)

Next == (\E c \in Call : Step(c)) \/ (\E t \in Table : Write(t))

Spec == Init /\ [][Next]_vars

-----------------------------------------------------------------------------
(* Properties.                                                             *)

\* A call that succeeded is the one the record of the table names, and unless
\* another program wrote the table it still holds what was asked for.  A
\* commit that could not be verified left a table behind.  A call that is told
\* nothing was started published nothing, except where the answer is "lost".
AnswersAreTrue ==
    \A c \in Call :
        /\ answer[c] = "succeeded" =>
              /\ record[T(c)] = E(c)
              /\ foreign[T(c)] = 0 => table[T(c)] = B(c)
        /\ answer[c] \in {"mismatch", "protocol"} => table[T(c)] # None
        /\ answer[c] \in NotStarted => creator[T(c)] # c

\* Materialization only creates: no call changes a table that is there, whoever
\* wrote it and whenever it appeared, no record is replaced, and no request
\* recorded for another table or by another call is lost from the index.
OnlyCreates ==
    [][foreign' = foreign =>
        /\ \A t \in Table :
              /\ table[t] # None => table'[t] = table[t]
              /\ record[t] # None => record'[t] = record[t]
        /\ index \subseteq index']_vars
=============================================================================
