---------------------------- MODULE LocalTemporal ----------------------------
(* Time series kept in local files: the CSV, JSON and Excel providers          *)
(* (local_files/temporal_csv.py, temporal_json.py, temporal_excel.py) and the   *)
(* SDK's view of a CSV file (local_files/sdk_temporal.py).  A provider reads    *)
(* its source file and answers a plan from it, or stages a frame, commits it as *)
(* a snapshot in its own format, and answers from the snapshot.  What a format  *)
(* keeps of a value, and what its reader makes of it, is modelled; the managed  *)
(* store is ManagedSnapshotStore, each of its calls one step here.  Other       *)
(* programs replace the source file between the steps of a call.               *)
EXTENDS Integers, SequencesExt

CONSTANTS Documents, \* what the source file may hold
          Frames,    \* what may be staged
          KeySet,      \* idempotency keys
          FieldNames,  \* the descriptor's fields, its event time first
          MaxBytes, MaxRows,  \* the bounds of a plan
          MaxReplaced,        \* bound: times the source file is replaced
          MaxCalls,           \* bound: calls started
          None

VARIABLES provider,  \* the format of the file
          file,      \* the source file, None if there is none
          replaced,
          stages,    \* key -> the frame staged under it
          gone,      \* keys whose staged bytes an abort removed
          commits,   \* key -> the frame its snapshot was made of
          call, pc, calls,
          answer,    \* what the last call was answered
          versions   \* history: what the file held during the call

vars == <<provider, file, replaced, stages, gone, commits, call, pc, calls, answer, versions>>

Time == FieldNames[1]
Null == [type |-> "null", text |-> ""]
Cell(type, text) == [type |-> type, text |-> text]

\* texts that read as a number, a truth, an instant with and without a zone
Digits == {"7"}
Words == {"true"}
Instants == {"@1", "@2"}
Naives == {"~1"}

Column(table, f) == [i \in DOMAIN table.rows |-> table.rows[i][f]]
Texts(column) == {column[i].text : i \in {j \in DOMAIN column : column[j].text # ""}}
Types(column) == {column[i].type : i \in {j \in DOMAIN column : column[j] # Null}}

-----------------------------------------------------------------------------
(* Reading a file *)

\* what the CSV reader takes a column of texts for
Guessed(texts) ==
  IF texts = {} THEN "null"
  ELSE IF texts \subseteq Digits THEN "int"
  ELSE IF texts \subseteq Words THEN "bool"
  ELSE IF texts \subseteq Instants THEN "time"
  ELSE IF texts \subseteq Naives THEN "naive" ELSE "text"

\* the type of a column of typed values; None: they have no common type
Common(types) == IF types = {} THEN "null" ELSE IF \E t \in types : types = {t}
                 THEN CHOOSE t \in types : TRUE ELSE None

TypeOf(column) == IF provider = "csv" THEN Guessed(Texts(column)) ELSE Common(Types(column))

\* A type that the descriptor's instant can be made of: texts must name a zone.
Castable(type, column) ==
  \/ type \in {"time", "naive", "null", "int"}
  \/ type = "text" /\ Texts(column) \subseteq Instants /\ \A i \in DOMAIN column : column[i].text # ""
  \/ type = "text" /\ provider # "csv" /\ Texts(column) \subseteq Instants

\* the value of a text of a CSV column
Read(type, cell) ==
  IF type = "text" THEN Cell("text", cell.text)
  ELSE IF cell.text = "" THEN Null ELSE Cell(type, cell.text)

Failed(code) == [ok |-> FALSE, code |-> code]
Is(table) == [ok |-> TRUE, table |-> table]

\* The errors of the three decoders for a document, a column, a time column.
Damaged == [csv |-> "snapshot_unavailable", json |-> "snapshot_unavailable", xlsx |-> "protocol_invalid"]
Shapes == [csv |-> "snapshot_unavailable", json |-> "snapshot_unavailable", xlsx |-> "raw"]
NotTime == [csv |-> "snapshot_unavailable", json |-> "protocol_invalid", xlsx |-> "raw"]

\* a worksheet's rows without its empty ones
Kept(rows) == IF provider = "xlsx" THEN SelectSeq(rows, LAMBDA r : \E f \in DOMAIN r : r[f] # Null) ELSE rows

\* rows of JSON name their columns, so that no rows have none
Header(document) == IF provider = "json" /\ document.rows = <<>> THEN <<>> ELSE document.columns

\* _decode_csv, _decode_temporal_json, _decode_workbook
Decode(document) ==
  LET rows == Kept(document.rows)
      column(f) == Column([rows |-> rows], f)
      \* the embedded schema of a workbook, else what the values look like
      type(f) == IF f \in DOMAIN document.schema THEN document.schema[f] ELSE TypeOf(column(f))
      fits(f) == f \in DOMAIN document.schema =>
                   \/ document.schema[f] = "time"
                   \/ Types(column(f)) \subseteq {document.schema[f]}
      names == Header(document)
      cell(f, c) == IF provider = "csv" THEN Read(type(f), c) ELSE c
      time(c) == IF c.text = "" THEN Null ELSE Cell("time", c.text)
  IN  IF document.fault # None THEN Failed(Damaged[provider])
      ELSE IF \E f \in ToSet(names) : type(f) = None \/ ~ fits(f) THEN Failed(Shapes[provider])
      ELSE IF Time \in ToSet(names) /\ ~ Castable(TypeOf(column(Time)), column(Time)) THEN Failed(NotTime[provider])
      \* _validate_descriptor_columns: worksheets only
      ELSE IF provider = "xlsx" /\ ~ ToSet(FieldNames) \subseteq ToSet(names) THEN Failed("protocol_invalid")
      ELSE Is([columns |-> names,
               types |-> [f \in ToSet(names) |-> IF f = Time THEN "time" ELSE type(f)],
               rows |-> [i \in DOMAIN rows |-> [f \in ToSet(names) |->
                           IF f = Time THEN time(rows[i][f]) ELSE cell(f, rows[i][f])]]])

\* the schema that a descriptor hash covers
Schema(table) == [columns |-> table.columns, types |-> table.types]

\* read_bounded: the declared fields
Select(table) ==
  [columns |-> FieldNames, types |-> [f \in ToSet(FieldNames) |-> table.types[f]],
   rows |-> [i \in DOMAIN table.rows |-> [f \in ToSet(FieldNames) |-> table.rows[i][f]]]]

-----------------------------------------------------------------------------
(* Writing a snapshot *)

\* A text file keeps a value's text only; an instant is text in all of them.
Written(cell) ==
  IF provider = "csv" THEN Cell("text", cell.text)
  ELSE IF cell.type = "time" THEN Cell("text", cell.text) ELSE cell

\* _encode_csv, encode_json_table, _encode_workbook
Encode(frame) ==
  [columns |-> frame.columns, fault |-> None, size |-> 1,
   schema |-> IF provider = "xlsx" THEN frame.types ELSE <<>>,
   rows |-> [i \in DOMAIN frame.rows |-> [f \in ToSet(frame.columns) |-> Written(frame.rows[i][f])]]]

Nested(types) == \E f \in DOMAIN types : types[f] = "nested"
Encodable(frame) == provider = "xlsx" => ~ Nested(frame.types)

-----------------------------------------------------------------------------
(* Calls *)

Begin(c, at) ==
  /\ calls < MaxCalls /\ calls' = calls + 1 /\ pc = "idle" /\ pc' = at
  /\ call' = c /\ versions' = {file} /\ answer' = None
  /\ UNCHANGED <<provider, file, replaced, stages, gone, commits>>

Goto(at) ==
  /\ pc' = at
  /\ UNCHANGED <<provider, file, replaced, stages, gone, commits, calls, answer, versions>>

Reply(a) ==
  /\ pc' = "idle" /\ answer' = a
  /\ UNCHANGED <<provider, file, replaced, call, calls, versions>>

Stays == UNCHANGED <<stages, gone, commits>>
Refuse(code) == Reply([kind |-> "error", code |-> code]) /\ Stays

\* descriptor_hash_for of the SDK's extension: the schema of the file as it is now
Hash == IF file = None THEN Failed("raw")
        ELSE LET d == Decode(file)
             IN  IF ~ d.ok THEN d
                 ELSE IF ToSet(FieldNames) \subseteq ToSet(d.table.columns) THEN Is(Schema(d.table))
                 ELSE Failed("raw")

\* A plan carries the schema it was made for: the SDK takes the file's; a caller
\* of an executor has its own, the file's of now or that of a frame.
Plan ==
  /\ \E from \in {"file"} \union {k \in KeySet : commits[k] # None}, sum \in BOOLEAN :
       LET schema == IF provider = "csv" \/ from = "file" THEN Hash ELSE Is(Schema(commits[from]))
       IN  /\ schema.ok
           /\ Begin([op |-> "query", from |-> from, schema |-> schema.table, sum |-> sum],
                    IF from = "file" THEN "stat" ELSE "snapshot")

Stat ==
  /\ pc = "stat"
  /\ IF file = None THEN Refuse(IF provider = "json" THEN "raw" ELSE "protocol_invalid")
     ELSE IF file.size > MaxBytes THEN Refuse("resource_limit")
     ELSE Goto("read") /\ UNCHANGED call

\* A variant: what was read is not measured.
ReadWhole(document) == TRUE
\* JSON reads no more than the bound and one byte, and looks again.
Measured(document) == provider = "json" => document.size <= MaxBytes

\* A variant: a plan is evaluated whatever the schema is.
AnyPlan(table) == TRUE
\* the schema a plan was made for, over the declared fields (evaluator.py execute)
Planned(table) == Schema(Select(table)) = call.schema

\* _validate_temporal_types and the evaluator's own checks of types; None: none fails
TypeError(table) ==
  LET value == table.types[Last(FieldNames)]
      summed == call.sum /\ value # "int"
  IN  IF provider = "json" /\ \E f \in ToSet(Front(FieldNames)) : table.types[f] = "nested" THEN "protocol_invalid"
      ELSE IF summed THEN "protocol_invalid" ELSE None

\* PolarsTemporalExecutor.execute over the declared fields
Evaluate(table) ==
  IF ~ ToSet(FieldNames) \subseteq ToSet(table.columns) THEN Refuse("raw")
  ELSE IF TypeError(table) # None THEN Refuse(TypeError(table))
  ELSE IF ~ Planned(table) THEN Refuse("protocol_invalid")
  ELSE IF \E i \in DOMAIN table.rows : table.rows[i][Time] = Null THEN Refuse("raw")
  ELSE IF Len(table.rows) > MaxRows THEN Refuse("resource_limit")
  ELSE Reply([kind |-> "rows", table |-> Select(table)]) /\ Stays

\* the file is read at once
ReadFile ==
  /\ pc = "read"
  /\ IF file = None THEN Refuse("raw")
     ELSE IF ~ Measured(file) THEN Refuse("resource_limit")
     ELSE LET d == Decode(file)
          IN  IF d.ok THEN Evaluate(d.table) ELSE Refuse(d.code)

\* ManagedSnapshotStore.read_snapshot: the bytes the reference names
ReadSnapshot ==
  /\ pc = "snapshot"
  /\ LET d == Decode(Encode(commits[call.from]))
     IN  IF ~ d.ok THEN Refuse(d.code)
         ELSE IF Len(d.table.rows) > MaxRows THEN Refuse("resource_limit")
         ELSE Evaluate(d.table)

\* readback: the snapshot's table and the range of its instants, whatever its schema;
\* the SDK's handle must be of the view's descriptor hash.
Readback(k) ==
  /\ commits[k] # None
  /\ Begin([op |-> "readback", from |-> k], "readback")

ReadBack ==
  /\ pc = "readback"
  /\ LET d == Decode(Encode(commits[call.from]))
     IN  IF provider = "csv" /\ Hash # Is(Schema(commits[call.from]))
         THEN Refuse(IF Hash.ok THEN "invalid_target" ELSE Hash.code)
         ELSE IF ~ d.ok THEN Refuse(d.code)
         ELSE IF Len(d.table.rows) > MaxRows THEN Refuse("resource_limit")
         ELSE IF Time \notin ToSet(d.table.columns) THEN Refuse("raw")
         ELSE IF \E i \in DOMAIN d.table.rows : d.table.rows[i][Time] = Null THEN Refuse("visibility_incomplete")
         ELSE Reply([kind |-> "rows", table |-> d.table]) /\ Stays

\* A stage names the schema it is of: the SDK the file's, other callers the frame's.
\* A workbook is compared with the frame, unless the stage has no worksheet.
Stage(k, frame) ==
  \E direct \in IF provider = "xlsx" THEN BOOLEAN ELSE {FALSE} :
     LET schema == IF provider = "csv" THEN Hash ELSE Is(Schema(frame))
     IN  /\ schema.ok
         /\ Begin([op |-> "stage", key |-> k, frame |-> frame, schema |-> schema.table, direct |-> direct],
                  IF direct THEN "compare" ELSE "store")

\* A variant: the values of the worksheet are not compared.
SameFields(table, frame) == table.columns = frame.columns
Same(table, frame) == table = frame

Compare ==
  /\ pc = "compare"
  /\ IF file = None THEN Refuse("protocol_invalid")
     ELSE LET d == Decode(file)
          IN  IF ~ d.ok THEN Refuse(d.code)
              ELSE IF ~ Same(d.table, call.frame) THEN Refuse("protocol_invalid")
              ELSE Goto("validate") /\ UNCHANGED call

\* the store's validator decodes the worksheet again before anything is created
Validate ==
  /\ pc = "validate"
  /\ IF file = None THEN Refuse("protocol_invalid")
     ELSE IF ~ Decode(file).ok THEN Refuse(Decode(file).code)
     ELSE Goto("store") /\ UNCHANGED call

\* ManagedSnapshotStore.stage_artifact: the key's stage, or a new one
Store ==
  /\ pc = "store"
  /\ IF stages[call.key] # None
     THEN IF stages[call.key] = call.frame
          THEN Reply([kind |-> "staged", key |-> call.key]) /\ Stays
          ELSE Refuse("idempotency_conflict")
     ELSE IF Len(call.frame.rows) > MaxRows THEN Refuse("resource_limit")
     ELSE IF call.schema # Schema(call.frame) THEN Refuse("protocol_invalid")
     ELSE /\ Reply([kind |-> "staged", key |-> call.key])
          /\ stages' = [stages EXCEPT ![call.key] = call.frame] /\ UNCHANGED <<gone, commits>>

\* commit: the SDK's handle must be of the view's descriptor hash; the stage is
\* written in the provider's format.
Commit(k) == stages[k] # None /\ Begin([op |-> "commit", key |-> k], "commit")

Publish ==
  /\ pc = "commit"
  /\ LET frame == stages[call.key]
     IN  IF provider = "csv" /\ Hash # Is(Schema(frame))
         THEN Refuse(IF Hash.ok THEN "invalid_target" ELSE Hash.code)
         ELSE IF commits[call.key] = None /\ call.key \in gone THEN Refuse("snapshot_unavailable")
         ELSE IF commits[call.key] = None /\ ~ Encodable(frame) THEN Refuse("protocol_invalid")
         ELSE /\ Reply([kind |-> "committed", key |-> call.key])
              /\ commits' = [commits EXCEPT ![call.key] = frame] /\ UNCHANGED <<stages, gone>>

\* abort: the staged bytes go unless they were committed; the stage's receipt stays
Abort(k) == stages[k] # None /\ Begin([op |-> "abort", key |-> k], "abort")

Unstage ==
  /\ pc = "abort"
  /\ Reply([kind |-> IF commits[call.key] # None THEN "already_committed"
                    ELSE IF call.key \in gone THEN "already_absent" ELSE "removed", key |-> call.key])
  /\ gone' = IF commits[call.key] # None THEN gone ELSE gone \union {call.key}
  /\ UNCHANGED <<stages, commits>>

\* what the SDK's view of a file does not do: append, upsert and current
Unsupported ==
  /\ provider = "csv"
  /\ calls < MaxCalls /\ calls' = calls + 1 /\ pc = "idle"
  /\ answer' = [kind |-> "error", code |-> "unsupported"]
  /\ UNCHANGED <<provider, file, replaced, stages, gone, commits, call, pc, versions>>

\* another program replaces the file, or removes it
Replace ==
  /\ replaced < MaxReplaced /\ replaced' = replaced + 1
  /\ \E d \in Documents[provider] \union {None} : d # file /\ file' = d
  /\ versions' = versions \union {file'}
  /\ UNCHANGED <<provider, stages, gone, commits, call, pc, calls, answer>>

Init ==
  /\ provider \in DOMAIN Documents /\ file \in Documents[provider]
  /\ replaced = 0 /\ calls = 0 /\ pc = "idle" /\ call = None /\ answer = None /\ versions = {}
  /\ gone = {} /\ stages = [k \in KeySet |-> None] /\ commits = [k \in KeySet |-> None]

Next ==
  \/ Plan \/ Stat \/ ReadFile \/ ReadSnapshot \/ ReadBack \/ Compare \/ Validate \/ Store \/ Publish
  \/ Unstage
  \/ \E k \in KeySet : Readback(k) \/ Commit(k) \/ Abort(k) \/ \E frame \in Frames[provider] : Stage(k, frame)
  \/ Unsupported \/ Replace

Spec == Init /\ [][Next]_vars

-----------------------------------------------------------------------------
(* Properties *)

Answered(op) == pc = "idle" /\ answer # None /\ answer.kind = "rows" /\ call.op = op

\* A plan that is answered from a snapshot is answered with the texts that were
\* staged; for a plan of the schema that was staged, with the values and types too
\* (but for a CSV text that was null), although the formats keep less than a value
\* and their readers guess the rest.
SnapshotsAreExact ==
  Answered("query") /\ call.from # "file" =>
    LET staged == Select(commits[call.from])
        same(a, b) == a = b \/ (provider = "csv" /\ a.text = "" /\ b.text = "")
    IN  /\ DOMAIN answer.table.rows = DOMAIN staged.rows
        /\ \A i \in DOMAIN staged.rows : \A f \in ToSet(FieldNames) :
             answer.table.rows[i][f].text = staged.rows[i][f].text
        /\ call.schema = Schema(commits[call.from]) =>
             /\ answer.table.types = staged.types
             /\ \A i \in DOMAIN staged.rows : \A f \in ToSet(FieldNames) :
                  same(answer.table.rows[i][f], staged.rows[i][f])

\* A read-back has the rows that were staged, each at its instant.
InstantsAreKept ==
  Answered("readback") =>
    LET rows == Kept(commits[call.from].rows)
    IN  [i \in DOMAIN rows |-> rows[i][Time]] = [i \in DOMAIN answer.table.rows |-> answer.table.rows[i][Time]]

\* A plan that is answered from the file is answered from one version that the file
\* had during the call, of the schema of the plan; JSON never takes more than the
\* plan's bytes, though the file grows after it was measured.
FilesAreReadOnce ==
  Answered("query") /\ call.from = "file" =>
    /\ call.schema = Schema(answer.table)
    /\ \E d \in versions \ {None} :
         /\ Decode(d).ok /\ ToSet(FieldNames) \subseteq ToSet(Decode(d).table.columns)
         /\ Select(Decode(d).table) = answer.table
         /\ provider = "json" => d.size <= MaxBytes

\* What is staged for a governed worksheet is what the worksheet held at one time
\* of the call, without a formula; what is committed is what was staged.
StagesAreGoverned ==
  /\ pc = "idle" /\ answer # None /\ answer.kind = "staged" /\ call.direct =>
       \E d \in versions \ {None} : Decode(d).ok /\ Decode(d).table = stages[call.key]
  /\ \A k \in KeySet : commits[k] \in {None, stages[k]}

LocalFilesAreTrue == SnapshotsAreExact /\ InstantsAreKept /\ FilesAreReadOnce /\ StagesAreGoverned
=============================================================================
