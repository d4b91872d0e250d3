----------------------------- MODULE LocalReads -----------------------------
(* Reading a local file as a table: the facade over the CSV, Excel, Markdown    *)
(* and JSON connectors (local_files_connector.py and *_connector.py), the       *)
(* bounded reader, worksheets that were published as portable tables, and the   *)
(* SDK's open, inspect and read of a table (sdk_temporal.py).  A call looks at  *)
(* the file several times: to resolve the address, twice to see its format, to  *)
(* read it, and once more for the receipt; the file may be replaced between.    *)
EXTENDS FileTables

CONSTANTS Documents,    \* what the file may hold
          Requests,     \* the reads that may be asked for
          NameSuffixes, \* of the file's name
          MaxReplaced,  \* bound: times the file is replaced
          MaxCalls      \* bound: calls started

VARIABLES file,      \* what the file holds, None if there is none
          suffix, replaced,
          call, pc, calls,
          round,     \* 1: the facade resolves, 2: a connector does
          seen,      \* what the last look at the file has shown
          found,     \* the format
          table,     \* the rows read
          bound,     \* the table the SDK has opened
          answer,
          versions   \* history: what the file held during the call, in order

vars == <<file, suffix, replaced, call, pc, calls, round, seen, found, table, bound, answer, versions>>

disk == <<file, suffix, replaced, versions>>

Goto(at) == pc' = at /\ UNCHANGED <<disk, call, calls, bound, answer>>

Reply(a) ==
  /\ pc' = "idle" /\ answer' = a /\ seen' = None /\ found' = None /\ table' = None /\ round' = 0
  /\ UNCHANGED <<disk, call, calls>>

\* _failure of the SDK answers every exception in one way
Refuse(code) ==
  Reply([kind |-> "error", code |-> IF call.sdk = None THEN code ELSE "execution_failed"]) /\ UNCHANGED bound

Keep == UNCHANGED <<round, seen, found, table>>

-----------------------------------------------------------------------------
(* Starting a call *)

First(entry) ==
  IF entry \in {"json", "jsonl"} THEN "json" ELSE IF entry = "bounded" THEN "bounded"
  ELSE IF entry = "portable" THEN "metadata" ELSE "resolve"

Begin(request) ==
  /\ pc = "idle" /\ calls < MaxCalls /\ calls' = calls + 1
  /\ call' = request /\ pc' = First(request.entry) /\ answer' = None /\ versions' = <<file>>
  /\ round' = IF request.entry = "facade" THEN 1 ELSE 2
  /\ found' = IF request.entry = "facade" THEN None ELSE request.entry
  /\ UNCHANGED <<file, suffix, replaced, seen, table, bound>>

\* a read that needs nothing opened; it leaves nothing behind, so it is the only call
Read == calls = 0 /\ \E request \in Requests : request.sdk = None /\ Begin(request)

\* open_table tries a worksheet's address as a portable table first
Open ==
  calls = 0 /\ \E request \in Requests :
    request.sdk = "open" /\ Begin([request EXCEPT !.entry = IF request.sheet # None \/ request.id # None
                                                         THEN "portable" ELSE @])

\* A variant: a table is opened anew for every read.
ReadAnew(request) == [request EXCEPT !.entry = "facade", !.sheet = bound.sheet]
\* read_table and inspect_table of what was opened: as it was opened
AsOpened(request) ==
  [request EXCEPT !.entry = IF bound.id # None THEN "portable" ELSE "facade",
                  !.id = bound.id, !.sheet = bound.sheet]

ReadBound ==
  /\ bound # None
  /\ \E request \in Requests : request.sdk \in {"read", "inspect"} /\ Begin(AsOpened(request))

-----------------------------------------------------------------------------
(* Resolving an address *)

\* A connector's own address has no fragment but a worksheet's; the facade's
\* resolver takes no notice of one.
BadAddress ==
  \/ call.form \in {"query", "host", "relative"}
  \/ call.form = "fragment" /\ call.entry \notin {"facade", "bounded"}
  \/ call.entry \in {"csv", "md", "json", "jsonl"} /\ call.sheet # None

TooLarge(d) == call.maxBytes # None /\ d.size > call.maxBytes

\* LocalURIResolver.resolve, _resolve_explicit_local_path: is it a file, and how large
Resolve ==
  /\ pc = "resolve"
  /\ IF BadAddress \/ file = None \/ TooLarge(file) THEN Refuse("invalid_uri")
     ELSE Goto("probe") /\ Keep

\* A worksheet may be chosen by the address or by the options of the read.
Chosen == IF call.sheet # None THEN call.sheet ELSE call.option
Disagree == call.sheet # None /\ call.option # None /\ call.sheet # call.option

\* _resolve_sheet, and the connector that reads the format
Resolved(format) ==
  IF call.what = "resolve" THEN Reply([kind |-> "resolved", format |-> format]) /\ UNCHANGED bound
  ELSE IF round = 1
  THEN IF format # "excel" /\ Chosen # None THEN Refuse("invalid_uri")
       ELSE IF Disagree THEN Refuse("raw")
       ELSE /\ found' = format /\ round' = 2 /\ UNCHANGED <<seen, table>>
            /\ Goto(IF format \in {"json", "jsonl"} THEN "json" ELSE "resolve")
  ELSE IF Disagree THEN Refuse("raw") ELSE Goto("read") /\ Keep

\* A variant: a connector reads a file of any format.
AnyFormat(format) == TRUE
Expected(format) == round = 1 \/ format = found

Detected(format) == IF Expected(format) THEN Resolved(format) ELSE Refuse("invalid_uri")

\* detect_format: what the first bytes and the lines look like; JSON must be parsed
Probe ==
  /\ pc = "probe"
  /\ IF file = None THEN Refuse("invalid_uri")
     ELSE IF file.kind = "xlsx" THEN Detected("excel")
     ELSE IF Claims(file, suffix) # None THEN Goto("parse") /\ seen' = file /\ UNCHANGED <<round, found, table>>
     ELSE IF Look(file, suffix) = None THEN Refuse("invalid_uri") ELSE Detected(Look(file, suffix))

\* the second look of detect_format: a file that does not parse may look like text
Parse ==
  /\ pc = "parse"
  /\ LET claim == Claims(seen, suffix)
         parsed == file # None /\ JsonTable(file, claim).ok
     IN  IF parsed THEN Detected(claim)
         ELSE IF suffix \in {"json", "jsonl"} \/ Look(seen, suffix) = None THEN Refuse("invalid_uri")
         ELSE Detected(Look(seen, suffix))

-----------------------------------------------------------------------------
(* Reading *)

Fetched(t) == /\ table' = t /\ UNCHANGED <<round, seen, found>>
              /\ Goto("receipt")

\* The bytes of a text file or a workbook, and the table they make.
ReadFile ==
  /\ pc = "read"
  /\ LET d == file
         t == IF found = "csv" THEN CsvTable(d, call.maxRows)
              ELSE IF found = "md" THEN MdTable(d, call.maxRows)
              ELSE ExcelTable(d, Chosen, call.header, call.maxRows)
     IN  IF file = None THEN Refuse("execution_failed")
         ELSE IF t.ok THEN Fetched(t.table) ELSE Refuse(t.code)

\* A variant: what was read is not measured again.
ReadUnbounded(d) == FALSE
\* _read_json_path: no more than the bound and one byte are read, and measured
Exceeds(d) == TooLarge(d)

\* _json_path, and the size before anything is opened
JsonAddress ==
  /\ pc = "json"
  /\ IF (round = 2 /\ call.entry # "facade" /\ BadAddress) \/ file = None \/ call.form = "symlink"
     THEN Refuse("invalid_uri")
     ELSE IF TooLarge(file) THEN Refuse("invalid_uri") ELSE Goto("bytes") /\ Keep

\* A variant: a JSON file of too many rows is cut.
Cut(rows) == FALSE
\* _check_limits: it is refused
TooMany(rows) == call.maxRows # None /\ Len(rows) > call.maxRows

ReadJson ==
  /\ pc = "bytes"
  /\ \E late \in IF call.timed THEN BOOLEAN ELSE {FALSE} :
       IF file = None THEN Refuse("execution_failed")
       ELSE IF Exceeds(file) THEN Refuse("invalid_uri")
       ELSE LET t == JsonTable(file, found)
            IN  IF ~ t.ok THEN Refuse(t.code)
                ELSE IF TooMany(t.table.rows) THEN Refuse("execution_failed")
                ELSE IF late THEN Refuse("timeout")
                ELSE IF call.what = "resolve" THEN Reply([kind |-> "resolved", format |-> found]) /\ UNCHANGED bound
                ELSE Fetched(t.table)

\* rows of JSON belong to a base, of the others to a sheet
Mode(format) == IF format \in {"json", "jsonl"} THEN "base" ELSE "sheet"

Answer(t, revision) ==
  [kind |-> "rows", table |-> t, format |-> found, mode |-> Mode(found), revision |-> revision,
   whole |-> None, portable |-> FALSE]

\* two columns of a name are no data frame
Framed(t) ==
  call.what = "polars" \/ call.sdk \in {"open", "inspect"} =>
    \A i, j \in DOMAIN t.names : t.names[i] = t.names[j] => i = j

\* An inspection repeats the revision of when the table was opened.
Revised(a) == IF call.sdk = "inspect" THEN [a EXCEPT !.revision = None] ELSE a

\* The SDK's open keeps what it will read by: the portable table, or the address.
Bind(id) == bound' = IF call.sdk = "open" THEN [id |-> id, sheet |-> call.sheet] ELSE bound

\* make_receipt and the JSON inspection read the file again for its revision.
Receipt ==
  /\ pc = "receipt"
  /\ IF call.what = "inspect" /\ call.sdk = None /\ Mode(found) = "sheet"
     THEN Reply(Answer(table, None)) /\ UNCHANGED bound
     ELSE IF file = None THEN Refuse("raw")
     ELSE IF ~ Framed(table) THEN Refuse("raw")
     ELSE Reply(Revised(Answer(table, file))) /\ Bind(None)

\* A variant: only the caller's own limit says whether rows were left out.
OwnExtent(n) == n <= call.rows
\* LocalBoundedReader: all rows were emitted
Complete(n) == n <= call.rows /\ (call.maxRows = None \/ n <= call.maxRows)

\* The bounded reader reads the file once, and says whether it left rows out.
ReadBounded ==
  /\ pc = "bounded"
  /\ LET records == Records(file, suffix = "jsonl")
         limit == IF call.maxRows # None /\ call.maxRows < call.rows THEN call.maxRows ELSE call.rows
         n == Len(records.table)
         t == FirstNamed(SubSeq(records.table, 1, IF n < limit THEN n ELSE limit))
     IN  IF BadAddress \/ call.form = "symlink" \/ file = None THEN Refuse("raw")
         ELSE IF TooLarge(file) \/ ~ records.ok THEN Refuse("raw")
         ELSE IF ~ t.ok THEN Refuse("raw")
         ELSE Reply([Answer(t.table, file) EXCEPT !.whole = Complete(n)]) /\ UNCHANGED bound

-----------------------------------------------------------------------------
(* Worksheets that are portable tables *)

\* An address of the published table itself has no other reading; an address of the
\* worksheet is read as any other, if it is opened.
NotPortable ==
  IF call.sdk = "open" /\ call.id = None
  THEN /\ call' = [call EXCEPT !.entry = "facade"] /\ round' = 1 /\ pc' = "resolve"
       /\ found' = None /\ seen' = None /\ table' = None
       /\ UNCHANGED <<disk, calls, bound, answer>>
  ELSE Reply([kind |-> "error", code |-> IF call.sdk = "open" THEN "invalid_schema" ELSE "execution_failed"])
       /\ UNCHANGED bound

\* _find_metadata: the one record of the book for the table or the worksheet
Metadata ==
  /\ pc = "metadata"
  /\ LET records == IF file = None \/ file.kind # "xlsx" \/ file.broken THEN {}
                    ELSE {m \in file.metas : /\ call.id = None \/ m.id = call.id
                                             /\ call.id # None \/ m.sheet = call.sheet}
         m == CHOOSE r \in records : TRUE
     IN  IF Cardinality(records) # 1 \/ (Cardinality(records) = 1 /\ Sheet(file, m.sheet) = None) THEN NotPortable
         ELSE seen' = m /\ Goto("typed") /\ UNCHANGED <<round, found, table>>

\* a text that its column's type can be made of; a cell that is no text never is
Lexical(type, cell) ==
  \/ cell = Null
  \/ cell.type = "text" /\ (type = "int" => cell.text = "7") /\ (type = "bool" => cell.text \in {"true", "false"})

\* _typed_frame: as many rows as the record says, in the types it says
Typed(sheet, m) ==
  LET n == Len(m.schema)
      at(r, i) == IF r + 1 \in DOMAIN sheet.rows /\ i \in DOMAIN sheet.rows[r + 1]
                  THEN sheet.rows[r + 1][i] ELSE Null
      header == [i \in 1 .. n |-> at(0, i).text]
      names == [i \in 1 .. n |-> m.schema[i].name]
      value(i, c) == IF c = Null THEN Null ELSE Cell(m.schema[i].type, c.text)
  IN  IF \/ header # names
         \/ \E r \in 1 .. m.rows, i \in 1 .. n : ~ Lexical(m.schema[i].type, at(r, i)) THEN Failed("raw")
      ELSE Is([names |-> names, rows |-> [r \in 1 .. m.rows |-> [i \in 1 .. n |-> value(i, at(r, i))]]])

TypedFrame ==
  /\ pc = "typed"
  /\ LET sheet == IF file = None \/ file.kind # "xlsx" \/ file.broken THEN None ELSE Sheet(file, seen.sheet)
     IN  IF sheet = None THEN NotPortable
         ELSE IF ~ Typed(sheet, seen).ok THEN NotPortable
         ELSE table' = Typed(sheet, seen).table /\ Goto("revision") /\ UNCHANGED <<round, seen, found>>

Revision ==
  /\ pc = "revision"
  /\ IF file = None THEN NotPortable
     ELSE /\ Reply(Revised([kind |-> "rows", table |-> table, format |-> "excel", mode |-> "sheet",
                            revision |-> file, whole |-> None, portable |-> TRUE]))
          /\ Bind(seen.id)

-----------------------------------------------------------------------------

\* another program replaces the file or removes it
Replace ==
  /\ replaced < MaxReplaced /\ replaced' = replaced + 1 /\ pc # "idle"
  /\ \E d \in Documents \union {None} : d # file /\ file' = d
  /\ versions' = Append(versions, file')
  /\ UNCHANGED <<suffix, call, pc, calls, round, seen, found, table, bound, answer>>

Init ==
  /\ file \in Documents /\ suffix \in NameSuffixes /\ replaced = 0
  /\ call = None /\ pc = "idle" /\ calls = 0 /\ round = 0 /\ seen = None /\ found = None
  /\ table = None /\ bound = None /\ answer = None /\ versions = <<>>

Next ==
  \/ Read \/ Open \/ ReadBound \/ Resolve \/ Probe \/ Parse \/ ReadFile \/ JsonAddress \/ ReadJson
  \/ Receipt \/ ReadBounded \/ Metadata \/ TypedFrame \/ Revision \/ Replace

Spec == Init /\ [][Next]_vars

-----------------------------------------------------------------------------
(* Properties *)

Answered == pc = "idle" /\ answer # None /\ answer.kind = "rows"

Texts(cells) == SelectSeq([i \in DOMAIN cells |-> cells[i].text], LAMBDA t : t # "")
Cells(items) == [i \in DOMAIN items |-> [j \in DOMAIN items[i] |-> items[i][j].cell]]

\* the texts of the rows below the header that a document holds for a format
Held(d, format) ==
  LET raw(row) == SelectSeq(row, LAMBDA t : t # "")
      sheet == Sheet(d, Chosen).rows
      rule == IF Len(MdRows(d)) > 1 /\ Ruled(MdRows(d)[2]) THEN 3 ELSE 2
      objects == IF d.kind = format THEN d.items ELSE Objects(d)
  IN  IF format = "csv" THEN [i \in 1 .. (Len(CsvRows(d)) - 1) |-> raw(CsvRows(d)[i + 1])]
      ELSE IF format = "md" THEN [i \in 1 .. (Len(MdRows(d)) - rule + 1) |-> raw(MdRows(d)[i + rule - 1])]
      ELSE IF format = "excel"
      THEN SelectSeq([i \in 1 .. (Len(sheet) - call.header) |-> Texts(sheet[i + call.header])],
                     LAMBDA r : r # <<>>)
      ELSE [i \in DOMAIN objects |-> Texts(Cells(objects)[i])]

Has(d, format) ==
  IF format = "excel" THEN d.kind = "xlsx" /\ ~ d.broken /\ Sheet(d, Chosen) # None
  ELSE IF format \in {"json", "jsonl"} THEN d.kind = format \/ (format = "jsonl" /\ d.kind = "json" /\ d.schema # None)
  ELSE IsText(d)

Distinct(names) == Cardinality(ToSet(names)) = Len(names)

\* what the receipt says was read is this version of the file or a later one
Since(v) == answer.revision = None \/ \E w \in v .. Len(versions) : versions[w] = answer.revision

\* The rows answered are rows of one version that the file had during the call, every
\* text of each of them and in order, up to the limit on rows and no further; a JSON
\* file is never cut, and never read beyond the limit on bytes.  (Of two Markdown
\* columns of one name the earlier is lost, and a CSV file that begins with an empty
\* line is read as empty.)
RowsAreKept ==
  Answered /\ ~ answer.portable /\ call.entry # "bounded" =>
    \E v \in DOMAIN versions :
      LET d == versions[v]
          rows == answer.table.rows
          n == Len(rows)
          held == Held(d, answer.format)
      IN  /\ d # None /\ Has(d, answer.format)
          /\ n <= Len(held)
          /\ call.maxRows # None => n <= call.maxRows
          /\ n < Len(held) => n = call.maxRows \/ (answer.format = "csv" /\ CsvRows(d)[1] = <<>>)
          /\ answer.mode = "base" => n = Len(held) /\ ~ TooLarge(d)
          /\ \/ answer.format = "md" /\ ~ Distinct(MdRows(d)[1])
             \/ \A i \in DOMAIN rows : ToSet(Texts(rows[i])) = ToSet(held[i])
          /\ Since(v)

\* The bounded reader's rows are the first rows of one version, as many as both limits
\* allow, in the columns of the first of them; it says whether there are more.
BoundedIsExact ==
  Answered /\ call.entry = "bounded" =>
    \E v \in DOMAIN versions :
      LET d == versions[v]
          items == Records(d, suffix = "jsonl").table
          names == answer.table.names
          rows == answer.table.rows
          limits == {call.rows} \union (IF call.maxRows = None THEN {} ELSE {call.maxRows})
          shown(item) == {item[j].cell.text : j \in {k \in DOMAIN item :
                            /\ Contains(names, item[k].name)
                            /\ \A l \in DOMAIN item : l > k => item[l].name # item[k].name}}
      IN  /\ d # None /\ ~ d.broken /\ d.kind # "xlsx" /\ answer.revision = d /\ ~ TooLarge(d)
          /\ answer.whole <=> \A l \in limits : Len(items) <= l
          /\ names # <<>> =>
               /\ \A l \in limits : Len(rows) <= l
               /\ Len(rows) = Len(items) \/ Len(rows) \in limits
               /\ \A i \in DOMAIN rows : ToSet(Texts(rows[i])) = shown(items[i]) \ {""}

\* A connector's rows come from a file that looked like its format at some time of
\* the call.
FormatsAreSeen ==
  Answered /\ ~ answer.portable /\ call.entry # "bounded" =>
    \E v \in DOMAIN versions :
      LET d == versions[v]
      IN  d # None /\ \/ answer.format = "excel" /\ d.kind = "xlsx"
                      \/ answer.format \in {d.kind, suffix}
                      \/ answer.format = "jsonl" /\ d.kind = "json" /\ d.schema # None
                      \/ answer.format = "csv" /\ Look(d, suffix) = "csv"

\* What was opened as a portable table is never read as a plain worksheet, and the
\* other way round; the types are those of a record that the file held, and no row
\* is missing from a table that nobody edited.
PortableStays ==
  /\ Answered /\ call.sdk \in {"read", "inspect"} => answer.portable = (bound.id # None)
  /\ Answered /\ answer.portable =>
       \E v \in DOMAIN versions : \E w \in v .. Len(versions) :
         /\ versions[v] # None /\ versions[w] # None
         /\ \E m \in versions[v].metas :
              /\ Len(answer.table.rows) = m.rows
              /\ \A i \in DOMAIN m.schema : Types(answer.table, i) \subseteq {m.schema[i].type}
              /\ LET sheet == Sheet(versions[w], m.sheet)
                 IN  /\ sheet # None
                     /\ Len(sheet.rows) = m.rows + 1 =>
                          \A r \in 1 .. m.rows : Texts(answer.table.rows[r]) = Texts(sheet.rows[r + 1])
         /\ Since(w)

LocalReadsAreTrue == RowsAreKept /\ BoundedIsExact /\ FormatsAreSeen /\ PortableStays
=============================================================================
