----------------------------- MODULE FileTables -----------------------------
(* What the readers of local_files make of the bytes of a file.  A document    *)
(* says how its bytes divide into rows (csv, md), objects (json, jsonl) or      *)
(* worksheets (xlsx); every reader may meet every document, since a file can be *)
(* replaced between the steps of a call.                                        *)
EXTENDS Integers, SequencesExt

CONSTANT None

Cell(type, text) == [type |-> type, text |-> text]
Null == Cell("null", "")
\* a text file has no other sign for a null than an empty text
Text(text) == IF text = "" THEN Null ELSE Cell("text", text)

Failed(code) == [ok |-> FALSE, code |-> code]
Is(table) == [ok |-> TRUE, table |-> table]
Empty == [names |-> <<>>, rows |-> <<>>]

Pad(row, n) == row \o [i \in 1 .. (n - Len(row)) |-> Null]
Blank(row) == \A i \in DOMAIN row : row[i] = Null

\* _headers: a name that came before is numbered
Headers(values) ==
  [i \in DOMAIN values |->
     LET before == Cardinality({j \in 1 .. (i - 1) : values[j] = values[i]})
     IN  IF before = 0 THEN values[i] ELSE values[i] \o "_duplicated_" \o ToString(before - 1)]

-----------------------------------------------------------------------------
(* How the bytes divide, for the reader of another format too *)

Joined(row, sep) ==
  IF row = <<>> THEN "" ELSE FoldLeft(LAMBDA line, text : line \o sep \o text, row[1], Tail(row))

\* a document of JSON is one line, one of JSONL a line for every object
Lines(d) ==
  IF d.kind = "csv" THEN [i \in DOMAIN d.rows |-> <<Joined(d.rows[i], ",")>>]
  ELSE IF d.kind = "md" THEN [i \in DOMAIN d.rows |-> <<Joined(d.rows[i], "|")>>]
  ELSE IF d.kind = "jsonl" THEN [i \in DOMAIN d.items |-> <<"{}">>] ELSE <<<<"[]">>>>

IsText(d) == d.kind # "xlsx" /\ ~ d.broken
CsvRows(d) == IF d.kind = "csv" THEN d.rows ELSE Lines(d)
Filled(rows) == SelectSeq(rows, LAMBDA r : r # <<>> /\ r # <<"">>)
MdRows(d) == IF d.kind = "md" THEN d.rows ELSE Filled(Lines(d))

-----------------------------------------------------------------------------
(* The readers *)

\* A variant: the reader stops after the row past the limit.
StopsLate(taken, max) == max # None /\ Len(taken) > max
\* the limit on rows is looked at after a row was taken
Stops(taken, max) == max # None /\ Len(taken) >= max

\* A row of a CSV file may not be longer than the header, one of a worksheet may
\* have nothing beyond it; a worksheet's empty rows are left out.
Wide(row, n, format) ==
  IF format = "csv" THEN Len(row) > n ELSE \E i \in DOMAIN row : i > n /\ row[i] # Null

Take(got, row, n, max, format) ==
  IF got.stop THEN got
  ELSE IF Wide(row, n, format) THEN [got EXCEPT !.stop = TRUE, !.wide = TRUE]
  ELSE LET cells == Pad(SubSeq(row, 1, IF Len(row) < n THEN Len(row) ELSE n), n)
           taken == IF format = "excel" /\ Blank(cells) THEN got.rows ELSE Append(got.rows, cells)
       IN  [got EXCEPT !.rows = taken, !.stop = taken # got.rows /\ Stops(taken, max)]

\* the data rows below a header of n names
Gather(body, names, max, format) ==
  LET start == [rows |-> <<>>, stop |-> FALSE, wide |-> FALSE]
      got == FoldLeft(LAMBDA g, row : Take(g, row, Len(names), max, format), start, body)
  IN  IF got.wide THEN Failed("execution_failed") ELSE Is([names |-> names, rows |-> got.rows])

\* read_csv_arrow
CsvTable(d, max) ==
  LET rows == CsvRows(d)
      body == [i \in 1 .. (Len(rows) - 1) |-> [j \in DOMAIN rows[i + 1] |-> Text(rows[i + 1][j])]]
  IN  IF ~ IsText(d) THEN Failed("execution_failed")
      ELSE IF Filled(rows) = <<>> \/ rows[1] = <<>> THEN Is(Empty)
      ELSE Gather(body, Headers(rows[1]), max, "csv")

Sheet(d, title) ==
  LET at == {i \in DOMAIN d.sheets : d.sheets[i].title = title}
  IN  IF title = None THEN d.sheets[d.active] ELSE IF at = {} THEN None ELSE d.sheets[CHOOSE i \in at : TRUE]

\* read_excel_arrow: every value as its text, from the header's row on
ExcelTable(d, title, header, max) ==
  LET sheet == Sheet(d, title)
      shown(c) == IF c = Null THEN Null ELSE Cell("text", c.text)
      rows == [i \in 1 .. (Len(sheet.rows) - header + 1) |->
                 [j \in DOMAIN sheet.rows[i + header - 1] |-> shown(sheet.rows[i + header - 1][j])]]
      names == [j \in DOMAIN rows[1] |-> rows[1][j].text]
  IN  IF d.kind # "xlsx" \/ d.broken THEN Failed("execution_failed")
      ELSE IF sheet = None THEN Failed("invalid_uri")
      ELSE IF Len(sheet.rows) < header THEN Is(Empty)
      ELSE Gather(Tail(rows), Headers(names), max, "excel")

\* a table made of a dictionary of columns: of two columns of a name the later one
OfColumns(header, rows) ==
  LET first == {i \in DOMAIN header : \A j \in 1 .. (i - 1) : header[j] # header[i]}
      names == FoldLeft(LAMBDA s, i : IF i \in first THEN Append(s, header[i]) ELSE s, <<>>,
                        [i \in DOMAIN header |-> i])
      last(name) == CHOOSE i \in DOMAIN header :
                      header[i] = name /\ \A j \in DOMAIN header : header[j] = name => j <= i
  IN  [names |-> names,
       rows |-> [r \in DOMAIN rows |-> [i \in DOMAIN names |-> rows[r][last(names[i])]]]]

Ruled(row) == \A i \in DOMAIN row : row[i] = "---"

\* MarkdownConnector: the bound on rows is applied to the whole table
CutTo(table, max) ==
  IF max # None /\ max < Len(table.rows) THEN [table EXCEPT !.rows = SubSeq(@, 1, max)] ELSE table

\* read_markdown_arrow: the rule under the header may be missing
MdTable(d, max) ==
  LET rows == MdRows(d)
      ruled == Len(rows) > 1 /\ Ruled(rows[2])
      body == SubSeq(rows, IF ruled THEN 3 ELSE 2, Len(rows))
      uneven == \E i \in DOMAIN rows : Len(rows[i]) # Len(rows[1])
      cells == [i \in DOMAIN body |-> [j \in DOMAIN body[i] |-> Text(body[i][j])]]
      table == OfColumns(rows[1], cells)
  IN  IF ~ IsText(d) THEN Failed("execution_failed")
      ELSE IF rows = <<>> THEN Is(Empty)
      ELSE IF uneven THEN Failed("execution_failed")
      ELSE Is(CutTo(table, max))

\* An object is a sequence of names and cells; its names, each where it comes first.
Pair(name, cell) == [name |-> name, cell |-> cell]
Keys(items) ==
  FoldLeft(LAMBDA names, pair : IF Contains(names, pair.name) THEN names ELSE Append(names, pair.name),
           <<>>, FlattenSeq(items))
Value(item, name) ==
  LET at == {i \in DOMAIN item : item[i].name = name}
  IN  IF at = {} THEN Null ELSE item[CHOOSE i \in at : \A j \in at : j <= i].cell
Types(table, i) == {table.rows[r][i].type : r \in {s \in DOMAIN table.rows : table.rows[s][i] # Null}}

\* _rows_to_table: the values of a column must have a type in common
OfObjects(items) ==
  LET names == Keys(items)
      table == [names |-> names,
                rows |-> [r \in DOMAIN items |-> [i \in DOMAIN names |-> Value(items[r], names[i])]]]
  IN  IF names = <<>> THEN Is(Empty)
      ELSE IF \E i \in DOMAIN names : Cardinality(Types(table, i)) > 1 THEN Failed("execution_failed")
      ELSE Is(table)

\* decode: a portable file says its columns, their types and which may be null
Portable(items, schema) ==
  LET names == [i \in DOMAIN schema |-> schema[i].name]
      of(r, i) == Value(items[r], names[i])
      fits(r) == /\ {items[r][j].name : j \in DOMAIN items[r]} = ToSet(names)
                 /\ \A i \in DOMAIN schema : of(r, i) = Null => schema[i].nullable
  IN  IF \E r \in DOMAIN items : ~ fits(r) THEN Failed("execution_failed")
      ELSE Is([names |-> names,
               rows |-> [r \in DOMAIN items |-> [i \in DOMAIN names |->
                           IF of(r, i) = Null THEN Null ELSE Cell(schema[i].type, of(r, i).text)]]])

\* The objects in the lines of a file: a portable file begins with one that says
\* its schema, and a portable JSON file is one object.
Objects(d) ==
  IF d.kind = "json" THEN <<<<Pair("rows", Cell("nested", "rows"))>>>>
  ELSE IF d.schema # None THEN <<<<Pair("$otc", Cell("nested", "schema"))>>>> \o d.items ELSE d.items

\* parse_json_table and parse_jsonl_table: one array, or an object in every line
JsonTable(d, format) ==
  IF d.kind \notin {"json", "jsonl"} \/ d.broken THEN Failed("execution_failed")
  ELSE IF d.kind = format THEN (IF d.schema # None THEN Portable(d.items, d.schema) ELSE OfObjects(d.items))
  ELSE IF format = "jsonl" /\ d.schema # None THEN OfObjects(Objects(d)) ELSE Failed("execution_failed")

\* LocalBoundedReader's own reading: a CSV row is an object of the cells that have a
\* name, an empty text stays a text
Zipped(header, row) ==
  [i \in 1 .. (IF Len(row) < Len(header) THEN Len(row) ELSE Len(header)) |->
     Pair(header[i], Cell("text", row[i]))]
Records(d, lines) ==
  LET rows == CsvRows(d)
  IN  IF ~ IsText(d) \/ (lines /\ d.kind # "jsonl" /\ ~ (d.kind = "json" /\ d.schema # None))
      THEN Failed("raw")
      ELSE Is(IF lines THEN Objects(d) ELSE [i \in 1 .. (Len(rows) - 1) |-> Zipped(rows[1], rows[i + 1])])

\* the columns are those of the first object
FirstNamed(items) ==
  LET names == IF items = <<>> THEN <<>> ELSE Keys(<<items[1]>>)
      table == [names |-> names,
                rows |-> [r \in DOMAIN items |-> [i \in DOMAIN names |-> Value(items[r], names[i])]]]
  IN  IF names = <<>> THEN Is(Empty)
      ELSE IF \E i \in DOMAIN names : Cardinality(Types(table, i)) > 1 THEN Failed("raw") ELSE Is(table)

-----------------------------------------------------------------------------
(* detect_format *)

Even(d) ==
  LET lines == Filled(d.rows)
  IN  d.kind = "csv" /\ Len(lines) >= 2 /\ Len(lines[1]) = Len(lines[2]) /\ Len(lines[1]) > 1

\* is_markdown_payload
IsMarkdown(d) ==
  /\ d.kind = "md" /\ Len(d.rows) >= 2 /\ Ruled(d.rows[2])
  /\ \A i \in DOMAIN d.rows : Len(d.rows[i]) = Len(d.rows[1])

\* the format that must be parsed to be sure of it; None: the lines decide
Claims(d, suffix) ==
  IF suffix \in {"json", "jsonl"} THEN suffix
  ELSE IF d.kind = "json" /\ d.schema # None THEN "jsonl"
  ELSE IF d.kind \in {"json", "jsonl"} THEN d.kind ELSE None

\* the format by the look of the lines; None: there is none
Look(d, suffix) ==
  IF Even(d) THEN "csv"
  ELSE IF IsMarkdown(d) THEN "md"
  ELSE IF suffix = "csv" /\ (Len(Filled(CsvRows(d))) >= 2) THEN "csv" ELSE None
=============================================================================
