--------------------------- MODULE WorkbookContent ---------------------------
(* What the edits of a local workbook session do to the workbook.  Every      *)
(* queued change is applied to the book loaded from the file, on top of the    *)
(* changes queued before it, and the result is validated; a change that fails  *)
(* is refused and is not queued.  A commit builds the same book again, writes  *)
(* it, reads it back and publishes it.                                         *)
(*                                                                             *)
(* `draft` is the book with the queued changes, `workbook` the published one.  *)
(* The binding fixes the revision of the file, so that rebuilding the draft    *)
(* from the file gives the same book every time: what another program may do   *)
(* to the file meanwhile is in WorkbookFile.  A cell is its content, its       *)
(* number format and one bit of style; a formula keeps the name it cites, and  *)
(* with it (history) the sheet that had the name, and how often its rows had   *)
(* been sorted, when the formula was written.                                  *)
EXTENDS Integers, Sequences, FiniteSets, SequencesExt, Functions

CONSTANTS
    Names,        \* worksheet names
    Folded,       \* [Names -> the name without regard to case]
    Numbered,     \* the names that end in a number
    Rows, Columns,\* 1..n: the cells of a sheet the model looks at
    Areas,        \* the rectangles that changes address
    Contents,     \* the contents that a write may put in a cell
    Pictures,     \* images
    Books,        \* the workbooks that may be on disk
    SheetLimit, CellLimit, PictureLimit,    \* ArtifactLimits
    MaxEdits      \* bound: changes accepted in one behaviour

VARIABLES
    profile,      \* "general" or "literal"
    workbook,     \* the published workbook, <<>> when there is none
    draft,        \* the workbook with the queued changes
    edits,        \* number of accepted changes
    sealed        \* the literal artifact was written: no more changes

contentVars == <<profile, workbook, draft, edits, sealed>>

Cells == Rows \X Columns

NoCitation == [name |-> "", of |-> 0, sorts |-> 0]
Blank == [kind |-> "blank", n |-> 0, cites |-> NoCitation]
Plain == [content |-> Blank, format |-> "General", bold |-> FALSE]

In(area) == {cell \in Cells : /\ cell[1] \in area.top..area.bottom
                              /\ cell[2] \in area.left..area.right}
Anchor(area) == <<area.top, area.left>>
Covered(area) == In(area) \ {Anchor(area)}
CoveredBy(sheet) == UNION {Covered(area) : area \in sheet.merges}

Taken(book, name) == \E i \in DOMAIN book : Folded[book[i].name] = Folded[name]

(* A variant: the formulas of the first worksheet only                         *)
FirstHasReferences(book) ==
    \E i \in DOMAIN book : \E cell \in Cells :
        i = 1 /\ book[i].cells[cell].content.kind = "formula"

HasReferences(book) ==
    \E i \in DOMAIN book : \E cell \in Cells :
        book[i].cells[cell].content.kind = "formula"

Occupied(book) ==
    {at \in (DOMAIN book) \X Cells :
        book[at[1]].cells[at[2]].content.kind # "blank"}
Placed(book) == {at \in (DOMAIN book) \X (1..PictureLimit + 1) :
                    at[2] \in DOMAIN book[at[1]].images}

(* _validate_book, at the end of every build                                  *)
Within(book) == /\ Len(book) <= SheetLimit
                /\ Cardinality(Occupied(book)) <= CellLimit
                /\ Cardinality(Placed(book)) <= PictureLimit

(***************************************************************************)
(* Serialisation.  openpyxl writes the empty text as an inline string with *)
(* no text and reads it back as a blank; the load puts the text back.      *)
(***************************************************************************)
EmptyText == [kind |-> "text", n |-> 0, cites |-> NoCitation]
Inline == [kind |-> "inline", n |-> 0, cites |-> NoCitation]

EachContent(book, F) ==
    [i \in DOMAIN book |-> [book[i] EXCEPT !.cells =
        [cell \in Cells |-> [book[i].cells[cell] EXCEPT !.content =
            IF @ \in DOMAIN F THEN F[@] ELSE @]]]]

Saved(book) == EachContent(book, [c \in {EmptyText} |-> Inline])
Loaded(raw) == EachContent(raw, [c \in {Inline} |-> EmptyText])

(* _snapshot: what two workbooks are compared by.  A cell without content      *)
(* counts only when it has a style.                                            *)
Filled(sheet) == {cell \in Cells : sheet.cells[cell].content.kind # "blank"}
Snapshot(book) ==
    [i \in DOMAIN book |->
        LET sheet == book[i]
        IN  [name |-> sheet.name, merges |-> sheet.merges, images |-> sheet.images,
             visibility |-> sheet.shown,
             cells |-> [cell \in Filled(sheet) |-> sheet.cells[cell]],
             styles |-> {<<cell, sheet.cells[cell]>> :
                            cell \in {x \in Cells \ Filled(sheet) :
                                         sheet.cells[x] # Plain}}]]

(***************************************************************************)
(* The physical check of a literal artifact                                *)
(***************************************************************************)
CellsAreLiteral(sheet) ==
    \A cell \in Cells :
        LET c == sheet.cells[cell]
        IN  c.content.kind = "blank"
            \/ (c.content.kind \in {"text", "inline"} /\ c.format = "@")

Overlap(a, b) == In(a) \cap In(b) # {}

MergesAreClear(sheet) ==
    /\ \A a, b \in sheet.merges : a # b => ~Overlap(a, b)
    /\ \A cell \in CoveredBy(sheet) :
           sheet.cells[cell].content.kind = "blank"

Distinct(book) == \A i, j \in DOMAIN book :
    i # j => Folded[book[i].name] # Folded[book[j].name]

(* A variant: the names and the merges, not the cells                          *)
VerifyNames(raw) ==
    /\ raw # <<>> /\ Distinct(raw)
    /\ \A i \in DOMAIN raw : MergesAreClear(raw[i])

VerifySnapshot(raw) ==
    /\ raw # <<>>
    /\ Distinct(raw)
    /\ \A i \in DOMAIN raw : /\ CellsAreLiteral(raw[i])
                               /\ MergesAreClear(raw[i])
                               /\ \A area \in raw[i].merges : Covered(area) # {}

-----------------------------------------------------------------------------
(* What a worksheet is: cells of which a formula cites a sheet, the others none *)
Citations == [name : Names \cup {""}, of : Int, sorts : Nat]
CellContents == [kind : {"blank", "text", "inline", "number", "formula"},
                 n : Int, cites : Citations]
CellFormats == {"General", "@", "0.00"}
CellValues == [content : CellContents, format : CellFormats, bold : BOOLEAN]
Worksheets == [name : Names, id : Int, merges : SUBSET Areas, shown : BOOLEAN,
               images : Seq(Pictures), sorts : Nat, cells : [Cells -> CellValues]]

NoneHidden(book) ==
    /\ Distinct(book)
    /\ \A i \in DOMAIN book : MergesAreClear(book[i])

CitationsHold(book) ==
    \A i \in DOMAIN book : \A cell \in Cells :
        LET c == book[i].cells[cell].content
        IN  c.kind = "formula" =>
                \E k \in DOMAIN book : /\ book[k].name = c.cites.name
                                       /\ book[k].id = c.cites.of
                                       /\ book[k].sorts = c.cites.sorts

(* Areas lie in the cells looked at; a write puts no formula and clears nothing. *)
(* A name that gets a number finds one that is free (openpyxl counts on).        *)
ASSUME ContentAssumption ==
    /\ Rows \subseteq Int /\ Numbered \subseteq Names
    /\ SheetLimit \in Nat /\ MaxEdits \in Nat
    /\ Areas \subseteq [top : Int, left : Int, bottom : Int, right : Int]
    /\ \A area \in Areas : /\ area.top..area.bottom \subseteq Rows
                           /\ area.left..area.right \subseteq Columns
    /\ \A c \in Contents : c \in CellContents /\ c.kind \in {"text", "number"}
    /\ \A n \in 0..SheetLimit : \A names \in [1..n -> Names] :
          \A i \in 1..n, name \in Names :
             (names[i] # name /\ Folded[names[i]] = Folded[name]) =>
                \E new \in Numbered : \A j \in 1..n : Folded[names[j]] # Folded[new]

(* A workbook that may be on disk is one that Excel would not repair, and its    *)
(* formulas cite sheets it has.                                                  *)
ASSUME BooksAssumption ==
    \A book \in Books :
        /\ book \in Seq(Worksheets)
        /\ NoneHidden(book) /\ CitationsHold(book)
        /\ \A i, j \in DOMAIN book : book[i].id >= 0 /\ (i # j => book[i].id # book[j].id)

-----------------------------------------------------------------------------
ContentTypeOK ==
    /\ profile \in {"general", "literal"}
    /\ edits \in 0..MaxEdits
    /\ sealed \in BOOLEAN
    /\ workbook \in Seq(Worksheets) /\ draft \in Seq(Worksheets)

ContentInit ==
    /\ profile \in {"general", "literal"}
    /\ workbook \in Books \cup {<<>>}
    /\ draft = Loaded(workbook)
    /\ edits = 0
    /\ sealed = FALSE

(* The change is queued: the book it leads to is the draft                    *)
Accept(book) ==
    /\ ~sealed
    /\ edits < MaxEdits
    /\ Within(book)
    /\ draft' = book
    /\ edits' = edits + 1
    /\ UNCHANGED <<profile, workbook, sealed>>

SetCells(i, cells) == Accept([draft EXCEPT ![i].cells = cells])

(* A new sheet, told from every other one in history by the change that made it *)
NewSheet(name) ==
    [name |-> name, id |-> -(edits + 1), cells |-> [cell \in Cells |-> Plain],
     merges |-> {}, shown |-> TRUE, images |-> <<>>, sorts |-> 0]

(***************************************************************************)
(* Worksheets                                                              *)
(***************************************************************************)
Create(name, at) ==
    /\ ~Taken(draft, name)
    /\ Len(draft) < SheetLimit
    /\ Accept(InsertAt(draft, at, NewSheet(name)))

(* A name that differs in case only from the sheet's own is allowed, but       *)
(* openpyxl takes it for a duplicate and gives it a number that is free        *)
Titled(old, name) ==
    IF old # name /\ Folded[old] = Folded[name]
    THEN CHOOSE new \in Numbered : ~Taken(draft, new)
    ELSE name

Rename(i, name) ==
    /\ ~HasReferences(draft)
    /\ \A j \in (DOMAIN draft) \ {i} : Folded[draft[j].name] # Folded[name]
    /\ Accept([draft EXCEPT ![i].name = Titled(@, name)])

Delete(i) ==
    /\ ~HasReferences(draft)
    /\ Accept(RemoveAt(draft, i))

Move(i, at) ==
    Accept(InsertAt(RemoveAt(draft, i), at, draft[i]))

Configure(i, shown) == Accept([draft EXCEPT ![i].shown = shown])

InsertPicture(i, picture) == Accept([draft EXCEPT ![i].images = Append(@, picture)])

DeletePicture(i, k) == Accept([draft EXCEPT ![i].images = RemoveAt(@, k)])

(***************************************************************************)
(* Cells.  A cell covered by a merge is read-only in openpyxl: writing to   *)
(* it, clearing it or giving it a formula is refused.                       *)
(***************************************************************************)
(* A variant: a covered cell can be written                                    *)
WritableAnywhere(i, area) == In(area) # {}

Writable(i, area) == In(area) \cap CoveredBy(draft[i]) = {}

Cite(j) == [name |-> draft[j].name, of |-> draft[j].id, sorts |-> draft[j].sorts]

SetFormula(i, cell, j) ==
    /\ profile # "literal"
    /\ cell \notin CoveredBy(draft[i])
    /\ SetCells(i, [draft[i].cells EXCEPT ![cell].content =
                        [kind |-> "formula", n |-> 0, cites |-> Cite(j)]])

(* range.write: the matrix has the shape of the range; literal artifacts take *)
(* text only, and mark it as text.  A text never becomes a formula.            *)
Write(i, area, matrix) ==
    /\ profile = "literal" =>
           \A cell \in In(area) : matrix[cell].kind = "text"
    /\ Writable(i, area)
    /\ SetCells(i, [cell \in Cells |->
           IF cell \notin In(area) THEN draft[i].cells[cell]
           ELSE [draft[i].cells[cell] EXCEPT
                    !.content = matrix[cell],
                    !.format = IF profile = "literal" THEN "@" ELSE @]])

Clear(i, area) ==
    /\ Writable(i, area)
    /\ SetCells(i, [cell \in Cells |->
           IF cell \in In(area)
           THEN [draft[i].cells[cell] EXCEPT !.content = Blank]
           ELSE draft[i].cells[cell]])

(* range.style: bold, or the reset of everything but the number format, or a  *)
(* number format, which the style of a literal artifact may set too            *)
Style(i, area, style) ==
    SetCells(i, [cell \in Cells |->
        IF cell \notin In(area) THEN draft[i].cells[cell]
        ELSE [draft[i].cells[cell] EXCEPT
                 !.bold = IF "bold" \in DOMAIN style THEN style.bold ELSE @,
                 !.format = IF "format" \in DOMAIN style THEN style.format ELSE @]])

Format(i, area, format) ==
    /\ profile = "literal" => format = "@"
    /\ Style(i, area, [format |-> format])

(* range.merge: the covered cells lose their style; a merge never overlaps     *)
(* another and never covers a populated cell                                   *)
Reset(i, cells) ==
    [cell \in Cells |-> IF cell \in cells THEN Plain ELSE draft[i].cells[cell]]

Merge(i, area) ==
    /\ \A cell \in Covered(area) : draft[i].cells[cell].content = Blank
    /\ \A other \in draft[i].merges : ~Overlap(area, other)
    /\ Accept([draft EXCEPT ![i].merges = @ \cup {area},
                            ![i].cells = Reset(i, Covered(area))])

Unmerge(i, area) ==
    /\ area \in draft[i].merges
    /\ Accept([draft EXCEPT ![i].merges = @ \ {area},
                            ![i].cells = Reset(i, Covered(area))])

(***************************************************************************)
(* range.sort                                                              *)
(***************************************************************************)
SortRows(area, header) == (area.top + IF header THEN 1 ELSE 0)..area.bottom

KeyAt(sheet, row, column) == sheet.cells[<<row, column>>].content

Comparable(keys) ==
    \A a, b \in keys : a # Blank /\ b # Blank => a.kind = b.kind

(* A variant: reversed means the whole order, equal keys and all               *)
BeforeReversed(sheet, options, q, r) ==
    LET a == KeyAt(sheet, q, options.column)
        b == KeyAt(sheet, r, options.column)
    IN  IF (a = Blank) # (b = Blank)
        THEN (a = Blank) = (options.blanks = "first")
        ELSE IF a = Blank \/ a.n = b.n THEN (IF options.reverse THEN q > r ELSE q < r)
        ELSE IF options.reverse THEN a.n > b.n ELSE a.n < b.n

(* Row q comes before row r: blanks at their end in their order, the others by *)
(* key, and equal keys in their order, reversed or not                         *)
Before(sheet, options, q, r) ==
    LET a == KeyAt(sheet, q, options.column)
        b == KeyAt(sheet, r, options.column)
    IN  IF (a = Blank) # (b = Blank)
        THEN (a = Blank) = (options.blanks = "first")
        ELSE IF a = Blank \/ a.n = b.n THEN q < r
        ELSE IF options.reverse THEN a.n > b.n ELSE a.n < b.n

(* The row that ends up at position r                                          *)
RowAt(sheet, options, rows, r) ==
    CHOOSE q \in rows :
        Cardinality({p \in rows : Before(sheet, options, p, q)})
            = Cardinality({p \in rows : p < r})

(* A variant: the key column is sorted, the rest stays                         *)
SortedColumn(sheet, area, options) ==
    LET rows == SortRows(area, options.header)
    IN  [cell \in Cells |->
            IF cell \in In(area) /\ cell[1] \in rows /\ cell[2] = options.column
            THEN sheet.cells[<<RowAt(sheet, options, rows, cell[1]), cell[2]>>]
            ELSE sheet.cells[cell]]

Sorted(sheet, area, options) ==
    LET rows == SortRows(area, options.header)
    IN  [cell \in Cells |->
            IF cell \in In(area) /\ cell[1] \in rows
            THEN sheet.cells[<<RowAt(sheet, options, rows, cell[1]), cell[2]>>]
            ELSE sheet.cells[cell]]

Options == [column : Columns, header : BOOLEAN, reverse : BOOLEAN,
            blanks : {"first", "last"}]

Sort(i, area, options) ==
    /\ ~HasReferences(draft)
    /\ \A other \in draft[i].merges : ~Overlap(area, other)
    /\ options.column \in area.left..area.right
    /\ Comparable({KeyAt(draft[i], row, options.column) :
                      row \in SortRows(area, options.header)})
    /\ Accept([draft EXCEPT ![i].cells = Sorted(draft[i], area, options),
                            ![i].sorts = @ + 1])

(***************************************************************************)
(* commit: a workbook with a visible worksheet, serialised and read back;   *)
(* a literal artifact passes the physical check                             *)
(***************************************************************************)
Commit ==
    /\ ~sealed
    /\ \E i \in DOMAIN draft : draft[i].shown
    /\ IF profile = "literal" THEN VerifySnapshot(Saved(draft))
       ELSE Snapshot(Loaded(Saved(draft))) = Snapshot(draft)
    /\ workbook' = Saved(draft)
    /\ draft' = Loaded(workbook')
    /\ sealed' = (profile = "literal")
    /\ UNCHANGED <<profile, edits>>

(* The matrices a write is given: the same content in every cell of the range *)
Matrices(area) == {[cell \in In(area) |-> c] : c \in Contents}

Styles == {[bold |-> TRUE], [bold |-> FALSE], [format |-> "0.00"]}
Formats == {"@", "0.00"}

Edit(i) ==
    \/ \E name \in Names : Rename(i, name)
    \/ Delete(i)
    \/ \E at \in DOMAIN draft : Move(i, at)
    \/ \E shown \in BOOLEAN : Configure(i, shown)
    \/ \E picture \in Pictures : InsertPicture(i, picture)
    \/ \E k \in DOMAIN draft[i].images : DeletePicture(i, k)
    \/ \E cell \in Cells, j \in DOMAIN draft : SetFormula(i, cell, j)
    \/ \E area \in Areas : \/ \E matrix \in Matrices(area) : Write(i, area, matrix)
                           \/ Clear(i, area)
                           \/ \E style \in Styles : Style(i, area, style)
                           \/ \E format \in Formats : Format(i, area, format)
                           \/ Merge(i, area)
                           \/ Unmerge(i, area)
                           \/ \E options \in Options : Sort(i, area, options)

ContentNext ==
    \/ \E name \in Names, at \in 1..(Len(draft) + 1) : Create(name, at)
    \/ \E i \in DOMAIN draft : Edit(i)
    \/ Commit

ContentSpec == ContentInit /\ [][ContentNext]_contentVars

-----------------------------------------------------------------------------
(* No cell's content is ever hidden under a merge, merges never overlap, and   *)
(* no two sheets have names that Excel takes for the same one, whatever the    *)
(* order of writes, merges, sorts, renames and commits.                        *)
NothingIsHidden == NoneHidden(draft)

(* A formula goes on referring to what it referred to when it was set: the     *)
(* sheet it cites still has that name and its rows have not moved since.       *)
ReferencesHold == CitationsHold(draft)

(* A sealed artifact holds text and nothing else, every text marked as text.   *)
SealedIsLiteral ==
    sealed => \A i \in DOMAIN workbook : CellsAreLiteral(workbook[i])

BookIsSound == NothingIsHidden /\ ReferencesHold /\ SealedIsLiteral

(* A sort moves whole rows, inside its range and below its header, and leaves  *)
(* equal keys in their order.                                                  *)
Permuted(before, after, area, options) ==
    LET rows == SortRows(area, options.header)
        key(sheet, r) == KeyAt(sheet, r, options.column)
    IN  \E p \in Bijection(rows, rows) :
            /\ \A cell \in Cells :
                   after.cells[cell] =
                       IF cell \in In(area) /\ cell[1] \in rows
                       THEN before.cells[<<p[cell[1]], cell[2]>>]
                       ELSE before.cells[cell]
            /\ \A q, r \in rows :
                   q < r => LET a == key(after, q)
                                b == key(after, r)
                            IN  IF a = Blank \/ b = Blank
                                THEN /\ a = Blank /\ b = Blank => p[q] < p[r]
                                     /\ a # b => (a = Blank) = (options.blanks = "first")
                                ELSE /\ a = b => p[q] < p[r]
                                     /\ IF options.reverse THEN a.n >= b.n ELSE a.n <= b.n

SortsKeepRows ==
    [][\A i \in DOMAIN draft :
           (i \in DOMAIN draft' /\ draft'[i].id = draft[i].id
                /\ draft'[i].sorts # draft[i].sorts) =>
               \E area \in Areas, options \in Options :
                   Permuted(draft[i], draft'[i], area, options)]_contentVars
=============================================================================
