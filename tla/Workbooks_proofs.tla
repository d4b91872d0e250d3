---------------------------- MODULE Workbooks_proofs ----------------------------
(***************************************************************************)
(* What is in a workbook, and what becomes of its file.                    *)
(*                                                                         *)
(* Of WorkbookContent: that no change hides content, leaves two sheets with*)
(* one name or a formula with a citation of another sheet, that a sealed   *)
(* artifact is literal, and that a sort moves whole rows in their order.   *)
(* Every change is shown to lead from a sound book to a sound one; sheets  *)
(* are told apart by the change that created them.                         *)
(*                                                                         *)
(* Types of WorkbookFile for any calls; until a recalculation is published,*)
(* that no save loses an edit and that a revision is enforced, because the *)
(* lock makes what a call read the file it replaces; and what becomes of a *)
(* call: its answer is true, it leaves no staging file, and its key        *)
(* publishes once, because a ledger entry is free only while no call under *)
(* it has published or may still.                                          *)
(***************************************************************************)
EXTENDS WorkbookFile, WorkbookContent, FiniteSetTheorems, TLAPS

-----------------------------------------------------------------------------
(* The content of a workbook.                                              *)

\* No two sheets of a book were created by the same change, and none by one to
\* come: n changes have been accepted.
Apart(book, n) ==
    \A i \in DOMAIN book :
        /\ book[i].id >= -n
        /\ \A j \in DOMAIN book : i # j => book[i].id # book[j].id

ContentInv ==
    /\ ContentTypeOK
    /\ NothingIsHidden /\ ReferencesHold /\ SealedIsLiteral
    /\ Apart(draft, edits)

\* A sheet that keeps its place has not been sorted.
Unsorted(book) ==
    \A i \in DOMAIN draft : (i \in DOMAIN book /\ book[i].id = draft[i].id) =>
        book[i].sorts = draft[i].sorts

Sound(book) ==
    /\ book \in Seq(Worksheets)
    /\ NoneHidden(book) /\ CitationsHold(book) /\ Apart(book, edits + 1)

-----------------------------------------------------------------------------
\* What the sequence operators of the changes leave at each place.
LEMMA Joined ==
    ASSUME NEW S, NEW a \in Seq(S), NEW b \in Seq(S)
    PROVE  /\ a \o b \in Seq(S) /\ Len(a \o b) = Len(a) + Len(b)
           /\ \A j \in 1..(Len(a) + Len(b)) :
                 (a \o b)[j] = IF j <= Len(a) THEN a[j] ELSE b[j - Len(a)]
    OBVIOUS

\* A sheet inserted at a place moves the sheets behind it up.
LEMMA InsertedAt ==
    ASSUME NEW S, NEW s \in Seq(S), NEW i \in 1..(Len(s) + 1), NEW e \in S
    PROVE  /\ InsertAt(s, i, e) \in Seq(S) /\ Len(InsertAt(s, i, e)) = Len(s) + 1
           /\ \A j \in 1..(Len(s) + 1) :
                 InsertAt(s, i, e)[j] = IF j < i THEN s[j] ELSE IF j = i THEN e ELSE s[j - 1]
<1>1. /\ SubSeq(s, 1, i - 1) \in Seq(S) /\ Len(SubSeq(s, 1, i - 1)) = i - 1
      /\ \A j \in 1..(i - 1) : SubSeq(s, 1, i - 1)[j] = s[j]
    OBVIOUS
<1>2. /\ SubSeq(s, i, Len(s)) \in Seq(S) /\ Len(SubSeq(s, i, Len(s))) = Len(s) - i + 1
      /\ \A j \in 1..(Len(s) - i + 1) : SubSeq(s, i, Len(s))[j] = s[i + j - 1]
    OBVIOUS
<1>3. /\ <<e>> \in Seq(S) /\ Len(<<e>>) = 1 /\ <<e>>[1] = e
    OBVIOUS
<1>4. PICK a : a = SubSeq(s, 1, i - 1)
    OBVIOUS
<1>5. PICK b : b = SubSeq(s, i, Len(s))
    OBVIOUS
<1>6. PICK c : c = a \o <<e>>
    OBVIOUS
<1>7. /\ c \in Seq(S) /\ Len(c) = i
      /\ \A j \in 1..i : c[j] = IF j < i THEN s[j] ELSE e
  <2>1. a \in Seq(S) /\ Len(a) = i - 1
    BY <1>1, <1>4
  <2>2. /\ c \in Seq(S) /\ Len(c) = i
        /\ \A j \in 1..i : c[j] = IF j <= i - 1 THEN a[j] ELSE <<e>>[j - (i - 1)]
    BY <1>3, <1>6, <2>1, Joined
  <2> QED  BY <1>1, <1>3, <1>4, <2>2
<1>8. InsertAt(s, i, e) = c \o b
    BY <1>4, <1>5, <1>6 DEF InsertAt
<1>9. b \in Seq(S) /\ Len(b) = Len(s) - i + 1 /\ \A j \in 1..(Len(s) - i + 1) : b[j] = s[i + j - 1]
    BY <1>2, <1>5
<1>10. /\ c \o b \in Seq(S) /\ Len(c \o b) = Len(s) + 1
       /\ \A j \in 1..(Len(s) + 1) : (c \o b)[j] = IF j <= i THEN c[j] ELSE b[j - i]
    BY <1>7, <1>9, Joined
<1> QED  BY <1>7, <1>8, <1>9, <1>10

\* A sheet removed moves the sheets behind it down.
LEMMA RemovedAt ==
    ASSUME NEW S, NEW s \in Seq(S), NEW i \in DOMAIN s
    PROVE  /\ RemoveAt(s, i) \in Seq(S) /\ Len(RemoveAt(s, i)) = Len(s) - 1
           /\ \A j \in 1..(Len(s) - 1) :
                 RemoveAt(s, i)[j] = IF j < i THEN s[j] ELSE s[j + 1]
<1>1. /\ SubSeq(s, 1, i - 1) \in Seq(S) /\ Len(SubSeq(s, 1, i - 1)) = i - 1
      /\ \A j \in 1..(i - 1) : SubSeq(s, 1, i - 1)[j] = s[j]
    OBVIOUS
<1>2. /\ SubSeq(s, i + 1, Len(s)) \in Seq(S) /\ Len(SubSeq(s, i + 1, Len(s))) = Len(s) - i
      /\ \A j \in 1..(Len(s) - i) : SubSeq(s, i + 1, Len(s))[j] = s[i + j]
    OBVIOUS
<1>3. PICK a : a = SubSeq(s, 1, i - 1)
    OBVIOUS
<1>4. PICK b : b = SubSeq(s, i + 1, Len(s))
    OBVIOUS
<1>5. RemoveAt(s, i) = a \o b
    BY <1>3, <1>4 DEF RemoveAt
<1>6. /\ a \in Seq(S) /\ Len(a) = i - 1 /\ b \in Seq(S) /\ Len(b) = Len(s) - i
      /\ \A j \in 1..(i - 1) : a[j] = s[j]
      /\ \A j \in 1..(Len(s) - i) : b[j] = s[i + j]
    BY <1>1, <1>2, <1>3, <1>4
<1>7. /\ a \o b \in Seq(S) /\ Len(a \o b) = Len(s) - 1
      /\ \A j \in 1..(Len(s) - 1) : (a \o b)[j] = IF j <= i - 1 THEN a[j] ELSE b[j - (i - 1)]
  <2>1. Len(s) \in Nat /\ i \in 1..Len(s)
    OBVIOUS
  <2>2. (i - 1) + (Len(s) - i) = Len(s) - 1
    BY <2>1
  <2>3. /\ a \o b \in Seq(S) /\ Len(a \o b) = (i - 1) + (Len(s) - i)
        /\ \A j \in 1..((i - 1) + (Len(s) - i)) :
              (a \o b)[j] = IF j <= i - 1 THEN a[j] ELSE b[j - (i - 1)]
    <3>1. /\ a \o b \in Seq(S) /\ Len(a \o b) = Len(a) + Len(b)
          /\ \A j \in 1..(Len(a) + Len(b)) :
                (a \o b)[j] = IF j <= Len(a) THEN a[j] ELSE b[j - Len(a)]
      BY ONLY <1>6, Joined
    <3> QED  BY ONLY <1>6, <3>1
  <2> QED  BY <2>2, <2>3
<1>8. ASSUME NEW j \in 1..(Len(s) - 1)
      PROVE  (a \o b)[j] = IF j < i THEN s[j] ELSE s[j + 1]
  <2>1. CASE j < i
    BY <1>6, <1>7, <2>1
  <2>2. CASE ~(j < i)
    <3>1. j - (i - 1) \in 1..(Len(s) - i) /\ i + (j - (i - 1)) = j + 1 /\ ~(j <= i - 1)
      BY <2>2
    <3> QED  BY <1>6, <1>7, <2>2, <3>1
  <2> QED  BY <2>1, <2>2
<1> QED  BY <1>5, <1>7, <1>8

-----------------------------------------------------------------------------
\* A change that is accepted leads to a sound book.
LEMMA Accepted ==
    ASSUME ContentInv, NEW book, Sound(book), Accept(book)
    PROVE  ContentInv'
<1>1. /\ draft' = book /\ edits' = edits + 1 /\ edits < MaxEdits
      /\ UNCHANGED <<profile, workbook, sealed>> /\ ~sealed
    BY DEF Accept
<1>2. ContentTypeOK'
    BY <1>1, ContentAssumption DEF ContentInv, ContentTypeOK, Sound
<1>3. NothingIsHidden' /\ ReferencesHold' /\ SealedIsLiteral'
    BY <1>1 DEF NothingIsHidden, ReferencesHold, SealedIsLiteral, Sound
<1>4. Apart(draft, edits)'
    BY <1>1 DEF Sound
<1> QED  BY <1>2, <1>3, <1>4 DEF ContentInv

\* One sheet is given another content: what it cites is what it cited, or a sheet
\* of the book as it is.
LEMMA SheetChanged ==
    ASSUME ContentInv, NEW i \in DOMAIN draft, NEW s \in Worksheets,
           s.name = draft[i].name, s.id = draft[i].id, s.sorts = draft[i].sorts,
           MergesAreClear(s),
           \A cell \in Cells : s.cells[cell].content.kind = "formula" =>
               \/ s.cells[cell].content = draft[i].cells[cell].content
               \/ \E j \in DOMAIN draft : s.cells[cell].content.cites = Cite(j)
    PROVE  Sound([draft EXCEPT ![i] = s]) /\ Unsorted([draft EXCEPT ![i] = s])
<1> DEFINE book == [draft EXCEPT ![i] = s]
<1>0. draft \in Seq(Worksheets) /\ edits \in Nat
    BY DEF ContentInv, ContentTypeOK
<1>1. /\ book \in Seq(Worksheets) /\ DOMAIN book = DOMAIN draft
      /\ book[i] = s /\ \A j \in DOMAIN draft : j # i => book[j] = draft[j]
    BY <1>0
<1> HIDE DEF book
<1>2. \A j \in DOMAIN draft : book[j].name = draft[j].name /\ book[j].id = draft[j].id
                              /\ book[j].sorts = draft[j].sorts
    BY <1>1
<1>3. NoneHidden(book)
    BY <1>1, <1>2 DEF ContentInv, NothingIsHidden, NoneHidden, Distinct
<1>4. CitationsHold(book)
  <2> SUFFICES ASSUME NEW j \in DOMAIN draft, NEW cell \in Cells,
                      book[j].cells[cell].content.kind = "formula"
               PROVE  \E k \in DOMAIN draft :
                         /\ draft[k].name = book[j].cells[cell].content.cites.name
                         /\ draft[k].id = book[j].cells[cell].content.cites.of
                         /\ draft[k].sorts = book[j].cells[cell].content.cites.sorts
    BY <1>1, <1>2 DEF CitationsHold
  <2>1. CASE book[j].cells[cell].content = draft[j].cells[cell].content
    BY <2>1 DEF ContentInv, ReferencesHold, CitationsHold
  <2>2. CASE \E k \in DOMAIN draft : book[j].cells[cell].content.cites = Cite(k)
    <3>1. PICK k \in DOMAIN draft : book[j].cells[cell].content.cites = Cite(k)
      BY <2>2
    <3>2. /\ book[j].cells[cell].content.cites.name = draft[k].name
          /\ book[j].cells[cell].content.cites.of = draft[k].id
          /\ book[j].cells[cell].content.cites.sorts = draft[k].sorts
      BY <3>1 DEF Cite
    <3> QED  BY <3>2
  <2> QED  BY <1>1, <2>1, <2>2
<1>5. Apart(book, edits + 1)
  <2>1. \A j \in DOMAIN draft : draft[j].id \in Int /\ draft[j].id >= -edits
    <3>1. \A j \in DOMAIN draft : draft[j] \in Worksheets
      BY <1>0
    <3>2. \A j \in DOMAIN draft : draft[j].id \in Int
      BY <3>1 DEF Worksheets
    <3>3. \A j \in DOMAIN draft : draft[j].id >= -edits
      BY DEF ContentInv, Apart
    <3> QED  BY <3>2, <3>3
  <2>2. \A j \in DOMAIN draft : book[j].id >= -(edits + 1)
    BY <1>0, <1>2, <2>1
  <2> QED  BY <1>1, <1>2, <2>2 DEF ContentInv, Apart
<1>6. Unsorted(book)
    BY <1>1, <1>2 DEF Unsorted
<1> QED  BY <1>1, <1>3, <1>4, <1>5, <1>6 DEF Sound, book

\* What a sheet of the draft is.
LEMMA SheetTypes ==
    ASSUME ContentInv, NEW i \in DOMAIN draft
    PROVE  /\ draft[i] \in Worksheets /\ draft[i].cells \in [Cells -> CellValues]
           /\ draft[i].name \in Names /\ draft[i].id \in Int /\ draft[i].sorts \in Nat
           /\ draft[i].merges \subseteq Areas
<1>1. draft[i] \in Worksheets
    BY DEF ContentInv, ContentTypeOK
<1> QED  BY <1>1 DEF Worksheets

\* The cells of one sheet change, the covered ones at most to blanks.
LEMMA CellsChanged ==
    ASSUME ContentInv, NEW i \in DOMAIN draft, NEW cells \in [Cells -> CellValues],
           \A cell \in CoveredBy(draft[i]) :
               \/ cells[cell].content = draft[i].cells[cell].content
               \/ cells[cell].content = Blank,
           \A cell \in Cells : cells[cell].content.kind = "formula" =>
               \/ cells[cell].content = draft[i].cells[cell].content
               \/ \E j \in DOMAIN draft : cells[cell].content.cites = Cite(j)
    PROVE  /\ Sound([draft EXCEPT ![i].cells = cells])
           /\ Unsorted([draft EXCEPT ![i].cells = cells])
<1>1. PICK s : s = [draft[i] EXCEPT !.cells = cells]
    OBVIOUS
<1>2. /\ s \in Worksheets /\ s.cells = cells /\ s.merges = draft[i].merges
      /\ s.name = draft[i].name /\ s.id = draft[i].id /\ s.sorts = draft[i].sorts
    BY <1>1, SheetTypes DEF Worksheets
<1>3. MergesAreClear(s)
  <2>1. MergesAreClear(draft[i])
    BY DEF ContentInv, NothingIsHidden, NoneHidden
  <2>2. CoveredBy(s) = CoveredBy(draft[i])
    BY <1>2 DEF CoveredBy
  <2>3. \A cell \in CoveredBy(s) : s.cells[cell].content.kind = "blank"
    BY <1>2, <2>1, <2>2 DEF MergesAreClear, Blank
  <2> QED  BY <1>2, <2>1, <2>3 DEF MergesAreClear
<1>4. [draft EXCEPT ![i].cells = cells] = [draft EXCEPT ![i] = s]
    BY <1>1
<1>5. Sound([draft EXCEPT ![i] = s]) /\ Unsorted([draft EXCEPT ![i] = s])
    BY <1>2, <1>3, SheetChanged
<1> QED  BY <1>4, <1>5

\* The contents and the cell that the changes themselves write.
LEMMA BlankTypes == /\ Blank \in CellContents /\ Blank.kind = "blank"
                    /\ EmptyText \in CellContents /\ Inline \in CellContents
                    /\ Plain \in CellValues /\ Plain.content = Blank
<1>1. NoCitation \in Citations
    BY DEF NoCitation, Citations
<1>2. /\ Blank \in CellContents /\ EmptyText \in CellContents /\ Inline \in CellContents
      /\ Blank.kind = "blank"
    BY <1>1 DEF Blank, EmptyText, Inline, CellContents
<1>3. Plain \in CellValues /\ Plain.content = Blank
    BY <1>2 DEF Plain, CellValues, CellFormats
<1> QED  BY <1>2, <1>3

\* A formula cites a sheet of the book.
LEMMA FormulaSteps ==
    ASSUME ContentInv, NEW i \in DOMAIN draft, NEW cell \in Cells, NEW j \in DOMAIN draft,
           SetFormula(i, cell, j)
    PROVE  ContentInv' /\ Unsorted(draft')
<1>1. PICK formula : formula = [kind |-> "formula", n |-> 0, cites |-> Cite(j)]
    OBVIOUS
<1>2. PICK cells : cells = [draft[i].cells EXCEPT ![cell].content = formula]
    OBVIOUS
<1>3. formula \in CellContents /\ formula.cites = Cite(j)
  <2>1. Cite(j) \in Citations
    BY SheetTypes DEF Cite, Citations
  <2> QED  BY <1>1, <2>1 DEF CellContents
<1>4. /\ cells \in [Cells -> CellValues] /\ cells[cell].content = formula
      /\ \A other \in Cells : other # cell => cells[other] = draft[i].cells[other]
    BY <1>2, <1>3, SheetTypes DEF CellValues
<1>5. cell \notin CoveredBy(draft[i]) /\ Accept([draft EXCEPT ![i].cells = cells])
    BY <1>1, <1>2 DEF SetFormula, SetCells
<1>6. CoveredBy(draft[i]) \subseteq Cells
    BY DEF CoveredBy, Covered, In
<1>7. Sound([draft EXCEPT ![i].cells = cells]) /\ Unsorted([draft EXCEPT ![i].cells = cells])
    BY <1>3, <1>4, <1>5, <1>6, CellsChanged
<1>8. draft' = [draft EXCEPT ![i].cells = cells]
    BY <1>5 DEF Accept
<1> QED  BY <1>5, <1>7, <1>8, Accepted

\* A write puts no formula, and nothing into a covered cell.
LEMMA WriteSteps ==
    ASSUME ContentInv, NEW i \in DOMAIN draft, NEW area \in Areas,
           NEW matrix \in Matrices(area), Write(i, area, matrix)
    PROVE  ContentInv' /\ Unsorted(draft')
<1>1. PICK cells : cells = [cell \in Cells |->
           IF cell \notin In(area) THEN draft[i].cells[cell]
           ELSE [draft[i].cells[cell] EXCEPT
                    !.content = matrix[cell],
                    !.format = IF profile = "literal" THEN "@" ELSE @]]
    OBVIOUS
<1>2. \A cell \in In(area) : matrix[cell] \in CellContents /\ matrix[cell].kind # "formula"
    BY ContentAssumption DEF Matrices
<1>3. \A cell \in Cells :
        /\ cells[cell] \in CellValues
        /\ cell \in In(area) => cells[cell].content = matrix[cell]
        /\ cell \notin In(area) => cells[cell] = draft[i].cells[cell]
  <2> SUFFICES ASSUME NEW cell \in Cells
               PROVE  /\ cells[cell] \in CellValues
                      /\ cell \in In(area) => cells[cell].content = matrix[cell]
                      /\ cell \notin In(area) => cells[cell] = draft[i].cells[cell]
    OBVIOUS
  <2>1. draft[i].cells[cell] \in CellValues
    BY SheetTypes
  <2>2. PICK f : f = IF profile = "literal" THEN "@" ELSE draft[i].cells[cell].format
    OBVIOUS
  <2>3. f \in CellFormats
    BY <2>1, <2>2 DEF CellValues, CellFormats
  <2>4. cells[cell] = IF cell \notin In(area) THEN draft[i].cells[cell]
                      ELSE [draft[i].cells[cell] EXCEPT !.content = matrix[cell], !.format = f]
    BY <1>1, <2>2
  <2>5. CASE cell \notin In(area)
    BY <2>1, <2>4, <2>5
  <2>6. CASE cell \in In(area)
    <3>1. matrix[cell] \in CellContents
      BY <1>2, <2>6
    <3>2. cells[cell] = [draft[i].cells[cell] EXCEPT !.content = matrix[cell], !.format = f]
      BY <2>4, <2>6
    <3> QED  BY ONLY <2>1, <2>3, <2>6, <3>1, <3>2 DEF CellValues
  <2> QED  BY <2>5, <2>6
<1>4. cells \in [Cells -> CellValues]
    BY <1>1, <1>3
<1>5. Writable(i, area) /\ Accept([draft EXCEPT ![i].cells = cells])
    BY <1>1 DEF Write, SetCells
<1>6. CoveredBy(draft[i]) \subseteq Cells
    BY DEF CoveredBy, Covered, In
<1>7. Sound([draft EXCEPT ![i].cells = cells]) /\ Unsorted([draft EXCEPT ![i].cells = cells])
    BY <1>2, <1>3, <1>4, <1>5, <1>6, CellsChanged DEF Writable
<1>8. draft' = [draft EXCEPT ![i].cells = cells]
    BY <1>5 DEF Accept
<1> QED  BY <1>5, <1>7, <1>8, Accepted

\* A clear leaves blanks.
LEMMA ClearSteps ==
    ASSUME ContentInv, NEW i \in DOMAIN draft, NEW area \in Areas, Clear(i, area)
    PROVE  ContentInv' /\ Unsorted(draft')
<1>1. PICK cells : cells = [cell \in Cells |->
           IF cell \in In(area)
           THEN [draft[i].cells[cell] EXCEPT !.content = Blank]
           ELSE draft[i].cells[cell]]
    OBVIOUS
<1>3. \A cell \in Cells :
        /\ cells[cell] \in CellValues
        /\ cell \in In(area) => cells[cell].content = Blank
        /\ cell \notin In(area) => cells[cell] = draft[i].cells[cell]
    BY <1>1, BlankTypes, SheetTypes DEF CellValues
<1>4. cells \in [Cells -> CellValues]
    BY <1>1, <1>3
<1>5. Accept([draft EXCEPT ![i].cells = cells])
    BY <1>1 DEF Clear, SetCells
<1>6. CoveredBy(draft[i]) \subseteq Cells
    BY DEF CoveredBy, Covered, In
<1>7. Sound([draft EXCEPT ![i].cells = cells]) /\ Unsorted([draft EXCEPT ![i].cells = cells])
  <2>1. \A cell \in Cells : \/ cells[cell].content = draft[i].cells[cell].content
                            \/ cells[cell].content = Blank
    BY <1>3
  <2> QED  BY <1>4, <1>6, <2>1, BlankTypes, CellsChanged
<1>8. draft' = [draft EXCEPT ![i].cells = cells]
    BY <1>5 DEF Accept
<1> QED  BY <1>5, <1>7, <1>8, Accepted

\* A style changes no content.
LEMMA StyleSteps ==
    ASSUME ContentInv, NEW i \in DOMAIN draft, NEW area \in Areas, NEW style,
           "bold" \in DOMAIN style => style.bold \in BOOLEAN,
           "format" \in DOMAIN style => style.format \in CellFormats,
           Style(i, area, style)
    PROVE  ContentInv' /\ Unsorted(draft')
<1>1. PICK cells : cells = [cell \in Cells |->
        IF cell \notin In(area) THEN draft[i].cells[cell]
        ELSE [draft[i].cells[cell] EXCEPT
                 !.bold = IF "bold" \in DOMAIN style THEN style.bold ELSE @,
                 !.format = IF "format" \in DOMAIN style THEN style.format ELSE @]]
    OBVIOUS
<1>2. PICK bold : \A cell \in Cells : bold[cell] =
                     IF "bold" \in DOMAIN style THEN style.bold ELSE draft[i].cells[cell].bold
  <2>1. PICK b : b = [cell \in Cells |->
                     IF "bold" \in DOMAIN style THEN style.bold ELSE draft[i].cells[cell].bold]
    OBVIOUS
  <2> QED  BY <2>1
<1>3. PICK format : \A cell \in Cells : format[cell] =
                     IF "format" \in DOMAIN style THEN style.format ELSE draft[i].cells[cell].format
  <2>1. PICK f : f = [cell \in Cells |->
                     IF "format" \in DOMAIN style THEN style.format ELSE draft[i].cells[cell].format]
    OBVIOUS
  <2> QED  BY <2>1
<1>4. \A cell \in Cells : draft[i].cells[cell] \in CellValues
    BY SheetTypes
<1>5. \A cell \in Cells : bold[cell] \in BOOLEAN /\ format[cell] \in CellFormats
    BY <1>2, <1>3, <1>4 DEF CellValues
<1>6. ASSUME NEW cell \in Cells
      PROVE  cells[cell] \in CellValues /\ cells[cell].content = draft[i].cells[cell].content
  <2>1. cells[cell] = IF cell \notin In(area) THEN draft[i].cells[cell]
                      ELSE [draft[i].cells[cell] EXCEPT !.bold = bold[cell], !.format = format[cell]]
    BY <1>1, <1>2, <1>3
  <2> QED  BY <1>4, <1>5, <2>1 DEF CellValues
<1>7. cells \in [Cells -> CellValues]
    BY <1>1, <1>6
<1>8. Accept([draft EXCEPT ![i].cells = cells])
    BY <1>1 DEF Style, SetCells
<1>9. CoveredBy(draft[i]) \subseteq Cells
    BY DEF CoveredBy, Covered, In
<1>10. Sound([draft EXCEPT ![i].cells = cells]) /\ Unsorted([draft EXCEPT ![i].cells = cells])
    BY <1>6, <1>7, <1>9, CellsChanged
<1>11. draft' = [draft EXCEPT ![i].cells = cells]
    BY <1>8 DEF Accept
<1> QED  BY <1>8, <1>10, <1>11, Accepted

\* What is shown of a sheet, and its pictures, are no part of the properties.
LEMMA PlainSteps ==
    ASSUME ContentInv, NEW i \in DOMAIN draft, NEW s \in Worksheets,
           s.name = draft[i].name, s.id = draft[i].id, s.sorts = draft[i].sorts,
           s.merges = draft[i].merges, s.cells = draft[i].cells,
           Accept([draft EXCEPT ![i] = s])
    PROVE  ContentInv' /\ Unsorted(draft')
<1>1. MergesAreClear(draft[i])
    BY DEF ContentInv, NothingIsHidden, NoneHidden
<1>2. MergesAreClear(s)
    BY <1>1 DEF MergesAreClear, CoveredBy
<1>3. Sound([draft EXCEPT ![i] = s]) /\ Unsorted([draft EXCEPT ![i] = s])
    BY <1>2, SheetChanged
<1>4. draft' = [draft EXCEPT ![i] = s]
    BY DEF Accept
<1> QED  BY <1>3, <1>4, Accepted

\* Showing or hiding a sheet.
LEMMA ConfigureSteps ==
    ASSUME ContentInv, NEW i \in DOMAIN draft, NEW shown \in BOOLEAN, Configure(i, shown)
    PROVE  ContentInv' /\ Unsorted(draft')
<1>1. PICK s : s = [draft[i] EXCEPT !.shown = shown]
    OBVIOUS
<1>2. /\ s \in Worksheets
      /\ s.name = draft[i].name /\ s.id = draft[i].id /\ s.sorts = draft[i].sorts
      /\ s.merges = draft[i].merges /\ s.cells = draft[i].cells
    BY <1>1, SheetTypes DEF Worksheets
<1>3. Accept([draft EXCEPT ![i] = s])
    BY <1>1 DEF Configure
<1> QED  BY <1>2, <1>3, PlainSteps

\* Inserting or deleting a picture.
LEMMA PictureSteps ==
    ASSUME ContentInv, NEW i \in DOMAIN draft, NEW images \in Seq(Pictures),
           Accept([draft EXCEPT ![i].images = images])
    PROVE  ContentInv' /\ Unsorted(draft')
<1>1. PICK s : s = [draft[i] EXCEPT !.images = images]
    OBVIOUS
<1>2. /\ s \in Worksheets
      /\ s.name = draft[i].name /\ s.id = draft[i].id /\ s.sorts = draft[i].sorts
      /\ s.merges = draft[i].merges /\ s.cells = draft[i].cells
    BY <1>1, SheetTypes DEF Worksheets
<1>3. Accept([draft EXCEPT ![i] = s])
    BY <1>1
<1> QED  BY <1>2, <1>3, PlainSteps

\* Merging and unmerging reset the style of cells that are blank.
ResetSheet(i, merges, cells) ==
    [draft[i] EXCEPT !.merges = merges, !.cells = Reset(i, cells)]

\* The sheet after such a reset: blanks where the cells were, the rest unchanged.
LEMMA ResetTypes ==
    ASSUME ContentInv, NEW i \in DOMAIN draft, NEW cells,
           NEW merges \in SUBSET Areas, NEW s, s = ResetSheet(i, merges, cells)
    PROVE  /\ s \in Worksheets /\ s.merges = merges
           /\ s.name = draft[i].name /\ s.id = draft[i].id /\ s.sorts = draft[i].sorts
           /\ \A cell \in Cells :
                 /\ cell \in cells => s.cells[cell].content = Blank
                 /\ cell \notin cells => s.cells[cell] = draft[i].cells[cell]
           /\ \A cell \in Cells : s.cells[cell].content.kind = "formula" =>
                 s.cells[cell].content = draft[i].cells[cell].content
<1>1. PICK reset : reset = Reset(i, cells)
    OBVIOUS
<1>2. /\ reset \in [Cells -> CellValues]
      /\ \A cell \in Cells :
             reset[cell] = IF cell \in cells THEN Plain ELSE draft[i].cells[cell]
    BY <1>1, SheetTypes, BlankTypes DEF Reset
<1>3. s = [draft[i] EXCEPT !.merges = merges, !.cells = reset]
    BY <1>1 DEF ResetSheet
<1>4. /\ s \in Worksheets /\ s.merges = merges /\ s.cells = reset
      /\ s.name = draft[i].name /\ s.id = draft[i].id /\ s.sorts = draft[i].sorts
    BY <1>2, <1>3, SheetTypes DEF Worksheets
<1> QED  BY <1>2, <1>4, BlankTypes

\* A merge overlaps no other, and what it covers is blank.
LEMMA MergeSteps ==
    ASSUME ContentInv, NEW i \in DOMAIN draft, NEW area \in Areas, Merge(i, area)
    PROVE  ContentInv' /\ Unsorted(draft')
<1>1. PICK merges : merges = draft[i].merges \cup {area}
    OBVIOUS
<1>2. PICK s : s = ResetSheet(i, merges, Covered(area))
    OBVIOUS
<1>3. merges \in SUBSET Areas
    BY <1>1, SheetTypes
<1>a. /\ s \in Worksheets /\ s.merges = merges
      /\ s.name = draft[i].name /\ s.id = draft[i].id /\ s.sorts = draft[i].sorts
      /\ \A cell \in Cells :
            /\ cell \in Covered(area) => s.cells[cell].content = Blank
            /\ cell \notin Covered(area) => s.cells[cell] = draft[i].cells[cell]
      /\ \A cell \in Cells : s.cells[cell].content.kind = "formula" =>
            s.cells[cell].content = draft[i].cells[cell].content
    BY ONLY ContentInv, i \in DOMAIN draft, <1>2, <1>3, ResetTypes
<1>4. MergesAreClear(s)
  <2>1. MergesAreClear(draft[i])
    BY DEF ContentInv, NothingIsHidden, NoneHidden
  <2>2. \A other \in draft[i].merges : ~Overlap(area, other) /\ ~Overlap(other, area)
    BY DEF Merge, Overlap
  <2>3. \A a, b \in s.merges : a # b => ~Overlap(a, b)
    BY <1>1, <1>a, <2>1, <2>2 DEF MergesAreClear
  <2>4. CoveredBy(s) = CoveredBy(draft[i]) \cup Covered(area)
    BY <1>1, <1>a DEF CoveredBy
  <2>5. CoveredBy(s) \subseteq Cells
    BY DEF CoveredBy, Covered, In
  <2>6. \A cell \in CoveredBy(s) : s.cells[cell].content.kind = "blank"
    <3> SUFFICES ASSUME NEW cell \in CoveredBy(s)
                 PROVE  s.cells[cell].content.kind = "blank"
      OBVIOUS
    <3>1. CASE cell \in Covered(area)
      BY <1>a, <2>5, <3>1, BlankTypes
    <3>2. CASE cell \notin Covered(area)
      <4>1. draft[i].cells[cell].content.kind = "blank"
        BY <2>1, <2>4, <3>2 DEF MergesAreClear
      <4> QED  BY <1>a, <2>5, <3>2, <4>1
    <3> QED  BY <3>1, <3>2
  <2> QED  BY <2>3, <2>6 DEF MergesAreClear
<1>5. Accept([draft EXCEPT ![i] = s])
  <2>1. [draft EXCEPT ![i].merges = @ \cup {area}, ![i].cells = Reset(i, Covered(area))]
          = [draft EXCEPT ![i] = s]
    BY <1>1, <1>2 DEF ResetSheet
  <2> QED  BY <2>1 DEF Merge
<1>6. Sound([draft EXCEPT ![i] = s]) /\ Unsorted([draft EXCEPT ![i] = s])
  <2>1. /\ s \in Worksheets
        /\ s.name = draft[i].name /\ s.id = draft[i].id /\ s.sorts = draft[i].sorts
        /\ \A cell \in Cells : s.cells[cell].content.kind = "formula" =>
              s.cells[cell].content = draft[i].cells[cell].content
    BY <1>a
  <2> QED  BY <1>4, <2>1, SheetChanged
<1>7. draft' = [draft EXCEPT ![i] = s]
    BY <1>5 DEF Accept
<1> QED  BY <1>5, <1>6, <1>7, Accepted

\* The merges that remain cover no more than before.
LEMMA UnmergeSteps ==
    ASSUME ContentInv, NEW i \in DOMAIN draft, NEW area \in Areas, Unmerge(i, area)
    PROVE  ContentInv' /\ Unsorted(draft')
<1>1. PICK merges : merges = draft[i].merges \ {area}
    OBVIOUS
<1>2. PICK s : s = ResetSheet(i, merges, Covered(area))
    OBVIOUS
<1>3. merges \in SUBSET Areas
    BY <1>1, SheetTypes
<1>a. /\ s \in Worksheets /\ s.merges = merges
      /\ s.name = draft[i].name /\ s.id = draft[i].id /\ s.sorts = draft[i].sorts
      /\ \A cell \in Cells :
            /\ cell \in Covered(area) => s.cells[cell].content = Blank
            /\ cell \notin Covered(area) => s.cells[cell] = draft[i].cells[cell]
      /\ \A cell \in Cells : s.cells[cell].content.kind = "formula" =>
            s.cells[cell].content = draft[i].cells[cell].content
    BY ONLY ContentInv, i \in DOMAIN draft, <1>2, <1>3, ResetTypes
<1>4. MergesAreClear(s)
  <2>1. MergesAreClear(draft[i])
    BY DEF ContentInv, NothingIsHidden, NoneHidden
  <2>2. s.merges \subseteq draft[i].merges
    BY <1>1, <1>a
  <2>3. CoveredBy(s) \subseteq CoveredBy(draft[i]) /\ CoveredBy(s) \subseteq Cells
    BY <2>2 DEF CoveredBy, Covered, In
  <2>4. \A cell \in CoveredBy(s) : s.cells[cell].content.kind = "blank"
    <3> SUFFICES ASSUME NEW cell \in CoveredBy(s)
                 PROVE  s.cells[cell].content.kind = "blank"
      OBVIOUS
    <3>1. draft[i].cells[cell].content.kind = "blank"
      BY <2>1, <2>3 DEF MergesAreClear
    <3>2. s.cells[cell].content = Blank \/ s.cells[cell] = draft[i].cells[cell]
      BY <1>a, <2>3
    <3> QED  BY <3>1, <3>2, BlankTypes
  <2> QED  BY <2>1, <2>2, <2>4 DEF MergesAreClear
<1>5. Accept([draft EXCEPT ![i] = s])
  <2>1. [draft EXCEPT ![i].merges = @ \ {area}, ![i].cells = Reset(i, Covered(area))]
          = [draft EXCEPT ![i] = s]
    BY <1>1, <1>2 DEF ResetSheet
  <2> QED  BY <2>1 DEF Unmerge
<1>6. Sound([draft EXCEPT ![i] = s]) /\ Unsorted([draft EXCEPT ![i] = s])
  <2>1. /\ s \in Worksheets
        /\ s.name = draft[i].name /\ s.id = draft[i].id /\ s.sorts = draft[i].sorts
        /\ \A cell \in Cells : s.cells[cell].content.kind = "formula" =>
              s.cells[cell].content = draft[i].cells[cell].content
    BY <1>a
  <2> QED  BY <1>4, <2>1, SheetChanged
<1>7. draft' = [draft EXCEPT ![i] = s]
    BY <1>5 DEF Accept
<1> QED  BY <1>5, <1>6, <1>7, Accepted

-----------------------------------------------------------------------------
\* The sheets of a book that are some of the draft's, each once, in any order.
LEMMA Rearranged ==
    ASSUME ContentInv, NEW book \in Seq(Worksheets), NEW m \in [DOMAIN book -> DOMAIN draft],
           \A j, k \in DOMAIN book : m[j] = m[k] => j = k,
           \A j \in DOMAIN book : book[j] = draft[m[j]]
    PROVE  NoneHidden(book) /\ Apart(book, edits + 1) /\ Unsorted(book)
<1>1. NoneHidden(book)
    BY DEF ContentInv, NothingIsHidden, NoneHidden, Distinct
<1>2. Apart(book, edits + 1)
  <2>1. \A j \in DOMAIN draft : draft[j].id \in Int /\ draft[j].id >= -edits
    BY SheetTypes DEF ContentInv, Apart
  <2>2. edits \in Nat
    BY DEF ContentInv, ContentTypeOK
  <2>3. \A j \in DOMAIN book : book[j].id >= -(edits + 1)
    BY <2>1, <2>2
  <2> QED  BY <2>3 DEF ContentInv, Apart
<1>3. Unsorted(book)
  <2> SUFFICES ASSUME NEW i \in DOMAIN draft, i \in DOMAIN book, book[i].id = draft[i].id
               PROVE  book[i].sorts = draft[i].sorts
    BY DEF Unsorted
  <2>1. m[i] = i
    BY DEF ContentInv, Apart
  <2> QED  BY <2>1
<1> QED  BY <1>1, <1>2, <1>3

\* Without formulas there is nothing to cite.
LEMMA NothingCited ==
    ASSUME NEW book, \A i \in DOMAIN book, cell \in Cells :
              book[i].cells[cell].content.kind # "formula"
    PROVE  CitationsHold(book)
    BY DEF CitationsHold

\* A sheet is deleted only when nothing is cited.
LEMMA DeleteSteps ==
    ASSUME ContentInv, NEW i \in DOMAIN draft, Delete(i)
    PROVE  ContentInv' /\ Unsorted(draft')
<1>0. draft \in Seq(Worksheets)
    BY DEF ContentInv, ContentTypeOK
<1>1. PICK book : book = RemoveAt(draft, i)
    OBVIOUS
<1>2. /\ book \in Seq(Worksheets) /\ Len(book) = Len(draft) - 1
      /\ \A j \in 1..(Len(draft) - 1) : book[j] = IF j < i THEN draft[j] ELSE draft[j + 1]
    BY <1>0, <1>1, RemovedAt
<1>3. PICK m : m = [j \in DOMAIN book |-> IF j < i THEN j ELSE j + 1]
    OBVIOUS
<1>4. /\ m \in [DOMAIN book -> DOMAIN draft]
      /\ \A j, k \in DOMAIN book : m[j] = m[k] => j = k
      /\ \A j \in DOMAIN book : book[j] = draft[m[j]]
  <2>1. DOMAIN draft = 1..Len(draft) /\ DOMAIN book = 1..(Len(draft) - 1) /\ Len(draft) \in Nat
    BY <1>0, <1>2
  <2>2. m = [j \in 1..(Len(draft) - 1) |-> IF j < i THEN j ELSE j + 1]
    BY <1>3, <2>1
  <2>3. ASSUME NEW j \in 1..(Len(draft) - 1)
        PROVE  m[j] \in 1..Len(draft) /\ book[j] = draft[m[j]]
    <3>1. CASE j < i
      BY <1>2, <2>1, <2>2, <3>1
    <3>2. CASE ~(j < i)
      <4>1. m[j] = j + 1 /\ book[j] = draft[j + 1]
        BY <1>2, <2>2, <3>2
      <4> QED  BY <2>1, <4>1
    <3> QED  BY <3>1, <3>2
  <2>4. \A j, k \in 1..(Len(draft) - 1) : m[j] = m[k] => j = k
    BY ONLY <2>1, <2>2, i \in DOMAIN draft
  <2>5. m \in [1..(Len(draft) - 1) -> 1..Len(draft)]
    BY <2>2, <2>3
  <2> QED  BY <2>1, <2>3, <2>4, <2>5
<1>5. CitationsHold(book)
  <2>1. \A j \in DOMAIN draft, cell \in Cells : draft[j].cells[cell].content.kind # "formula"
    BY DEF Delete, HasReferences
  <2> QED  BY <1>4, <2>1, NothingCited
<1>6. Sound(book) /\ Unsorted(book)
    BY <1>2, <1>4, <1>5, Rearranged DEF Sound
<1>7. Accept(book) /\ draft' = book
    BY <1>1 DEF Delete, Accept
<1> QED  BY <1>6, <1>7, Accepted

\* A sheet that is moved is still cited, at another place.
LEMMA MoveSteps ==
    ASSUME ContentInv, NEW i \in DOMAIN draft, NEW slot \in DOMAIN draft, Move(i, slot)
    PROVE  ContentInv' /\ Unsorted(draft')
<1>0. draft \in Seq(Worksheets) /\ draft[i] \in Worksheets
    BY DEF ContentInv, ContentTypeOK
<1>1. PICK rest : rest = RemoveAt(draft, i)
    OBVIOUS
<1>2. /\ rest \in Seq(Worksheets) /\ Len(rest) = Len(draft) - 1
      /\ \A j \in 1..(Len(draft) - 1) : rest[j] = IF j < i THEN draft[j] ELSE draft[j + 1]
    BY <1>0, <1>1, RemovedAt
<1>a. PICK moved : moved = draft[i]
    OBVIOUS
<1>3. PICK book : book = InsertAt(rest, slot, moved)
    OBVIOUS
<1>4. slot \in 1..(Len(rest) + 1) /\ rest \in Seq(Worksheets) /\ moved \in Worksheets
    BY <1>0, <1>2, <1>a
<1>5. /\ book \in Seq(Worksheets) /\ Len(book) = Len(rest) + 1
      /\ \A j \in 1..(Len(rest) + 1) :
            book[j] = IF j < slot THEN rest[j] ELSE IF j = slot THEN moved ELSE rest[j - 1]
  <2>1. ASSUME NEW k \in 1..(Len(rest) + 1)
        PROVE  /\ InsertAt(rest, k, moved) \in Seq(Worksheets)
               /\ Len(InsertAt(rest, k, moved)) = Len(rest) + 1
               /\ \A j \in 1..(Len(rest) + 1) : InsertAt(rest, k, moved)[j] =
                     IF j < k THEN rest[j] ELSE IF j = k THEN moved ELSE rest[j - 1]
    BY ONLY <1>4, InsertedAt
  <2>2. PICK k \in 1..(Len(rest) + 1) : k = slot
    BY <1>4
  <2>3. book = InsertAt(rest, k, moved)
    BY ONLY <1>3, <2>2
  <2> QED  BY ONLY <2>1, <2>2, <2>3
<1>6. PICK m : m = [j \in 1..Len(draft) |->
                      IF j = slot THEN i
                      ELSE IF j < slot THEN IF j < i THEN j ELSE j + 1
                      ELSE IF j - 1 < i THEN j - 1 ELSE j]
    OBVIOUS
<1>7. DOMAIN book = 1..Len(draft) /\ DOMAIN draft = 1..Len(draft) /\ Len(draft) \in Nat
    BY <1>0, <1>2, <1>5
<1>8. /\ m \in [DOMAIN book -> DOMAIN draft]
      /\ \A j, k \in DOMAIN book : m[j] = m[k] => j = k
    BY <1>6, <1>7
<1>9. ASSUME NEW j \in DOMAIN book PROVE book[j] = draft[m[j]]
  <2>1. CASE j = slot
    BY <1>2, <1>5, <1>6, <1>7, <1>a, <2>1
  <2>2. CASE j < slot
    <3>1. j \in 1..(Len(draft) - 1) /\ j \in 1..(Len(rest) + 1)
      BY <1>2, <1>7, <2>2
    <3>2. book[j] = rest[j] /\ rest[j] = IF j < i THEN draft[j] ELSE draft[j + 1]
      BY <1>2, <1>5, <2>2, <3>1
    <3>3. m[j] = IF j < i THEN j ELSE j + 1
      BY <1>6, <1>7, <2>2
    <3> QED  BY <3>2, <3>3
  <2>3. CASE j > slot
    <3>1. j - 1 \in 1..(Len(draft) - 1) /\ j \in 1..(Len(rest) + 1) /\ (j - 1) + 1 = j
      BY <1>2, <1>7, <2>3
    <3>2. book[j] = rest[j - 1] /\ rest[j - 1] = IF j - 1 < i THEN draft[j - 1] ELSE draft[(j - 1) + 1]
      BY <1>2, <1>5, <2>3, <3>1
    <3>3. m[j] = IF j - 1 < i THEN j - 1 ELSE j
      BY <1>6, <1>7, <2>3
    <3> QED  BY <3>1, <3>2, <3>3
  <2> QED  BY <1>7, <2>1, <2>2, <2>3
<1>10. ASSUME NEW k \in DOMAIN draft PROVE \E j \in DOMAIN book : m[j] = k
  <2>1. CASE k = i
    BY <1>6, <1>7, <2>1
  <2>2. CASE k < i
    <3>1. CASE k < slot
      BY <1>6, <1>7, <2>2, <3>1
    <3>2. CASE k >= slot
      <4>1. k + 1 \in DOMAIN book /\ m[k + 1] = k
        BY <1>6, <1>7, <2>2, <3>2
      <4> QED  BY <4>1
    <3> QED  BY <1>7, <3>1, <3>2
  <2>3. CASE k > i
    <3>1. CASE k <= slot
      <4>1. k - 1 \in DOMAIN book /\ m[k - 1] = k
        BY <1>6, <1>7, <2>3, <3>1
      <4> QED  BY <4>1
    <3>2. CASE k > slot
      BY <1>6, <1>7, <2>3, <3>2
    <3> QED  BY <1>7, <3>1, <3>2
  <2> QED  BY <1>7, <2>1, <2>2, <2>3
<1>11. CitationsHold(book)
  <2> SUFFICES ASSUME NEW j \in DOMAIN book, NEW cell \in Cells,
                      book[j].cells[cell].content.kind = "formula"
               PROVE  \E k \in DOMAIN book :
                         /\ book[k].name = book[j].cells[cell].content.cites.name
                         /\ book[k].id = book[j].cells[cell].content.cites.of
                         /\ book[k].sorts = book[j].cells[cell].content.cites.sorts
    BY DEF CitationsHold
  <2>1. PICK l \in DOMAIN draft :
           /\ draft[l].name = draft[m[j]].cells[cell].content.cites.name
           /\ draft[l].id = draft[m[j]].cells[cell].content.cites.of
           /\ draft[l].sorts = draft[m[j]].cells[cell].content.cites.sorts
    BY <1>8, <1>9 DEF ContentInv, ReferencesHold, CitationsHold
  <2>2. PICK k \in DOMAIN book : m[k] = l
    BY <1>10
  <2> QED  BY <1>9, <2>1, <2>2
<1>12. Sound(book) /\ Unsorted(book)
    BY <1>5, <1>8, <1>9, <1>11, Rearranged DEF Sound
<1>13. Accept(book) /\ draft' = book
    BY <1>1, <1>3, <1>a DEF Move, Accept
<1> QED  BY <1>12, <1>13, Accepted

\* A sheet that is created has a name that no other has, and nothing in it.
LEMMA CreateSteps ==
    ASSUME ContentInv, NEW name \in Names, NEW slot \in 1..(Len(draft) + 1), Create(name, slot)
    PROVE  ContentInv' /\ Unsorted(draft')
<1>0. draft \in Seq(Worksheets) /\ edits \in Nat
    BY DEF ContentInv, ContentTypeOK
<1>1. PICK new : new = NewSheet(name)
    OBVIOUS
<1>2. /\ new \in Worksheets /\ new.name = name /\ new.id = -(edits + 1) /\ new.merges = {}
      /\ \A cell \in Cells : new.cells[cell] = Plain
  <2>1. [cell \in Cells |-> Plain] \in [Cells -> CellValues]
    BY BlankTypes
  <2>2. -(edits + 1) \in Int /\ <<>> \in Seq(Pictures) /\ {} \in SUBSET Areas
    BY <1>0
  <2> QED  BY <1>1, <2>1, <2>2 DEF NewSheet, Worksheets
<1>3. PICK book : book = InsertAt(draft, slot, new)
    OBVIOUS
<1>4. /\ book \in Seq(Worksheets) /\ Len(book) = Len(draft) + 1
      /\ \A j \in 1..(Len(draft) + 1) :
            book[j] = IF j < slot THEN draft[j] ELSE IF j = slot THEN new ELSE draft[j - 1]
  <2>1. /\ InsertAt(draft, slot, new) \in Seq(Worksheets)
        /\ Len(InsertAt(draft, slot, new)) = Len(draft) + 1
        /\ \A j \in 1..(Len(draft) + 1) : InsertAt(draft, slot, new)[j] =
              IF j < slot THEN draft[j] ELSE IF j = slot THEN new ELSE draft[j - 1]
    <3>1. draft \in Seq(Worksheets) /\ new \in Worksheets /\ slot \in 1..(Len(draft) + 1)
      BY <1>0, <1>2
    <3> QED  BY ONLY <3>1, InsertedAt
  <2> QED  BY ONLY <1>3, <2>1
<1>5. DOMAIN book = 1..(Len(draft) + 1) /\ DOMAIN draft = 1..Len(draft) /\ Len(draft) \in Nat
    BY <1>0, <1>4
<1>6. PICK m : m = [j \in DOMAIN book |-> IF j < slot THEN j ELSE j - 1]
    OBVIOUS
<1>7. /\ \A j \in DOMAIN book : j # slot => m[j] \in DOMAIN draft /\ book[j] = draft[m[j]]
      /\ \A j, k \in DOMAIN book : j # slot /\ k # slot /\ m[j] = m[k] => j = k
      /\ slot \in DOMAIN book /\ book[slot] = new
    BY <1>4, <1>5, <1>6
<1>8. NoneHidden(book)
  <2>1. MergesAreClear(new)
    BY <1>2 DEF MergesAreClear, CoveredBy
  <2>2. \A j \in DOMAIN draft : MergesAreClear(draft[j])
    BY DEF ContentInv, NothingIsHidden, NoneHidden
  <2>3. \A j \in DOMAIN draft : Folded[draft[j].name] # Folded[name]
    BY DEF Create, Taken
  <2>4. \A j, k \in DOMAIN draft : j # k => Folded[draft[j].name] # Folded[draft[k].name]
    BY DEF ContentInv, NothingIsHidden, NoneHidden, Distinct
  <2>5. ASSUME NEW j \in DOMAIN book, NEW k \in DOMAIN book, j # k
        PROVE  Folded[book[j].name] # Folded[book[k].name]
    BY <1>2, <1>7, <2>3, <2>4, <2>5
  <2> QED  BY <1>7, <2>1, <2>2, <2>5 DEF NoneHidden, Distinct
<1>9. \A j \in DOMAIN draft : draft[j].id \in Int /\ draft[j].id >= -edits
    BY SheetTypes DEF ContentInv, Apart
<1>10. Apart(book, edits + 1)
  <2>1. \A j \in DOMAIN book : book[j].id >= -(edits + 1)
    BY <1>0, <1>2, <1>7, <1>9
  <2>2. \A j \in DOMAIN draft : draft[j].id # new.id
    BY <1>0, <1>2, <1>9
  <2>3. \A j, k \in DOMAIN draft : j # k => draft[j].id # draft[k].id
    BY DEF ContentInv, Apart
  <2>4. ASSUME NEW j \in DOMAIN book, NEW k \in DOMAIN book, j # k
        PROVE  book[j].id # book[k].id
    BY <1>7, <2>2, <2>3, <2>4
  <2> QED  BY <2>1, <2>4 DEF Apart
<1>11. Unsorted(book)
  <2> SUFFICES ASSUME NEW i \in DOMAIN draft, i \in DOMAIN book, book[i].id = draft[i].id
               PROVE  book[i].sorts = draft[i].sorts
    BY DEF Unsorted
  <2>1. i # slot
    BY <1>0, <1>2, <1>7, <1>9
  <2>2. m[i] = i
    BY <1>7, <2>1 DEF ContentInv, Apart
  <2> QED  BY <1>7, <2>1, <2>2
<1>12. CitationsHold(book)
  <2>1. \A k \in DOMAIN draft : \E j \in DOMAIN book : book[j] = draft[k]
    <3> SUFFICES ASSUME NEW k \in DOMAIN draft PROVE \E j \in DOMAIN book : book[j] = draft[k]
      OBVIOUS
    <3>1. CASE k < slot
      BY <1>4, <1>5, <3>1
    <3>2. CASE k >= slot
      <4>1. k + 1 \in DOMAIN book /\ ~(k + 1 < slot) /\ k + 1 # slot /\ (k + 1) - 1 = k
        BY <1>5, <3>2
      <4> QED  BY <1>4, <1>5, <4>1
    <3> QED  BY <1>5, <3>1, <3>2
  <2> SUFFICES ASSUME NEW j \in DOMAIN book, NEW cell \in Cells,
                      book[j].cells[cell].content.kind = "formula"
               PROVE  \E k \in DOMAIN book :
                         /\ book[k].name = book[j].cells[cell].content.cites.name
                         /\ book[k].id = book[j].cells[cell].content.cites.of
                         /\ book[k].sorts = book[j].cells[cell].content.cites.sorts
    BY DEF CitationsHold
  <2>2. j # slot
    BY <1>2, <1>7, BlankTypes
  <2>3. PICK l \in DOMAIN draft :
           /\ draft[l].name = draft[m[j]].cells[cell].content.cites.name
           /\ draft[l].id = draft[m[j]].cells[cell].content.cites.of
           /\ draft[l].sorts = draft[m[j]].cells[cell].content.cites.sorts
    BY <1>7, <2>2 DEF ContentInv, ReferencesHold, CitationsHold
  <2>4. PICK k \in DOMAIN book : book[k] = draft[l]
    BY <2>1
  <2> QED  BY <1>7, <2>2, <2>3, <2>4
<1>13. Sound(book) /\ Unsorted(book)
    BY <1>4, <1>8, <1>10, <1>11, <1>12 DEF Sound
<1>14. Accept(book) /\ draft' = book
    BY <1>1, <1>3 DEF Create, Accept
<1> QED  BY <1>13, <1>14, Accepted

\* A sheet that is renamed gets a name that no other sheet has: the one asked for,
\* or, when that differs in case only, a numbered one that is free.
LEMMA TitleIsFree ==
    ASSUME ContentInv, NEW i \in DOMAIN draft, NEW name \in Names,
           \A j \in (DOMAIN draft) \ {i} : Folded[draft[j].name] # Folded[name],
           Len(draft) <= SheetLimit
    PROVE  /\ Titled(draft[i].name, name) \in Names
           /\ \A j \in (DOMAIN draft) \ {i} :
                 Folded[draft[j].name] # Folded[Titled(draft[i].name, name)]
<1>0. draft \in Seq(Worksheets) /\ DOMAIN draft = 1..Len(draft) /\ Len(draft) \in 0..SheetLimit
    BY ContentAssumption DEF ContentInv, ContentTypeOK
<1>1. PICK old : old = draft[i].name
    OBVIOUS
<1>2. CASE old # name /\ Folded[old] = Folded[name]
  <2>1. PICK names : names = [j \in 1..Len(draft) |-> draft[j].name]
    OBVIOUS
  <2>2. names \in [1..Len(draft) -> Names] /\ \A j \in DOMAIN draft : names[j] = draft[j].name
    BY <1>0, <2>1, SheetTypes
  <2>3. names[i] # name /\ Folded[names[i]] = Folded[name]
    BY <1>1, <1>2, <2>2
  <2>4. \E new \in Numbered : \A j \in 1..Len(draft) : Folded[names[j]] # Folded[new]
    <3>1. i \in 1..Len(draft)
      BY <1>0
    <3> QED  BY <1>0, <2>2, <2>3, <3>1, ContentAssumption
  <2>5. \E new \in Numbered : ~Taken(draft, new)
    BY <1>0, <2>2, <2>4 DEF Taken
  <2>6. /\ Titled(old, name) \in Numbered /\ ~Taken(draft, Titled(old, name))
    BY <1>2, <2>5 DEF Titled
  <2> QED  BY <1>1, <2>6, ContentAssumption DEF Taken
<1>3. CASE ~(old # name /\ Folded[old] = Folded[name])
    BY <1>1, <1>3 DEF Titled
<1> QED  BY <1>2, <1>3

\* A sheet is renamed only when nothing is cited.
LEMMA RenameSteps ==
    ASSUME ContentInv, NEW i \in DOMAIN draft, NEW name \in Names, Rename(i, name)
    PROVE  ContentInv' /\ Unsorted(draft')
<1>0. draft \in Seq(Worksheets) /\ edits \in Nat
    BY DEF ContentInv, ContentTypeOK
<1>1. PICK title : title = Titled(draft[i].name, name)
    OBVIOUS
<1>2. PICK s : s = [draft[i] EXCEPT !.name = title]
    OBVIOUS
<1>3. PICK book : book = [draft EXCEPT ![i] = s]
    OBVIOUS
<1>4. Accept(book) /\ draft' = book
  <2>1. [draft EXCEPT ![i].name = Titled(@, name)] = book
    BY <1>1, <1>2, <1>3
  <2> QED  BY <2>1 DEF Rename, Accept
<1>5. DOMAIN book = DOMAIN draft /\ Len(book) = Len(draft)
    BY <1>0, <1>3
<1>6. title \in Names /\ \A j \in (DOMAIN draft) \ {i} : Folded[draft[j].name] # Folded[title]
  <2>1. Len(draft) <= SheetLimit
    BY <1>4, <1>5 DEF Accept, Within
  <2> QED  BY <1>1, <2>1, TitleIsFree DEF Rename
<1>7. /\ s \in Worksheets /\ s.name = title
      /\ s.id = draft[i].id /\ s.sorts = draft[i].sorts
      /\ s.merges = draft[i].merges /\ s.cells = draft[i].cells
    BY <1>2, <1>6, SheetTypes DEF Worksheets
<1>8. /\ book \in Seq(Worksheets) /\ book[i] = s
      /\ \A j \in DOMAIN draft : j # i => book[j] = draft[j]
    BY <1>0, <1>3, <1>7
<1>9. \A j \in DOMAIN draft : /\ book[j].id = draft[j].id /\ book[j].sorts = draft[j].sorts
                              /\ book[j].merges = draft[j].merges
                              /\ book[j].cells = draft[j].cells
    BY <1>7, <1>8
<1>10. NoneHidden(book)
  <2>1. \A j \in DOMAIN draft : MergesAreClear(draft[j])
    BY DEF ContentInv, NothingIsHidden, NoneHidden
  <2>2. \A j \in DOMAIN draft : MergesAreClear(book[j])
    BY <1>9, <2>1 DEF MergesAreClear, CoveredBy
  <2>3. Distinct(book)
    BY <1>5, <1>6, <1>7, <1>8 DEF ContentInv, NothingIsHidden, NoneHidden, Distinct
  <2> QED  BY <1>5, <2>2, <2>3 DEF NoneHidden
<1>11. CitationsHold(book)
  <2>1. \A j \in DOMAIN book, cell \in Cells : book[j].cells[cell].content.kind # "formula"
    BY <1>5, <1>9 DEF Rename, HasReferences
  <2> QED  BY <2>1, NothingCited
<1>12. Apart(book, edits + 1)
  <2>1. \A j \in DOMAIN draft : draft[j].id \in Int /\ draft[j].id >= -edits
    BY SheetTypes DEF ContentInv, Apart
  <2>2. \A j \in DOMAIN draft : book[j].id >= -(edits + 1)
    BY <1>0, <1>9, <2>1
  <2> QED  BY <1>5, <1>9, <2>2 DEF ContentInv, Apart
<1>13. Unsorted(book)
    BY <1>5, <1>9 DEF Unsorted
<1> QED  BY <1>4, <1>8, <1>10, <1>11, <1>12, <1>13, Accepted DEF Sound

-----------------------------------------------------------------------------
\* A finite set put in order: below[q] is what comes before q.
Ordered(rows, below) ==
    /\ below \in [rows -> SUBSET rows]
    /\ \A q \in rows : q \notin below[q]
    /\ \A p, q, r \in rows : p \in below[q] /\ q \in below[r] => p \in below[r]
    /\ \A q, r \in rows : q # r => q \in below[r] \/ r \in below[q]

Ranks(rows, below) ==
    /\ \A q \in rows : Cardinality(below[q]) \in 0..(Cardinality(rows) - 1)
    /\ \A q, r \in rows : q \in below[r] => Cardinality(below[q]) < Cardinality(below[r])
    /\ \A q, r \in rows : Cardinality(below[q]) = Cardinality(below[r]) => q = r
    /\ \A k \in 0..(Cardinality(rows) - 1) : \E q \in rows : Cardinality(below[q]) = k

\* The number of elements before an element tells it from every other one, and
\* every number up to the last place is that of an element.
LEMMA Ranked ==
    ASSUME NEW rows, IsFiniteSet(rows), NEW below, Ordered(rows, below)
    PROVE  Ranks(rows, below)
<1> USE DEF Ordered, Ranks
<1>0. Cardinality(rows) \in Nat
    BY FS_CardinalityType
<1>1. \A q \in rows : IsFiniteSet(below[q]) /\ Cardinality(below[q]) \in Nat
    BY FS_Subset, FS_CardinalityType
<1>2. \A q \in rows : Cardinality(below[q]) \in 0..(Cardinality(rows) - 1)
  <2> SUFFICES ASSUME NEW q \in rows
               PROVE  Cardinality(below[q]) < Cardinality(rows)
    BY <1>0, <1>1
  <2>1. below[q] \in SUBSET rows /\ below[q] # rows
    OBVIOUS
  <2>2. /\ Cardinality(below[q]) <= Cardinality(rows)
        /\ Cardinality(rows) = Cardinality(below[q]) => rows = below[q]
    BY <2>1, FS_Subset
  <2> QED  BY <1>0, <1>1, <2>1, <2>2
<1>3. ASSUME NEW q \in rows, NEW r \in rows, q \in below[r]
      PROVE  Cardinality(below[q]) < Cardinality(below[r])
  <2>1. below[q] \in SUBSET below[r] /\ below[q] # below[r]
    BY <1>3
  <2>2. /\ Cardinality(below[q]) <= Cardinality(below[r])
        /\ Cardinality(below[r]) = Cardinality(below[q]) => below[r] = below[q]
    BY <1>1, <2>1, FS_Subset
  <2> QED  BY <1>1, <2>1, <2>2
<1>4. \A q, r \in rows : Cardinality(below[q]) = Cardinality(below[r]) => q = r
  <2> SUFFICES ASSUME NEW q \in rows, NEW r \in rows, q # r
               PROVE  Cardinality(below[q]) # Cardinality(below[r])
    OBVIOUS
  <2>1. q \in below[r] \/ r \in below[q]
    OBVIOUS
  <2> QED  BY <1>1, <1>3, <2>1
<1>5. \A k \in 0..(Cardinality(rows) - 1) : \E q \in rows : Cardinality(below[q]) = k
  <2>1. PICK T : T = 0..(Cardinality(rows) - 1)
    OBVIOUS
  <2>2. IsFiniteSet(T) /\ Cardinality(T) = Cardinality(rows)
    <3>1. /\ IsFiniteSet(0..(Cardinality(rows) - 1))
          /\ Cardinality(0..(Cardinality(rows) - 1)) =
                IF 0 > Cardinality(rows) - 1 THEN 0 ELSE (Cardinality(rows) - 1) - 0 + 1
      <4>1. PICK last : last = Cardinality(rows) - 1
        OBVIOUS
      <4>2. last \in Int
        BY <1>0, <4>1
      <4>3. IsFiniteSet(0..last) /\ Cardinality(0..last) = IF 0 > last THEN 0 ELSE last - 0 + 1
        BY <4>2, FS_Interval
      <4> QED  BY <4>1, <4>3
    <3> QED  BY <1>0, <2>1, <3>1
  <2>3. PICK f : f = [q \in rows |-> Cardinality(below[q])]
    OBVIOUS
  <2>4. f \in Injection(rows, T)
    <3>1. f \in [rows -> T]
      BY <1>2, <2>1, <2>3
    <3>2. \A q, r \in rows : f[q] = f[r] => q = r
      BY <1>4, <2>3
    <3> QED  BY <2>3, <3>1, <3>2 DEF Injection, IsInjective
  <2>5. f \in Surjection(rows, T)
    BY <2>2, <2>4, FS_Injection
  <2>6. \A k \in T : \E q \in rows : f[q] = k
    BY <2>5 DEF Surjection
  <2> QED  BY <2>1, <2>3, <2>6
<1> QED  BY <1>2, <1>3, <1>4, <1>5

\* The order of a sort, as a group (the blanks and the others), a number in it, and
\* the row.
LEMMA InOrder ==
    ASSUME NEW sheet, NEW options \in Options, NEW rows \in SUBSET Int,
           \A r \in rows : KeyAt(sheet, r, options.column) \in CellContents
    PROVE  \E group, number \in [rows -> Int] : \A q, r \in rows :
              Before(sheet, options, q, r) <=>
                  \/ group[q] < group[r]
                  \/ /\ group[q] = group[r]
                     /\ number[q] < number[r] \/ (number[q] = number[r] /\ q < r)
<1>1. PICK sorted : sorted = [r \in rows |-> KeyAt(sheet, r, options.column)]
    OBVIOUS
<1>2. PICK group : group =
         [r \in rows |-> IF (sorted[r] = Blank) <=> (options.blanks = "first") THEN 0 ELSE 1]
    OBVIOUS
<1>3. PICK number : number =
         [r \in rows |-> IF sorted[r] = Blank THEN 0
                         ELSE IF options.reverse THEN -sorted[r].n ELSE sorted[r].n]
    OBVIOUS
<1>4. \A r \in rows : sorted[r] = KeyAt(sheet, r, options.column) /\ sorted[r].n \in Int
    BY <1>1 DEF CellContents
<1>5. group \in [rows -> Int] /\ number \in [rows -> Int]
    BY <1>2, <1>3, <1>4
<1>6. ASSUME NEW q \in rows, NEW r \in rows
      PROVE  Before(sheet, options, q, r) <=>
                  \/ group[q] < group[r]
                  \/ /\ group[q] = group[r]
                     /\ number[q] < number[r] \/ (number[q] = number[r] /\ q < r)
  <2>1. Before(sheet, options, q, r) <=>
           IF ~((sorted[q] = Blank) <=> (sorted[r] = Blank))
           THEN (sorted[q] = Blank) <=> (options.blanks = "first")
           ELSE IF sorted[q] = Blank \/ sorted[q].n = sorted[r].n THEN q < r
           ELSE IF options.reverse THEN sorted[q].n > sorted[r].n ELSE sorted[q].n < sorted[r].n
    BY <1>4 DEF Before
  <2>2. /\ group[q] = IF (sorted[q] = Blank) <=> (options.blanks = "first") THEN 0 ELSE 1
        /\ group[r] = IF (sorted[r] = Blank) <=> (options.blanks = "first") THEN 0 ELSE 1
    BY <1>2
  <2>3. /\ number[q] = IF sorted[q] = Blank THEN 0
                       ELSE IF options.reverse THEN -sorted[q].n ELSE sorted[q].n
        /\ number[r] = IF sorted[r] = Blank THEN 0
                       ELSE IF options.reverse THEN -sorted[r].n ELSE sorted[r].n
    BY <1>3
  <2>4. sorted[q].n \in Int /\ sorted[r].n \in Int
    BY <1>4
  <2>5. CASE ~((sorted[q] = Blank) <=> (sorted[r] = Blank))
    BY ONLY <2>1, <2>2, <2>5
  <2>6. CASE sorted[q] = Blank /\ sorted[r] = Blank
    <3>1. group[q] = group[r] /\ number[q] = number[r]
      BY ONLY <2>2, <2>3, <2>6
    <3>2. number[q] = 0 /\ (group[q] = 0 \/ group[q] = 1)
      BY ONLY <2>2, <2>3, <2>6
    <3> QED  BY ONLY <2>1, <2>6, <3>1, <3>2
  <2>7. CASE sorted[q] # Blank /\ sorted[r] # Blank
    <3>1. group[q] = group[r] /\ (group[q] = 0 \/ group[q] = 1)
      BY ONLY <2>2, <2>7
    <3>2. CASE options.reverse
      BY ONLY <2>1, <2>3, <2>4, <2>7, <3>1, <3>2
    <3>3. CASE ~options.reverse
      BY ONLY <2>1, <2>3, <2>4, <2>7, <3>1, <3>3
    <3> QED  BY <3>2, <3>3
  <2> QED  BY <2>5, <2>6, <2>7
<1> QED  BY <1>5, <1>6

\* The row that ends up at each position: every row is at one, and they are in order.
LEMMA RowsPlaced ==
    ASSUME NEW sheet, NEW options \in Options, NEW rows \in SUBSET Int, IsFiniteSet(rows),
           \A r \in rows : KeyAt(sheet, r, options.column) \in CellContents,
           NEW place, place = [r \in rows |-> RowAt(sheet, options, rows, r)]
    PROVE  /\ place \in Bijection(rows, rows)
           /\ \A q, r \in rows : q < r => Before(sheet, options, place[q], place[r])
<1>1. PICK group \in [rows -> Int], number \in [rows -> Int] : \A q, r \in rows :
              Before(sheet, options, q, r) <=>
                  \/ group[q] < group[r]
                  \/ /\ group[q] = group[r]
                     /\ number[q] < number[r] \/ (number[q] = number[r] /\ q < r)
    BY InOrder
<1>2. PICK below : below = [q \in rows |-> {p \in rows : Before(sheet, options, p, q)}]
    OBVIOUS
<1>3. PICK above : above = [q \in rows |-> {p \in rows : p < q}]
    OBVIOUS
<1>4. /\ below \in [rows -> SUBSET rows]
      /\ \A p, q \in rows : p \in below[q] <=>
                  \/ group[p] < group[q]
                  \/ /\ group[p] = group[q]
                     /\ number[p] < number[q] \/ (number[p] = number[q] /\ p < q)
    BY <1>1, <1>2
<1>a. \A q \in rows : group[q] \in Int /\ number[q] \in Int /\ q \in Int
    BY <1>1
<1>5. /\ \A q \in rows : q \notin below[q]
      /\ \A p, q, r \in rows : p \in below[q] /\ q \in below[r] => p \in below[r]
      /\ \A q, r \in rows : q # r => q \in below[r] \/ r \in below[q]
  <2>1. \A q \in rows : q \notin below[q]
    BY ONLY <1>4, <1>a
  <2>2. ASSUME NEW p \in rows, NEW q \in rows, NEW r \in rows, p \in below[q], q \in below[r]
        PROVE  p \in below[r]
    BY ONLY <1>4, <1>a, <2>2
  <2>3. ASSUME NEW q \in rows, NEW r \in rows, q # r, q \notin below[r]
        PROVE  r \in below[q]
    BY ONLY <1>4, <1>a, <2>3
  <2> QED  BY <2>1, <2>2, <2>3
<1>6. /\ above \in [rows -> SUBSET rows]
      /\ \A p, q \in rows : p \in above[q] <=> p < q
    BY <1>3
<1>7. /\ \A q \in rows : q \notin above[q]
      /\ \A p, q, r \in rows : p \in above[q] /\ q \in above[r] => p \in above[r]
      /\ \A q, r \in rows : q # r => q \in above[r] \/ r \in above[q]
    BY <1>6
<1>8. Ordered(rows, below) /\ Ordered(rows, above)
    BY <1>4, <1>5, <1>6, <1>7 DEF Ordered
<1>9. Ranks(rows, below) /\ Ranks(rows, above)
    BY <1>8, Ranked
<1>10. ASSUME NEW r \in rows
       PROVE  /\ place[r] \in rows
              /\ Cardinality(below[place[r]]) = Cardinality(above[r])
  <2>1. \E q \in rows : Cardinality(below[q]) = Cardinality(above[r])
    BY <1>9 DEF Ranks
  <2>2. \E q \in rows : Cardinality({p \in rows : Before(sheet, options, p, q)})
                            = Cardinality({p \in rows : p < r})
    BY <1>2, <1>3, <2>1
  <2>3. /\ RowAt(sheet, options, rows, r) \in rows
        /\ Cardinality({p \in rows : Before(sheet, options, p, RowAt(sheet, options, rows, r))})
              = Cardinality({p \in rows : p < r})
    BY <2>2 DEF RowAt
  <2>4. place[r] = RowAt(sheet, options, rows, r)
    OBVIOUS
  <2> QED  BY <1>2, <1>3, <2>3, <2>4
<1>11. place \in [rows -> rows]
    BY <1>10
<1>12. \A q, r \in rows : place[q] = place[r] => q = r
    BY <1>9, <1>10 DEF Ranks
<1>13. ASSUME NEW q \in rows PROVE \E r \in rows : place[r] = q
  <2>1. PICK r \in rows : Cardinality(above[r]) = Cardinality(below[q])
    BY <1>9 DEF Ranks
  <2>2. place[r] \in rows /\ Cardinality(below[place[r]]) = Cardinality(below[q])
    BY <1>10, <2>1
  <2> QED  BY <1>9, <2>2 DEF Ranks
<1>14. place \in Bijection(rows, rows)
    BY <1>11, <1>12, <1>13 DEF Bijection, Injection, Surjection, IsInjective
<1>15. ASSUME NEW q \in rows, NEW r \in rows, q < r
       PROVE  Before(sheet, options, place[q], place[r])
  <2>1. Cardinality(above[q]) < Cardinality(above[r])
    BY <1>6, <1>9, <1>15 DEF Ranks
  <2>2. /\ place[q] \in rows /\ place[r] \in rows
        /\ Cardinality(below[place[q]]) < Cardinality(below[place[r]])
    BY <1>10, <2>1
  <2>a. Cardinality(below[place[q]]) \in Int /\ Cardinality(below[place[r]]) \in Int
    <3>1. PICK last : last = Cardinality(rows) - 1
      OBVIOUS
    <3>2. last \in Int
      BY <3>1, FS_CardinalityType
    <3>3. Cardinality(below[place[q]]) \in 0..last /\ Cardinality(below[place[r]]) \in 0..last
      BY <1>9, <2>2, <3>1 DEF Ranks
    <3> QED  BY ONLY <3>2, <3>3
  <2>3. place[r] \notin below[place[q]] /\ place[q] # place[r]
    <3>1. place[r] \in below[place[q]] => Cardinality(below[place[r]]) < Cardinality(below[place[q]])
      BY <1>9, <2>2 DEF Ranks
    <3> QED  BY ONLY <2>2, <2>a, <3>1
  <2>4. place[q] \in below[place[r]]
    BY <1>5, <1>10, <2>3
  <2> QED  BY <1>2, <1>10, <2>4
<1> QED  BY <1>14, <1>15

\* A sort addresses rows of its area, below the header, and cells that are there.
LEMMA SortedRows ==
    ASSUME NEW area \in Areas, NEW header \in BOOLEAN, NEW rows,
           rows = SortRows(area, header)
    PROVE  /\ rows \in SUBSET Int /\ IsFiniteSet(rows)
           /\ rows \subseteq Rows /\ rows \subseteq area.top..area.bottom
           /\ \A r \in rows, c \in area.left..area.right :
                 <<r, c>> \in Cells /\ <<r, c>> \in In(area)
<1>1. /\ area.top \in Int /\ area.bottom \in Int
      /\ area.top..area.bottom \subseteq Rows /\ area.left..area.right \subseteq Columns
    BY ContentAssumption
<1>2. PICK first \in Int : first = area.top + (IF header THEN 1 ELSE 0) /\ first >= area.top
    BY <1>1
<1>3. rows = first..area.bottom
    BY <1>2 DEF SortRows
<1>4. IsFiniteSet(rows)
    BY <1>1, <1>3, FS_Interval
<1>5. rows \in SUBSET Int /\ rows \subseteq area.top..area.bottom
    BY <1>1, <1>2, <1>3
<1>6. rows \subseteq Rows
    BY <1>1, <1>5
<1>7. ASSUME NEW r \in rows, NEW c \in area.left..area.right
      PROVE  <<r, c>> \in Cells /\ <<r, c>> \in In(area)
  <2>1. r \in Rows /\ c \in Columns
    BY <1>1, <1>6
  <2>2. <<r, c>> \in Cells /\ <<r, c>>[1] = r /\ <<r, c>>[2] = c
    BY <2>1 DEF Cells
  <2> QED  BY <1>5, <2>2 DEF In
<1> QED  BY <1>4, <1>5, <1>6, <1>7

\* Every sheet that was sorted has its rows, whole, in the order of the sort.
RowsHeld(book) ==
    \A i \in DOMAIN draft :
        (i \in DOMAIN book /\ book[i].id = draft[i].id /\ book[i].sorts # draft[i].sorts) =>
            \E area \in Areas, options \in Options :
                Permuted(draft[i], book[i], area, options)

\* A book none of whose sheets was sorted.
LEMMA UnsortedHolds == ASSUME NEW book, Unsorted(book) PROVE RowsHeld(book)
    BY DEF Unsorted, RowsHeld

\* The rows of a sort, one by one, with the cells they bring along.
LEMMA SortPermutes ==
    ASSUME NEW sheet \in Worksheets, NEW area \in Areas, NEW options \in Options,
           options.column \in area.left..area.right,
           NEW after, after.cells = Sorted(sheet, area, options)
    PROVE  /\ Permuted(sheet, after, area, options)
           /\ after.cells \in [Cells -> CellValues]
           /\ \A cell \in Cells : cell \notin In(area) => after.cells[cell] = sheet.cells[cell]
           /\ \A cell \in Cells : \E from \in Cells : after.cells[cell] = sheet.cells[from]
<1>0. /\ sheet.cells \in [Cells -> CellValues] /\ options.header \in BOOLEAN
      /\ \A cell \in Cells : sheet.cells[cell].content \in CellContents
  <2>1. sheet.cells \in [Cells -> CellValues] /\ options.header \in BOOLEAN
    BY DEF Worksheets, Options
  <2>2. \A cell \in Cells : sheet.cells[cell] \in CellValues
    BY <2>1
  <2>3. \A cell \in Cells : sheet.cells[cell].content \in CellContents
    BY <2>2 DEF CellValues
  <2> QED  BY <2>1, <2>3
<1>1. PICK rows : rows = SortRows(area, options.header)
    OBVIOUS
<1>2. /\ rows \in SUBSET Int /\ IsFiniteSet(rows)
      /\ rows \subseteq Rows /\ rows \subseteq area.top..area.bottom
      /\ \A r \in rows, c \in area.left..area.right :
            <<r, c>> \in Cells /\ <<r, c>> \in In(area)
    BY <1>0, <1>1, SortedRows
<1>3. PICK place : place = [r \in rows |-> RowAt(sheet, options, rows, r)]
    OBVIOUS
<1>4. \A r \in rows : KeyAt(sheet, r, options.column) \in CellContents
    BY <1>0, <1>2 DEF KeyAt
<1>5. /\ place \in Bijection(rows, rows)
      /\ \A q, r \in rows : q < r => Before(sheet, options, place[q], place[r])
    BY <1>2, <1>3, <1>4, RowsPlaced
<1>6. place \in [rows -> rows]
    BY <1>5 DEF Bijection, Injection
<1>7. after.cells = [cell \in Cells |->
            IF cell \in In(area) /\ cell[1] \in rows
            THEN sheet.cells[<<RowAt(sheet, options, rows, cell[1]), cell[2]>>]
            ELSE sheet.cells[cell]]
    BY <1>1 DEF Sorted
<1>8. \A cell \in Cells : after.cells[cell] =
            IF cell \in In(area) /\ cell[1] \in rows
            THEN sheet.cells[<<place[cell[1]], cell[2]>>]
            ELSE sheet.cells[cell]
    BY <1>3, <1>7
<1>9. \A cell \in Cells : \E from \in Cells : after.cells[cell] = sheet.cells[from]
  <2> SUFFICES ASSUME NEW cell \in Cells
               PROVE  \E from \in Cells : after.cells[cell] = sheet.cells[from]
    OBVIOUS
  <2>1. CASE cell \in In(area) /\ cell[1] \in rows
    <3>1. cell[2] \in area.left..area.right
      BY <2>1 DEF In
    <3>2. <<place[cell[1]], cell[2]>> \in Cells
      BY <1>2, <1>6, <2>1, <3>1
    <3>3. after.cells[cell] = sheet.cells[<<place[cell[1]], cell[2]>>]
      BY <1>8, <2>1
    <3> QED  BY <3>2, <3>3
  <2>2. CASE ~(cell \in In(area) /\ cell[1] \in rows)
    BY <1>8, <2>2
  <2> QED  BY <2>1, <2>2
<1>10. after.cells \in [Cells -> CellValues]
  <2>1. \A cell \in Cells : after.cells[cell] \in CellValues
    BY <1>0, <1>9
  <2>2. after.cells = [cell \in Cells |-> after.cells[cell]]
    BY <1>7
  <2> QED  BY <2>1, <2>2
<1>11. \A cell \in Cells : cell \notin In(area) => after.cells[cell] = sheet.cells[cell]
    BY <1>8
<1>12. \A r \in rows : KeyAt(after, r, options.column) = KeyAt(sheet, place[r], options.column)
  <2> SUFFICES ASSUME NEW r \in rows
               PROVE  after.cells[<<r, options.column>>] =
                         sheet.cells[<<place[r], options.column>>]
    BY DEF KeyAt
  <2>1. PICK cell : cell = <<r, options.column>>
    OBVIOUS
  <2>2. cell \in Cells /\ cell \in In(area) /\ cell[1] = r /\ cell[2] = options.column
    BY <1>2, <2>1
  <2>3. after.cells[cell] = sheet.cells[<<place[cell[1]], cell[2]>>]
    BY <1>8, <2>2
  <2> QED  BY <2>1, <2>2, <2>3
<1>13. ASSUME NEW q \in rows, NEW r \in rows, q < r,
              NEW a, a = KeyAt(after, q, options.column),
              NEW b, b = KeyAt(after, r, options.column)
       PROVE  IF a = Blank \/ b = Blank
              THEN /\ a = Blank /\ b = Blank => place[q] < place[r]
                   /\ a # b => (a = Blank) = (options.blanks = "first")
              ELSE /\ a = b => place[q] < place[r]
                   /\ IF options.reverse THEN a.n >= b.n ELSE a.n <= b.n
  <2>1. place[q] \in rows /\ place[r] \in rows
    BY <1>6
  <2>2. a = KeyAt(sheet, place[q], options.column) /\ b = KeyAt(sheet, place[r], options.column)
    BY <1>12, <1>13
  <2>3. a \in CellContents /\ b \in CellContents
    BY <1>4, <2>1, <2>2
  <2>4. a.n \in Int /\ b.n \in Int
    BY <2>3 DEF CellContents
  <2>5. Before(sheet, options, place[q], place[r])
    BY <1>5, <1>13
  <2>6. IF (a = Blank) # (b = Blank)
        THEN (a = Blank) = (options.blanks = "first")
        ELSE IF a = Blank \/ a.n = b.n THEN place[q] < place[r]
        ELSE IF options.reverse THEN a.n > b.n ELSE a.n < b.n
    BY <2>2, <2>5 DEF Before
  <2>7. CASE a = Blank /\ b = Blank
    BY ONLY <2>6, <2>7
  <2>8. CASE (a = Blank) # (b = Blank)
    BY ONLY <2>6, <2>8
  <2>9. CASE a # Blank /\ b # Blank
    <3>1. IF a.n = b.n THEN place[q] < place[r]
          ELSE IF options.reverse THEN a.n > b.n ELSE a.n < b.n
      BY ONLY <2>6, <2>9
    <3>2. a = b => place[q] < place[r]
      BY ONLY <3>1
    <3>3. IF options.reverse THEN a.n >= b.n ELSE a.n <= b.n
      BY ONLY <2>4, <3>1
    <3> QED  BY <2>9, <3>2, <3>3
  <2> QED  BY <2>7, <2>8, <2>9
<1>14. Permuted(sheet, after, area, options)
  <2>1. \A q, r \in rows :
           q < r => LET a == KeyAt(after, q, options.column)
                        b == KeyAt(after, r, options.column)
                    IN  IF a = Blank \/ b = Blank
                        THEN /\ a = Blank /\ b = Blank => place[q] < place[r]
                             /\ a # b => (a = Blank) = (options.blanks = "first")
                        ELSE /\ a = b => place[q] < place[r]
                             /\ IF options.reverse THEN a.n >= b.n ELSE a.n <= b.n
    BY ONLY <1>13
  <2> QED  BY ONLY <1>1, <1>5, <1>8, <2>1 DEF Permuted
<1> QED  BY <1>9, <1>10, <1>11, <1>14

\* A sort is refused where a merge is, and in a book with formulas.
LEMMA SortSteps ==
    ASSUME ContentInv, NEW i \in DOMAIN draft, NEW area \in Areas,
           NEW options \in Options, Sort(i, area, options)
    PROVE  ContentInv' /\ RowsHeld(draft')
<1>0. draft \in Seq(Worksheets) /\ edits \in Nat
    BY DEF ContentInv, ContentTypeOK
<1>1. PICK sheet : sheet = draft[i]
    OBVIOUS
<1>2. PICK cells : cells = Sorted(sheet, area, options)
    OBVIOUS
<1>3. PICK s : s = [sheet EXCEPT !.cells = cells, !.sorts = @ + 1]
    OBVIOUS
<1>4. PICK book : book = [draft EXCEPT ![i] = s]
    OBVIOUS
<1>5. Accept(book) /\ draft' = book
  <2>1. [draft EXCEPT ![i].cells = Sorted(draft[i], area, options), ![i].sorts = @ + 1] = book
    BY <1>1, <1>2, <1>3, <1>4
  <2> QED  BY <2>1 DEF Sort, Accept
<1>6. /\ sheet \in Worksheets /\ sheet.cells \in [Cells -> CellValues]
      /\ sheet.sorts \in Nat /\ sheet.merges \subseteq Areas
    BY <1>1, SheetTypes
<1>7. s.cells = cells /\ s.merges = sheet.merges /\ s.name = sheet.name /\ s.id = sheet.id
      /\ s.sorts = sheet.sorts + 1
    BY <1>3, <1>6 DEF Worksheets
<1>8. /\ Permuted(sheet, s, area, options)
      /\ s.cells \in [Cells -> CellValues]
      /\ \A cell \in Cells : cell \notin In(area) => s.cells[cell] = sheet.cells[cell]
      /\ \A cell \in Cells : \E from \in Cells : s.cells[cell] = sheet.cells[from]
  <2>1. options.column \in area.left..area.right
    BY DEF Sort
  <2>2. s.cells = Sorted(sheet, area, options)
    BY <1>2, <1>7
  <2>3. sheet \in Worksheets
    BY <1>6
  <2> QED  BY ONLY <2>1, <2>2, <2>3, area \in Areas, options \in Options, SortPermutes
<1>a. cells \in [Cells -> CellValues]
    BY <1>7, <1>8
<1>9. s \in Worksheets
  <2>1. PICK n \in Nat : n = sheet.sorts + 1
    BY <1>6
  <2>2. s = [sheet EXCEPT !.cells = cells, !.sorts = n]
    BY <1>3, <2>1
  <2> QED  BY ONLY <1>6, <1>a, <2>2, n \in Nat DEF Worksheets
<1>10. /\ book \in Seq(Worksheets) /\ DOMAIN book = DOMAIN draft /\ book[i] = s
       /\ \A j \in DOMAIN draft : j # i => book[j] = draft[j]
    BY <1>0, <1>4, <1>9
<1>11. \A j \in DOMAIN draft : book[j].id = draft[j].id /\ book[j].name = draft[j].name
    BY <1>1, <1>7, <1>10
<1>12. MergesAreClear(s)
  <2>1. MergesAreClear(sheet)
    BY <1>1 DEF ContentInv, NothingIsHidden, NoneHidden
  <2>2. CoveredBy(s) = CoveredBy(sheet) /\ CoveredBy(sheet) \subseteq Cells
    BY <1>7 DEF CoveredBy, Covered, In
  <2>3. \A cell \in CoveredBy(sheet) : cell \notin In(area)
    BY <1>1 DEF Sort, Overlap, CoveredBy, Covered
  <2>4. \A cell \in CoveredBy(s) : s.cells[cell].content.kind = "blank"
    BY <1>7, <1>8, <2>1, <2>2, <2>3 DEF MergesAreClear
  <2> QED  BY <1>7, <2>1, <2>4 DEF MergesAreClear
<1>13. NoneHidden(book)
  <2>1. \A j \in DOMAIN draft : MergesAreClear(draft[j])
    BY DEF ContentInv, NothingIsHidden, NoneHidden
  <2>2. Distinct(book)
    BY <1>10, <1>11 DEF ContentInv, NothingIsHidden, NoneHidden, Distinct
  <2> QED  BY <1>10, <1>12, <2>1, <2>2 DEF NoneHidden
<1>14. CitationsHold(book)
  <2>1. \A j \in DOMAIN draft, cell \in Cells : draft[j].cells[cell].content.kind # "formula"
    BY DEF Sort, HasReferences
  <2>2. \A cell \in Cells : s.cells[cell].content.kind # "formula"
    BY <1>1, <1>7, <1>8, <2>1
  <2>3. \A j \in DOMAIN book, cell \in Cells : book[j].cells[cell].content.kind # "formula"
    BY <1>10, <2>1, <2>2
  <2> QED  BY <2>3, NothingCited
<1>15. Apart(book, edits + 1)
  <2>1. \A j \in DOMAIN draft : draft[j].id \in Int /\ draft[j].id >= -edits
    BY SheetTypes DEF ContentInv, Apart
  <2>2. \A j \in DOMAIN draft : book[j].id >= -(edits + 1)
    BY <1>0, <1>11, <2>1
  <2> QED  BY <1>10, <1>11, <2>2 DEF ContentInv, Apart
<1>16. RowsHeld(book)
    BY <1>1, <1>8, <1>10 DEF RowsHeld
<1> QED  BY <1>5, <1>10, <1>13, <1>14, <1>15, <1>16, Accepted DEF Sound

-----------------------------------------------------------------------------
\* The text that writing or reading a book turns into another.
Swap(from, to) == [c \in {from} |-> to]

\* The rest of the book is left alone.
LEMMA Carried ==
    ASSUME NEW book \in Seq(Worksheets), NEW from \in CellContents, NEW to \in CellContents,
           from.kind \in {"text", "inline"}, to.kind \in {"text", "inline"},
           NEW raw, raw = EachContent(book, Swap(from, to))
    PROVE  /\ raw \in Seq(Worksheets) /\ DOMAIN raw = DOMAIN book
           /\ \A i \in DOMAIN book : raw[i].id = book[i].id /\ raw[i].sorts = book[i].sorts
           /\ NoneHidden(book) => NoneHidden(raw)
           /\ CitationsHold(book) => CitationsHold(raw)
<1>1. PICK contents : contents = [i \in DOMAIN book |-> [cell \in Cells |->
                         IF book[i].cells[cell].content = from THEN to
                         ELSE book[i].cells[cell].content]]
    OBVIOUS
<1>2. \A i \in DOMAIN book : /\ book[i] \in Worksheets /\ book[i].cells \in [Cells -> CellValues]
                             /\ \A cell \in Cells : book[i].cells[cell] \in CellValues
  <2>1. \A i \in DOMAIN book : book[i] \in Worksheets
    OBVIOUS
  <2>2. \A i \in DOMAIN book : book[i].cells \in [Cells -> CellValues]
    BY <2>1 DEF Worksheets
  <2> QED  BY <2>1, <2>2
<1>3. \A i \in DOMAIN book, cell \in Cells :
         /\ contents[i][cell] = IF book[i].cells[cell].content = from THEN to
                                ELSE book[i].cells[cell].content
         /\ contents[i][cell] \in CellContents
  <2>1. \A i \in DOMAIN book, cell \in Cells : book[i].cells[cell].content \in CellContents
    BY <1>2 DEF CellValues
  <2> QED  BY <1>1, <2>1
<1>4. \A i \in DOMAIN book, cell \in Cells :
         contents[i][cell] = LET old == book[i].cells[cell].content
                             IN  IF old \in DOMAIN [c \in {from} |-> to]
                                 THEN [c \in {from} |-> to][old] ELSE old
    BY <1>3
<1>5. raw = [i \in DOMAIN book |-> [book[i] EXCEPT !.cells =
                [cell \in Cells |-> [book[i].cells[cell] EXCEPT !.content = contents[i][cell]]]]]
    BY <1>4 DEF EachContent, Swap
<1>6. ASSUME NEW i \in DOMAIN book
      PROVE  /\ raw[i] \in Worksheets /\ raw[i].name = book[i].name /\ raw[i].id = book[i].id
             /\ raw[i].sorts = book[i].sorts /\ raw[i].merges = book[i].merges
             /\ \A cell \in Cells : raw[i].cells[cell].content = contents[i][cell]
  <2>1. PICK cells : cells =
           [cell \in Cells |-> [book[i].cells[cell] EXCEPT !.content = contents[i][cell]]]
    OBVIOUS
  <2>2. \A cell \in Cells : cells[cell] \in CellValues /\ cells[cell].content = contents[i][cell]
    BY <1>2, <1>3, <2>1 DEF CellValues
  <2>3. cells \in [Cells -> CellValues]
    BY <2>1, <2>2
  <2>4. raw[i] = [book[i] EXCEPT !.cells = cells]
    BY <1>5, <2>1
  <2>5. /\ raw[i] \in Worksheets /\ raw[i].name = book[i].name /\ raw[i].id = book[i].id
        /\ raw[i].sorts = book[i].sorts /\ raw[i].merges = book[i].merges
        /\ raw[i].cells = cells
    BY <1>2, <2>3, <2>4 DEF Worksheets
  <2> QED  BY <2>2, <2>5
<1>7. raw \in Seq(Worksheets) /\ DOMAIN raw = DOMAIN book
  <2>1. DOMAIN raw = DOMAIN book /\ raw = [i \in DOMAIN book |-> raw[i]]
    BY <1>5
  <2>2. DOMAIN book = 1..Len(book) /\ Len(book) \in Nat
    OBVIOUS
  <2>3. raw \in [1..Len(book) -> Worksheets]
    BY <1>6, <2>1, <2>2
  <2> QED  BY <2>1, <2>2, <2>3
<1>8. ASSUME NoneHidden(book) PROVE NoneHidden(raw)
  <2>1. Distinct(raw)
    BY <1>6, <1>7, <1>8 DEF NoneHidden, Distinct
  <2>2. ASSUME NEW i \in DOMAIN book PROVE MergesAreClear(raw[i])
    <3>1. MergesAreClear(book[i])
      BY <1>8 DEF NoneHidden
    <3>2. CoveredBy(raw[i]) = CoveredBy(book[i]) /\ CoveredBy(book[i]) \subseteq Cells
      BY <1>6 DEF CoveredBy, Covered, In
    <3>3. \A cell \in CoveredBy(raw[i]) : raw[i].cells[cell].content.kind = "blank"
      BY <1>3, <1>6, <3>1, <3>2 DEF MergesAreClear
    <3> QED  BY <1>6, <3>1, <3>3 DEF MergesAreClear
  <2> QED  BY <1>7, <2>1, <2>2 DEF NoneHidden
<1>9. ASSUME CitationsHold(book) PROVE CitationsHold(raw)
  <2> SUFFICES ASSUME NEW i \in DOMAIN book, NEW cell \in Cells,
                      raw[i].cells[cell].content.kind = "formula"
               PROVE  \E k \in DOMAIN raw :
                         /\ raw[k].name = raw[i].cells[cell].content.cites.name
                         /\ raw[k].id = raw[i].cells[cell].content.cites.of
                         /\ raw[k].sorts = raw[i].cells[cell].content.cites.sorts
    BY <1>7 DEF CitationsHold
  <2>1. raw[i].cells[cell].content = book[i].cells[cell].content
    BY <1>3, <1>6
  <2>2. PICK k \in DOMAIN book :
           /\ book[k].name = raw[i].cells[cell].content.cites.name
           /\ book[k].id = raw[i].cells[cell].content.cites.of
           /\ book[k].sorts = raw[i].cells[cell].content.cites.sorts
    BY <1>9, <2>1 DEF CitationsHold
  <2> QED  BY <1>6, <1>7, <2>2
<1> QED  BY <1>6, <1>7, <1>8, <1>9

\* The book that is read back is the one that was written.
LEMMA BookKept ==
    ASSUME NEW book \in Seq(Worksheets), NEW raw, raw = Saved(book) \/ raw = Loaded(book)
    PROVE  /\ raw \in Seq(Worksheets) /\ DOMAIN raw = DOMAIN book
           /\ \A i \in DOMAIN book : raw[i].id = book[i].id /\ raw[i].sorts = book[i].sorts
           /\ NoneHidden(book) => NoneHidden(raw)
           /\ CitationsHold(book) => CitationsHold(raw)
<1>1. /\ EmptyText \in CellContents /\ Inline \in CellContents
      /\ EmptyText.kind \in {"text", "inline"} /\ Inline.kind \in {"text", "inline"}
    BY BlankTypes DEF EmptyText, Inline
<1>2. CASE raw = Saved(book)
  <2>1. raw = EachContent(book, Swap(EmptyText, Inline))
    BY <1>2 DEF Saved, Swap
  <2> QED  BY ONLY <1>1, <2>1, book \in Seq(Worksheets), Carried
<1>3. CASE raw = Loaded(book)
  <2>1. raw = EachContent(book, Swap(Inline, EmptyText))
    BY <1>3 DEF Loaded, Swap
  <2> QED  BY ONLY <1>1, <2>1, book \in Seq(Worksheets), Carried
<1> QED  BY <1>2, <1>3

\* A commit leaves the draft what was saved and read back, and seals what was verified.
LEMMA CommitSteps ==
    ASSUME ContentInv, Commit
    PROVE  ContentInv' /\ Unsorted(draft')
<1>1. PICK raw : raw = Saved(draft)
    OBVIOUS
<1>2. PICK book : book = Loaded(raw)
    OBVIOUS
<1>3. /\ workbook' = raw /\ draft' = book /\ sealed' = (profile = "literal")
      /\ profile' = profile /\ edits' = edits
      /\ profile = "literal" => VerifySnapshot(raw)
    BY <1>1, <1>2 DEF Commit
<1>4. draft \in Seq(Worksheets)
    BY DEF ContentInv, ContentTypeOK
<1>5. /\ raw \in Seq(Worksheets) /\ DOMAIN raw = DOMAIN draft
      /\ \A i \in DOMAIN draft : raw[i].id = draft[i].id /\ raw[i].sorts = draft[i].sorts
      /\ NoneHidden(raw) /\ CitationsHold(raw)
    BY <1>1, <1>4, BookKept DEF ContentInv, NothingIsHidden, ReferencesHold
<1>6. /\ book \in Seq(Worksheets) /\ DOMAIN book = DOMAIN draft
      /\ \A i \in DOMAIN draft : book[i].id = draft[i].id /\ book[i].sorts = draft[i].sorts
      /\ NoneHidden(book) /\ CitationsHold(book)
    BY <1>2, <1>5, BookKept
<1>7. ContentTypeOK'
    BY <1>3, <1>5, <1>6 DEF ContentInv, ContentTypeOK
<1>8. NothingIsHidden' /\ ReferencesHold'
    BY <1>3, <1>6 DEF NothingIsHidden, ReferencesHold
<1>9. SealedIsLiteral'
  <2>1. sealed' => VerifySnapshot(workbook')
    BY <1>3
  <2> QED  BY <2>1 DEF SealedIsLiteral, VerifySnapshot
<1>10. Apart(draft, edits)'
  <2>1. Apart(book, edits)
    BY <1>6 DEF ContentInv, Apart
  <2> QED  BY <1>3, <2>1
<1>11. Unsorted(draft')
    BY <1>3, <1>6 DEF Unsorted
<1> QED  BY <1>7, <1>8, <1>9, <1>10, <1>11 DEF ContentInv

\* A workbook on disk, or a new one.
LEMMA ContentStarts == ASSUME ContentInit PROVE ContentInv
<1>1. /\ workbook \in Seq(Worksheets) /\ NoneHidden(workbook) /\ CitationsHold(workbook)
      /\ \A i, j \in DOMAIN workbook : workbook[i].id >= 0 /\ (i # j => workbook[i].id # workbook[j].id)
  <2>1. CASE workbook \in Books
    BY <2>1, BooksAssumption
  <2>2. CASE workbook = <<>>
    <3>1. workbook \in Seq(Worksheets) /\ DOMAIN workbook = {}
      BY <2>2
    <3> QED  BY <3>1 DEF NoneHidden, Distinct, CitationsHold
  <2> QED  BY <2>1, <2>2 DEF ContentInit
<1>2. /\ draft \in Seq(Worksheets) /\ DOMAIN draft = DOMAIN workbook
      /\ \A i \in DOMAIN workbook : draft[i].id = workbook[i].id
      /\ NoneHidden(draft) /\ CitationsHold(draft)
  <2>1. draft = Loaded(workbook)
    BY DEF ContentInit
  <2>2. workbook \in Seq(Worksheets)
    BY <1>1
  <2>3. /\ draft \in Seq(Worksheets) /\ DOMAIN draft = DOMAIN workbook
        /\ \A i \in DOMAIN workbook : draft[i].id = workbook[i].id /\ draft[i].sorts = workbook[i].sorts
        /\ NoneHidden(workbook) => NoneHidden(draft)
        /\ CitationsHold(workbook) => CitationsHold(draft)
    BY ONLY <2>1, <2>2, BookKept
  <2> QED  BY <1>1, <2>3
<1>3. ContentTypeOK
  <2>1. edits \in 0..MaxEdits
    BY ContentAssumption DEF ContentInit
  <2>2. workbook \in Seq(Worksheets) /\ draft \in Seq(Worksheets)
    BY <1>1, <1>2
  <2>3. profile \in {"general", "literal"} /\ sealed \in BOOLEAN
    BY DEF ContentInit
  <2> QED  BY ONLY <2>1, <2>2, <2>3 DEF ContentTypeOK
<1>4. Apart(draft, edits)
    BY <1>1, <1>2 DEF ContentInit, Apart
<1> QED  BY <1>2, <1>3, <1>4 DEF ContentInit, ContentInv, NothingIsHidden, ReferencesHold,
                                 SealedIsLiteral

\* Every edit of a sheet.
LEMMA EditSteps ==
    ASSUME ContentInv, NEW i \in DOMAIN draft, Edit(i)
    PROVE  ContentInv' /\ RowsHeld(draft')
<1>1. ASSUME NEW name \in Names, Rename(i, name) PROVE ContentInv' /\ RowsHeld(draft')
    BY <1>1, RenameSteps, UnsortedHolds
<1>2. CASE Delete(i)
    BY <1>2, DeleteSteps, UnsortedHolds
<1>3. ASSUME NEW slot \in DOMAIN draft, Move(i, slot) PROVE ContentInv' /\ RowsHeld(draft')
    BY <1>3, MoveSteps, UnsortedHolds
<1>4. ASSUME NEW shown \in BOOLEAN, Configure(i, shown) PROVE ContentInv' /\ RowsHeld(draft')
    BY <1>4, ConfigureSteps, UnsortedHolds
<1>a. draft[i].images \in Seq(Pictures)
    BY SheetTypes DEF Worksheets
<1>5. ASSUME NEW picture \in Pictures, InsertPicture(i, picture)
      PROVE  ContentInv' /\ RowsHeld(draft')
  <2>1. PICK images : images = Append(draft[i].images, picture)
    OBVIOUS
  <2>2. images \in Seq(Pictures)
    BY <1>a, <2>1
  <2>3. Accept([draft EXCEPT ![i].images = images])
    BY <1>5, <2>1 DEF InsertPicture
  <2> QED  BY <2>2, <2>3, PictureSteps, UnsortedHolds
<1>6. ASSUME NEW k \in DOMAIN draft[i].images, DeletePicture(i, k)
      PROVE  ContentInv' /\ RowsHeld(draft')
  <2>1. PICK images : images = RemoveAt(draft[i].images, k)
    OBVIOUS
  <2>2. images \in Seq(Pictures)
    BY <1>a, <2>1, RemovedAt
  <2>3. Accept([draft EXCEPT ![i].images = images])
    BY <1>6, <2>1 DEF DeletePicture
  <2> QED  BY <2>2, <2>3, PictureSteps, UnsortedHolds
<1>7. ASSUME NEW cell \in Cells, NEW j \in DOMAIN draft, SetFormula(i, cell, j)
      PROVE  ContentInv' /\ RowsHeld(draft')
    BY <1>7, FormulaSteps, UnsortedHolds
<1>8. ASSUME NEW area \in Areas, NEW matrix \in Matrices(area), Write(i, area, matrix)
      PROVE  ContentInv' /\ RowsHeld(draft')
    BY <1>8, WriteSteps, UnsortedHolds
<1>9. ASSUME NEW area \in Areas, Clear(i, area) PROVE ContentInv' /\ RowsHeld(draft')
    BY <1>9, ClearSteps, UnsortedHolds
<1>10. ASSUME NEW area \in Areas, NEW style \in Styles, Style(i, area, style)
       PROVE  ContentInv' /\ RowsHeld(draft')
  <2>1. /\ "bold" \in DOMAIN style => style.bold \in BOOLEAN
        /\ "format" \in DOMAIN style => style.format \in CellFormats
    <3>1. CASE style = [bold |-> TRUE] \/ style = [bold |-> FALSE]
      <4>1. DOMAIN style = {"bold"}
        BY <3>1
      <4>2. style.bold = TRUE \/ style.bold = FALSE
        <5>1. CASE style = [bold |-> TRUE]
          BY ONLY <5>1
        <5>2. CASE style = [bold |-> FALSE]
          BY ONLY <5>2
        <5> QED  BY <3>1, <5>1, <5>2
      <4> QED  BY ONLY <4>1, <4>2
    <3>2. CASE style = [format |-> "0.00"]
      <4>1. "bold" \notin DOMAIN style /\ style.format = "0.00"
        BY <3>2
      <4> QED  BY <4>1 DEF CellFormats
    <3> QED  BY <3>1, <3>2 DEF Styles
  <2> QED  BY <1>10, <2>1, StyleSteps, UnsortedHolds
<1>11. ASSUME NEW area \in Areas, NEW format \in Formats, Format(i, area, format)
       PROVE  ContentInv' /\ RowsHeld(draft')
  <2>1. PICK style : style = [format |-> format]
    OBVIOUS
  <2>2. /\ "bold" \in DOMAIN style => style.bold \in BOOLEAN
        /\ "format" \in DOMAIN style => style.format \in CellFormats
        /\ Style(i, area, style)
    BY <1>11, <2>1 DEF Format, Formats, CellFormats
  <2> QED  BY <2>2, StyleSteps, UnsortedHolds
<1>12. ASSUME NEW area \in Areas, Merge(i, area) PROVE ContentInv' /\ RowsHeld(draft')
    BY <1>12, MergeSteps, UnsortedHolds
<1>13. ASSUME NEW area \in Areas, Unmerge(i, area) PROVE ContentInv' /\ RowsHeld(draft')
    BY <1>13, UnmergeSteps, UnsortedHolds
<1>14. ASSUME NEW area \in Areas, NEW options \in Options, Sort(i, area, options)
       PROVE  ContentInv' /\ RowsHeld(draft')
    BY <1>14, SortSteps
<1> QED  BY <1>1, <1>2, <1>3, <1>4, <1>5, <1>6, <1>7, <1>8, <1>9, <1>10, <1>11, <1>12, <1>13,
            <1>14 DEF Edit

\* Every step of a session.
LEMMA ContentSteps ==
    ASSUME ContentInv, [ContentNext]_contentVars
    PROVE  ContentInv' /\ RowsHeld(draft')
<1>1. ASSUME NEW name \in Names, NEW slot \in 1..(Len(draft) + 1), Create(name, slot)
      PROVE  ContentInv' /\ RowsHeld(draft')
    BY <1>1, CreateSteps, UnsortedHolds
<1>2. ASSUME NEW i \in DOMAIN draft, Edit(i) PROVE ContentInv' /\ RowsHeld(draft')
    BY <1>2, EditSteps
<1>3. CASE Commit
    BY <1>3, CommitSteps, UnsortedHolds
<1>4. CASE UNCHANGED contentVars
  <2>1. UNCHANGED <<profile, workbook, draft, edits, sealed>>
    BY <1>4 DEF contentVars
  <2>2. ContentInv'
    BY <2>1 DEF ContentInv, ContentTypeOK, NothingIsHidden, ReferencesHold, SealedIsLiteral
  <2>3. RowsHeld(draft')
    BY <2>1 DEF RowsHeld
  <2> QED  BY <2>2, <2>3
<1> QED  BY <1>1, <1>2, <1>3, <1>4 DEF ContentNext

\* The invariant of the content of a workbook.
LEMMA ContentStays == ContentSpec => []ContentInv
<1>1. ContentInit => ContentInv
    BY ContentStarts
<1>2. ContentInv /\ [ContentNext]_contentVars => ContentInv'
    BY ContentSteps
<1> QED  BY <1>1, <1>2, PTL DEF ContentSpec

\* A workbook under edit is sheets of cells, each with a content, a format and a
\* style, whatever is queued and committed.
THEOREM ContentTyped == ContentSpec => []ContentTypeOK
<1>1. ContentInv => ContentTypeOK
    BY DEF ContentInv
<1> QED  BY <1>1, ContentStays, PTL

\* No content is hidden under a merge, no two sheets have the same name to Excel, a
\* formula cites the sheet it cited when it was set, with its rows where they were,
\* and a sealed literal artifact is text marked as text: whatever the order of the
\* changes of a session and of its commits.
THEOREM BooksSound == ContentSpec => []BookIsSound
<1>1. ContentInv => BookIsSound
    BY DEF ContentInv, BookIsSound
<1> QED  BY <1>1, ContentStays, PTL

\* A sort moves whole rows, inside its range and below its header, puts them in
\* order, and leaves rows with equal keys in the order they had.
THEOREM RowsKept == ContentSpec => SortsKeepRows
<1>1. ContentInv /\ [ContentNext]_contentVars =>
         [\A i \in DOMAIN draft :
           (i \in DOMAIN draft' /\ draft'[i].id = draft[i].id
                /\ draft'[i].sorts # draft[i].sorts) =>
               \E area \in Areas, options \in Options :
                   Permuted(draft[i], draft'[i], area, options)]_contentVars
    BY ContentSteps DEF RowsHeld
<1> QED  BY <1>1, ContentStays, PTL DEF ContentSpec, SortsKeepRows

-----------------------------------------------------------------------------
(* The file of a workbook.                                                 *)

USE FileAssumption

-----------------------------------------------------------------------------
(* Types.                                                                  *)

\* A call that ends keeps the types of what ending changes.
LEMMA EndsTyped ==
  ASSUME TypeOK, NEW c \in Call, NEW a \in Answer, Ends(c, a)
  PROVE  /\ at' \in [Call -> Phase]
         /\ answer' \in [Call -> Answer \cup {None}]
         /\ lock' \in Call \cup {None}
  BY DEF TypeOK, Ends, GoTo, Phase, Answer

\* A ledger entry is written with a known state and the payload of the call.
LEMMA SetEntryTyped ==
  ASSUME TypeOK, NEW c \in Call, Keyed(c), NEW state \in Entry, SetEntry(c, state)
  PROVE  ledger' \in Ledger
  <1>1. LedgerKeyOf(c) \in LedgerKey
    BY DEF LedgerKeyOf, LedgerKey, TypeOK, Keyed
  <1>2. [state |-> state, payload |-> revision[c]] \in [state : Entry, payload : Content]
    BY DEF TypeOK
  <1> QED BY <1>1, <1>2 DEF SetEntry, Ledger, TypeOK

\* Recording an outcome keeps the type of the ledger.
LEMMA RecordTyped ==
  ASSUME TypeOK, NEW c \in Call, NEW state \in Entry, Record(c, state)
  PROVE  ledger' \in Ledger
  <1>1. CASE Keyed(c) /\ EntryOf(c).state # "absent" /\ SamePayload(c)
    BY <1>1, SetEntryTyped DEF Record
  <1>2. CASE ~(Keyed(c) /\ EntryOf(c).state # "absent" /\ SamePayload(c))
    BY <1>2 DEF Record, TypeOK
  <1> QED BY <1>1, <1>2

\* Every step of a call that was made keeps the types.
LEMMA StepTyped ==
  ASSUME TypeOK, NEW c \in Call, Step(c)
  PROVE  TypeOK'
  <1> USE DEF NoFile
  <1>1. CASE Lock(c)
    BY <1>1 DEF Lock, TypeOK, GoTo, Phase
  <1>2. CASE RefusedBeforeLock(c)
    BY <1>2, EndsTyped DEF RefusedBeforeLock, TypeOK, Answer
  <1>3. CASE Build(c)
    <2>1. CASE PreflightStale(c)
      BY <1>3, <2>1, EndsTyped DEF Build, TypeOK, Answer
    <2>2. CASE ~ PreflightStale(c)
      BY <1>3, <2>2 DEF Build, TypeOK, GoTo, Phase, Content
    <2> QED BY <2>1, <2>2
  <1>4. CASE ReadFile(c)
    BY <1>4 DEF ReadFile, TypeOK, GoTo, Phase
  <1>5. CASE ReadFails(c)
    <2>1. ledger' \in Ledger
      BY <1>5, RecordTyped DEF ReadFails, Entry, TypeOK
    <2> QED BY <1>5, <2>1, EndsTyped DEF ReadFails, TypeOK, Answer
  <1>6. CASE Begin(c)
    <2>1. ledger' \in Ledger
      BY <1>6, SetEntryTyped DEF Begin, Entry, TypeOK
    <2> QED BY <1>6, <2>1 DEF Begin, TypeOK, GoTo, Phase
  <1>7. CASE Answered(c)
    <2>1. \E a \in Answer : Ends(c, a)
      BY <1>7 DEF Answered, Answer
    <2> QED BY <1>7, <2>1, EndsTyped DEF Answered, TypeOK
  <1>8. CASE StaleRevision(c)
    <2>1. ledger' \in Ledger
      BY <1>8, SetEntryTyped DEF StaleRevision, Entry, TypeOK
    <2> QED BY <1>8, <2>1, EndsTyped DEF StaleRevision, TypeOK, Answer
  <1>9. CASE Stage(c)
    BY <1>9 DEF Stage, TypeOK, GoTo, Phase
  <1>10. CASE StageFails(c)
    <2>1. ledger' \in Ledger
      BY <1>10, RecordTyped DEF StageFails, Entry
    <2> QED BY <1>10, <2>1, EndsTyped DEF StageFails, EndsClean, TypeOK, Answer
  <1>11. CASE Compare(c)
    BY <1>11 DEF Compare, TypeOK, GoTo, Phase
  <1>12. CASE CompareStale(c)
    BY <1>12, EndsTyped DEF CompareStale, EndsClean, TypeOK, Answer
  <1>13. CASE Replace(c)
    <2>1. base[c] \cup {c} \in Content
      BY DEF TypeOK, Content
    <2> QED BY <1>13, <2>1 DEF Replace, TypeOK, GoTo, Phase
  <1>14. CASE Link(c)
    BY <1>14 DEF Link, TypeOK, GoTo, Phase, Content
  <1>15. CASE LinkRefused(c)
    BY <1>15, EndsTyped DEF LinkRefused, EndsClean, TypeOK, Answer
  <1>16. CASE PublishFails(c)
    <2>1. ledger' \in Ledger
      BY <1>16, RecordTyped DEF PublishFails, Entry
    <2> QED BY <1>16, <2>1, EndsTyped DEF PublishFails, EndsClean, TypeOK, Answer
  <1>17. CASE NothingToPublish(c)
    BY <1>17 DEF NothingToPublish, TypeOK, GoTo, Phase
  <1>18. CASE SessionReturns(c)
    BY <1>18, EndsTyped DEF SessionReturns, TypeOK, Answer
  <1>21. CASE CleanupFails(c)
    BY <1>21, EndsTyped DEF CleanupFails, TypeOK, Answer
  <1>19. CASE Readback(c)
    <2>1. ledger' \in Ledger
      BY <1>19, RecordTyped DEF Readback, Entry
    <2>2. \E a \in Answer : Ends(c, a)
      BY <1>19 DEF Readback, Answer
    <2> QED BY <1>19, <2>1, <2>2, EndsTyped DEF Readback, TypeOK
  <1>20. CASE ReadbackFails(c)
    <2>1. ledger' \in Ledger
      BY <1>20, RecordTyped DEF ReadbackFails, Entry
    <2>2. \E a \in Answer : Ends(c, a)
      BY <1>20 DEF ReadbackFails, Answer
    <2> QED BY <1>20, <2>1, <2>2, EndsTyped DEF ReadbackFails, TypeOK
  <1> QED
    BY <1>1, <1>2, <1>3, <1>4, <1>5, <1>6, <1>7, <1>8, <1>9, <1>10, <1>11, <1>12,
       <1>13, <1>14, <1>15, <1>16, <1>17, <1>18, <1>19, <1>20, <1>21 DEF Step, Advance

\* Every step keeps the types.
LEMMA NextTyped ==
  ASSUME TypeOK, [Next]_vars
  PROVE  TypeOK'
  <1> USE DEF NoFile
  <1>1. ASSUME NEW c \in Call, Open(c) PROVE TypeOK'
    BY <1>1 DEF Open, MayCall, TypeOK, GoTo, Phase, Content
  <1>2. ASSUME NEW c \in Call, OpenFormula(c) PROVE TypeOK'
    <2>1. revision' \in [Call -> Content] /\ key' \in [Call -> Key \cup {None}]
      BY <1>2 DEF OpenFormula, TypeOK, Content
    <2> QED BY <1>2, <2>1 DEF OpenFormula, TypeOK, GoTo, Phase
  <1>3. ASSUME NEW c \in Call, OpenRefused(c) PROVE TypeOK'
    BY <1>3, EndsTyped DEF OpenRefused, TypeOK, Answer
  <1>4. ASSUME NEW c \in Call, Step(c) PROVE TypeOK'
    BY <1>4, StepTyped
  <1>5. CASE ForeignCreate
    BY <1>5 DEF ForeignCreate, TypeOK, Content
  <1>6. CASE UNCHANGED vars
    BY <1>6 DEF vars, TypeOK
  <1> QED BY <1>1, <1>2, <1>3, <1>4, <1>5, <1>6 DEF Next

\* TypeOK holds in every reachable state, for any calls and keys.
THEOREM TypeCorrect == Spec => []TypeOK
  <1>1. Init => TypeOK
    BY DEF Init, TypeOK, NoFile, Content, Phase, Ledger, LedgerKey, Entry
  <1>2. TypeOK /\ [Next]_vars => TypeOK'
    BY NextTyped
  <1> QED BY <1>1, <1>2, PTL DEF Spec

-----------------------------------------------------------------------------
(* The lock.                                                               *)

Holding == {"locked", "read", "built", "staged", "ready", "published"}
Unpublished == {"read", "built", "staged", "ready"}

\* What c may rely on while it is under way: unless it is a recalculation it
\* holds the lock; until one is published, what it read is still the file, and
\* the revision it names is the one it read.
CallInv(c) ==
  /\ c \notin Recalcs /\ at[c] \in Holding => lock = c
  /\ c \notin Creates /\ at[c] \notin {"idle", "done"} => file # NoFile
  /\ c \notin Creates \cup Recalcs /\ at[c] \in Unpublished /\ ~ Recalculated => base[c] = file
  /\ c \in Creates => revision[c] = NoFile
  /\ c \in FormulaCall /\ at[c] \in {"built", "staged", "ready"} => ~ Stale(c)
  /\ c \in Commits /\ at[c] = "ready" /\ ~ Recalculated => revision[c] = file

LockInv == TypeOK /\ \A c \in Call : CallInv(c)

\* A step that changes neither the file nor what other calls hold, and that
\* keeps c's own part, keeps the invariant.
LEMMA OthersKeep ==
  ASSUME LockInv, TypeOK', NEW c \in Call, CallInv(c)',
         file' = file, published' = published,
         lock' = lock \/ lock = None \/ (lock = c /\ lock' = None),
         \A d \in Call \ {c} : at'[d] = at[d] /\ base'[d] = base[d] /\ revision'[d] = revision[d]
  PROVE  LockInv'
  <1>1. SUFFICES ASSUME NEW d \in Call, d # c PROVE CallInv(d)'
    BY DEF LockInv
  <1>2. at'[d] = at[d] /\ base'[d] = base[d] /\ revision'[d] = revision[d]
    BY <1>1
  <1>3. CallInv(d) BY DEF LockInv
  <1>4. d \notin Recalcs /\ at[d] \in Holding => lock' = d
    BY <1>1, <1>3 DEF CallInv
  <1> QED BY <1>2, <1>3, <1>4 DEF CallInv, Stale, Recalculated

\* A call that ends keeps the invariant.
LEMMA EndsKeeps ==
  ASSUME LockInv, TypeOK', NEW c \in Call, NEW a, Ends(c, a), file' = file,
         revision' = revision, base' = base, published' = published
  PROVE  LockInv'
  <1>1. at'[c] = "done" /\ \A d \in Call \ {c} : at'[d] = at[d]
    BY DEF Ends, GoTo, LockInv, TypeOK
  <1>2. CallInv(c)'
    BY <1>1 DEF LockInv, CallInv, Holding, Unpublished
  <1>3. lock' = lock \/ lock = None \/ (lock = c /\ lock' = None)
    BY DEF Ends
  <1> QED BY <1>1, <1>2, <1>3, OthersKeep

\* Until a recalculation is published, a call that publishes replaces what the
\* file holds by that and its own edit.
LEMMA PublishAdds ==
  ASSUME LockInv, NEW c \in Call, Replace(c) \/ Link(c), ~ Recalculated'
  PROVE  /\ file' = file \cup {c}
         /\ revision[c] # NoFile => revision[c] = file
  <1>1. CallInv(c) BY DEF LockInv
  <1>4. c \notin Recalcs /\ ~ Recalculated
    BY DEF Replace, Link, Recalculated, LockInv, TypeOK
  <1>2. CASE Replace(c)
    BY <1>1, <1>4, <1>2 DEF Replace, CallInv, Unpublished, Stale, Call, FormulaCall
  <1>3. CASE Link(c)
    BY <1>1, <1>3 DEF Link, CallInv, NoFile
  <1> QED BY <1>2, <1>3

\* Publishing keeps the invariant: of the calls that need the lock only the
\* publisher holds it, and a recalculation leaves the others nothing to rely on.
LEMMA PublishKeeps ==
  ASSUME LockInv, TypeOK', NEW c \in Call, Replace(c) \/ Link(c)
  PROVE  LockInv'
  <1>1. /\ at[c] = "ready" /\ at' = [at EXCEPT ![c] = "published"]
        /\ lock' = lock /\ base' = base /\ revision' = revision
        /\ published' = published \cup {c}
    BY DEF Replace, Link, GoTo
  <1>2. c \in Recalcs \/ lock = c
    BY <1>1 DEF LockInv, CallInv, Holding
  <1>3. file' # NoFile
    BY DEF NoFile, Replace, Link
  <1>4. SUFFICES ASSUME NEW d \in Call PROVE CallInv(d)'
    BY DEF LockInv
  <1>5. CallInv(d) /\ CallInv(c) BY DEF LockInv
  <1>6. CASE d = c
    BY <1>1, <1>2, <1>3, <1>5, <1>6 DEF CallInv, Holding, Unpublished, LockInv, TypeOK
  <1>7. CASE d # c /\ c \notin Recalcs
    <2>1. at'[d] = at[d] /\ (d \in Recalcs \/ at[d] \notin Holding)
      BY <1>1, <1>2, <1>5, <1>7 DEF CallInv, LockInv, TypeOK
    <2> QED BY <1>1, <1>3, <1>5, <2>1 DEF CallInv, Holding, Unpublished, Stale, Recalculated, FormulaCall
  <1>8. CASE d # c /\ c \in Recalcs
    <2>1. at'[d] = at[d] /\ Recalculated'
      BY <1>1, <1>8 DEF LockInv, TypeOK, Recalculated
    <2> QED BY <1>1, <1>3, <1>5, <2>1 DEF CallInv, Stale
  <1> QED BY <1>6, <1>7, <1>8

\* Every step of a call keeps the invariant.
LEMMA StepKeeps ==
  ASSUME LockInv, NEW c \in Call, Step(c)
  PROVE  LockInv'
  <1>1. TypeOK' BY StepTyped DEF LockInv
  <1> DEFINE Own ==
        /\ file' = file /\ published' = published
        /\ lock' = lock \/ lock = None
        /\ \A d \in Call \ {c} : at'[d] = at[d] /\ base'[d] = base[d] /\ revision'[d] = revision[d]
  <1>2. Own /\ CallInv(c)' => LockInv'
    BY <1>1, OthersKeep
  <1>3. CallInv(c) /\ TypeOK BY DEF LockInv
  <1>4. ASSUME NEW a, Ends(c, a), UNCHANGED <<file, revision, base, published>> PROVE LockInv'
    BY <1>1, <1>4, EndsKeeps
  <1> USE DEF NoFile
  <1>5. CASE Lock(c)
    <2>1. Own BY <1>3, <1>5 DEF Lock, GoTo, TypeOK
    <2>2. CallInv(c)'
      BY <1>3, <1>5 DEF Lock, GoTo, TypeOK, CallInv, Holding, Unpublished
    <2> QED BY <1>2, <2>1, <2>2
  <1>6. CASE Build(c)
    <2>1. CASE PreflightStale(c)
      BY <1>4, <1>6, <2>1 DEF Build
    <2>2. CASE ~ PreflightStale(c)
      <3>1. Own BY <1>3, <1>6, <2>2 DEF Build, GoTo, TypeOK
      <3>2. CallInv(c)'
        BY <1>3, <1>6, <2>2 DEF Build, GoTo, TypeOK, CallInv, Holding, Unpublished, Call, FormulaCall
      <3> QED BY <1>2, <3>1, <3>2
    <2> QED BY <2>1, <2>2
  <1>7. CASE ReadFile(c)
    <2>1. Own BY <1>3, <1>7 DEF ReadFile, GoTo, TypeOK
    <2>2. CallInv(c)'
      BY <1>3, <1>7 DEF ReadFile, MayRead, GoTo, TypeOK, CallInv, Holding, Unpublished
    <2> QED BY <1>2, <2>1, <2>2
  <1>8. CASE Begin(c)
    <2>1. Own BY <1>3, <1>8 DEF Begin, GoTo, TypeOK
    <2>2. CallInv(c)'
      BY <1>3, <1>8 DEF Begin, GoTo, TypeOK, CallInv, Stale, Holding, Unpublished, Recalculated
    <2> QED BY <1>2, <2>1, <2>2
  <1>9. CASE Stage(c)
    <2>1. Own BY <1>3, <1>9 DEF Stage, GoTo, TypeOK
    <2>2. CallInv(c)'
      BY <1>3, <1>9 DEF Stage, GoTo, TypeOK, CallInv, Stale, Holding, Unpublished, Recalculated
    <2> QED BY <1>2, <2>1, <2>2
  <1>10. CASE Compare(c)
    <2>1. Own BY <1>3, <1>10 DEF Compare, GoTo, TypeOK
    <2>2. CallInv(c)'
      BY <1>3, <1>10 DEF Compare, GoTo, TypeOK, CallInv, Stale, Holding, Unpublished, FormulaCall, Recalculated
    <2> QED BY <1>2, <2>1, <2>2
  <1>11. CASE Replace(c) \/ Link(c)
    BY <1>1, <1>11, PublishKeeps
  <1>12. CASE NothingToPublish(c)
    <2>1. Own BY <1>3, <1>12 DEF NothingToPublish, GoTo, TypeOK
    <2>2. CallInv(c)'
      BY <1>3, <1>12 DEF NothingToPublish, GoTo, TypeOK, CallInv, Holding, Unpublished, Call, FormulaCall
    <2> QED BY <1>2, <2>1, <2>2
  <1>13. CASE Readback(c)
    BY <1>4, <1>13 DEF Readback
  <1>14. CASE ReadbackFails(c)
    BY <1>4, <1>14 DEF ReadbackFails
  <1>15. CASE Answered(c)
    <2>1. \E a : Ends(c, a) BY <1>15 DEF Answered
    <2> QED BY <1>4, <1>15, <2>1 DEF Answered
  <1>16. CASE RefusedBeforeLock(c) \/ ReadFails(c) \/ StaleRevision(c)
    BY <1>4, <1>16 DEF RefusedBeforeLock, ReadFails, StaleRevision
  <1>17. CASE StageFails(c) \/ CompareStale(c) \/ LinkRefused(c) \/ PublishFails(c)
              \/ SessionReturns(c) \/ CleanupFails(c)
    BY <1>4, <1>17 DEF StageFails, CompareStale, LinkRefused, PublishFails, SessionReturns,
       CleanupFails, EndsClean
  <1> QED
    BY <1>5, <1>6, <1>7, <1>8, <1>9, <1>10, <1>11, <1>12, <1>13, <1>14, <1>15, <1>16, <1>17
    DEF Step, Advance

\* Every step keeps the invariant.
LEMMA NextKeeps ==
  ASSUME LockInv, [Next]_vars
  PROVE  LockInv'
  <1>1. TypeOK' BY NextTyped DEF LockInv
  <1>2. ASSUME NEW c \in Call, Open(c) PROVE LockInv'
    <2>1. CallInv(c)'
      BY <1>2 DEF Open, GoTo, LockInv, TypeOK, CallInv, Holding, Unpublished, NoFile
    <2> QED BY <1>1, <1>2, <2>1, OthersKeep DEF Open, GoTo, LockInv, TypeOK
  <1>3. ASSUME NEW c \in Call, OpenFormula(c) PROVE LockInv'
    <2>1. CallInv(c)'
      BY <1>3 DEF OpenFormula, GoTo, LockInv, TypeOK, CallInv, Holding, Unpublished, FormulaCall
    <2>2. \A d \in Call \ {c} : at'[d] = at[d] /\ base'[d] = base[d] /\ revision'[d] = revision[d]
      BY <1>3 DEF OpenFormula, GoTo, LockInv, TypeOK
    <2> QED BY <1>1, <1>3, <2>1, <2>2, OthersKeep DEF OpenFormula
  <1>4. ASSUME NEW c \in Call, OpenRefused(c) PROVE LockInv'
    BY <1>1, <1>4, EndsKeeps DEF OpenRefused
  <1>5. ASSUME NEW c \in Call, Step(c) PROVE LockInv'
    BY <1>5, StepKeeps
  <1>6. CASE ForeignCreate
    <2>1. SUFFICES ASSUME NEW d \in Call PROVE CallInv(d)'
      BY <1>1 DEF LockInv
    <2>2. CallInv(d) BY DEF LockInv
    <2> QED BY <1>6, <2>2 DEF ForeignCreate, CallInv, Stale, NoFile, Unpublished, FormulaCall
  <1>7. CASE UNCHANGED vars
    BY <1>7 DEF vars, LockInv, TypeOK, CallInv, Stale, Recalculated
  <1> QED BY <1>2, <1>3, <1>4, <1>5, <1>6, <1>7 DEF Next

\* The invariant holds in every reachable state.
LEMMA LockInvariant == Spec => []LockInv
  <1>1. Init => LockInv
    <2>1. Init => TypeOK
      BY DEF Init, TypeOK, NoFile, Content, Phase, Ledger, LedgerKey, Entry
    <2> QED BY <2>1 DEF Init, LockInv, CallInv, Holding, Unpublished, NoFile
  <1>2. LockInv /\ [Next]_vars => LockInv'
    BY NextKeeps
  <1> QED BY <1>1, <1>2, PTL DEF Spec

\* The file changes only when it is created elsewhere or a call publishes.
LEMMA FileChanges ==
  ASSUME Next, file' # file
  PROVE  ForeignCreate \/ \E c \in Call : Replace(c) \/ Link(c)
  BY DEF Next, Step, Advance, vars, ForeignCreate, Open, OpenFormula, OpenRefused, Lock,
         RefusedBeforeLock, Build, ReadFile, ReadFails, Begin, Answered, StaleRevision,
         Stage, StageFails, Compare, CompareStale, LinkRefused, PublishFails,
         NothingToPublish, SessionReturns, CleanupFails, Readback, ReadbackFails

\* Until a recalculation is published no save loses an edit that the file held,
\* whatever the calls, their failures and their order.
THEOREM NoEditLost == Spec => NoEditIsLost
  <1>1. LockInv /\ [Next]_vars => [~ Recalculated' => file \subseteq file']_vars
    <2>1. SUFFICES ASSUME LockInv, Next, ~ Recalculated', file' # file
                   PROVE  file \subseteq file'
      OBVIOUS
    <2>2. CASE ForeignCreate
      BY <2>2 DEF ForeignCreate, NoFile
    <2>3. CASE \E c \in Call : Replace(c) \/ Link(c)
      BY <2>1, <2>3, PublishAdds
    <2> QED BY <2>1, <2>2, <2>3, FileChanges
  <1> QED BY <1>1, LockInvariant, PTL DEF Spec, NoEditIsLost

\* Until a recalculation is published a call that names a revision publishes only
\* over it.
THEOREM RevisionEnforced == Spec => RevisionIsEnforced
  <1> DEFINE Enforced ==
        ~ Recalculated' => \A c \in Call :
          c \in published' \ published /\ revision[c] # NoFile => file = revision[c]
  <1>1. LockInv /\ [Next]_vars => [Enforced]_vars
    <2>1. SUFFICES ASSUME LockInv, Next, NEW c \in Call, c \in published' \ published,
                          revision[c] # NoFile, ~ Recalculated'
                   PROVE  file = revision[c]
      OBVIOUS
    <2>2. Replace(c) \/ Link(c)
      BY <2>1 DEF Next, Step, Advance, vars, ForeignCreate, Open, OpenFormula, OpenRefused,
         Lock, RefusedBeforeLock, Build, ReadFile, ReadFails, Begin, Answered, StaleRevision,
         Stage, StageFails, Compare, CompareStale, LinkRefused, PublishFails,
         NothingToPublish, SessionReturns, CleanupFails, Readback, ReadbackFails, Replace, Link
    <2> QED BY <2>1, <2>2, PublishAdds
  <1> QED BY <1>1, LockInvariant, PTL DEF Spec, RevisionIsEnforced

\* No edit is lost and no bound revision passed over, recalculations aside.
THEOREM EditsKept == Spec => EditsStay
  BY NoEditLost, RevisionEnforced DEF EditsStay
-----------------------------------------------------------------------------
(* What becomes of a call: its answer, its staging file and its key.        *)

Kept == {"committed", "uncleaned", "unknown", "mismatch"}

\* A call answers when it is done; it is published from its publication on, and
\* then never answers that nothing was done; its staging file is there from the
\* staging to the publication, a new file's until the call returns, and longer
\* only if it could not be removed.
Outcome(c) ==
  /\ at[c] # "done" => answer[c] = None
  /\ at[c] \in {"idle", "opened", "locked"} => base[c] = NoFile
  /\ c \in published => at[c] \in {"published", "done"}
  /\ c \in published /\ at[c] = "done" => answer[c] \in Kept
  /\ at[c] = "published" /\ c \notin Recalcs => c \in published
  /\ answer[c] \in {"committed", "uncleaned"} /\ c \notin Recalcs => c \in published
  /\ c \in temp \ rich =>
        \/ at[c] \in {"staged", "ready"}
        \/ at[c] = "published" /\ c \in Creates
        \/ at[c] = "done" /\ c \in stuck /\ answer[c] \in {"failed", "uncleaned"}

\* The calls that carry k and have published or still may.
Under(k) ==
  {c \in Call : /\ Keyed(c) /\ LedgerKeyOf(c) = k
                /\ c \in published \/ at[c] \in {"built", "staged", "ready", "published"}}

\* A set's key that succeeded was published under, and so was what a set replays.
ReplayInv ==
  /\ \A k \in LedgerKey : k[1] = "set" /\ ledger[k].state = "succeeded" =>
        \E q \in published : Keyed(q) /\ LedgerKeyOf(q) = k
  /\ \A c \in Sets : answer[c] = "replayed" =>
        \E q \in published : Keyed(q) /\ LedgerKeyOf(q) = LedgerKeyOf(c)

\* Unless a set failed before it looked into the ledger, one call at most is
\* under way or published under a key, and none while the key is free.
NoneFailedEarly == \A c \in Sets : ~ FailedEarly(c)
KeyInv ==
  NoneFailedEarly => \A k \in LedgerKey :
    /\ \A c, q \in Under(k) : c = q
    /\ ledger[k].state \in {"absent", "failed"} => Under(k) = {}

OutcomeInv == TypeOK /\ (\A c \in Call : Outcome(c)) /\ ReplayInv /\ KeyInv

\* A step of a call leaves what is recorded of the other calls alone.
LEMMA OthersUntouched ==
  ASSUME TypeOK, NEW c \in Call, Step(c)
  PROVE  /\ rich' = rich /\ key' = key /\ revision' = revision
         /\ \A d \in Call \ {c} :
              /\ at'[d] = at[d] /\ answer'[d] = answer[d] /\ base'[d] = base[d]
              /\ d \in published' <=> d \in published
              /\ d \in temp' <=> d \in temp
              /\ d \in stuck' <=> d \in stuck
  <1> USE DEF TypeOK, GoTo, Ends, EndsClean
  <1>1. CASE Lock(c) \/ RefusedBeforeLock(c) \/ Build(c) \/ ReadFile(c) \/ ReadFails(c) \/ Begin(c)
    BY <1>1 DEF Lock, RefusedBeforeLock, Build, ReadFile, ReadFails, Begin
  <1>2. CASE Answered(c)
    <2>1. \E a : Ends(c, a) BY <1>2 DEF Answered
    <2> QED BY <1>2, <2>1 DEF Answered
  <1>3. CASE StaleRevision(c) \/ Stage(c) \/ StageFails(c) \/ Compare(c) \/ CompareStale(c)
    BY <1>3 DEF StaleRevision, Stage, StageFails, Compare, CompareStale
  <1>4. CASE Replace(c) \/ Link(c) \/ LinkRefused(c) \/ PublishFails(c)
    BY <1>4 DEF Replace, Link, LinkRefused, PublishFails
  <1>5. CASE NothingToPublish(c) \/ SessionReturns(c) \/ CleanupFails(c)
             \/ Readback(c) \/ ReadbackFails(c)
    BY <1>5 DEF NothingToPublish, SessionReturns, CleanupFails, Readback, ReadbackFails
  <1> QED BY <1>1, <1>2, <1>3, <1>4, <1>5 DEF Step, Advance

\* A step of a call keeps its outcome in order.
LEMMA OwnOutcome ==
  ASSUME TypeOK, NEW c \in Call, Outcome(c), Step(c)
  PROVE  Outcome(c)'
  <1> USE DEF TypeOK, GoTo, Ends, EndsClean, Outcome, Kept
  <1>1. CASE Lock(c) \/ RefusedBeforeLock(c)
    BY <1>1 DEF Lock, RefusedBeforeLock
  <1>2. CASE Build(c) \/ ReadFile(c)
    BY <1>2 DEF Build, ReadFile, MayRead
  <1>3. CASE ReadFails(c) \/ Begin(c)
    BY <1>3 DEF ReadFails, Begin
  <1>4. CASE Answered(c)
    <2>1. \E a \in {"rejected", "replayed", "unknown"} : Ends(c, a) BY <1>4 DEF Answered
    <2> QED BY <1>4, <2>1 DEF Answered
  <1>5. CASE StaleRevision(c) \/ Stage(c)
    BY <1>5 DEF StaleRevision, Stage
  <1>10. CASE StageFails(c)
    BY <1>10 DEF StageFails
  <1>6. CASE Compare(c) \/ CompareStale(c) \/ LinkRefused(c) \/ PublishFails(c)
    BY <1>6 DEF Compare, CompareStale, LinkRefused, PublishFails
  <1>7. CASE Replace(c) \/ Link(c)
    BY <1>7 DEF Replace, Link
  <1>8. CASE NothingToPublish(c) \/ SessionReturns(c) \/ CleanupFails(c)
    BY <1>8, FileAssumption DEF NothingToPublish, SessionReturns, CleanupFails, Call, FormulaCall
  <1>9. CASE Readback(c) \/ ReadbackFails(c)
    BY <1>9 DEF Readback, ReadbackFails
  <1> QED BY <1>1, <1>2, <1>3, <1>4, <1>5, <1>6, <1>7, <1>8, <1>9, <1>10 DEF Step, Advance

\* What a step writes into the ledger it writes under the call's own key.
LEMMA EntryWritten ==
  ASSUME TypeOK, NEW c \in Call, NEW state, SetEntry(c, state), NEW k \in LedgerKey
  PROVE  /\ k # LedgerKeyOf(c) => ledger'[k] = ledger[k]
         /\ k = LedgerKeyOf(c) => ledger'[k].state = state
  BY DEF SetEntry, TypeOK, Ledger

\* The same of recording an outcome.
LEMMA EntryRecorded ==
  ASSUME TypeOK, NEW c \in Call, NEW state, Record(c, state), NEW k \in LedgerKey
  PROVE  \/ ledger'[k] = ledger[k]
         \/ Keyed(c) /\ k = LedgerKeyOf(c) /\ ledger'[k].state = state
                     /\ ledger[k].state # "absent"
  BY EntryWritten DEF Record, EntryOf

\* A set's entry comes to say succeeded only after the set was published, and a
\* set replays only what such an entry says.
LEMMA ReplayKept ==
  ASSUME OutcomeInv, NEW c \in Call, Step(c)
  PROVE  ReplayInv'
  <1> USE DEF OutcomeInv
  <1>1. key' = key /\ (\A d \in Call : LedgerKeyOf(d)' = LedgerKeyOf(d) /\ Keyed(d)' = Keyed(d))
    BY OthersUntouched DEF LedgerKeyOf, Keyed
  <1>2. published \subseteq published'
    BY DEF Step, Advance, Lock, RefusedBeforeLock, Build, ReadFile, ReadFails, Begin, Answered,
       StaleRevision, Stage, StageFails, Compare, CompareStale, Replace, Link, LinkRefused,
       PublishFails, NothingToPublish, SessionReturns, CleanupFails, Readback, ReadbackFails
  <1>p. published \subseteq Call /\ published' \subseteq Call
    BY StepTyped DEF TypeOK
  <1>3. ASSUME NEW k \in LedgerKey, k[1] = "set", ledger'[k].state = "succeeded"
        PROVE  \E q \in published' : Keyed(q)' /\ LedgerKeyOf(q)' = k
    <2>1. CASE ledger[k].state = "succeeded"
      BY <1>1, <1>2, <1>3, <1>p, <2>1 DEF ReplayInv
    <2>2. CASE ledger[k].state # "succeeded"
      <3>1. Readback(c) /\ Keyed(c) /\ k = LedgerKeyOf(c)
        <4>1. CASE ReadFails(c) \/ StageFails(c) \/ PublishFails(c)
          BY <1>3, <2>2, <4>1, EntryRecorded DEF ReadFails, StageFails, PublishFails
        <4>2. CASE Begin(c) \/ StaleRevision(c)
          BY <1>3, <2>2, <4>2, EntryWritten DEF Begin, StaleRevision
        <4>3. CASE Readback(c) \/ ReadbackFails(c)
          BY <1>3, <2>2, <4>3, EntryRecorded DEF Readback, ReadbackFails
        <4>4. CASE UNCHANGED ledger
          BY <1>3, <2>2, <4>4
        <4> QED
          BY <4>1, <4>2, <4>3, <4>4 DEF Step, Advance, Lock, RefusedBeforeLock, Build, ReadFile,
             Answered, Stage, Compare, CompareStale, Replace, Link, LinkRefused,
             NothingToPublish, SessionReturns, CleanupFails
      <3>2. c \in Sets
        BY <3>1, <1>3 DEF LedgerKeyOf
      <3>3. c \in published
        BY <3>1, <3>2 DEF Readback, Outcome
      <3> QED BY <3>1, <3>3, <1>1, <1>2
    <2> QED BY <2>1, <2>2
  <1>4. ASSUME NEW d \in Sets, answer'[d] = "replayed"
        PROVE  \E q \in published' : Keyed(q)' /\ LedgerKeyOf(q)' = LedgerKeyOf(d)'
    <2>0. d \in Call BY DEF Call
    <2>1. CASE answer[d] = "replayed"
      BY <1>1, <1>2, <1>p, <2>0, <2>1 DEF ReplayInv
    <2>2. CASE answer[d] # "replayed"
      <3>1. d = c /\ Answered(c)
        <4>1. d = c BY <1>4, <2>0, <2>2, OthersUntouched
        <4>2. ASSUME NEW a, Ends(c, a), a # "replayed" PROVE FALSE
          BY <1>4, <4>1, <4>2 DEF Ends, TypeOK
        <4>3. UNCHANGED answer => FALSE BY <1>4, <2>2
        <4> QED BY <4>1, <4>2, <4>3 DEF Step, Advance, Lock, RefusedBeforeLock, Build, ReadFile,
             ReadFails, Begin, StaleRevision, Stage, StageFails, Compare, CompareStale, Replace,
             Link, LinkRefused, PublishFails, NothingToPublish, SessionReturns, CleanupFails, Readback,
             ReadbackFails, EndsClean
      <3>2. Keyed(c) /\ EntryOf(c).state = "succeeded"
        <4>1. ASSUME NEW a, Ends(c, a), a # "replayed" PROVE FALSE
          BY <1>4, <3>1, <4>1 DEF Ends, TypeOK
        <4> QED BY <3>1, <4>1 DEF Answered
      <3>3. LedgerKeyOf(c) \in LedgerKey /\ LedgerKeyOf(c)[1] = "set"
        BY <3>1, <3>2 DEF LedgerKeyOf, LedgerKey, Keyed, TypeOK
      <3>4. \E q \in published : Keyed(q) /\ LedgerKeyOf(q) = LedgerKeyOf(c)
        BY <3>2, <3>3 DEF ReplayInv, EntryOf
      <3> QED BY <3>1, <3>4, <1>1, <1>2, <1>p
    <2> QED BY <2>1, <2>2
  <1> QED BY <1>3, <1>4 DEF ReplayInv

\* A failure before the ledger is looked into stays one.
LEMMA FailedEarlyStays ==
  ASSUME TypeOK, \A d \in Call : Outcome(d), NEW c \in Call, Step(c),
         NEW d \in Sets, FailedEarly(d)
  PROVE  FailedEarly(d)'
  <1>0. d \in Call BY DEF Call
  <1>1. CASE d # c
    BY <1>0, <1>1, OthersUntouched DEF FailedEarly
  <1>2. CASE d = c
    <2>1. at[c] = "done" BY <1>0, <1>2, FileAssumption DEF FailedEarly, Outcome, Answer
    <2> QED BY <2>1 DEF Step, Advance, Lock, RefusedBeforeLock, Build, ReadFile, MayRead, ReadFails,
         Begin, Answered, StaleRevision, Stage, StageFails, Compare, CompareStale, Replace, Link,
         LinkRefused, PublishFails, NothingToPublish, SessionReturns, CleanupFails, Readback, ReadbackFails
  <1> QED BY <1>1, <1>2

\* No step brings a second call under a key, or frees a key that a call is under,
\* unless it is a set's failure before it looked into the ledger.
LEMMA KeyKept ==
  ASSUME OutcomeInv, NEW c \in Call, Step(c)
  PROVE  KeyInv'
  <1> USE DEF OutcomeInv
  <1>1. SUFFICES ASSUME NoneFailedEarly', NEW k \in LedgerKey
                 PROVE  /\ \A d, q \in Under(k)' : d = q
                        /\ ledger'[k].state \in {"absent", "failed"} => Under(k)' = {}
    BY DEF KeyInv
  <1>2. /\ \A d, q \in Under(k) : d = q
        /\ ledger[k].state \in {"absent", "failed"} => Under(k) = {}
    BY <1>1, FailedEarlyStays DEF KeyInv, NoneFailedEarly
  <1>3. \A d \in Call : LedgerKeyOf(d)' = LedgerKeyOf(d) /\ Keyed(d)' = Keyed(d)
    BY OthersUntouched DEF LedgerKeyOf, Keyed
  <1>4. \A d \in Call \ {c} : d \in Under(k)' <=> d \in Under(k)
    BY <1>3, OthersUntouched DEF Under
  <1>5. CASE Begin(c) /\ Keyed(c) /\ k = LedgerKeyOf(c)
    <2>1. Under(k) = {}
      BY <1>2, <1>5 DEF Begin, MayBegin, EntryOf
    <2>2. ledger'[k].state = "in_flight"
      BY <1>5, EntryWritten DEF Begin
    <2>3. Under(k)' \subseteq {c}
      BY <1>4, <2>1 DEF Under
    <2> QED BY <2>2, <2>3
  <1>6. ASSUME ~ (Begin(c) /\ Keyed(c) /\ k = LedgerKeyOf(c))
        PROVE  Under(k)' \subseteq Under(k)
    <2>1. SUFFICES ASSUME c \in Under(k)' PROVE c \in Under(k)
      BY <1>4 DEF Under
    <2>2. /\ Keyed(c) /\ LedgerKeyOf(c) = k
          /\ c \in published' \/ at'[c] \in {"built", "staged", "ready", "published"}
      BY <2>1, <1>3 DEF Under
    <2>3. c \in published \/ at[c] \in {"built", "staged", "ready", "published"}
      <3>1. CASE Lock(c) \/ RefusedBeforeLock(c) \/ ReadFile(c) \/ ReadFails(c)
        BY <2>2, <3>1 DEF Lock, RefusedBeforeLock, ReadFile, ReadFails, Ends, GoTo, TypeOK
      <3>2. CASE Build(c)
        BY <2>2, <3>2 DEF Build, Keyed, FileAssumption
      <3>3. CASE Begin(c)
        BY <1>6, <2>2, <3>3
      <3>4. CASE Answered(c)
        <4>1. \E a : Ends(c, a) BY <3>4 DEF Answered
        <4> QED BY <2>2, <3>4, <4>1 DEF Answered, Ends, GoTo, TypeOK
      <3>5. CASE StaleRevision(c)
        BY <2>2, <3>5 DEF StaleRevision, Ends, GoTo, TypeOK
      <3>6. CASE Stage(c) \/ StageFails(c) \/ Compare(c) \/ CompareStale(c) \/ Replace(c) \/ Link(c)
                  \/ LinkRefused(c) \/ PublishFails(c) \/ NothingToPublish(c) \/ SessionReturns(c)
                  \/ CleanupFails(c) \/ Readback(c) \/ ReadbackFails(c)
        BY <3>6 DEF Stage, StageFails, Compare, CompareStale, Replace, Link, LinkRefused,
           PublishFails, NothingToPublish, SessionReturns, CleanupFails, Readback, ReadbackFails
      <3> QED BY <3>1, <3>2, <3>3, <3>4, <3>5, <3>6 DEF Step, Advance
    <2> QED BY <2>2, <2>3 DEF Under
  <1>7. ASSUME ~ (Begin(c) /\ Keyed(c) /\ k = LedgerKeyOf(c)),
               ledger'[k].state \in {"absent", "failed"}, ledger'[k] # ledger[k]
        PROVE  Under(k)' = {}
    <2>1. CASE ReadFails(c)
      <3>1. c \in Sets
        BY <1>7, <2>1 DEF ReadFails
      <3>2. FailedEarly(c)'
        BY <3>1, <2>1 DEF ReadFails, Ends, GoTo, FailedEarly, Outcome, TypeOK, NoFile
      <3> QED BY <1>1, <3>1, <3>2 DEF NoneFailedEarly
    <2>2. CASE StageFails(c) \/ PublishFails(c)
      <3>1. Keyed(c) /\ k = LedgerKeyOf(c)
        BY <1>7, <2>2, EntryRecorded DEF StageFails, PublishFails
      <3>2. c \in Under(k)
        BY <2>2, <3>1 DEF StageFails, PublishFails, Under
      <3>3. c \notin Under(k)'
        BY <2>2 DEF StageFails, PublishFails, EndsClean, Ends, GoTo, Under, Outcome, TypeOK
      <3> QED BY <1>2, <1>6, <1>7, <3>2, <3>3
    <2>3. CASE StaleRevision(c)
      <3>1. k = LedgerKeyOf(c) /\ MayBegin(c)
        BY <1>7, <2>3, EntryWritten DEF StaleRevision
      <3> QED BY <1>2, <1>6, <1>7, <3>1 DEF MayBegin, EntryOf
    <2>4. CASE Begin(c)
      BY <1>7, <2>4, EntryWritten DEF Begin
    <2>5. CASE Readback(c)
      BY <1>7, <2>5, EntryRecorded DEF Readback
    <2>6. CASE ReadbackFails(c)
      <3>1. c \notin published /\ Record(c, "failed") /\ Ends(c, "failed")
        BY <1>7, <2>6, EntryRecorded DEF ReadbackFails
      <3>2. Keyed(c) /\ k = LedgerKeyOf(c)
        BY <1>7, <3>1, EntryRecorded
      <3>3. c \in Under(k)
        BY <2>6, <3>2 DEF ReadbackFails, Under
      <3>4. c \notin Under(k)'
        BY <2>6, <3>1 DEF ReadbackFails, Ends, GoTo, Under, TypeOK
      <3> QED BY <1>2, <1>6, <1>7, <3>3, <3>4
    <2>7. CASE UNCHANGED ledger
      BY <1>7, <2>7
    <2> QED
      BY <2>1, <2>2, <2>3, <2>4, <2>5, <2>6, <2>7 DEF Step, Advance, Lock, RefusedBeforeLock,
         Build, ReadFile, Answered, Stage, Compare, CompareStale, Replace, Link, LinkRefused,
         NothingToPublish, SessionReturns, CleanupFails
  <1> QED BY <1>2, <1>5, <1>6, <1>7

\* A call that is made keeps them: it carries its key without being under it.
LEMMA CallKeepsOutcome ==
  ASSUME OutcomeInv, NEW c \in Call, Open(c) \/ OpenFormula(c) \/ OpenRefused(c)
  PROVE  OutcomeInv'
  <1> USE DEF OutcomeInv
  <1>1. TypeOK' BY NextTyped DEF Next
  <1>2. /\ at[c] = "idle" /\ c \notin published /\ answer[c] = None
        /\ c \notin temp \ rich /\ base[c] = NoFile
    BY DEF Open, OpenFormula, OpenRefused, MayCall, Outcome
  <1>3. /\ file' = file /\ temp' = temp /\ published' = published /\ base' = base /\ stuck' = stuck
        /\ ledger' = ledger /\ rich \subseteq rich'
        /\ at'[c] \in {"opened", "done"} /\ answer'[c] \in {None, "rejected"}
        /\ at'[c] = "opened" => answer'[c] = None
        /\ \A d \in Call \ {c} : /\ at'[d] = at[d] /\ answer'[d] = answer[d] /\ key'[d] = key[d]
                                 /\ d \in rich' <=> d \in rich
    <2>1. CASE Open(c) BY <2>1, <1>2 DEF Open, GoTo, TypeOK
    <2>2. CASE OpenFormula(c) BY <2>2, <1>2 DEF OpenFormula, GoTo, TypeOK
    <2>3. CASE OpenRefused(c) BY <2>3 DEF OpenRefused, Ends, GoTo, TypeOK
    <2> QED BY <2>1, <2>2, <2>3
  <1>4. \A d \in Call : Outcome(d)'
    BY <1>2, <1>3, FileAssumption DEF Outcome, Kept, NoFile, Answer
  <1>5. \A d \in Call \ {c} : LedgerKeyOf(d)' = LedgerKeyOf(d) /\ Keyed(d)' = Keyed(d)
    BY <1>3 DEF LedgerKeyOf, Keyed
  <1>6. ReplayInv'
    <2>1. published \subseteq Call \ {c} BY <1>2 DEF TypeOK
    <2>2. \A d \in Sets : answer'[d] = "replayed" => d \in Call \ {c} /\ answer[d] = "replayed"
      BY <1>2, <1>3, FileAssumption DEF Call, Answer
    <2> QED BY <1>3, <1>5, <2>1, <2>2 DEF ReplayInv
  <1>7. KeyInv'
    <2>1. \A k \in LedgerKey : Under(k)' \subseteq Under(k)
      BY <1>2, <1>3, <1>5 DEF Under
    <2>2. NoneFailedEarly' => NoneFailedEarly
      BY <1>2, <1>3, FileAssumption DEF NoneFailedEarly, FailedEarly, Call, Answer
    <2> QED BY <1>3, <2>1, <2>2 DEF KeyInv
  <1> QED BY <1>1, <1>4, <1>6, <1>7

\* Every step keeps them.
LEMMA NextKeepsOutcome ==
  ASSUME OutcomeInv, [Next]_vars
  PROVE  OutcomeInv'
  <1>1. TypeOK' BY NextTyped DEF OutcomeInv
  <1>2. ASSUME NEW c \in Call, Open(c) \/ OpenFormula(c) \/ OpenRefused(c) PROVE OutcomeInv'
    BY <1>2, CallKeepsOutcome
  <1>3. ASSUME NEW c \in Call, Step(c) PROVE OutcomeInv'
    <2>1. \A d \in Call : Outcome(d)'
      <3>1. SUFFICES ASSUME NEW d \in Call, d # c PROVE Outcome(d)'
        BY <1>3, OwnOutcome DEF OutcomeInv
      <3> QED BY <1>3, <3>1, OthersUntouched DEF OutcomeInv, Outcome
    <2> QED BY <1>1, <1>3, <2>1, ReplayKept, KeyKept DEF OutcomeInv
  <1>4. CASE ForeignCreate \/ UNCHANGED vars
    <2>1. UNCHANGED <<temp, at, base, rich, key, ledger, answer, published, stuck>>
      BY <1>4 DEF ForeignCreate, vars
    <2>2. \A d \in Call : Outcome(d)' /\ LedgerKeyOf(d)' = LedgerKeyOf(d) /\ Keyed(d)' = Keyed(d)
      BY <2>1 DEF OutcomeInv, Outcome, LedgerKeyOf, Keyed
    <2>3. ReplayInv' BY <2>1, <2>2 DEF OutcomeInv, ReplayInv, TypeOK, Call
    <2>4. \A k : Under(k)' = Under(k) BY <2>1, <2>2 DEF Under
    <2>5. KeyInv' BY <2>1, <2>4 DEF OutcomeInv, KeyInv, NoneFailedEarly, FailedEarly
    <2> QED BY <1>1, <2>2, <2>3, <2>5 DEF OutcomeInv
  <1> QED BY <1>2, <1>3, <1>4 DEF Next

\* They hold in every reachable state.
LEMMA OutcomeInvariant == Spec => []OutcomeInv
  <1>1. Init => OutcomeInv
    <2>1. Init => TypeOK
      BY DEF Init, TypeOK, NoFile, Content, Phase, Ledger, LedgerKey, Entry
    <2>2. Init => \A c \in Call : Outcome(c)
      BY FileAssumption DEF Init, Outcome, Answer
    <2>3. Init => ReplayInv
      BY FileAssumption DEF Init, ReplayInv, LedgerKey, Call, Answer
    <2>4. Init => KeyInv
      BY DEF Init, KeyInv, Under
    <2> QED BY <2>1, <2>2, <2>3, <2>4 DEF OutcomeInv
  <1>2. OutcomeInv /\ [Next]_vars => OutcomeInv'
    BY NextKeepsOutcome
  <1> QED BY <1>1, <1>2, PTL DEF Spec

\* A call that has answered leaves a temporary file only if its own removal of it
\* failed, and then its answer is an error, whatever else failed on the way; the
\* rich profile aside (spreadsheet_workbook.py commit, excel_formula.py
\* _unlink_staged).
THEOREM StagingGone == Spec => []NoStagingLeft
  <1>1. OutcomeInv => NoStagingLeft
    BY DEF OutcomeInv, TypeOK, Outcome, NoStagingLeft
  <1> QED BY <1>1, OutcomeInvariant, PTL

\* What a call answers is what became of the file, and one key publishes once
\* however many calls carry it, unless a set failed before it read the ledger.
THEOREM AnswersHold == Spec => []AnsweredOnce
  <1>1. OutcomeInv => AnswersAreTrue
    <2>1. SUFFICES ASSUME OutcomeInv, NEW c \in Call
                   PROVE  /\ answer[c] \in {"rejected", "failed"} => c \notin published
                          /\ answer[c] \in {"committed", "uncleaned"} /\ c \notin Recalcs =>
                               c \in published
                          /\ answer[c] = "replayed" /\ c \in Sets =>
                               \E q \in published : Keyed(q) /\ LedgerKeyOf(q) = LedgerKeyOf(c)
      BY DEF AnswersAreTrue
    <2>2. c \in published /\ answer[c] \in {"rejected", "failed"} => FALSE
      <3>1. at[c] # "done" => answer[c] \notin {"rejected", "failed"}
        BY <2>1, FileAssumption DEF OutcomeInv, Outcome, Answer
      <3> QED BY <2>1, <3>1 DEF OutcomeInv, Outcome, Kept
    <2> QED BY <2>1, <2>2 DEF OutcomeInv, Outcome, ReplayInv
  <1>2. OutcomeInv => NoRepeatUnlessFailedEarly
    <2>1. SUFFICES ASSUME OutcomeInv, NoneFailedEarly, NEW c \in published, NEW q \in published,
                          Keyed(c), Keyed(q), LedgerKeyOf(c) = LedgerKeyOf(q)
                   PROVE  c = q
      BY DEF NoRepeatUnlessFailedEarly, NoBlindRepeat, NoneFailedEarly
    <2>2. LedgerKeyOf(c) \in LedgerKey
      BY <2>1 DEF LedgerKeyOf, LedgerKey, Keyed, OutcomeInv, TypeOK
    <2>3. c \in Under(LedgerKeyOf(c)) /\ q \in Under(LedgerKeyOf(c))
      BY <2>1 DEF Under, OutcomeInv, TypeOK
    <2> QED BY <2>1, <2>2, <2>3 DEF OutcomeInv, KeyInv
  <1> QED BY <1>1, <1>2, OutcomeInvariant, PTL DEF AnsweredOnce
=============================================================================
