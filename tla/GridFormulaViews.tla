-------------------------- MODULE GridFormulaViews --------------------------
(***************************************************************************)
(* A formula view of one worksheet: binding it, reading formulas and        *)
(* values, and setting a copy-filled formula under an expected revision,    *)
(* while other users rename and delete sheets, add rows and edit cells.     *)
(*                                                                          *)
(* What a revision IS differs by provider and is what the module is about.  *)
(* Google Sheets hashes what each call returned: the titles at binding, the *)
(* formulas of the range in a read, the values in a values read; it finds   *)
(* the sheet by the title it cached and believes the answer only if title   *)
(* and id agree.  MaybeSheet answers with a revision of the document, which *)
(* it enforces itself, or without one ("maybe_plain").  Excel hashes the    *)
(* bytes of the file, and a worksheet is known by its name alone.           *)
(*                                                                          *)
(* Requests are answered here; lost answers, keys and the ledger are in     *)
(* FormulaSet, and the publication of the Excel file in WorkbookFile.       *)
(***************************************************************************)
EXTENDS Integers, FiniteSets, Sequences

CONSTANTS Providers,   \* the extensions checked
          None,
          MaxEdits,    \* bound: changes made by other users
          MaxCalls     \* bound: calls made by the client

VARIABLES provider,
          doc,      \* the spreadsheet: titles (None: deleted), rows, cells
          cache,    \* GoogleSheetsFormulaExtension._bindings
          view,     \* the GridFormulaView and what it remembers
          kept,     \* the last formula observation the client was given
          call,     \* the call in progress
          answer,   \* the last answer, with what was true when it was made
          edits, calls

vars == <<provider, doc, cache, view, kept, call, answer, edits, calls>>

Sheets == 1..2
Rows   == 1..2
Titles == {"A", "B", "C"}
Ranges == {{1}, {1, 2}}

-----------------------------------------------------------------------------
(* Cells.  A formula is written with relative or absolute references; a     *)
(* relative one reads differently in each row it is filled into.            *)
Blank   == [kind |-> "blank", refs |-> "none", shift |-> 0]
Literal == [kind |-> "literal", refs |-> "none", shift |-> 0]
Formula(refs, shift) == [kind |-> "formula", refs |-> refs, shift |-> shift]
References == {"relative", "absolute"}
IsFormula(c) == c.kind = "formula"

First(range) == CHOOSE i \in range : \A j \in range : i <= j
Translate(refs, by) == Formula(refs, IF refs = "relative" THEN by ELSE 0)
ExpectedFormulas(refs, range) ==
  [i \in range |-> Translate(refs, i - First(range))]

(* What a call observes of one sheet: the formulas of the range, or the     *)
(* values of the cells the provider reports.                                *)
FormulasIn(cells, range) == [i \in {j \in range : IsFormula(cells[j])} |-> cells[i]]
Reported(cells, range) ==
  CASE provider = "google" -> {i \in range : cells[i] # Blank}
    [] provider = "excel"  -> range
    [] OTHER               -> {i \in range : IsFormula(cells[i])}
ValuesIn(d, s, range) ==
  [i \in Reported(d.cells[s], range) |->
     IF IsFormula(d.cells[s][i]) THEN <<d.cells[s][i], d.input>>
                                 ELSE <<d.cells[s][i], 0>>]

(* The revision carried by an answer. *)
Enforced == IF provider = "maybe_plain" THEN "unavailable" ELSE "checked"
Revision(d, content) ==
  IF provider \in {"maybe", "excel"} THEN <<"document", d.version>> ELSE content

FormulaRevision(d, s, range) ==
  Revision(d, <<"formulas", s, range, FormulasIn(d.cells[s], range)>>)
ValueRevision(d, s, range)   == Revision(d, <<"values", s, range, ValuesIn(d, s, range)>>)
BindingRevision(d)           == Revision(d, <<"titles", 0, {}, d.title>>)

-----------------------------------------------------------------------------
(* Finding the sheet.  By id at Google and MaybeSheet, by name in a file.   *)
Present(d) == {s \in Sheets : d.title[s] # None}
Titled(d, t) == {s \in Present(d) : d.title[s] = t}
Selected(d, id, name) ==
  {s \in Present(d) : id \in {None, s} /\ name \in {None, d.title[s]}}
Meant(d) == IF provider = "excel" THEN Titled(d, view.title)
                                  ELSE Present(d) \cap {view.sheet}

(* A variant: the answer is believed if the title is the one asked for.     *)
AnyIdWithTheTitle(d) ==
  IF provider = "google" THEN Titled(d, cache[view.sheet].title) ELSE Meant(d)
(* The sheet an answer is taken from: Google is asked for a title, and the  *)
(* sheet that comes must be the bound one under the cached title.           *)
AnsweringSheet(d) ==
  IF provider = "google" THEN Titled(d, cache[view.sheet].title) \cap {view.sheet}
                         ELSE Meant(d)
NotFound(d) ==
  IF provider = "google" /\ Titled(d, cache[view.sheet].title) # {}
    THEN "protocol_failure" ELSE IF provider = "excel" THEN "target_not_found"
    ELSE "execution_failed"

-----------------------------------------------------------------------------
NoCall   == [pc |-> "idle", op |-> "none", range |-> {}, refs |-> "none",
             expected |-> None, before |-> None, base |-> <<>>]
NoView   == [sheet |-> 0, title |-> None, named |-> FALSE, observed |-> None]
Unread   == [revision |-> None, range |-> {}, formulas |-> <<>>, version |-> 0]
NoAnswer == [op |-> "none", code |-> "none", local |-> FALSE, range |-> {},
             found |-> <<>>, truth |-> <<>>, base |-> <<>>, held |-> Unread, version |-> 0]

Say(op, code) == [NoAnswer EXCEPT !.op = op, !.code = code, !.range = call.range,
                                  !.version = doc.version, !.held = kept]
Bound == view.sheet # 0

(* bind_formulas: exactly one sheet must match the id, the name and the     *)
(* title of the address; the title and the rows are cached for every view.  *)
Bind(id, name, named) ==
  LET found == Selected(doc, id, name) IN
  /\ call.pc = "idle" /\ calls < MaxCalls
  /\ named => name # None /\ provider \in {"google", "excel"}
  /\ provider = "excel" => name # None /\ id = None
  /\ id # None \/ name # None
  /\ calls' = calls + 1
  /\ IF Cardinality(found) # 1
       THEN /\ answer' = Say("bind", "target_not_found")
            /\ UNCHANGED <<view, cache>>
       ELSE LET s == First(found) IN
            /\ view' = [sheet |-> s, title |-> doc.title[s], named |-> named,
                        observed |-> BindingRevision(doc)]
            /\ cache' = IF provider = "google"
                          THEN [cache EXCEPT ![s] = [title |-> doc.title[s],
                                                     rows  |-> doc.rows[s]]]
                          ELSE cache
            /\ answer' = Say("bind", "ok")
  /\ kept' = Unread
  /\ UNCHANGED <<provider, doc, call, edits>>

(* The dimensions remembered at binding stand for the sheet's. *)
BeyondTheRows(range) ==
  provider = "google" /\ \E i \in range : i > cache[view.sheet].rows
(* A title in the address must be the cached one, whoever cached it. *)
AddressIsOld == provider = "google" /\ view.named /\ view.title # cache[view.sheet].title
EarlyFailure(range) ==
  IF BeyondTheRows(range) THEN "resource_limit"
  ELSE IF AddressIsOld THEN "protocol_failure" ELSE "none"

(* GridFormulaView.read and read_values, up to the request. *)
StartRead(op, range) ==
  /\ Bound /\ call.pc = "idle" /\ calls < MaxCalls
  /\ calls' = calls + 1
  /\ IF EarlyFailure(range) # "none"
       THEN answer' = Say(op, EarlyFailure(range)) /\ UNCHANGED call
       ELSE /\ call' = [NoCall EXCEPT !.pc = "read", !.op = op, !.range = range]
            /\ answer' = NoAnswer
  /\ UNCHANGED <<provider, doc, cache, view, kept, edits>>

(* A variant: a set leaves the revision the view knew before it.            *)
KeepsTheOld(revision) == view' = [view EXCEPT !.observed =
                                    IF call.op = "set" THEN @ ELSE revision]
(* _remember_observed_revision: whatever was read or written last. *)
Remember(revision) == view' = [view EXCEPT !.observed = revision]

(* What there is to observe in the sheet the view means. *)
Truth(d, op, range) ==
  IF Meant(d) = {} THEN None
  ELSE IF op = "values" THEN ValuesIn(d, First(Meant(d)), range)
  ELSE FormulasIn(d.cells[First(Meant(d))], range)

(* The provider answers a read and the answer is parsed. *)
AnswerRead ==
  LET found == AnsweringSheet(doc)
      s     == First(found)
      r     == call.range
  IN /\ call.pc = "read"
     /\ call' = NoCall
     /\ IF found = {}
          THEN answer' = Say(call.op, NotFound(doc)) /\ UNCHANGED <<view, kept>>
          ELSE IF call.op = "read"
          THEN /\ Remember(FormulaRevision(doc, s, r))
               /\ kept' = [revision |-> FormulaRevision(doc, s, r), range |-> r,
                           formulas |-> FormulasIn(doc.cells[s], r),
                           version  |-> doc.version]
               /\ answer' = [Say("read", "ok") EXCEPT
                               !.found = FormulasIn(doc.cells[s], r),
                               !.truth = Truth(doc, "read", r)]
          ELSE /\ Remember(ValueRevision(doc, s, r))
               /\ answer' = [Say("values", "ok") EXCEPT
                               !.found = ValuesIn(doc, s, r),
                               !.truth = Truth(doc, "values", r)]
               /\ UNCHANGED kept
     /\ UNCHANGED <<provider, doc, cache, edits, calls>>

-----------------------------------------------------------------------------
(* GridFormulaView.set.  The view refuses an expectation that is not the    *)
(* last revision it saw, and every expectation where none is enforced.      *)
LocalRefusal(expected) ==
  IF expected = None THEN "none"
  ELSE IF Enforced = "unavailable" THEN "unsupported"
  ELSE IF expected # view.observed THEN "stale" ELSE "none"

StartSet(range, refs, expected) ==
  LET refusal == IF LocalRefusal(expected) # "none" THEN LocalRefusal(expected)
                                                    ELSE EarlyFailure(range)
  IN /\ Bound /\ call.pc = "idle" /\ calls < MaxCalls
     /\ calls' = calls + 1
     /\ IF refusal # "none"
          THEN /\ answer' = [Say("set", refusal) EXCEPT
                               !.local = TRUE, !.range = range,
                               !.held = IF expected = kept.revision THEN kept
                                                                    ELSE Unread]
               /\ UNCHANGED call
          ELSE /\ call' = [NoCall EXCEPT !.pc = IF provider \in {"google", "excel"}
                                                  THEN "check" ELSE "write",
                             !.op = "set", !.range = range, !.refs = refs,
                             !.expected = expected]
               /\ answer' = NoAnswer
     /\ UNCHANGED <<provider, doc, cache, view, kept, edits>>

Held == IF call.expected # None /\ call.expected = kept.revision THEN kept ELSE Unread
Stop(code) == /\ call' = NoCall
              /\ answer' = [Say("set", code) EXCEPT !.held = Held]

Go(pc, before, base) ==
  call' = [call EXCEPT !.pc = pc, !.before = before, !.base = base]
Unwritten == UNCHANGED <<provider, cache, view, kept, edits, calls>>

(* A variant: the view has compared already.                                *)
LocalCheckIsEnough(now) == FALSE
Stale(now) == call.expected # None /\ call.expected # now

(* set_grid reads the range (Google) or the file (Excel), compares, and     *)
(* only then writes.                                                        *)
Check ==
  LET found == AnsweringSheet(doc)
      s     == First(found)
      now   == FormulaRevision(doc, s, call.range)
  IN /\ call.pc = "check"
     /\ IF found = {} THEN Stop(NotFound(doc))
        ELSE IF Stale(now) THEN Stop("stale")
        ELSE Go("write", now, doc) /\ UNCHANGED answer
     /\ UNCHANGED doc /\ Unwritten

Fill(cells, range, content) ==
  [i \in Rows |-> IF i \in range THEN content[i] ELSE cells[i]]
Written(d, s, content) ==
  [d EXCEPT !.cells[s] = Fill(@, call.range, content), !.version = doc.version + 1]
(* A provider may fill the text as it stands instead of translating it.     *)
Verbatim(range) == [i \in range |-> Formula(call.refs, 0)]

(* The write: Google by sheet id, answering with the range under the cached *)
(* title; MaybeSheet by gid, comparing the revision itself; Excel replaces  *)
(* the file by the one it read, filled.  A title nobody has makes Google    *)
(* refuse the whole request.                                                *)
Write(content) ==
  LET target == IF provider = "excel" THEN call.base ELSE doc
      s      == First(Meant(target))
  IN
  /\ call.pc = "write"
  /\ provider = "excel" => content = ExpectedFormulas(call.refs, call.range)
  /\ IF Meant(target) = {} \/ (provider = "google"
                            /\ Titled(doc, cache[view.sheet].title) = {})
       THEN Stop("execution_failed") /\ UNCHANGED doc
     ELSE IF provider = "maybe" /\ Stale(<<"document", doc.version>>)
       THEN Stop("stale") /\ UNCHANGED doc
     ELSE /\ doc' = Written(target, s, content)
          /\ IF provider = "google" /\ AnsweringSheet(doc) = {}
               THEN Stop("protocol_failure")
             ELSE IF provider = "google"
                     /\ content # ExpectedFormulas(call.refs, call.range)
               THEN Stop("nonconforming")
             ELSE /\ Go("readback", call.before,
                        IF call.base = <<>> THEN doc ELSE call.base)
                  /\ UNCHANGED answer
  /\ Unwritten

Confirmed(found) == found = ExpectedFormulas(call.refs, call.range)

(* The range is read again, and only the very formulas confirm the write.   *)
ReadBack ==
  LET found == AnsweringSheet(doc)
      s     == First(found)
      r     == call.range
      seen  == FormulasIn(doc.cells[s], r)
  IN /\ call.pc = "readback"
     /\ IF found = {} THEN Stop("unknown") /\ UNCHANGED <<view, kept>>
        ELSE IF ~Confirmed(seen) THEN Stop("readback_mismatch") /\ UNCHANGED <<view, kept>>
        ELSE /\ call' = NoCall
             /\ Remember(FormulaRevision(doc, s, r))
             /\ kept' = [revision |-> FormulaRevision(doc, s, r), range |-> r,
                         formulas |-> seen, version |-> doc.version]
             /\ answer' = [Say("set", "ok") EXCEPT
                  !.found = Truth(doc, "read", r),
                  !.truth = ExpectedFormulas(call.refs, r),
                  !.held  = Held,
                  !.base  = Truth(call.base, "read", Held.range)]
     /\ UNCHANGED <<provider, doc, cache, edits, calls>>

-----------------------------------------------------------------------------
(* Other users. *)
Edited(d) == [d EXCEPT !.version = @ + 1]
Foreign ==
  /\ edits < MaxEdits /\ edits' = edits + 1
  /\ \/ \E s \in Present(doc), t \in Titles :
          Titled(doc, t) = {} /\ doc' = Edited([doc EXCEPT !.title[s] = t])
     \/ \E s \in Present(doc) :
          Cardinality(Present(doc)) > 1
          /\ doc' = Edited([doc EXCEPT !.title[s] = None])
     \/ \E s \in Present(doc), c \in {Literal, Formula("absolute", 0)} :
          doc.cells[s][1] # c /\ doc' = Edited([doc EXCEPT !.cells[s][1] = c])
     \/ \E s \in Present(doc) :
          doc.rows[s] = 1 /\ doc' = Edited([doc EXCEPT !.rows[s] = 2])
     \/ doc.input = 0 /\ doc' = Edited([doc EXCEPT !.input = 1])
  /\ answer' = NoAnswer
  /\ UNCHANGED <<provider, cache, view, kept, call, calls>>

Init ==
  /\ provider \in Providers
  /\ doc = [title |-> <<"A", "B">>, rows |-> <<2, 1>>,
            cells |-> <<<<Blank, Formula("relative", 0)>>, <<Blank, Blank>>>>,
            input |-> 0, version |-> 0]
  /\ cache = [s \in Sheets |-> [title |-> None, rows |-> 0]]
  /\ view = NoView /\ kept = Unread /\ call = NoCall /\ answer = NoAnswer
  /\ edits = 0 /\ calls = 0

Next ==
  \/ \E id \in Sheets \cup {None}, name \in {"A", None}, named \in BOOLEAN :
       Bind(id, name, named)
  \/ \E op \in {"read", "values"}, range \in Ranges : StartRead(op, range)
  \/ AnswerRead
  \/ \E range \in Ranges, refs \in References,
        expected \in {None, view.observed, kept.revision} :
       StartSet(range, refs, expected)
  \/ Check
  \/ \E content \in {ExpectedFormulas(call.refs, call.range), Verbatim(call.range)} :
       Write(content)
  \/ ReadBack
  \/ Foreign

Spec == Init /\ [][Next]_vars

-----------------------------------------------------------------------------
(* A successful read is of the sheet the view means, whatever the titles    *)
(* were exchanged for meanwhile, and a confirmed set left exactly the       *)
(* translated formulas there (_parse_grid_response, _bound_path, set_grid). *)
ObservationsAreTrue == answer.code = "ok" => answer.found = answer.truth

(* A set that succeeded under the revision of a formula observation found   *)
(* those formulas still in place when it was compared (_validate_expected_- *)
(* revision, set_grid).  It says nothing of literals at Google, whose       *)
(* revision is blind to them.                                               *)
ExpectationsHold ==
  answer.op = "set" /\ answer.code = "ok" /\ answer.held # Unread
    => answer.base = answer.held.formulas

(* A set that expects what the view was last told is refused as stale only  *)
(* if somebody changed the document since; at Google this needs the set to  *)
(* be of the range that was read, and no other call between.                *)
StaleIsTrue ==
  answer.op = "set" /\ answer.code = "stale" /\ answer.held # Unread
    /\ (provider = "google" => ~answer.local /\ answer.held.range = answer.range)
    => answer.version # answer.held.version

GridViewsAreTrue == ObservationsAreTrue /\ ExpectationsHold /\ StaleIsTrue
=============================================================================
