------------------------- MODULE FieldFormulaViews --------------------------
(***************************************************************************)
(* A formula view of one field of a table at MaybeSheet or Feishu Bitable:  *)
(* binding it, reading its definition, reading its value in every record,   *)
(* page by page, and setting its expression, while other users rename,      *)
(* redefine and delete fields and change records between any two requests.  *)
(*                                                                          *)
(* MaybeSheet answers for one field at a time and stamps every page of      *)
(* records with the revision of the snapshot it was cut from; Feishu lists  *)
(* fields and records by page tokens and says nothing of snapshots.  Keys,  *)
(* lost answers and the ledger are in FormulaSet.                           *)
(***************************************************************************)
EXTENDS Integers, FiniteSets, Sequences, SequencesExt

CONSTANTS Providers,   \* "maybe", "maybe_unstamped" (its pages carry no revision),
                       \* "feishu", "feishu_named" (its records go by field name)
          None,
          MaxRecords,  \* the limit of a values read
          MaxEdits,    \* bound: changes made by other users
          MaxCalls     \* bound: calls made by the client

VARIABLES provider,
          table,    \* the table as the provider has it
          view,     \* the FieldFormulaView, and _bindings of the extension
          call,     \* the call in progress
          answer,   \* the last answer, with what was true when it was made
          edits, calls

vars == <<provider, table, view, call, answer, edits, calls>>

AtMaybe == provider \in {"maybe", "maybe_unstamped"}
Names   == {"n", "m", "k"}
Expressions == {"x", "y"}
PageSize == 1   \* of both listings

FieldOf(t, f) == [id |-> f, name |-> t.name[f], formula |-> t.formula[f]]
Listed(t)     == [i \in DOMAIN t.order |-> FieldOf(t, t.order[i])]
(* The revision of a field is the hash of its definition. *)
FieldRevision(d) == <<"field", d.id, d.name, d.formula>>
Value(t, f, r)   == <<f, t.formula[f], r, t.data>>
Snapshot(t)      == <<"table", t.version>>
AllValues(t, f)  == {Value(t, f, t.records[i]) : i \in DOMAIN t.records}

NoCall   == [pc |-> "idle", op |-> "none", expected |-> None, set |-> None,
             page |-> 0, listed |-> <<>>, seen |-> <<>>, stamp |-> None,
             whole |-> {}, quiet |-> TRUE, before |-> None, at |-> 0]
NoView   == [field |-> None, name |-> None, revision |-> None, observed |-> None,
             version |-> 0]
NoAnswer == [op |-> "none", code |-> "none", found |-> {}, truth |-> {},
             quiet |-> FALSE, expected |-> None, observed |-> None,
             version |-> 0, at |-> 0]
Say(op, code) == [NoAnswer EXCEPT !.op = op, !.code = code, !.quiet = call.quiet,
                    !.expected = call.expected, !.observed = view.observed,
                    !.version = table.version, !.at = view.version]
Finish(code)  == call' = NoCall /\ answer' = Say(call.op, code)
Go(c) == call' = c /\ UNCHANGED answer
Unchanged == UNCHANGED <<provider, edits>>
Begin == /\ call.pc = "idle" /\ calls < MaxCalls
         /\ calls' = calls + 1 /\ answer' = NoAnswer

-----------------------------------------------------------------------------
(* Selecting a field: by id or by name, and exactly one may match. *)
Matching(fields, id, name) ==
  SelectSeq(fields, LAMBDA d : (id # None /\ d.id = id) \/ (name # None /\ d.name = name))
Selection(fields, id, name) ==
  LET found == Matching(fields, id, name) IN
  IF Len(found) = 0 THEN "target_not_found"
  ELSE IF Len(found) > 1 THEN "invalid_target"
  ELSE IF found[1].formula = "plain" THEN "invalid_target" ELSE "ok"

(* bind_field, over one complete listing of the fields.                     *)
Bind(id, name) ==
  LET code  == Selection(Listed(table), id, name)
      field == Matching(Listed(table), id, name)[1]
  IN /\ call.pc = "idle" /\ calls < MaxCalls /\ (id = None) # (name = None)
     /\ calls' = calls + 1
     /\ answer' = Say("bind", code)
     /\ view' = IF code # "ok" THEN view
                ELSE [field |-> field.id, name |-> field.name,
                      revision |-> FieldRevision(field),
                      observed |-> FieldRevision(field), version |-> table.version]
     /\ UNCHANGED <<table, call>> /\ Unchanged

Start(op, expected, formula) ==
  /\ view.field # None /\ Begin
  /\ call' = [NoCall EXCEPT !.op = op, !.set = formula, !.at = table.version,
                !.expected = IF op = "set" /\ expected = None
                               THEN view.revision ELSE expected,
                !.pc = IF op = "values" THEN "records" ELSE "fields"]
  /\ UNCHANGED <<table, view>> /\ Unchanged

(* The view refuses an expectation that is not the last revision it saw. *)
Refuse(expected) ==
  /\ view.field # None /\ expected # view.observed /\ Begin
  /\ UNCHANGED <<table, view, call>> /\ Unchanged

(* A page of the listing of fields, from where the last one ended. *)
NextPage(listing) ==
  SubSeq(listing, call.page + 1, Min({Len(listing), call.page + PageSize}))
HasMore(listing)  == call.page + PageSize < Len(listing)
ListFields ==
  /\ call.pc = "fields"
  /\ LET listing == IF AtMaybe
                      THEN Matching(Listed(table), view.field, None)
                      ELSE Listed(table)
     IN Go([call EXCEPT !.listed = @ \o NextPage(listing), !.page = @ + PageSize,
                        !.pc = IF HasMore(listing) THEN "fields" ELSE "listed"])
  /\ UNCHANGED <<table, view, calls>> /\ Unchanged

(* read_field and the comparison of set_field: the field must be one, a     *)
(* formula, and for a set still what was expected.  Feishu's set takes the  *)
(* first field of that id, where its read refuses a second one.             *)
TakeField ==
  LET code  == Selection(call.listed, view.field, None)
      field == Matching(call.listed, view.field, None)[1]
  IN /\ call.pc = "listed"
     /\ IF code # "ok" /\ ~(call.op # "read" /\ code = "invalid_target"
                            /\ ~AtMaybe /\ field.formula # "plain")
          THEN Finish("target_not_found") /\ UNCHANGED view
        ELSE IF call.op = "read"
          THEN /\ view' = [view EXCEPT !.observed = FieldRevision(field),
                                       !.version = call.at]
               /\ call' = NoCall
               /\ answer' = [Say("read", "ok") EXCEPT !.found = {field}]
        ELSE IF FieldRevision(field) # call.expected
          THEN Finish("stale") /\ UNCHANGED view
        ELSE /\ Go([call EXCEPT !.pc = "write", !.before = field])
             /\ UNCHANGED view
     /\ UNCHANGED <<table, calls>> /\ Unchanged

Exists(f) == f \in ToSet(table.order)
Edited(t) == [t EXCEPT !.version = @ + 1]
(* MaybeSheet compares once more and changes the expression alone; Feishu   *)
(* is sent the name it had when it was read along with the expression.      *)
WriteField ==
  LET f == view.field IN
  /\ call.pc = "write"
  /\ IF ~Exists(f) \/ table.formula[f] = "plain"
        \/ (AtMaybe /\ FieldRevision(FieldOf(table, f)) # call.expected)
       THEN Finish("rejected") /\ UNCHANGED table
       ELSE /\ table' = Edited([table EXCEPT !.formula[f] = call.set,
                                  !.name[f] = IF AtMaybe
                                                THEN @ ELSE call.before.name])
            /\ Go([call EXCEPT !.pc = "after"])
  /\ UNCHANGED <<view, calls>> /\ Unchanged

(* A variant: the expression alone is compared.                             *)
SameExpression(after) == after.formula = call.set
(* Nothing but the expression may differ from the field that was read. *)
Isolated(after) == after = [call.before EXCEPT !.formula = call.set]
VerifyField ==
  LET f == view.field IN
  /\ call.pc = "after"
  /\ IF ~Exists(f) \/ table.formula[f] = "plain"
       THEN Finish("target_not_found") /\ UNCHANGED view
     ELSE IF ~Isolated(FieldOf(table, f))
       THEN Finish("readback_mismatch") /\ UNCHANGED view
     ELSE /\ view' = [view EXCEPT !.observed = FieldRevision(FieldOf(table, f)),
                                  !.version = table.version]
          /\ call' = NoCall
          /\ answer' = [Say("set", "ok") EXCEPT
               !.found = {FieldOf(table, f)},
               !.truth = {[call.before EXCEPT !.formula = call.set]}]
  /\ UNCHANGED <<table, calls>> /\ Unchanged

-----------------------------------------------------------------------------
(* read_field_values: one page of records at a time.  Feishu's records give *)
(* the value under the id of the field, or else under the name the field    *)
(* had when it was bound.                                                   *)
RecordIds == {call.seen[i][3] : i \in DOMAIN call.seen}
Carriers(name) == {f \in ToSet(table.order) : table.name[f] = name}
ByName == provider = "feishu_named"
Source == IF ByName THEN Carriers(view.name) ELSE {view.field} \cap ToSet(table.order)

(* A variant: a page of another snapshot is as good.                        *)
AnySnapshot == provider = "maybe_unstamped"
NoSnapshot == \/ provider = "maybe_unstamped"
              \/ provider = "maybe" /\ call.stamp \notin {None, Snapshot(table)}

(* A variant: what exceeds the limit is cut off.                            *)
CutOff(records) == FALSE
TooMany(records) == Len(records) > MaxRecords

ReadRecords ==
  LET ids  == NextPage(table.records)
      page == [i \in DOMAIN ids |->
                 Value(table, CHOOSE f \in Source : TRUE, ids[i])]
      all  == call.seen \o page
      seen == SubSeq(all, 1, Min({Len(all), MaxRecords}))
  IN /\ call.pc = "records"
     /\ IF NoSnapshot THEN Finish("snapshot_unavailable") /\ UNCHANGED view
        ELSE IF ids # <<>> /\ (Source = {} \/ ToSet(ids) \cap RecordIds # {})
          THEN Finish("protocol_failure") /\ UNCHANGED view
        ELSE IF TooMany(all)
          THEN Finish("resource_limit") /\ UNCHANGED view
        ELSE IF HasMore(table.records)
          THEN /\ Go([call EXCEPT !.seen = seen, !.page = @ + PageSize,
                        !.stamp = Snapshot(table),
                        !.whole = IF call.page = 0 THEN AllValues(table, view.field) ELSE @])
               /\ UNCHANGED view
        ELSE /\ view' = [view EXCEPT !.observed = IF AtMaybe
                           THEN Snapshot(table) ELSE <<"values", ToSet(seen)>>,
                           !.version = -1]
             /\ call' = NoCall
             /\ answer' = [Say("values", "ok") EXCEPT
                  !.found = ToSet(seen),
                  !.truth = IF call.page = 0 THEN AllValues(table, view.field)
                                             ELSE call.whole]
     /\ UNCHANGED <<table, calls>> /\ Unchanged

-----------------------------------------------------------------------------
(* Other users. *)
Foreign ==
  /\ edits < MaxEdits /\ edits' = edits + 1
  /\ \/ \E f \in ToSet(table.order), n \in Names :
          /\ \A g \in ToSet(table.order) : table.name[g] # n
          /\ table' = Edited([table EXCEPT !.name[f] = n])
     \/ \E i \in DOMAIN table.order :
          table' = Edited([table EXCEPT !.order = RemoveAt(@, i)])
     \/ Len(table.order) = 2 /\ table' = Edited([table EXCEPT !.order = Reverse(@)])
     \/ \E f \in ToSet(table.order), x \in Expressions \cup {"plain"} :
          table.formula[f] # x /\ table' = Edited([table EXCEPT !.formula[f] = x])
     \/ \E i \in DOMAIN table.records :
          table' = Edited([table EXCEPT !.records = RemoveAt(@, i)])
     \/ Len(table.records) < 3
        /\ table' = Edited([table EXCEPT !.records = <<3>> \o @])
     \/ table.data = 0 /\ table' = Edited([table EXCEPT !.data = 1])
  /\ answer' = NoAnswer
  /\ call' = IF call.pc = "idle" THEN call ELSE [call EXCEPT !.quiet = FALSE]
  /\ UNCHANGED <<provider, view, calls>>

Init ==
  /\ provider \in Providers
  /\ table = [name |-> [f |-> "n", g |-> "m"], formula |-> [f |-> "x", g |-> "x"],
              order |-> <<"f", "g">>, records |-> <<1, 2>>, data |-> 0, version |-> 0]
  /\ view = NoView /\ call = NoCall /\ answer = NoAnswer
  /\ edits = 0 /\ calls = 0

Next ==
  \/ \E id \in {"f", None}, name \in {"n", None} : Bind(id, name)
  \/ \E op \in {"read", "values"} : Start(op, None, None)
  \/ \E expected \in {None, view.observed} : Start("set", expected, "y")
  \/ \E expected \in {view.revision} : Refuse(expected)
  \/ ListFields \/ TakeField \/ WriteField \/ VerifyField
  \/ ReadRecords \/ Foreign

Spec == Init /\ [][Next]_vars

-----------------------------------------------------------------------------
(* A values read that succeeds returns every record, once, with its value   *)
(* in the bound field: at MaybeSheet of one single state of the table       *)
(* whatever others did between the pages; at Feishu, which proves nothing,  *)
(* if nobody changed the table during the call (read_field_values).         *)
ValuesAreWhole ==
  answer.op = "values" /\ answer.code = "ok" /\ (AtMaybe \/ answer.quiet)
     /\ ~ByName
    => answer.found = answer.truth

(* What a confirmed set reports differs from the field that was compared    *)
(* by its expression alone (_metadata_isolated, _isolated).                 *)
SetsAreIsolated ==
  answer.op = "set" /\ answer.code = "ok" => answer.found = answer.truth

(* A set that expects what the view's last definition read or set returned  *)
(* is refused as stale only if the table was changed since.                 *)
StaleIsTrue ==
  answer.op = "set" /\ answer.code = "stale" /\ answer.expected = answer.observed
    => answer.version # answer.at

FieldViewsAreTrue == ValuesAreWhole /\ SetsAreIsolated /\ StaleIsTrue
=============================================================================
