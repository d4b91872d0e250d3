---------------------------- MODULE RemoteTables ----------------------------
(* Tables of remote documents: maybe_sheet/connector.py (one run of its command *)
(* line per call), google_sheets/connector.py (one request, after one more that *)
(* finds the title of a sheet given by its gid) and feishu_bitable/connector.py *)
(* (pages of records, batches of rows), with their command line adapters and    *)
(* the SDK's bridge to such adapters (sdk/connector.py).  Others edit and       *)
(* rename while a call runs, a request may be executed after its caller gave    *)
(* up, and an answer may be lost.  The providers are outside the repository:    *)
(* they execute a request at one moment, and a page token names the place after *)
(* the last record of its page.                                                 *)
EXTENDS Naturals, Sequences, FiniteSets

CONSTANTS Endpoints,    \* addresses and options: id, title, option, odd
          Limits,       \* row limits of reads; 0 is none
          PageSize,     \* records of one Feishu page (500)
          BatchLimit,   \* FEISHU_BATCH_CREATE_LIMIT (500)
          Ceiling,      \* the largest limit Maybe's provider takes
          Sizes,        \* rows of the frames written
          MaxWrites,    \* bound: writes
          MaxEdits,     \* bound: edits and renames by others
          None

VARIABLES provider,   \* the connector in use
          sheets,     \* provider: per sheet (or table) its title and its rows
          flight,     \* write requests sent and not executed
          call,       \* the call in progress, or the last read
          seen,       \* history: what the document was during the read
          log,        \* history: per write its frame, address and answer
          entered,    \* history: per write the rows the provider took, in order
          edits, renames

vars == <<provider, sheets, flight, call, seen, log, entered, edits, renames>>

Ids == {1, 2}
Writes == 1..MaxWrites
Gone == <<0, 0>>

\* A row is <<the write that brought it, its place in the frame>>; a write 0 is
\* somebody else's, and a place 0 the row of column names.
Visible(rows) == SelectSeq(rows, LAMBDA row : row # Gone)
Titled(title) == {i \in Ids : sheets[i].title = title}

Idle == [op |-> "idle", n |-> 0, step |-> "none", address |-> 0, since |-> 0, title |-> None,
         id |-> 0, limit |-> 0, got |-> <<>>, lapse |-> "none", place |-> 0, next |-> 0]
NoWrite == [size |-> 0, mode |-> "append", answer |-> "none", address |-> 0, since |-> 0]

-----------------------------------------------------------------------------
(* Which sheet an endpoint and its options select.                           *)

Rejected == [kind |-> "rejected", id |-> 0, title |-> None]
ById(i) == [kind |-> "id", id |-> i, title |-> None]
ByTitle(t) == [kind |-> "title", id |-> 0, title |-> t]

\* _target_selector: a table_id in the URL or an explicit target, never both.
MaybeSelector(e) ==
  IF e.odd \/ (e.id # 0) = (e.option # None) THEN Rejected
  ELSE IF e.id # 0 THEN ById(e.id) ELSE ByTitle(e.option)

\* resolve: the path's sheet, the sheet of a gid, which must be a number and is
\* looked up before an option is considered, or "Sheet1".
GoogleSelector(e, default) ==
  IF e.odd THEN Rejected
  ELSE [kind |-> IF e.id # 0 THEN "gid" ELSE "title", id |-> e.id,
        title |-> IF e.option # None THEN e.option
                  ELSE IF e.title # None THEN e.title
                  ELSE IF e.id # 0 THEN None ELSE default]

\* resolve: one table identity; options select nothing.
FeishuSelector(e) == IF e.odd \/ e.id = 0 THEN Rejected ELSE ById(e.id)

Selector(e) ==
  CASE provider = "maybe" -> MaybeSelector(e)
    [] provider = "google" -> GoogleSelector(e, "Sheet1")
    [] provider = "feishu" -> FeishuSelector(e)

\* The sheet a selector means when the call starts; 0 if there is none.
Meant(s) ==
  IF s.title # None THEN IF Titled(s.title) = {} THEN 0 ELSE CHOOSE i \in Titled(s.title) : TRUE
  ELSE IF s.id \in Ids THEN s.id ELSE 0

\* The sheet the provider finds when the request arrives.
Addressed(r) ==
  IF r.title # None THEN Titled(r.title) ELSE {r.id} \cap Ids

FirstStep(s, next) == IF s.kind = "gid" THEN "resolve" ELSE next

\* _sheet_title: exactly one sheet of the document has the gid; an option goes
\* before its title.
ResolveTitle ==
  /\ call.step = "resolve"
  /\ call.id \in Ids
  /\ call' = [call EXCEPT
                !.title = IF @ # None THEN @ ELSE sheets[call.id].title,
                !.step = IF call.op = "write" THEN "ready" ELSE "read"]
  /\ UNCHANGED <<provider, sheets, flight, seen, log, entered, edits, renames>>
NoSuchGid ==
  /\ call.step = "resolve"
  /\ call.id \notin Ids
  /\ call' = IF call.op = "write" THEN Idle ELSE [call EXCEPT !.step = "rejected"]
  /\ log' = IF call.op = "write" THEN [log EXCEPT ![call.n].answer = "rejected"] ELSE log
  /\ UNCHANGED <<provider, sheets, flight, seen, entered, edits, renames>>

-----------------------------------------------------------------------------
(* Reads.                                                                    *)

\* read and inspect of an adapter, and the SDK's open_table (`opens`), which
\* inspects the table, that is reads it, and then reads it for the binding.  An
\* endpoint that selects nothing is refused, and nothing is sent.
StartRead(e, limit, opens) ==
  /\ call = Idle
  /\ LET s == Selector(e)
     IN /\ s # Rejected
        /\ call' = [Idle EXCEPT !.op = IF opens THEN "open" ELSE "read",
                                !.step = FirstStep(s, "read"),
                                !.address = Meant(s), !.since = renames,
                                !.title = s.title, !.id = s.id, !.limit = limit]
  /\ seen' = {sheets}
  /\ UNCHANGED <<provider, sheets, flight, log, entered, edits, renames>>

Reading(p) == provider = p /\ call.step = "read"

Cut(rows, limit) ==
  IF limit = 0 \/ Len(rows) <= limit THEN rows ELSE SubSeq(rows, 1, limit)

\* A read is taken for complete; that of open_table's inspection is followed by
\* another.  `lapse` names what the connector passed over.
CompleteWith(rows, lapse) ==
  call' = IF call.op = "open"
          THEN [call EXCEPT !.op = "read", !.got = <<>>, !.place = 0]
          ELSE [call EXCEPT !.step = "rows", !.got = rows, !.lapse = lapse]
Complete(rows) == CompleteWith(rows, "none")
ReadOnly == UNCHANGED <<provider, sheets, flight, log, entered, edits, renames, seen>>

\* What the command line prints is a typed frame or a list of records, as they
\* are, or values whose first row names the columns.
Decoded(rows, shape) == IF shape = "values" /\ rows # <<>> THEN Tail(rows) ELSE rows

\* One run of the command line, told the limit, and its answer cut to it.
MaybeRead(shape) ==
  /\ Reading("maybe")
  /\ call.limit <= Ceiling
  /\ \E i \in Addressed(call) :
       LET table == Visible(sheets[i].rows)
           names == IF shape = "values" THEN <<<<0, 9>>>> ELSE <<>>
       IN Complete(Cut(Decoded(names \o Cut(table, call.limit), shape), call.limit))
  /\ ReadOnly

\* Anything else it prints is taken for a table without rows.
MaybeUnrecognised ==
  /\ Reading("maybe")
  /\ call.limit <= Ceiling
  /\ CompleteWith(<<>>, "unrecognised")
  /\ ReadOnly

\* _read_limit_error: the provider refuses a limit above its ceiling.
MaybeLimitRefused ==
  /\ Reading("maybe")
  /\ call.limit > Ceiling
  /\ call' = [call EXCEPT !.step = "failed"]
  /\ ReadOnly

\* _arrow_from_values: the first row names the columns.
Body(values) == IF values = <<>> THEN <<>> ELSE Tail(values)

\* A variant: the limit cuts the values, the row of names among them.
GoogleReadCutFirst ==
  /\ Reading("google")
  /\ \E i \in Addressed(call) :
       Complete(Body(Cut(Visible(sheets[i].rows), call.limit)))
  /\ ReadOnly
GoogleRead ==
  /\ Reading("google")
  /\ \E i \in Addressed(call) :
       Complete(Cut(Body(Visible(sheets[i].rows)), call.limit))
  /\ ReadOnly

\* The places of the next page, and of what follows it.
Later(rows, place) == {p \in DOMAIN rows : p > place /\ rows[p] # Gone}
OnPage(rows, place) ==
  {p \in Later(rows, place) : Cardinality({q \in Later(rows, place) : q < p}) < PageSize}
Items(rows, place) ==
  LET page == OnPage(rows, place)
  IN Visible([p \in DOMAIN rows |-> IF p \in page THEN rows[p] ELSE Gone])

\* A variant: the first page is taken for the table.
OnePage ==
  /\ Reading("feishu")
  /\ \E i \in Addressed(call) :
       Complete(Cut(Items(sheets[i].rows, call.place), call.limit))
  /\ ReadOnly
\* One turn of _read's loop: stop at the limit, when there are no more, or when
\* there are more and the provider names no place to go on from.
FeishuPage ==
  /\ Reading("feishu")
  /\ \E i \in Addressed(call) :
       LET rows == sheets[i].rows
           got == call.got \o Items(rows, call.place)
           more == Later(rows, call.place) # OnPage(rows, call.place)
           last == CHOOSE p \in OnPage(rows, call.place) :
                     \A q \in OnPage(rows, call.place) : q <= p
       IN IF more /\ (call.limit = 0 \/ Len(got) < call.limit)
          THEN \/ call' = [call EXCEPT !.got = got, !.place = last]
               \/ CompleteWith(got, "tokenless")
          ELSE Complete(Cut(got, call.limit))
  /\ ReadOnly

\* A request fails, times out, is refused or cannot be decoded: no rows at all.
ReadFails ==
  /\ call.op # "write" /\ call.step \in {"resolve", "read"}
  /\ call' = [call EXCEPT !.step = "failed", !.got = <<>>]
  /\ ReadOnly

Return ==
  /\ call.step \in {"rows", "rejected", "failed"}
  /\ call' = Idle /\ seen' = {}
  /\ UNCHANGED <<provider, sheets, flight, log, entered, edits, renames>>

-----------------------------------------------------------------------------
(* Writes.                                                                   *)

\* preflight_write and write: Maybe and Feishu append, Google also replaces, and
\* none of them creates (the bridge's create_table asks for "error").
MaybeModes == {"append"}
GoogleModes == {"append", "replace"}
FeishuModes == {"append"}
MayWrite(mode) ==
  mode \in CASE provider = "maybe" -> MaybeModes [] provider = "google" -> GoogleModes
             [] provider = "feishu" -> FeishuModes

NextWrite == Cardinality({n \in Writes : log[n].answer # "none"}) + 1

\* write of an adapter, after its preflight: a mode that is not supported or an
\* endpoint that selects nothing is refused, and nothing is sent.
StartWrite(e, mode, size) ==
  /\ call = Idle /\ NextWrite \in Writes /\ MayWrite(mode)
  /\ LET s == Selector(e)
     IN /\ s # Rejected
        /\ log' = [log EXCEPT ![NextWrite] = [size |-> size, mode |-> mode, address |-> Meant(s),
                                              since |-> renames, answer |-> "running"]]
        /\ call' = [Idle EXCEPT !.op = "write", !.n = NextWrite, !.step = FirstStep(s, "ready"),
                                !.title = s.title, !.id = s.id, !.next = 1]
  /\ UNCHANGED <<provider, sheets, flight, seen, entered, edits, renames>>

Send(first, last) ==
  /\ call.step = "ready"
  /\ call' = [call EXCEPT !.step = "sent", !.next = last + 1]
  /\ flight' = flight \cup {[n |-> call.n, first |-> first, last |-> last,
                             title |-> call.title, id |-> call.id]}
  /\ UNCHANGED <<provider, sheets, seen, log, entered, edits, renames>>
Size == log[call.n].size

\* The frame goes to the command line in one file.
MaybeInsert == provider = "maybe" /\ call.op = "write" /\ Send(1, Size)
\* The column names and the rows in one request: POST appends them, PUT puts
\* them over what is there.
GoogleWrite == provider = "google" /\ call.op = "write" /\ Send(0, Size)
\* A variant: the next batch starts one row too late.
FeishuBatchSkips ==
  /\ provider = "feishu" /\ call.op = "write" /\ call.next <= Size
  /\ Send(IF call.next = 1 THEN 1 ELSE call.next + 1,
          IF call.next + BatchLimit - 1 > Size THEN Size ELSE call.next + BatchLimit - 1)
\* A batch of at most FEISHU_BATCH_CREATE_LIMIT rows.
FeishuBatch ==
  /\ provider = "feishu" /\ call.op = "write" /\ call.next <= Size
  /\ Send(call.next, IF call.next + BatchLimit - 1 > Size THEN Size
                     ELSE call.next + BatchLimit - 1)

\* The provider executes a request; its caller may no longer wait.
RowsOf(req) == [p \in 1..(req.last + 1 - req.first) |-> <<req.n, req.first + p - 1>>]
Over(old, new) == new \o SubSeq(old, Len(new) + 1, Len(old))
Reply(req, step) ==
  IF call.n = req.n /\ call.step = "sent" THEN [call EXCEPT !.step = step] ELSE call
SeenNow == seen' = IF seen = {} THEN {} ELSE seen \cup {sheets'}
ExecuteWrite(req) ==
  /\ flight' = flight \ {req}
  /\ \/ \E i \in Addressed(req) :
          /\ sheets' = [sheets EXCEPT ![i].rows =
                          IF log[req.n].mode = "replace" THEN Over(Visible(@), RowsOf(req))
                          ELSE @ \o RowsOf(req)]
          /\ entered' = [entered EXCEPT ![req.n] =
                           @ \o [p \in DOMAIN RowsOf(req) |-> RowsOf(req)[p][2]]]
          /\ call' = Reply(req, "done")
          /\ SeenNow
     \/ /\ call' = Reply(req, "refused")
        /\ UNCHANGED <<sheets, entered, seen>>
  /\ UNCHANGED <<provider, log, edits, renames>>

Answer(answer) ==
  /\ log' = [log EXCEPT ![call.n].answer = answer]
  /\ call' = Idle
  /\ UNCHANGED <<provider, sheets, flight, seen, entered, edits, renames>>

\* Feishu goes on with the next batch.
NextBatch ==
  /\ call.step = "done" /\ provider = "feishu" /\ call.next <= Size
  /\ call' = [call EXCEPT !.step = "ready"]
  /\ UNCHANGED <<provider, sheets, flight, seen, log, entered, edits, renames>>
\* The receipt: every request was answered, a frame without rows sent none.
WriteSucceeds ==
  /\ \/ call.step = "done" /\ (provider # "feishu" \/ call.next > Size)
     \/ provider = "feishu" /\ call.step = "ready" /\ Size = 0
  /\ Answer("succeeded")
\* The provider's error, or one of the transport, at any time.
WriteFails ==
  /\ call.op = "write" /\ call.step \in {"resolve", "sent", "refused", "done"}
  /\ Answer("failed")

-----------------------------------------------------------------------------
(* Others.                                                                   *)

AddRow(i) ==
  /\ edits < MaxEdits /\ edits' = edits + 1
  /\ sheets' = [sheets EXCEPT ![i].rows = Append(@, <<0, 4 + edits>>)]
  /\ SeenNow
  /\ UNCHANGED <<provider, flight, call, log, entered, renames>>
RemoveRow(i, p) ==
  /\ sheets[i].rows[p] # Gone
  /\ edits < MaxEdits /\ edits' = edits + 1
  /\ sheets' = [sheets EXCEPT ![i].rows[p] = Gone]
  /\ SeenNow
  /\ UNCHANGED <<provider, flight, call, log, entered, renames>>

\* Two sheets change titles.
SwapTitles ==
  /\ edits < MaxEdits /\ edits' = edits + 1 /\ renames' = renames + 1
  /\ sheets' = [i \in Ids |-> [sheets[i] EXCEPT !.title = sheets[3 - i].title]]
  /\ SeenNow
  /\ UNCHANGED <<provider, flight, call, log, entered>>

Init ==
  /\ provider \in {"maybe", "google", "feishu"}
  /\ sheets = [i \in Ids |-> IF i = 1 THEN [title |-> "a", rows |-> <<<<0, 1>>, <<0, 2>>, <<0, 3>>>>]
                             ELSE [title |-> "Sheet1", rows |-> <<>>]]
  /\ flight = {} /\ edits = 0 /\ renames = 0
  /\ call = Idle
  /\ seen = {}
  /\ log = [n \in Writes |-> NoWrite]
  /\ entered = [n \in Writes |-> <<>>]

Next ==
  \/ \E e \in Endpoints, limit \in Limits, opens \in BOOLEAN : StartRead(e, limit, opens)
  \/ ResolveTitle \/ NoSuchGid
  \/ \E shape \in {"rows", "values"} : MaybeRead(shape)
  \/ MaybeUnrecognised \/ MaybeLimitRefused \/ GoogleRead \/ FeishuPage \/ ReadFails \/ Return
  \/ \E e \in Endpoints, mode \in {"append", "replace", "error"}, size \in Sizes :
       StartWrite(e, mode, size)
  \/ MaybeInsert \/ GoogleWrite \/ FeishuBatch \/ NextBatch \/ WriteSucceeds \/ WriteFails
  \/ \E req \in flight : ExecuteWrite(req)
  \/ \E i \in Ids : AddRow(i) \/ \E p \in DOMAIN sheets[i].rows : RemoveRow(i, p)
  \/ SwapTitles

Spec == Init /\ [][Next]_vars

-----------------------------------------------------------------------------
RowSet(rows) == {rows[p] : p \in DOMAIN rows}

\* What a read of one request may answer of a sheet as it was.
Answers(rows, limit) ==
  Cut(IF provider = "google" THEN Body(Visible(rows)) ELSE Visible(rows), limit)

\* Two answers that are not whole: Maybe's when its command line printed nothing
\* the connector recognises, which has no rows, and Feishu's when the provider
\* said there was more and not where, which stops at that page.
Passed(lapse) == call.lapse = lapse

\* A read that succeeds answers the sheet it was given as that sheet was at one
\* moment of the call, to its limit, unless what was printed was unrecognised;
\* one by pages names no record twice and none that was not there, and leaves out
\* no record that was there all along, unless the limit is reached or the place
\* of the next page was missing (the read functions of the three connectors).
ReadsAreWhole ==
  call.step = "rows" /\ call.since = renames =>
    LET then == {s[call.address].rows : s \in seen}
        got == call.got
    IN IF provider # "feishu"
       THEN \/ Passed("unrecognised") /\ got = <<>>
            \/ \E rows \in then : got = Answers(rows, call.limit)
       ELSE /\ Cardinality(RowSet(got)) = Len(got)
            /\ \A row \in RowSet(got) : \E rows \in then : row \in RowSet(rows)
            /\ IF call.limit # 0 /\ Len(got) >= call.limit
               THEN Len(got) = call.limit
               ELSE \/ Passed("tokenless")
                    \/ \A row \in UNION {RowSet(rows) : rows \in then} \ {Gone} :
                         (\A rows \in then : row \in RowSet(rows)) => row \in RowSet(got)

\* The rows of write n, in order, with Google's row of column names.
Whole(n) == IF provider = "google" THEN [p \in 1..(log[n].size + 1) |-> p - 1]
            ELSE [p \in 1..log[n].size |-> p]

\* A write that succeeds has put every row of its frame into the document once
\* and in order; one that fails, the first of them, whatever arrives later; a
\* rejected one sent nothing; and rows go only to the sheet the call was given,
\* unless sheets were renamed since (the write functions of the connectors).
WritesAreTrue ==
  \A n \in Writes : log[n].answer # "none" =>
    /\ log[n].answer = "succeeded" => entered[n] = Whole(n)
    /\ entered[n] = SubSeq(Whole(n), 1, Len(entered[n]))
    /\ log[n].answer = "rejected" => entered[n] = <<>> /\ \A req \in flight : req.n # n
    /\ log[n].since = renames =>
         \A i \in Ids \ {log[n].address} : \A row \in RowSet(sheets[i].rows) : row[1] # n

\* The two together.
TablesAreTrue == ReadsAreWhole /\ WritesAreTrue
=============================================================================
