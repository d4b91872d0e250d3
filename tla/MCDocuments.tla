-------------------------- MODULE MCDocuments --------------------------------
(* Workbooks and tables, for TLC: what the edits of a session do to a workbook *)
(* (WorkbookContent), which worksheet they do it to (WorkbookHandles), the      *)
(* database connectors that write tables (TableStore), and the connectors of    *)
(* remote tables (RemoteTables).  They share no state, so a behaviour is about  *)
(* one of them.                                                                *)
EXTENDS WorkbookContent, WorkbookHandles, TableStore, TLC

CONSTANTS Endpoints, Limits, Sizes

VARIABLES about, remote, tabs, sent, running, witnessed, receipts, taken, touches, renames

remoteVars == <<remote, tabs, sent, running, witnessed, receipts, taken, touches, renames>>

Symmetry == Permutations(Threads)

MCSheetNames == {"a", "b"}
MCBound == <<[name |-> "a", gid |-> 1, of |-> 1]>>

Remote == INSTANCE RemoteTables
            WITH PageSize <- 2, BatchLimit <- 2, Ceiling <- 2, MaxWrites <- 1, MaxEdits <- 1,
                 None <- Absent, provider <- remote, sheets <- tabs, flight <- sent, call <- running,
                 seen <- witnessed, log <- receipts, entered <- taken, edits <- touches

Endpoint(gid, title, option) ==
    [id |-> gid, title |-> title, option |-> option, odd |-> FALSE]
\* By gid, by title, by a gid and an option, by an option, by nothing, and by a
\* gid unknown; and one that cannot be read.
MCEndpoints ==
    {Endpoint(1, Absent, Absent), Endpoint(0, "a", Absent), Endpoint(1, Absent, "Sheet1"),
     Endpoint(0, Absent, "a"), Endpoint(0, Absent, Absent), Endpoint(3, Absent, Absent),
     [Endpoint(0, Absent, "a") EXCEPT !.odd = TRUE]}

MCNumbered == {"A1", "A2"}
MCNames == {"a", "A", "b"} \cup MCNumbered
MCFolded == [a |-> "a", A |-> "a", b |-> "b", A1 |-> "a1", A2 |-> "a2"]

Area(top, left, bottom, right) ==
    [top |-> top, left |-> left, bottom |-> bottom, right |-> right]
MCAreas == {Area(1, 1, 3, 2), Area(2, 1, 3, 1), Area(1, 1, 1, 1)}

Text(n) == [kind |-> "text", n |-> n, cites |-> NoCitation]
Number(n) == [kind |-> "number", n |-> n, cites |-> NoCitation]
Formula(name, of) ==
    [kind |-> "formula", n |-> 0, cites |-> [name |-> name, of |-> of, sorts |-> 0]]
MCContents == {Text(1), Number(1)}

MCRows == 1..3
MCColumns == 1..2
Of(content) == [content |-> content, format |-> "General", bold |-> FALSE]
Sheet(name, id, cells) ==
    [name |-> name, id |-> id, merges |-> {}, shown |-> TRUE, images |-> <<>>, sorts |-> 0,
     cells |-> [cell \in Cells |-> IF cell \in DOMAIN cells THEN cells[cell] ELSE Plain]]

\* Three rows with two equal keys, told apart by their style and an empty text.
Table ==
    <<Sheet("a", 1, [cell \in {<<1, 1>>, <<2, 1>>, <<3, 1>>, <<1, 2>>} |->
        IF cell = <<2, 1>> THEN Of(Number(1)) ELSE IF cell[2] = 2 THEN Of(Inline)
        ELSE [Of(Number(2)) EXCEPT !.bold = (cell[1] = 3)]])>>
\* The second worksheet cites the first.
Cited ==
    <<Sheet("a", 1, [cell \in {<<1, 1>>} |-> Of(Text(1))]),
      Sheet("b", 2, [cell \in {<<1, 1>>} |-> Of(Formula("a", 1))])>>
\* A merge over blanks, and a worksheet that is hidden.
Merged ==
    <<[Sheet("a", 1, [cell \in {<<2, 1>>} |-> Of(Text(1))])
          EXCEPT !.merges = {Area(2, 1, 3, 1)}],
      [Sheet("b", 2, <<>>) EXCEPT !.shown = FALSE, !.images = <<"p">>]>>
MCBooks == {Table, Cited, Merged}

MCInit ==
    /\ ContentInit /\ HandlesInit /\ TableInit /\ Remote!Init
    /\ about \in {"content", "handles", "store", "remote"}
    /\ about # "remote" => remote = "maybe"
    /\ about # "content" => profile = "general" /\ workbook = <<>>
    /\ about # "store" => connector = "sqlite" /\ ~db["rows"].there
MCNext ==
    /\ UNCHANGED about
    /\ \/ about = "content" /\ ContentNext /\ UNCHANGED <<handlesVars, tableVars, remoteVars>>
       \/ about = "handles" /\ HandlesNext /\ UNCHANGED <<contentVars, tableVars, remoteVars>>
       \/ about = "store" /\ TableNext /\ UNCHANGED <<contentVars, handlesVars, remoteVars>>
       \/ about = "remote" /\ Remote!Next /\ UNCHANGED <<contentVars, handlesVars, tableVars>>
MCSpec == MCInit /\ [][MCNext]_<<contentVars, about, handlesVars, tableVars, remoteVars>>

\* RemoteTables' TablesAreTrue, of this instance: an answer says what reached
\* the remote table.
TablesStayTrue == Remote!TablesAreTrue
=============================================================================
