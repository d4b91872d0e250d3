------------------------------ MODULE QueryCases ------------------------------
(* Statements over two tables and a frame, with an empty table, equal keys,     *)
(* unknown keys and values, and statements that must be refused, for TLC.       *)
EXTENDS Integers, SequencesExt

CONSTANT None

\* a column of an aliased table
C(of, name) == [of |-> of, name |-> name]
Item(form, col, as) == [form |-> form, col |-> col, as |-> as]
Plain(col) == Item("column", col, None)
JoinOn(kind, name, alias, left, right) ==
  [kind |-> kind, name |-> name, alias |-> alias, on |-> <<left, right>>]
By(col, desc) == [col |-> col, desc |-> desc]
Where(cmp, left, right) == [cmp |-> cmp, left |-> left, right |-> right]
Of(c) == [form |-> "column", col |-> c]
Literal(v) == [form |-> "literal", value |-> v]
Given(n) == [form |-> "parameter", name |-> n]

Select(items, joins) ==
  [items |-> items, from |-> [name |-> "t", alias |-> "t"], joins |-> joins, where |-> None,
   group |-> <<>>, order |-> <<>>, limit |-> None, extra |-> {}]

tk == C("t", "k")
tv == C("t", "v")
uk == C("u", "k")
uw == C("u", "w")
ToU(kind) == JoinOn(kind, "u", "u", uk, tk)
ToX == JoinOn("inner", "x", "x", uw, C("x", "w"))

OneTable ==
  {[Select(<<Plain(C(None, "k")), Plain(C(None, "v"))>>, <<>>) EXCEPT !.where = w, !.order = o, !.limit = l] :
     w \in {None, Where("neq", Of(C(None, "v")), Literal(1)),
            Where("lte", Of(tk), Given("p")), Where("gt", Of(tv), Of(tk))},
     o \in {<<>>, <<By(C(None, "v"), TRUE), By(tk, FALSE)>>}, l \in {None, 1}}

Joins ==
  {[Select(<<Plain(tk), Plain(tv), Plain(uw)>>, <<ToU(kind)>>) EXCEPT !.order = o, !.limit = l, !.where = w] :
     kind \in {"inner", "left"}, o \in {<<>>, <<By(C(None, "w"), FALSE)>>}, l \in {None, 2},
     w \in {None, Where("eq", Of(uw), Literal(1))}}

Groups ==
  {[Select(<<Plain(tk), Item("count", uw, "n"), Item(fn, uw, "a")>>, <<ToU(kind)>>) EXCEPT
      !.group = <<tk>>, !.order = o, !.limit = l] :
     kind \in {"inner", "left"}, fn \in {"sum", "max", "min", "mean"},
     o \in {<<>>, <<By(C(None, "n"), TRUE)>>}, l \in {None, 1}}

Chains ==
  {Select(<<Plain(tk), Plain(C("x", "y"))>>, <<ToU(kind), ToX>>) : kind \in {"inner", "left"}}

Odd ==
  {\* the right key is gone
   Select(<<Plain(uk)>>, <<ToU("inner")>>),
   Select(<<Plain(tk)>>, <<ToU("inner"), JoinOn("inner", "x", "x", uk, C("x", "w"))>>),
   \* one source twice
   Select(<<Plain(tv), Item("column", C("b", "v"), "z")>>, <<ToU("inner"), JoinOn("inner", "t", "b", uw, C("b", "k"))>>),
   \* an aggregate without a group, one output twice, no such column, no such order
   Select(<<Item("sum", tv, None)>>, <<>>),
   Select(<<Plain(tk), Plain(uw), Item("column", tv, "w")>>, <<ToU("inner")>>),
   Select(<<Plain(C("t", "q"))>>, <<>>),
   [Select(<<Plain(tk)>>, <<>>) EXCEPT !.order = <<By(tv, FALSE)>>],
   \* a literal on the left, a parameter that is not given
   [Select(<<Plain(tk)>>, <<>>) EXCEPT !.where = Where("eq", Literal(1), Of(tk))],
   [Select(<<Plain(tk)>>, <<>>) EXCEPT !.where = Where("eq", Of(tk), Given("q"))],
   \* outside the subset
   Select(<<Plain(C(None, "k"))>>, <<ToU("inner")>>),
   Select(<<Plain(tk)>>, <<ToU("right")>>),
   Select(<<Plain(tk)>>, <<JoinOn("inner", "u", "u", tk, tv)>>),
   Select(<<Plain(tk)>>, <<JoinOn("inner", "q", "u", tk, uk)>>),
   [Select(<<Plain(tk)>>, <<>>) EXCEPT !.extra = {"distinct"}],
   Select(<<Item("star", tk, None)>>, <<>>)}

Table(name, table) == [name |-> name, kind |-> "table", table |-> table]
Wide == [source |-> 3, total |-> 9, intermediate |-> 9, output |-> 4]
Query(statement, sources, limits) ==
  [statement |-> statement, sources |-> sources, params |-> [p |-> 1], limits |-> limits]

Three == <<Table("t", "T"), Table("u", "U"), [name |-> "x", kind |-> "frame",
           frame |-> [columns |-> {"w", "y"}, rows |-> <<[w |-> 1, y |-> 1], [w |-> 1, y |-> 2]>>]]>>

Inner(statement) == [name |-> "u", kind |-> "query",
  query |-> Query(statement, <<Table("t", "U")>>, [Wide EXCEPT !.output = 2])]

\* the query in the query reads the table that the outer query reads too
Nested ==
  {Query(Select(<<Plain(tk), Plain(uw)>>, <<ToU("left")>>), <<Table("t", "T"), Inner(s)>>, Wide) :
     s \in {[Select(<<Plain(tk), Plain(C("t", "w"))>>, <<>>) EXCEPT !.limit = l] : l \in {None, 1}}}
  \union {Query(Select(<<Plain(tk), Plain(uw)>>, <<ToU("left")>>),
            <<Table("t", "T"), Inner(Select(<<Plain(tk), Plain(C("t", "w"))>>, <<>>))>>, [Wide EXCEPT !.total = 3])}
  \union {Query(Select(<<Plain(tk)>>, <<ToU("inner")>>),
            <<Table("t", "T"), [name |-> "u", kind |-> "query", query |->
               Query(Select(<<Plain(tk)>>, <<>>), <<[name |-> "t", kind |-> "foreign"]>>, Wide)]>>, Wide)}

Queries ==
  {Query(s, <<Table("t", "T")>>, Wide) : s \in OneTable}
  \union {Query(s, <<Table("t", "T"), Table("u", "U")>>, l) : s \in Joins \union Groups,
            l \in {[Wide EXCEPT !.intermediate = 3]}}
  \union {Query(Select(<<Plain(tk)>>, <<ToU("left"), ToX>>), Three, [Wide EXCEPT !.total = 3])}
  \union {Query(s, Three, l) : s \in Chains \union Odd, l \in {Wide, [Wide EXCEPT !.intermediate = 4]}}
  \union Nested
  \union {Query(Select(<<Plain(tk)>>, <<>>), <<Table("t", "T")>>, [Wide EXCEPT ![f] = 1]) : f \in DOMAIN Wide}
  \union {Query(Select(<<Plain(tk)>>, <<>>), <<Table("t", "T"), [name |-> "x", kind |-> "foreign"]>>, Wide)}

TRow(k, v) == [k |-> k, v |-> v]
URow(k, w) == [k |-> k, w |-> w]
TFrames == {[columns |-> {"k", "v"}, rows |-> r] : r \in
              {<<>>, <<TRow(1, 1), TRow(1, 2)>>, <<TRow(None, 1), TRow(1, None), TRow(2, 2)>>}}
UFrames == {[columns |-> {"k", "w"}, rows |-> r] : r \in
              {<<>>, <<URow(1, 1), URow(1, 2)>>, <<URow(1, 1), URow(1, 1)>>,
               <<URow(None, 1), URow(2, None)>>}}
Databases == {[T |-> t, U |-> u] : t \in TFrames, u \in UFrames}

\* calls of native SQL
Calls ==
  [op : {"query", "execute"}, connector : {"sqlite", "postgres", "file"}, inTransaction : BOOLEAN,
   maxRows : {1, 2},
   statement : [kind : {"select", "write", "ddl"}, parts : {1}, flags : {{}}]
               \union {[kind |-> "select", parts |-> 2, flags |-> {}],
                       [kind |-> "select", parts |-> 1, flags |-> {"into"}]}]
=============================================================================
