--------------------------- MODULE RelationalQuery ---------------------------
(***************************************************************************)
(* Portable SQL over several sources: packages/sdk .../sql.py lowers one    *)
(* SELECT to a relational plan, client.py collects the plan's sources one   *)
(* by one (a source may be a query of its own) and runs the plan in a       *)
(* worker process that it kills at the deadline; the worker                 *)
(* (PolarsPlanMapper) estimates, joins, filters, groups, sorts and cuts.    *)
(*                                                                         *)
(* A statement is its syntax tree.  A column of a frame in work is named by *)
(* its source and its name, as the code's physical names are.  Rows stand   *)
(* for bytes in the limits.  What the data-frame library does (a join drops *)
(* the right key, renames a column it already has and never matches an      *)
(* unknown key; a sort puts unknown values first; a sum of nothing is 0) is *)
(* written from how sql.py calls it.                                        *)
(***************************************************************************)
EXTENDS Integers, SequencesExt

CONSTANTS
  None,       \* an unknown value, and what is not there
  Requests,   \* the queries that may be asked
  Databases,  \* the tables' frames, a function of the table
  MaxChanges  \* bound: changes of the tables by others

VARIABLES
  db,       \* the frames of the tables
  changes,  \* how often others changed them
  open,     \* the client is open
  request,  \* the query
  stack,    \* the collections under way, the innermost last: the query and its frames
  worker,   \* the worker's frame and what it does next, or None
  answer,   \* what collect returned, or None
  last,     \* the query evaluated last, its frames and its result, or None
  reads     \* tables read

vars == <<db, changes, open, request, stack, worker, answer, last, reads>>

-----------------------------------------------------------------------------
(* Lowering *)

Aggregates == {"sum", "max", "min", "mean", "count"}

\* what the aliases of the first n joins stand for; a later alias hides an earlier
Aliases(s, n) ==
  LET tables == <<s.from>> \o SubSeq(s.joins, 1, n)
  IN  [a \in {t.alias : t \in ToSet(tables)} |->
         tables[Max({i \in DOMAIN tables : tables[i].alias = a})].name]

All(s) == Aliases(s, Len(s.joins))

Resolves(c, aliases) ==
  IF c.of = None THEN Cardinality(DOMAIN aliases) = 1 ELSE c.of \in DOMAIN aliases

\* the source and name of a column
Ref(c, aliases) ==
  <<aliases[IF c.of = None THEN CHOOSE a \in DOMAIN aliases : TRUE ELSE c.of], c.name>>

OutputName(x) ==
  IF x.as # None THEN x.as ELSE IF x.form = "column" THEN x.col.name ELSE x.form \o "_" \o x.col.name

OutputNames(s) == {OutputName(x) : x \in ToSet(s.items)}

JoinOk(s, i, names) ==
  LET j == s.joins[i]
      aliases == Aliases(s, i)
      sides == {Ref(j.on[n], aliases)[1] : n \in {1, 2}}
  IN  /\ j.kind \in {"inner", "left"} /\ j.name \in names /\ j.on # None
      /\ \A n \in {1, 2} : Resolves(j.on[n], aliases)
      /\ Cardinality(sides) = 2 /\ j.name \in sides

ItemOk(x, aliases) == x.form \in Aggregates \union {"column"} /\ Resolves(x.col, aliases)

SideOk(x, aliases) == x.form = "column" => Resolves(x.col, aliases)

OrderOk(k, s) == (k.col.of = None /\ k.col.name \in OutputNames(s)) \/ Resolves(k.col, All(s))

Accepted(s, names) ==
  /\ s.extra = {} /\ s.from.name \in names
  /\ \A i \in DOMAIN s.joins : JoinOk(s, i, names)
  /\ \A x \in ToSet(s.items) : ItemOk(x, All(s))
  /\ s.where # None => SideOk(s.where.left, All(s)) /\ SideOk(s.where.right, All(s))
  /\ \A c \in ToSet(s.group) : Resolves(c, All(s))
  /\ \A k \in ToSet(s.order) : OrderOk(k, s)

\* the keys of the i-th join, the joined source's second
Keys(s, i) ==
  LET j == s.joins[i]
      refs == [n \in {1, 2} |-> Ref(j.on[n], Aliases(s, i))]
  IN  IF refs[2][1] = j.name THEN refs ELSE <<refs[2], refs[1]>>

\* the output column an ORDER BY key is looked up as
SortName(k) == k.col.name

-----------------------------------------------------------------------------
(* Evaluation *)

Renamed(frame, source) ==
  LET columns == {<<source, c>> : c \in frame.columns}
  IN  [columns |-> columns,
       rows |-> [i \in DOMAIN frame.rows |-> [p \in columns |-> frame.rows[i][p[2]]]]]

\* A variant: an unknown key matches an unknown key.
MatchesUnknown(x, y) == x = y

Matches(x, y) == x # None /\ x = y

Joined(left, right, keys, kind) ==
  LET name(c) == IF c \in left.columns THEN Append(c, "right") ELSE c
      others == right.columns \ {keys[2]}
      columns == left.columns \union {name(c) : c \in others}
      with(l, r) == [c \in columns |->
                       IF c \in left.columns THEN l[c]
                       ELSE IF r = None THEN None ELSE r[CHOOSE o \in others : name(o) = c]]
      matched(l) == SelectSeq(right.rows, LAMBDA r : Matches(l[keys[1]], r[keys[2]]))
      of(l) == IF matched(l) = <<>> /\ kind = "left" THEN <<with(l, None)>>
               ELSE [i \in DOMAIN matched(l) |-> with(l, matched(l)[i])]
  IN  IF keys[1] \notin left.columns \/ keys[2] \notin right.columns
         \/ \E c \in others \intersect left.columns : Append(c, "right") \in left.columns
      THEN None
      ELSE [columns |-> columns, rows |-> FlattenSeq([i \in DOMAIN left.rows |-> of(left.rows[i])])]

Compare(cmp, x, y) ==
  /\ x # None /\ y # None
  /\ CASE cmp = "eq" -> x = y
       [] cmp = "neq" -> x # y
       [] cmp = "gt" -> x > y
       [] cmp = "lte" -> x <= y

\* a comparison needs a column on its left, and its parameter
WhereOk(s, params, columns) ==
  s.where # None =>
    /\ s.where.left.form = "column" /\ Ref(s.where.left.col, All(s)) \in columns
    /\ s.where.right.form = "column" => Ref(s.where.right.col, All(s)) \in columns
    /\ s.where.right.form = "parameter" => s.where.right.name \in DOMAIN params

Filtered(s, params, frame) ==
  LET side(x, r) == IF x.form = "column" THEN r[Ref(x.col, All(s))]
                    ELSE IF x.form = "parameter" THEN params[x.name] ELSE x.value
  IN  IF s.where = None THEN frame
      ELSE [frame EXCEPT !.rows = SelectSeq(frame.rows, LAMBDA r :
              Compare(s.where.cmp, side(s.where.left, r), side(s.where.right, r)))]

\* sum over a sequence of numbers
Total(seq) == FoldSeq(LAMBDA x, y : x + y, 0, seq)

\* an aggregate of a sequence of values
Aggregate(fn, values) ==
  LET known == SelectSeq(values, LAMBDA v : v # None)
  IN  CASE fn = "count" -> Len(known)
        [] fn = "sum" -> Total(known)
        [] known = <<>> -> None
        [] fn = "max" -> Max(ToSet(known))
        [] fn = "min" -> Min(ToSet(known))
        [] fn = "mean" -> <<Total(known), Len(known)>>

\* the frame's rows as the items' outputs, one of each row
Selected(s, frame) ==
  IF \/ \E x \in ToSet(s.items) : x.form # "column" \/ Ref(x.col, All(s)) \notin frame.columns
     \/ Cardinality(OutputNames(s)) # Len(s.items)
  THEN None
  ELSE [columns |-> OutputNames(s),
        rows |-> [i \in DOMAIN frame.rows |->
                    [o \in OutputNames(s) |->
                       LET x == CHOOSE x \in ToSet(s.items) : OutputName(x) = o
                       IN  frame.rows[i][Ref(x.col, All(s))]]]]

\* one row for each value of the group's columns; an output column that is not an
\* aggregate is looked up by its bare name in the group's columns and aggregates
Grouped(s, frame) ==
  LET refs == {Ref(c, All(s)) : c \in ToSet(s.group)}
      measures == {x \in ToSet(s.items) : x.form # "column"}
      bare == {OutputName(x) : x \in measures}
      keys == {[c \in refs |-> r[c]] : r \in ToSet(frame.rows)}
      members(k) == SelectSeq(frame.rows, LAMBDA r : \A c \in refs : r[c] = k[c])
      measure(k, o) ==
        LET x == CHOOSE x \in measures : OutputName(x) = o
            m == members(k)
        IN  Aggregate(x.form, [i \in DOMAIN m |-> m[i][Ref(x.col, All(s))]])
      value(k, x) ==
        IF x.form # "column" THEN measure(k, OutputName(x))
        ELSE IF x.col.name \in bare THEN measure(k, x.col.name)
        ELSE k[CHOOSE c \in refs : c[2] = x.col.name]
      row(k) == [o \in OutputNames(s) |-> value(k, CHOOSE x \in ToSet(s.items) : OutputName(x) = o)]
      order == SetToSeq(keys)
  IN  IF \/ ~ (refs \union {Ref(x.col, All(s)) : x \in measures}) \subseteq frame.columns
         \/ Cardinality(refs) # Len(s.group) \/ Cardinality({c[2] : c \in refs}) # Len(s.group)
         \/ bare \intersect {c[2] : c \in refs} # {}
         \/ \E x \in ToSet(s.items) \ measures : x.col.name \notin bare \union {c[2] : c \in refs}
         \/ Cardinality(OutputNames(s)) # Len(s.items)
      THEN None
      ELSE [columns |-> OutputNames(s), rows |-> [i \in DOMAIN order |-> row(order[i])]]

\* x comes before y by the order's keys; an unknown value comes first, whichever the direction
Precedes(order, x, y) ==
  LET less(u, v) == u # v /\ (u = None \/ (v # None /\ u < v))
      before(k) == LET u == x[SortName(k)] v == y[SortName(k)]
                   IN  IF k.desc /\ u # None /\ v # None THEN less(v, u) ELSE less(u, v)
  IN  \E i \in DOMAIN order :
        /\ before(order[i])
        /\ \A j \in 1 .. i - 1 : x[SortName(order[j])] = y[SortName(order[j])]

\* The sequences the sort may make of rows: the library keeps no order of its own,
\* which only a limit shows.
Arrangements(s, rows) ==
  IF s.order = <<>> /\ s.limit = None THEN {rows}
  ELSE {[i \in DOMAIN rows |-> rows[p[i]]] :
          p \in {p \in [DOMAIN rows -> DOMAIN rows] :
                   /\ \A i, j \in DOMAIN rows : i # j => p[i] # p[j]
                   /\ \A i, j \in DOMAIN rows : i < j => ~ Precedes(s.order, rows[p[j]], rows[p[i]])}}

Headed(s, rows) == IF s.limit = None THEN rows ELSE SubSeq(rows, 1, Min({s.limit, Len(rows)}))

\* A variant: only the last join is estimated.
EstimateOfTheLast(s, frames, n) ==
  Len(frames[s.from.name].rows) * (IF n = 0 THEN 1 ELSE Len(frames[s.joins[n].name].rows))

\* rows of the Cartesian product of the base and the first n joined sources
Estimate(s, frames, n) ==
  FoldSeq(LAMBDA j, rows : rows * Len(frames[j.name].rows), Len(frames[s.from.name].rows),
          SubSeq(s.joins, 1, n))

-----------------------------------------------------------------------------
(* Collection *)

QueriesOf(q) == {x.query : x \in {y \in ToSet(q.sources) : y.kind = "query"}}

\* a query and the queries it reads; bound: a query in a query reads no third
Graph(q) == {q} \union QueriesOf(q)

Prepared(q) == \A n \in Graph(q) : Accepted(n.statement, {x.name : x \in ToSet(n.sources)})

\* A variant: only the outer query's sources are looked at.
ForeignHere(q) == \E x \in ToSet(q.sources) : x.kind = "foreign"

\* handles that another client opened
Foreign(q) == \E n \in Graph(q) : \E x \in ToSet(n.sources) : x.kind = "foreign"
NoAnswer == [kind |-> "none"]

Collection(q) == [query |-> q, frames |-> <<>>]

Top == Last(stack)

Collecting == answer = NoAnswer /\ stack # <<>>

Answer(kind) ==
  /\ answer' = [kind |-> kind]
  /\ stack' = <<>> /\ worker' = None

\* sql() and the walk over the graph of sources, before anything is read
Start ==
  /\ answer = NoAnswer /\ stack = <<>>
  /\ IF ~ Prepared(request) THEN Answer("invalid_sql")
     ELSE IF ~ open THEN Answer("client_closed")
     ELSE IF Foreign(request) THEN Answer("affinity_mismatch")
     ELSE stack' = <<Collection(request)>> /\ UNCHANGED <<answer, worker>>
  /\ UNCHANGED <<db, changes, open, request, last, reads>>

\* the source of the top collection that is next
Pending == Collecting /\ worker = None /\ Len(Top.frames) < Len(Top.query.sources)
Source == Top.query.sources[Len(Top.frames) + 1]

Input(frames) == Total([i \in DOMAIN frames |-> Len(frames[i].rows)])

\* the frame joins the collection, unless a limit refuses it
Add(below, level, frame) ==
  LET frames == Append(level.frames, frame)
      limits == level.query.limits
  IN  IF Len(frame.rows) > limits.source \/ Input(frames) > limits.total
      THEN Answer("resource_limit")
      ELSE /\ stack' = Append(below, [level EXCEPT !.frames = frames])
           /\ worker' = None /\ UNCHANGED answer

ReadTable ==
  /\ Pending /\ Source.kind = "table"
  /\ IF open
     THEN Add(Front(stack), Top, db[Source.table]) /\ reads' = reads + 1
     ELSE Answer("client_closed") /\ UNCHANGED reads
  /\ UNCHANGED <<db, changes, open, request, last>>

TakeFrame ==
  /\ Pending /\ Source.kind = "frame" /\ open
  /\ Add(Front(stack), Top, Source.frame)
  /\ UNCHANGED <<db, changes, open, request, last, reads>>

EnterQuery ==
  /\ Pending /\ Source.kind = "query" /\ open
  /\ stack' = Append(stack, Collection(Source.query))
  /\ UNCHANGED <<db, changes, open, request, worker, answer, last, reads>>

\* collect asserts that the client is open at every source
FindClosed ==
  /\ Pending /\ Source.kind \in {"frame", "query"} /\ ~ open
  /\ Answer("client_closed")
  /\ UNCHANGED <<db, changes, open, request, last, reads>>

ReadFails ==
  /\ Pending /\ Source.kind = "table" /\ open
  /\ Answer("source_failed")
  /\ UNCHANGED <<db, changes, open, request, last, reads>>

-----------------------------------------------------------------------------
(* The worker *)

Frames(level) ==
  [n \in {x.name : x \in ToSet(level.query.sources)} |->
     level.frames[CHOOSE i \in DOMAIN level.query.sources : level.query.sources[i].name = n]]

Statement == Top.query.statement

\* the answer of the worker's own exceptions
Result(stage, frame) ==
  IF frame = None THEN Answer("invalid_sql")
  ELSE worker' = [stage |-> stage, frame |-> frame] /\ UNCHANGED <<stack, answer>>

\* the plan is estimated join by join before anything is evaluated
StartWorker ==
  /\ Collecting /\ worker = None /\ Len(Top.frames) = Len(Top.query.sources)
  /\ LET s == Statement
         frames == Frames(Top)
     IN  IF \E n \in 0 .. Len(s.joins) :
              Estimate(s, frames, n) > Top.query.limits.intermediate
         THEN Answer("resource_limit")
         ELSE Result(1, Renamed(frames[s.from.name], s.from.name))
  /\ UNCHANGED <<db, changes, open, request, last, reads>>

Working == Collecting /\ worker # None

Join ==
  /\ Working /\ worker.stage \in DOMAIN Statement.joins
  /\ LET n == worker.stage
         j == Statement.joins[n]
     IN  Result(n + 1, Joined(worker.frame, Renamed(Frames(Top)[j.name], j.name),
                              Keys(Statement, n), j.kind))
  /\ UNCHANGED <<db, changes, open, request, last, reads>>

Evaluate ==
  /\ Working /\ worker.stage = Len(Statement.joins) + 1
  /\ LET params == Top.query.params
         s == Statement
         frame == Filtered(s, params, worker.frame)
     IN  IF ~ WhereOk(s, params, worker.frame.columns) THEN Answer("invalid_sql")
         ELSE Result(0, IF s.group = <<>> THEN Selected(s, frame) ELSE Grouped(s, frame))
  /\ UNCHANGED <<db, changes, open, request, last, reads>>

\* sort and head, and the worker's answer: to the collection below, or to the caller
Finish ==
  /\ Working /\ worker.stage = 0
  /\ IF \E k \in ToSet(Statement.order) : SortName(k) \notin worker.frame.columns
     THEN Answer("invalid_sql") /\ UNCHANGED last
     ELSE \E rows \in Arrangements(Statement, worker.frame.rows) :
            LET frame == [worker.frame EXCEPT !.rows = Headed(Statement, rows)]
            IN  IF Len(frame.rows) > Top.query.limits.output
                THEN Answer("resource_limit") /\ UNCHANGED last
                ELSE /\ last' = [query |-> Top.query, frames |-> Frames(Top), rows |-> frame.rows]
                     /\ IF Len(stack) = 1
                        THEN /\ answer' = [kind |-> "rows", rows |-> frame.rows]
                             /\ stack' = <<>> /\ worker' = None
                        ELSE Add(Front(Front(stack)), Last(Front(stack)), frame)
  /\ UNCHANGED <<db, changes, open, request, reads>>

\* the deadline passes: between two sources, or with the worker killed
TimesUp ==
  /\ Collecting
  /\ Answer("resource_limit")
  /\ UNCHANGED <<db, changes, open, request, last, reads>>

\* the pipe of a worker that died is read to its end, which is no ValueError
WorkerDies ==
  /\ Working
  /\ Answer("end_of_file")
  /\ UNCHANGED <<db, changes, open, request, last, reads>>

\* another thread closes the client, another user changes a table
Close ==
  /\ open /\ open' = FALSE
  /\ UNCHANGED <<db, changes, request, stack, worker, answer, last, reads>>

Change ==
  /\ changes < MaxChanges /\ Collecting /\ worker = None
  /\ db' \in Databases \ {db} /\ changes' = changes + 1
  /\ UNCHANGED <<open, request, stack, worker, answer, last, reads>>

Init ==
  /\ db \in Databases /\ request \in Requests /\ open \in BOOLEAN
  /\ changes = 0 /\ stack = <<>> /\ worker = None /\ answer = NoAnswer /\ last = None /\ reads = 0

Next ==
  \/ Start \/ ReadTable \/ TakeFrame \/ EnterQuery \/ FindClosed \/ ReadFails
  \/ StartWorker \/ Join \/ Evaluate \/ Finish \/ TimesUp \/ WorkerDies \/ Close \/ Change

Spec == Init /\ [][Next]_vars

-----------------------------------------------------------------------------
(* What a statement means *)

\* the tables of a statement, in its order
Bound(s) == <<s.from>> \o s.joins

\* the table an alias, or no alias, names
Place(s, c) ==
  IF c.of = None THEN 1 ELSE CHOOSE i \in DOMAIN Bound(s) : Bound(s)[i].alias = c.of

\* a choice of a row of each table, 0 for none
Value(s, frames, choice, c) ==
  LET i == Place(s, c)
  IN  IF choice[i] = 0 THEN None ELSE frames[Bound(s)[i].name].rows[choice[i]][c.name]

Equal(x, y) == x # None /\ y # None /\ x = y

\* the rows of the joined tables: a left join stays with no row only if none matches
Combinations(s, frames) ==
  LET places == DOMAIN Bound(s)
      size(i) == Len(frames[Bound(s)[i].name].rows)
      on(choice, i) == Equal(Value(s, frames, choice, Bound(s)[i].on[1]),
                             Value(s, frames, choice, Bound(s)[i].on[2]))
      choices == {choice \in [places -> 0 .. Max({size(i) : i \in places} \union {0})] :
                    \A i \in places : choice[i] <= size(i)}
  IN  {choice \in choices :
         /\ choice[1] # 0
         /\ \A i \in places \ {1} :
              IF choice[i] # 0 THEN on(choice, i)
              ELSE /\ Bound(s)[i].kind = "left"
                   /\ \A n \in 1 .. size(i) : ~ on([choice EXCEPT ![i] = n], i)}

Kept(s, frames, params, choice) ==
  LET side(x) == IF x.form = "column" THEN Value(s, frames, choice, x.col)
                 ELSE IF x.form = "parameter" THEN params[x.name] ELSE x.value
      l == side(s.where.left)
      r == side(s.where.right)
  IN  s.where # None =>
        /\ l # None /\ r # None
        /\ s.where.cmp = "eq" => l = r
        /\ s.where.cmp = "neq" => l # r
        /\ s.where.cmp = "gt" => l > r
        /\ s.where.cmp = "lte" => ~ (l > r)

\* the classes of the choices kept: each by itself, or those of one group
Classes(s, frames, params) ==
  LET kept == {choice \in Combinations(s, frames) : Kept(s, frames, params, choice)}
      key(choice) == [c \in ToSet(s.group) |-> Value(s, frames, choice, c)]
  IN  IF s.group = <<>> THEN {{choice} : choice \in kept}
      ELSE {{other \in kept : key(other) = key(choice)} : choice \in kept}

\* one output row of a class
OutputRow(s, frames, class) ==
  LET output(x) ==
        LET value(choice) == Value(s, frames, choice, x.col)
            known == {choice \in class : value(choice) # None}
            total == FoldSet(LAMBDA choice, sum : value(choice) + sum, 0, known)
        IN  CASE x.form = "column" -> value(CHOOSE choice \in class : TRUE)
              [] x.form = "count" -> Cardinality(known)
              [] x.form = "sum" -> total
              [] known = {} -> None
              [] x.form = "max" -> Max({value(choice) : choice \in known})
              [] x.form = "min" -> Min({value(choice) : choice \in known})
              [] x.form = "mean" -> <<total, Cardinality(known)>>
  IN  [o \in OutputNames(s) |-> output(CHOOSE x \in ToSet(s.items) : OutputName(x) = o)]

\* Statements whose answer is not the statement's meaning, and why: a source that is
\* bound twice has one set of physical names; an output column of a group is looked
\* up by its bare name; so is a key of the order.
Once(s) == \A i, j \in DOMAIN Bound(s) : i # j =>
             Bound(s)[i].name # Bound(s)[j].name /\ Bound(s)[i].alias # Bound(s)[j].alias
OfTheGroup(s) == s.group # <<>> =>
  \A x \in ToSet(s.items) : x.form = "column" =>
    Ref(x.col, All(s)) \in {Ref(c, All(s)) : c \in ToSet(s.group)}
OrderedByItself(s) == \A k \in ToSet(s.order) : k.col.of # None =>
  \E x \in ToSet(s.items) : x.form = "column" /\ OutputName(x) = k.col.name
                            /\ Ref(x.col, All(s)) = Ref(k.col, All(s))

\* The order a statement asks for, by the first key in which two rows differ:
\* ascending with unknown values last, descending with unknown values first
\* (2026-08-31-python-sdk-design.md:1193).
AskedBefore(order, x, y) ==
  \E i \in DOMAIN order :
    LET u == x[SortName(order[i])] v == y[SortName(order[i])]
    IN  /\ \A j \in 1 .. i - 1 : x[SortName(order[j])] = y[SortName(order[j])]
        /\ u # v
        /\ IF u = None \/ v = None THEN (u = None) = order[i].desc
           ELSE IF order[i].desc THEN v < u ELSE u < v

\* Where the code departs from that: an unknown value in an ascending key comes
\* first, as the library sorts (sql.py execute).  Pairs that only such a key tells
\* apart are the only ones out of the order asked for.
UnknownAscending(order, x, y) ==
  \E i \in DOMAIN order :
    LET u == x[SortName(order[i])] v == y[SortName(order[i])]
    IN  /\ \A j \in 1 .. i - 1 : x[SortName(order[j])] = y[SortName(order[j])]
        /\ u # v /\ None \in {u, v} /\ ~ order[i].desc

\* x may stand before y in an answer
MayLead(order, x, y) == AskedBefore(order, y, x) => UnknownAscending(order, x, y)

\* The rows a query answers with are the rows its statement means over the frames
\* that were read: each as often as there are rows or groups for it, in the order the
\* statement asks for, unknown values of ascending keys apart; a limit keeps the
\* first of them (sql.py PolarsPlanMapper.execute).
AnswersAreSql ==
  last # None /\ Once(last.query.statement) /\ OfTheGroup(last.query.statement)
              /\ OrderedByItself(last.query.statement) =>
    LET s == last.query.statement
        rows == last.rows
        classes == Classes(s, last.frames, last.query.params)
        times(x) == Cardinality({i \in DOMAIN rows : rows[i] = x})
        meant(x) == Cardinality({c \in classes : OutputRow(s, last.frames, c) = x})
    IN  /\ Len(rows) = IF s.limit = None THEN Cardinality(classes)
                       ELSE Min({s.limit, Cardinality(classes)})
        /\ \A i \in DOMAIN rows : times(rows[i]) <= meant(rows[i])
        /\ \A i, j \in DOMAIN rows : i < j => MayLead(s.order, rows[i], rows[j])
        /\ \A x \in {OutputRow(s, last.frames, c) : c \in classes} : times(x) < meant(x) =>
             \A i \in DOMAIN rows : MayLead(s.order, rows[i], x)

\* a left join that finds its source empty makes the estimate of what follows zero
Counted(s, frames) ==
  \A j \in ToSet(s.joins) : j.kind = "left" => frames[j.name].rows # <<>>

\* No collection holds more rows than its limits allow, and no frame of the worker
\* is larger than the bound on intermediate rows, although the bound is looked at
\* before anything is joined (client.py collect, sql.py execute).
LimitsHold ==
  /\ \A i \in DOMAIN stack :
       /\ \A n \in DOMAIN stack[i].frames :
            Len(stack[i].frames[n].rows) <= stack[i].query.limits.source
       /\ Input(stack[i].frames) <= stack[i].query.limits.total
  /\ worker # None /\ Counted(Statement, Frames(Top)) =>
       Len(worker.frame.rows) <= Top.query.limits.intermediate
  /\ last # None => Len(last.rows) <= last.query.limits.output

\* A graph of queries with a handle of another client anywhere is refused before any
\* source is read, and a query that was answered has left no worker behind
\* (client.py _assert_query_affinity, _execute_local_query).
RefusedUnread ==
  /\ (\E n \in Graph(request) : \E x \in ToSet(n.sources) : x.kind = "foreign") =>
       reads = 0 /\ answer.kind # "rows" /\ last = None
  /\ answer # NoAnswer => worker = None /\ stack = <<>>

QueriesAreTrue == AnswersAreSql /\ LimitsHold /\ RefusedUnread
=============================================================================
