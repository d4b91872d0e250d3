-------------------------- MODULE TemporalEvaluation --------------------------
(***************************************************************************)
(* One temporal query, from the SDK's call to its answer: the SQL is       *)
(* lowered to a plan, the connector reads its rows, the plan is checked    *)
(* against the descriptor, the rows are filtered, resolved, aggregated and *)
(* filled, then sorted and cut.  Sources: packages/timeseries/.../         *)
(* evaluator.py, the executors of the connectors, and the SDK's            *)
(* temporal.py.                                                            *)
(*                                                                         *)
(* A request is [form, what, desc, source, maxRows]: form "sql" with a     *)
(* statement, or "plan" with a plan; source "portable" (a file or a        *)
(* snapshot: every row is read), "database" (a time column a database can  *)
(* compare: PostgreSQL, or SQLite with numbers) or "text" (SQLite with the *)
(* timestamps the SDK writes).                                             *)
(***************************************************************************)
EXTENDS TemporalBuckets, TemporalPlans

CONSTANTS
  Requests,   \* the requests
  Tables      \* the contents a table may have: sequences of [k, g, t, ing, v]

VARIABLES
  request,    \* the call
  table,      \* the rows of the table, in the order of the file
  pc,         \* the step the call has reached
  plan,       \* the portable plan
  frame,      \* the rows in work
  answer      \* the answer

vars == <<request, table, pc, plan, frame, answer>>

NoAnswer == [kind |-> "none", rows |-> <<>>]
Error(kind) == [kind |-> kind, rows |-> <<>>]

desc == request.desc

-----------------------------------------------------------------------------
(* Filters *)

Tagged(r) == \A f \in DOMAIN plan.where : r[f] \in plan.where[f]

InWindow(r) ==
  CASE plan.op \in Windowed -> plan.from <= r.t /\ r.t < plan.to
    [] OTHER                -> plan.cutoff = None \/ r.t <= plan.cutoff

\* _storage_where: what the database compares.  The text the SDK stores for an
\* instant ends in "+00:00" and is less than the text of a bound at that instant.
Stored(r) ==
  CASE request.source # "text" -> InWindow(r)
    [] plan.op \in Windowed    -> plan.from < r.t /\ r.t <= plan.to
    [] OTHER                   -> plan.cutoff = None \/ r.t <= plan.cutoff

-----------------------------------------------------------------------------
(* Sorting.  Polars sorts with maintain_order = True: a row stays behind   *)
(* its equals.  Less(a, b) is the strict order of a sort.                  *)

InsertRow(rows, r, Less(_, _)) ==
  LET before == {i \in 0 .. Len(rows) : \A j \in i + 1 .. Len(rows) : Less(r, rows[j])}
  IN  InsertAt(rows, Min(before) + 1, r)

SortRows(rows, Less(_, _)) ==
  FoldLeft(LAMBDA sorted, r : InsertRow(sorted, r, Less), <<>>, rows)

\* nulls come first
Before(a, b) == IF b = None THEN FALSE ELSE a = None \/ a < b

\* the order of a sequence of [field, desc]
LessBy(order, a, b) ==
  \E i \in DOMAIN order :
    /\ \A j \in 1 .. i - 1 : a[order[j].field] = b[order[j].field]
    /\ IF order[i].desc THEN Before(b[order[i].field], a[order[i].field])
                        ELSE Before(a[order[i].field], b[order[i].field])

SortBy(rows, order) == SortRows(rows, LAMBDA a, b : LessBy(order, a, b))

-----------------------------------------------------------------------------
(* Latest rows and duplicates *)

SameSeries(a, b) == desc.keyed => a.k = b.k

SameObservation(a, b) == SameSeries(a, b) /\ a.t = b.t

\* _latest_rows
LatestRows(rows) ==
  SelectSeq(rows, LAMBDA r : \A i \in DOMAIN rows : SameSeries(r, rows[i]) => rows[i].t <= r.t)

HasDuplicates(rows) ==
  \E i, j \in DOMAIN rows : i # j /\ SameObservation(rows[i], rows[j])

\* _resolve_duplicates under replace-latest keeps the last of each observation in
\* the order of the ingestion time; that sort is not stable, so of equal ingestion
\* times any may be last
LatestOfDuplicates(rows) ==
  {s \in UNION {[1 .. n -> ToSet(rows)] : n \in 0 .. Len(rows)} :
     /\ \A r \in ToSet(rows) : \E i \in DOMAIN s : SameObservation(r, s[i]) /\ r.ing <= s[i].ing
     /\ ~ HasDuplicates(s)
     /\ \A i, j \in DOMAIN s : i < j => ~ LessBy(Ascending(KeyOrder(desc) \o <<"t">>), s[j], s[i])}

Resolved(rows) == IF desc.policy = "replace_latest" THEN LatestOfDuplicates(rows) ELSE {rows}

-----------------------------------------------------------------------------
(* Aggregates *)

Values(rows, field) ==
  LET known == SelectSeq(rows, LAMBDA r : r[field] # None)
  IN  [i \in DOMAIN known |-> known[i][field]]

Total(values) == FoldLeft(LAMBDA a, x : a + x, 0, values)

\* _aggregate_expression over the rows of one bucket, in order
Measure(m, rows) ==
  LET values == Values(rows, m.field)
  IN  CASE m.fn = "count" -> Len(rows)
        [] m.fn = "first" -> rows[1][m.field]
        [] m.fn = "last"  -> rows[Len(rows)][m.field]
        [] OTHER          -> IF values = <<>> THEN None
                             ELSE CASE m.fn = "min" -> Min(ToSet(values))
                                    [] m.fn = "max" -> Max(ToSet(values))
                                    [] m.fn = "sum" -> Total(values)
                                    [] m.fn = "avg" -> Total(values) \div Len(values)

\* the order of the group_by fields
Groups(fields) == SelectSeq(<<"k", "g">>, LAMBDA f : f \in fields)

Keys(p) == Ascending(Groups(p.groupBy) \o <<"bucket">>)

SameKeys(p, a, b) == \A f \in p.groupBy \union {"bucket"} : a[f] = b[f]

\* A variant: rows are aggregated in the order they were read.
UnsortedRows(rows) ==
  SortBy([i \in DOMAIN rows |-> rows[i] @@ [bucket |-> BucketOf(rows[i].t, plan.bucket)]], Keys(plan))

\* the rows with their labels, as _aggregate_rows sorts them
LabelledRows(rows) ==
  SortBy([i \in DOMAIN rows |-> rows[i] @@ [bucket |-> BucketOf(rows[i].t, plan.bucket)]],
         Keys(plan) \o Ascending(<<"t">> \o (IF desc.ingestion THEN <<"ing">> ELSE <<>>)))

\* _aggregate_rows
AggregateRows(rows) ==
  LET labelled == LabelledRows(rows)
      heads    == SelectSeq([i \in DOMAIN labelled |-> i],
                    LAMBDA i : i = 1 \/ ~ SameKeys(plan, labelled[i], labelled[i - 1]))
      members(r) == SelectSeq(labelled, LAMBDA x : SameKeys(plan, x, r))
  IN  [h \in DOMAIN heads |->
         LET r == labelled[heads[h]]
         IN  [f \in plan.groupBy \union {"bucket"} |-> r[f]]
             @@ [o \in Outputs(plan) |-> Measure(plan.measures[o], members(r))]]

-----------------------------------------------------------------------------
(* Gap filling *)

SameGroup(a, b) == \A f \in plan.groupBy : a[f] = b[f]

\* A variant: the value before a gap is looked for in any group.
CarryAcross(rows, i, o) ==
  LET known == {j \in 1 .. i : rows[j][o] # None}
  IN  IF known = {} THEN None ELSE rows[Max(known)][o]

\* forward_fill over the group
Carry(rows, i, o) ==
  LET known == {j \in 1 .. i : SameGroup(rows[j], rows[i]) /\ rows[j][o] # None}
  IN  IF known = {} THEN None ELSE rows[Max(known)][o]

\* interpolate, by the position in the group: nothing beyond the first or last value
Interpolate(rows, i, o) ==
  LET known  == {j \in DOMAIN rows : SameGroup(rows[j], rows[i]) /\ rows[j][o] # None}
      before == {j \in known : j <= i}
      after  == {j \in known : j >= i}
  IN  IF before = {} \/ after = {} THEN None
      ELSE LET a == Max(before)
               z == Min(after)
           IN  IF a = z THEN rows[i][o]
               ELSE rows[a][o] + ((rows[z][o] - rows[a][o]) * (i - a)) \div (z - a)

Filled(rows, i, o) ==
  LET mode == IF o \in DOMAIN plan.fills THEN plan.fills[o].mode ELSE "null"
  IN  CASE mode = "null"     -> rows[i][o]
        [] mode = "constant" -> IF rows[i][o] = None THEN plan.fills[o].value ELSE rows[i][o]
        [] mode = "locf"     -> Carry(rows, i, o)
        [] mode = "linear"   -> Interpolate(rows, i, o)

Domain == BucketDomain(plan.from, plan.to, plan.bucket)

\* the groups that have a row; without group_by there is one
GroupsOf(rows) ==
  IF plan.groupBy = {} THEN {<<>>}
  ELSE {[f \in plan.groupBy |-> rows[i][f]] : i \in DOMAIN rows}

\* the groups crossed with the buckets, each with its aggregate if it has one
Expanded(rows) ==
  LET cells == {group @@ [bucket |-> b] : group \in GroupsOf(rows), b \in Domain}
      cell(c) ==
        LET found == {i \in DOMAIN rows : SameKeys(plan, rows[i], c)}
        IN  c @@ [o \in Outputs(plan) |->
                    IF found = {} THEN None ELSE rows[CHOOSE i \in found : TRUE][o]]
  IN  FoldSet(LAMBDA c, sorted :
                InsertRow(sorted, cell(c), LAMBDA a, b : LessBy(Keys(plan), a, b)), <<>>, cells)

\* _gap_fill; the rows are an aggregate's
GapFill(rows) ==
  LET expanded == Expanded(rows)
  IN  [i \in DOMAIN expanded |->
         [f \in DOMAIN expanded[i] |->
            IF f \in Outputs(plan) THEN Filled(expanded, i, f) ELSE expanded[i][f]]]

\* A variant: the size of the expanded table is not looked at.
UnboundedGaps(rows) ==
  CASE ChainStops(plan.from, plan.to, plan.bucket) -> "value_error"
    [] \E i \in DOMAIN rows : rows[i].bucket \notin Domain -> "protocol_invalid"
    [] OTHER -> "ok"

\* what _gap_fill raises, or "ok"
GapFillError(rows) ==
  CASE ChainStops(plan.from, plan.to, plan.bucket) -> "value_error"
    [] Cardinality(GroupsOf(rows)) * Cardinality(Domain) > plan.maxRows -> "resource_limit"
    [] \E i \in DOMAIN rows : rows[i].bucket \notin Domain -> "protocol_invalid"
    [] OTHER -> "ok"

-----------------------------------------------------------------------------
(* The answer *)

\* _sort_result: with duplicates preserved the ingestion time breaks ties
ResultOrder ==
  IF /\ desc.policy = "preserve" /\ desc.ingestion /\ plan.op \in Projects
     /\ "ing" \notin OrderFields(plan)
  THEN plan.order \o Ascending(<<"ing">>)
  ELSE plan.order

Project(r) == [f \in ResultFields(plan) |-> r[f]]

Cut(rows, n) == IF n = None THEN rows ELSE SubSeq(rows, 1, Min({n, Len(rows)}))

\* A variant: the rows are cut before they are sorted.
CutThenSorted(rows) ==
  LET sorted == SortBy(Cut(rows, plan.limit), ResultOrder)
  IN  [i \in DOMAIN sorted |-> Project(sorted[i])]

SortedThenCut(rows) ==
  LET cut == Cut(SortBy(rows, ResultOrder), plan.limit)
  IN  [i \in DOMAIN cut |-> Project(cut[i])]

-----------------------------------------------------------------------------
(* The steps *)

Init ==
  /\ request \in Requests
  /\ table \in Tables
  /\ pc = IF request.form = "sql" THEN "lower" ELSE "build"
  /\ plan = None /\ frame = <<>> /\ answer = NoAnswer

Goto(step) == pc' = step /\ answer' = answer /\ UNCHANGED <<request, table>>

Answer(a) == pc' = "done" /\ answer' = a /\ UNCHANGED <<request, table>>

\* TimeSeriesView.sql
LowerSql ==
  LET lowered == Lower(request.what, desc, request.maxRows)
  IN  /\ pc = "lower"
      /\ IF lowered = Refused
         THEN Answer(Error("invalid_sql")) /\ UNCHANGED <<plan, frame>>
         ELSE Goto("read") /\ plan' = lowered /\ UNCHANGED frame

\* the constructors of the plan
Build ==
  /\ pc = "build"
  /\ IF WellFormed(request.what)
     THEN Goto("read") /\ plan' = request.what /\ UNCHANGED frame
     ELSE Answer(Error("value_error")) /\ UNCHANGED <<plan, frame>>

\* the connector's executor reads its rows, a database those of the window by time
Read ==
  LET found == IF request.source = "portable" THEN table
               ELSE SortBy(SelectSeq(table, LAMBDA r : Tagged(r) /\ Stored(r)), Ascending(<<"t">>))
  IN  /\ pc = "read"
      /\ UNCHANGED plan
      /\ IF request.source # "portable" /\ Len(found) > plan.maxRows
         THEN Answer(Error("resource_limit")) /\ UNCHANGED frame
         ELSE Goto("validate") /\ frame' = found

\* PolarsTemporalExecutor.execute, up to the filters
Validate ==
  /\ pc = "validate"
  /\ UNCHANGED <<plan, frame>>
  /\ IF ~ Valid(plan, desc) THEN Answer(Error("protocol_invalid"))
     ELSE IF Len(frame) > plan.maxRows THEN Answer(Error("resource_limit"))
     ELSE Goto("filter")

\* the deadline is looked at after the read, after the filters and at the end
TooLate ==
  /\ pc \in {"filter", "shape", "finish"}
  /\ Answer(Error("resource_limit"))
  /\ UNCHANGED <<plan, frame>>

Filter ==
  /\ pc = "filter"
  /\ frame' = SelectSeq(frame, LAMBDA r : Tagged(r) /\ InWindow(r))
  /\ Goto("shape")
  /\ UNCHANGED plan

\* a lookup takes the latest rows first, and resolves duplicates among them
Candidates(rows) == IF plan.op \in {"latest", "as_of"} THEN LatestRows(rows) ELSE rows

Shape ==
  LET rows == Candidates(frame)
  IN  /\ pc = "shape"
      /\ UNCHANGED plan
      /\ \/ /\ desc.policy = "reject" /\ HasDuplicates(rows)
            /\ Answer(Error("value_error")) /\ UNCHANGED frame
         \/ /\ ~ (desc.policy = "reject" /\ HasDuplicates(rows))
            /\ \E resolved \in Resolved(rows) :
                 IF plan.op \notin Bucketed
                 THEN Goto("finish") /\ frame' = resolved
                 ELSE LET aggregate == AggregateRows(resolved)
                      IN  IF plan.op = "bucket_aggregate"
                          THEN Goto("finish") /\ frame' = aggregate
                          ELSE IF GapFillError(aggregate) # "ok"
                          THEN Answer(Error(GapFillError(aggregate))) /\ UNCHANGED frame
                          ELSE Goto("finish") /\ frame' = GapFill(aggregate)

Finish ==
  LET rows == SortedThenCut(frame)
  IN  /\ pc = "finish"
      /\ UNCHANGED <<plan, frame>>
      /\ IF Len(rows) > plan.maxRows
         THEN Answer(Error("resource_limit"))
         ELSE Answer([kind |-> "rows", rows |-> rows])

Done == pc = "done" /\ UNCHANGED vars

Next == LowerSql \/ Build \/ Read \/ Validate \/ TooLate \/ Filter \/ Shape \/ Finish \/ Done

Spec == Init /\ [][Next]_vars

-----------------------------------------------------------------------------
(* lower_postgres: the whole query as one PostgreSQL statement             *)

\* A variant: every aggregate is lowered, whatever its bucket's count and offset.
EveryAggregate(p) == p.op \in Projects \union {"bucket_aggregate"}

\* the operations it lowers; the others are evaluated here
Lowered(p) ==
  \/ p.op \in Projects
  \/ /\ p.op = "bucket_aggregate"
     /\ \A o \in Outputs(p) : p.measures[o].fn \in {"count", "min", "max", "sum", "avg"}
     /\ p.bucket.kind = "fixed" \/ (p.bucket.count = 1 /\ p.bucket.offset = 0)

\* date_trunc: the beginning of the unit on the wall
DateTrunc(kind, l) ==
  LET month == MonthOf(l)
  IN  CASE kind = "day"  -> (l \div DayLen) * DayLen
        [] kind = "week" -> (l \div (7 * DayLen)) * 7 * DayLen
        [] OTHER         -> FirstDay[month - (month % MonthsPerUnit[kind])] * DayLen

\* date_bin, or date_trunc in the bucket's zone
SqlLabel(t, b) == IF b.kind = "fixed" THEN FixedStart(t, b) ELSE Utc(DateTrunc(b.kind, Local(t)))

\* the ranks of ROW_NUMBER(): later rows first, then later ingestion
Outranks(a, b) == a.t > b.t \/ (a.t = b.t /\ desc.ingestion /\ a.ing > b.ing)

\* the answers the statement may have, as sets of positions and of rows
SqlRows ==
  LET asked == {i \in DOMAIN table : Tagged(table[i]) /\ InWindow(table[i])}
      first == {i \in asked : \A j \in asked :
                  SameSeries(table[i], table[j]) /\ i # j => ~ Outranks(table[j], table[i])}
      key(i) == [f \in plan.groupBy |-> table[i][f]] @@ [bucket |-> SqlLabel(table[i].t, plan.bucket)]
      group(x) == SelectSeq(table, LAMBDA r : Tagged(r) /\ InWindow(r)
                    /\ SqlLabel(r.t, plan.bucket) = x.bucket /\ \A f \in plan.groupBy : r[f] = x[f])
  IN  CASE plan.op = "scan_range"         -> {Project(table[i]) : i \in asked}
        [] plan.op \in {"latest", "as_of"} -> {Project(table[i]) : i \in first}
        [] OTHER -> {x @@ [o \in Outputs(plan) |-> Measure(plan.measures[o], group(x))] : x \in {key(i) : i \in asked}}

-----------------------------------------------------------------------------
(* What an answer must be, said of the table and the request as sets       *)

\* a condition of a statement holds of a row
Holds(r, w) ==
  CASE w.cmp = "in" -> r[w.field] \in w.values
    [] w.cmp = ">=" -> r.t >= w.value
    [] w.cmp = "<"  -> r.t < w.value
    [] w.cmp = "<=" -> r.t <= w.value

\* The request asks for the row.  A window is half-open and has its start
\* (2026-08-29-portable-time-series-storage-design.md:196 and :221).
Asked(r) ==
  IF request.form = "sql"
  THEN \A i \in DOMAIN request.what.where : Holds(r, request.what.where[i])
  ELSE Tagged(r) /\ InWindow(r)

\* Where the code departs from that: SQLite compares the text of an instant, and
\* finds the row at the start of a window to be before it (sqlite/temporal.py
\* _storage_where).  These rows alone may be missing from an answer, and are.
LostAtTheStart(r) == request.source = "text" /\ plan.op \in Windowed /\ r.t = plan.from

\* the positions of the rows asked for and not lost; a lookup wants the last of each series
Wanted ==
  LET asked == {i \in DOMAIN table : Asked(table[i]) /\ ~ LostAtTheStart(table[i])}
  IN  IF plan.op \in {"latest", "as_of"}
      THEN {i \in asked : \A j \in asked :
              SameSeries(table[i], table[j]) => table[j].t <= table[i].t}
      ELSE asked

\* the rows that may stand for their observation
Standing ==
  IF desc.policy = "replace_latest"
  THEN {i \in Wanted : \A j \in Wanted :
          SameObservation(table[i], table[j]) => table[j].ing <= table[i].ing}
  ELSE Wanted

\* how many rows the lookup has: one of each observation when duplicates are replaced
HowMany ==
  IF desc.policy = "replace_latest"
  THEN Cardinality({IF desc.keyed THEN <<table[i].k, table[i].t>> ELSE <<table[i].t>> : i \in Wanted})
  ELSE Cardinality(Wanted)

Answered == pc = "done" /\ answer.kind = "rows"

\* the limit has cut nothing off
Whole == plan.limit = None \/ Len(answer.rows) < plan.limit

Times(rows, x) == Cardinality({i \in DOMAIN rows : rows[i] = x})

\* A lookup answers with the rows asked for, each as often as it stands in the
\* table and once for each observation when duplicates are replaced, in the
\* order of the plan; a limit keeps the first of them and nothing else is lost.
LookupsAreExact ==
  Answered /\ plan.op \in Projects =>
    LET rows == answer.rows
        standing(x) == Cardinality({i \in Standing : Project(table[i]) = x})
        candidates == {Project(table[i]) : i \in Standing}
    IN  /\ Len(rows) = (IF plan.limit = None THEN HowMany ELSE Min({HowMany, plan.limit}))
        /\ \A i \in DOMAIN rows : rows[i] \in candidates /\ Times(rows, rows[i]) <= standing(rows[i])
        /\ \A i, j \in DOMAIN rows : i < j => ~ LessBy(plan.order, rows[j], rows[i])
        /\ desc.policy # "replace_latest" =>
             \A x \in candidates : Times(rows, x) < standing(x) =>
               \A i \in DOMAIN rows : ~ LessBy(plan.order, x, rows[i])
        /\ desc.policy = "reject" => \A i, j \in Wanted : i # j => ~ SameObservation(table[i], table[j])

\* A bucket whose boundaries are where the wall clock shows them once, in every
\* month: the midnight that begins a week, a day every month has, an hour that
\* is neither skipped nor shown twice.
Plain(b) ==
  LET o == Local(Datetime(b.origin - b.offset))
      day == (o \div DayLen) - FirstDay[MonthOf(o)]
      change == Zone.at + Min({Zone.before, Zone.after})
  IN  \/ b.kind = "fixed"
      \/ /\ b.kind = "week" => o % DayLen = 0
         /\ b.kind \in DOMAIN MonthsPerUnit => \A m \in 0 .. Months : day < DaysIn(m)
         /\ \A l \in change .. change + Max({Zone.before - Zone.after, Zone.after - Zone.before}) - 1 :
              l % DayLen # o % DayLen
         /\ b.offset % Micro = 0 /\ b.origin % Micro = 0

\* the rows an aggregate is made of; when duplicates are replaced, one of each observation
Members(x) ==
  {i \in Standing :
     /\ \A f \in plan.groupBy : table[i][f] = x[f]
     /\ x.bucket <= table[i].t /\ table[i].t < NextBucket(x.bucket, plan.bucket)}

\* An aggregate accounts for every row asked for in one bucket, the one whose
\* beginning is the last before the row; a count counts them, first and last are
\* of the earliest and the latest.
AggregatesAccount ==
  Answered /\ plan.op = "bucket_aggregate" /\ Plain(plan.bucket) =>
    LET rows == answer.rows
    IN  /\ \A i, j \in DOMAIN rows : SameKeys(plan, rows[i], rows[j]) => i = j
        /\ \A i \in DOMAIN rows : Members(rows[i]) # {}
        /\ Whole => \A i \in Wanted : \E x \in ToSet(rows) :
             /\ \A f \in plan.groupBy : table[i][f] = x[f]
             /\ x.bucket <= table[i].t /\ table[i].t < NextBucket(x.bucket, plan.bucket)
        /\ \A x \in ToSet(rows) : \A o \in Outputs(plan) :
             LET m == plan.measures[o]
                 latest(i) == \A j \in Members(x) : table[j].t <= table[i].t
                 known == {i \in Members(x) : table[i].v # None}
             IN  /\ m.fn = "count" /\ desc.policy # "replace_latest" => x[o] = Cardinality(Members(x))
                 /\ m.fn = "last" => \E i \in Members(x) : latest(i) /\ x[o] = table[i].v
                 /\ m.fn \in {"min", "max", "sum", "avg"} => (x[o] = None <=> known = {})
                 /\ m.fn = "max" /\ desc.policy # "replace_latest" /\ known # {} =>
                      x[o] = Max({table[i].v : i \in known})

\* the filling the request asks for
AskedFill(o) ==
  IF request.form = "sql"
  THEN LET wraps == {m \in ToSet(request.what.items) : m.form = "measure" /\ m.alias = o /\ m.wrap # None}
       IN  IF wraps = {} THEN "null" ELSE (CHOOSE m \in wraps : TRUE).wrap
  ELSE IF o \in DOMAIN plan.fills THEN plan.fills[o].mode ELSE "null"

\* Gap filling gives each group of the aggregate every bucket of the range once,
\* carries and interpolates within the group and never from outside the range, and
\* leaves what was measured as it is.
GapsAreFilledInside ==
  Answered /\ plan.op = "gap_fill" /\ Plain(plan.bucket) /\ Whole =>
    LET rows == answer.rows
        same(x, y) == \A f \in plan.groupBy : x[f] = y[f]
        measured(x) == Members(x) # {}
    IN  /\ \A i, j \in DOMAIN rows : SameKeys(plan, rows[i], rows[j]) => i = j
        /\ \A x \in ToSet(rows) :
             /\ x.bucket < plan.to /\ NextBucket(x.bucket, plan.bucket) > plan.from
             /\ NextBucket(x.bucket, plan.bucket) < plan.to =>
                  \E y \in ToSet(rows) : same(x, y) /\ y.bucket = NextBucket(x.bucket, plan.bucket)
             /\ \E y \in ToSet(rows) : same(x, y) /\ y.bucket <= plan.from
        /\ \A i \in Wanted : \E x \in ToSet(rows) : i \in Standing => i \in Members(x)
        /\ \A x \in ToSet(rows) : \A o \in Outputs(plan) :
             LET mode == AskedFill(o)
                 earlier == {y \in ToSet(rows) : same(x, y) /\ y.bucket < x.bucket}
                 value(y) == Measure(plan.measures[o],
                               LET s == SetToSeq(Members(y)) IN [n \in DOMAIN s |-> table[s[n]]])
                 known == {y \in earlier : measured(y) /\ value(y) # None}
             IN  plan.measures[o].fn \in {"count", "max"} /\ desc.policy # "replace_latest" =>
                   /\ measured(x) /\ value(x) # None => x[o] = value(x)
                   /\ ~ measured(x) /\ mode = "null" => x[o] = None
                   /\ ~ measured(x) /\ mode = "locf" =>
                        IF known = {} THEN x[o] = None
                        ELSE \E y \in known : x[o] = value(y) /\ \A z \in known : z.bucket <= y.bucket
                   /\ ~ measured(x) /\ mode = "linear" /\ known = {} => x[o] = None

\* the wall clock's own boundaries are the bucket's
Natural(b) ==
  LET o == Local(Datetime(b.origin - b.offset))
  IN  b.kind = "fixed" \/ (b.weekStart = 1 /\ Plain(b) /\ DateTrunc(b.kind, o) = o)

\* Where no instant of a series is observed twice and a calendar bucket begins where
\* the wall clock's unit begins, the statement lower_postgres writes has the rows of
\* the portable evaluation.
LoweringAgrees ==
  /\ Answered /\ Lowered(plan) /\ Whole /\ request.source # "text"
  /\ \A i, j \in DOMAIN table : i # j => ~ SameObservation(table[i], table[j])
  /\ plan.op = "bucket_aggregate" => Natural(plan.bucket)
  => ToSet(answer.rows) = SqlRows

\* Every part of a query has its form, and neither the rows in work nor the answer
\* ever exceed the bound on rows.
TypeOK ==
  /\ request \in Requests /\ table \in Tables
  /\ pc \in {"lower", "build", "read", "validate", "filter", "shape", "finish", "done"}
  /\ pc = "done" <=> answer # NoAnswer
  /\ answer.kind \in {"none", "rows", "invalid_sql", "value_error", "protocol_invalid", "resource_limit"}

\* No step holds more rows than the plan allows, however many a gap fill would
\* make, and the answer has the plan's fields (evaluator.py _check_rows, gap_fill).
BoundsHold ==
  /\ pc \in {"filter", "shape", "finish"} => Len(frame) <= plan.maxRows
  /\ answer.kind = "rows" =>
       /\ Len(answer.rows) <= request.maxRows
       /\ \A i \in DOMAIN answer.rows : DOMAIN answer.rows[i] = ResultFields(plan)

\* What the evaluator answers to a lookup, an aggregation and a gap fill is what
\* its definition over the table's rows says (evaluator.py evaluate).
AnswersAreExact == BoundsHold /\ LookupsAreExact /\ AggregatesAccount /\ GapsAreFilledInside
=============================================================================
