---------------------------- MODULE TemporalPlans ----------------------------
(***************************************************************************)
(* Portable temporal plans: what a plan may say                            *)
(* (packages/timeseries/.../plan.py), the plans the SDK's typed helpers    *)
(* build, and the lowering of temporal SQL to a plan                       *)
(* (packages/sdk/.../temporal.py).                                         *)
(*                                                                         *)
(* The fields of a table are named by their roles: "k" the series key,     *)
(* "g" a tag, "t" the event time, "v" the value, "ing" the ingestion time. *)
(* A descriptor is [policy, keyed, ingestion]: its duplicate policy,       *)
(* whether it declares a series key and an ingestion time.  A plan is      *)
(*   [op, from, to, cutoff, project, bucket, groupBy, measures, fills,     *)
(*    where, order, limit, maxRows, exact]                                 *)
(* with measures a function of output names to [fn, field], fills one of   *)
(* output names to [mode, value], "where" one of fields to allowed values, *)
(* order a sequence of [field, desc], and exact = FALSE when a timestamp   *)
(* is not written with the descriptor's precision.                         *)
(***************************************************************************)
EXTENDS Integers, Sequences, SequencesExt

CONSTANTS None

Windowed == {"scan_range", "bucket_aggregate", "gap_fill"}
Bucketed == {"bucket_aggregate", "gap_fill"}
Projects == {"scan_range", "latest", "as_of"}

\* declared_fields; a table whose descriptor has no series key has "k" as a tag
Declared(desc) == {"k", "g", "t", "v"} \union (IF desc.ingestion THEN {"ing"} ELSE {})

\* descriptor: replace-latest needs an ingestion time
DescriptorOk(desc) == desc.policy = "replace_latest" => desc.ingestion

Outputs(plan) == DOMAIN plan.measures

\* the fields the answer has
ResultFields(plan) ==
  IF plan.op \in Projects THEN plan.project ELSE plan.groupBy \union {"bucket"} \union Outputs(plan)

OrderFields(plan) == {plan.order[i].field : i \in DOMAIN plan.order}

\* _range
WindowOk(plan) == plan.op \in Windowed => plan.from < plan.to

\* AggregateMeasure: only a count has no field
MeasuresOk(plan) ==
  /\ plan.op \in Bucketed => Outputs(plan) # {}
  /\ \A o \in Outputs(plan) : plan.measures[o].fn = "count" <=> plan.measures[o].field = None

\* PortableTemporalPlan: each field once in the order, and a limit within the bound
OrderAndLimitOk(plan) ==
  /\ \A i, j \in DOMAIN plan.order : plan.order[i].field = plan.order[j].field => i = j
  /\ plan.limit = None \/ plan.limit \in 1 .. plan.maxRows

\* the checks the classes make when a plan is constructed
WellFormed(plan) ==
  /\ WindowOk(plan) /\ MeasuresOk(plan) /\ OrderAndLimitOk(plan)
  /\ plan.op \in Projects => plan.project # {}
  /\ \A f \in DOMAIN plan.where : plan.where[f] # {}

\* validate_plan_for_descriptor
Valid(plan, desc) ==
  /\ plan.op \in Projects => plan.project \subseteq Declared(desc)
  /\ DOMAIN plan.where \subseteq {"k", "g"}
  /\ plan.op \in Bucketed =>
       /\ plan.groupBy \subseteq {"k", "g"}
       /\ \A o \in Outputs(plan) :
            /\ plan.measures[o].field \in {None, "v"}
            /\ plan.measures[o].fn \in {"first", "last"} => desc.policy # "preserve"
       /\ Outputs(plan) \intersect (plan.groupBy \union {"bucket"}) = {}
       /\ plan.op = "gap_fill" => DOMAIN plan.fills \subseteq Outputs(plan)
  /\ plan.exact
  /\ OrderFields(plan) \subseteq ResultFields(plan)

-----------------------------------------------------------------------------
(* TimeSeriesView *)

Ascending(fields) == [i \in DOMAIN fields |-> [field |-> fields[i], desc |-> FALSE]]

\* the series key, as a sequence
KeyOrder(desc) == IF desc.keyed THEN <<"k">> ELSE <<>>

\* _query: the order of each operation's answer; groups is group_by as a sequence
QueryOrder(op, groups, desc) ==
  Ascending(CASE op \in {"scan_range", "as_of"} -> KeyOrder(desc) \o <<"t">>
              [] op = "latest"                  -> KeyOrder(desc)
              [] OTHER                          -> groups \o <<"bucket">>)

-----------------------------------------------------------------------------
(* Temporal SQL.  A statement is                                           *)
(*   [items, where, group, order, limit, exact], with items a sequence of  *)
(*   [form |-> "column", field]                                            *)
(*   [form |-> "bucket", gap, width, alias]        time_bucket(_gapfill)   *)
(*   [form |-> "measure", fn, field, by, alias, wrap]     wrap locf, ...   *)
(* and where a sequence of [cmp, value] on the event time, cmp one of      *)
(* ">=", "<", "<=", and of [cmp |-> "in", field, values].  group is a      *)
(* sequence of names, or None.  Parsing is SQLGlot's.                      *)

\* a statement that is refused has no plan
Refused == [op |-> "invalid_sql"]

Comparisons(sql, cmp) == SelectSeq(sql.where, LAMBDA w : w.cmp = cmp)

Bound(sql, cmp) == LET w == Comparisons(sql, cmp) IN IF w = <<>> THEN None ELSE w[1].value

\* _temporal_predicates refuses a bound or a tag given twice
PredicatesOk(sql) ==
  /\ \A cmp \in {">=", "<", "<="} : Len(Comparisons(sql, cmp)) <= 1
  /\ LET tags == Comparisons(sql, "in")
     IN  /\ \A i \in DOMAIN tags : tags[i].field \in {"k", "g"}
         /\ \A i, j \in DOMAIN tags : tags[i].field = tags[j].field => i = j

Tags(sql) ==
  LET tags == Comparisons(sql, "in")
  IN  [f \in {tags[i].field : i \in DOMAIN tags} |->
         (CHOOSE w \in {tags[i] : i \in DOMAIN tags} : w.field = f).values]

Items(sql, form) == SelectSeq(sql.items, LAMBDA x : x.form = form)

Kind(sql) ==
  IF sql.items # <<>> /\ sql.items[1].form = "bucket" THEN "bucket"
  ELSE IF \E i \in DOMAIN sql.items : sql.items[i].form = "measure" /\ sql.items[i].fn = "last"
       THEN "latest"
       ELSE "scan"

HalfOpen(a, b) == a # None /\ b # None

\* what the three profiles have in common
Common(sql, maxRows) ==
  [from |-> Bound(sql, ">="), to |-> Bound(sql, "<"), cutoff |-> Bound(sql, "<="),
   where |-> Tags(sql), limit |-> sql.limit, maxRows |-> maxRows, exact |-> sql.exact,
   project |-> {}, bucket |-> None, groupBy |-> {}, measures |-> <<>>, fills |-> <<>>]

\* _aggregate_measure
MeasureOk(m, gap, desc) ==
  /\ m.wrap # None => gap
  /\ m.fn = "count" <=> m.field = None
  /\ m.field \in {None, "v"}
  /\ m.fn \in {"first", "last"} => m.by = "t" /\ desc.policy # "preserve"

\* the fill rules the wrappers ask for
FillsOf(ms) ==
  [a \in {ms[i].alias : i \in {j \in DOMAIN ms : ms[j].wrap # None}} |->
     [mode |-> (CHOOSE m \in {ms[i] : i \in DOMAIN ms} : m.alias = a).wrap, value |-> None]]

LowerBucket(sql, desc, maxRows) ==
  LET b      == sql.items[1]
      groups == Tail(sql.group)
      ms     == Items(sql, "measure")
  IN  IF /\ HalfOpen(Bound(sql, ">="), Bound(sql, "<")) /\ Bound(sql, "<=") = None
         /\ sql.group # None /\ sql.group # <<>> /\ sql.group[1] = b.alias
         /\ ToSet(groups) \subseteq {"k", "g"} /\ IsInjective(groups)
         /\ sql.order = groups \o <<b.alias>>
         /\ Len(Items(sql, "bucket")) = 1 /\ ms # <<>>
         /\ \A i \in DOMAIN Items(sql, "column") : Items(sql, "column")[i].field \in ToSet(groups)
         /\ \A i \in DOMAIN ms : MeasureOk(ms[i], b.gap, desc)
         /\ \A i, j \in DOMAIN ms : ms[i].alias = ms[j].alias => i = j
      THEN [Common(sql, maxRows) EXCEPT
              !.bucket   = [kind |-> "fixed", width |-> b.width, origin |-> 0, offset |-> 0],
              !.groupBy  = ToSet(groups),
              !.measures = [a \in {ms[i].alias : i \in DOMAIN ms} |->
                              LET m == CHOOSE m \in {ms[i] : i \in DOMAIN ms} : m.alias = a
                              IN  [fn |-> m.fn, field |-> m.field]],
              !.fills    = FillsOf(ms)]
           @@ [op    |-> IF b.gap THEN "gap_fill" ELSE "bucket_aggregate",
               order |-> QueryOrder("gap_fill", groups, desc)]
      ELSE Refused

LowerLatest(sql, desc, maxRows) ==
  LET lasts  == Items(sql, "measure")
      groups == IF sql.group = None THEN <<>> ELSE sql.group
  IN  IF /\ Bound(sql, "<=") # None /\ Bound(sql, ">=") = None /\ Bound(sql, "<") = None
         /\ groups = KeyOrder(desc) /\ sql.order = groups
         /\ \A i \in DOMAIN lasts :
              lasts[i].fn = "last" /\ lasts[i].by = "t" /\ lasts[i].field = "v" /\ lasts[i].alias = "v"
         /\ Len(lasts) = 1 /\ Len(sql.items) = Len(groups) + Len(lasts)
      THEN [Common(sql, maxRows) EXCEPT !.project = ToSet(groups) \union {"v"}]
           @@ [op |-> "latest", order |-> QueryOrder("latest", <<>>, desc)]
      ELSE Refused

LowerScan(sql, desc, maxRows) ==
  LET columns == {sql.items[i].field : i \in DOMAIN sql.items}
  IN  IF /\ HalfOpen(Bound(sql, ">="), Bound(sql, "<")) /\ Bound(sql, "<=") = None
         /\ sql.group = None
         /\ \A i \in DOMAIN sql.items : sql.items[i].form = "column"
         /\ columns # {} /\ columns \subseteq Declared(desc)
         /\ sql.order = KeyOrder(desc) \o <<"t">>
      THEN [Common(sql, maxRows) EXCEPT !.project = columns]
           @@ [op |-> "scan_range", order |-> QueryOrder("scan_range", <<>>, desc)]
      ELSE Refused

\* _temporal_limit and _temporal_order
LimitAndOrderOk(sql, maxRows) == sql.order # <<>> /\ sql.limit \in 1 .. maxRows

\* _lower_temporal_sql
Lower(sql, desc, maxRows) ==
  LET plan == CASE Kind(sql) = "bucket" -> LowerBucket(sql, desc, maxRows)
                [] Kind(sql) = "latest" -> LowerLatest(sql, desc, maxRows)
                [] Kind(sql) = "scan"   -> LowerScan(sql, desc, maxRows)
  IN  IF ~ PredicatesOk(sql) \/ ~ LimitAndOrderOk(sql, maxRows) THEN Refused
      ELSE IF plan # Refused /\ ~ WellFormed(plan) THEN Refused
      ELSE plan
=============================================================================
