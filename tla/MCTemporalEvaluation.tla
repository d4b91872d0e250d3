------------------------- MODULE MCTemporalEvaluation -------------------------
(* Small calendar, tables of up to three rows, and the requests of a run. *)
EXTENDS TemporalEvaluation

CONSTANTS MaxChanges, MaxSize

VARIABLES
  about,                                                     \* what the behaviour is about
  db, changes, open, query, stack, worker, told, last, reads, \* RelationalQuery's
  call, step, size, effect, got, reply,                      \* NativeSql's
  provider, file, replaced, stages, gone, commits, job, phase, calls, found, versions, \* LocalTemporal's
  onDisk, suffix, swaps, ask, place, asks, round, seen, sort, held, bound, result, history, \* LocalReads's
  setup, disk, changed, chosen, conf, reg, moment, command, todo, effects, outcome, leases, alive,
  closed, again, work                                        \* Registries's

queryVars == <<db, changes, open, query, stack, worker, told, last, reads>>
callVars == <<call, step, size, effect, got, reply>>
fileVars == <<provider, file, replaced, stages, gone, commits, job, phase, calls, found, versions>>
readVars == <<onDisk, suffix, swaps, ask, place, asks, round, seen, sort, held, bound, result, history>>
wiringVars ==
  <<setup, disk, changed, chosen, conf, reg, moment, command, todo, effects, outcome, leases, alive,
    closed, again, work>>

Cases == INSTANCE QueryCases

Relational == INSTANCE RelationalQuery
                WITH Requests <- Cases!Queries, Databases <- Cases!Databases,
                     request <- query, answer <- told

Native == INSTANCE NativeSql WITH Calls <- Cases!Calls, pc <- step, answer <- reply

OfFiles == INSTANCE LocalCases

Files == INSTANCE LocalTemporal
           WITH Documents <- OfFiles!SeriesFiles, Frames <- OfFiles!Frames, FieldNames <- OfFiles!FieldNames,
                KeySet <- {"k"}, MaxBytes <- 2, MaxRows <- 2, MaxReplaced <- 1, MaxCalls <- 3,
                call <- job, pc <- phase, answer <- found

Reading == INSTANCE LocalReads
             WITH Documents <- OfFiles!Documents, Requests <- OfFiles!Reads,
                  NameSuffixes <- OfFiles!NameSuffixes, MaxReplaced <- 1, MaxCalls <- 2,
                  file <- onDisk, replaced <- swaps, call <- ask, pc <- place, calls <- asks,
                  found <- sort, table <- held, answer <- result, versions <- history

Wiring == INSTANCE Registries
            WITH Setups <- OfFiles!Setups, Contents <- OfFiles!Replacing, Extras <- OfFiles!Extras,
                 Targets <- OfFiles!Targets, Commands <- OfFiles!Commands, MaxWork <- 2,
                 origin <- chosen, stages <- todo

MCZone == [at |-> 14, before |-> 0, after |-> 2]
MCMonthDays == <<2, 3>>

Row(k, g, t, ing, v) == [k |-> k, g |-> g, t |-> t, ing |-> ing, v |-> v]

\* one instant three times, an unknown value, a row at the start and one at the end
Pool ==
  {Row(1, 1, 6, 1, 0), Row(1, 1, 6, 2, 12), Row(1, 2, 6, 2, 24), Row(1, 1, 13, 1, None),
   Row(2, 1, 9, 1, 12), Row(2, 2, 18, 1, 0), Row(1, 1, 17, 3, 24)}

\* up to two rows in any order, and three different rows in one order and its reverse
MCTables ==
  UNION {[1 .. n -> Pool] : n \in 0 .. 2}
  \union UNION {{SetToSeq(rows), Reverse(SetToSeq(rows))} : rows \in kSubset(3, Pool)}

Descriptor(policy, keyed, ingestion) == [policy |-> policy, keyed |-> keyed, ingestion |-> ingestion]

Descriptors ==
  {d \in {Descriptor("preserve", TRUE, TRUE), Descriptor("preserve", FALSE, FALSE),
          Descriptor("reject", TRUE, FALSE), Descriptor("replace_latest", TRUE, TRUE)} : DescriptorOk(d)}

Fixed == [kind |-> "fixed", width |-> 4, origin |-> 12, offset |-> 2]
Calendar(unit, count, origin, offset) ==
  [kind |-> unit, count |-> count, weekStart |-> 1, origin |-> origin, offset |-> offset]

Measured(fn) == [fn |-> fn, field |-> IF fn = "count" THEN None ELSE "v"]

\* the plans of the typed helpers; a helper's limit is its bound on rows
Lookup(op, d, cutoff, limit) ==
  [op |-> op, from |-> 6, to |-> 18, cutoff |-> cutoff, project |-> {"k", "t", "v"},
   bucket |-> None, groupBy |-> {}, measures |-> <<>>, fills |-> <<>>, where |-> <<>>,
   order |-> QueryOrder(op, <<>>, d), limit |-> limit, maxRows |-> 3, exact |-> TRUE]

Aggregated(op, d, bucket, groups) ==
  [Lookup(op, d, None, 9) EXCEPT
     !.project = {}, !.bucket = bucket, !.groupBy = ToSet(groups), !.maxRows = 9,
     !.measures = IF d.policy = "preserve"
                  THEN [n |-> Measured("count"), m |-> Measured("max"), a |-> Measured("avg")]
                  ELSE [n |-> Measured("count"), m |-> Measured("max"), a |-> Measured("last")],
     !.fills = IF op = "gap_fill"
               THEN [n |-> [mode |-> "constant", value |-> 0], m |-> [mode |-> "locf", value |-> None],
                     a |-> [mode |-> IF bucket = Fixed THEN "linear" ELSE "null", value |-> None]]
               ELSE <<>>,
     !.order = QueryOrder(op, groups, d)]

Planned(p, d, source) == [form |-> "plan", what |-> p, desc |-> d, source |-> source, maxRows |-> p.maxRows]

Lookups ==
  {Planned(Lookup("scan_range", d, None, limit), d, s) :
     d \in Descriptors, limit \in {2, 3}, s \in {"portable", "database", "text"}}
  \union {Planned(Lookup(op, d, 13, 3), d, s) :
     op \in {"latest", "as_of"}, d \in Descriptors, s \in {"portable", "text"}}

Buckets ==
  {Fixed, Calendar("day", 1, 0, 0), Calendar("day", 2, 10, 2),
   Calendar("month", 1, 0, 0), Calendar("month", 1, 4, 0),
   Calendar("week", 1, 0, 0)}

Aggregates ==
  {Planned(Aggregated(op, d, b, groups), d, "portable") :
     op \in Bucketed, d \in Descriptors \ {Descriptor("preserve", FALSE, FALSE)}, b \in Buckets,
     groups \in {<<>>, <<"k">>}}

\* plans that must be refused
Bad ==
  LET d == Descriptor("preserve", TRUE, TRUE)
      a == Aggregated("gap_fill", d, Fixed, <<"k">>)
  IN  {Planned(p, d, "portable") : p \in
        {[Lookup("scan_range", d, None, 3) EXCEPT !.to = 6],
         [Lookup("scan_range", d, None, 3) EXCEPT !.exact = FALSE],
         [Lookup("scan_range", d, None, 3) EXCEPT !.project = {"k"}],
         [Lookup("scan_range", d, None, 3) EXCEPT !.maxRows = 2],
         [a EXCEPT !.measures = [n |-> Measured("first")], !.fills = <<>>],
         [a EXCEPT !.maxRows = 3, !.limit = 3],
         \* months that begin on a day some months do not have
         [a EXCEPT !.bucket = Calendar("month", 1, 16, 0)]}}

Column(f) == [form |-> "column", field |-> f]
BucketItem(gap) == [form |-> "bucket", gap |-> gap, width |-> 4, alias |-> "bucket"]
MeasureItem(fn, alias, wrap) ==
  [form |-> "measure", fn |-> fn, field |-> IF fn = "count" THEN None ELSE "v",
   by |-> IF fn \in {"first", "last"} THEN "t" ELSE None, alias |-> alias, wrap |-> wrap]
Cmp(cmp, value) == [cmp |-> cmp, value |-> value]
In(field, values) == [cmp |-> "in", field |-> field, values |-> values]

Statement(items, where, group, order) ==
  [items |-> items, where |-> where, group |-> group, order |-> order, limit |-> 9, exact |-> TRUE]

Within == <<Cmp(">=", 6), Cmp("<", 18)>>

Scans ==
  {Statement(<<Column("k"), Column("t"), Column("v")>>, where, None, <<"k", "t">>) :
     where \in {Within, Within \o <<In("g", {1})>>, Within \o <<In("k", {2}), In("g", {1})>>,
                <<Cmp(">=", 6)>>, Within \o <<In("g", {1}), In("g", {2})>>}}

Latests ==
  {Statement(<<Column("k"), MeasureItem("last", "v", None)>>, where, <<"k">>, <<"k">>) :
     where \in {<<Cmp("<=", 13)>>, <<Cmp("<=", 13), In("g", {1})>>, Within}}

Bucketings ==
  {Statement(<<BucketItem(gap), Column("k"), MeasureItem("count", "n", None), MeasureItem(fn, "a", wrap)>>,
             where, <<"bucket", "k">>, <<"k", "bucket">>) :
     gap \in BOOLEAN, fn \in {"max", "last"}, wrap \in {None, "locf"}, where \in {Within}}

Statements ==
  {[form |-> "sql", what |-> s, desc |-> d, source |-> "portable", maxRows |-> 9] :
     s \in Scans \union Latests \union Bucketings, d \in Descriptors \ {Descriptor("preserve", FALSE, FALSE)}}

MCRequests == Lookups \union Aggregates \union Bad \union Statements

\* A behaviour is about one of the six; what the others would use stays unset.
NoPlan ==
  /\ request = None /\ table = None /\ pc = None /\ plan = None /\ frame = None
  /\ answer = None
NoQuery ==
  /\ db = None /\ changes = None /\ open = None /\ query = None /\ stack = None
  /\ worker = None /\ told = None /\ last = None /\ reads = None
NoCall ==
  /\ call = None /\ step = None /\ size = None /\ effect = None /\ got = None
  /\ reply = None

NoFile ==
  /\ provider = None /\ file = None /\ replaced = None /\ stages = None /\ gone = None
  /\ commits = None /\ job = None /\ phase = None /\ calls = None /\ found = None
  /\ versions = None

NoRead ==
  /\ onDisk = None /\ suffix = None /\ swaps = None /\ ask = None /\ place = None /\ asks = None
  /\ round = None /\ seen = None /\ sort = None /\ held = None /\ bound = None /\ result = None
  /\ history = None

NoWiring ==
  /\ setup = None /\ disk = None /\ changed = None /\ chosen = None /\ conf = None /\ reg = None
  /\ moment = None /\ command = None /\ todo = None /\ effects = None /\ outcome = None
  /\ leases = None /\ alive = None /\ closed = None /\ again = None /\ work = None

MCInit ==
  \/ about = "plan" /\ Init /\ NoQuery /\ NoCall /\ NoFile /\ NoRead /\ NoWiring
  \/ about = "query" /\ Relational!Init /\ NoPlan /\ NoCall /\ NoFile /\ NoRead /\ NoWiring
  \/ about = "native" /\ Native!NativeInit /\ NoPlan /\ NoQuery /\ NoFile /\ NoRead /\ NoWiring
  \/ about = "files" /\ Files!Init /\ NoPlan /\ NoQuery /\ NoCall /\ NoRead /\ NoWiring
  \/ about = "reads" /\ Reading!Init /\ NoPlan /\ NoQuery /\ NoCall /\ NoFile /\ NoWiring
  \/ about = "wiring" /\ Wiring!Init /\ NoPlan /\ NoQuery /\ NoCall /\ NoFile /\ NoRead

MCNext ==
  /\ UNCHANGED about
  /\ \/ about = "plan" /\ Next /\ UNCHANGED <<queryVars, callVars, fileVars, readVars, wiringVars>>
     \/ about = "query" /\ Relational!Next /\ UNCHANGED <<vars, callVars, fileVars, readVars, wiringVars>>
     \/ about = "native" /\ Native!NativeNext /\ UNCHANGED <<vars, queryVars, fileVars, readVars, wiringVars>>
     \/ about = "files" /\ Files!Next /\ UNCHANGED <<vars, queryVars, callVars, readVars, wiringVars>>
     \/ about = "reads" /\ Reading!Next /\ UNCHANGED <<vars, queryVars, callVars, fileVars, wiringVars>>
     \/ about = "wiring" /\ Wiring!Next /\ UNCHANGED <<vars, queryVars, callVars, fileVars, readVars>>

MCSpec ==
  MCInit /\ [][MCNext]_<<about, vars, queryVars, callVars, fileVars, readVars, wiringVars>>

\* The answers to a temporal plan, to a relational statement, to a native one, to a
\* call of a local file's provider and to the read of a local table are what was
\* asked for: TemporalEvaluation's AnswersAreExact and LoweringAgrees (the two
\* evaluators of a plan), RelationalQuery's QueriesAreTrue,
\* NativeSql's NativeIsHonest, LocalTemporal's LocalFilesAreTrue and LocalReads's
\* LocalReadsAreTrue; and the provider that is asked is the one that declared the
\* endpoint, with its own credentials: Registries's RegistriesAreTrue.
AnswersAreTrue ==
  /\ about = "plan" => AnswersAreExact /\ LoweringAgrees
  /\ about = "query" => Relational!QueriesAreTrue
  /\ about = "native" => Native!NativeIsHonest
  /\ about = "files" => Files!LocalFilesAreTrue
  /\ about = "reads" => Reading!LocalReadsAreTrue
  /\ about = "wiring" => Wiring!RegistriesAreTrue
=============================================================================
