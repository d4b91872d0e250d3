# Open Table Connector in TLA+

A formal model of Open Table Connector: the managed stores and create-only tables that must
survive a failure half-way, the connector process, the local workbook and the spreadsheet
session, the remote formula providers and their ledger, the mobile table, the readers of
local files and remote tables, and the evaluation of temporal and portable SQL. TLC checks
the models on small instances; TLAPS proves the properties that matter most for every
instance.

    tlc -config MCSQLiteStore.cfg MCSQLiteStore      # one run
    tlapm SQLStores_proofs.tla                       # one proof module

`PROJECT.json` lists the components, the runs, the lines of source each definition stands
for, the hazards and which property answers each, and the theorems.

## 1. Inventory

Callers (the CLI, FinClaw, Python programs) talk to the SDK; the SDK routes to connectors; a
connector owns physical I/O, retries, limits and receipts. The contract, formulas,
timeseries, spreadsheets and artifacts packages are the values they exchange.

| component | state it keeps | operations | what is hard | correct when |
|---|---|---|---|---|
| managed stores: `local_files/managed_snapshots.py`, `sqlite/temporal.py`, `postgres/temporal.py`, `maybe_sheet/temporal.py` | stages, commits, current snapshot, receipts; files, tables or a remote service | stage, commit, abort, current, readback, recover | several processes; crash between two renames; connection lost at COMMIT; retries | one content per key, commit effective once, receipts true, current readable |
| `sdk/temporal.py` TemporalStorage | handles with leases and retention, owner and binding | stage, commit, readback, current, abort | expiry between check and use; outcome after a durable commit | expired handles mutate nothing; outcomes true |
| connector process `process/server.py` | message-id window, sessions, cancellation marks, semaphore, leases | HELLO, CANCEL, read/stage/commit..., CLOSE | one reader, four workers, cancellation against completion, full window and semaphore | every frame answered once, cancelled results discarded, permits and leases returned |
| local workbook `local_files/spreadsheet_workbook.py`, `excel_formula.py`, `formulas/operations.py` | the file, its lock file, staging files, an idempotency ledger | create, commit a batch, rich commit, set formulas, recalculate | processes that save the same file; lost updates; revisions; retry after an unknown outcome | no edit lost, revision enforced, answers true, no blind repeat |
| workbook content, worksheet handles (`sdk/workbook.py`) | the book with its queued edits; generations of names | edits of sheets, cells, merges, rows; sort, verify; range and worksheet handles | edits in any order; a name that comes to mean another sheet | nothing hidden under a merge, references follow, an edit reaches the sheet it was meant for |
| spreadsheet session `spreadsheets/_session.py` and MaybeSheet's batches | queue of edits, frozen/closed/sealed, last result | queue, write, observe, verify, close | try-lock between threads; partial and unknown writes | no command sent twice, in order, answers true |
| remote formulas (Maybe, Google, Feishu) and formula views | idempotency ledger, bindings, what a view remembers | bind, read formulas and values, set, recalculate | retries, eviction, late requests; other users rename, grow and edit between two requests | one dispatch per key while remembered, answers true of one state of the sheet |
| portable create-only tables (CSV/JSON/JSONL/Excel) | a file, replay records, an index | materialize, replay | two creators; crash before the link | a key names one content; nobody overwrites |
| MaybeSheet creation of tables | cached probe, references | probe, create, reconcile | lost, late and partial answers | an answer is true of the table it names |
| table connectors (SQLite, PostgreSQL) and SDK transactions | connections, the context's transaction | write, execute, begin, commit, abort | statements that fail half-way; tasks that inherit a context | answers true of the tables; uncommitted rows are seen by their own transaction only |
| remote tables (Maybe, Google, Feishu) | none | read pages, append, replace | edits between pages; batches half written; retries | an answer says what reached the table |
| local readers and local temporal providers | none; snapshots in the managed store | open, inspect, read, plan, stage, commit | the file is replaced between two looks | rows of one version, never misread as another value |
| SDK client, portable and native SQL | a worker process | collect, query, execute | nested collections; a deadline; limits | the answer is the statement's, or a true refusal |
| timeseries plans, buckets, evaluator, temporal SQL | none | lower, check, evaluate, fill gaps | boundaries, duplicates, gaps, months | equals the request's meaning on every provider |
| registries and CLI commands | routes, connectors, credential leases | load configuration, register, open, read, convert, import, close | refused registrations, leases, closes that raise | the provider that declared an endpoint is called, with its own credentials |
| mobile table (controller, host, adapter) | rows, drafts, one read and one mutation in flight | load, edit, save, cancel, refresh, page | stale answers; drafts edited during a save | a draft is never lost; a save is not repeated with other data |
| preview sessions, process artifacts, MCP, OfficeCLI, dbt, conformance, renderers | little or none | one call | partial output | see `PROJECT.json` |

Interaction: the SDK's temporal facade calls a managed store directly or, through the process
bindings, by frames to the connector process, whose workers call the same stores. A workbook
handle of the SDK calls a spreadsheet session, which calls a provider (`local_files`,
MaybeSheet). Local formulas and local sessions meet in the same file and the same `.otc.lock`.
The mobile host calls the SDK's record functions, which call MaybeSheet. The CLI reads through
the SDK where a provider has a descriptor, and through its own adapters otherwise.

## 2. Plan

The order of work was: the managed target and its stores; the connector process; the
workbook file and the session; portable tables; then the remote formulas, the mobile table,
worksheet handles and the workbook's content, table transactions, the SDK's temporal storage,
MaybeSheet's creation and temporal store; then reading: local files, remote tables, portable
and native SQL, temporal plans; then the registries. All of it is done. The modules that hold
state over many steps (stores, process, file, session, tables, formula sets, mobile table)
are written to be proved about: one action per step, an invariant as a conjunction of named
parts, no RECURSIVE operator anywhere.

What could be added: preview sessions, the conversions of the CLI's codecs, and proofs about
the formula views and the remote tables.

## 3. Modules

Modules whose name begins with MC give constants to a run. Four of them (`MCDocuments`,
`MCSQLiteStore`, `MCTemporalEvaluation`, and `MCFormulaSet` for its views) hold several
systems side by side: a variable says which one a behaviour is about, the variables of the
others stay unset, and the run's property is the conjunction of the systems' own.

### Managed stores

`ManagedTarget` is the promise common to the stores: a key is bound to the content staged
first; a commit makes it current; an abort forgets a stage that was not committed. Retries and
refusals stutter. It is used only as an abstract specification.

`ManagedSnapshotStore` is `local_files/managed_snapshots.py`. Variables are the directory:
`pointer` (current.json), `stages`, `snapshots`, `stageReceipt`, `commitReceipt`,
`temporaries` and `lock`, plus each handler's `phase`. One action per atomic file operation:
`Acquire` takes the lock and runs the checks up to the first write, then every file is a
temporary and a rename of its own. `Crash` ends a handler anywhere, frees the flock and leaves
its temporary; the recovery that every locked operation begins with unlinks what it listed.
It implements `ManagedTarget` until a handler dies; after a death between pointer and receipt,
and another commit that moves the pointer on, it does not (section 6).

`ManagedTables` is the content of the tables and the effect of the statements, shared by the
SQL stores because they issue the same ones. `SQLiteStore` puts them in a transaction under
BEGIN IMMEDIATE: `view` is private, `CommitTransaction` installs it in `database`, `Rollback`
drops it at any point; `current()` is two read transactions. `PostgresStore` adds the network:
a call waits for the advisory lock, executes, sends COMMIT; the connection may be lost before
or after the server received it; `Server` then ends the transaction by itself, and
`_reconcile_commit` looks for the commit row without the lock. A stage whose artifact or hash is
wrong is refused before it connects (`StageRefusedEarly`), perhaps beside the transaction of an
earlier try; only the refusal of a commit is final. Both implement `ManagedTarget`
by the mapping `Staged/Committed/Current`.

`TemporalStorage` is the SDK's facade over such a store: handles with leases and retention
that are compared with a clock before the store's transaction. `MaybeTemporal` is the same
store behind a command line whose answers may be lost or be another command's;
`Materialization` is create-only tables there, with the cached probe, retries, reconciliation
and other editors. All three run in `MCSQLiteStore`.

### ConnectorProcess

`process/server.py`. A request is unread, waiting for the semaphore, queued, running, ... ,
done; the reader takes frames in order and handles HELLO and CANCEL itself; other operations
hold one of `MaxPending` permits and run on `Workers` threads. `messages` is the ordered window
of ids. Constants stand for 8 permits, 4 threads and 4096 ids; the code only compares with
them.

### Workbooks

`WorkbookFile` is `LocalSpreadsheetProvider.commit`, `_rich_commit`,
`ExcelFormulaAdapter.set_grid`, `recalculate_grid` and the ledger of `formulas/operations.py`.
The file is the set of edits it holds and its revision is that set, as the code's is a hash of
the bytes. A call goes through lock, read, stage, check, replace, cleanup, release; each can
fail where the code can. So can the removal of the temporary file: `stuck` remembers whose did, the
failure is swallowed in a call that failed already (`EndsClean`) and raised by a session whose write
is committed (`CleanupFails`). `Foreign` is another application that creates the file without
knowing the lock.

`WorkbookContent` is what each edit does to a book: cells as content, format and one bit of
style, merges, references that follow a rename, numbered names, sorts, and the verification of
a saved literal artifact. `WorkbookHandles` is the SDK's worksheet and range handles over a
session, two threads and another user: a handle keeps a name and the generation it had, every
structural edit bumps generations, and the provider sends most commands with the sheet's gid.
`Stages` is the worksheets after each queued change; `of` says in a handle, a change and a
sheet which sheet is meant, and `stray` collects the commands that changed another one. A
call compares the generation in one step and queues in another, as the lock is taken between
them; `raced` marks a change between whose steps another thread's structural edit fell.

`SpreadsheetSession` is `spreadsheets/_session.py` over MaybeSheet (one command per edit, each
acknowledged, lost, or executed late) or a local file (`Atomic`). Pending edits are the
interval `cleared + 1 .. queued`, because they join at the end and leave together. `executed`
and `outstanding` count what the remote side did and may yet do with each command.
`Interrupt` is a KeyboardInterrupt in the middle of a write.

### Formulas

`FormulaSet` sets a formula, or recalculates, on one of the four remote extensions, with the
ledger of `formulas/operations.py` and its eviction, requests that land after their caller has
given up, and the readback or reconciliation that decides the answer. `GridFormulaViews` and
`FieldFormulaViews` are the views: what each provider calls a revision, how it finds the
sheet or the field again, pages of records, and what other users do between two requests.

### Tables

`PortableTables` is `sdk_temporal.create_table`, `portable_json.py`, `sdk_excel_table.py` and
the client's check of the evidence. Variables are what each destination holds, the workbook's
revision, the replay records, the directory's index, and of each call its request, phase,
what it saw and its answer. The order is the code's: lock of the file, lock of the index,
lookup of a replay, publication (`os.link` of a JSON file, the compared save of a workbook),
readback, replay record, index. `Write` is another program, which knows no lock and deletes
nothing. The save of a workbook, `WorkbookFile`'s subject, is one step here.

`TableStore` is the writes of the SQLite and PostgreSQL connectors, statement by statement,
alone or in a transaction that the context carries, and the SDK's `TableTransaction`;
`born` are the tasks that inherit the context. A COMMIT that raises may have taken effect
(`TookEffect`); the answers "failed" and "denied" are then the code's REJECTED, and the property asks
that all of its writes are there or none. `RemoteTables` is reading by pages and writing
by batches on Maybe, Google and Feishu, with the SDK's bridge to the CLI's adapters.

`MobileTable` is the TypeScript controller, its HTTP adapter and the SDK host over a table
others change. Every await is a point where the user, the table and the other requests may
act; an edit is a key in the external updater's ledger.

### Files and queries

`FileTables` is what each reader makes of a document of rows, objects or worksheets.
`LocalReads` is a read through the facade and a connector, which looks at the file several
times while another program replaces it; `LocalTemporal` is the time series providers of the
three formats over values that can be mistaken for one another. `RelationalQuery` is portable
SQL: lowering, collection of nested sources, the worker and its deadline, and every operator;
`NativeSql` is one statement at a database. `TemporalBuckets`, `TemporalPlans` and
`TemporalEvaluation` are the buckets of a small calendar, what a plan may say and how SQL is
lowered to one, and the evaluation of a plan over its rows. `QueryCases` and `LocalCases` hold
their inputs. `Registries` is how a command or a client comes to a provider: the
configuration file that is read, the registry built from it, what is registered by hand, and
the connectors and credential leases that live while an endpoint is used.

## 4. Runs and bounds

| run | shows | bounds |
|---|---|---|
| `snapshot_store` | `DataIsKept`: every pointer there was names a readable snapshot, one content per key, committed bytes stay; `ReceiptsAreTrue`; `TemporariesReclaimed`; `ImplementsTarget` until a handler dies; `LockReleased` | 2 handlers, 2 keys, 2 contents, 1 crash; 216 thousand states |
| `sqlite_store` | `RowsAreWhole`, `ImplementsManagedTarget`; and, in behaviours of their own, `HandlesAreTrue` (the SDK's facade) and `RemoteAnswersAreTrue` (MaybeAI's store and table creation) | 2 clients, 2 keys, 2 contents; 3 frames, 2 views, 4 calls; 4 operations; 3 creates |
| `postgres_store` | `AnswersAreTrue` and `ImplementsTarget` under lost connections | 2 clients, 2 keys, 2 contents |
| `portable_tables` | `AnswersAreTrue`: what a call is told of its table; `OnlyCreates` | 3 calls, a JSON file and a worksheet, 2 keys, 2 contents, 1 write by another program; 1.9 million states |
| `process_server` | `ResourcesComeBack`, `CancelIsFinal`, `IdsAreExact`, `EveryFrameIsAnswered` | 3 frames, 1 session, 2 ids, window of 1, 2 permits, 2 workers |
| `workbook_file` | `EditsStay`: no edit lost and revisions enforced until a recalculation is published; `AnsweredOnce`; `NoStagingLeft`: a temporary file stays only where its removal failed, and its call answered with an error; `CallsEnd` | 1 creation, 1 commit, 2 sets, 1 recalculation, of which 3 are made; 1 key |
| `session` | `AtMostOnce`, `AnswersAreTrue`, `NothingIsDropped`, `SessionIsFreed` | 3 threads, 4 edits, each command sent at most twice |
| `documents` | `BookIsSound`, `SortsKeepRows` (content); `SheetsAreTheOnesMeant` (handles reach the sheets they were made for); `TablesStayTrue` (answers about remote tables are true and reads whole, two kinds of answer set apart, section 6); `WritesAreTrue`, `ReplaceLeavesNoGap` (tables of the database connectors) | 2 edits from 3 books; 2 threads, 2 names, 2 changes, 1 of another user; 3 contexts, 2 transactions, 2 writes; pages of 2 |
| `formula_set` | `AnswersAreTrue`, `KeysAreSafe`, `UncertainIsKept` (sets); `ViewsAreTrue` (views) | 2 callers, 2 keys, 2 formulas, a ledger of 1, 3 calls, 1 foreign edit; views: 2 edits, 2 records |
| `mobile_table` | `RowsAreFresh`, `EditCommitsOnce`, `SpinnerMeansWork`, `EditsAreKept` | 2 records on 2 pages, 2 edits, 2 saves, 1 load, 1 refresh, 1 foreign change |
| `temporal_query` | `AnswersAreTrue` (plans and what they are lowered to, relational and native queries, local files' series, local reads, registries) | tables of up to 3 rows from a pool of 7; 1 change; a file replaced once |
| `formula_denied` | a violation, section 6 | as `formula_set`, Feishu only |

Two keys, contents and clients are what the store hazards need: a retry, a rival commit that
moves the pointer on, and a second process between the two. Three calls for a portable table are
a creation, its retry and a rival on the same destination or the same key. A window of one id is
full with the second frame and evicts with the third. Two sets with one key are a retry; a
ledger of one entry evicts at the second key. Four edits are two batches of two. Two records on
two pages are a row that was replaced and one that was not. The rows of a temporal table contain
one instant twice and thrice, an unknown value, and instants on the window's first and last tick;
the calendar has days of 4 ticks, months of 2 and 3 days and one change of summer time. A second
crash of the snapshot store, which can hit the recovery of the first, is covered by the proofs,
where the number of crashes is any.

Symmetry is used only in runs that check safety (`sqlite_store`, `postgres_store`,
`portable_tables`, `documents`, `formula_set`), over values the specifications compare for
equality alone.

Fairness: `snapshot_store`, `process_server`, `session` and `workbook_file` check liveness, under weak
fairness of a call's own next step: a thread that can run runs, and what it calls returns or
raises (every `mbs` command has a timeout). Nothing ever makes a caller call, a handler
crash or a lost reply arrive. In the snapshot store the handler keeps the lock it has; in the workbook
file a call tries the lock once. So no lock need be fair. The other runs use the plain
specification: SQLite and PostgreSQL decide there when a lock is granted, and no liveness is claimed.
`CHECK_DEADLOCK FALSE` appears where the system rightly stops: all frames answered,
all calls made, the session closed.

## 5. Proofs

Eight modules, for every value of the constants, from the assumptions the specifications name
(None is none of the values; bounds are numbers; the kinds of call are disjoint). Each follows one
argument: the properties are not inductive, because what a handler may do was decided
several steps before, so the invariant says of every phase what its holder may still rely
on, and each action is shown to keep it. The invariants were given to TLC first.

- `ManagedSnapshotStore_proofs`: `TypeCorrect`, and with any number of crashes `DataKept`,
  `CommitReceiptsTrue`, `TemporariesAreReclaimed`. The invariant relates each handler's phase to the
  files it has written: only the holder of the lock touches them, a published stage has its
  snapshot, a receipt has its published stage. `Refinement`: until a handler dies, a step of the
  files is a step of `ManagedTarget` or a stutter; what makes it true is that the holder of the
  lock completes what it began (`Completed`), so a stage or a commit is there for the target
  from its first rename on.
- `SQLStores_proofs`, of both SQL stores: the database is consistent and the running transaction's
  view is the database or one decided step ahead (`Advance`). The lemmas about what a transaction
  does to the rows (`StageRows`, `CommitRows`, `AbortRows`) are proved once and used for both. For
  PostgreSQL the invariant also has what each caller was told, wherever its connection was lost.
  `Refinement` and `SQLiteRefinement` of `ManagedTarget`: only COMMIT moves the target. `AnswersHold`,
  `SQLiteRowsWhole`. And of what runs beside the SQLite store: `HandlesHold` (any frames, views and
  calls of the SDK's facade), by an invariant that ties each handle to what the store did with its
  stage (`FacadeInv`); `RemoteAnswersHold`, of MaybeAI's snapshots (`RemoteInv`: what a
  receipt says is found in the provider's tables, and stays there) and of its table creation
  (`CreationInv`: calls are numbered in the order they came, a request that is still in flight has
  made no table, and what the provider told a call stays true of it).
- `Workbooks_proofs`, of the file (`WorkbookFile`): `EditsKept`, of calls of all four kinds, until a recalculation is
  published (it takes no lock). What the holder of the lock read is what the file still holds, and a revision
  it names equals it (`CallInv`, `LockInv`). `AnswersHold` adds what the ledger knows of each key
  (`OutcomeInv`): an entry is executing only while its call is at work, and a decided one never
  publishes again unless a set failed before it read the ledger. `StagingGone`: a temporary file of a call
that has ended is one whose removal failed. Of what is in it
  (`WorkbookContent`): `BooksSound` and `RowsKept`, for any book on disk that Excel would not repair
  (`BooksAssumption`), any rectangles, contents and limits. Each change leads from a sound book to a sound one
  (`Accepted`, `SheetChanged`, `Rearranged`): what is written, merged or sorted keeps clear of the merges, a sheet's
  identity is the change that created it (`Apart`), and a rename, a deletion or a sort finds no formula that
  could cite the sheet. A numbered name is assumed to be free when one is needed, as openpyxl counts on until it is.
  A sort is a permutation because in a finite order the number of rows before a row tells it from
  every other one and takes every value (`Ranked`, `InOrder`, `RowsPlaced`).
- `SpreadsheetSession_proofs`: `NothingSentTwice`, `AnswersHold`, `NothingDropped`, until a write is
  interrupted. Commands behind the frontier of the running write are untouched unless the session
  is frozen; what a caller was told is bound to the counts of what was executed.
  Of `WorkbookHandles`: `SheetsMeant`, for any threads, names, changes and edits of other users.
  `HandlesInv` says that every stage of the queue has distinct names and every queued change applies to the
  stage before it (`StagesApply`); that a handle, or a call between its steps, with the current generation of
  its name means the sheet that has the name now (`MeansIts`): a structural edit that could move the name to
  another sheet bumps it; and that a running batch tracks the stage it reached, with gids that no two
  sheets share (`GidsKnown`, `Alike`), which are the document's own unless another user edits it
  (`BatchTracks`). So the gid a command carries, or its name while nobody else edits, finds the sheet meant.
- `ConnectorProcess_proofs`: `ResourcesReturned`, `CancellationFinal`, `IdsExact`. Permits are the bound less
  the frames that hold one, leases belong to frames that run, the window holds each id once and
  its owner is in flight or answered. Lemmas say what `Append`, `Tail` and `RemoveAt` do to a
  sequence without repetitions.
- `Tables_proofs`, of `PortableTables`: `AnswersHold` (what a caller was told of its table
  is true) and `NothingOverwritten` (a call never changes a table that is there). Records and index
  are as they were read while their lock is held (`Unrecorded`, `Indexed`), an absent worksheet is
  absent as long as its workbook has the revision seen (`Absent`), a record is its owner's (`OwnRecord`).
  Of `TableStore`: `WritesHold` and `NoGap`, for any contexts, tasks, tables, transactions and writes. What
  a write is answered is decided by a commit that comes later, perhaps in another context, so `StoreInv`
  says where the rows of every write are: staged ones in the open connection the write went to
  (`StagedKept`), committed ones in the table (`CommittedKept`), those of a COMMIT that raised all there or
none, unless a later write took note that it
  dropped them (`Accounted`); and it says which contexts may hold one connection (`Shared`: those of one
  thread), where a call in progress stands (`CallRouted`, `CallPends`, `CallBatches`, `CallWrote`), and that a
  PostgreSQL connection without a table it dropped is about to create it (`NoGapOpen`). The lemmas are one per
  kind of step, whichever statement takes it.
- `FormulaSet_proofs`: `AnswersHold`, `KeysHold`, `UncertainKept`, for any size of the ledger and every
  provider. A key is dispatched once because, with the lock, a call at work holds the only entry
  in flight of its key (`Exclusive`), and a request that may have taken effect leaves its key succeeded or
  unknown until it is forgotten (`Remembered`). Without the lock (Feishu) neither holds, and the
  properties claim less; three places of the code that deny a write that happened are set apart as `Denied`. Lemmas say what eviction and replacing an entry leave of the ledger.
- `MobileTable_proofs`: `RowsFresh`, `EditsOnce`, `SpinnerWorks`, `EditsKept`. Every controller that
  is waited for has a call at work; a draft keeps one key, which the ledger holds from the execution
  on; the label of a record bounds its last change; the base of a draft is what was shown.

Only model-checked: all liveness, which needs ENABLED (`LockReleased`, `EveryFrameIsAnswered`,
`SessionIsFreed`, `CallsEnd`); remote tables and formula views; queries, plans, local reads and
registries. Their properties (`TablesStayTrue`, `ViewsAreTrue`, `AnswersAreTrue` of `temporal_query`)
compare the result of a computation over data (a fold over rows or pages) with a reference
definition. The provers cannot use the library's induction theorems, whose parameter is an operator.
Where a proof needs induction over a number (the stages of a queue, the rank of a row in a sort), it is
made from the least counterexample in a set of numbers, which is first-order; the folds over rows and
pages, a dozen of them and each over data of its own shape, are left to TLC. No module declares a
RECURSIVE operator.

## 6. Findings

A disagreement between the code and what the repository says of it, shown by a run that
TLC must find violated; `PROJECT.json` quotes the lines.

- `formula_denied`: Feishu's set answers REJECTED and NOT_STARTED after the write was acknowledged, when
  the read that verifies it is refused.

Seen while modelling, and not run. Stores and portable tables:

- A commit of the local store that died between pointer and receipt is forgotten once another commit moves
  the pointer; its retry commits again and moves the pointer back. An abort after such a commit answers that
  the stage was removed (docs/superpowers/specs/2026-08-31-python-sdk-design.md:1607 has it say the commit happened).
- After an abort, staging the same key again in the local store answers the old receipt although the bytes are
  gone, and the commit that follows is SNAPSHOT_UNAVAILABLE for ever; the SQL stores delete the row.
- `sdk/temporal.py` answers REJECTED and NOT_STARTED for every error of a provider. Leases and retention exist only
  in the handle; a frame with another schema hash can be staged but neither committed nor aborted.
- A portable table published by a handler that died before its record may be adopted by another key with an equal
  table; the creator's retry is then refused as DESTINATION_EXISTS. Two creators of one new workbook: the loser is
  answered EXECUTION_FAILED and not STALE_REVISION. A table that was published and recorded is denied when the
  directory's index cannot be read.
- MaybeSheet's creation remembers a probe that failed once as "not supported" (materialization.py:322-325);
  an error without `pre_mutation` is answered UNKNOWN; a difference found by readback is FAILED and COMMITTED;
  reconciliation does not compare the name. Its temporal store does not compare commit receipts by operation.

Connector process, workbooks and sessions:

- A HELLO or CANCEL that is refused keeps its message id (server.py:104), and the window evicts ids that are still in flight, where
  the plan for the transport (2026-08-31-critical-review-process-transport-security.md:223) evicts the oldest
  after a successful terminal response. CANCEL never retires a session (same plan, :150).
- A recalculation takes no lock and looks at the revision only once, so it overwrites an edit made meanwhile.
  An early failure of a set rewrites the ledger's entry, so a key may publish twice. A removal of
  the staging file that fails is swallowed and the file stays (spreadsheet_workbook.py:1446, :1487-1491); after a
  committed write it is raised as an error. A rich creation leaves its staging file, deletes "Sheet1" and its range writes start at column A.
- An interrupt in the middle of a session's write freezes nothing, and the next write sends every command again.
  `reconcile()` resets a session outside the lock (unified-spreadsheet design, :655).
- In one MaybeSheet batch a sheet created and then renamed or deleted raises KeyError after the dispatch. A draft's
  literal number format or single-cell merge is accepted by preflight and refused at commit. A rename that
  only changes case is numbered. Commands of styles, rows and images go by the sheet's name only.

Formulas:

- A full ledger lets KeyError escape `set_*`; a binding failure after `begin()` never settles the key. Google answers
  an acknowledged write with FAILED and NOT_COMMITTED when its answer is malformed or shows none of the formulas
  (google_sheets/formula.py:423-426, :509-511), with REJECTED when it is too large, and with STALE_REVISION for the retry of a key that succeeded
  with an expected revision. Feishu's ledger has no lock.
- Google's set is also FAILED and NOT_COMMITTED after a committed write when titles were swapped; Feishu's PUT undoes a
  concurrent rename, its values go by name. Excel's text "007" or "TRUE" is cached as a number or boolean. An omitted
  expectation is not taken from the view (2026-09-01-mode-aware-formula-extension-design.md:552-555).

Tables, reads and queries:

- SQLite's replace commits DROP and CREATE before the INSERT; a refused executemany keeps its first rows in an open
  transaction. A PostgreSQL commit of a doomed transaction returns normally. An insert in an open legacy transaction
  answers COMMITTED before the commit, and every failure REJECTED and NOT_STARTED, also that of a COMMIT that took
  effect (sqlite/sdk_temporal.py:97-118, postgres/reader.py:409). A task that inherited the context
  keeps a closed transaction for ever. Idempotency keys of appends and upserts are not sent.
- Google's append sends the header row with the rows and its replace leaves the old tail; Feishu's earlier batches
  stay when a later one fails; a retried append repeats rows. Feishu's pages have no snapshot, and `has_more` without
  a token ends as complete (feishu_bitable/connector.py:235-239). An unknown payload of MaybeSheet is read as an empty
  table (maybe_sheet/connector.py:155), where the comment at :129-131 has it "fail closed". Both are modelled
  (`FeishuPage`, `MaybeUnrecognised`), marked on the call as its `lapse`, and set apart by name in `ReadsAreWhole`.
- Reads are cut silently at `max_rows` by CSV, Excel, Markdown, Google and Feishu (docs/user-guide/concepts.md:28).
  A local read looks at the file up to six times, so a receipt's revision may be newer than the rows; a file replaced
  between detection and reading is parsed as the old format. A CSV that begins with an empty line reads as empty; of
  two columns of one name Markdown and the CLI keep the later. A worksheet with a portable table ignores the limit.
- Local time series: null text of a CSV is ""; instants without a zone are UTC in CSV and refused in JSON; JSON integers
  are epochs; an empty JSON snapshot raises KeyError; a stage's retry is refused once the worksheet changed.
- Portable SQL: a worker that dies without a result lets EOFError escape (client.py:674-679); nulls come first also in
  an ascending key, where 2026-08-31-python-sdk-design.md:1193 has NULLS LAST (`AskedBefore` is that order, and
  `UnknownAscending` the pairs that are out of it); the sum of an all-null group is 0; two aliases of one source collide.
  `NativeSql.execute` answers UNKNOWN even for a connection that failed.
- Temporal: a month bucket that begins on the 31st lets ValueError escape from a gap fill; a week bucket with an origin
  that is no midnight is misplaced; SQLite's text storage loses the row at the inclusive start
  (2026-08-29-portable-time-series-storage-design.md:196, :221; `Asked` is that window, and `LostAtTheStart` the
  rows that are missing from it); PostgreSQL's lowering ignores the duplicate policy.

Mobile table and registries:

- Two `refresh()` start two reads. UNKNOWN and PARTIAL are always error envelopes, so the state "unknown" cannot be
  reached (docs/reference/mobile-table-http.md:42-46). What is typed during a save is deleted with the draft; a retry
  after further typing sends one key with another patch. `save()` sends the revision shown (controller.ts:149).
- A refused registration of a CLI adapter keeps its routes; a manual wildcard route for https comes before a
  configured host's, despite the docstring of `register`. The SDK stores plugin and connector before the route conflict,
  replaces a connector of the same id without closing it, and leaves a lease when an environment binding is missing. A
  connector whose close raises leaves the later ones, and the client, open.

## 7. Not modelled

Parsing, validation and conversion of values where a refusal changes nothing, the layout of files and
frames, credentials' contents, the conversions of the CLI's codecs, the renderers of the mobile
client, packaging and benchmarks. Of the modelled parts: the failure-evidence directory, the rich profile's
commands, layout verification after a commit, a broken output pipe of the
connector process, PostgreSQL's streaming reads, deletion of a portable table by another program, power
loss (a rename that was answered is kept), and clocks (a deadline is an outcome that may
happen at any time).
