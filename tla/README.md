# Verification of the planning service

The repository is a planning tool for a manufacturer that sells through DIY
chains: users upload sales and stock files, the service validates and applies
them, calculates how much stock each client should have reserved, exports the
results and answers questions in a chat.  An API (FastAPI, SQLAlchemy,
PostgreSQL), a worker (Dramatiq on Redis), a scheduler and a React client share
one database and one directory tree.

The modules here model the parts that keep state or decide something, as the
code under `src/` has it, and the checks and proofs show what can be relied on
and what cannot.  `PROJECT.json` ties every definition to the lines it
translates.

- [Inventory](#inventory): the parts of the system
- [Modules](#modules): what is written, what uses what, the runs
- [Uploads](#uploads), [Planning data](#planning-data), [Exports](#exports), [Reserve](#reserve),
  [Assistant sessions](#assistant-sessions), [Assistant planning](#assistant-planning),
  [Inbound sync](#inbound-sync): what is modelled, checked and proved
- [Ground rules](#ground-rules): assumptions shared by the models
- [Only model-checked](#only-model-checked), [Known deviations](#known-deviations),
  [Not modelled](#not-modelled)

Run a check with `tlc -config UploadSequential.cfg MCUploadLifecycle.tla`, a proof
with `tlapm UploadLifecycleProofs.tla`.

## Inventory

Paths are relative to `src/apps/api/app/modules` unless they say otherwise;
`worker` is `src/apps/worker/worker_app`.

| Part | State it keeps | Operations | Hard behaviour | What makes it correct |
|---|---|---|---|---|
| **Upload lifecycle** `uploads/service.py` | batch row (status, type, mapping, verdict, history), issue rows, quality rows, facts | create, confirm type, suggest and save mapping, apply template, validate, apply; also from worker actors and admin retries | every request checks, commits and goes on with what it reads next; two of them interleave; error paths that commit; death in the middle | status, verdict and issues agree; facts are those of one apply; nothing applied that failed validation; no lock left; no batch stuck |
| Validation, parsers, mapping, templates `uploads/validation.py`, `uploads/parsers.py`, `mapping/` | templates | detect type, suggest, validate a frame | many optional fields and aliases | blocking exactly when a required field or row is bad |
| **Facts** `uploads/service.py`, `db/models.py` | sales, stock snapshots, inbound deliveries, each with its source batch | insert, take over, delete by batch | a row two batches write changes its owner; flushes of several rows wait for each other; a lookup is old when its write is sent | a fact is of the file of the batch it names; an apply is whole or not there; only its owner removes it |
| Reference imports `catalog/cost_import.py`, `uploads/*_import.py` | costs, articles, report metrics | import inside a parse | unique constraints hit by parallel imports | import or failure, not half of one |
| **Reserve engine** `reserve/engine.py`, `strategies.py`, `domain.py` | none (a calculation over policies, sales, stock, inbound) | demand by fallback level and strategy, target, allocation by priority | negative months and stock, rounding, a pool that shrinks as it is handed out | priority kept, nothing held back, nothing given twice, status tells the truth |
| **Reserve runs** `reserve/service.py`, `repository.py` | ReserveRun and rows | preview, calculate and persist, portfolio | commit before materialise; several reads of facts that change; midnight | the pages show the newest run of today; what runs alone is of one state of the facts |
| **Exports** `exports/service.py`, `admin/service.py`, `worker/tasks.py` | ExportJob, JobRun, queue, file | dispatch, process, retry, download | at-least-once delivery, fallback to the request, deaths, two attempts writing one file | every export ends; an attempt ends it; the file is whole |
| **Inbound sync** `inbound/service.py`, `worker/` | deliveries with a source prefix, JobRun | download, delete, insert | two syncs; retries; a broken transaction in the handler | the deliveries are whole copies, none is there twice, a sync replaces the last one |
| **Analytics store** `analytics/service.py` | Parquet files, DuckDB file | materialise | a lock per process only, released before its apply commits; a crash between files; a backup while writing | the refreshes of a process keep their order; a lone one leaves what the tables have |
| Sessions `auth/` | users, refresh tokens | login, refresh, logout, password | tokens that outlive the rights they were issued for | a revoked or disabled user gets no new token |
| Access `access/service.py` | policies, overrides, roles | one capability, all capabilities | two evaluations of one policy set | they agree |
| User administration `admin/service.py` | roles | change a role | delete and insert raced | one role per user |
| Rate limiter `core/rate_limit.py` | counters | count a call | two back ends, expiry | no more than the limit in a window |
| **Assistant sessions** `assistant/service.py`, `repository.py`, `router.py` | session row, messages | create, edit, delete, turn by POST or stream | a turn lasts for seconds and holds a row lock; tools commit in the middle of it; browsers leave; other tabs | turns stay together; what was said to be stored is |
| **Assistant planning** `assistant/orchestration.py`, `routing.py`, `state.py`, ... | pending question, pinned context | route, clarify, plan tools, run them | state recovered from the last messages; a planner that may mislead; a context the tools share; rights checked one by one | an answer keeps to the family, client and SKU of its question, a follow-up to those of the dialogue; no calculation nobody asked for; failures are told |
| Reports, quality, catalog, clients, dashboard, stock and sales views | metrics, issues, policies | list, filter, single-row updates | little | - |
| Worker and scheduler `worker/` | queues, backups | actors, periodic jobs, cleanup | redelivery, overlap of periodic jobs | each job's effects happen once |
| Web client `src/apps/web` | browser state | pages over the API | sends defaults the server reads differently | asks for what the user chose |

How the parts meet: an **upload** writes the facts the **reserve engine** reads
and calls the **analytics store** before it commits; the **inbound sync** writes
deliveries the engine reads; **exports** take their rows from reserve runs,
uploads, quality and catalog; a turn of the **assistant** calls the reserve service, which commits
on the turn's database session; worker actors call the same service functions
as the routes; **access** decides every call and every tool; the **web client**
polls jobs and uploads and shows what their statuses say.  There is no other
coordination than PostgreSQL: row locks, unique constraints, READ COMMITTED.

The hazards that follow from this, each at its line, are listed in
`PROJECT.json`, with the properties that cover them.

## Modules

| # | Module | Composes | Abstract specification | Runs | Proofs |
|---|---|---|---|---|---|
| 1 | `UploadLifecycle` | batch, issues, quality, facts, lock, requests | - | `upload_sequential`, `upload_concurrent`, `upload_stuck_validating` | `UploadLifecycleProofs` |
| 2 | `PlanningData` | sales facts, stock, reserve runs, analytics files; applies and calculations of threads in several processes | - | `planning_data`, `planning_duplicate_rows` | `PlanningDataProofs` |
| 3 | `ExportJobs` | job, JobRuns, queue, file, requests, workers | `ExportPromise` | `export_mixed`, `export_queued` | `ExportJobsProofs` |
| 4 | `ReserveDemand`, `ReserveEngine` | engine on top of the pure demand operators | - | `reserve_engine`, `reserve_strategy` | `ReserveEngineProofs`, with `FoldTheorems` |
| 5 | `AssistantSession` | row lock, messages, streams, tool commits | - | `assistant_session` | `AssistantSessionProofs` |
| 6 | `AssistantRouting`, `AssistantTools`, `AssistantPlan` | a dialogue on top of the words, the contracts and the answers | - | `assistant_plan` | `AssistantPlanProofs`, with `FoldTheorems` |
| 7 | `InboundSync` | syncs, JobRun, broker retries, row locks, unique key | - | `inbound_sync` | `InboundSyncProofs` |

`MC*` modules give the constants of a run their values.  Two modules look at one handler from two
sides: `UploadLifecycle` follows the batch row of `apply_upload_file` with its issues and verdict and
takes the facts as a whole; `PlanningData` begins where that function has locked the batch and follows
the facts row by row, with what is derived from them.  In the same way `AssistantSession` has the
transactions of a turn and leaves open what it answers, and `AssistantPlan` has what it answers, one
turn at a time.  `ReserveEngine` is one calculation over given data; `PlanningData` says which data a
calculation has read.

Parameters are CONSTANTS with named assumptions, actions are one per handler
step, and the modules with theorems use no RECURSIVE operator.

## Ground rules

**Steps.**  A request is a sequence of reads, flushes and commits; everything
another request can see or be blocked by happens at one of these, so they are the
actions, and other requests run in between.  Requests run one database transaction at a time
on a connection of their own at PostgreSQL's READ COMMITTED.

**Row locks.**  The first UPDATE of a row takes its lock until commit or rollback.  A
flush or commit that updates a row another transaction has updated waits; `lock`
is the holder, and a waiting request is one whose action is not enabled.

**Stale objects.**  `db/session.py` makes sessions without autoflush, so nothing is
written before an explicit flush or commit, and with expire_on_commit, so an object is
read once and then stays as it was until the next commit of its session.  SQLAlchemy's UPDATE names only the
attributes whose value differs from the loaded one.  `Merged` in each module is that rule: a column
assigned the value the object had keeps what somebody else has committed
meanwhile.

**Failures.**  Where the code catches, the handler is an action with the commit
or rollback the code does; where it does not, the request ends and FastAPI closes
the database session, which rolls back.  FastAPI runs the exit of a yield
dependency after the response, so a stream keeps its session.

**Data.**  Names, messages and numbers are members of small sets; wording,
layout, logging, request ids, audit rows and metrics are left out.

**Mutants.**  Definitions marked `Mutant:` are plausible bugs in the definition
that follows them; each property is shown to fail for one.

## Uploads

`UploadLifecycle` is one batch with any number of requests.

| Model | Code |
|---|---|
| `row` | `UploadBatch`: status, source type (of the file), active mapping, verdict (`validation_payload`), last entry of the status history |
| `issues`, `quality` | `UploadedRowIssue`, `QualityIssue` of the batch, by severity |
| `file` | what the content is recognised as, and whether the warehouse adapter reads it and finds a quantity in it |
| `facts` | the facts of the batch, each named by the apply or import that wrote it, its table and its mapping |
| `pc`, `local`, `lock` | where each request is, what its session has loaded, who holds the row lock |
| `CreateUpload`, `ConfirmSourceType`, `Parse*` | `create_upload_file`, `confirm_upload_source_type`, `_run_parse_stage` |
| `SuggestMapping`, `SaveMapping`, `SaveCommit` | `suggest_upload_mapping`, `save_upload_mapping`; a template's application is a saved mapping |
| `Validate*` | `validate_upload_file`, from routes, the worker, or another of these functions |
| `Apply*` | `apply_upload_file`: validation, second look at the verdict, flush, deletes, rows, commit; three ways to fail |
| `Crash` | death of the process |

A mapping is reduced to what it makes of the file: no field, fields missing, rows
with errors, rows with warnings (a `duplicate_upload` warning counts as one), clean.
It is written for one type; under another type with required fields it is worth
`partial`.  `sales` stands for every tabular type, `stock` for those with an
adapter for warehouse files.  That adapter deletes the snapshots of the batch only (`uploads/stock_import.py:166`), an apply
the rows of all three tables.  Files have at least one row.  An exception of one row that
is not a domain error is the same as an exception of the apply.

**`upload_sequential`** - one request at a time, every type and worth, failures at every step.
`StatusIsTrue`: what the status promises is true of the mapping, type and facts the batch has *now*,
after any sequence of saves, confirmations and applies: a ready batch was validated with them,
an applied one has facts of its type, all of the mapping it shows, and no others, with no row skipped for
its errors, and the history ends in the status.  The property names the two exceptions of the warehouse adapter
([Known deviations](#known-deviations)), and is about types that `apply_upload_file` applies.  `MappedBatchSettles`: a batch that says `validating` gets a
verdict, fails, or is parsed again.  Only here are there two types with facts, so that a
warehouse import finds the rows of an earlier apply in another table.  Fairness is strong per request (`SF_vars(Work(s))`): a
server thread that has work goes on, and PostgreSQL grants a row lock to a waiter some time
although others may take it in between.  Users need not send anything.  No process dies in this
run, since nobody repeats a request that died; `upload_concurrent` has the deaths.

**`upload_concurrent`** - two requests interleaved at every step, with crashes, on a file of a type with
adapter (which may be a plain table all the same); three
worths of a mapping are enough to tell a stale mapping from a current one, a
clean from a blocking one.  `VerdictMatchesIssues`: status, stored verdict and issue
rows are written by different statements and agree.  `OneApplyOfFacts`: applies and imports do
not mix in a table, thanks to the flush that takes the row lock before the deletes.
`FactsVanishOnlyOnFailure`: no commit drops the facts and calls the batch
anything but failed, an empty warehouse import excepted.  `QualityMirrorsIssues`, `LockHeldOnlyAtWork`: every
path replaces both tables, and gives the lock back.

Two requests is the first number with an interleaving, and each property is about at
most two of them and the row; the proofs remove the bound.

**`upload_stuck_validating`** (violated) - `docs/ingestion.md` says that a saved mapping is
followed by validation.  For a management report `save_upload_mapping` commits
`validating` and then calls `validate_upload_file`, which refuses an empty mapping
before it touches the batch: the batch says `validating` for ever.

**Proved** (`UploadLifecycleProofs`), for any number of requests, any types and worths, with
and without crashes.  The inductive invariant is

    TypeOK /\ LockHeldOnlyAtWork /\ DeletedAreCommitted /\ OneApplyOfFacts
           /\ VerdictMatchesIssues /\ QualityMirrorsIssues

`OneApplyOfFacts` is not inductive: a commit adds the facts of its apply to what it has
not deleted.  `DeletedAreCommitted` closes the gap: what an open apply has
deleted is all that is committed, because it alone holds the lock.  From the invariant
follow `LockIsReleased`, `AppliesDoNotMix`, `VerdictIsConsistent`,
`QualityFollowsIssues` and the action property `FactsAreNotLostSilently`.
Assumptions: those the module names about its constants.

`StatusesAreTrueAlone` is `StatusIsTrue` for as long as one request is at work at a time
(`OneAtATime`), and `StatusesAreTrueInOneSession` the same where there is one session.  Two requests do break it
([Known deviations](#known-deviations)), which is why it has an invariant of its own: `SerialInv` is
`StatusIsTrue` with `MemoryIsTrue`, what a request has loaded is still so, and its verdict is that of the type
and mapping it is going to apply.

## Planning data

`PlanningData` is the tables the planning works on and what is derived from them: sales facts, stock
snapshots, reserve runs, and the files of the analytics.

| Model | Code |
|---|---|
| `sales` | committed `SalesFact` rows: for each client, SKU and month the row's id, its `source_batch_id`, its quantity |
| `stock` | `StockSnapshot` rows of each stock upload, as the apply that wrote them |
| `batches` | the last committed apply of each upload: status, rows of its file, the JobRun of the refresh |
| `runs` | `ReserveRun` rows in the order of `created_at`, each with the commits its first and its last SELECT saw |
| `files` | the tables as the Parquet files and DuckDB were written from last |
| `work`, `pc` | what a request's Session and transaction hold (deleted, planned, written, read), and where it is |
| `BeginApply`, `DeleteRow`, `LookRow`, `WriteUpdate`, `WriteInsert` | `apply_upload_file`: the DELETE row by row, the lookup of each line, the flush |
| `Conflict`, `BreakDeadlock` | a flush that fails on a row that has gone or on `uq_sales_period`; PostgreSQL ends one of those that wait for each other |
| `ReadTables`, `WriteFiles`, `RefreshFails` | `materialize_analytics` inside the transaction, under the lock of the process |
| `Publish` | the commit of the apply |
| `BeginCalculation`, `ReadStock`, `StoreRun` | `calculate_and_persist` |
| `PortfolioRun` | `get_portfolio_run` with `find_recent_matching_run` |
| `Crash`, `NextDay` | a process dies with all its threads; midnight |

A fact that another upload has written is *taken over*: `_apply_sales_row` finds it and sets its
`source_batch_id`.  `Updated` is the rule of Sessions again: the UPDATE names only the columns whose
value differs from the loaded one.  The Session does not flush before a SELECT, so a line does not see
what an earlier line of its file has added.  The rows of a batch that is being applied are kept from a
second apply by the row lock of the batch (`UploadLifecycle` has the flush that takes it).

**`planning_data`** - two threads of one process and one of another, three applies or calculations that may all
overlap, three uploads of sales over two keys (one has another file the second time, two share
their keys in opposite orders), one upload of stock, one midnight.  Three is the first number in which a
fact is taken over from an upload that is applied again while a third one looks; two keys are the
first number with a deadlock.  One midnight is enough for runs of two days; one before the first calculation
tells nothing apart and is left out.  `FactsAreOfTheirFile`: a fact never names a batch whose last committed apply had no
row for it.  `QuantitiesAreOfTheirFile`: and has that row's quantity, unless the apply overlapped with another
request.  `CommitsAreWhole`: an apply is committed whole or not at all, also when its refresh fails.
`FactsVanishOnlyByTheirOwner`: what another upload has taken over stays when the upload it
came from is applied again.  `ConflictsOnlyWhenCrossed`: the tables refuse a file only because of an
overlap with an apply or a calculation, because it repeats a key, or because it has a value of `Refused`:
the quantity stands for the values of a row, and a revenue that is no number is only warned of and then
written to a numeric column.  `PortfolioIsFreshest`: the run that the pages show is the one of
today that began last, or overlapped with it.  `LoneWorkIsCurrent`: what runs alone leaves files with what the
tables have, and a run of them.  Requests are bounded by `MaxBegun`, so the run may end and deadlock is not
checked for.

**`planning_duplicate_rows`** (violated) - `docs/ingestion.md` says of sales: upsert by client, SKU and month,
and the validation only warns of a repeated row.  Two lines of one file are both added, the flush fails on
`uq_sales_period`, and nothing of the file is applied.  The specification of this run states weak fairness
of each request.

**Proved** (`PlanningDataProofs`), for any number of threads, processes, uploads, files and keys: `TypeCorrect`,
`FactsKeepTheirOrigin`, `TakenOverFactsStay`, `AppliesAreAtomic`, `LocksKeepApart`,
`RefreshesKeepOrder`, `PagesShowTheFreshest` (for `PortfolioIsFreshest`).  The inductive invariant is

    TypeOK /\ (\A r \in Request : Sound(r)) /\ HeldApart /\ OneApplyPerBatch /\ FactsAreOfTheirFile

`FactsAreOfTheirFile` alone is not inductive: a commit replaces the file of its batch, so every fact of
that batch must be one the apply has written.  `Sound` says so for each location of an apply: after
the DELETE nothing of its batch is left but what it has written (`Stage`), what it has deleted was its own and
stays so (`GoneIsOwn`), and what is not written yet is planned.  Others cannot disturb this because a row
written in an open transaction is nobody else's (`HeldApart`): the commit of one apply changes no row another one
holds, and gives no fact to a batch that is being applied (`OneApplyPerBatch`).  `RefreshesKeepOrder` has an
invariant of its own, `Refreshing`: a process has one refresh between its reading and its writing, and the
files of that process are older.  `PagesShowTheFreshest` needs that a calculation began after everything that
was stored before it (`RunsInOrder`), and that the runs that match have a last one (`LastOfSome`, from the
library's well-founded order of the naturals).

What is promised to a request that nobody crosses has a second invariant, `LoneInv` (`LoneRequestsAreSafe`): two
requests that are open together know of each other (`CrossedTells`), and one that is not crossed has a plan that fits the
tables (`LonePlan`) and sees them as they are (`LoneView`).  From it follow `RefusalsHaveAReason`
(for `ConflictsOnlyWhenCrossed`: its inserts meet no other row), `QuantitiesAreKept` (for
`QuantitiesAreOfTheirFile`: its UPDATE leaves out only what the table has) and `LoneWorkStays` (for `LoneWorkIsCurrent`).

## Exports

`ExportJobs` is one export, its JobRuns, the queue and the file.

| Model | Code |
|---|---|
| `job` | `ExportJob`: status, whether it has a file and an error, download count |
| `runs` | `JobRun` rows, one for the dispatch and one for each retry |
| `queue` | messages of the queue `exports`; unacknowledged ones are in the hands of their worker |
| `artifact`, `spoiled` | the file at the storage key, which all attempts share, and the writers that were disturbed |
| `Dispatch`, `Enqueue` | `_dispatch_export_job`, `_enqueue_export_job`, with its fallback to the request itself |
| `RetryLoad`, `RetryCommit` | `retry_admin_job`, `retry_export_job` |
| `Load` ... `Settle` | `process_export_job` by a worker or a request |
| `Download*`, `Stream` | `export_download_path` and the response |
| `Crash` | death of a process; the broker gives the message of a dead worker to another |

The lock of the JobRun row is left out: only attempts of the same JobRun contend for it, and
they hold the job's lock.  The second commit of a download writes an audit row only.

`ExportPromise` is what a requester may rely on, whoever does the work: an export is
pending only while an attempt is open, and only an attempt ends it.

**`export_mixed`** - two requests, a worker that may die once, one retry, one download:
`NoRunIsLost` (an unfinished JobRun is in the queue or in somebody's hands) and
`KeepsPromise` (refinement of `ExportPromise` with `Attempt <- Run`, `status <- Seen`,
`open <- Unfinished`, `settled <- Ended`).  Two requests are needed for a retry that races with
the fallback of the dispatch.

**`export_queued`** - two workers that die twice in all, one retry: `ExportEnds` (every
pending export ends) and `QuietArtifactIsWhole` (once all attempts are over, a
completed export has a file written to its end).  Fairness is strong per request and
per worker: a thread with work goes on, a row lock is granted some time, and an idle worker
receives a message that waits.  Two deaths let a redelivered message be redelivered again
and two attempts be alive at once.

JobRuns are two in these runs (a dispatch and a retry), so a run may end with
nothing to do: deadlock is not checked for.

**Proved** (`ExportJobsProofs`), for any processes, JobRuns, deaths and downloads:
`TypeCorrect`; `WorkIsNotLost`, if only workers die (`Mortal \subseteq Worker`);
`Implements`, the refinement.  The inductive invariant of the first and the last is `TypeOK /\ Roles /\ KnownRuns
/\ JobExists`: workers are never at a location of a request, a process at work has a
JobRun that was opened, and a job exists once a JobRun does.  Each step then maps to
`Ask`, `Settle` or a stutter of the promise.

`BackgroundFilesAreWhole` is `QuietArtifactIsWhole` where exports are left to the workers and only workers die
(`AsyncChoice \subseteq {TRUE}`, as for the types of `ASYNC_ONLY_EXPORT_TYPES` and the large exports of the others).  An export
that a request writes itself is written without the row lock, and an attempt that overlaps with it may leave another file
([Known deviations](#known-deviations)).
The invariant is `FileInv`: an attempt never finds the status `running` (`NeverRunning`), so it always writes it and takes the
row lock; who builds or writes the file holds that lock (`OneWriter`); and who has written it as completed and not yet
committed has written all of it (`WholeWhenWritten`).

## Reserve

`ReserveDemand` has the pure part as operators, `ReserveEngine` the allocation.

| Model | Code |
|---|---|
| `EffectivePolicy` | the chain of policy, category and SKU overrides, and the request's own |
| `ChosenLevel`, `Sufficient` | the fallback chain and when a level has enough history |
| `MetricsAt`, `Compute`, `Conservative`, ... | the averages of monthly sales and the strategies over them, in tenths of a unit |
| `Targets` | demand x months x safety factor, rounded; a tie may go either way (binary floating point) |
| `Init` | what the repository hands over |
| `Plan` | the first loop of `calculate_reserve_preview` |
| `Serve` | one client's turn of the second loop |

One SKU is enough because each SKU of a scope has a pool of its own, and nothing of
another SKU is read.  Stock, deliveries, months, safety factors and priorities are any integers:
an import only warns of negative stock, and takes a negative delivery as it comes, and nobody looks
at the sign of what a request or a policy asks for.  The four histories of a client are independent of each other because
returns make months negative: a sum over more clients says nothing of its parts.

**`reserve_engine`** - three clients (a client between two others is the first case where a
pool is taken twice before the one that lacks).  One part of the data gives one client every mix of
seven histories at four levels, five policies and three strategies; the other gives
all of them two priorities and three demands, with five stocks and four inbounds; a third has policies
with negative months.
`NoPriorityInversion`: nobody gets anything while one before lacks; `NothingIsHeldBack`: nobody lacks while
something is left.  To lack is to be short by more than a negative delivery took away (it is dealt out
like another, to the first client), and the two say nothing where a target is negative: such a client adds to the pool.
`StockIsSharedOnce`: what is handed out is what there is, once, negative or not;
`StatusTellsShortage`: the status a planner reads agrees with the quantities, and a healthy position is covered; `HistoryMeansDemand`: enough history never
gives a demand of nothing; `ConservativeIsHighest`: the strategy called conservative is, of the same averages.

**`reserve_strategy`** (violated) - `docs/reserve-engine.md` offers three strategies and the
page sends the chosen one as `demandStrategy`; the server prefers `demand_basis`, which has
a default, so every calculation from the page uses the same strategy.

**Proved** (`ReserveEngineProofs`), for any clients, policies, requests, histories and supply, of any sign:
`TypeCorrect` (the demand is never negative), `PriorityIsKept`, `PoolIsUsed`,
`StockComesFirst`, `ConservativeIsSafest`.  The inductive invariant is `TypeOK /\
OnlyPlannedAreServed /\ DecisionsStand /\ ServedInOrder /\ NothingIsHeldBack /\
InboundAfterStock /\ NothingAfterShortage /\ StockIsSharedOnce /\ StatusesFollow`.  Priority alone is not inductive: it needs that the
clients served are a prefix of the order (`ServedInOrder`), and that after a shortage nothing
is left to hand out (`NothingAfterShortage`).

`NothingIsPromisedTwice` is `StockIsSharedOnce`, a sum over the clients.  `FoldTheorems` proves of any fold over a
finite set (`MapThenFoldSet`) that it obeys its recursion (`FoldedAt`), by looking at a smallest set for which that
fails: the induction theorems of the library cannot be instantiated here.  With `+` for the operation the proof module
has what it needs of sums: a sum of integers is one (`SumIsInteger`), grows with what one member adds (`SumGrows`)
and is the same for equal summands (`SumOfEqual`), each with a smallest counterexample again.
`BuyersHaveDemand` (for `HistoryMeansDemand`) and `StatusesAreTrue` (for `StatusTellsShortage`) suppose `MoreThanTraces`: where
more was sold than returned, it was more than three tenths of a unit in six months.  Below that the rounding of the demand
to tenths leaves nothing.  Sales in whole units satisfy it (`UnitsAreMoreThanTraces`).

## Assistant sessions

`AssistantSession` is one conversation: any number of turns and edits, a deletion.

| Model | Code |
|---|---|
| `session`, `life` | the row: title, pinned context, message count, last intent, latest trace |
| `messages` | committed messages by `created_at`; a turn's two get their times while it holds the lock |
| `local` | the ORM object as loaded, the row as this transaction has it, messages not committed |
| `told`, `torn`, `overlap` | observed: events the caller got, turns a tool has committed in, whether turns overlapped |
| `Create`, `Delete`, `LoadForEdit`, `CommitEdit` | the session routes |
| `LoadForTurn` ... `Commit`, `Show`, `Deliver` | `post_assistant_message` and `stream_assistant_message` with the repository's functions |
| `ToolCommits`, `Reload`, `AnswerLate` | a tool that persists a reserve run commits the whole database session in the middle of the turn |
| `Fail`, `ResultFails`, `Leave` | an exception, one of what is read after the commit, a browser or process that goes away |

What an answer says and which tools run is an input; one tool commit per turn, since a second
calculation in one plan releases no lock that the first has not.  Deleting
and creating are single commits.  Reading the history changes nothing.  Each question and edit is asked once,
so the run may end and deadlock is not checked for.  There is no liveness: a
stalled browser holds the generator of its stream, and with it the row lock, as
long as its connection lives.

**`assistant_session`** - two turns, one edit, one deletion, two contexts, two intents, in
every order.  (Three turns with one context and intent have the same result: 5
million states.)  `TurnsStayTogether`: a question is followed by its own answer,
unless a tool commits in the middle, and then the order still holds.
`SessionRowIsCurrent`: the count never exceeds the messages and falls behind
only after turns overlapped, and the trace is that of the last answer.  `NothingSurvivesDeletion`.
`CallerIsToldTheTruth`: who saw any part of an answer, `done` or the response finds the
answer stored.  `UnfinishedTurnsLeaveNoAnswer`: a turn that ends before its commit leaves no answer, whatever it has flushed.
The converse does not hold: a POST reads the session again after its commit (`service.py:369`), and the first event of a
stream after the commit reads the id of a message that the commit has expired (`service.py:426-461`), inside the `try`
that answers with `error`.  A caller may so be told of a failure although the answer is stored.

**Proved** (`AssistantSessionProofs`), for any turns, edits, contexts and intents:
`TypeCorrect`, `LockIsReleased`, `TurnsAreKeptTogether`, `NothingOutlivesSession`,
`CallersAreToldTheTruth`, `NothingIsHalfStored` (for `UnfinishedTurnsLeaveNoAnswer`).  The inductive invariant adds two parts to the properties:
`Lives` (the lock is held only while the session exists, and a session that does not exist
has no messages) and `Stages`, which says for each location of a turn what it has stored and has still
to store; a commit appends exactly that, and the neighbours of the other turns' messages stay.
`CallersAreToldTheTruth` adds what each turn was told (`ToldOf`); `NothingIsHalfStored` follows from `Stages`, by which a
turn that has not committed has no answer among the messages.  `RowsAreCurrent` (for `SessionRowIsCurrent`) has the invariant `RowInv`: where no turns have overlapped, a turn
is alone under way (`Alone`), so the count it has loaded is that of the messages and its own (`CountOf`); its draft keeps the
trace of the row until it has an answer, and then has its own (`TraceOf`); at its start it has nothing to store
(`NothingUnsaved`).

## Assistant planning

`AssistantRouting` is how a question is read, `AssistantTools` what each tool accepts, may find and is
answered with, `AssistantPlan` the dialogue.

| Model | Code |
|---|---|
| a question | the set of the word groups it says: each group stands for the tokens that `routing.py` looks for together, and codes of clients, SKUs and categories are words too |
| `Rules`, `DetectIntent`, `RouteQuestion` | `_detect_intent` with its rules in their order, `route_question` |
| `Contract`, `UnknownParams`, `MissingParams`, `Capabilities` | `registry.py` and the catalog of metrics and dimensions |
| `Arguments`, `Outcomes`, `AnswerStatus` | the `tool_` functions and their payloads, `_compose_answer` |
| `history`, `runs`, `grants` | messages of the session, runs the assistant has calculated, the capabilities of the user (with the right to internal analytics among them) |
| `Derive` | `derive_state_from_history` over the last messages |
| `PlanRoute` | `plan_route_with_provider`: the planner's reply is an input, dropped when it leaves the contract or the family |
| `ResolveFollowUp`, `HistoryFallback`, `ParamsFromRoute`, `ExecutionPlan` | follow-ups, the question of an earlier answer, parameters, the list of tools |
| `Ask`, `RefuseParams`, `Clarify`, `Chatted`, `StartTools` | `execute_assistant_query` up to the first tool |
| `Dispatch`, `Deny`, `Compose` | `_dispatch_tool` for one tool; a right or an entity that is missing; the answer and what is stored |
| `Regrant` | an administrator changes the user's rights, also in the middle of a turn |

Parameters and arguments are functions from field names to sets of values.  The handlers of one answer
share a context that each overwrites with its parameters (`ctx`).  What a tool finds is rows, nothing, no payload,
or a failure; the answer's status follows the branches of the code.

**`assistant_plan`** - dialogues of three turns: 35 openings (plain, with a pinned client, with a planner that
rewrites the question, asks back, names another family, an unknown client, another client's report or a calculation, or forces one),
21 second and 10 third questions,
most of them follow-ups; two clients, two SKUs, one category, all rights or all but the one of a support tool.
Three turns are the first number in which a follow-up meets the answer of a clarified question.  The window of
messages is 3 here (8 in the code), so that by the third turn the opening question has fallen out of it and its
answer has not.
`ToolsStayInFamily`: a question the words decide is answered by tools of its family, and only one about a reserve by
the tool that calculates, whatever a planner replies.  `NamedClientIsUsed`: a question that stands on its own is
answered in its words or in those a planner rewrote it in, and every tool with a client works on the client these
name; a planner's parameters, the dialogue and the pinned context do not change it, its rewording does.
`AnswerIsOfOneSubject`: the tools of one answer record one `client_id` and one `sku_id` at most (lists of SKUs are not compared).
`FollowUpKeepsClient`, `ReplyResumesQuestion`: what the dialogue has named is not lost by a follow-up, nor the intent of
the question by a clarification, as long as no planner answers the turn.
`CalculationsAreAskedFor`: a run is stored only when the words answered, the question back that is replied to or a planner's
`_force_tool` asks for one.  `AnswerIsHonest`: a failure is told, and an answer without rows is not told as complete
unless it is of a calculation or of a client: those two are told as completed
([Known deviations](#known-deviations)).  `RefusalLeavesNothing`: a
refused question leaves no message unless a calculation has been committed in that turn.  The dialogue ends after its
turns, so deadlock is not checked for.  There is no liveness: a turn is one call that goes through its tools.

**Proved** (`AssistantPlanProofs`), for any clients, questions, pinned contexts, planner's replies, rights and
outcomes: `TypeCorrect`, `FamiliesAreKept` (`ToolsStayInFamily`), `ClientIsUsed` (`NamedClientIsUsed`),
`AnswersAreHonest` (`AnswerIsHonest`) and the action property `RefusalsLeaveNothing`.
What an answer is made of is decided when its question is read and spent tool by tool, so the
invariant is about the turn that is open:

    TypeOK /\ AnswersAreSound
           /\ (turn # NoTurn => IsRead(turn) /\ ToolsAreSound(turn) /\ ClientIsKept(turn))

`IsRead`: the intent is one of those with tools and compatible with the words of a question that stands on its own,
and such a question is answered in its words or in the planner's.
`ToolsAreSound`: the first tool is a primary one of the family, a calculation is planned only if the text asks for
one or the parameters force it, and what the tools have reported so far is what the status will be made of.
`ClientIsKept`: the parameters, the shared context and the arguments of the calls name the client of the words answered.
`Among`, `Field`, `++` and `Latest` stand in these modules for operators of the libraries
that the provers have no definition of.

Four more are about what the dialogue has said before: `SubjectsAreOne` (`AnswerIsOfOneSubject`), `RepliesResume`
(`ReplyResumesQuestion`), `FollowUpsKeepClient` (`FollowUpKeepsClient`) and `RunsAreAskedFor`
(`CalculationsAreAskedFor`), since the question back of an earlier turn can force a calculation.  Their invariant,
`SubjectsAreKept`, stands on top of the first:

    AnswerIsOfOneSubject /\ ReplyResumesQuestion /\ FollowUpKeepsClient
      /\ CalculationsAreAskedFor /\ SoundDialogue
      /\ (turn # NoTurn => IsAbout(turn) /\ IsResumed(turn) /\ KeepsClient(turn, Recent))

`SoundDialogue`: the tools a message has recorded name one client and one SKU at most each, an answer has recorded a
client only if its intent tells of one, and one that is neither chat nor a clarification has recorded some tool.
`IsAbout`: parameters and context have one client and one SKU at most, all the tools so far have recorded
those of the context, and from now on the context cannot change: either it has what the parameters
name (`Carried`), or none of the tools left is of the intent and gets parameters (`SupportOnly`).  The second case is
needed for the tools that ignore the context (`ReportsStandAlone`).  `IsAbout` also says where a `_force_tool` among the
parameters comes from: the planner's own ones or the question back that is replied to (`Forcing`).  `KeepsClient`: if the turn follows up an answer
about a client (`IsFollowUp`), its parameters name that client, and so does the first tool, which is one that tells
of a client (`ClientTools`).  For a turn to start like that, the state read off the messages must
be of one subject (`IsState`).  The state is a fold over the messages, so
`DeriveIsState` takes the fold apart with `FoldTheorems` (with `AfterMessage` for the operation, the last message first)
and looks at a smallest set of messages that would break it.  `ReadResumes` follows a bare client through the whole reading of a
question: no rule, follow-up or repair matches it, so the pending intent is taken.  `ReadFollows` does it for a
follow-up: every clause of `ResolveFollowUp` that matches leaves parameters that name no other client and no intent
that does not tell of it (`Stays`), and the three that ask for another cut make them name both (`Follows`), whichever
of the others match as well.  `FreshTellsOf` gives the state to start from, the one of the answer
just given.

`FollowUpKeepsClient` asks that the messages read and the questions their tools have recorded name no other
client, and nothing of the pinned context: what the dialogue names goes before what is pinned.

The assumptions name what the provers must know of the constants: questions, and the texts and recorded questions a
planner replies with, are sets of words; a planner replies with the fields it is asked for, and a
reply and a pinned context name one client and one SKU at most (`AsksAssumption`); the clients are in a list, and the code of
a client is none of the words that the rules look for (`CodesAssumption`); the window is a number of messages
(`WindowAssumption`).

## Inbound sync

`InboundSync` is the table of deliveries copied from the Google Sheet and every run of the sync
(an *attempt*): by a user, by the daily job, or by the broker's retry of it.

| Model | Code |
|---|---|
| `sheet`, `EditSheet` | what a download gets; its users edit the sheet at any time |
| `rows` | committed `InboundDelivery` rows with the prefix `google_sheet_inbound:`; a row is its `external_ref` and the attempt that wrote it |
| `queue`, `Schedule` | messages of the queue `inbound`; the scheduler sends one a day |
| `jobs` | the `JobRun` of each attempt of the actor |
| `RequestSync`, `StartJob` | the route; the actor with its first commit |
| `Download`, `DownloadFails` | `_download_sheet_csv` and `parse_inbound_sheet_csv`; an exception the actor can record |
| `See`, `Delete` | the DELETE: snapshot, then the wait for row locks, then what is still there |
| `Insert` | the loop over the rows and its flushes; PostgreSQL makes it wait for, or fail on, an equal `external_ref` |
| `Commit`, `SettleJob` | the one commit of the sync; the actor's second commit |
| `FlushFails` | a statement fails, and so does the handler, which reads the JobRun in the broken transaction |
| `Die`, `Abandon` | death of the process; rollback, and the message goes back to the broker |
| `seen`, `gone` | what the snapshot of an open DELETE has, and what it has deleted and locked |
| `stored`, `overtaken` | observed: who has committed, and in whose transaction somebody else has |

The `external_ref` names the row's position, container and article, so a line added above moves the
others to new references; that is why the contents of the sheet overlap in some
references and not in others.  The flushes of the loop are one step: the rows they write are not
visible before the commit, and a conflict of a later flush is found in this step as well.

**`inbound_sync`** - three attempts, four contents over three references (one of them empty: a sheet
with a header and no readable row), one message waiting.  Three attempts are the first
number in which a sync meets the rows that two overlapping ones have left.
`SheetsAreWhole`: readers see a copied sheet as a whole or not at all.   `SheetsMixOnlyWhenOvertaken`: a sync removes whatever mixture it finds, and
rows of two copies stay only if a commit fell into one of their transactions.  `JobTellsTruth`: a
JobRun that is completed has stored its rows, one that is failed has not, whatever died in
between.  Attempts are used once, so the run may end and deadlock is not checked for.

**Proved** (`InboundSyncProofs`), for any attempts, contents and references: `TypeCorrect`,
`CopiesAreWhole`, `NoDeliveryTwice`, `SyncReplacesAll`, `JobsTellTheTruth`.  None of the
properties is inductive.  The invariant adds what the database holds for open
transactions: `RowLocks` (a row is deleted by one at a time, and stays until that one commits),
`UniqueIndex` (rows inserted and not committed have no equal among those that stay, nor among each
other), `SeesAll` (who is not overtaken has seen, and then deleted, all there is), `Whole` (what
is there, seen or deleted is made of whole copies), and `Memory` and `Known` (what an attempt holds at
which location, and that rows are of attempts that have committed).  `SheetsAreWhole` follows from `Whole`.

## Only model-checked

Out of the prover's reach and left to TLC: liveness under fairness (`MappedBatchSettles`,
`ExportEnds`) and whatever needs ENABLED.

Four properties need a hypothesis, which their runs satisfy as well: `StatusIsTrue` is proved for one request at a time,
`HistoryMeansDemand` and `StatusTellsShortage` where more than traces were sold, as in the run; `QuietArtifactIsWhole`
for exports left to the workers, as in the run that checks it.

Type invariants are proved.  Some theorems
state what no run repeats: `NoDeliveryTwice`, `StockComesFirst`, `LocksKeepApart`, `RefreshesKeepOrder`,
`LoneRequestsAreSafe`, and `LockIsReleased` of the assistant's sessions.

## Known deviations

Seen while modelling; those with a run are above, the others are kept here.

- Uploads: `apply_upload_file` refuses a batch with blocking problems, validates again with the mapping it
  reads after that commit and skips rows with errors, so a mapping saved by another request in between
  is applied with its error rows (`uploads/service.py:1294`).  With two requests the status history loses entries (a JSON column
  written as a whole).  `source_confirmation_required` and `ready_to_review` are not among the documented
  statuses.
  A warehouse file that was confirmed and applied as sales and is then confirmed as stock keeps its
  sales rows (`uploads/stock_import.py:166`); one without a readable quantity is `applied` with nothing, and takes
  away the snapshots an apply has left.
- Facts: a quantity may be that of another upload when two overlap: the UPDATE of a fact leaves out a column
  that has the value it was loaded with (`uploads/service.py:951`).  A fact that another upload takes over is lost to the
  first one for good.  Two stock files of one date in two batches are summed.  Deliveries uploaded by file are
  overwritten by `external_ref` in the order the files are applied, so an older file applied again brings old quantities back
  (`uploads/service.py:991`); a repeated `source_row_id` in one file fails like a repeated sales row.
  A revenue that is no number is a warning (`uploads/validation.py:226`) and reaches the numeric column as it is
  (`uploads/service.py:953`): the whole file is refused, and the batch keeps the status it had.
- Reserve runs: the SELECTs of a calculation see different commits when an apply is committed in between, so a run may be of
  a stock and of sales that were never there together (`reserve/repository.py:188`).  The portfolio run is not found once 25 later runs were stored, nor after midnight, until it is calculated
  again (`reserve/service.py:234`; `docs/dashboard.md:19`: the latest matching run).  All callers pass
  `reuse_existing=False`, and nobody calls `ensure_reserve_run`.
- Analytics: a refresh reads what its own transaction has flushed, so the files have uncommitted facts if the
  process dies before the commit; the lock of the process is released before the commit, so a refresh by another
  request in between leaves files without facts that are then committed; two processes write the same files, and one of them
  may find DuckDB open: its apply ends as `failed` with the facts committed and the JobRun of the refresh `running` for ever
  (`uploads/service.py:1383`).  The inbound sync never refreshes them, and the backup copies the DuckDB file while it may be
  written (`worker/tasks.py:210`).  Nothing in the program reads these files.
- Exports: `docs/exports.md` says the worker takes the job to its end; a request that dies between the
  commit of the dispatch and the send leaves the export pending for ever (`exports/service.py:667`), and
  the retry refuses a JobRun that is queued or running.  A download checks the committed status and
  streams the file that a repeated attempt may have just emptied (`exports/service.py:165`).
  Two downloads at once count one; a retry that loaded the job before an
  overlapping attempt ended may leave a completed export without `storage_key`,
  which cannot be downloaded until it is retried.
- Reserve: a delivery with a negative quantity is accepted (`uploads/validation.py:415`, `inbound/service.py:72`), summed into the
  pool and dealt out whole to the first client, who is then short while free stock goes on to clients of lower priority
  (`reserve/engine.py:455`; `docs/diy-policies.md:40`).
  An inactive policy never shows the status `inactive`, since the repository leaves inactive
  policies out (`reserve/repository.py:195`); `overstocked` is not reached with months above zero
  (`reserve/engine.py:453`).
- Inbound sync: `docs/inbound-sync.md:31` says that the rows with the prefix are replaced on each sync.  Two syncs delete
  before either has committed and insert rows with different references: both copies stay, and the calculation counts
  both, until the next sync (`inbound/service.py:288`).  After a failed flush the JobRun stays `running` (`worker/tasks.py:116`),
  as it does when the worker dies.  A sheet whose header is there and whose rows cannot be read is not an error: every row is
  skipped with a warning, and the deliveries are emptied.
- Assistant sessions: with overlapping turns `last_intent` may be that of the earlier
  answer, `last_message_at` may go back, and a rename made between a turn's
  read and its lock is overwritten by the title made of the question.  A pinned context equal to
  the stale one is not written (`docs/assistant-frontend-integration.md:43`).  The event
  `thinking` says the question is saved (`docs/assistant-api.md:85`); it is
  flushed, and vanishes if the turn fails.  `docs/assistant-api.md:214` says the assistant
  writes nothing operational; the calculation tool persists a reserve run.  The page asks to repeat a
  question whose answer is stored, if only the connection broke.
- Assistant planning:
  - A request for details after a recalculation repeats it, since it is read with the earlier question in front
    (`docs/assistant-architecture.md:108-111`: reading tools make no hidden calculation).
  - A pinned SKU or an extracted field that the chosen tool does not take refuses a legal question with
    `assistant_unknown_tool_param` (`registry.py:104`).
  - A question about a second SKU after an answer about a first one is answered about the first: the inherited
    `sku_id` is kept beside the new `sku_ids` (`orchestration.py:285`).
  - A follow-up that names another client may be answered about the former one (`orchestration.py:2346`; the
    dialogues in `tests/assistant_eval_cases.yaml:109` expect the new one).
  - After the clarification of a recalculation the answer only reads: the pending question is the assistant's own text, and
    the questions of the program never say the words that `_force_tool` needs (`state.py:166`, `:314`).  The question back
    of a planner may say them, and then a reply is answered with a calculation; so is a question that asks to show a reserve if
    a planner passes `_force_tool` (`registry.py:92`; `docs/assistant-architecture.md:111`: no calculation only because "show" was asked).  Metric, period and SKU of the first question are lost too.
  - An explanation that asks back names no missing field and so is not resumed.
  - A calculation whose refresh fails is told as a failed tool although its run is stored; a support tool denied after a
    calculation ends the request with 403 and leaves the run and the question.
  - A calculation without rows and the summary of a client without reserve rows are told as completed, without a warning
    (`tools.py:381`, `:634`; `docs/assistant-architecture.md:11`: better an honest `no_data`).
  - A planner that rewrites a question decides with its words which client is answered (`orchestration.py:2458`).
  - A slice whose query failed has the status `no_data`, with a warning beside it.

## Not modelled

Rows, columns and formats of files; the parsing of cells; the wording of answers and the calls of
language models; list pages, filters and dashboards, which read; the audit trail, which inserts with its
caller's transaction; health, configuration, logging, metrics; object storage as I/O; migrations
and seed data; shared type packages; deployment.

Of the parts that are modelled: the articles and clients that the loop of the inbound sync creates, and the number of retries of
the broker; deliveries uploaded by file; reserve rows and deliveries among the tables of the analytics; files of
which no row is applicable (`UploadLifecycle` has them); a refresh asked for by an administrator, which is that of a
calculation without its run.  `created_at` follows the order of commits.  Of the assistant: uploads as a subject, months and
safety factor, the year of a bare month, comparisons of two years, and parameters that only the planner's own code reads;
the payloads of tools.

Left out as a whole: **users and roles** (single commits; a role change of two statements), **authentication** (a token is inserted at
login, read by a refresh, revoked at logout, one commit each; hashes and signatures), the **evaluation of policies** (a filter over rows in
which a denial wins), the **rate limiter** (a counter with an expiry).  Each is a few single-statement operations on
rows that nothing else depends on.
