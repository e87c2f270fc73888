# A formal model of the DuckDB backend plugin

TLA+ modules, TLC configurations and TLAPS proofs for
`mcpg-plugin-backend-duckdb`. Line numbers refer to the files under `src/src/`.

Contents: [the system](#the-system) ·
[modules and code](#modules-and-code) · [runs](#runs) ·
[fairness](#fairness) · [proofs](#proofs) · [divergences](#divergences) ·
[what is left out](#what-is-left-out) · [plan](#plan)

## The system

The plugin gives an MCP gateway a `duckdb` backend. The gateway registers
*bindings* (a database, one operator-fixed statement or catalog operation,
optional listing and completion statements) and sends calls to them; a second
entity watches a file database by polling. DuckDB is compiled in and synchronous,
so every statement runs on a blocking thread of a tokio runtime that the plugin
owns, under a timer that can abandon a statement but not stop it.

| Component | State it keeps | Operations | What makes it correct |
|---|---|---|---|
| Profile registry (lib.rs 113–178, 369–594; types.rs) | `profiles: RwLock<BTreeMap<name, profile>>`; a profile holds its pool in an `Arc` | `register_profile`, the clone each call takes, schemas | only validated specs are stored; a call never mixes two registrations of a binding; superseded pools are closed |
| Statement runner (lib.rs 290–350) | none of its own; two timers per call | `run_query` for `execute`, `list_resources`, `complete_template_variable` | permits and connections survive timeouts; "never executed" is never confused with "unknown"; every call is answered |
| Connection pool (duckdb.rs 249–322, deadpool) | permits, idle connections | `create`, `recycle`, return on drop | bounded by `pool_max_size`; one owner per connection; a dead connection is replaced under its permit; nothing leaks |
| Blocking threads (tokio; cdylib.rs 21–28) | a bounded set of threads, a queue of jobs | start, end of open, statement and audit jobs | abandoned statements do not starve the rest |
| Answer (lib.rs 735–829, envelope.rs, surface.rs) | none | envelope, surface bodies, error class, audit label, `emit_host_observability` | a failed `execute` is audited exactly once, before its caller is answered; label, kind and body agree |
| Listing (lib.rs 893–946, surface.rs 21–72) | none: the cursor is the client's | `list_resources`, `rows_to_resource_page` | pages neither skip nor repeat rows under concurrent writes; the listing ends |
| Completion (lib.rs 952–995, surface.rs 86–107) | none | `complete_template_variable`, `rows_to_completion_values` | the statement is guarded; at most `max_results` values |
| Catalog and file statements (lib.rs 1005–1043, duckdb.rs 130–247) | none | filter resolution, SQL builders | what is listed is what binding and call ask for; binds follow placeholders |
| Row reading (duckdb.rs 325–480) | none | `run_query_on_conn`, marshalling | cap, count and `truncated` agree at the boundary; a key survives the way out and back |
| Parameters (params.rs) | compiled CEL programs, immutable | `compile_params`, `evaluate_params`, `json_to_duck_bind` | a value that cannot be bound refuses the call before execution; integers keep their value |
| Opening (duckdb.rs 77–128) | none | `open_connection` | a statement finds the flags, every init_sql statement and every ATTACH in place; a failure leaves no connection behind |
| Schemas (lib.rs 830–891, 1044–1097; envelope.rs 55–125) | none | `input_schema`, `output_schema` | every argument a call depends on is advertised; rows have the advertised columns |
| Change watch (watch.rs; SDK loop) | the SDK's baseline cursor; the plugin's closure is stateless | `watch`, one tick, `cancel` | no notification without a write; a failing tick is retried; the subscriber catches up |
| cdylib bridge (cdylib.rs) | the runtime | forwards calls with `block_on` | none of its own |

How they interact: the gateway's threads enter through the bridge; a call clones
its profile under the read lock and works on the clone only, so it shares with
other calls just the pool behind the `Arc`, the blocking threads and the database
file. A re-registration replaces the map entry and never touches calls in flight.
The watcher shares nothing with the backend but the file.

What is hard: timers racing the jobs they abandon; permits and connections owned
by jobs whose caller is gone; re-registration under load; a thread pool shared by
opens, statements and audit events; writes between the pages of a listing; the
window between a subscription and the first tick. In the data: integers that JSON,
CEL and a double hold differently; an error that is classified twice, once for the
caller and once for the audit log; a cap that counts what it does not keep; columns
and arguments written down in two places. `PROJECT.json` lists these
hazards line by line with the properties that watch over them.

## Modules and code

| Module | Models | Correspondence |
|---|---|---|
| `CallService` | the promise of one call, abstractly | `status`: the answer given; `applied`: whether the engine executed the statement. `ok` only after execution, `rejected` only without it, one answer, one execution |
| `QueryRunner` | `execute`/`run_query`, the pool, the threads, the audit of failures | `pc[c]` is the await point of a call's task; `permits`, `idle`, `held`, `link` are deadpool's semaphore and queue and the connections; `openJob`, `queryJob`, `auditJob` are the three `spawn_blocking` jobs a call may own. `AcquireTimeout` and `QueryTimeout` are the two `tokio::time::timeout`; what they leave running stays in the job variables |
| `CallBudget` | `QueryRunner` with a clock | `Arm` sets `deadline` where `timeout` is called; `Expire` is its `Err` arm |
| `Profiles` | `register_profile`, statement selection, re-registration | `Accepts` is the conjunction of register's refusals; `TextFor` is the statement each entry point picks, which for a file read is as good as its predicate; `reg` numbers registrations (generations), `held[c]` is a call's clone, `job[c]` its statement's connection, `idle` each generation's idle queue; `Alive` is the pool's reference count being positive |
| `Conversions` | values: engine to JSON, JSON to CEL and back, JSON to bind, cursor to string | a value is a record whose field is its type; `IntMax`, `Exact` and `Spacing` scale i64, u64 and f64. `Equals` and `Castable` are DuckDB's |
| `Statements` | which statement a call runs with which binds; the builders; the schemas | a statement is a record of relation, columns and the columns its placeholders are compared with; `Executable`, `Selected` and `ResultRows` are DuckDB's evaluation of one; the assumptions say what a table is and that the filtered columns of `information_schema` are text |
| `Answers` | error classes, outcome labels, audit actions, the body of each surface, completion candidates | a message is the set of the markers that `classify_error` and the label rule look for |
| `Execute` | one binding and its calls, end to end, composing the three above with opening, reading, the pool's one connection, timeouts and abandoned statements | `phase` is how far the call is; `conn.done` lists what `open_connection` has done; `count` and `kept` are the loop of `run_query_on_conn`; `pooled` and `orphan` are where the connection goes after the call, or without it |
| `Listing` | `list_resources` and the page projection, against writers | one page per step; `NextCursor` is surface.rs 60–67; `stable`, `listed`, `shifted` are history for the properties |
| `Watch` | `watch`, one tick, the subscriber, writers | `phase` is where the poll thread is; `source` is the result of the tracking query, as rows, and `CursorFromOutcome` is `cursor_from_outcome` with its `None` arms; `monotone` says whether the query can fall (`count(*)`, or `max()` where rows are deleted); `written` and `emitted` are history; the loop and the diff are the SDK's, as the README documents them |

`MCQueryRunner`, `MCListing`, `MCProfiles` and `MCExecute` supply the values TLC needs;
`*_proofs` hold the theorems: `Statements_proofs` the lemmas about `Statements`,
`Execute_proofs` what `Execute` does with connections, failures and rows,
`ExecuteData_proofs` what its answers say. Operators named `Bug…`, right before the definition
they vary, are plausible mistakes in that code: with one in place of the original
a property of the run must fail (`PROJECT.json`, `mutants`).

Abstractions. Statements, rows and specs are model values or small classes: what
registration sees of a statement is *absent, blank, read* (passes
`enforce_read_only`) or *write*; the remaining syntactic checks (bounds above
zero, identifiers, placeholders, secret references, CEL that compiles) are the one
field `wellFormed`. `QueryRunner` follows one binding, whose calls share one pool;
other bindings matter only through the threads they take, which is what `Threads`
small stands for. The ping of a pooled connection is atomic with popping it, as
in the code it runs inline. The blocking queue may start any queued job, which
includes tokio's order. A panicking statement is `FailQuery`, which may leave its
connection `dead`.

`Execute` has one call at a time; what overlaps with it is the abandoned statement
of an earlier one. `QueryRunner` has the overlapping calls and knows nothing of what
they ask and get: the two share no state that would make the product say more, since
calls of one binding meet only in the pool. A text is a word or the spelling of an
integer; blobs, temporal and composite values are one class that is rendered as a
string. Binds are compared by DuckDB's rules: a string is cast to the column's type,
an integer meets a double as a double.

## Runs

| Run | Question | Bounds and why they are enough |
|---|---|---|
| `runner_safety` | pool, ownership, permits, audit, absence of circular waits, refinement of `CallService` over every interleaving | 3 calls, 2 permits, 3 connections, 3 threads: one call more than permits, so one waits while another's abandoned statement holds a permit; a third connection is opened while one is late. Calls and connections are symmetric |
| `runner_liveness` | is every call answered although statements may run for ever, and is every permit back once they end? | 2 file calls and a `:memory:` call on 1 permit and 2 threads: everything contends for both, one hung statement leaves a thread and two leave none, which is where `AnsweredWhileThreadsLast` draws the line |
| `runner_starved` | is every call answered without that condition? | *violated*, see below |
| `call_budget` | how long may a caller wait? | timeout 1 tick, clock to 3, so two timeouts and a tick fit |
| `call_ceiling` | is `statement_timeout_ms` a ceiling on the call? | *violated* |
| `profiles` | what runs, on which connection, under re-registration | the specs combine every field that selection depends on, file reads with and without a predicate included; 2 registrations, 2 calls, pools of 1: a call, an abandoned statement and a re-registration overlap |
| `listing` | are listings exact under writes, and do they end, in both modes? | 6 rows, pages of 2: full, short and empty pages, a page boundary on the last row, a row without a uri, two rows that share a key across a boundary |
| `listing_sparse` | the same when rows without a uri fill a page | *violated* |
| `execute` | from request to answer: set-up of the connection, whole answers, agreement of caller and audit log, catalog filters, schemas, keys, completions | about 80 bindings of every operation and surface, some 20 requests; i64 is −8..7, u64 0..15, doubles are exact to 4 and then multiples of 4, so that two neighbouring keys beyond i64 share one; caps 1–4 over 4 rows, so results fall short of, meet and exceed the cap; failures carry any set of markers; calls follow one another, so that a call meets what an earlier one left. 185 294 states |
| `execute_memory` | is a database in memory fresh for every call, whichever of its names it has? | *violated* |
| `execute_narrow` | can a caller only narrow what the operator pinned? | *violated* |
| `watch_poll` | are there no more notifications than writes, is no change missed, and does the subscriber catch up? | scalar up to 3 and 3 writes while the watch is on, so that a rising query takes three steps, one that falls goes away and comes back, and both happen between two ticks or across them; results without a row and with NULL; failing ticks |

Deadlock is checked except where the modelled system really stops: when every call
is answered (`QueryRunner`, `CallBudget`) and when a watch is refused or cancelled
and the writers are done (`Watch`).

## Fairness

Each liveness property is checked under the weakest fairness that the code
justifies.

- `QueryRunner!RuntimeFairness`: weak fairness of each task's steps and timers,
  of the start of each queued job, and of the host's answer to an audit event.
  tokio polls ready tasks, fires timers and takes queued jobs in order; the audit
  call is the host's.
- `OpensEnd`: opening a file database ends, in success or failure.
- No fairness makes a statement end, since nothing in the code interrupts one:
  `FairSpec` lets every statement run for ever. What depends on their end says so in
  the property: `AnsweredWhileThreadsLast` supposes that from some time on a thread is
  not held by a statement, `PermitsRecovered` that no statement runs any more.
- `Profiles`: every call returns (both timers of `run_query`) and statements end.
- `Listing`: the client asks for the next page.
- `Watch`: the poll thread runs; a tick that is retried for ever succeeds in the
  end (strong fairness of `Sample`), since only transient failures can be hoped to
  be seen through; the subscriber reads when told.

## Proofs

All proofs hold for every value of the constants. Each follows the same plan: an
inductive invariant `IInv`, one lemma or step per action, temporal logic in the
last step.

- **`QueryRunner_proofs`** — `TypeCorrect`, `PermitsAreConserved`,
  `ConnectionsHaveOneOwner`, `OpenExactlyWhileOwned`, `PoolIsBounded`, `ThreadsAreBounded`,
  `FailuresAreAudited`, `WaitsHaveAnEnd`, `Refinement`. None of these is inductive
  alone: whether a timeout loses a permit depends on which job then owns it. `IInv`
  adds `Shape` (which jobs may exist at each point of the task, and that a
  connection is held exactly where one is owned) and `Verdict` (the decided outcome
  against what the jobs did). Counting uses finite-set lemmas: adding or removing
  one holder moves one permit. `PoolBounded` holds because a connection is created
  only under a permit while none is idle. `WaitsHaveAnEnd` is the part of
  `AnsweredWhileThreadsLast` that needs no fairness: timers hide a deadlock by ending the
  calls in it, so `NoWaitInVain` is stated without them. If no permit is free,
  `pool_max_size` calls hold one, and a holder waits for a job of its own only. Assumptions: finitely many calls and
  connections, `pool_max_size` at least 1 (refused otherwise, lib.rs 453).
- **`CallBudget_proofs`** — the clocked system implements `QueryRunner`, so all of
  the above carries over (`TimedImplements`), and `CallersAreAnsweredInTime`: an
  outcome is decided within two timeouts, within one for `:memory:`.
- **`Profiles_proofs`** — `StatementsAreGuarded`, `CallsKeepTheirProfile`,
  `NoIdleLeak`, `TypeCorrect`. `AcceptedText` is the heart: whatever statement any
  entry point selects from an accepted spec, register's separate checks together see to
  it that there is one and that it is guarded, the predicate of a file read excepted.
  That `execute` has a statement rests on these checks alone: unlike listing and
  completion it does not look before it runs. The invariant carries that through time: the registry holds accepted
  specs only, and a clone keeps the name, the spec and the pool together.
- **`Statements_proofs`** — lemmas about statements for any catalog. `RankBounds`,
  `NthElement`, `ResultLength`: the rows that a statement selects can be numbered, so
  the k-th row of a result exists (positions have different ranks, hence every rank up
  to the size of the set is taken). `ColumnsOfResult`, `ShownRow`: what marshalling
  makes of a row of the result. `PushedConditions`, `CatalogSelects`: the conditions
  and binds of a built statement, in the order of its placeholders, select exactly the
  entries that meet the filters in force. `SameFilters`, `SameBinds`,
  `SameStatementFor`: what a statement and its binds depend on. `FirstColumnIsFirst`:
  which column a completion is taken from.
- **`Execute_proofs`** — three inductive invariants over variables that hardly meet.
  `ConnInv`: a connection being opened has done a prefix of `OpenSteps`, one that is
  ready, pooled or with an orphan all of it, and none of a binding named
  exactly `:memory:` is ever kept; from it `StatementsFindSetup`. `AnswerInv`: an
  outcome ended by a timer carries the timers' text, and answer and audit event were
  derived from one message, and a call of `execute` that is under way has a
  statement; from it `AuditAgrees` and `TimersAreReported`, the first
  by cases over the markers, since label and kind are computed by two rules that
  must be compared on every text. `AuditEventsFor` lists what may go with each
  answer: it leaves exactly one choice open, a timeout in place of the action that
  retryable asks for, which a text that mentions a timeout takes. `ReadInv`: for both entry points, `todo` is the
  statement of the binding and the call, `kept` is the first `max_rows` of the `count`
  rows read, and what was answered was made from them; from it `AnswersAreWhole`.
  `TypeCorrect` uses all of them.
  `KeysRoundTrip` and `CursorsRoundTrip` are about the conversions alone: an integer
  sent out and back meets itself and no other, for every width and every double.
- **`ExecuteData_proofs`** — what the answers say, from `ReadInv` and
  `Statements_proofs`: `RowsHaveAdvertisedColumns`, `AdvertisedArgumentsSuffice`,
  `CatalogAnswersAreExact` (where no caller gives a pinned column another value:
  otherwise documentation and code disagree, see `execute_narrow`), `CandidatesComeFromFirstColumn`, and `KeysFindTheirRows`,
  which chains `KeysRoundTrip` through the statement: the id an answer showed, bound
  again, selects the rows that were shown under it. No invariant beyond `ReadInv` is
  needed; the work is in the operators.

  Assumptions of the three: `BindingsAssumption` (what `register_profile` stores and
  the gateway sends: the operation is one of four and has the statement it needs,
  lib.rs 384–443; the cap is a natural number; the surface is one of three;
  pinned values are strings; parameters are in one of the three modelled forms;
  statements are selections from one relation, by the shape of the model),
  `NoneAssumption` (`None` is no error and no statement), `RequestsAssumption` (a caller's string is a string of the model),
  `RelationsAssumption` (a relation has columns, finitely many rows, and no value in a
  column typed NULL), `CatalogAssumption` (the filtered columns of the two views are
  text or NULL, as DuckDB documents them). TLC evaluates all of them on `execute`.
- **`Listing_proofs`** — `KeysetComplete`, `KeysetNoDuplicate`, under the condition
  `FewWithoutUri` (rows without a uri cannot fill a page) that `listing_sparse`
  shows to be needed; and `OffsetIsExact`, for the offset mode. Its invariant says
  that, as long as nothing before the offset changed, the rows of rank below the offset
  are those the earlier pages were made of. That a page of n rows moves the offset past
  just these is a matter of counting: the ranks are an injection of the table into its
  size.
- **`Watch_proofs`** — `TypeCorrect`, `NotifiesWritesOnly`: never more notifications
  than writes, for queries that rise and queries that fall. The invariant counts: a
  baseline or a sample that differs from the scalar last written takes a write that was
  not notified yet, so notifications, plus what the next comparison would add, stay
  within the writes; a `NULL` or an emptied table adds nothing on either side.
  `MissesNothing`, for monotone queries, the safety half of `SubscriberCatchesUp`: it is not
  inductive, because an emptied table hides how far behind the subscriber is until the
  next write; `Behind` keeps that a subscriber below the baseline, whatever the table
  holds now, has a notification waiting.

Every safety invariant and every action property that a passing run checks is stated
by a theorem. Only model-checked is liveness (`AnsweredWhileThreadsLast`,
`PermitsRecovered`, `ListingEnds`, `SupersededClosed`, `SubscriberCatchesUp`,
`BaselineFollows`), since fairness and ENABLED are out of the proof system's reach.
Induction over data and recursive operators are out of its reach too; no module needs
either: results, ranks and counts are stated by cardinality, not by recursion. The
backends do not know that a literal such as "table_name" is an element of STRING, so
the lemmas about built statements ask for the listed column names by what is needed of
them instead.

## Divergences

Where the code does something else than its documentation says:

1. `call_ceiling` — `statement_timeout_ms` is documented as the ceiling on open,
   statement and read (types.rs 184, README 89); acquiring and running are each
   given the whole of it, so a call may take twice as long.
2. `runner_starved` — the audit event of a failed call is awaited on a blocking
   thread without a timer (lib.rs 238). When hung statements hold every thread, a
   timed-out call is never answered, although README 420 says calls are bounded by
   the task timeout. `AnsweredWhileThreadsLast` shows that it takes as many hung
   statements as threads: file databases are safe while their pools add up to fewer connections
   than there are threads (tokio's default is 512); `:memory:` statements are not
   bounded by a pool.
3. `listing_sparse` — a full keyset page of rows without a uri ends the listing
   (surface.rs 64), although only a short page is documented to.
4. `execute_memory` — only a database named exactly `:memory:` goes without a pool
   (lib.rs 544). watch.rs 129–132 says that the form `:memory:?...` "gets a fresh empty
   engine per connection" too, and duckdb.rs 16 and README 413 that `:memory:` is never
   pooled; a binding of that form keeps its engine from call to call. That DuckDB takes
   the form for a database in memory is what watch.rs says of it; it is not checked here.
5. `execute_narrow` — "caller input can only narrow the metadata" (types.rs 124, lib.rs
   1010, duckdb.rs 143, README 144), but the caller's argument replaces the operator's
   value (lib.rs 1036), as the same comments say a line earlier, and an empty one
   removes the filter (duckdb.rs 196). The two claims cannot both hold of a filter that
   has a pinned value and an argument; without one of the two, `CatalogExact` states
   what both come to.

Noted without a run:

- `timeout_ms` of a watch is documented as a per-tick budget (README 360) and
  ignored, as the comment at watch.rs 186 says.
- A `read_query` on a resource binding whose operation is not `query` is accepted
  (lib.rs 502) and never run (lib.rs 716), although the check is there so that "a
  misplaced field is never a silent no-op" (lib.rs 499). `ReadQueryOk` and `Executed`
  show it side by side; it takes one registration and no sequence of steps.
- The predicate of `read_file` is called "operator-fixed and read-only" (lib.rs 439) and
  the operation "inherently read-only" (README 81), but registration only looks for
  secret references in it; `enforce_read_only` never sees it, and it is spliced into the
  statement. `RunsGuarded` excepts it by name.
- A watch is said to signal "whenever that scalar advances" (watch.rs 5, README 326),
  with `count(*)` as an example; the comparison is for difference, so a count that falls
  is notified too, and one that falls back between two ticks is not seen.
- `list_columns` "scopes to one table" (README 147); with only a `table_arg`, a call
  without that argument lists the columns of every table.
- Completion offers the "first column" (types.rs 388), taken as the first key of a
  JSON object (lib.rs 980): the alphabetically first, unless serde_json is built with
  `preserve_order`. `CandidatesAreFirstColumn` holds under that condition or with a
  single column; the repository has no Cargo.lock that would tell.
- A permanent error whose text mentions a timeout is labelled `timeout` and answered
  as `duckdb_error` (lib.rs 796, envelope.rs 20). `AuditEventsFor` allows
  it, as the only exception.
- The failure of a parameter quotes its source, so one that mentions "lock" or
  "connection" is answered as retryable.
- On the resource and prompt surfaces nothing says that rows were left out.
- A cursor column of timestamps is rendered as "N Microsecond" (duckdb.rs 461), which
  DuckDB does not cast back, although surface.rs 75 says timestamps round-trip and
  types.rs 376 suggests `updated_at`; a NULL key becomes the empty string.
- The documented keyset shape `WHERE cursor_column > ?` with NULL on the first page
  (types.rs 356) selects nothing there; the statement has to allow for NULL, as the
  one of the test at lib.rs 1581 does.
- The bridge's `SyncBackendPlugin` forwards neither `input_schema` nor
  `output_schema` (cdylib.rs 51–109).

## What is left out

- The cdylib bridge: it forwards calls and keeps no state.
- The rendering of each DuckDB type, of SQL text (quoting, paths) and of JSON schemas,
  tracing, metrics, durations, the manifest: data or wording without control; unit
  tests cover them one by one.
- `enforce_read_only`, CEL, deadpool, tokio, DuckDB and the SDK's watch loop are
  libraries: modelled by what the code relies on, and marked external in the map. A
  parameter is one of three forms of CEL expression: a member, an indexed member, a
  conditional.
- Binds of integer columns are compared as integers or doubles; columns of doubles
  and decimals are not looked up by key in the runs.
- A keyset column with ties loses the rows that share the last key of a page, and
  `StableListed` is stated for keys that are not shared; a tracking scalar that falls
  back may hide a change, and `NothingMissed` is stated for monotone ones. Both are the operator's statements; the hazard list says what
  happens.

## Plan

Written, in this order: `CallService` and `QueryRunner` (the core: what can go
wrong needs several actors), `CallBudget`, `Listing`, `Profiles`, `Watch`, then
`Conversions`, `Statements`, `Answers` and `Execute`; each but the pure ones with its
proofs, those of the pure ones in `Statements_proofs` and `Execute_proofs`. Then the
theorems about the contents of answers and about the offset mode.

What could follow: an abstract registry that `Profiles` implements, an abstract
notifier for `Watch` on top of `NothingMissed`, and a strictly rising cursor as the
variant behind `ListingEnds`.
