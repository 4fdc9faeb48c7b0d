# Verification of diesel-dualdb

diesel-dualdb lets one Diesel program run on PostgreSQL or SQLite, chosen by the
URL at run time. This directory holds TLA+ models of the parts of it that are
hard to test, TLC configurations that check them on small instances, and proofs
that TLAPS checks for every instance. Paths below are relative to the
repository (`src/` is the main crate, `diesel-dualdb-cli/` the schema generator).

- [Inventory](#inventory): the system's parts, their state, their hazards
- [Modules](#modules): what models what
- [The model of the async pool](#the-model-of-the-async-pool)
- [The model of the sync pool and of URLs](#the-model-of-the-sync-pool-and-of-urls)
- [The model of the bridge and the value types](#the-model-of-the-bridge-and-the-value-types)
- [The models of the schema generator](#the-models-of-the-schema-generator)
- [Runs](#runs): questions, bounds, results
- [Findings, and divergences without a run](#findings)
- [Proofs](#proofs)
- [What is not modelled](#what-is-not-modelled)
- [Plan](#plan)

## Inventory

| Part | State | Operations | Talks to | Hard behaviour | Correct when |
|---|---|---|---|---|---|
| Async connection (`src/async_connection.rs`) | the active arm; its transaction manager (status depth, error state; on the Postgres arm an `is_broken` flag) | establish, execute, load, begin / commit / rollback, `transaction_manager_status_mut` | the database session, through diesel-async | a future may be dropped with a statement in flight; on SQLite a blocking job goes on without it | status and session agree; the status alone decides COMMIT or RELEASE, ROLLBACK or ROLLBACK TO |
| Async pool (`src/async_pool.rs`) | permits, waiters, idle connections (deadpool) | build, `get`, returning on drop | async connection (recycling: `is_broken`, then `SELECT 1`) | cancelled checkouts, timeouts, broken and lost connections, connections returned in mid-transaction | no slot leaks, nobody inherits a transaction, every call returns, callers are told the truth |
| Schema generator, segmentation (`segment`, `render_up`) | scanner: pending chunk, open block | one line at a time | the SQL parser, `Model::apply` | boundaries between chunks and blocks, unbalanced directives | each statement reaches exactly the backends it is meant for |
| Schema generator, model (`Model::apply`, `render_schema_rs`, `derive_down`) | tables in order of creation, columns, keys, references | one SQL statement at a time | both databases run the same statements | long histories of CREATE / ALTER / DROP, escape hatches | schema.rs describes both databases |
| Schema generator, a run (`main.rs`, `read_migrations`, `generate`, `write_outputs`) | directories on disk | read, generate, write | developers who edit the migrations | migrations change while read, writes fail half way, reruns | what is on disk after each outcome |
| URL detection (`detect_backend` in `src/pool.rs`, `establish` and `connect`) | none | detect, strip `sqlite://` | both pools | detection trims and lowers, opening does neither | what is opened is what the URL names, the same for both pools |
| Sync pool (`src/pool.rs`, `src/backend.rs`) | r2d2's: idle connections, counts of those open and under way, sleepers; each connection's arm and status | connect, connect_lazy, get, `is_valid`, `has_broken`, transactions | sync connection, threads | panics, refused commits, sessions cut between statements, outages, sleepers that are woken in vain | clean checkouts, honest counts, every sleeper is woken, callers are told the truth |
| Bind-collection bridge (`src/pg.rs`, `src/async_connection.rs`, `src/backend.rs`) | prepared statements of a connection; the type lookup of one bind pass | rendering a query for an arm, collecting binds, `from_any`, rows by arm, `dispatch` | diesel's query builder, the value types | what may be cached under which key; two kinds of lookup | an arm runs the text at hand; both arms answer alike |
| Value types (`src/types/`, `src/sql_types.rs`) | none | to and from SQL, per backend | both drivers | edges: years, sub-microseconds, NaN, scales, spellings | the round trip; the order and equality of what is stored |
| DualEnum, bridge and test macros (`diesel-dualdb-macros`) | none | derive; one test per backend | rustc, the environment | equal labels; a backend that is not there | labels and back; each test runs on its backend |
| Backend enum, escape dispatch, glue (`src/backend.rs`, `src/escape.rs`, `src/lib.rs`) | none | two-armed matches, re-exports | | | |

`PROJECT.json` lists every hazard at its line with the properties that watch
it, and those that no property covers yet with the reason.

## Modules

| Module | Role |
|---|---|
| `AsyncConnection` | one `AsyncDualConnection` and the session behind it: the client end, the wire, the server end |
| `AsyncPool` | EXTENDS it: the pool and the tasks that check connections out, work and may be dropped |
| `Outcomes` | the abstract promise: each unit of work takes effect once or never, and what the caller is told is true |
| `DualUrl` | from a URL to the database that each of the two pools opens |
| `SyncPool` | EXTENDS it: the r2d2 pool, the threads, the server that may be down |
| `Codecs` | the value types: what each writes and reads on either backend, and how the databases compare it |
| `Bridge` | EXTENDS it: one test body run on both backends, through the query bridge or `dispatch` |
| `Segmenter` | the scanner of tagged blocks |
| `SchemaModel` | the schema.rs model next to the catalogs of the databases |
| `SchemaGen` | runs of the generator over directories that change |
| `MC*` | instances for TLC: sets, vocabularies, symmetry |
| `AsyncPoolProofs` | lemmas on one connection and theorems on slots |
| `AsyncSessionProofs` | EXTENDS it: theorems on sessions, and on these: nothing commits late, and the async pool implements `Outcomes` |
| `SyncPoolProofs` | theorems on the sync pool, up to its refinement of `Outcomes` |
| `SchemaGenProofs` | theorems on the runs of the generator |
| `Flattening` | induction over the natural numbers, and `FlattenSeq` |
| `SegmenterProofs` | EXTENDS `Flattening`: theorems on the scanner |
| `SchemaModelProofs` | EXTENDS `Flattening`: theorems on schema.rs and the derived down.sql |
| `BridgeProofs` | EXTENDS `Flattening`: lemmas on the value types and on the order of rows, theorems on the bridge |

`AsyncPool` and `SyncPool` both implement `Outcomes` under the mapping
`durable <- db`, `told <- ToldCaller` (property `KeepsPromise` of each): two pools
built on different libraries owe their callers the same.

## The model of the async pool

**Two ends and a wire.** `client[c]` is what the program holds of a
connection: its life, the transaction manager's status (`depth`, `inError`), the
Postgres arm's `is_broken` flag (`flag`), and the statement on its way (`wire`,
`by`, `heard`, `answer`). `server[c]` is the session: depth, aborted or not, and
the uncommitted writes with the level at which they stand. `db` is what is
durable. A statement is two steps or three: the task sends it, the server
answers it, the task's future takes the answer. The split is where the
interleavings are: between send and answer the future may be dropped, the
session may die, another task may run.

**The two arms differ in who moves the status.** On Postgres the future moves
the status after it took the answer (`Settled` with `Deeper` / `Shallower`): a
future dropped between send and answer leaves the status behind. On SQLite the
blocking job of `SyncConnectionWrapper` runs the whole manager call, so the
server step moves it (`Answered`), whether anybody listens or not; while it
runs, a look at the status from elsewhere panics (`Shared`, `RecyclePanics`).

**Transactions** are those of `AsyncConnection::transaction`: begin, the
closure (statements and nested transactions, as many as `MaxStmts` allows, ended
by Ok or Err at will), commit or rollback. A COMMIT may fail in more than one way:
the server has rolled back (`ServerCommitFails`), or SQLite keeps the
transaction open, as for a deferred constraint (`ServerCommitRefused`). The
manager then sends a rollback (`CommitUndone`) or leaves its status as it is
(`CommitRefused`), and the caller of `transaction` has its error either way; in
the second case the status shows an open transaction, so no checkout takes the
connection. The closure propagates the error of a statement (`ExecuteUnwinds`), as
`?` does.

**The checkout** is deadpool's `timeout_get` with diesel-async's manager:
a FIFO semaphore, then the idle queue from its front
(`Recycle`, `RecycleBroken`, `PingAnswered`, `PingFails`), then creation.
The semaphore assigns a permit to the first waiter (`Grant`), whose future takes it
when it is polled next (`Acquire`). A waiter that times out or is dropped in
between gives the permit on (`GiveUp`).
Dropping the guard appends the connection to the idle queue unchecked and gives
the permit back (`GiveBack`); what is wrong with it is found at the next
checkout, or not.

**Cancellation.** A future may be dropped at every await in `CancelAt`; what
was sent stays sent. A checkout that is dropped gives its permit back and drops
a connection under test.

| Code | Model |
|---|---|
| `async_connection.rs` `establish` | `Establish`, `Created` |
| `begin_transaction`, `commit_transaction`, `rollback_transaction` | `BeginTransaction`, `CommitTransaction`, `RollbackTransaction` and the `…Returns`, `…Fails` of `AsyncPool` |
| `is_broken_transaction_manager` (trait default), `transaction_manager_status_mut` | `IsBrokenTransactionManager`, `Level`, `Shared` |
| `execute_returning_count`, `ExecuteFuture::poll` | `Execute`, `ExecuteReturns`, `ExecuteFails`, `ExecuteUnwinds` |
| `async_pool.rs` `get`, builder timeouts, `connect` | `Get`, `Grant`, `Acquire`, `WaitTimeout`, `CreateFails`, `Init` |
| `PoolableConnection` (defaults) | `Recycle`, `RecycleBroken`, `Responds`, `PingAnswered`, `PingFails` |
| diesel-async, deadpool, PostgreSQL, SQLite | external: modelled from how the code uses them |

**Abstractions.** A task makes one checkout and one unit of work, then rests:
any number of tasks stands for any number of requests. The connection guard is
dropped together with the future, as in a handler that is cancelled. Loading
rows is a statement like another. Statement text and rows are left out; a write
is the name of its task. A savepoint that was rolled back to still exists in
PostgreSQL under its name; it is merged into its parent, for no later statement
can tell the two apart. `debug_assert`s of diesel-async are those of a release
build, that is, absent. `Lose` models a Postgres session that ends under the
client (a restart, a network fault); a SQLite file does not go away.
The `cut` of a session is a history variable: a BEGIN on it was dropped in
flight. No guard reads it.

**Fairness** (`async_fair` only). Weak fairness of each task's `Checkout` and
`Work`: the executor polls a future that was woken, and closures end. Weak
fairness of each connection's server steps: databases answer or the
connection is lost. Nothing is assumed of timeouts, cancellation and losses:
they may happen or not. Strong fairness is not needed, since permits go to the
front of the queue and to nobody else.

## The model of the sync pool and of URLs

**`DualUrl`** is pure: a URL is its head, whether the head has capitals, and the
blanks around it. `DetectBackend` trims and lowers as `detect_backend` does;
`Stripped`, `PgOpens` and `SqliteOpens` look at the text as it was written, as
`strip_prefix`, libpq and SQLite do. `Opens` is what the sync pool's manager
opens, with the backend detected when the pool was built, `AsyncOpens` what
`AsyncDualConnection::establish` opens, `Named` what the documentation has the URL
mean.

**`SyncPool`** is r2d2 as this crate uses it. Connections are opened in the
background (`Establish`, retried while the server is down) and appended to the
idle ones; `num` and `pending` are r2d2's own counts, from which `Refill` decides
how many more to open. A thread takes the last idle connection and pings it
(`Take`, `TestOk`, `TestFails`), or asks for one more and sleeps (`Wait`). Who
pushes a connection wakes one sleeper (`Notify`), which looks again and may find
it gone. On return `has_broken` drops what shows an open transaction or an
error (`PutBackBroken`), on a panic too (`Panic`).

A blocking statement is one step: its thread does nothing else meanwhile and no
other thread has the connection. What may come between is the server: `Lose`
cuts one session, `ServerDown` all of them, and `AnswerLost` is a COMMIT, or a
statement of its own, that took effect while its answer was lost. A cut session is found at
the next statement (`Broken`) or ping. A refused COMMIT leaves a SQLite
transaction open (`CommitRefused`).

| Code | Model |
|---|---|
| `pool.rs` `detect_backend` | `DetectBackend` |
| `DualConnectionManager::connect`, `build`, `connect`, `connect_lazy` | `Opens`, `Establish`, `Connect`, `ConnectLazy`, `ConnectUnknown`, `BuildReady`, `BuildTimeout` |
| `is_valid`, `has_broken` | `IsValid`, `HasBroken` |
| transactions and statements of `DualConnection` | `Begin` … `RollbackTo` |
| r2d2, the arms' transaction managers, the databases | external |

**Left out of the instances.** A pool for `:memory:` gives each connection a
database of its own, which makes "durable" a matter of one connection; `MinIdle`
is at least 1, as it is by default (then it is `MaxSize`). Identities are as
many as `MaxSize`, since r2d2 drops a connection before it counts it out.

**Fairness.** Weak fairness of each thread's checkout and work (the operating
system runs threads, closures end), of each background connect (r2d2's worker
retries it), of building, and of `ServerUp`: a server that stays down serves
nobody. Nothing is assumed of timeouts, panics and faults.

## The model of the bridge and the value types

**`Codecs`** has the two `ToSql` and the two `FromSql` of every portable type
as operators on short sequences of integers, and next to them how the databases
compare and order what is stored (`StoredEqual`, `StoredBefore`). Values are small, but
what the types lose or respell is kept: half microseconds before and after 2000,
years of more than four digits and the sign `chrono` puts before them, decimal
scales, the order of JSON keys, NaN, an enum's labels renamed or equal, a cell
that another program wrote. Years are two microseconds long, so that every
edge is within reach.

*Floats.* `array.rs` and `json.rs` parse with serde_json, and `Cargo.toml` does not
ask for its feature `float_roundtrip`: some floats come back as a neighbour.
Which ones is a constant, `Misread[arm]`, a map from a float to what is read in
its stead, at most `LastBits` away (`FloatAssumption`); `ParsedFloat` looks it
up. It concerns arrays on SQLite (PostgreSQL has a native array) and JSON on
both. The map differs by arm since jsonb writes a float in digits of its own.

*JSON* has a form besides its content: a float, a large float such as 1e16
(`LargeFloat`; jsonb writes its digits out and serde_json then reads an
integer), a text with a U+0000 in it (`WithNul`; jsonb cannot hold it, so
PostgreSQL refuses the statement: `Refuses`), or none of these.

*Decimals.* `to_string` writes up to fifteen trailing zeros out, so a negative scale
does not survive the text (`DecimalText`), and numeric has none either.

**`Bridge`** is one test body that inserts, selects and filters a column, on
each backend that the test macro generates and starts (`Compile`, `Start`:
which backends are named, whether `DUALDB_PG_URL` is set and its server up,
whether the body is async). Both tests run in step, so that `answer["pg"]` and
`answer["sqlite"]` can be compared. `PushArmSql`, `CacheKey` and `RunText` are the
rendering for the arm and the driver's cache; `Lookup` and `FromAny` the type lookup
of the bind pass, an object of its own on the async Postgres path; `RawValue`
and `Decoded` the way back. `DispatchInsert` is the escape hatch: the arm's own
connection and `ToSql`.

A bind pass is one step, so the raw pointer that the lookup is held by has no
lifetime in the model.

## The models of the schema generator

**`Segmenter`** reads a text line by line as `segment` does: `OpenBlock`,
`CloseBlock`, `TakeLine`, `Reject`, `AtEnd` are the branches of its loop and
its end. `RenderUp`, `SharedStatements` and `RenderDown` are what `render_up`
and `generate` do with segments. The reference, `Meant` and `WellFormed`, does
not scan: it looks at the nearest directive before each line. A statement is a
line of its own; the SQL parser is external. Flat-maps over lines (`Rendered`,
`Meant`) are written with `FlattenSeq`, which the proofs can reason about.

**`SchemaModel`** takes a statement per step, as `generate` hands them to
`Model::apply`, and runs it on the catalogs of the team's databases as well, each
with its native types (`CatalogTable`, `Executed`, external). A step is a
statement that each database of the team accepts, since a migration that a
database refuses is not one that anybody keeps. `Teams` are the sets of
databases: a statement that SQLite cannot run (adding a foreign key) is met in
the histories of a team on PostgreSQL alone. `NextMigration` ends a migration,
so that `derive_down` is about the statements since. `Where` is `SelectSeq` written
as a flat-map, which the proofs can reason about (`retain` and the filters of
`Model::apply` and `derive_down`). `TablesStay`, `KeysStay`, `KeysNotNull`,
`ReferencesStay` and `NoReferenceAdded` say of a vocabulary which statements it does without; the one
of `schema_model` meets all of them (`KeepsUp` in `MCSchemaModel`). That of
`schema_drop_table` and three more in `MCSchemaModel` (`WithNullableKey`,
`WithDropReference`, `WithAddReference`) each break one.

**`SchemaGen`** is a run of the tool over the file system: list, read one by
one, generate, write one by one, each write able to fail whole (`WriteFails`) or
torn (`WriteCut`; `fs::write` truncates first) or to be the last before the
process dies. What is left to read and to write are sets: the next migration is
the smallest, the next file the one that `Precedes` all others, which is the
order of `write_outputs`. Developers edit and remove migrations at any time. The `up.sql`
and `down.sql` of one migration are read in one step.

## Runs

| Run | Question | Bounds | Result |
|---|---|---|---|
| `async_sqlite` | SQLite arm: no checkout inherits a transaction, status and session agree, slots are conserved, no late commit, the promise is kept | 3 tasks, pool of 1, 2 connection identities, nesting 2, 2 statements, dropped anywhere | passes, 116,598 states |
| `async_pg_kept` | Postgres arm: types, agreement, no late commit, the promise, when no BEGIN is dropped in flight | same, dropped anywhere else | passes, 1,233,874 states |
| `async_fair` | Postgres arm: the only transaction a checkout can inherit is one whose BEGIN was dropped, slots are conserved, every waiting call returns | 2 tasks, pool of 1, dropped anywhere, no timeouts | passes, 29,961 states |
| `async_broken` | a broken transaction manager is dropped at checkout | as `async_fair` | violated |
| `sync_pool` | clean checkouts, honest counts, the database the URL names, the promise, and a connection for whoever waits | 2 threads, pool of 2, at least 1 idle, 5 kinds of URL, nesting 2, 2 statements, 1 fault | passes, 159,296 states |
| `bridge` | values read back, the two backends agree, a connection runs its own text | 7 column types, up to 5 values of each, 5 enum declarations, one float that is misread, 3 statements | passes, 210,894 states |
| `timestamp_order` | text order is time order | years 9999 and 10000 | violated |
| `segments` | acceptance, routing, what the model sees | all texts up to 6 lines over 7 kinds of line | passes, 529,321 states |
| `segments_down` | blocks of a down.sql stay with their backend | up to 3 lines | violated |
| `schema_model` | schema.rs fits the databases | 5 statements from a fixed vocabulary; three teams | passes, 109,709 states |
| `schema_drop_table` | schema.rs follows DROP TABLE | 4 statements | violated |
| `schema_gen` | what is on disk after each outcome | 2 migrations, 3 edits, 3 runs | passes, 2.5 million states |

**Why the bounds are enough.**
Three tasks over one slot give an owner who is dropped, a second that inherits
the connection, and a third that waits; one connection identity beyond
`MaxSize` lets a discarded connection that still works off its wire coexist
with its replacement. Nesting 2 separates COMMIT from RELEASE and ROLLBACK from
ROLLBACK TO, and gives `Merged` something to merge; two statements place a write
on either side of a nested level. Two owners at a
time are beyond these runs: that slots are conserved and checkouts clean with any
number of them is proved. Two threads over a pool of two share the sync pool's
connections in every way (each its own, one after the other, both asleep for a
connection that died); one fault falls anywhere, a server that goes down taking
both sessions; nesting 2 separates RELEASE and ROLLBACK TO. Three statements
write, filter and read, or run one query twice with another between, which is
what a cache needs to go wrong; the values of each type are neighbours in order,
spellings of one value and the edges of what both databases hold. Seven kinds of line and six lines hold two
blocks with a line before, in and between, and every misplacement of a
directive. Five statements hold a table, a second one that references it, an
alteration of each and the reuse of a dropped name. Two migrations and three
runs have a failed run between two good ones and a removed migration that a
later run passes over. Every bound is a constant (`MaxDepth`, `MaxStmts`,
`MaxSize`, `MinIdle`, `MaxFaults`, `Conn`, `Values`, `Decls`, `Misread`, `LastBits`, `Urls`, `MaxLines`,
`MaxStatements`, `MaxDir`, `MaxEdits`, `MaxRuns`).

Tasks and connections are symmetric; the symmetric runs check safety
only. Deadlock is checked for the pools, the bridge and the scanner (a rest state
is a step of its own: every task done, the body through, the scan over). The schema models stop when
statements, edits or runs are used up, hence `CHECK_DEADLOCK FALSE` there.

**What the properties say.**

- `CleanUnlessCut`: whoever gets a connection starts outside any transaction,
  with no foreign write pending, whatever became of the earlier users' futures;
  the exception is a BEGIN dropped in flight, on Postgres.
- `Agreement`: between two statements, the manager's status, the task's own
  account of its writes (`kept`) and the session agree. The status picks the
  next COMMIT, RELEASE, ROLLBACK or ROLLBACK TO, so one level of difference
  would end the wrong level.
- `NoLateCommit`: after a caller has its result or was dropped, its work
  becomes durable only through its own statement already on the wire.
- `KeepsPromise`: the refinement of `Outcomes`. Work reported done is durable;
  work reported failed never becomes so; unknown is reported where it is unknown.
- `SlotsConserved`, `EveryCallReturns`: below under proofs, and above under
  fairness.
- `StartsClean`: a thread that gets a connection finds it outside any
  transaction and its manager in no error. `SELECT 1` succeeds inside a
  transaction, so this rests on `has_broken` alone: after a panic, after a COMMIT
  that SQLite refused, after a session that was cut.
- `CountsMatch`: `num` and `pending` are what r2d2 decides by; a connection dropped
  by a ping, by `has_broken` or with a timed-out build is uncounted once.
- `OpensWhatItNames`: through outages and retries no connection is on another
  database than the URL names, nor on another than the async pool would be;
  the text of a URL with capitals or blanks may name another file (below).
- `GetsServed`: a sleeper is woken again, a looking thread gets a connection or is
  refused, and a build comes to an end, if the URL can be opened at all.
- `ReadsWhatWasWritten`: a row reads back as the value it was written as, on either
  backend and by either route of writing, or is refused, and what both
  databases hold is never refused. `Same` says up to what: a decimal as a number, a
  timestamp up to one microsecond, JSON up to the order of keys, a float that
  serde_json misses up to its last bits, and on jsonb a large float may have become the
  integer of its digits. Every other value is read exactly, a float that is not
  misread included.
- `ConnectionsAgree`: as long as a body keeps to values both databases hold, the two
  tests see the same rows in the same order. `Portable` and `Canonical` name the
  exceptions: they are the fine print of "write once".
- `RunsItsOwnText`: the text run is the one the query at hand has, and nothing is
  kept that the query forbade to keep.
- `AcceptsWellFormed`, `EachBackendGetsItsLines`, `ModelSeesSharedOnly`: the
  scanner against the positional reference.
- `SchemaFits`, `TablesFollow`, `JoinsNameColumns`, `ForeignKeysJoin`,
  `DownUndoesCreates`: schema.rs and the derived down.sql against the catalogs.
- `SchemaNeverAhead`, `SuccessIsWhole`, `AllOrNothing`: the output
  directories through failures.

Each property of a passing run has a mutant in `PROJECT.json`: a small change
of a modelled definition that makes TLC find it violated.

## Findings

Each has a run that TLC finds violated, and quotes the sentence it contradicts.

1. `async_broken` (`src/async_connection.rs:441`). The `TransactionManager` of
   `AsyncDualConnection` leaves `is_broken_transaction_manager` at the trait's default, which looks at
   the status and not at the arm's `is_broken` flag. A Postgres future dropped
   while BEGIN is in flight leaves status depth 0, a raised flag and a session
   inside a transaction. The default finds nothing wrong, `SELECT 1` succeeds,
   and the next task works inside a transaction it did not open. An override
   that asks the arm's own manager would drop the connection. This is why
   `async_pg_kept` excludes that one await and `CleanUnlessCut` that one case.
2. `segments_down` (`diesel-dualdb-cli/src/lib.rs:576`). An explicit
   `down.sql` is not segmented: both backends get both blocks.
3. `schema_drop_table` (`diesel-dualdb-cli/src/lib.rs:265`). DROP TABLE passes the
   model by; the table stays in schema.rs, and is there twice if created again.
4. `timestamp_order` (`src/types/timestamp.rs:23`). A year that is not of four
   digits gets a sign: `+10000-…` sorts before `9999-…`, against the comment
   that fixed width makes text order chronological, and is not read back.

**Divergences without a run.** More were met while reading. The first can be
seen with `Bridge.cfg` when `Values <- Floats` and the invariant is
`RoundTripsIdentically` of `MCBridge`:

- serde_json without its feature `float_roundtrip` (`Cargo.toml:52`) reads
  31.245270191439438 as 31.24527019143944. So an array of `f64` on SQLite
  (`src/types/array.rs:109`), and a float in a JSON value on both arms
  (`src/types/json.rs:55`, `:79`), may come back `Ok` with another value, against
  "the value round-trips identically through a `DualConnection`" (`README.md:52`).

Those of the schema generator; the statements that lead to them are left out of
the vocabulary of `schema_model`. The first three can be seen with
`SchemaModel.cfg` when `Statements` is the vocabulary named:

- The columns of a table-level PRIMARY KEY stay `Nullable` (`lib.rs:194`), where
  PostgreSQL has them NOT NULL (`WithNullableKey` refutes `SchemaFits`).
- Dropping a column leaves its foreign-key entry (`lib.rs:246`): a `joinable!` names
  a column its `table!` lacks (`WithDropReference` refutes `JoinsNameColumns`).
- A REFERENCES clause on an added column makes no `joinable!` (`lib.rs:229`;
  `WithAddReference` refutes `ForeignKeysJoin`).
- A column declared `PRIMARY KEY` is never `Nullable` (`lib.rs:175`), where SQLite lets
  it hold NULL unless it says NOT NULL as well. `KeysNotNull` asks for that of every
  key column.
- `NUMERIC` and `DECIMAL` are mapped (`lib.rs:81`), though `docs/reference/schema-gen.md:55`
  says not yet; the model has them as the code does.
- `CREATE TABLE IF NOT EXISTS` counts as a table the migration created, so a derived
  down.sql may drop one that was there before (`lib.rs:422`).
- Two references to one parent, a composite foreign key or a reference to the
  table itself give `joinable!`s that diesel does not compile (`lib.rs:278`).
- Renaming a table or a column and changing a column's type or nullability pass
  the model by, as DROP TABLE does (`lib.rs:263`).

Of the rest:

- `:MEMORY:` and ` :memory:` are detected as SQLite and opened as files of that
  name; so is `SQLITE://x`; a Postgres URL with capitals or blanks is detected and then
  refused (`src/pool.rs:78`). `OpensWhatItNames` has them as its exception.
- The documentation of `connect_lazy` (`src/pool.rs:157`) has no connection opened
  before the first `get`; r2d2's unchecked build sets off the idle ones at once.
- With `min_idle(Some(0))` a connection dropped as broken is not replaced: a
  thread asleep while the pool was full is not woken.
- A pool for `:memory:` gives each connection a database of its own.
- An instant before 2000 that is not of whole microseconds is cut downwards on
  SQLite and towards 2000 on PostgreSQL, so the two differ by one microsecond
  (`src/types/timestamp.rs:8` says it is truncated). `Portable` excludes it from
  `ConnectionsAgree`.
- SQLite compares decimals and JSON as text: `1.0` and `1`, or two orders of the
  same keys, are equal on PostgreSQL alone (`Canonical`). An enum column sorts in
  the order of declaration on PostgreSQL, of the labels on SQLite.
- A NaN in an array is written to SQLite as null and not read back
  (`src/types/array.rs:98`).
- A JSON text with U+0000 is stored by SQLite and refused by PostgreSQL, whose jsonb
  cannot hold it (`src/types/json.rs:43`); `Portable` leaves it out. A large JSON float
  (1e16) comes back from jsonb as an integer, which serde_json counts as another
  number: `Same` allows it on PostgreSQL only.
- Two variants with one label read back as the first; the derive accepts them
  (`diesel-dualdb-macros/src/lib.rs:313`).
- A generated Postgres test that is skipped passes, so with `#[should_panic]` it
  fails; an async one runs on whatever backend `DUALDB_PG_URL` names.
- A caller that drops the future of `transaction` and keeps the connection works on
  one level too deep: its later COMMIT is a RELEASE, and what was reported done is
  rolled back when the pool drops the connection (`src/async_connection.rs:459`).

These follow from reading the code.

## Proofs

Each theorem rests on the named assumptions of its component and on nothing
else; TLC evaluates them in every run. None is a bound: tasks, threads,
connections, values, migrations, lines and statements are as many as one likes.

**The async pool.** Assumptions: `ArmAssumption`, `DepthAssumption`,
`NobodyAssumption`, `PoolAssumption` (a finite set of tasks, `MaxSize` at least 1,
the special values are no tasks or connections).

**`SlotsAlwaysConserved`** (`Spec => []SlotsConserved`): no permit is lost or
doubled, at most `MaxSize` connections are live, and each of them is idle once
or in the hands of one task. The property alone is not inductive: that a checkout
may create a connection follows from a free place, which is in no way visible in
the number of live connections. The argument has three layers:

1. *Shape* (`PoolShape`): types without bounds on depth, what is on a wire has
   a sender, an answer ends its statement, and a task has a connection exactly
   at the places where it should.
2. *Ownership*: no connection is in two hands, in the idle queue twice, or in
   both; the live connections are those that have an owner.
3. *Counting*: free permits and admitted tasks are `MaxSize`; the idle
   connections and the tasks past `granted` and `acquired` are at most `MaxSize` (a
   task turns to creating only when nothing is idle; a permit that `GiveUp` returns
   was one of a task that had no connection yet).

`StepEffect` shows that each action of the model is one of nine *effects* on
what the pool accounts for (quiet, takes a permit, drops an idle connection,
gives back ...); layers 2 and 3 are inductive over effects, so that an action
added later needs one new lemma only. `PoolInvHolds` is the conjunction as a
theorem; `LiveFit` and `OnePlace` derive the property by counting.

**`TypesHold`, `AlwaysAgree`, `AlwaysCleanUnlessCut`** (`TypeOK`, `Agreement`,
`CleanUnlessCut`). None is inductive: whether a depth stays in bounds depends on
the statement on the wire, that on the place of the task that sent it, and a
checkout that is clean on what a dropped future may have left. `SessionInv` says
what a connection is like, in five parts:

1. `EndsInOrder`: on every connection the statement on the wire fits the depths of
   both ends (`WireFits`), pending writes stand at open levels, and on SQLite
   status and session are at the same depth.
2. `HandsInOrder`: for a connection in a task's hands, one clause for each place of
   the task (`Beginning`, `Executing`, `Committing`, `RollingBack`, `Undoing`; idle
   in `holding`, `body`, `leaving`), before and after the answer, in terms of the
   level and of the writes the task knows of (`AtLevel`).
3. `RestInOrder`: a connection nobody works with either shows an open transaction in
   its status, or has none, or one whose BEGIN was cut off (`Resting`). This is
   what makes `is_broken` enough.
4. `TestsInOrder`: a connection under test shows none until the test is over.
5. `KeptInOrder`: a task that has no connection yet has no writes.

A server's step is first turned into a relation between the ends before and after
(`ServerStepEnds`); `CarriedEnds`, `StaysResting`, `StaysInUse` and `StaysUnderTest`
are about these relations alone. A task's step sends (`Sends…`), takes an answer
(`Takes…`), drops its future (`DropsToRest`) or discards (`GoneToRest`).
`OnlyInOrder` is the frame: a step concerns one task and one connection, and by
`Ownership` nobody else has that connection. So the invariant of the slots is
used in that of the sessions, and `SessionInvHolds` states both.

**`NeverLate`, `AsyncKeepsPromise`** (`NoLateCommit`, `KeepsPromise` of
`AsyncPool`), for SQLite or where no BEGIN can be cut off (`BeginsWhole`). The
hypothesis is what finding 1 takes away, and it is needed: the user after a
cut-off BEGIN works inside a transaction that is not his, is told that his
statement succeeded, and the statement becomes durable when a later user
commits, or never. `OutcomeInv` stands on `SessionInv` and adds four parts:

1. `NothingCut`: no session holds a transaction whose BEGIN was dropped.
2. `WiresOwn`: who sent the statement on a wire is the task that has the
   connection, or has left it.
3. `Awaited`: a task that waits has its statement on the wire or its answer ready.
4. `Balances`: what a task was told, what is pending and what is durable of it
   never contradict each other.

A server's step is one of four relations (writes recorded, not recorded, cut,
closed). That the durable set grows only by a COMMIT, RELEASE or statement whose
sender still waits for the answer (`GrownByWire`, `SenderWaits`) gives
`NoLateCommit` and the step of `Outcomes` that takes effect; a task's step touches
one connection and either takes the answer it was waiting for, which is the
step that tells, or leaves what was told alone.

**The sync pool** (`SyncTypesHold`, `AlwaysStartsClean`, `CountsAlwaysMatch`,
`AlwaysOpensWhatItNames`, `SyncKeepsPromise`), from `SyncPoolAssumption` alone: any
finite set of threads, any connections, URLs, `max_size`, `min_idle`, nesting and
faults. `SyncInv` has six parts: `Types`; `Ownership` (each open connection is
idle once or in one thread's hands); `Counting` (`num` is the number of open
connections, with `pending` at most `max_size`; that the open connections are
finite is part of it); `Ends` (the two ends of a connection fit, and those of an
idle one are at rest: this is `StartsClean`, and rests on `has_broken`);
`Accounts` (what a thread did, pending or durable, against what it was told);
`Origins` (where an open connection leads). As for the async pool, steps are
first turned into effects (`Stays`, `Arrives`, `Takes`, `Discards`, `Returns`,
`Closes`) over which ownership and counting are inductive. `OpensWhatItNames`
comes down to lemmas on `DetectBackend` by cases over the heads of a URL. Each
step is one of `Outcomes` or a stutter.

**The generator's runs** (`GenTypesHold`, `SchemaIsNeverAhead`,
`SuccessAlwaysWhole`, `MalformedChangesNothing`), for any number of migrations,
edits and runs. What makes them inductive: the revisions read are of edits made
so far, so that no later edit makes one malformed that was checked (`Edited`,
`Checked`); of a run's files, those not left to write are whole and its own
(`Done`), so that when schema.rs is the only one left, all others are
(`PutsSchema`); and a file that is in the way of no migration read or to be read
belongs to one that was removed (`Leftovers`).

**The scanner** (`ScanTypesHold`, `AlwaysAcceptsWellFormed`,
`EachBackendAlwaysGetsItsLines`, `ModelAlwaysSeesSharedOnly`), for texts of any length
over any statements. `ScanInv` says at each position that the open block is the
directive that governs the next line (`Opened`), that the directives so far are
well placed, and that the segments with the two buffers come to what the lines
so far mean (`RenderedSoFar`, `SharedSoFar`). These are equations between
flattened sequences. `Flattening` proves what `FlattenSeq` does at an appended
element, by induction: the library's theorem that the order of the natural
numbers is well founded gives each set of them a smallest element (`Smallest`), so
a set with 0 and with all successors of its elements has them all
(`AllNumbers`), and no induction theorem with a predicate for parameter is needed.

**The bridge** (`BridgeTypesHold`, `AlwaysRunsItsOwnText`,
`AlwaysReadsWhatWasWritten`, `ConnectionsAlwaysAgree`). `BridgeAssumption` says that
`Values` are values (`IsValue`: the parts each type has, bytes are bytes, the codes
of null and of junk are no numbers) and `Decls` are declarations of enums whose
variants the enum values name; `FloatAssumption` that what serde_json misses it
misses by at most `LastBits`. Nothing bounds them: any instant, any scale, any length
of bytes or arrays, any number of variants. The invariant, `BridgeInv`, has four
parts:

1. `SettingInOrder`: what the macro expansion fixed.
2. `TablesInOrder`: the table of a test that runs holds, for each value
   written, the one cell its arm writes for it, and otherwise only what another
   program put there.
3. `CachesInOrder`: what is kept under a key is the text of every query with that key
   that may be kept (`OwnText`, `KeptInOrder`); a query with a list of binds has its width
   in the key and is not kept.
4. `Untold`: before the body has begun nothing was answered.

The four properties are about the last answer, so each is inductive over
`StepTells`: a step of the body leaves in `answer` a load (`Loaded`) of rows of the
table, or nothing. On that stand three groups of lemmas without any state.
*Codecs*: what is written reads back up to `Same`, or is refused (`PgReadsBack`,
`SqliteReadsBack`); a cell that is no value's is refused (`JunkRefused`).
*Comparison*: the order of cells is strict and total (`StoredTotal`,
`StoredTransitive`), and for portable values the two databases order
(`OrderAlike`) and filter (`FilterAlike`, canonical values) alike. *Order*: a
finite set under a strict total order has exactly one element of each
rank (`Ranks`, by induction), so that `InOrder` is an enumeration, and two sets
of rows with the same keys in the same order enumerate alike (`RowsOrderedAlike`).

**The schema.rs model** (`SchemaTypesHold`, `DownAlwaysUndoesCreates`,
`TablesAlwaysFollow`, `SchemaAlwaysFits`, `JoinsAlwaysNameColumns`,
`ForeignKeysAlwaysJoin`), for any vocabulary of well-formed statements
(`SchemaAssumption`), any teams and histories of any length.

The first two need nothing more. That a derived down.sql runs on every database is
inductive only with `Whole`: every foreign key has a parent in its catalog. Then a
table just created is referenced by no other, so its DROP, which comes first in
the down, succeeds and gives back the catalog that the rest of the down was
shown for (`SchemaInv`, `DownUndoesOneMore`). `DropIfExists` fails on a referenced
table, so the order of `derive_down` matters to the proof.

The other four are about vocabularies that leave out what `Model::apply` does not
follow. Each hypothesis stands for a finding or a divergence above, and each property
is false without it (TLC refutes it over a vocabulary of a few statements with one of that
kind):

| Theorem | Hypotheses | What they leave out |
|---|---|---|
| `TablesAlwaysFollow` | `TablesStay` | DROP TABLE of a table the shared statements create (finding 3) |
| `SchemaAlwaysFits` | and `KeysStay`, `KeysNotNull` | ADD COLUMN ... PRIMARY KEY, dropping a column of a key: the model keeps the key of CREATE TABLE. Key columns that do not say NOT NULL: a table-level key leaves them `Nullable`, and SQLite lets a PRIMARY KEY hold NULL |
| `JoinsAlwaysNameColumns` | and `ReferencesStay` | dropping a column that refers to a table: its entry stays |
| `ForeignKeysAlwaysJoin` | and `NoReferenceAdded` | ADD COLUMN ... REFERENCES: no entry is made |

("And" is together with `TablesStay`; the last three do not need one another.)
The invariant is `Follows` for each database: the names of the model are distinct, come
from CREATE TABLEs and are those of the catalog but for the tables of tagged
blocks; a table and its counterpart are a `Pair` (columns of one name in one
order, and under the hypotheses `Fits`, `Linked` and `Joined`); and an entry's parent
exists. `Pair` is kept by each ALTER TABLE (`PairAdded`, `PairDropped`, `PairKeyed`) and
made by CREATE TABLE (`PairCreated`); `FollowsChange` is the frame. A table that only
tagged blocks make may be dropped and made again, so `hatch` may name tables that no
catalog has any more.

Out of the prover's reach, and checked by TLC alone: `EveryCallReturns` and
`GetsServed` (liveness). Every other property of a passing run is proved.

## What is not modelled

- The SQL parser (sqlparser), the drivers, diesel's query builder, r2d2 and
  deadpool: external, modelled where the code uses them.
- The text of values, queries and schema.rs; the parsing of attributes by the
  macros and what derive macros write, except for labels.
- The lifetime of the lookup's raw pointer within one bind pass.
- Setters that pass through to the arm (instrumentation, cache size).
- The SQLite file's locks between connections: a failure to get one is an
  `ExecuteFails` like another.
- `:memory:` pools, `min_idle(Some(0))` (above).
- r2d2's reaper, which closes connections that are older than `max_lifetime` or idle
  for longer than `idle_timeout` (both have defaults this crate does not change). What
  it closes is idle, and it refills the pool as a failed ping does.
- The order of the binds within a pass.
- A caller that keeps its connection after dropping a transaction's future.

## Plan

Done: every component of the inventory has its model; the proofs above.

Next, most important first:

1. A caller that drops the future of `transaction` and keeps the connection: a
   place of its own in `AsyncPool`, with the session invariant extended to it.
2. The other divergences of the schema generator (`IF NOT EXISTS`, several
   references to one parent, renaming) as vocabularies of `SchemaModel`.
