# tatara-memory: TLA+ models, checks and proofs

tatara-memory is a Go service that keeps an agent platform's memory. Texts go
into LightRAG (an external retrieval engine) through it, either one at a time or
as bulk jobs; source code goes into a graph in Postgres. Postgres also holds the
job queue, the tombstones of deleted memories and an index from source files to
memories. This directory models the parts of the service that keep state and run
concurrently, checks them with TLC and proves with TLAPS most of the safety
properties that TLC checks.

## 1. The system

| Component | State | Operations | Talks to |
|---|---|---|---|
| Ingest (`internal/ingest`) | `ingest_jobs`, `ingest_job_items`; in memory: the notify channel and what each worker holds | Enqueue, Notify, worker loop (`runJob`, `processItem`), periodic and startup `Resume`, `Stop` | LightRAG, source index, HTTP handler |
| Memory deletion (`internal/memory`) | `deleted_memories` (tombstones), `memory_sources` (index) | `DeleteMemory`, `DeleteMemoriesBySources`, `GetMemory`, the `Reaper` | LightRAG, ingest workers |
| Memory queries (`internal/memory`) | none | query, entity and edge calls translated to LightRAG, answers stripped of deleted memories | LightRAG, tombstones |
| LightRAG client (`internal/lightrag`) | none between calls | attempts with backoff and `Retry-After`, the polling of `DeleteDocs` while LightRAG's pipeline is busy | LightRAG |
| Code graph (`internal/codegraph`) | entities, edges, symbols, hyperedges and their members, cached hashes, `repo_analytics_state`, communities | `Push`/`Reconcile` (one transaction per push), some twenty read queries, `AnalyticsWorker` | Postgres, `internal/analytics`, a language model for labels |
| Process (`cmd/tatara-memory`, `internal/pgmigrate`) | tracker tables, the readiness gate, the stage of boot or shutdown | wiring, `awaitDatabase`, `Runner.Run`, `serve`, `shutdown` | every component |
| Admission (`internal/httpapi`) | slot channels of two bulk classes | `Middleware`, `queue`, `shed` | every bulk request; protects the connection pool |
| HTTP and auth (`internal/httpapi`, `internal/auth`) | one request | tokens, parameter checks, limits, the error map, recovery | all services |
| Observability, evaluation, test support | none that a property is about | metrics, logs, offline scoring, fakes | |

Components interact by direct calls inside one process, through Postgres between
goroutines and between processes (a rolling update runs two), and with LightRAG
over HTTP. What is hard:

- **Ingest.** Several workers may run one job, since a notify, its repetition by
  `Resume` and a restart all deliver it. A job row is read, changed in memory and
  written back whole; `Resume` resets items under live workers; notifies are
  dropped when the channel is full; a crash can fall between any two store calls.
  It is correct if outcomes are final, verdicts are those the items justify,
  counters match the items, and every job ends.
- **Deletion.** LightRAG deletes in the background under a lock; a tombstone
  hides the memory meanwhile, is rolled back on failure, and is removed by a
  reaper that sees only a batch at a time. It is correct if a deleted memory does
  not reappear, a failed delete does not hide a memory for good, no tombstone
  stays for ever, and the index never loses a memory that is still there.
- **Analytics.** A recompute reads a graph in several statements and writes much
  later, against pushes that commit in any order. It is correct if a repository
  that is not marked dirty shows analytics of its current graph, dirty ones are
  taken up in the end, and claims and slots are never lost.
- **Code graph.** Files are replaced one by one by two extractors that share the
  tables; rows are upserted by keys that do not name their owner; reads walk cyclic
  graphs with ends that are not stored. It is correct if what is stored for a file
  is what its last push had, nobody else's rows are touched, and queries give what
  they are defined to give.
- **Requests and LightRAG.** A call is repeated after a lost answer whatever it does,
  waits by several rules against several deadlines, and its error passes three
  translations before it becomes a status that clients act on. It is correct if
  success means done, failure means not done, saturation is told as saturation, every
  handler comes to an answer, and the long push gets its answer through.
- **Process.** Migrations run on databases left by an older runner, cut off
  anywhere, while the process already serves; shutdown waits for some of its
  goroutines, within a budget for some of these. It is correct if a ready process has
  the final schema, no migration is executed twice, the database is not closed
  under work that was to be awaited, and both startup and shutdown end.
- **Admission.** Budgets, workers and recomputes share one connection pool. It is
  correct if slots balance and reads always find a connection.

`PROJECT.json` lists every component, every hazard with its line and the
properties aimed at it, and the lines each definition stands for.

## 2. Modules

| Module | Models | Main abstractions |
|---|---|---|
| `IngestPool` | the job store, channel, workers, sweeper, `Stop`, restarts | one action per store call or channel operation; texts are not modelled; the order of items and jobs in a query is an arbitrary choice |
| `JobLifecycle` | what the API promises of a job: submitted, announced, each item settles once, closed once with the verdict of its items | no workers, store or process |
| `MemoryStore` | deletes, purges, tombstones, reaper, source index | one document per track; time in ticks of the reaper; LightRAG is external |
| `CodeGraphAnalytics` | pushes, the dirty flag, the analytics workers of one or more processes | a graph is known by the push that wrote it; `now()` is the order in which transactions begin |
| `CodeGraphStore` | `Push` and `Reconcile` statement by statement, for concurrent pushes | all tables are one set of rows; a row keeps key, file, extractor and confidence, the score as its column rounds it; upserts and commit are one step |
| `CodeGraphReads` | the read queries on the committed rows, with their clamping | an answer is the set of its rows, and a query with a `LIMIT` has every answer the limit may leave, as ids are not ordered; recursion of SQL is a recursive function of the depth |
| `LightragClient` | one call: attempts, backoff, timeouts, polling; LightRAG is external | time in units of the first backoff; bodies are their status field |
| `HttpInput` | each route's parameters, checks and limits | a parameter's values stand for the classes its parser tells apart |
| `Requests` | a request through auth, `HttpInput`, its plan of calls and the error map; composes `LightragClient` and `HttpInput` | database calls answer or fail; an error is the set of things `errors.Is`/`As` find in it |
| `PgMigrate` | the steps of `Runner.Run` on the code graph's six migrations, the startup attempt, readiness | the schema is the set of features that migrations add, drop or probe |
| `App` | boot, startup goroutine, serving, shutdown, kills and relaunch; composes `PgMigrate` | requests and items are known by whether they are under way |
| `Admission` | limiters, configuration check, connection pool | a request or task holds at most one connection at a time |

Proofs are in modules of their own, each of which extends the module it is about:
`IngestPoolProofs` and `IngestItemsProofs` (the second extends the first),
`MemoryStoreProofs`, `CodeGraphAnalyticsProofs`, `CodeGraphStoreProofs`,
`RequestsProofs` (with `LightragClient` and `HttpInput`), `AppProofs` (with
`PgMigrate`), `AdmissionProofs`.

`MC*` modules add the symmetry sets. Operators named `X_Something` with a comment
"Seeded fault" are plausible mistakes in `X`; each property is known to fail when
one of them takes the place of `X`, so none holds by the shape of its model alone.

### How state and actions correspond to the code

**IngestPool.** `job`, `item`, `track` and `indexed` are database columns; a
restart keeps them. `pc`, `cur`, `snap`, `claim`, `held` and `runErr` are the local
variables of a worker's `runJob`/`processItem`; `snap` is the job row between
`GetJob` and `UpdateJob`. `notify` is the channel, `toNotify` the handlers between
commit and `Notify`, `rpc`/`rlist` a goroutine in `Resume`. Each store call is one
atomic step, as each is one statement or one transaction; what the goroutine does
between two calls is folded into the step before or after. A call may fail while
`MaxFaults` lasts; a failed commit of `CreateJob` or `ClaimNextItem` may have been
applied. `Filed` are the items that name a repository and a file: only these enter the
source index, and only with a TrackID (`pool.go:397-400`). `docs` and `finalized` are
history variables for what LightRAG and the job counter metric saw, counted up to 2;
`raced` records the two moments at which two workers can spoil a job's counts: one reads
the queued row while another is already past its own read ("start"), or two are between
the read and the write of the finalization together ("finish").

**MemoryStore.** `doc` is LightRAG's state of a track ("new", "present", "deleting",
"absent"); `tomb` a row of `deleted_memories` with its age in ticks, its attempts
and the ticks until its next forced check; `index` the rows of `memory_sources`.
A caller is either a `DELETE` (no file) or a purge (files left, the file at hand,
the tracks read, the track at hand). `expired` is its context; an expiry stands for
every failing call too, because any failing call ends the request.
`acked` is a history variable: tracks whose deletion some caller was told has started.

**CodeGraphAnalytics.** `open` are push transactions, `state` the row of
`repo_analytics_state`, `settled` the debounce condition of `DirtyRepos`; `loop`,
`queue`, `claiming`, `inflight`, `sem` and `run` are the worker of each process.

**CodeGraphStore.** `db` are the committed rows. `tx` is a push between `Begin` and
`Commit`: its place in the list of `DELETE`s (five for each file) and the rows deleted
so far; a `DELETE` sees what is committed when it runs. An upsert of a row that
another open push has deleted waits (`Blocked`). Scores are counted in units of 10^-8;
`AsReal` is what the column of type `real` keeps of a score, of which only the order is
assumed. The tier follows from the score before it is rounded (`TierFor`), as in the code.
`last` and `wrote` are history: what
the last push of a file stored for it, and who wrote a key.

**CodeGraphReads.** Each query is an operator on `db`. `Cut` is a `LIMIT`: the rows, or any
of them up to the limit; `AmbiguousEdges` and `Related` keep those of the least and the
greatest scores. The limit a client sends is clamped as its route clamps it (in the
service, for the cross-repository links in the handler). `EntityExplain` and `Stats` have
no limit in the code either.

**LightragClient, Requests.** `call` is one client call (attempt, timer, polling
delay, time left), `lock` LightRAG's pipeline lock, `req` the request with the step of
its plan. `Plan` lists the calls of each route in order; a bulk request purges two
files and creates its job. A purge has a deadline of its own that its database
calls use up too. `late` says that `HTTP_WRITE_TIMEOUT` (240 s by default) has passed:
the handler works on, but what it writes no longer reaches the client
(`app.go:388-411`, `TestControlRoute_LosesResponseToServerWriteTimeout`). It may pass at
any time on every route but the push, which clears it. `did`, `there`, `unclear` and
`skipped` are history: what LightRAG did, what it said it has already, which answers
were lost or of no use, which steps the code passes over. LightRAG may answer a first
insert "duplicated" or "partial_success", which the service accepts
(`service.go:268-273`), or without a track_id, which it does not (`service.go:274`).

**PgMigrate, App.** `schema` and `stamped` are the database, `at`, `baselining` and
`execute` the local state of `Run`. `StartupInit` ranges over every database the runner
that had no tracker can have left: migrations replayed from the first one, on an
empty or a complete schema, interrupted after any file. `stage` is where `run` or
`shutdown` is, `startup` the goroutine that `startupDone` announces the end of,
`capped` the end of `shutdownCtx`.

**Admission.** `cfg` is any configuration `validate` accepts, chosen in `Init`.
The reaper, `Resume` and plain requests behave like readers: they take a
connection for one statement.

## 3. Checks

Runs that pass:

| Run | Instance | Shows |
|---|---|---|
| `IngestPoolConcurrent` | 2 workers, 1 job, up to 2 items, one of them with a file, 1 resumer, 1 restart, 1 fault | `VerdictSound`, `NeverOvercounts`, `OutcomesStable`, `CountersExact`, `CountedOnce`, `DoneMeansStored`, `DoneMeansIndexed`, `ErrorsExplainFailures`, `GracefulStopLeavesNoOrphan` |
| `IngestPoolSingle` | 1 worker, 1 job, up to 2 items, 1 restart, 1 fault, fairness | `NoDuplicateInsert`, `JobsSettle`, `StopCompletes`, and refinement of `JobLifecycle` with its liveness |
| `MemoryDelete` | 1 track, 2 files, 2 callers, 1 ingester, 1 fault | `HiddenOnlyIfDeleted`, `CleanupOnlyAfterPurge`, `ReaperUncoversNothing` |
| `MemoryReap` | 2 tracks, batch of 1, 1 restart, fairness | `TombstonesReaped` |
| `AnalyticsSingle` | 1 process, 2 repositories, 2 pushes, 1 fault, 1 stop, fairness | `CleanMeansCurrent`, `DirtySettles` |
| `CodeGraphPush` | 3 pushes out of 86 bodies (2 repositories, 2 files, 2 extractors), cut off anywhere; every graph of three ids with import edges; 512 databases with more hyperedges, semantic edges and symbols than the limits let through; limits 0 (none sent), 1 and 9 | `NothingStale`, `NothingLost`, `MembersHaveHyperedge`; `NeighborsExact`, `ShortestPathShortest`, `ImportCyclesExact`, `ViewsAgree`, `AmbiguousListed` |
| `HttpRequests` | one request of any route with any two parameters odd; 3 repeats, budgets of 4, a write deadline at any time, fairness | `SuccessMeansDone`, `FailureMeansNotDone`, `DeadlineKept`, `SaturatedIs429`, `QueriesBounded`, `RequestsAnswered` |
| `AppLifecycle` | 1 replica, 2 boots, 2 faults, 2 requests, all legacy databases, fairness | `ReadyMeansMigrated`, `NeverReplayed`, `DbClosedLast`, `StartupSettles`, `ShutdownEnds` |
| `AdmissionBudget` | 3 + 2 bulk clients, 2 readers, 1 background task, all budgets up to 2 and pools up to 5, fairness | `PoolHeadroom`, `ReadsServed` |

The type invariants of `IngestPool`, `MemoryStore`, `CodeGraphAnalytics`, `App` (with
`PgMigrate`) and `Admission` are proved, and the runs above do not list them.

What some of the properties say in words:

- `CountersExact`, `CountedOnce`: with any number of workers (`WORKER_POOL_SIZE` is 4 by
  default) the counters of a job are its settled items, and a job is counted in
  `ingest_jobs_total` once, except in the two races that `raced` names. The properties
  thus say that these are the only ways to lose a count or to count twice: workers that
  join a running job, stale notifies, resets under a worker's hands, and for the counters
  restarts and failing calls too, do no harm. `IngestPoolStuck` shows what the first
  race does; the second is among the behaviours listed below.
- `DoneMeansIndexed`: a done item that has a file is in the source index, or the failure
  to put it there was counted; one without a file is not (`pool_test.go:382`).

- `NothingStale`, `NothingLost`: what an extractor has stored for a file is at most,
  and but for contested keys at least, what its last push of that file had. A key is
  contested when two owners (file, extractor) wrote it: the tables' keys do not name the owner, so
  the second takes the row over.
- `NeighborsExact`, `ShortestPathShortest`, `ImportCyclesExact` compare each
  recursive query with a definition by simple routes, at every depth from the default
  up to beyond the clamp, on cyclic graphs and with ids that are not stored. Where
  `Neighbors` has reached its limit the answer is a part of what is defined; below the
  limit it is all of it.
- `ViewsAgree`: queries that describe the same thing in different SQL do not
  contradict each other, where the one that lacks a row has not reached its limit.
- `AmbiguousListed`: of the edges whose tier follows from their score, the ambiguous ones
  are listed, unless edges of no greater score fill the answer, and no other one is
  except where the column rounds a score to the threshold: the nearest `real` of 0.3 is
  also that of 0.30000001, which is stored as INFERRED and listed all the same.
- `SuccessMeansDone`, `FailureMeansNotDone`: a 2xx means that LightRAG did every
  mutation of the request that the code does not pass over, or said that it has the text
  of an insert, or part of it; the mutation an error reports was not done, unless an
  answer to it was lost, was no JSON or lacked the track_id.
- `RequestsAnswered`: every handler comes to its answer, and a push to one that is not
  late. Any other answer may be late, and is then lost with the connection: a `DELETE` on a
  busy pipeline or the serial calls of `ListEdges` can take longer than the write deadline.
- `SaturatedIs429`: 429 with `Retry-After` is the answer to saturation (busy pipeline,
  429, a deadline, a lock timeout) and to nothing else.

Runs that end in a violation, each of one statement the repository makes about
itself (quoted in `PROJECT.json` under "findings"):

| Run | Statement | What happens |
|---|---|---|
| `IngestPoolStuck` | the sweeper recovers jobs without a restart | a stale whole-row `UpdateJob` queued -> running resets a bumped counter, and the job is then resumed for ever |
| `MemoryGetAfterDelete` | GET after DELETE is 404 at once | a repeated DELETE that sees "busy" removes the tombstone of the first |
| `CodeGraphConcurrentPush` | a push replaces the graph of its files; pushing again is idempotent | two overlapping pushes of a file, each with rows to store, delete only what was committed before, and both sets of rows stay |

The models contain further behaviours that no run asserts or excludes, and that a
reader of the code should know:

- with two workers, `Resume` may reset an item a live worker holds
  (`pool.go:191`), so one item can be run, and inserted, twice; and two workers can
  both pass the terminal check of `pool.go:307` before either has written, and count a
  job twice;
- a response later than `HTTP_WRITE_TIMEOUT` is lost on every route but the push although
  the work is done (`app.go:411`), and the client will repeat it;
- an insert that LightRAG has accepted but answers without a track_id is a 502
  (`memory/service.go:274`), and the memory is stored without anyone knowing its track;
- the rollback of a delete runs on the context whose expiry made it fail
  (`service.go:383`), so the tombstone may stay over a live memory;
- an index row added between a purge's `TrackIDs` and its `DeleteByFile` is removed
  although its memory was not purged (`service.go:497`);
- two files with the same text share a track, so purging one deletes the memory of
  both (`service.go:273`);
- a text that is inserted again while its old track is being deleted may be answered
  "duplicated" with a track that is about to vanish, which counts as success
  (`service.go:273`);
- with two processes (a rolling update), the slower one can write its older analytics
  over newer ones of a repository that is already clean: the dirty guard protects
  the flag and not the rows (`analytics_store.go:160`). Setting `Procs` to two
  processes in `AnalyticsSingle.cfg` shows it as a violation of `CleanMeansCurrent`;
- two replicas that both execute an earlier migration both execute 0005, since its
  probe is consulted only while baselining (`pgmigrate.go:236`); and a replica that
  decided to execute 0003 before the other one finished adds back the columns that
  0005 and 0006 dropped (`pgmigrate.go:244`). Two replicas in
  `AppLifecycle.cfg`, without faults and requests, violate `ReadyMeansMigrated` this way;
- `GetEntity`, `EntityExplain`, `ShortestPath` and `Stats` read in several statements
  without a transaction (`pgstore.go:264`): a push between two of them makes an answer
  of two graphs, for instance a path that is found and then emptied because one of
  its entities is gone. `CodeGraphReads` takes each read on one database;
- `ShortestPath` takes one shortest chain and drops it if an id on it is not stored,
  although another chain of the same length may be complete (`pgstore.go:412`). It joins
  the ids of the chain with '|' and splits them again (`pgstore.go:426`, `:440`), so that an id
  with a '|' in it becomes several; nothing checks the ids of a push, and the model's have none;
- the files of hyperedges and cached hashes are not checked against the push
  (`codegraph/service.go:31`), and a push never removes a cached hash
  (`pgstore.go:187`): a file whose semantic rows were removed still counts as extracted;
- a bulk request purges before `Enqueue` refuses it for a duplicate key or for want of a
  connection (`httpapi/ingest.go:115`): the error answers a request that is half done;
- after a lost answer the repeated call may be told 404, 429 or, for a conflict, 502
  although the first one did its work (`lightrag/http.go:228`);
- LightRAG being unreachable is `ErrUpstream` and 502, although `memory/service.go:23-24`
  counts "5xx or unreachable" as `ErrTransient` and 503; and a client that disconnects
  during a call to LightRAG is `ErrTransient` and 503 rather than 499 (`service.go:225`);
- `min_confidence=NaN` passes the range check (`httpapi/codegraph.go:133`);
- `shutdown` "Caps the total wait at 30 s" (`app.go:50`), but `pool.Stop` is not part
  of the cap, and nobody waits for the reaper and the analytics worker before the
  database is closed; requests still come in while it waits for the startup
  goroutine, which uses the budget of the drain.

### Bounds

Two workers suffice for every race on a job, since each step involves the acting
worker, the job row and one item; two items give every verdict, "partial" included.
One resumer stands for the ticker and for startup, which differ only in when they
call. A channel of one is full as soon as a notify waits, so a second delivery of
the same job is dropped or blocks. One restart and one fault can fall between any two steps; the theorems
below remove these bounds for safety. In `MemoryStore` one track and two callers
make every collision on a tombstone row, and two files the purge of several; a second
track is needed only where a batch has several, and there a batch of one is already
full. Two pushes commit in either order around a recompute. Three pushes are enough
for a row to be stored, taken over and dropped; three ids give
every shape of a cycle, a detour and an unstored id on a path. The limits of the code
(50 to 5000) are 1 to 3 here, so that three ids, two hyperedges, three ambiguous edges and
two links are more than some clamped limit lets through and fewer than another; the five
scores are those the tiers and the rounding tell apart. One request at a time
suffices for `Requests`, since requests meet only in the databases, which the other
modules model, and in LightRAG's lock, which may change at any time. The budgets of
four units are used up by two waits, and by one `Retry-After`. The six migrations are
not a bound. Two faults and two boots in `App` allow a failed attempt and a kill,
each at any point. In `Admission` the largest configurations tried have more clients
than slots and more demand than connections.

`CHECK_DEADLOCK FALSE` is set where the work is bounded and the system then rests:
the analytics run (no more pushes, nothing dirty), the code graph runs (no more
pushes), `AppLifecycle` (no more boots) and `HttpRequests` (the request is answered).

### Fairness

- *Goroutines.* A goroutine that can take a step does (weak fairness), by the Go
  scheduler; requests, faults, crashes, pushes and upstream progress are never
  forced. A store call may fail only finitely often, since faults are bounded.
- *Select on the stop channel.* Strong fairness for `WorkerExit` and `ResumeExit`:
  Go chooses among ready cases at random, so a closed channel that is looked at again
  and again is taken. A worker that ends its item meets it at once.
- *Tickers.* The sweeper's, the reaper's and the analytics worker's tick are weakly
  fair steps of their goroutines.
- *Relaunch.* The Deployment starts a stopped process again.
- *Connection pool.* `database/sql` hands a returned connection to a random waiter:
  strong fairness for readers only. Bulk and background work may keep theirs for ever.
- *Startup.* `DB_WAIT_TIMEOUT` is 0 by default, so the attempt is repeated without limit;
  a process with a positive one is exempt from `StartupSettles`.
- *Timers.* `shutdownCtx`, the item timeout, the HTTP client's timeout and every sleep
  fire. Nothing is assumed of requests during shutdown, nor of LightRAG, which may
  never answer.
- *Database calls.* They end: by an answer, an error, the deadline or `lock_timeout`.
- *Pushes.* A push under way ends, by commit or rollback.

## 4. Proofs

TLC shows a property on one small instance; each theorem below shows it for every
value of the constants that the module's assumptions allow: any number of jobs,
items, tracks, callers, clients, repositories and pushes, any bound on faults,
restarts and boots, any retry limit and budget. All are of the form
`Spec => []P`, or `Spec => P` for an action property. Where a theorem has a further
hypothesis, it is written with it.

| Module | Theorems |
|---|---|
| `IngestPoolProofs` | `TypeCorrect`, `OutcomesAreStable`, `VerdictsAreSound`, `CountersNeverOvercount` |
| `IngestItemsProofs` | `DoneMeansStoredHolds`, `DoneMeansIndexedHolds`, `ErrorsExplainFailuresHolds`, `GracefulStopHolds`, `CountersExactHolds`, `CountedOnceHolds`; with one worker `NoDuplicateInsertHolds`, `PoolImplementsLifecycle` |
| `MemoryStoreProofs` | `TypeOKHolds`, `ReaperUncoversNothingHolds`, `CleanupOnlyAfterPurgeHolds`, `HiddenOnlyIfDeletedHolds` |
| `CodeGraphAnalyticsProofs` | `TypeOKHolds`, `AccountedHolds`; with one process `CleanMeansCurrentHolds` |
| `CodeGraphStoreProofs` | with one push at a time `MembersHaveHyperedgeHolds`, `NothingStaleHolds`, `NothingLostHolds`, the last two if only AST pushes have symbols; with any number of pushes `NeighborsExactHolds`, `ShortestPathShortestHolds`, `ImportCyclesExactHolds`, `ViewsAgreeHolds`, `AmbiguousListedHolds` |
| `RequestsProofs` | `SuccessMeansDoneHolds`, `FailureMeansNotDoneHolds`, `SaturatedIs429Holds`, `DeadlineKeptHolds`, `QueriesBoundedHolds` |
| `AppProofs` | `TypeOKHolds`, `DbClosedLastHolds`; with one replica `ReadyMeansMigratedHolds`, `NeverReplayedHolds` |
| `AdmissionProofs` | `TypeOKHolds`, `SlotsExactHolds`, `PoolHeadroomHolds` |

### Why some theorems are about one worker, process, push or replica

The hypotheses are not for the convenience of the proof; without them the code does
otherwise. Two workers insert an item twice (section 3), so `NoDuplicateInsert` holds of
one worker only; they also lose a counter (`IngestPoolStuck`), or the late start of one
makes a job running again that the other has finished, which no step of `JobLifecycle`
does, and so the refinement is about one worker too.
`CountersExact` and `CountedOnce` are about any number of workers and name the race they
exclude instead. Two pushes of one file
leave the rows of both (`CodeGraphConcurrentPush`). Two processes write old analytics
over new ones, and two replicas replay a migration; section 3 says which change of the
configurations shows it. `SymbolsFromAst` is what a comment of `Reconcile` says of its
callers ("Symbols slice is empty on semantic pushes", `pgstore.go:93`): symbols have no
extractor of their own in the table, and `Push` does not check it. Within these limits
the theorems are about any number of everything else.

### The inductive invariants

**IngestPool.** `HoldInv` strengthens `TypeOK` by what goroutines hold: a worker past
`GetJob` holds an existing job, between claim and mark an item of it, and in "start" or
"finish" a row snapshot; jobs in the channel or a resumer's list exist; a job that does
not exist has no items. Without it, `EXCEPT` updates by a worker could not be typed.
From it follows the lemma that items only advance: no step adds an item to a stored
job or changes an outcome, which is `OutcomesStable`.

`CountInv` says that each job row, and each snapshot a worker is about to write
back, is *bounded* by the items: its total is their number and its counters are at
most the settled ones; and that a row or snapshot with a terminal status is
*settled*: every item has an outcome and the verdict fits. Snapshots have to be part
of it because `UpdateJob` may write one much later; they stay bounded meanwhile
because items only advance. The key lemma is that a bounded row with
`done + failed >= total` is exact, so the verdict computed from it is the items' own.
The counters themselves are *not* exact under concurrency, and this is why soundness
of verdicts has to rest on bounds rather than on equality. `ErrInv` says the same of
the error list, again of rows and snapshots alike.

`ItemInv` ties an item to LightRAG: a TrackID or a done item stands for a document,
and so does a worker's place between `CreateMemory` and `MarkItem`. `RunningHeld` says
that, as long as nothing failed, every running item is in some worker's hands;
`Resume` breaks it the other way round (a held item that is not running), which is why
a second worker can run it again. `ShareInv` is why counters are exact with several
workers: without the race "start", the snapshot of a worker that is about to write
"running" is still the stored row, since nobody else is past reading it, and a snapshot
about to be written as the verdict is exact, since by then no item is left to settle.
`CountedInv` says that without the race "finish" at most one worker finalizes a job and
that a job already counted is over; `FreshInv` helps it past a late start, which
writes a row of zero counters that can never again reach the total. For one worker,
`AloneInv` has the counters equal to the items and the worker's snapshot equal to the
stored row but for its status; `OnceInv` says where a document of an item shows. With `HoldInv`, `CountInv` and `AloneInv` each step of
the pool is a step of `JobLifecycle` or leaves its variables alone.

**MemoryStore.** `HoldInv` fits each caller's local state to its place; `Seen` says that
nothing that is known of, in the index, under a tombstone or in a caller's hands, is
still to be inserted, and that the track the reaper is about to unmark is gone.
Since a gone document does not come back under the same track, the gap between
`TrackStatus` and `Delete` is harmless. `Purged` follows a purge through the tracks it has
read: each is still to do, at hand, acknowledged or gone.

**CodeGraphAnalytics.** `AllAccounted` balances claims and slots for any number of
processes. `Fresh` says what a recompute may rely on between its reads: as long as the
row's reconcile time is the one of its snapshot, the nodes and edges it holds are those of
the current graph; otherwise the row is dirty, or will fail the guard.
`PushTimes` is needed because times are given when a transaction begins and seen
when it commits.

**CodeGraphStore.** `TxInv` says what an open push has deleted after each of its
statements: everything of the files done (`DeletesDone`), members before their
hyperedge (`MembersGoFirst`), of the owned tables nothing outside its files
(`OnlyNamed`). `PushInv` adds that what each owner stored last is on record; the rows
of a commit are then the old rows less the deleted ones and those whose keys are
written again, plus those of the push. A statement number is a file and one of five
statements, which is division with remainder; the last of several rows with the same
key in a batch is the one kept, which rests on the lemma that a nonempty set of
numbers has a least element.

**CodeGraphReads.** Of the rows the reads need only `RowsOK`: the tables are finite, and
an edge has a number for its score and ids for its ends. It holds with any number of
pushes. The rest is about a graph. `RecursionExists` gives the function that a recursive query
defines (by least counterexample, `LeastNat`), and `WalkUnfold`, `ChainUnfold` and
`ReachUnfold` that the query is that function. A *trail* is a way along edges that may run
in circles. Round n of `Neighbors` has the ends of the trails of n steps
(`WalkIsTrails`), of `ShortestPath` the paths without a repetition that meet the target at
most at their end (`ChainsArePaths`), and what `Stats` counts is a closed trail whose first
step leaves its start (`ReachLeaves`). The properties speak of simple routes instead.
`TrailCut` leaves a circle out, so the shortest trail is simple, and a
simple one is no longer than there are ids. For import cycles the circle that is cut must
not contain the first step (`ShortestLeaves`): this is where the filter
`importCycleBaseFilter` on self-imports is needed.

`NeighborRows` is treated so before its limit; a `LIMIT` gives a part of a finite set, and the
whole set when the part is smaller than the limit (`Cut`). Of the rounding only its order is
used, and that 0.3 and 1 stay apart.

**Requests.** `CallInv` says what the client's result means: while a call runs, LightRAG
has carried it out only if an answer was lost; when it is over, success means done or,
of an insert, there already, and an error means not done unless an answer was lost or
of no use. `UnderWay` and `Answered` lift it
to the plan of the route: the steps behind the current one are done or passed over,
and the cause of an answer is saturation exactly when its status is 429. `Within`
carries the clamped parameters from the handler to the query. `PollInv` is the budget
of the polling: how much of it is left is bounded by the attempts made and the time on
the timer, so that the overrun is at most one round of attempts. The longest wait of such a
round is the maximum of a set of powers of two; that it exists for every retry limit is
shown by induction, as a least counterexample (`LeastNat`), since the induction theorems of the
library cannot be used.

**App, PgMigrate.** `InOrder` says what each stage of a process guarantees, in the
order of `app.shutdown`. `MigrationInv` says that the stamped migrations are an initial
segment, and gives, for each length of it and each kind of legacy database, the
schema, what is still to be executed and whether the runner is baselining.

**Admission.** `SlotsExact`: the slots of a class are the requests inside. With the
condition of `validate` the connections held by bulk and background work are then fewer
than the pool has.

### What is only model-checked

- Liveness and all that depends on fairness: `JobsSettle`, `StopCompletes`, `DirtySettles`,
  `TombstonesReaped`, `RequestsAnswered`, `StartupSettles`, `ShutdownEnds`, `ReadsServed`, and the
  liveness part of the refinement of `JobLifecycle`. The prover has no support for it.

Every safety property of the passing runs is proved, within the hypotheses above.

## 5. Not modelled

- Metrics, logs, access logs, request ids and response bodies: no state a property
  could be about. The evaluation harnesses and test fakes are not part of the service.
- Louvain and betweenness (`internal/analytics`) are library calls on floating-point
  data; community labels are one best-effort call to a language model.
- The translation of bodies to LightRAG's types and the edge identifier codec; the
  ranking of `SearchEntities` and the plain `SELECT`s of `FileImports`, `SemanticMisses`,
  communities and bridges, of which only the limits are modelled.
- Token verification (an OIDC library), TLS and the kubelet beyond kill and relaunch.
- The migrations of ingest and memory, which run through the modelled runner.
- Two overlapping processes for ingest and the reaper; two replicas can be chosen for
  analytics and startup. Tracks with several documents are treated as one.

## 6. Plan

Done: ingest with its abstract specification, deletion, analytics, the code graph's
rows and reads, the LightRAG client inside requests, the life of a process,
admission; the theorems of section 4.

Models that remain: ingest composed with deletion (the purge before a bulk insert
and the insert of a text whose track is being deleted), and two processes for both.
