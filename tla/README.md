# Multi-source Resonance: a TLA+ model of the backend

The system polls market data sources, scores a four-dimension "resonance" signal, stores both in SQLite, learns
dimension weights from how past signals turned out, and pushes events to browser clients. This directory models its
stateful, concurrent core and the numbers it decides by in TLA+, checks them with TLC, and proves the parts that do not
depend on fairness with TLAPS.

Paths below are relative to the repository (`backend/...` is `src/backend/...` in `PROJECT.json`).

- [1. The system](#1-the-system) - inventory
- [2. The modules](#2-the-modules) - what models what
- [3. The runs](#3-the-runs) - what is checked, bounds, fairness
- [4. The proofs](#4-the-proofs)
- [5. Where the code and its documents disagree](#5-where-the-code-and-its-documents-disagree)
- [6. Not modelled](#6-not-modelled)
- [7. Plan](#7-plan)

## 1. The system

Everything in the backend runs as asyncio tasks on one event loop: a step is the code between two awaits that can
suspend, a task can be cancelled at any await, and nothing is preempted elsewhere. The browser client is
single-threaded in the same way. That is the granularity of every action here.

| part | state | operations | what is hard | what makes it correct |
|---|---|---|---|---|
| **Connection pool** `database.py` | semaphore, idle list, one transaction per connection | `get_connection`, `release_connection`, `get_db`, `close_db` | borrow fails half-way; cancellation at every await; two limits (semaphore and idle list) that must agree | one release per acquire; no connection shared; no wakeup lost; blocks are all or nothing |
| **Pipeline lifecycle** `pipeline.py`, `main.py`, `routes/system.py`, `scheduler.py` | `_running`, `_task`, `_in_cycle`, `_is_writing` | `start_background`, `start`, `stop`, `run_cycle`, collect and polling routes, shutdown, jobs | flags that several tasks set and `finally` clauses clear; overlapping starts and stops | one cycle at a time; flags are exact; who polls alone goes on until stopped; `stop()` and shutdown end |
| **Fetchers** `fetchers/*` | caches of two of them | `fetch`, `fetch_with_retry`, mock fallbacks | five different ways for a value to be made up | generated values are marked |
| **Collection cycle** `concurrent_executor.py`, `pipeline.py` | reports, counters, deferred tier-3 task, stored rows | tiers 1 to 3, analyse and score, `_persist` | timeouts over retries; a result that lands after its report was read; a chain of transactions | marks survive to the alerts and to the tables that have one; counters agree; an alert has its trail; cycles end |
| **Data writer** `data_writer.py` | tables | `write_all`, audit, snapshot, alert | one step of several failing | as above |
| **Event bus** `event_bus.py` | subscriptions, handler tasks | `publish`, `drain` | handler tasks outlive the call that made them | each task ends |
| **WebSocket push** `api/websocket.py` | registry of clients and filters | `connect`, `disconnect`, `broadcast`, endpoint commands | broadcasts hold snapshots across awaited sends | who stays gets everything once; who left is gone |
| **Browser client** `WebSocketProvider.tsx` | current socket, reconnect timer, status | `start`, `stop`, `onopen`, `onclose`, timers | callbacks of replaced sockets | one connection, honest status, reconnects |
| **Learning** `scoring.py`, `bayesian_weights.py`, `signal_outcomes.py` | posteriors in memory and in `system_config`, outcomes of alerts | update, decay, persist, restore, reset, evaluate, tag | two writers of one adapter; state saved apart from its update; rows read before an await and written after | only measured outcomes of real data are learnt; outcomes are final; what is lost has a reason |
| **Maintenance** `scheduler.py`, `db_maintenance.py` | archive table, backup files | VACUUM, archive, full and incremental backup | several statements outside the pool; files copied behind SQLite's back; locks and retries beside the pipeline's writes | no row lost or doubled; a backup restores what was there; jobs end |
| **Analyzers, scoring** `*_analyzer.py`, `scoring.py`, `bayesian_weights.py` | results of a cycle, posteriors | analyse, score, determine the level, update, reset | copies of one threshold before and after rounding; bounds that a later step undoes; fields one module derives and another judges | levels agree; more signal never scores less; learnt weights stay usable |
| **Backtest** `backtest_engine/` | none that outlives a run | replay, metrics, walk-forward, sensitivity | look-ups forwards and backwards in a history with gaps; positions of folds; equity below zero | no trade runs backwards; folds tile the run; books balance |
| **LLM inference** `llm_inference/`, `llm_cache.py` | cache with TTL | get, set, cleanup, multi-model verification | expiry, eviction limits; not called at run time | no stale answer |
| **Auth, rate limit** `api/middleware` | revoked tokens | login, refresh, logout | memory and database copies | what was revoked stays revoked |
| others | none that outlives a call | Hawkes fit, LLM analyzer, read routes, settings, logging, notifier (never constructed), frontend views, scripts | - | - |

How they interact: the lifecycle decides who executes a collection cycle; a cycle calls the fetchers, scores, borrows
connections from the pool to persist, publishes events on the bus; the bus starts handler tasks that broadcast to the
WebSocket registry; each browser client keeps one socket in that registry and refetches over REST when told to. The
scheduler's jobs look at `is_writing` and then work on the same database. The learning loop reads what cycles stored
and changes the weights the next score uses. The backtest engine replays stored alerts; nothing calls it at run time.

`PROJECT.json` lists every component with its status, and under `hazards` each place where this goes wrong in a way a
unit test hardly reaches, with the properties that watch it.

## 2. The modules

| module | models | abstraction |
|---|---|---|
| `ConnectionPool` | `database.py` | a transaction is the set of blocks whose writes it holds |
| `ExclusiveLease` | what the pool, and the single-flight cycle, promise | the abstract specification of both |
| `PipelineLifecycle` | who runs a cycle and when | what a cycle collects is left out |
| `Fetchers` | the 22 fetchers as operators from upstream answers to a result | a value is real, hollow (all fields empty) or generated |
| `CollectCycle` | one cycle from collection to the stored alert | EXTENDS `Fetchers`; who starts and cancels it is `PipelineLifecycle`'s subject |
| `EventPush` | bus, bridge, registry, endpoints | payloads are left out; a message is the task that sends it |
| `SignalLearning` | alerts, their outcomes and the weights learnt from them | the posteriors are the sequence of batches they are computed from |
| `WsClient` | `WSClient` and its provider | the server is a socket that opens, fails or closes at any time |
| `Maintenance` | the jobs of `db_maintenance.py` beside the pipeline's transaction | SQLite is a main file, a log and a write lock; a page is a whole table |
| `Analyzers` | the ten analyzers as operators from payload to result | fixed-point numbers; fields shown only to people are left out |
| `Scoring` | score, level and alert of a cycle, and the weights | EXTENDS `Analyzers`; failures and storing are `CollectCycle`'s and `SignalLearning`'s |
| `Backtest` | one `run_backtest` | square-root ratios and chart data are left out |
| `*_proofs` | theorems about the module they are named after; `WebSocket_proofs` about `EventPush` and `WsClient`, `Scoring_proofs` also about `Analyzers` | |
| `MC*` | instances for TLC | |

A definition whose comment calls it a variant, or that is marked *(mutant)*, is not used by the specification: it is a
plausible bug, and `PROJECT.json` names the property that notices it.

### ConnectionPool, ExclusiveLease

`slots`, `waiters` are the semaphore; `idle` is `_connections`; `pc[b]` is the await a borrower is suspended at (`queued`
in `acquire()`, `granted` when its future is set but it has not run yet, `probing` `SELECT 1`, `creating`, then `body`,
`commit`, `rollback` of `get_db()`). `Acquire`, `Enqueue`, `Resume`, `ProbeOk`, `ProbeFail`, `CreateOk`, `AbandonBorrow` are
`get_connection()`; `Write`, `BodyEnds`, `Raises`, `Commit`, `Rollback`, `RollbackFails`, `CancelBlock` are `get_db()` with the
`release_connection()` it ends in; `CloseDb`, `CloseResume` walk the idle list by position as `close_db()`'s `for` does.
`Wake`, `Locked` and the cancellation of waiters are CPython's `asyncio.Semaphore`. SQLite contributes one fact, that at
most one connection holds uncommitted writes.

`open`, `pending` and `durable` record the database: a block's writes are `pending` in its connection's transaction, and
`Commit` makes everything pending there `durable`, whoever wrote it.

`ExclusiveLease` says: each connection is leased to at most one borrower, at most `N` at a time. `ConnectionPool`
implements it with `lease` = the connection of every borrower inside its block.

### PipelineLifecycle

`running`, `task`, `inCycle`, `writing` are the four attributes; `pc` says where each loop or manual request is. A loop is
`created` before its coroutine begins because `start_background()` only schedules it. `EnterCycle` is the
single-flight check of `run_cycle()`; `AfterCycle` what its caller does next; `CancelDelivered` all the `finally`
clauses a cancellation passes. `StopBegins`, `DrainDone`, `JoinDone` are the three parts of `stop()` between its awaits:
the tier-3 drain, the cancellation of whatever `_task` names *by then*, and the join. `PollsAlone` is a single loop with
no `stop()` under way: the situation in which "Runs indefinitely until stop() is called" holds. `Shutdown` is the lifespan's call
of the same function. `Init` is the state after the lifespan has started polling.

The same `ExclusiveLease`, with one lease, is what `run_cycle()` promises (`CycleLease`).

### Fetchers, CollectCycle

`Upstreams[s]` names the requests a fetcher makes, each `ok`, `empty` or `down`; `Fetch(s, answers, keys, cached)` is
what its `fetch()` returns or raises, with the `_is_mock` marker it sets itself. `fetch_with_retry()` is the actions
`MockAtOnce` (no network or key), `Fetched`, `FetchRaises` (next attempt, or the fallback with an error) and
`FetchTimesOut` (the executor's timer, which runs over all attempts). `Tier1Ends` and `Tier2Ends` are the executor's
`gather()`s; the second takes the report and leaves tier 3 behind, and `Land` is a result arriving in the report it
belongs to, possibly cycles later. `Analyse` scores; `WriteResults` writes the rows of every source in the writers'
order; `WriteAudit`, `WriteSnapshot`, `WriteAlert` are the transactions of `_persist()` in order, `PersistFailsSoftly`
and `PersistFails` the errors it logs and goes on from, or gives up on. `Cancel` is `stop()`; `Crash` loses all but the
committed rows.

A row is its cycle, source, table, content (real, hollow or generated), whether its `is_mock` column is set, and for the
change of a crypto snapshot's open interest the content of the history row it was computed from (`base`). `TablesOf` says
which tables a source's content reaches; `MarkedTables` have an `is_mock` column and `UnmarkedTables` have none, so a
generated row there looks like any other; `Before` and `Bases` are what a writer that fails half-way has written already,
and what the history holds.

Whether a score crosses the alert threshold is a free choice: `Analyse` allows both, since scores are not modelled.

### EventPush

`Publish` makes a task per matching subscription: the bridge subscribes by name and by wildcard, so one event may be
broadcast twice, as in the code; a filter may hold `"*"` (`Star`), which passes every topic. `BroadcastBegins` takes the
snapshot of the registry, `SendTo` awaits one send, `BroadcastEnds` disconnects those that failed. The endpoint's
commands (`Subscribe`, `Unsubscribe`) mutate the very filter sets the snapshots refer to. `LinkDown` is the network;
after it the endpoint still handles what was received before, until `EndpointEnds`. `DrainBegins`, `DrainEnds`,
`DrainTimesOut`, `TaskCancelled` are `drain()`.

### SignalLearning

An alert is `none`, `young` or `due` (its `FORWARD_DAYS` have passed), with its dimension scores, whether a generated
dimension took part (`mock`), its `outcome`, `outcome_method` and when it was `checked`. `EvaluateBegins` is
`check_outcomes()` up to the download of the prices; `PricesArrive` measures some of the rows it read before,
`PricesFail` calls the offline fallback, which tags rows and leaves their outcome NULL.

The adapter is a value of a function of the priors and the updates since the last reset, so `adapter` is that sequence
of batches, and `stored` the one `system_config` holds. The two `Learners` are the pipeline, after it has scored
(`"cycle"`), and the daily job; both query (`RowsArrive`), update and serialise in one step (`Learn`), and then write
(`PersistDone`, `PersistFails`), so their writes may overlap. The pipeline does not write when the rounded weights are
unchanged (`LearnUnnoticed`). `CancelCycle` in the middle of the write leaves it in an open transaction (`stray`, the
divergence of `pool_atomicity`) that the connection's next borrower commits or rolls back. `Reset` changes memory only,
`Crash` ends the process, `Restart` and `RestoreFails` are what the next start finds.

The 90 days of the job's query are any suffix of the evaluations; its limit of rows is above the number of alerts.

### WsClient

One action per callback: `Mount`/`Unmount` (the provider's effect, calling `start()`/`stop()`), `OnOpen`,
`ConnectionLost` (the browser turns a socket to closing), `OnClose` (its callback, later), `TimerFires` for the timer
`reconnectTimer` names and `LostTimerFires` for timers it named before.

### Maintenance

`file` and `wal` are images of tables in the main file and in the write-ahead log; what a connection reads is `View`,
the log over the file. `Commit` appends to the log, or starts it over when it is all in the file (`backfilled`), and may
checkpoint; `Flush` is `wal_checkpoint(TRUNCATE)` or the close of the last connection. `writer`, `txn` are the write lock
and the transaction of who holds it. `Insert*` and `Persist*` are the pipeline's transaction (a snapshot, with strike rows
or without) with the thread its `commit()` runs in as a step of its own; `Archive*` the count, the copy, the delete and the
commit of `archive_old_data()`; `Vacuum*` the checkpoint, the attempts and the sleeps of `vacuum_and_analyze()`. `FullBackup`
copies what one transaction sees; `CopyWal` and `CopyFile` are the two `copy2()` of the incremental backup. A backup is
synchronous, so it blocks the event loop (`Free`), but not the threads that are committing. `recent` stands for the mtimes
the cleanup of old backups goes by. `Tick` lets a retention period pass; `Crash` and `Exit` end the process.

### Analyzers, Scoring

Scores are in 1/100 of a point (1/10000 before rounding), weights in 1/10000. `Analyze(a, payload)` is `analyze()` of
analyzer `a`; `GexSnapshot`, `VixPayload` and `CryptoPayload` are what the fetchers compute from upstream figures, so
that an analyzer can be asked about what really reaches it. `Analyse` gives each source a result, or none; `Score` is
`resonance_scorer()` and `_compute_alert_level()`; `CycleLearns` and `JobLearns` update the posteriors from one outcome
or from a batch; `Call` and `Return` are any other use of an exported analyzer.

### Backtest

`phase` says how far `run_backtest()` has come. `Load` takes the rows (`InRange` is the comparison of texts in its query);
`Replay` makes all trades, the curve and the metrics; `StartFolding`, `Fold`, `EndFolding` are the loop of
`run_walk_forward()` with its position (`next`) and its counter (`fold`); `Vary(d)` is `run_sensitivity()` for one dimension.
`Nearest` and `Exit` are the two look-ups in the price history. A signal whose time carries a zone cannot be compared
with a price and makes no trade (`aware`). A loop that skips some of its rows is `Kept`, one that adds up is `Running`; both
are functions of the position the loop has come to.

## 3. The runs

`tlc -config <cfg> <module>`; each passing run covers its whole state space.

| run | instance | shows |
|---|---|---|
| `pool` | 3 borrowers, 2 connections, 2 slots | slots balance, connections never shared, no wakeup lost, undone stays undone, the refinement `ImplementsLease`, `QueuedIsServed` |
| `lifecycle` | 3 loops, 2 manual requests, 1 stop request, shutdown, 1 job | single flight, exact flags, no `_running` without a loop, a lone poller stays and keeps collecting, cycles and shutdown end |
| `push` | 2 topics (one matched twice), 2 clients, 1 event, 1 command each | broadcasts complete, the gone stay gone, dead clients leave |
| `wsclient` | 3 sockets, 3 mounts | connections never multiply, status honest, stop final, reconnects |
| `cycle` | see below | `ValuesAreHonest` (marks, tables that have one, scores, failures left out), counters, alert trail, termination |
| `learning` | 2 alerts, 2 kinds of scores, 2 updates | only what was measured is learnt, outcomes final, losses have a cause |
| `maintenance` | 2 snapshots, 2 retention periods, 1 backup, 2 attempts of VACUUM | strike rows kept, counts honest, quiet backups restore, jobs end |
| `scoring` | payloads around every threshold, 2 updates, batches of 1, 2 and 20 | levels agree, more never lowers, weights sound, calm scores low |
| `backtest` | all tables of up to 5 alerts at 6 times, 5 price histories, window and step 2 | trades run forward, folds add up, books balance |
| `pool_atomicity`, `lifecycle_restart`, `backup_torn` | the same or smaller | one divergence each, see [section 5](#5-where-the-code-and-its-documents-disagree) |

Six further configurations, also in section 5, show further divergences; all but `MCLearningOrder.cfg` need no interleaving.

The type invariants of all modules but `Scoring` and `Backtest`, and `PoolHasRoom`, `ImplementsLock` and `TagsAreProvisional`, hold on these instances too; they are proved (section 4), so the
runs do not repeat them.

**Bounds, and why they are enough.**
*Pool*: two slots and three borrowers is the least with somebody queued while two connections are lent; a connection
that is dropped comes back as a fresh identity, so two identities suffice for two slots (the atomicity run has three, to
have one lent, one idle and one new).
*Lifecycle*: three loops are one current, one being stopped and one orphan; two manual requests compete with each other;
a stop request and the shutdown overlap never, by the server's order, but either overlaps starts. The restart run needs
two loops, the one that is being cancelled and the one that is started meanwhile.
*Push*: one event already makes two concurrent broadcasts (name and wildcard); two clients are one that dies and one that
stays.
*Client*: three mounts make two generations of leftovers beside the current one. Attempts stop counting at the last
delay, as the code's index does.
*Cycle*: every fetcher alone for a cycle, with every combination of its upstreams' answers and keys; the fetchers whose
state outlives a cycle for two cycles: `GEXMetrix` with the deferred `AXLFI`, each of the two caches (`money_flow`,
`sector_rotation`), and `crypto_derivatives` with its history; two combinations of scoring dimensions (`GEXMetrix`, `VIX`
and `dark_pool_metrics`; `crypto_derivatives` and `dark_pool_metrics`), to have a mix of real, generated and failed ones
in a score. Three attempts as in the code, one
cancellation or crash. Fetchers do not see each other, so combinations of all 22 add nothing but states.
*Learning*: two alerts are one that is learnt and one that comes later, or two of one batch; one kind of scores is tagged
by the fallback and the other not; two updates are two writes that overlap, in either order, or one before and one after
a restart. Alerts are interchangeable, and the properties are safety properties, so symmetry is sound.
*Maintenance*: two snapshots are one that is archived and one that is inserted meanwhile; two retention periods make rows
that become old while a job runs; one backup suffices, since backups do not see each other. Two attempts instead of three
(`Attempts`) already fail, succeed late and give up. A page is a whole table, so the model does not show transactions that
are torn within one.
*Scoring*: every analyzer is called with values at, just under and just over each threshold it has; a cycle sees a sample
of them and missing sources; the batches are the shapes that pull a posterior furthest, and after two updates the weights
have been pushed to both bounds of the clamp and beyond them by the normalisation that follows.
*Backtest*: window and step 2 (the code allows windows from 10, steps from 1) with up to five alerts give full, shorter
and empty folds. The histories are none, unknown prices only, one price, a gap longer than the holding period of five
days, and prices that fall below zero, with a capital small enough to be lost.

**Deadlock** is checked in `pool`, `learning`, `scoring` and `backtest`, where a next block, restart, cycle or run is
always possible. In the others the bounded environment (events, mounts, cycles) may be used up and the system at rest,
so the configurations disable it; the liveness properties say instead what must not hang.

**Fairness, and why the code justifies it.** Weak fairness only, never of the environment: no request, event,
connection, failure, recovery or answer is assumed to come.
- pool: `WF(Advance(b))` - a statement a block awaits ends (`busy_timeout`), and the event loop resumes whoever is ready.
- lifecycle: `WF` of the cycle, loop and stop steps - sleeps are finite, each fetcher has a timeout, the drain has one.
- push: `WF` of handler tasks, of the end of an endpoint whose peer is gone (`receive_text()` raises), and of the drain.
  A send to a stalled peer ends when the server's keepalive closes the socket.
- client: `WF` of socket callbacks and timers, which the browser guarantees.
- cycle: `WF` of the cycle's own steps and of the *timers* of a fetch. That an upstream answers is not assumed.
- maintenance: `WF` of archiving, of VACUUM and of a backup under way, each of which is a coroutine or a thread that is
  ready. That a lock comes free is not assumed; `JobsEnd` holds because refusals are counted, and because backups, which
  block the loop, are finitely many (`MaxBackups`), as they are in the schedule.

**History variables** (`durable`, `completed`, `undone`; `got`, `owed`; `mounts`; `excuse`, `latest`; `kept`) record the
past for properties and bounds; no guard that models code reads them.

Every property of a passing run has a mutant in `PROJECT.json`: replacing the mapped definition by a plausible bug
makes TLC report that very property.

## 4. The proofs

`tlapm <module>` checks them; the constants are arbitrary but for the named assumptions.

**`ConnectionPool_proofs`** (for any borrowers, connections and `POOL_SIZE`; `PoolAssumption`: at least one slot, finitely
many borrowers). `SlotsConserved` is not inductive: waking a waiter moves a slot to a task found through the queue,
and only counts once if that task was still waiting and queued once. Hence `IInv == TypeOK /\ QueueHoldsWaiters /\
SlotsConserved`, which is. `Wake`, the only place where slots are granted, is treated once in `WakeStep`, and each action
reuses one of `ReleaseSlotStep`, `SlotMove`, `QuietMove`; `Enter`, `Leave` and `Stay` say how the cardinality of `In(phases)`
changes. On `IInv` rest `ConnectionsExclusive` and `PoolHasRoom` together (a connection given back needs room in the
idle list, or the code would close it elsewhere), then `NoLostWakeup`, `UndoneStaysUndone`, and `PoolImplementsLease`:
initial states map to initial states, and each step to a step of `ExclusiveLease` or a stutter.

**`PipelineLifecycle_proofs`** (any sets of loops, manual requests, callers and jobs). The inductive invariant is the
conjunction `TypeOK /\ SingleFlight /\ WritingMeansPersist /\ RunningMeansAlive /\ CancelledJoined`: that a cancelled loop
clears only the cycle and writing flags it owns follows from `SingleFlight`, and that entering a cycle is exclusive follows
from `_in_cycle` being exact. `CancelledJoined` says that while a loop's cancellation is on its way a call of `stop()` waits
for it; hence a loop that polls alone, with no such call, is not being cancelled, and `PollsUntilStopped` (`LonePollerStays`)
follows. `_running` is owned by nobody, which is why the theorem speaks of a lone loop (`lifecycle_restart`).
`CycleImplementsLock` rests on the same invariant.

**`CollectCycle_proofs`** (any set-ups, cycles, attempts and faults). `FetchReturns` goes through the 22 fetchers for
every answer of their upstreams, `FetchIsHonest` says what a result may claim, and `FetchFacts` reduces the four steps
of a fetch to one: another attempt, or one honest result that lands. The invariant adds to `TypeOK`: `Deferred` (no
tier-3 task before its cycle has left it behind, without which a cancelled cycle's counters could go stale), `Reports`
(all results honest), `Counting` (counters exact once tiers 1 and 2 are over, zero before), `Scored` and `Trail` (what
the running cycle is about to store), `Stored` (what has been stored). `TablesWritten` and `RowsWritten` say which rows
a writer makes of a result and that those of tables with a mark carry it; nothing is claimed of a table that has none.
`Frozen` is the reason stored rows and alerts stay true: once tiers 1 and 2 of a cycle are over, only tier 3 still
lands. `ValuesAreHonest`, `CountsAreFresh` and `AlertBacked` follow.

**`WebSocket_proofs`, the server** (`EventPush`; any topics, events, clients and filters). A broadcast's snapshot is
`owed`, what is still to be sent `todo`. `BroadcastReachesAll` only speaks of broadcasts that have ended, so the
invariant (`Delivered`) says for each that is under way, and each client that stays, that it has its turn to come or
exactly one message. It needs `Fresh`: broadcasts that have not begun have given nobody up, and clients that have not
connected are in no snapshot. `GoneStaysGone` then is a fact about single steps.

**`WebSocket_proofs`, the browser** (`WsClient`; any finite set of sockets, any number of mounts). `ClientTypeOK`,
`OneConnectionPerStart` and its consequence `MountedOnceSingle`: a provider that is mounted once has a single
connection. The divergence of section 5 therefore needs a remount. While there has been one start, the client is on one
thread (`OneThread`): the socket in use is the one `ws` names, no timer is lost, and a pending reconnect means that no
socket is in use. `StatusIsHonest` and `StopIsFinal` follow.

**`Maintenance_proofs`** (any number of attempts, snapshots, periods and backups). `RowsKept` is about what a reader
sees, and a commit may start the log over, so the invariant needs `LogInFile`: a log that may be started over holds
nothing the file has not. `Locks` says who holds the write lock with which pages in its transaction, `TxnFits` how that
transaction relates to the tables it was begun on, `Apart` that ids and keys of the two tables differ (so that `INSERT
OR IGNORE` ignores nothing), `Counts` that the count stays exact up to the delete, rows inserted meanwhile being younger
than the cutoff, `Copies` what a backup begun quietly has copied. `CountIsHonest` and `QuietBackupsRestore` follow.

**`Backtest_proofs`** (any tables, histories, ranges, windows and steps, any capital; `BacktestAssumption`: alerts are in the
order of their times, which differ, since `write_signal_alert()` stamps each with the microsecond it is written in
(`data_writer.py:677`); a history's times are numbers and its prices numbers or missing). The engine's loops are
recursive functions (`KeptUpTo` for a loop that skips, `Running` for one that adds up), about which the library's induction
theorems cannot be used. `NaturalInduction` and `RecursionExists` state induction with a *set* of numbers instead of a
predicate and follow from the well-foundedness of `<`; from them, what a loop computes: `RunningFacts`, `RunningOfStretch`
(a loop over part of the positions is the difference of two running sums), `CountIsSum`, `KeptFacts`, `KeptElements`, `KeptSums`.

`TradeRunsForward`: the nearest price of a signal is never after its exit, because the exit is itself a price at or after
the signal and cannot be nearer. `RunInv` says that what a run has loaded is in order, has traded is what `GenerateTrades`
makes of all of it, and has in its books is what `EquityCurve` and `CalculateMetrics` make of that; `TypeOK`,
`TradesRunForward` and `BooksBalance` follow, the last for any trades (`WinsAndLosses`, `NoLossNoDrawdown`). `FoldsAddUp` is
not inductive: it speaks of the end of the walk. `TestedInv` says for each iteration that the folds so far have tested
exactly the trades between the first window and the walk's position, as a difference of running sums over all signals, and
`FoldedInv` that no fold ends behind that position; at the end the position is the last signal (`BehindSums`).

**`SignalLearning_proofs`** (any finite set of alerts, any scores, any number of updates). Two invariants. The first says
that an evaluation's rows still have no outcome when their prices arrive, that tags and outcomes exclude each other, and
that everything in memory, in the database and in transit is made of measured rows (`Hands(Measured)`). `HandsStep`, about
an arbitrary set that contains the learnable rows, is used twice: for the types and for this invariant, since measured
rows stay measured. `LearntIsMeasured`, `TagsAreProvisional` and `OutcomesAreFinal` follow. The second (`LossInv`) relates
what is being written to the adapter and yields `LossHasCause`. That the latest evaluation has a number needs the only
detour, a maximum of a bounded set of naturals, taken from the well-foundedness of `<`.

**`Scoring_proofs`** (any payloads of the ten analyzers, any outcomes, any number of updates; `NoneAssumption`: a
missing field is no number; `ScoringAssumption`: a payload has the fields of its kind, each a number or missing, and one
of `vix` is what its fetcher builds from two prices). Each analyzer's raw score is a number whatever is missing
(`GexRawType` and nine more), so its verdict is in range and its level agrees (`NearestAgrees`: rounding moves a score
by half a unit, hence onto a threshold but past none). `ResonanceGrows` says that the score grows with each dimension
for *any* weights that are not negative. The weights are arithmetic of floored quotients (`Quotient`,
`QuotientsOrdered`): four shares rounded to the nearest miss the whole by two at most (`SharesAddUp`), far less than the
check of their sum allows, and clamping, normalising and rounding keep the order of the means (`BoundedOrdered`). No
theorem bounds the weights (`MCScoringBounds.cfg`). The invariant is `IInv == TypeOK /\ LevelsAgree /\ Posteriors /\
Reported`: posteriors are numbers at or above their priors, so no mean is a division by zero, and what a caller holds is
the verdict on one of the payloads. `MoreNeverLowers`, `WeightsAreSound` and `CalmScoresLow` (for any two prices) are
consequences of it.

**Only model-checked**: everything temporal under fairness and everything about `ENABLED` (not expressible for the
prover).

## 5. Where the code and its documents disagree

TLC refutes what the last column quotes, with a trace through the actions of the model. The first three are runs of
`PROJECT.json`; the others are configurations beside them, which violate the one property they name:
`tlc -config <cfg> <module>`, with `MCCollectCycle`, `MCSignalLearning`, `MCScoring` or `MCBacktest`.

| run or configuration | what the code does | what it says |
|---|---|---|
| `pool_atomicity` | `get_db()` rolls back on `Exception` only (`database.py:128`). A block cancelled between two statements gives its connection back with the transaction open, and the next borrower's commit makes half of it durable. | `data_writer.py:622` "full atomicity across multi-source writes" |
| `lifecycle_restart` | `_running` is one flag for all loops and each clears it in its `finally` (`pipeline.py:136`). A start request served while `stop()` still waits for the loop it has cancelled makes a new loop, whose flag the old one then clears: it ends after a cycle, though nobody stopped it. | `pipeline.py:89` "Runs indefinitely until stop() is called" |
| `backup_torn` | Neither backup job asks `is_writing` (`scheduler.py:95`). The incremental backup copies the log, then the file (`db_maintenance.py:331`); a commit in its thread may start the log over and checkpoint in between, and the old log then covers newer pages: restored, strikes have no snapshot. | `pipeline.py:567` "(VACUUM, archive, backup) can observe ``is_writing`` and skip their run instead of racing the pipeline" |
| `MCCycleMarks.cfg` | `vix_term_structure` and the two sector tables have no `is_mock` column (`database.py:247,384`), and `_write_sector_rotation` drops the marks it is given (`data_writer.py:307`): generated rows are stored like real ones. | `data_writer.py:48` "extract mock markers from _meta so they persist to DB", `vix_term_fetcher.py:67` |
| `MCCycleHistory.cfg` | A generated open interest enters `crypto_oi_history`, which has no mark (`data_writer.py:417`); the next real snapshot's `oi_change_1h` is computed from it and stored as real. | `data_writer.py:369` "from real prior snapshots", `database.py:365` |
| `MCLearningOrder.cfg` | `persist_posteriors()` serialises before it awaits its connection (`scoring.py:113`). The cycle's write, serialised first, may end after the daily job's and put the older state over it; the next start has lost the job's update. | `scoring.py:106` "Call after any successful weight update so learning survives restarts." |
| `MCLearningProfit.cfg` | A score is high when it is above the median of its batch (`bayesian_weights.py:350`). A batch of one, all the pipeline ever feeds, is its own median: a profit after a high score counts as the dimension's failure, and a loss as its success. | `bayesian_weights.py:153` "its score was high AND the market moved favorably" |
| `MCScoringBounds.cfg` | The bounds are applied to each posterior mean, and the normalisation after them (`bayesian_weights.py:385`) moves the weights out again: up to 80% for one dimension, under 5% for another. One batch of twenty outcomes suffices. | `bayesian_weights.py:38` "At least 5% of total", `:39` "At most 60% of total" |
| `MCBacktestDays.cfg` | `run_walk_forward()` uses window and step as numbers of signals (`walk_forward.py:65`), however far these lie apart. | `engine.py:41` "Walk-forward train window (days)", `:42` |

Shown by the models, though no run is spent on them:

- Removing a client's last topic leaves an empty filter (`websocket.py:128`), which means all topics; the endpoint has just
  answered "Unsubscribed from {topic}".
- After `stop()` and `start()` the old socket's `onclose` schedules a reconnect beside the new socket
  (`WebSocketProvider.tsx:119`), against the single connection its header promises. `MountedOnceSingle` says when it cannot.
- Tier 3 reaches the report and the bus, but the cycle took what it stores before (`concurrent_executor.py:240`);
  `concurrent_executor.py:69` says "results are written asynchronously".
- The level is taken before rounding, the alert level after it: a total of 49.996875 is published as 50.0, `LEVEL_1`, in
  an alert of `LEVEL_2` (`LiftedByRounding`).
- Every weight the sensitivity analysis tries returns the same, since `_generate_trades` reads no weight; the optimum is
  the first value tried, 50% of the base (`sensitivity.py:107`). The analysis is there to show how metrics change with each
  weight (`sensitivity.py:4`), so `BooksBalance` does not ask for this.

Noticed while modelling, visible in the source, and not checked by a run:

- `copy2()` keeps the source's mtime, so the cleanup removes a just-made incremental half whose source was not written for
  30 days, and the job reports success (`db_maintenance.py:363`). The archive's cutoff is written with a space where the
  timestamps have a `T`. `scripts/db_backup.sh` attaches a compressed backup, and ends when there is none yet (line 126).
- The GEX dimension describes the last symbol that could be fetched, not the first or latest snapshot as its comments say,
  so it changes index silently when a fetch fails. `_find_zero_gamma_level` documents a crossing of the cumulated exposure
  (`gexmetrix_fetcher.py:390`) and takes the option of least exposure near spot. Its flip zone is never supplied.
- A VIX that fades in contango cannot come from the fetcher (`vix_analyzer.py:62`), nor a change of open interest reach
  the crypto analyzer (`crypto_fetcher.py:127`), whose sentiment may be "fear" in a rally.
- `_basic_score`, the fallback of scoring, reads keys that no analyzer returns, so it is always 0.
- Alerts are stored with a zone and `gex_history` without (`data_writer.py:677`), so every alert the pipeline writes is
  skipped by the replay (`engine.py:295,313` swallow the error): a backtest of the shipped data is empty. The "prices" are
  gamma exposures. An `end_date` excludes that day. `annualized_return_pct` of a single trade that lost more than twice the
  capital is a gain, and for most numbers of trades it is NaN then (`metrics.py:59`). No property covers that:
  `BooksBalance` compares the annualised return
  with the books only where equity is not negative. `max_drawdown_duration_days` counts points of the curve, one for each
  trade, where `metrics.py:129` says "in days".

- The jobs look at `is_writing` once (`scheduler.py:74`) and the pipeline never looks for jobs, so persisting may begin
  in the middle of one; `pipeline.py:568` says they skip "instead of racing the pipeline".
- `close_db()` iterates over a list that borrowers change (`database.py:745`): connections can be skipped.
- After two overlapping starts `stop()` cancels the later loop only (`pipeline.py:149`); the earlier one ends by `_running`.
- The report of a manual collection is kept by one caller of `run_cycle()` and not by the other (`routes/system.py:197,226`).
- The bus finds its error counter through a context variable that requests have not set (`event_bus.py:304`); `drain()`
  does not wait for what is published while it waits (`event_bus.py:353`).
- `ccdata`, `market_sentiment` and `llm_inference` return generated values without the marker
  (`ccdata_fetcher.py:65`, `sentiment_fetcher.py:61`, `llm_fetcher.py:66`; `ccdata_fetcher.py:9` says "returns mock data with
  is_mock=True"). `MarksAreHonest` excludes the three by name (`SilentFallbacks`).
- `_execute_single` says it "Falls back to mock data on timeout" (`concurrent_executor.py:266`) and returns an empty failure.
  Its limit is shorter than one attempt's network timeout, so an upstream that hangs is neither retried nor mocked.
- An outage of everything GEXMetrix asks gives an empty success that is stored as a real row of NULLs
  (`data_writer.py:122`); CBOE without figures stores NULLs too.
- `vix_term_structure` and `dark_pool_metrics` keep one row per day: a generated row replaces the day's real one.
- The sector cache keeps a download that yielded nothing for its whole TTL (`sector_fetcher.py:130`).
- `vix_term`, `yfinance` and `options_greeks` call blocking libraries on the event loop.
- When a source's writer fails half-way its rows so far are committed though its count says 0 (`data_writer.py:46-66`).
- `_tier3_task` is overwritten by the next cycle, so `await_tier3()` waits for the latest only.
- `mock_sources` may name a dimension whose failed fallback was not scored (harmless: it over-reports).
- `_update_bayesian_weights` feeds the same latest outcome on every cycle (`pipeline.py:477`), and the daily job counts its
  whole window anew; `reset_weights()` leaves `system_config` as it was, so a restart undoes the reset.

## 6. Not modelled

- Tokens: the checks are libraries', and a module here only needs the outcome. The caches and the verification of
  `llm_inference/` and `llm_cache.py`: nothing calls them at run time.
- `emit()`, `unsubscribe()` and the statistics of the bus: not called, or not read, at run time.
- The fields of rows and the overwriting of daily keys in `data_writer.py`. Which tables a source reaches, and with which
  mark, is modelled.
- How long polling goes on beside an orphaned loop: `PollingContinues` speaks of a loop that polls alone, and
  `lifecycle_restart` shows why it cannot say more.
- The likelihood fit of the Hawkes model and the square-root ratios of a backtest: real arithmetic is out of TLC's reach.
  The analyzers and the weights are modelled in fixed point instead.
- Read routes, models, settings, logging, frontend views, scripts, deployment: no protocol of their own.
- The notifier: nothing constructs it.
- The rate limiter's counting, SQLite's engine, asyncio, the browser: modelled only as far as the code uses them.

## 7. Plan

Done, in this order: pool and lease; lifecycle over the same lease; push; client; fetchers and cycle; learning;
maintenance; analyzers and scoring; backtest. Proofs for all, with the limits of section 4.

Left, modules: a composition of `PipelineLifecycle` with the pool's leases (cancelling a loop inside `_persist()` reaches
`CancelBlock`), and one with `Maintenance`; the fields of rows with their daily keys.

Runs are kept few: one for each component, and three for divergences that need an interleaving. New ones replace the
shallowest of those above.
