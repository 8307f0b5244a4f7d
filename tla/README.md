# Formal models of Compra

Compra finds price differences between marketplaces. Scrapers publish raw listings
to a Redis stream, a processor turns them into products and listings in PostgreSQL,
engines score the opportunities and the execution side buys and manages the capital.
These modules model the parts in which concurrency, failure and restarts decide
whether the system is correct: TLC checks them on small instances, TLAPS proves the
central invariants for every value of the constants.

## The system

```
 web sites -> scraper / scraper_v2 --XADD raw_listings_queue--> processor --> PostgreSQL
                                                                                |
     execution_orders <- execution engine <- (bridge) <- engines, api  <--------+
     portfolio_*      <- capital_management
```

| Component | State it keeps | Operations | What is hard | Correct when |
|---|---|---|---|---|
| `scraper` (v1) | dedup set and TTL, write-ahead files, sessions, proxies, a Redis task stream | three modes of a cycle, crawls, publish, replay; schedule, work, retry | marked before published, crashes, one lock over a sleep | what is marked is not lost, files leave only when sent, a resting proxy rests |
| `scraper_v2` | priority queue, circuit breakers, semaphores, dedup, publish buffer, token buckets, proxies, browser contexts | cycle, worker loop, fetch, flush, shutdown | interleaving of workers at each await, Redis failures, shutdown anywhere | no slot, task or accepted listing is lost, circuits recover, cycles end, rates and rests are kept |
| `infra/pipeline.py` | a batch, retry counts, a dead letter stream | read, process, reclaim, retry, bury | one message goes two ways, crashes | no message goes neither way, rounds are bounded |
| `processor` (`consumer.py`) | stream, group's pending list, `dead_letter_queue`, products, listings, price history, match cache | read, redeliver, check, resolve, validate, save, acknowledge | crashes between steps, redelivery, bounded windows, trimmed streams | at least once, bounded retries, dead letters stay dead |
| `processor` (`pipeline.py`, write buffer) | the same, plus a queue, batches, a buffer with futures, medians | four concurrent stages, drain, shutdown | acknowledgement after a failed write, halves of a flush, everyone waiting at shutdown | what is acknowledged is written or counted as failed, the latest wins, shutdown ends |
| `processor` (index, resolver, matcher) | embedding index, match cache, medians | load and swap, append, resolve, validate, flush medians | an index swapped under its users, a stale cache | every listing counted once, dollar checks off only when something is stale, matches agree with both modes |
| `api` (scan) | `opportunities`, `opportunity_history`; row locks and uncommitted expiries | background scan, `POST /scan`: expire, analyse in batches, refresh or insert, lifecycle | a transaction held open over analyses in other sessions, select-then-insert, `SKIP LOCKED` | one active opportunity per direction, expired ones are final, scans end |
| `api` (rules) | cached rates, the validator's memory, adaptive thresholds | costs, filters, scores, validator | prices and thresholds that move between read and write | what is posted was fresh, pays, and is posted once per window |
| `api` (capital manager, configuration) | an in-memory portfolio, cooldowns; versions, freeze, averages, shadow trades | evaluate a batch, record, resume; calibrate, roll back | stops that outlive their reason, history and freeze together | trades are spaced, stops hold, one cycle moves little |
| `engines/orchestrator`, `portfolio_optimizer`, the bridge | streams, consumer groups, pipeline rows, a batch in memory | phases, policy, recommend, select, submit | failed phases, acknowledgement before selection, crashes | nothing twice, nothing blindly, a batch within its limits |
| `engines/trend`, `prediction` | rows | strategies, aggregation, choice of a model | rules that outvote each other | what the orchestrator takes is usable |
| `engines/execution` | `execution_orders`, `execution_log`; the order in each handler's memory | create, approve, reject, execute, cancel | every await is its own transaction, whole rows are overwritten, marketplace answers get lost | a blocked order never reaches the marketplace, "executed" is true, nothing is bought again |
| `capital_management` | `portfolio_state`, `portfolio_positions`; an advisory lock | `execute_with_rollback`, `close_position_safe` | concurrent sessions, failed transactions, lost commit answers | capital is conserved, limits and halts hold when a position is committed |
| `truth_engine` | `trade_outcomes`, thresholds | hooks, sweep, adaptation, gate | sessions that are never committed, locks they leave | thresholds within their bounds, better trades pass first |
| `execution_realism` | none | checks of one purchase | their order | what is approved earns |
| `monetization`, `observability`, `metrics`, `frontend` | logs, counters | fan-out, reports, pages | - | not modelled |

How they interact: scrapers and processor by the `raw_listings_queue` stream only
(`ProcessorConsumer` and `ProcessorPipeline` have the producer's bound on the stream's
length as part of their publishing); orchestrator, optimizer and bridge by two more
streams; execution engine, API and truth engine by PostgreSQL and by calls in the same
process; capital management has its own tables and advisory lock. `PROJECT.json` lists
every component with its files and every hazard with the line where it bites.

## Modules

Beside some definitions stands a variant that a plausible mistake would make of it (a
dropped guard, a slot not given back), under a comment that says which. Nothing in the
specifications uses it: put in the definition's place, it breaks the property that
`PROJECT.json` lists with it.

| Module | Models |
|---|---|
| `Portfolio` | the pure rules of capital management, as operators: tracker, risk manager, sizer, diversification, execution guard |
| `SafeExecutor` | concurrent transactions of `SafeExecutor` on `PortfolioDBStore`; EXTENDS `Portfolio` |
| `CapitalManager` | the API's in-memory manager: gates, ranking, cooldowns, stops, resume |
| `Calibration` | runtime configuration, its history and freeze, shadow tracking and the loop that moves the parameters |
| `ExecutionOrders` | the five handlers of `ExecutionService` on `ExecutionRepository` |
| `Routes`, `Scoring` | pure: fees, freight, duties, profit of a route; scores, risk, confidence, profiles |
| `Evaluation` | `_analyze_product` and the validator, by two analyses while prices, rates and thresholds move; EXTENDS `Routes`, `Scoring`, `TruthEngine` |
| `TruthEngine`, `TradeOutcomes` | precision, adaptation of thresholds, decision gate; the hooks' sessions, the sweep and the adaptation cycle |
| `Realism` | pure: the realism guard and its checks |
| `Forecasts`, `Policies`, `Selection` | pure: trend strategies and baseline forecast, composite policy, the optimizer's greedy selection |
| `DecisionPipeline` | orchestrator, optimizer and bridge with their streams and crashes; EXTENDS the three above |
| `AtLeastOnce` | abstract: a listing stays pending until something definite happened to it |
| `Filtering` | pure: what a condition keeps of a list; used by the scraper's dedup, the pipeline's batches and the stage of `infra` |
| `RawListings` | what a message of the stream can be, and the price check both processors use |
| `ProcessorConsumer` | `consumer.py` with the group, the tables and the restarts; implements `AtLeastOnce` |
| `ProcessorPipeline` | `pipeline.py` and the write buffer: reader, batches, writer, main |
| `ProductIndex`, `Matching` | index, match cache and medians; the matcher chains and the search of the index |
| `ScrapingService` | the scraper_v2 cycle, workers, circuit breaker, bulkhead, dedup, buffer |
| `Fetching` | below it: rate limiter, proxy pool, HTTP and browser fetch, browser pool |
| `LegacyScraper`, `Crawling` | scraper v1: its process with modes, dedup and write-ahead files; its crawlers with sessions and proxies |
| `Queues` | the two small consumers of a stream: the batch stage of `infra` and scraper v1's task stream |
| `Priorities` | both schedulers' shares |
| `OpportunityScan` | `detect_opportunities` and `update_all_lifecycles` of concurrent scans against PostgreSQL |
| `MC...` | instances of these for TLC |
| `...Proofs` | theorems and proofs about them |
| `Folding` | lemmas those proofs share: sums and squares over finite sets, filtered sequences |

Four MC modules put parts side by side that share nothing: `MCCapital`, `MCProcessor`,
`MCScraping` and `MCEngines`. A variable `part`, chosen by `Init`, says which of them a
behaviour is about; the others stand still. An invariant or action property of such a
module is of one part or the conjunction of what several promise: `QueuesSound`, `ScrapersSound`
and `ScrapersGuarded`, `EnginesSound` and `RulesSound`; each conjunct is stated, with a comment, in the
module it is about. `RulesSound` is what has no state: a part of its own, `rules`, in which nothing happens.

### Portfolio and SafeExecutor

Money is counted in whole units, percentages and factors out of `Scale`; the sizer's
products are kept exact over `Unit` until its one rounding, which is Python's (ties to
even). `weight` stands for the product of the opportunity's score fraction and its risk
multiplier, which the sizer multiplies and nothing else looks at. Floats are replaced by
exact numbers.

Sessions are concurrent callers in any number of processes. A call is `Begin`, `Lock`
(`pg_advisory_xact_lock` and `FOR UPDATE`), `Execute` or `Close` (load, decide, change
the copy: no other session can see or change the tables meanwhile), and one of `Commit`,
`CommitUnacknowledged`, `Rollback`. `Rollback` stands for every exception and for a
crash before the commit; the lock belongs to the transaction, so it is released in every
case. `SavedRows` is `_save_state` with the partial unique index: a second open position
of an opportunity inserts nothing.

### CapitalManager and Calibration

`EvaluateBatch` is one call: it ranks the batch by what each candidate earns for its
risk, gives one after the other to the gates, opens and sets cooldowns as it goes.
`Record` is a win or a loss, `Elapse` the clock. In `Calibration` a version is a record of
parameters in units of its smallest step; `Calibrate` is the whole cycle, from the drift
of what was revalidated, through the guardrail that freezes or unfreezes, to the smoothed
and bounded step. Shadow mode changes everything but the configuration.

### ExecutionOrders

A handler is the sequence of its awaits, each its own transaction. `ReadTotals` and
`ReadActive` are the SELECTs of `get_portfolio_summary`, `Insert` the INSERT; the other
handlers `Load...` the order, `Write` the whole row, `Log` the audit event, `Command`
the marketplace. `Command` has four outcomes (`Answers`): accepted; refused; accepted and
reported as failed because the answer was lost; and, where the marketplace has no client
(`Simulated`: all but Mercado Libre, and that too without ML_APP_ID), success with an id
made up on the spot and nothing placed (commands.py:73, 172). `Abort` is an exception or a crash at an await.
`placed` is what the marketplace knows and the database does not.

### Evaluation, Routes, Scoring

Money is in cents, shares in percent or thousandths, and each rounding is the code's.
A good is a listing with what the code takes from it: price, marketplace, seller, words of
its title by what they say. An analysis is three steps, because it awaits twice: `Begin`
(thresholds and rates), `Read` (the listings), `Decide` (groups, outliers, competition, best route,
filters, penalties, validator), and then `WriteOpportunity`. Between them a listing is
scraped again, the thresholds adapt, rates are fetched, time passes, the process restarts
and forgets what it has posted. `GetRates` replaces the whole table by what the answer had:
a currency it lacks is gone, and converted by the fallback table until an answer has it again,
which is then compared with nothing (`unchecked` remembers that this has happened); `Validated` and
`Expired` are the check and the lifetime. Vectors and text are left out: `titles_match` and
`variants_compatible` compare what a title says.

### DecisionPipeline

Each stage is its loop. The orchestrator takes messages, runs the pipelines of a batch side
by side, each phase with its attempts (`Attempt`), concludes by `CompositeDecision`, saves,
recommends. The optimizer acknowledges what it collects and only then selects
(`FlushBatch`). The bridge filters, decides the mode and submits through the guards.
`Crash` ends any of the three; what it held in memory is gone, what it left pending is
never read again. An event carries what the code publishes: the optimizer's has no
`net_profit`, so `EstimatedProfit` is zero.

### TradeOutcomes

A hook opens a session, flushes and returns. Nobody commits the session; until it is
collected its row is locked (`RowLocked`), and `SessionDropped` is the rollback. The
adaptation cycle has a session it does commit: `StartAdaptation`, `SweepOne` per stale
row, `AdaptFilters` (in memory), `CommitSweep`; it may fail anywhere.

### ProcessorConsumer

`Start`, `DeadLetter`, `ReadPending` are the startup of `main`; `ReadNew` its loop;
`Check`, `Resolve`, `Validate`, `Save`, `Ack` one message through `process_message`.
`Fail` is any exception main logs, `SaveUnanswered` a commit whose answer is lost,
`Halt` a crash or an orderly end, after which only Redis and the tables are left. Titles
are products (consumer.py never loads the product index, so a product is found by its
normalised title only); a price is its value in dollars. The placeholder with the id -1 that a
failed creation leaves (resolver.py:372) is not a state of its own: with a new url the INSERT then
fails on the foreign key (`Fail`), a known one is updated as by any other save. `AtLeastOnce` has the same
system with three sets; the refinement maps the unread part of the stream, the pending
list, and the listings that were saved, skipped or dead-lettered.

### ProcessorPipeline, ProductIndex, Matching

`Reader`, `Batcher`, `Writer` and `Main` are the coroutines; an action is what runs between
two awaits that can suspend. A flush is two transactions on two connections: `Upserted` and
`Copies` become durable in either order, `HalfFails` makes the gather raise while the other
half goes on (`LateDone`). `AckBatch` acknowledges the whole batch. `Die` is a crash: the
stream, its pending list and the tables are left. In `ProductIndex`, `LoadReads` and
`LoadSwaps` are the two ends of a load, between which products are created and appended to
the index that goes; `TakeMedians`, `WriteMedians` and `MediansFail` are the deferred
medians. In `Matching`, `AskHybrid` puts one question with one small list of candidates, of every
kind the thresholds tell apart, and `Consider` is the loop over them, best first kept;
`SearchIndex` is one look into a shelf of the index.

### ScrapingService

One event loop: an action is what runs between two awaits that can suspend. From the
dequeue to the bulkhead's first semaphore nothing suspends (the container's Python 3.12
`wait_for` completes at once on a free semaphore), so `Admit` and `Deny` are single
steps. Then `AcquireMarket` or `Refused`, `Fetched` or `FetchFails`, `Check` and
`Register` (the two halves of `filter_new`), `Published` or `PublishFails`. Three kinds
of actors publish: a worker, the end of a cycle, a shutdown.

### Fetching

`AskLimiter` takes a token or waits; `ReportBlock` and `ReportGood` move the rate by what
the window holds. `AcquireProxy` and `ReleaseProxy` are the pool, with `RecordProxyFailure`
and `RecordProxySuccess` of `ProxyHealth`. A browser fetch goes through `EnterPool` (the
lock), `Launch`, `Inspect` and `CloseStale` for each old context, `Cleaned`,
`ReuseOrCreate`, `CreateContext`, and ends with `PageRead` or `PageRaises`; `ClosePool` takes
no lock. `Closes` may raise, and so may the script a new context is given: the context then stays
open in no list (`lost`). What the code does not release it does not release here: a request that raises
keeps its proxy, and reports nothing.

### LegacyScraper, Crawling, Queues, Priorities

`LegacyScraper` is the process of `main.py`: `ReplayFile` and `RemoveFile` at its start, then
cycles in the category mode, the search mode or the orchestrated one, in which jobs crawl
(`Crawl`), filter (`AskRedis`, between the look at the local set and the mark), and publish
in chunks with retries (`PublishChunk`, `GiveUp` writes what is left to a file). `Crash` and
`Signal` come anywhere. `Crawling` is one session after another with the shared proxy pool:
a client from the pool (`Earliest` sleeps with the lock), requests that are blocked, fail or
answer, a chain of API, HTML and browser, pages that link to each other. A listing has a url and
perhaps a product's id; which of them a crawl compares (`KeyOf`, `SeenBy`) is the url off AliExpress,
the id or the url there, depending on whether the page was read as JSON or as HTML, and
nothing in the trending sections (`LoadSection`, and a crawl of kind `trending`), which take what
they parse. `OpenPage` may fail with the context open, `CloseContext` may fail. In
`Queues` an action is one call to Redis of the stage (`StageNext`) or of a scheduler or
worker (`TaskNext`); a call that fails may have been executed, also the XADD of `AddTask`, whose
key is then not remembered. In `Priorities` it is one method.

Left out are a line of a WAL file that is no JSON (main.py:129 skips it) and an `os.remove` that
fails, which leaves the file as a crash before it does; and in `SearchTasks` the sites without a
search page (request_scheduler.py:136), of which the factory builds none.

### OpportunityScan

A scan is a caller (the background loop of one API process, or a request) whose one
transaction runs the expiring UPDATE (`StartScan`, `MarkExpired` row by row), finds the
candidates, awaits the batches and commits (`EndDetection`); a request goes on with
`SelectActive`, `FlushSnapshots`, `UpdateLifecycle`, `Commit`. An analysis is a session
of its own: `Analyse`, `SelectForUpdate`, then `Update` or `Insert`. `opps` is what is
committed; `marked`, `touched` and `snapped` are the caller's uncommitted changes, and
with the analyses' `FOR UPDATE` they are the row locks. An UPDATE waits for the other
holders, `SKIP LOCKED` does not wait, an INSERT waits for whoever is changing the row it
collides with. A row changed while the expiring UPDATE waited for it is looked at again:
whether its new listings are, depends on PostgreSQL's plan, so both are possible. The
orders in which two statements come to their rows differ, and `Deadlock` is PostgreSQL
aborting one of them. The waits of the program itself (`Gathered`) are none that
PostgreSQL could see.

## Runs

| Run | Instance | Checks |
|---|---|---|
| `capital_allocation` | `MCCapital`: 2 sessions, 2 opportunities of one marketplace, 3 calls; a manager with 3 batches of 2 candidates; 2 shadow trades, 3 versions | `CapitalCovered`, `OpenRowsFunded`, `TradesAreClosedRows`, `InsertionsKeepShares`, `NoAllocationWhenHalted`, `CallsReturn`, `TradesSpaced`, `StoppedStaysStopped` (the manager), `HistorySound`, `LoopGuarded` (the calibration) |
| `capital_leak` (violation) | the sessions alone | `AllocatedIsOpenRows` |
| `execution_orders` | `MCEngines`: 2 handlers, up to 4 orders and 4 calls; 2 analyses of 5 listings; 2 opportunities through the pipeline; 2 trades and 3 hooks; the pure rules on grids | `BlockedStaysBlocked`, `ExposureBounded`, `DuplicatesBounded`, `ExecutedWasPlaced`, `ResolvedNotBoughtAgain`, `EnginesSound`, `RulesSound` |
| `duplicate_orders` (violation) | the handlers alone | `NoDuplicateOrders` |
| `daily_limit` (violation) | the handlers alone | `DailyLimitKept` |
| `listing_consumer` | 3 messages, window and batch of 2, 1 retry, 1 failed startup step | `TypeOK`, `RetriesBounded`, `DeliversAtLeastOnce`, `DeadStaysDead`, `OlderOnlyWhenRedelivered`, `RetriesSettle` |
| `reprocessed_listing` (violation) | 2 messages | `PricesDoNotGoBack` |
| `listing_pipeline` | `MCProcessor`: 2 messages of one url through queue and batches of 1 and 2, 1 fault; an index with 3 writes; every list of 1 or 2 candidates | `AckedIsKept`, `LatestWins`, `ShutdownEnds`, `CountedOnce`, `OffOnlyWhenStale`, `MatchSound` |
| `scraping_cycle` | `MCScraping`: 3 workers, 4 pages, 1 marketplace, 1 failed Redis call, 1 cycle; each other scraper with 2 jobs, crawlers, messages, workers or fetches | `CircuitNotStuck`, `SlotsConserved`, `ListingsKept`, `CycleDrains`, `CycleEnds`, `QueuesSound`, `ScrapersSound`, `ScrapersGuarded` |
| `scraped_twice` (violation) | 2 workers of `ScrapingService` | `OnlyNewListings` |
| `opportunity_scan` | background scan and one request, 1 product with 3 listings in 2 directions, 2 rows | `OneActivePerDirection`, `ExpiredIsFinal`, `HangsOnlyOnExpiry` |
| `scan_hangs` (violation) | the background scan alone | `ScansAgain` |

What the composed properties say:

- `CycleDrains`: `QueueDrained` (no task is left when the workers have ended) and
  `BufferDrained` (no listing is, once the cycle has flushed the buffer and nothing failed).
- `QueuesSound`: `NothingDisappears`, `RoundsBounded` (the stage of `infra`), `TaskAccounted`,
  `DuplicatesPerCycle` (the task queue).
- `ScrapersSound`: `MarkedIsKept`, `PublishedOnce` (scraper v1's dedup and files),
  `FoundOnce`, `ChainClosesContexts` (crawls), `NobodyStarves`, `PlanWithinBudget`
  (priorities), `FreeArePaced`, `BlocksOfRequests`, `RestsAfterFailures`,
  `PoolKeepsContexts` (fetching). `ScrapersGuarded`: `WalLeavesSent`, `RestedWhenTaken`.
- `EnginesSound`: `PostedWereFresh`, `PostedOncePerWindow`, `PostedPayAtTheLowest`,
  `PostedAreAboveTheFloor`, `RatesAreBelievable` (the analyses of a scan), `NothingIsDoneTwice`,
  `BlindNeverAdvised`, `BatchesAreWithinLimits`, `NothingIsBought` (the pipeline),
  `NothingIsLearnt` (the outcomes of trades), in every state.
- `RulesSound`, on grids of inputs: costs and scores (`RoutesArePriced`, `RoutesAreFunctional`,
  `ClassRisesWithScore`, `ScoresAreMonotone`); that the forecasts are usable, the policy is monotone
  and never advises blindly, the selection is maximal and within its limits, the gate monotone, the
  guard monotone and what it approves earns.

Bounds. Two sessions are enough for every conflict on one lock, and three calls for an
open, a close and an open that depends on both. In `execution_orders` the limits are
one order apart (exposure 2, single 1, daily 1), so four calls of two handlers create,
approve, execute and overwrite at the limits. In `listing_consumer` the window is smaller
than the number of messages, so it can be full of trimmed entries, and the price history
is short enough (2) for both an anomaly and a normal price; delivery counts are cut off
above `MaxRetries + 2`, where the code no longer tells them apart. In `listing_pipeline`
two messages of one url are the smallest race for its row; a queue of one place makes the
reader wait, a batch of two puts both in one flush, one fault is enough for a half-failed
flush whose other half comes late. Three writes make a product's median, a price off it and
one that meets a stale copy of it. In `scraping_cycle`
three workers compete for two slots, one failure opens the circuit and two successes
close it: the half-open state with a refused worker, the case the counters could lose,
is reached with one marketplace (marketplaces share only the global semaphore, which
`DefaultsAssumption` keeps from being empty). Scraper v1 has two jobs that find
the same two listings, chunks of both and up to four faults, so that a chunk fails through
all its retries and once more at the replay; two crawlers share two proxies that rest after
one failure, over two pages that have items with and without an id, one of them twice; the
fetches share two proxies, one of them in the
region they prefer, one browser and a limiter of one token, and one context may be left behind by a
call that fails (`MaxLost`), after which there is still another to lose or to keep.
The stage has three faults: a retry, the last retry, and a crash; the task queue two
and three calls of `schedule`, so that two callers look at once and one of their tasks is
added again. A budget of twelve tasks cuts each of the three kinds short.
`OnlyNewListings` and the other violations
need two actors. In `opportunity_scan` one scan of each kind meets every lock the other
can hold; two rows, one of each direction, are enough for the two orders of a deadlock and
for a row that is skipped and replaced; two pairs of one direction make a refresh visible.
`Ageing` bounds the listings that grow stale and come back to two of the three (the third
is scraped all the time), `MaxRows` makes further inserts fail. Analyses of different
products never meet in a row, so one product is enough for their conflicts. In `MCEngines`
the five listings are a phone on three marketplaces and, on one, the case for it: the prices
at which routes open, fall to a filter or to the validator are all within two events. The two
opportunities of the pipeline are of one product and together dearer than the capital; one
has the highest risk there is. One of the two trades has a row from before. The pure rules are
checked on grids that have a value on each side of every threshold they compare with.

Deadlock is checked for the consumer, which can always be halted or started, for
the scrapers, whose last states stutter explicitly, and for the scans, around which
listings keep changing. The capital, order and pipeline models stop when their bounds are used up,
so those cfgs say `CHECK_DEADLOCK FALSE`; that the pipeline's shutdown ends is checked as
`ShutdownEnds` instead.

Fairness. `SafeExecutor`: strong fairness of `Lock`, because PostgreSQL queues the
waiters of an advisory lock and every transaction ends; weak fairness of a session's
other steps (a running process). `ProcessorConsumer`: weak fairness of the process and of
its restart (`restart: unless-stopped`); no fairness of success. `RetriesSettle` is
conditional on a process that is restarted and gets through its startup again and again,
and that is not clogged by trimmed entries, because consumer.py retries only at startup.
`ProcessorPipeline`: weak fairness of each of the four coroutines, none of a successful
outcome, none of a signal or a crash.
`ScrapingService`: weak fairness of each coroutine (every fetch and Redis call has a
timeout), none of a successful outcome. `OpportunityScan`: strong fairness of a caller and of an analysis
(PostgreSQL serves the waiters of a lock in turn), weak fairness of its deadlock
detection, of the background loop's next scan; no fairness of success or failure.
The other models have no liveness property: nothing in the code retries or resumes an
order, and what the engines leave pending nothing reads again.

## What the code does otherwise

- `capital_leak`: a second position for an opportunity with an open row takes capital
  whose row is dropped by `ON CONFLICT DO NOTHING`; nothing returns it.
- `duplicate_orders`: `DuplicateGuard` judges a summary read in another transaction.
- `daily_limit`: the daily limit counts executed orders when orders are created;
  executing one looks at no guard.
- `reprocessed_listing`: a message redelivered after a restart puts its old price over a
  newer one.
- `scraped_twice`: two workers pass the same listing through `filter_new`.
- `scan_hangs`: a scan waits for its own analysis, which waits for the scan's uncommitted
  expiry; neither ends and the background loop never scans again.

Checked as what the code does, where a document or a name promises something else:

- `NothingIsBought`: the optimizer publishes `expected_profit`, the bridge reads
  `net_profit`, so that every order of the pipeline is created with a profit of zero and
  cancelled by `MinROIGuard` and `MinProfitGuard`. The signal strength is not published
  either, so nothing is ever executed automatically.
- `NothingIsLearnt`: the sessions of the truth engine's hooks are never committed
  (integration.py:234). The thresholds do not adapt to trades, although
  `engines/execution/api/routes.py:155` speaks of closing the feedback loop.
- `ShutdownEnds` names the two ways in which a shutdown of `pipeline.py` hangs: the writer
  leaves while the batch stage still has rows to come, or the reader waits for a place in the queue
  that nobody empties any more.
- `AckedIsKept` allows for a write that failed: pipeline.py:460 acknowledges it with the rest.
- `LoopGuarded` allows a rollback to lift a freeze (runtime_config.py:193), and
  `StoppedStaysStopped` shows that a "daily" loss halts for good once nothing is open.
- `ExecutedWasPlaced` allows for orders that were simulated: without a client the row and its
  audit event say "executed" of an order that nobody has placed, and only the log says
  SIMULATION.
- `RatesAreBelievable` is said of a currency only as long as every answer of this life had it:
  one answer without it drops it from the table (currency.py:44, 76), and the next one with it may
  have any rate, although currency.py:42 says that a corrupt rate is replaced by "the best available
  reference (cached first, then fallback)": the fallback is one only for an empty table.
- `DuplicatesPerCycle` does not count the tasks whose XADD was executed and not answered
  (task_queue.py:126): the same caller adds them again.
- `FoundOnce` is about keys, not products: on AliExpress a product without an id is taken as often as it
  is seen, and one that was read as JSON on one page and as HTML on another comes twice
  (aliexpress_category_crawler.py:210, 513); the trending sections compare nothing
  (trending_scraper.py:272, 409, 457).
- `ChainClosesContexts` is said of the AliExpress crawls only, which leave a context behind only where
  opening or closing it failed (`leaked`); those of Mercado Libre and of
  the trending pages close the page and leave its context open.
- `PoolKeepsContexts` allows for the contexts that a failed close (browser_pool.py:93) or a
  failed creation (browser_pool.py:128) leaves behind.
- `FreeArePaced` is said of the requests that did not wait: those that do wake together.

Read in the code while modelling and not part of a model: a purchase on Mercado Libre looks
for `listing_url` in the risk assessment, which never has one (commands.py:94), so each fails
as "Cannot extract ML item ID"; its price guard compares the item's local price with the
order's dollars (mercadolibre_client.py:178); the daily reset's date is handed to a DATE column as text
(db_store.py:166, migrations/023:21), which asyncpg refuses: the models let every such
UPDATE succeed or fail; the deduplication set of scraper v1 is given a
new lifetime with each batch and so never expires (scraper/dedup.py:17 says otherwise).

## Proofs

All theorems hold for any values of the constants that meet the named assumptions of
the module: limits are natural numbers, `None` is not a value, and

- for the scraper the configured sizes fit each other as the defaults do
  (`DefaultsAssumption`; settings by environment variables can break it), there is a worker,
  and a page has fewer listings than `publish_batch_size` (`PagesAssumption`:
  docs/ARCHITECTURE_V2.md counts some 50 of a page, the batch is 100);
- in scraper v1 the set of hashes outlives a cycle (`DedupTtl`; a day), in scraper_v2 the default
  rate lies between the lowest and the highest, a page of a category is planned at least, and
  the list of sites names none twice;
- handlers, workers, callers and fetchers are finite sets, as those of a process are, and so are the
  listings of a product, which is what sums, counts and ranks over them need; a listing is on a
  marketplace of the tables and has a positive price; brands, models and similarities of what is matched
  are in their ranges, and an order that is simulated is one of the orders.

`Folding` has the laws of the two computations the models repeat: a sum over a finite set
(`SumFunctionOnSet` of the community modules) changes by what one element changes by
(`SumChange`), by what is added (`SumAdd`, `SumUnion`) and grows with its parts (`SumPart`,
`SumBound`, `SumAtLeast`), is linear (`SumLinear`) and its square no more than the squares' (`SquareOfSum`); what a condition keeps of a list is a list of the same elements, without
repetitions if it had none (`WithoutRange`, `WithoutInjective`). Both are defined by
recursion over subsets or beginnings of the argument, and their laws are proved by a
smallest counterexample instead of by induction, which the provers cannot instantiate.

- `CapitalProofs`, the transactions: `TypeCorrect`, `CapitalSafe` (`CapitalCovered`), `LockOwned`,
  `HaltHolds` (`NoAllocationWhenHalted`), `RowsFunded` (`OpenRowsFunded`), `TradesCounted`
  (`TradesAreClosedRows`), `SharesKept` (`InsertionsKeepShares`). The properties are not
  inductive: a commit writes a copy decided one or more steps earlier. The invariant `IInv`
  therefore says of every decided copy that it conserves capital and allocates more than the
  database only if the database is not halted (`Sound`), and that whoever is past its lock
  holds it, so that no other session commits between a decision and its commit. `RowsInv`
  adds what the rows and the portfolio owe each other (`Fits`): the open rows are covered,
  an opportunity has one at most, trades are the closed ones; and the same of the rows as a
  decided session will leave them (`Prepared`), with the room its guard has seen (`RoomFor`).
- `CapitalProofs`, the batch manager: `TradesAreSpaced` (`TradesSpaced`), `StopsStay`
  (`StoppedStaysStopped`). `ManagerInv` (`Spaced`) says of every trade so far that what it
  keeps busy still has its cooldown, or a later one: a candidate that passes the gate then
  comes late enough after each of them. It is an invariant of one candidate
  (`EvaluateKeepsSpaced`); that a batch of any length keeps it (`EvaluatedKeepsSpaced`) and
  that the recursion over a batch is a function at all (`RunExists`) follow from a smallest
  counterexample. `StopsStay` needs no invariant: what stops the manager is a function of
  the portfolio, which only a trade or the end of one changes.
- `CapitalProofs`, the calibration: `HistoryIsSound` (`HistorySound`), `LoopIsGuarded`
  (`LoopGuarded`). `CalInv` counts the versions of the snapshots from the last one back and
  keeps their values within the hard bounds (`Versioned`), so that the clamp of a
  calibration can only shorten its step; and it says that deque and index name entries there
  are (`Indexed`), so that the mean of what was predicted is at least one (`SumAtLeast`) and
  no statistic divides by nothing (`Statistics`).
- `EnginesProofs`, the orders: `TypeCorrect`, `RiskGate` (`BlockedStaysBlocked`),
  `ExecutedIsTrue` (`ExecutedWasPlaced`), `NotBoughtAgain` (`ResolvedNotBoughtAgain`),
  `ExposureIsBounded` (`ExposureBounded`), `DuplicatesAreBounded` (`DuplicatesBounded`). The
  invariant speaks of the copies in the handlers' memory as well as of the rows: a copy that
  will be written as executed was placed, and every copy of a blocked order is blocked. For
  the limits, `ExposureInv` and `DuplicatesInv` count with the open orders the cancelled
  ones that a handler is about to open again (`LiveOrders`) and the creates that the limits
  have let through on totals read before (`Creators`): a handler holds one of either at a
  time, and the create that is admitted last has seen all that is not with another handler.
- `EnginesProofs`, what decides: `EnginesAreSound` (`EnginesSound`), of which `PipelineIsSound` and
  `AnalysesAreSound` state the two larger parts; all are about `EnginesSpec`, whose steps are steps of one part
  while the others rest. `PipelineInv` follows an opportunity from run to ticket. Of the
  orchestrator it says that a recommendation, made or about to be, has a row of its own that
  says "execute" (`Acted`), and that what a run has concluded is what the policy makes of the signals it holds
  (`Concluded`), which is why none can be blind. Of the optimizer, that what it has read is
  read, kept, approved or chosen in one place only (`Relayed`), and that what the current batch has
  chosen is within the capital and the limits together with what it has approved and not yet
  published (`Rationed`); that a selection is within them follows from a walk along the
  ranked candidates (`OptimizeBalances`, `StepsExist`). Of the bridge, that tickets and what it has in
  hand are no more than what it took (`Ticketed`). A crash loses what is in hand and nothing of these
  says otherwise. `OutcomesInv`: only the rows that were committed before are ever seen by a cycle. `EvaluationInv`
  ties each decision, written or pending, to the memory of the process: while it is
  within the window and the process lives, its key is remembered with a time no earlier than its own (`Recorded`), so
  that another decision for the key is further away than the window (`Apart`). What an analysis holds of a
  route is `Sane`: of fewer than eight listings the quarter price of the check is the lowest of all
  (`LowestPays`; that sorted prices are prices is the existence of order statistics, `RanksExist`). For
  the rates, `RatesInBounds` carries the powers of 2 and 3 that one fetch after the other can make.
- `EnginesProofs`, the rules: `RulesAreSound` (`RulesSound`). The runs check the rules on grids of inputs;
  the theorems are about every input of the ranges the code takes, and the grids follow. The realism guard falls
  when costs, slippage or competition rise (`GuardFalls`), what it approves still earns
  (`ApprovedStillEarns`), and where few compete the product of the doubts refuses nothing that each check
  has let pass (`DoubtForgiven`). The gate of the truth
  engine rises with what speaks for a candidate (`GateRises`) and passes nothing that earns less than twice
  the value it asks for (`GateWantsTwice`). The policy rises with its signals (`DecisionRises`), does not execute
  blindly (`BlindIsNotEnough`), and against a vote to skip executes only the best of profits and
  risks (`SkipIsOutvoted`). A selection is within its
  limits and nothing that was left out still fits (`SelectionHolds`). Scores and classes rise
  (`ScoresRise`, `ClassRises`): a weighted sum of seven factors, each monotone, under an
  adjustment that is. A trend is a breakout, or outvoted, as its two halves say (`BreakoutNeedsBoth`,
  `FallingIsSlow`), and a forecast is a price (`ForecastIsPrice`) that continues a straight line
  exactly (`ForecastFollowsLine`); that the regression never divides by nothing is `SquareOfUnequal` of
  `Folding`: numbers that are not all equal have squares above the square of their mean.
- `ProcessorConsumerProofs`: `TypeCorrect` (`TypeOK`), `ImplementsAtLeastOnce`
  (`DeliversAtLeastOnce`), `RetriesLimited` (`RetriesBounded`), `DeadLettersFinal`
  (`DeadStaysDead`), `RowsGoBackOnlyWhenRedelivered` (`OlderOnlyWhenRedelivered`). For the
  refinement the invariant adds that what is about to be acknowledged was handled. For the retries it adds that the messages whose limit is
  reached are always among the first `Window` pending ones, which is where startup looks
  for them, because the pending list is only shortened, or lengthened at its end. For the
  rows, `FreshInOrder` says that what is handled for the first time is not older than any row.
- `ProcessorProofs`: `ListingsCountedOnce` (`CountedOnce`), `WrittenOffOnlyWhenStale`
  (`OffOnlyWhenStale`), `PipelineInvariance`, `AcknowledgedIsKept` (`AckedIsKept`),
  `LastWriteWins` (`LatestWins`), `MatchesAreSound` (`MatchSound`), and of the whole run's
  specification `ProcessorIsSound` and `ProcessorIsGuarded`. `IndexInv`
  says that whatever knows a product (index, append buffer, a load in progress, match cache,
  the listing being worked on) knows one that has a row, so that no price waits for a row
  that does not exist. `PipeInv` follows a message from the reader to the flush: rows are
  in the write buffer or in a flush only while the batch stage waits for them
  (`OneBatchAtATime`), and what the batch stage will acknowledge is noted as skipped or
  failed, in the buffer, or in the flush, whose two halves are done or to come
  (`BatchCovered`). `OrderInv` is about the order of all that is on its way, from the batch
  over the queue to the reader's hand. The reader reads the pending list again while its
  messages are still in the queue, so that an older message may be written after a newer one;
  but then the newer one comes again behind it (`InOrder`), because what is pending is read
  in stream order and acknowledged only after all that is pending and older was taken
  (`HeldFirst`). A row that an older message overwrites is therefore written again
  (`RowsInOrder`). The hypotheses of `LatestWins` are what this rests on: a flush that fails
  leaves a half behind that commits later, and a message that is given up half-way is not written again.
  `MatchInv` says of the loop over the candidates that the best so far has earned it and none of
  those behind it that has is better.
- `ScrapingServiceProofs`: `Invariance`, `TypeCorrect`, `CircuitNeverStuck`
  (`CircuitNotStuck`), `SlotsKept` (`SlotsConserved`), `NoListingLost` (`ListingsKept`), and
  `NoTaskLeftBehind` and `OneFlushIsEnough`, together `CyclesDrain` (`CycleDrains`). The invariant counts
  the answers a half-open circuit can still get: successes so far, calls left and requests in
  flight are together at least `SuccessThreshold`. A step moves one from one of these to the
  next; a refusal by the bulkhead loses one, but then the requests that hold the
  marketplace's slots are alone enough. `DefaultsAssumption` is what makes both halves true.
  `DrainOK` says that while tasks are queued some worker has not given up. `FlowInv` counts
  the copies of each listing: a step of an actor moves them between its own batch, the buffer and
  the stream (`Balanced`), and while nothing has failed the buffer is shorter than a batch
  (`SmallOK`), so that one flush empties it.
  The rest of scraper_v2 is proved in the same module, each part as a specification of its own
  (`FetchingSpec`, `PrioSpec`). `RequestsAreGuarded` (`FreeArePaced`, `BlocksOfRequests`,
  `RestsAfterFailures`, `PoolKeepsContexts`): `LimiterInv` adds to the pacing what is still in the
  bucket, so that a token that is taken later is already accounted for, at whatever rate it came
  in; `Counted` gives every block above the requests of its window to a request that was under
  way when the window began; `ProxyInv` ties a rest to the last failure of a streak; `PoolInv`
  says that whoever is at the list of contexts holds its lock, and that what it keeps and what
  it still has to close are together all that is open and not lost (`Attached`). `CyclesArePlanned` (`NobodyStarves`,
  `PlanWithinBudget`): a stable sort by counting ranks each category once (`CountsOnce`), and what
  a plan cuts off is a beginning of the product of categories, sites and pages.
- `ScraperProofs`, the queues: `QueuesAreSound` (`QueuesSound`), from `NoMessageDisappears` (`NothingDisappears`), `RoundsAreBounded`
  (`RoundsBounded`), `TasksAreAccountedFor` (`TaskAccounted`), `DuplicatesPerCycleBounded`
  (`DuplicatesPerCycle`). `StageInv` says that no two entries of a message have the same
  number of retries and that an entry which may still be added again is the message's last
  (`Generations`): an entry that is reclaimed by nobody can then not start a second line of
  retries. `TaskInv` counts for every task of a key in a cycle whose answer was heard one caller less
  that can still add one (`CallersCounted`).
- `ScraperProofs`, the process of scraper/main.py: `ListingsAreKept` (`MarkedIsKept`,
  `PublishedOnce`), `FilesLeaveSent` (`WalLeavesSent`). `LegacyInv` says where a listing that is
  marked is (`Held`; a job that is still to ask Redis does not count, since it has marked
  nothing yet), and that a WAL file whose replay has its answer has all its listings on the
  stream. `PublishedOnce` is about a run without failures and needs how a listing comes to be
  known to both sets: `Faultless` says that no listing is in the hands of two jobs and that
  what is on the stream is marked and about to be published by nobody; `Recognized` that
  the Redis set does not expire (`DedupTtl`) while there is something in it to recognize,
  because each cycle that finds anything renews it.
- `ScraperProofs`, the crawlers: `CrawlsAreClean` (`FoundOnce`, `ChainClosesContexts`),
  `ProxiesHaveRested` (`RestedWhenTaken`). `CrawlInv` says that a crawl knows the keys of what it has found, has each
  of them once (`Once`), and that a crawl which asks for a client has a session that is worn out or has been used, so
  that a session without requests was given its proxy in this step.
- `ScraperProofs`, all of what scrapes: `ScrapingIsSound` and `ScrapingIsGuarded` are about
  `ScrapingSpec`, the specification of the run: its steps are steps or stutters of every part
  (`PartsNext`), so that it implements all of them (`Parts`), and every invariant of the run and
  `ScrapersGuarded` hold of it for any sizes.
- `OpportunityScanProofs`: `TypeCorrect`, `Invariance`, `OneActive`
  (`OneActivePerDirection`), `ExpiredStays` (`ExpiredIsFinal`). Neither of the last two is inductive: what an analysis
  writes depends on a lock taken a step before, what a caller commits on marks set many
  steps before. The invariant says that a row held by an analysis is active and marked by
  nobody, that a marked row is active and marked once, and that a caller marks only while
  it has no analyses.

Only model-checked:

- the liveness properties (`CallsReturn`, `RetriesSettle`, `ShutdownEnds`, `CycleEnds`,
  `HangsOnlyOnExpiry`), because liveness under fairness and ENABLED are out of the prover's
  reach.

## Not modelled

- Text normalisation, embeddings, parsers, statistical forecasts: data without control.
- Time: recovery timeouts and delays are choices of when a step happens; clocks that matter
  (cooldowns, rests, windows, lifetimes, the calendar day of a loss) tick in their models.
- `execution_events` messages, which nobody reads, and `backpressure` messages, to which
  nobody subscribes.
- The requests of the Mercado Libre client and its token: a placement has three outcomes, and
  the token decides between them. That a rotated token is only in memory
  (mercadolibre_client.py:123) is a hazard without a property.
- The admin routes of capital management; `read_portfolio`, whose two SELECTs may
  straddle a commit, because no decision is taken from it.
- Code nothing in the repository starts or imports: `processor/worker_pool.py`,
  `processor/circuit_breaker.py`, `api/opportunity_filters.py`, the publisher of `monetization`.
- `discovery.py`, health and metrics, the HTTP layer and the frontend: reads and reports.

## Plan

1. done: capital allocation, execution orders, both processors with index and matcher, both
   scrapers with their queues and pools, opportunity scan, the rules of an opportunity, the
   engines from the orchestrator to the bridge, truth engine, realism guard, capital
   manager, runtime configuration.
2. done: proofs about the capital transactions, the two managers, the orders, both processors, all of
   what scrapes, and the opportunity scan.
3. done: proofs about all of what decides, from the orchestrator to the bridge and in a scan, and
   about the rules it decides by.
4. A refinement of `AtLeastOnce` by `ProcessorPipeline`, with failed writes as one of the definite ends.
5. The token of the Mercado Libre client, should the clients be used.
