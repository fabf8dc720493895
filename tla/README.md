# Concert ticketing: TLA+ models and proofs

This directory specifies the ticket shop of this repository: two
architectures in front of one Redis store that sell unnumbered tickets from a
counter and numbered seats one by one. TLC model-checks the specifications on
small instances; TLAPS proves, for every value of the constants, every safety
invariant and every action property that the passing runs check: that the purchases
on Redis implement atomic sales, that neither architecture tells a client anything
untrue of the sales on record, that seeding next to buyers puts an exact stock on
sale, that both architectures implement one and the same shop as their clients see it,
that the benchmark's counts and verdict mean something, and that the report says what
was measured. Liveness is model-checked.

Paths below are relative to the repository; `ct/` abbreviates
`src/concert_ticketing/`.

## 1. Inventory

| Part | State | Operations | Talks to |
|---|---|---|---|
| Domain, validation (`ct/core/domain`, `ct/core/services`) | none | build results, validate, delegate | repository |
| Purchase repository (`ct/adapters/persistence/redis/repositories.py`) | Redis keys: counter, seats, free-seat set, idempotency keys, client histories; per connection the WATCH state | `buy_unnumbered`, `buy_numbered`, queries, `initialize`, `reset` | Redis |
| Direct API (`ct/adapters/api/rest`, `ct/apps/direct_api`) behind nginx (`deploy/nginx`) | handlers in progress; nginx: where each call is, failures per replica | HTTP purchase and query routes, failover | services |
| Indirect gateway (`ct/apps/indirect_gateway/main.py`) | `_pending_responses`, `_response_events`, `_publisher`, `_ready`, two locks | publish and wait, rebuild the publisher, reply thread | RabbitMQ, Redis (queries) |
| RabbitMQ (`ct/adapters/messaging/rabbitmq`) | work queue, deliveries without acknowledgement, reply queue | publish, deliver, acknowledge, requeue | gateway, workers |
| Worker (`ct/apps/worker/main.py`, `consumer.py`) | connection, message in hand, `_shutdown_requested` | connect, consume, buy, reply, acknowledge | RabbitMQ, services |
| Seeding (`tools/local_dev/seed_state.py`, `scripts/reset_state.sh`, `init_state.sh`) | the Redis keys, the queues | delete and write the stock | Redis, RabbitMQ |
| Process scripts (`scripts/`) | pid files | start, stop, scale workers | processes |
| Benchmark runner (`ct/apps/benchmark_runner`), `verify_correctness.sh` | calls in flight, results, two files | send, classify, summarise, verify | nginx, files |
| Analysis (`ct/apps/analysis`) | the files it reads | percentiles, throughput, comparisons, recommendations | result files |

What is hard here, and what makes each part correct:

* **Repository.** A purchase is several round trips with other threads running
  in between; a lost connection inside WATCH/MULTI/EXEC turns into a
  `WatchError` and a retry even if EXEC took effect. Correct: no ticket sold
  twice or lost, one owner per seat, one sale per `request_id`, four keys that
  agree, a reported `remaining` that is exact, a `while True` that ends.
* **Gateway.** Handler threads and the reply thread share dictionaries, a
  publisher and a flag. Correct: a reply reaches the handler of its request, no
  wake-up is lost, no entry leaks, the channel has one user at a time, every
  HTTP request is answered.
* **Worker and broker.** A worker may lose its connection or its life between
  sale, reply and acknowledgement. Correct: a purchase leaves the broker only
  when processed, redelivery neither sells twice nor lies.
* **Seeding** deletes by SCAN and writes in batches while purchases run. Correct:
  no purchase commits on stock it read before the deletion, the new stock adds
  up, seats and free-seat set agree.
* **Scripts** know workers by pid files and number them by how many run.
  Correct: files and processes agree, scaling reaches its target, a reset stops
  everyone.
* **nginx** sends one POST to a second replica when the first fails or is slow,
  while the first may still be selling. Correct: every call is answered, no
  answer lies about the sales, a refusal is not the answer to a sold request
  unless nginx abandoned a handler.
* **Benchmark runner.** Its own timeout races the system; it counts outcomes from
  which `verify_correctness.sh` judges. Correct: it ends, its summary can be
  reconciled with the sales, its verdict means something.
* **Analysis** merges two files per test that may stem from different runs, and
  recommends an architecture twice. Correct: a row describes one run, comparisons
  hold of what was measured, the recommendations agree, percentiles are such.

`PROJECT.json` lists every hazard at its line with the properties that cover it.

## 2. Modules

| Module | What it is | Code |
|---|---|---|
| `Ticketing` | purchase operations, validation, results; no state; every other module extends it | `ct/core/domain`, `ct/core/services/validation_service.py`, `purchase_service.py` |
| `BoxOffice` | stock, owners and ledger; a purchase as one atomic step | what `repositories.py` promises |
| `TicketSale` | the abstract specification: `BoxOffice` plus the set of answers given | |
| `TicketShop` | the second abstract specification: what clients have asked for and what they were told, around `BoxOffice` | what `routes.py`, and the gateway's `_publish_and_wait`, promise |
| `RedisInventory` | the purchases round trip by round trip, Redis's WATCH bookkeeping, faults | `repositories.py`, `key_schema.py` |
| `RedisInventoryProofs`, `SalesProofs` | theorems about `RedisInventory`: types, lock and stock; seats, histories, retries, refusals and the refinement of `TicketSale` | |
| `SeedingProofs` | theorems about `Seeding`: the lock across deletions, the reset, the seats, the counter | |
| `DirectProofs` | theorems about `Benchmark`: types, truthful replies, refusals; the summary and the verdict; the refinement of `TicketShop` | |
| `IndirectProofs`, `GatewayProofs` | theorems about `IndirectSystem`: types, truthful results, acknowledgements and the refinement of `TicketShop`; the publisher lock, the Events, no lost wake-up | |
| `ScalingProofs`, `AnalysisProofs` | theorems about `WorkerScaling`; about `Analysis` and the percentiles of `Metrics` | |
| `Seeding` | `seed_state.py` next to purchases; extends `RedisInventory` | `reset` and `initialize` in `repositories.py`, `tools/local_dev/seed_state.py` |
| `WorkerScaling` | pid files, scaling, stopping and resetting of workers | `scripts/_common.sh`, `scale_workers_up.sh`, `scale_workers_down.sh`, `reset_state.sh`, `start_all.sh` |
| `Broker` | RabbitMQ as the code uses it (external) | `queue_setup.py`, `publisher.py`, `connection.py` |
| `Worker` | connection loop and `on_message`; extends `Broker` and `BoxOffice` | `ct/apps/worker/main.py`, `consumer.py` |
| `Gateway` | handlers and reply thread; extends `Broker` | `ct/apps/indirect_gateway/main.py` |
| `IndirectSystem` | gateway, broker, workers and box office together, with faults | |
| `DirectSystem` | nginx and the replicas of the REST API; extends `BoxOffice` | `deploy/nginx`, `ct/adapters/api/rest` |
| `Benchmark` | the benchmark runner as the client of `DirectSystem`, and `verify_correctness.sh` | `ct/apps/benchmark_runner`, `scripts/verify_correctness.sh` |
| `Metrics` | summaries, percentiles and metrics as functions of the records; no state | `reporting.py`, `ct/apps/analysis/utils.py`, `analyzer.py` |
| `Analysis` | the files of many runs and what the report says of them; extends `Metrics` | `analyzer.py`, `reporter.py`, `benchmark_runner/main.py`, `scripts/run_full_analysis.sh` |
| `MCRedisInventory`, `MCIndirectSystem`, `MCSeeding`, `MCWorkerScaling`, `MCBenchmark`, `MCAnalysis` | instances for TLC | |

### RedisInventory

State: the five kinds of Redis keys (`counter`, `seat`, `available_set`,
`idempotency`, `purchases`), and for each thread the next round trip `pc`, the
operation, the watched keys, Redis's dirty flag for its connection, the counter
value it read and its number of retries. `answers` records what callers were
told; no guard reads it.

| Action | Code |
|---|---|
| `Call` | a purchase that passed `PurchaseService`'s validation |
| `Watch` | `pipe.watch(...)` |
| `ReplayStored`, `NotProcessed` | `pipe.get(idemp_key)` |
| `ReadCounter`, `SoldOut` | `pipe.get(counter_key)` |
| `ReadFreeSeat`, `InvalidSeat`, `SeatAlreadySold` | `pipe.get(seat_key)` |
| `ExecCommitted`, `ExecAborted` | `pipe.execute()` and `except WatchError` |
| `ConnectionLost` | redis-py raises `WatchError` for a connection that watched keys |
| `ExecReplyLost` | the same, after the server executed EXEC |
| `WatchFails` | the `ConnectionError` of `pipe.watch` escapes |
| `Crash` | the process dies; Redis forgets its connection |

`TicketSale` is implemented by `RedisInventory` under `stock <- counter`,
`owner <- seat[s].owner`, `ledger <- idempotency` (`AtomicSale`): the EXEC is
the instant of the sale, and each early return happens at an instant at which
its answer is true of the stock. It is *not* true that a refusal says the
request has no sale (finding 1), and `TicketSale` does not promise it. This
refinement is what allows `Worker` to use `BoxOffice` in place of the round
trips.

### TicketShop

Between an HTTP request and its response the two architectures have nothing in common.
`TicketShop` is what they promise both: a purchase is asked for (`Ask`), sold at most
once and only after that (`Serve`), and told (`Tell`), at some later instant or never;
a result that is told `Holds` at that instant: an acceptance repeats the sale that is on
record under its `request_id`, `sold_out` and `seat_already_sold` state what the stock
is, for good. `Benchmark` implements it with the operations nginx has been
sent and the bodies it returned, `IndirectSystem` with the purchases of requests in
progress or answered and the results clients received (`PromiseKept` in each).
Redelivery, failover and late replies are stuttering: they may try a
sale again, but can neither sell unasked nor change what was said. `internal_error`
promises nothing; a refusal is about the stock, not about the request (finding 1).

### IndirectSystem

A purchase goes HTTP handler → `purchase_requests` → worker → reply queue →
reply thread → handler. The `request_id` is also the correlation id, so it
indexes `pending_responses` and `response_events`. Each critical section under
`_lock` is one action (`RegisterWaiter`, `StoreReply`, `CollectResult`,
`ForgetWaiter`); what the code does after releasing it (`event.set()`, waiting)
is another one. `_publish_lock` is a variable, because publishing and rebuilding
under it take several steps. `_ready` is read and written without a lock.
A worker sells, replies and acknowledges in three steps; a lost connection
requeues its delivery at once, and the worker notices when it next uses the
channel. pika's replies to a connection that is already dead may also be lost
silently (`PublishVanishes`).

`Fault` collects broker restarts, lost connections of publisher, reply thread
and workers, a publication that fails after the broker took the message,
SIGTERM, SIGKILL, Redis failing under a worker, and a sale whose answer is lost.

### Seeding

`ResetAll`, `ResetUnnumbered` and `ResetNumbered` start a run of the tool for one
`--ticket-type`; `Scan` and `DeleteScanned` are the two commands of the loop;
`InitializeUnnumbered` is the SET of the counter and `InitializeNumbered` one
pipeline of seats. `unscanned` holds the keys SCAN still owes: Redis promises
every key that exists from the first call to the last and nothing about the
others. Deleting or writing a key breaks the watches on it, which is what keeps
a purchase from committing on the old stock. `fresh` and `before` are history:
the unnumbered sales since the counter was set, and the sales on record since
before the reset. A fault ends the tool, as nothing catches it.

### WorkerScaling

`pid_file` and `running` are the pid files and the processes. A scaling script
drops the stale files and counts (`ScaleUp`, `ScaleDown`), then starts or stops
one index per step (`RunWorker`, `StopWorker`); `WorkerDies` comes in between.
Stopping is `stop_process`, whose wait is a loop over `i` without `local`: the
variable is the caller's. A worker that had to be killed leaves `i` at 10 (`WAITS`, the
number of looks), one that ended at the k-th look leaves k (`early_exits` counts these),
and only then comes the caller's `i--`. The scale-down therefore goes over indices it
has passed again, or skips some.
`reset_state.sh` is `ResetStops`, then `ResetStarts`, or `ResetFails` if a service does
not come up or Redis cannot be flushed or filled: the workers then stay stopped.

### DirectSystem

State: for each call where nginx has it (`upstream`), which replicas it has tried
and the response it got; per replica nginx's failure count and whether the process
lives; and for each call and replica how far that replica's handler is. The last
is what makes the failover interesting: nginx may leave a handler at work
(`UpstreamLost`: `proxy_read_timeout`, or a broken connection) and send the same
POST to another replica, so one `request_id` runs twice.

| Action | Code |
|---|---|
| `Forward` | `least_conn` among the replicas below `max_fails` that this call has not tried |
| `ConnectionRefused`, `UpstreamError`, `UpstreamLost` | `proxy_next_upstream error timeout`: count the failure, next replica or 502/504 |
| `NoLiveUpstreams` | every replica tried or put aside: 502 |
| `UpstreamAnswers` | any status of a handler goes to the client; 500 is not retried |
| `InvalidInput` | `InvalidInputError` → 400 |
| `AlreadyProcessed`, `NotProcessed` | the repository's GET of the idempotency key |
| `Buy` | the early return on the stock, or the EXEC |
| `WatchError` | the EXEC is refused because the request has been sold since |
| `SaleUnanswered`, `RedisFails` | a lost EXEC reply (retried), a `ConnectionError` (500) |
| `AnswerDropped` | the handler ends and nobody waits |

A purchase has two steps here, the read of the idempotency key and the rest,
because finding 1 lies between the two; the finer steps are those of
`RedisInventory`. The query routes are state functions, and the properties are
stated through them. nginx's timers of ten seconds are a step that may happen
(`FailTimeout`).

### Benchmark

`Send` takes the next operation of the file while fewer than `CONCURRENCY` are in
flight, `Receive` and `RequestFails` end one with an answer or an exception,
`WriteSummary` and `WriteResults` are the two files. A call whose client timed out
goes on at the replicas, also after the summary is written. `Verified` is what
`verify_correctness.sh` checks on the files; `Sold` is what the box office holds.
The runner talks to nginx only; the indirect benchmarks use the same program
against the gateway, where `IndirectSystem` gives the answers.

### Metrics and Analysis

`Metrics` computes in integers, in units of 1/`SCALE`: the four decimals to which the
code rounds throughputs, means, rates and ratios, and the two of a percentage. A
speedup, which the report divides without rounding, is the pair of its two throughputs.
A percentile is `statistics.quantiles(n=100)`, interpolation and
extrapolation included. Latencies are a function on the lines they come from, and
`sorted` gives the value at each place of the sorted list by counting how many are
smaller; so percentiles are defined, and can be reasoned about, without recursion.

`Analysis` has a slot for each test, architecture and case. The test scripts make its
directory and start the runner (`MakeDirectory`), which may fail and leave the directory
empty (`RunFails`);
`WriteSummary` and `WriteResults` replace a slot's two files one after the other,
`Interrupted` comes between them, `Clean` is the removal at the start of
`run_full_analysis.sh`, and of the tests of scalability and contention for their own files. The analyses and the report are functions of the files
(`Entry`, `ContentionEntry`, `ScalabilityEntry`, `speedup`, `best_arch`,
`outperforms`), so every property says what the report would state if it were made
at that moment. `torn` remembers the slots an interrupted run left.

## 3. Runs

| Run | Bounds | Checks |
|---|---|---|
| `redis_tickets` | 2 threads, 3 requests for 2 tickets, 1 fault, fair | `StockConserved`, `RemainingExact`, `RetriesBounded`, `RefusedStaysRefused`, `CallsReturn` |
| `redis_seats` | 2 threads, tickets and seats, `request_id`s shared between types and clients, 1 fault | `TypeOK`, `ReadsCurrent`, `SeatLedger`, `PurchaseHistory`, `AtomicSale` |
| `indirect_safety` | 2 handlers, 2 workers, 2 HTTP requests for 1 ticket, one perhaps without a client, 1 fault | `TypeOK`, `ResultsTrue`, `NoLostWakeup`, `EventsHaveWaiters`, `PublisherExclusive`, `AckedWhenDone`, `PromiseKept` |
| `indirect_liveness` | 2 handlers, 1 worker, 2 clients after 1 seat, 1 fault, fair | `HttpAnswered`, `PurchasesProcessed` |
| `seeding_tool` | 1 thread, 2 tickets and 2 seats, batches and SCANs of one key, one run of the tool, 1 fault | `FreshStockExact`, `OldSalesForgotten`, `SeatsSeeded`, `NothingFromNothing` |
| `scaling_counts` | 3 worker names, 7 processes, 2 deaths, `WAITS` = 10 | `CountsExact`, `NeverTooFew` |
| `direct_safety` | 2 replicas; files of up to 3 purchases for 2 tickets or one seat of 2, one not parsable, one with a seat out of range; 2 faults with 2 purchases, 1 with 3 | `TypeOK`, `RepliesTrue`, `RefusedMeansUnsold`, `SalesAccounted`, `VerifiedMeansSold`, `PromiseKept` |
| `direct_liveness` | 2 replicas, files of up to 2 purchases, 1 fault, fair | `NginxAnswers`, `HandlersEnd`, `RunnerEnds` |
| `analysis` | 8 slots, 3 different runs, 2 runs of the runner from an empty directory and two full ones | `TypeOK`, `RowOfOneRun`, `ThroughputMeasured`, `RecommendationsAgree`, `ComparisonsTrue`, `Percentiles` |
| `redis_one_verdict` | finding 1 | `OneVerdict` violated |
| `indirect_shared_ids` | finding 2 (`SharedIds = TRUE`) | `NoLostWakeup` violated |
| `indirect_not_ready` | finding 3 | `NotReadyMeansDown` violated |

Bounds. The repository's hazards need two threads that conflict, a stock smaller
than the demand, and one fault at the worst moment; the proofs of section 5
cover every larger instance. `MaxFaults` counts faults, not calls: threads call again for as
long as they like, and the state stays finite because sales are final. In
the indirect system every property relates one handler to one worker through
one reply thread; the second handler and the second worker are the
interference. `MaxRequests` bounds the HTTP requests and so the queues.
`ResultsTrue` is checked with tickets there; that it holds with seats, and
that sales are final (`GrantsAreFinal`, which `AtomicSale` implies), is left to the
theorems. Symmetry is used over threads, handlers, workers and process ids in runs without
liveness only.

The seeding run has one buying thread, for the interleaving in question is that of
a buyer with the tool; batches of one seat and SCANs of one key give the most
places for a sale in between. One run of the tool is enough: a second one starts
from a store that purchases have changed, as the first does. `VIEW NoAnswers`
drops `answers` from the state, which no guard and none of that run's properties
reads. In the scaling runs seven processes let every name be started again after
two deaths. With three names the index always comes back from `WAITS` - 1 over all of
them; that more names than 11 would be skipped there is why `ScalingExact` has its
hypothesis (the scalability test goes up to 8 workers).

The direct runs need a replica to fail over to, a file that asks for more than is on
sale, and two faults: one that makes nginx turn to the second replica and one that
hits there. `MCBound` allows both faults for two purchases and one for three, which
is where a third, unrelated purchase can take the last ticket. Two replicas are
`NEXT_TRIES`, the deployment's. In `analysis` a run has one of three outcomes that an
analysis may confuse: a fast one, one that is faster by less than the four decimals of a
ratio (`Brisk`), and one with every kind of answer. Two runs
suffice for a torn slot that is rewritten and for two slots that the report compares;
the full directories supply the others, one with the architectures level but for the
rounding and one with each of them ahead in one benchmark.

Deadlock is checked in every run but `direct_liveness`. The programs of that run
really stop, when the runner has written its files and no handler is left:
`direct_safety` checks, with the same `Next`, that this (`Finished`) is the only
state without a successor. `Quiescent` is the only permitted rest of
`IndirectSystem`: all requests answered and all queues empty.

Mutants. Each property of a passing run has a mutant in `PROJECT.json`: an
operator with a `mutant` comment, standing before the definition it would
replace, that TLC refutes. Two are instructive. With only the stock key in
`WATCH`, no run with one kind of purchase fails: the counter alone serialises
them. The idempotency key is needed exactly when one `request_id` is used for
different seats or types. And with only the idempotency key watched, two
requests oversell the last ticket.

### Fairness

* `RedisInventory!FairSpec`: weak fairness of each thread's `Step`. The threads
  are OS threads blocked on a reply of Redis, which is scheduled and answers.
  Calls, faults and crashes carry no fairness.
* `IndirectSystem!FairSpec`: weak fairness of each handler's steps (its timeout
  included: `event.wait(timeout=30)`), of the reply thread, of each worker's own
  loop, and of the broker coming back, which all the retry loops wait for.
  Nothing is assumed of clients, of `publish_lock` beyond its holder running,
  or of anybody starting a worker again: `PurchasesProcessed` therefore allows
  that every worker has exited.
* `Benchmark!FairSpec`: weak fairness of nginx's event loop for each call, of each
  handler's thread and of the runner's event loop. Faults, restarts, `fail_timeout`
  and the client's own timeout carry none: the calls end without them.

## 4. Findings

Each of 1 to 3 is a run whose property TLC refutes.

1. **A sold request can be rejected** (`OneVerdict`). `sold_out` and
   `seat_already_sold` are returned before EXEC, so the earlier read "not
   processed" is never validated: if another attempt of the same `request_id`
   sells the last ticket between the two reads, this one answers `REJECTED`.
   `README.md` line 8 promises idempotency by `request_id`.
2. **Same `request_id` twice at once** (`NoLostWakeup` with `SharedIds`). The
   second handler's Event replaces the first one's.
3. **503 for ever** (`NotReadyMeansDown`). `_ready` is only set again by code
   that `_ready` guards.

Also visible in the models, without a run of their own:

* A purchase whose EXEC reply was lost may be answered `internal_error` although
  it is sold (`WatchFails` after `ExecReplyLost`; 500 in `DirectSystem`).
* A rejection leaves no idempotency key, so `request_exists` does not know the
  request although its port documents "ya fue procesado".
* A reply that arrives after its handler timed out stays in `_pending_responses`.
* A purchase that commits while `reset("all")` scans may leave its keys, for SCAN
  need not return keys written after it began.
* SIGTERM does not end a worker as long as its connection lasts; the scripts'
  `kill -9` after five seconds does.
* Scaling down stops workers it should keep. `stop_process` waits in a loop over its
  caller's `i` (`_common.sh` line 117) and leaves it at 10 after a `kill -9`. Of workers 0,
  1 and 2, worker_0 dies; a scale-down to 1 counts two, stops worker_1, goes on from 9
  and stops worker_2. None is left, and line 41 of `scale_workers_down.sh` reports
  "Workers reducidos a 1". TLC gives this trace for `deaths = deaths_before /\ early_exits =
  0 /\ script = "down_done" => Cardinality(running) >= target_count` in the instance of
  `scaling_counts`. As long as all workers live the same loop does no harm: it revisits
  names that are gone.
* Scaling down skips workers. One that ends while it is waited for leaves the number of
  looks in `i`: of three workers to be stopped, the second is not, if the last one goes
  at the first look (`deaths = 0 /\ script = "down_done" => current_count = target_count`
  is refuted). After a death it can leave more than asked for in any case, as indices
  are counted, not names; and scaling up can overwrite the pid file of a
  running worker, which no script finds again and which buys during resets.
* With more than 11 workers a scale-down skips some without any of them dying: a killed
  worker leaves the index at 10.
* `((waited++))` is false at 0, so under `set -e` a wait of `_common.sh` that is called
  plainly ends its script at the first second in which the service is not up.
  `reset_state.sh` (lines 38 to 40, 64) then leaves the workers stopped (`ResetFails`).
* A file none of whose operations got a verdict (error pages only) passes
  `verify_correctness.sh` if its seats are numbered: no seat is reported twice.
* The executive summary names the direct architecture if it won one benchmark; the
  conclusions count benchmarks and may name the other (`RecommendationsAgree` says
  what is guaranteed). The ratios are rounded to four decimals before they are
  compared: the indirect one is also named where the direct one is ahead by no more than
  0.005 %. If every ratio is below 1, "up to" is stated of the largest
  ratio, which is the smallest advantage.
* A hotspot test without a run, which `run_contention_test.sh` does not stop for, is
  reported as 100 % degradation (`reporter.py` line 255), and a directory
  `workers_N` whose run failed as a speedup of 0.0 to that number (line 245).
  `ComparisonsTrue` says that these are the only figures a missing run can cause.
* Without records a scalability row is 0, also with a summary.
* In a sample too small for it a percentile exceeds the largest latency.
* The mean latency of a summary counts operations without an answer, that of the
  analysis does not.

## 5. Proofs

Each theorem holds for every value of the constants under the assumptions named
below: any number of threads, replicas, handlers, workers, tickets, requests and
faults.

| Theorem | Statement | Module |
|---|---|---|
| `TypeCorrect` | `Spec => []TypeOK` | `RedisInventoryProofs` |
| `OptimisticLock` | `Spec => []ReadsCurrent` | |
| `StockIsConserved` | `Spec => []StockConserved` | |
| `RemainingIsExact` | `Spec => []RemainingExact` | |
| `GrantsStay` | `Spec => GrantsAreFinal` | |
| `SeatsHaveOneOwner` | `Spec => []SeatLedger` | `SalesProofs` |
| `RetriesAreBounded` | `Spec => []RetriesBounded` | |
| `HistoriesAreExact` | `Spec => []PurchaseHistory` | |
| `RefusalsStand` | `Spec => RefusedStaysRefused` | |
| `PurchasesAreAtomic` | `Spec => AtomicSale` | |
| `NothingComesFromNothing` | `SeedingSpec => []NothingFromNothing` | `SeedingProofs` |
| `OldSalesAreForgotten` | `SeedingSpec => []OldSalesForgotten` | |
| `SeatsAreSeeded` | `SeedingSpec => []SeatsSeeded` | |
| `FreshStockIsExact` | `SeedingSpec => []FreshStockExact` | |
| `TypeCorrect` | `Spec => []TypeOK` | `IndirectProofs` |
| `NobodyIsToldLies` | `Spec => []ResultsTrue` | |
| `AcknowledgedWhenDone` | `Spec => AckedWhenDone` | |
| `WorkersAreOneShop` | `Spec => PromiseKept` | |
| `PublisherLocked` | `Spec => []PublisherExclusive` | `GatewayProofs` |
| `EventsBelong` | `Spec => []EventsHaveWaiters` | |
| `NobodySleepsOn` | `~SharedIds` implies `Spec => []NoLostWakeup` | |
| `TypeCorrect` | `Spec => []TypeOK` | `DirectProofs` |
| `NobodyIsToldLies` | `Spec => []RepliesTrue` | |
| `RefusedStaysUnsold` | `Spec => []RefusedMeansUnsold` | |
| `SummaryIsAccountable` | `Spec => []SalesAccounted` | |
| `VerificationIsSound` | `Spec => []VerifiedMeansSold` | |
| `ReplicasAreOneShop` | `Spec => PromiseKept` | |
| `ScalingExact` | `MaxWorkers <= WAITS + 1` implies `Spec => []CountsExact` | `ScalingProofs` |
| `ScalingSuffices` | `Spec => []NeverTooFew` | |
| `TypeCorrect` | `Spec => []TypeOK` | `AnalysisProofs` |
| `RowsOfOneRun` | `Spec => []RowOfOneRun` | |
| `ThroughputsMeasured` | `Spec => []ThroughputMeasured` | |
| `SectionsAgree` | `Spec => []RecommendationsAgree` | |
| `ComparisonsAreTrue` | `Spec => []ComparisonsTrue` | |
| `PercentilesArePercentiles` | `Spec => []Percentiles` | |

Assumptions. `DomainAssumption`: operations are records, `None` and `Blank` are not
ordinary values, nor `None` a status. `InventoryAssumption`, `SeatAssumption`: a positive stock, finitely
many threads and requests, `None` is not a seat record. `GatewayAssumption`,
`IndirectAssumption`: every purchase has a `request_id`, finitely many workers, the
stock is within its maximum. `DirectAssumption`, `BenchmarkAssumption`: the same for
replicas, and the files the runner reads are sequences of operations, comments and
garbage. `SeedingAssumption`: batches and SCANs are not empty. `ScalingAssumption`:
names are numbers. `AnalysisAssumption`: finitely many slots; numbers of workers,
latencies and samples are natural; a run has lines and takes time. Values that say
"none" are none of the others. TLC evaluates each of them in the runs of its module. `NobodySleepsOn`
needs `~SharedIds`; finding 2 is what happens without it. `ScalingExact` needs
`MaxWorkers <= WAITS + 1`: 11 names in the code.

### Purchases on Redis

Argument. `StockConserved` is not inductive: an EXEC from a state in which the
request is already sold would count a ticket twice. `ReadsCurrent` excludes it.
It says that while a connection is not dirty, what its call read still holds:
the request has no sale, and the counter has the value read (or the seat is
free). It is inductive together with `TypeOK`: every write to a key marks the
connections that watch it (`TransactionKeepsReadsCurrent`), and a step of one
thread that leaves the store alone cannot disturb the others
(`OtherCallsCurrent`). Given that, only a transaction changes the store
(`StoreSteps`), and it records exactly one new sale (`OneMoreGrant`), of one type
(`OneMoreGrantOf`); conservation, finality and exact numbering follow by counting,
seats and histories by following the one record that changes.

Two properties need an invariant of their own. `RetriesBounded` forgets the
WatchError a dirty connection is about to cause; `RetriesPaid` counts it too, and
is inductive: a sale dirties each other connection once, a retry cleans its own.
`RefusedStaysRefused` rests on `RefusalsTrue`: a refusal stays true of the stock
until its request is sold, because stock never comes back.

`PurchasesAreAtomic` maps the EXEC to `Sell` and each early return to `Repeat` or
`Refuse`; all other steps stutter (`NextSimulation`). It needs `ReadsCurrent` for
the sale, `StockConserved` for `sold_out` (the counter is 0, not below) and
`SeatsOffered` for `invalid_seat` (no sale and no retry makes a seat vanish).

### Seeding

Deletions and writes of the tool break `StockConserved`, but not the lock: whatever
keys are written, a call that is not dirty afterwards still has current reads
(`WriteKeepsReadsCurrent`). `Locked` (types, `ReadsCurrent` and a counter that is not
negative) is therefore inductive for purchases and tool together, and implies
`NothingFromNothing`. The rest is about the tool's loops. `ScanOwes` says that while
the scan goes on, each seat, the set and each sale on record since before the reset
is among the keys still to be returned or deleted; when cursor 0 comes back and its
page is deleted nothing is left (`ScanComplete`), which gives `OldSalesForgotten` and the
empty venue from which `SeatsSoFar` starts: exactly the seats of the batches written
so far are there, and the set holds the free ones. `FreshStockExact` is inductive with
`FreshOnRecord`: a ticket sold since the SET takes the next number off the counter
(`FreshTicket`), and the purchases that read the old counter are dirty.

### The indirect system

`ResultsTrue` speaks of results wherever they are: in a worker, in the reply queue,
in `_pending_responses`, with a client. It is not inductive, since it says nothing of
the record a result refers to. `TrueOf` does: an accepted result has a sale of its
client and type on record, a refused one an empty stock or a sold seat, and no step
of the box office undoes either (`Unsold`, `Sale`). `Told` states it for every place;
`WorkerTells` and `GatewayTells` show that results are made from the box office and
then only moved, each to the entry of its own `request_id`. `Recorded` (a seat on
record belongs to its client) and `InHand` (who works on a purchase has it) are
inductive with `TypeOK`; `Typed` splits into one part per process, so that a step of
one leaves the parts of the others alone.

`AckedWhenDone` is about copies: how often a purchase is queued plus how many workers
have it unacknowledged. Publishing adds one, delivering and requeueing move one
(also to the head of the queue, and all of a broker's at once), and only an
acknowledgement takes one away (`CopiesKept`). Who acknowledges has a result of that
purchase, for a connected worker's delivery is the purchase it works on and its result
is of that purchase (`Deliveries`).

`WorkersAreOneShop` takes from `Told` that what a client receives is true
(`TruthDelivered`), and needs one more invariant for the sales: `Requested`, every
purchase that is queued, unacknowledged or with a worker was asked for. A handler
publishes its own (`GatewayAsks`), a broker that restarts only moves what it has, and a
worker buys what was delivered to it, so its `Sell` is a `Serve` (`WorkerTakes`).

For the gateway, `PublisherExclusive` and `EventsHaveWaiters` are inductive over the
types. `NoLostWakeup` needs `OwnIds`: two requests in progress have different
`request_id`s, so the reply thread cannot store a result under the id of a handler
without taking that handler's Event.

### The direct system

`Requests` ties calls to the file: a handler works only on a call that was sent, and
believes to buy only a valid purchase. `RepliesTrue` follows from `Truthful`: the
response in hand of any handler, abandoned or not, is true at the box office
(`TrueAt`), and sales keep it so. `RefusedMeansUnsold` needs to know who could still
sell: unless a call is abandoned, the replica that nginx waits for is the only one
with a handler at work (`SoleHandler`), and as long as that handler has read "not
processed", or has a refusal to deliver, there is no sale (`UnsoldRefused`).

The accounts of the benchmark join three of these. `Counted`: each ticket and seat is
left or sold to one operation. `Verdicts`: a response with a body says 200 and sold, or
409 and refused. `Recorded`: what the runner noted of an operation is what nginx
answered or that there was no answer, its connection is closed, and the files were
written after the last operation. Then the operations counted as accepted are sold
(`ToldSold`), those counted as rejected are unsold or abandoned (`ToldRefused`), and
`SalesAccounted` is an equation between cardinalities. `VerifiedMeansSold` compares
these counts with what `verify_correctness.sh` computes from the file.

`ReplicasAreOneShop` joins `Verdicts`, which says what a body may be, with `Truthful`:
each response is `Holds` of the shop when nginx returns it (`TruthDelivered`), a reply
is given once, and a sale is made by a handler of a call that nginx was sent
(`StepServes`).

### Scaling and analysis

`CountsExact` is stated of the moments when no script runs. `OneFileEach` (files and
processes match one to one) and `NoGaps` (which names are taken while a script is at
work) carry it through the loops. In a scale-down the names taken are 0 to some count - 1,
and the index is not below the last of them: it may be far above, where
`stop_process` put it, and then only counts down over names that are gone. That is
where `MaxWorkers <= WAITS + 1` is used, and why a worker that ends in the wait, which
leaves the index lower, is excluded. After deaths neither holds; what is left for scaling
up is that no
process has two pid files (`FilesDiffer`), so the script counts at most the workers
there are, and that the loop variable bounds their number from below (`Enough`).
Scaling down has no such bound (section 4).
`FilesOfOneRun` says that a slot's two files stem
from one run unless it is torn or being written; the two theorems about rows then
compute what `calculate_metrics` and `merge_summary_metrics` make of one run.

The comparisons follow from what rounding keeps of a quotient (`RoundedQuotient`): it is
off by half a unit of the last decimal at most. So a ratio rounded to 1 may be half a unit
more (`RoundedRatio`), which `RecommendationsAgree` allows for, and a degradation is the
share lost up to half a hundredth of a percent. A throughput that is not 0 has a run
(`MeasuredRun`), so a speedup that is not 0.0 is the quotient of two throughputs
measured; without a hotspot run the degradation is a number divided by itself, which no
rounding changes (`RoundedToItself`).
`Max` and `Min` of a finite set exist because the cardinalities of the elements above
(below) have a least one (`Extremes`), which needs no induction over the set. The
same argument fills each place of the sorted list (`PlaceFilled`): the least value that
at least k do not exceed. Percentiles are then counted: an interpolation lies between
its neighbours (`Interpolation`), a number at or above place k has k values below it
(`ShareBelow`) and one at or below it has the others above (`ShareAbove`).

### Model-checked only

Liveness under fairness (`CallsReturn`, `HttpAnswered`, `PurchasesProcessed`,
`NginxAnswers`, `HandlersEnd`, `RunnerEnds`), which the prover does not reach, and the
three runs that refute a property. The sum in `Mean` is a fold of the community
modules, whose value needs induction: no theorem depends on it.

## 6. Not modelled

* Message bodies that are not JSON or lack fields: the gateway is the queue's
  only publisher and always writes them.
* Purchases through the gateway with a blank `request_id`: the gateway drops their
  replies (`main.py` line 109) and answers 504. `GatewayAssumption` excludes them.
* Gateway start-up failure, `/health` and the two Redis queries of the gateway.
* `reset_state.sh`'s FLUSHALL, queue purge and gateway restart; starting and
  stopping services other than workers.
* Logging, configuration and health probes: environment variables and one-shot I/O.
* `plotter.py`, the tables and the wording of `reporter.py`: drawing and layout
  without state. What the report concludes is in `Analysis`.
* nginx's keep-alive, headers and buffering; a client other than the runner (its
  requests are the runner's, sent once).
* Timestamps of results: they are not stored.
* A Redis that loses data or fails over; the deployment has one server.

## 7. Plan

Order of work, most important behaviour first:

1. `Ticketing`, `BoxOffice`, `TicketSale`, `RedisInventory` and its proofs — done.
2. `Broker`, `Worker`, `Gateway`, `IndirectSystem` — done.
3. `Seeding` — done.
4. `WorkerScaling` — done.
5. `DirectSystem` and `Benchmark` — done.
6. `Metrics` and `Analysis` — done.
7. Proofs of every safety invariant and action property of the passing runs — done.
8. `TicketShop` and its refinement by `Benchmark` and `IndirectSystem` — done.

Next, in order: safety halves of the liveness properties (that a waiting step is always
enabled or about to be, as an invariant); a `reset_state.sh` that runs while the indirect
system is in use, with its queue purge.
