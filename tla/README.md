# Verification of the stock-trader backtesting platform

TLA+ models of the parts of stock-trader whose correctness depends on the order in which
processes act, or on arithmetic at boundaries: the life of a backtest job across the API, the
Celery pipeline and the database, the rate limiters, the market data that tasks share, the trade
loop of the strategy, and the migrations of the database. TLC checks the models on small instances;
TLAPS proves the main results for every value of the constants. Paths below are relative to
`src/src/stock_trader/`.

## 1. Inventory

### Components, their state and their operations

| component | state | operations | correct when |
|---|---|---|---|
| backtest API: `api/routes/backtest.py`, `api/services/backtest_service.py`, `db/repositories/backtest_repo.py` | one in-flight request per client; nothing else in memory | `create_backtest_job`, `dispatch_backtest_job` (read, check, mark RUNNING, publish), `get`, `list` | one pipeline per job at a time; a job marked RUNNING has a pipeline |
| tables: `db/models/backtest_jobs.py`, `backtest_results.py` | status, error, start and end time per job; result rows per (job, symbol), not unique | `update_job_status` (load, change, commit), `save_job_result` | error exactly on FAILED rows; COMPLETED only with all results |
| pipeline: `api/services/celery_task_dispatcher.py`, `worker/celery_app.py` | messages in two Redis queues, unacknowledged deliveries, the chord's counter | `chain(ensure, chord(run_backtest ..., finalize))` | the callback runs once, after all tasks |
| fetch task: `core/market_data/market_data_tasks.py` | retry count of the message | `ensure_market_data_for_job`, autoretry, `_on_fetch_failure` | ends in success or in a FAILED job |
| backtest tasks: `core/backtest.py`, `db/repositories/worker_repo.py` | none between steps | `run_backtest`, `finalize_backtest_job` | the verdict says what the rows say |
| rate limiter: `infrastructure/redis_rate_limiter.py` | a sorted set with a time to live, in Redis | `acquire`: the Lua script, then sleep and retry | never more than `max_requests` returns in a window; no starvation |
| in-memory limiter: `core/market_data/providers/massive/rate_limiter.py` | a deque of timestamps | `acquire` | the same quota, for one caller |
| market data: `core/market_data/market_data_service.py`, `db/repositories/market_data_repo.py` | bars per (symbol, interval, timestamp) | `ensure_data`: read, acquire, fetch, insert | what is returned is what the range holds |
| market data endpoint: `api/services/market_data_fetcher.py` | a result wait with a timeout | `fetch` | answers in time, and with the task's answer |
| strategy: `core/strategies/*`, `core/utils.py` | position and trades of one run | `run`, `calculate_metrics` | trades are the first signals of the session, alternate and close; the metrics say what the trades say |
| migrations: `db/migrations/*`, `db/db_helpers.py`, the tables of `db/models` | the schema, its version rows | `create_database`, `apply_migrations`, five `upgrade` and `downgrade` | the version says what the schema is; the last one is `db/models`; an upgrade ends |
| provider, mapper, request and response models, exception handlers, Redis client, wiring | none that outlives a call | | |

### How they interact

    client -> API --(1 read, 2 load, 3 commit RUNNING)--> backtest_jobs
               |---(4 publish)--> fetch_queue -> ensure_market_data_for_job -> limiter -> provider
                                                   | on_failure: FAILED ------> backtest_jobs
                                                   v success: the chord
                                  backtest_queue -> run_backtest x symbols ---> backtest_results
                                                   v all parts counted
                                  backtest_queue -> finalize_backtest_job ----> backtest_jobs

The API runs on an event loop (asyncio), the fetch worker is a gevent pool, the backtest workers a
prefork pool. Nothing but the database and Redis is shared. Each arrow into the database is a
transaction of its own, and none of them locks a row or checks the status it overwrites.
The tables are made by a job that Kubernetes runs after install and upgrade, beside the API, and
runs again when it fails.

### What is hard

* Two requests, or a request and a pipeline, between each other's transactions; an UPDATE that
  writes only the columns its session saw change.
* A process that dies, or a call that fails, between two steps that belong together: mark and
  publish, save and report, load and commit.
* Late acknowledgement: any task may run again, at any later time, after all it did the first time.
* A chord whose parts are counted by task and result, and that fails as a whole if a child dies.
* A budget counted by many callers against a moving window.
* A window counted with several readings of a clock that moves between them.
* A loop over bars that must not miss, double or misplace a trade, because the metrics pair trades
  by place.
* Schema changes that race, stop half-way, are taken back, or meet rows they do not allow.

`PROJECT.json` lists these, and the ones no property covers yet, under `hazards`, each at its line.

## 2. Plan

| order | module | what | state |
|---|---|---|---|
| 1 | `JobPipeline`, abstract `JobLifecycle` | the life of a job over requests, tasks, rows and faults | done, with runs |
| 2 | `JobPipelineProofs` | types and `CompletedHasAllResults` for all constants | done |
| 3 | `RedisRateLimiter`, abstract `WindowQuota`, `...Proofs` | the shared limiter | done, with runs and proofs |
| 4 | `MarketData`, `MarketDataProofs` | `ensure_data` with concurrent tasks over a shared table, retries, redelivery, and the endpoint that waits for a task | done, with runs and proofs |
| 5 | `BollingerReversion`, `BollingerReversionProofs` | the trade loop and `calculate_metrics` over bars classified against their bands | done, with run and proofs |
| 6 | `InMemoryLimiter`, `InMemoryLimiterProofs` | one caller against `WindowQuota` | done, with run and proofs |
| 7 | `Migrations`, `MigrationsProofs` | revisions, version rows, racing migrators, against `db/models` | done, with run and proofs |
| 8 | `JobPipelineSerialProofs` | while no message is redelivered: `FinalizeAfterAllTasks`, the verdict's truth, and with one client `AtMostOnePipeline`, `TerminalMeansIdle`, `ErrorIffFailed` and the refinement of `JobLifecycle` | done |
| 9 | more limiter, migration and strategy proofs | `WaitSuffices`; `HeadMatchesModels`, `FailsOnlyWhenBlocked`; `MetricsMatchTrades`, `DrawdownIsWorstFall` | done |
| 10 | shorter proofs | lemmas that two proof modules state alike (`SameCardinality`), moved where both can cite them | next |

Considered and left out: a budget of provider calls and pages (the code promises nothing between
the return of `acquire` and the request, so there is nothing to hold it to), and the paging of the
job list (every offset paging over a growing table repeats rows).

All modules take their sizes as CONSTANTS with named assumptions, have one action per operation or
transaction, and declare no recursive operator, so that every one of them can be proved about.

## 3. Modules

### JobPipeline

State and code:

| variable | code |
|---|---|
| `job[j]` | row of `backtest_jobs`: status, error (none, from the fetch, from the symbols), end_time relative to start_time |
| `results[r][s]` | how many rows of `backtest_results` run `r` inserted for symbol entry `s` |
| `request[c]` | where client `c`'s `PUT /run` is in `dispatch_backtest_job`, and the row `update_job_status` loaded |
| `pipe[r]` | the `ensure_market_data_for_job` message of run `r`: stage, retries, row loaded by `_on_fetch_failure` |
| `chord[r]` | the result backend's counter: open, parts received, how often the chord was published |
| `task[r][k][s]` | `run_backtest` for entry `s`, k-th publication |
| `fin[r][k]` | `finalize_backtest_job`: verdict it will write, row loaded |

A *run* is one call of `apply_async`. Every await, transaction and task boundary is a step
boundary. `update_job_status` is two steps (load, commit): a commit writes the columns that differ
from what its own session loaded, so a commit in between survives in the columns left alone.
An exception raised inside a task, and what retries it, follow the decorators: `autoretry_for`
with `MaxRetries` (3 in the code), `on_failure` afterwards, and for `run_backtest` the except
clause that returns an error dict. (Its `max_retries=1` is never used: nothing calls `retry`.)

External behaviour, modelled as the code relies on it: a redelivered fetch task publishes its
chord again with the same group; a part is keyed by task id and result, so the same answer twice
counts once and two different answers count twice; the callback is published when the count
reaches the size, unless a part is a FAILURE; a child that dies is acknowledged as FAILURE by its
parent (`task_reject_on_worker_lost` is not set); a worker that dies before it acknowledged has
its message delivered again, possibly long after the task was done.

Faults are constants of the model, counted by `faults` up to `MaxFaults`:
`api` (a request ends between two steps), `broker` (`apply_async` raises), `db` (a task's database
call raises, before or after its commit), `crash` (redelivery), `lost` (a dead prefork child).

Abstractions: two error texts of one kind are equal; market data and strategy are success or
exception; each run of a job has all its `Symbols`, a duplicated symbol being an entry of its own;
requests that are refused (404, 409) change nothing and are stutters; reads are not modelled.

`JobLifecycle` is what a client relies on: a job is created, started, gathers results while
RUNNING, and is finished, as COMPLETED only with all results. It is a safety specification: that a
started job is finished in the end is `RunningResolves`, which needs a broker and workers that do
not fail, while the rest of `JobLifecycle` does not.

### RedisRateLimiter

`now` is the Redis server's clock, `zset` and `expires` the key and its time to live, `caller[c]`
one `acquire` call. The Lua script is one atomic step (`reserve` or `refuse`), the sleep between
two scripts is not. The script's grant and the return of the call are one step: the latency of the
reply between them is not modelled, and the quota is one of grants. Redis errors may come before the script ran or after (the reply is lost).
`grants` and `reserved` are history variables: which calls returned, and how many slots were taken.

`WindowQuota` is the promise: a call returns only when fewer than `MaxRequests` returned in the
window that ends now. It says nothing of waiting or of Redis.

### MarketData

| variable | code |
|---|---|
| `market[s]` | the bars the provider has for ticker `s` (external) |
| `rows[s]` | rows of `market_data` for `s` |
| `task[t]` | one delivery of an `ensure_market_data_for_job` (kind job) or `ensure_market_data_for_symbol` (kind symbol) message, with the retries it publishes: the task's id, its symbols, those still to do, the one in hand, the range, the retries, the series in hand |
| `client[t]` | the request in `MarketDataFetcher.fetch` that waits for task `t` |
| `answered`, `calls` | history: ranges that bars were returned for; how often a delivery turned to the provider |

`ensure_data` is three steps: the select (`check_hit`, `check_miss`), the slot and the call
(`fetch_ohlcv`, `no_data`, or `autoretry` when either fails), the insert with its commit
(`bulk_insert_market_data`). Other tasks run in between: the fetch worker is a gevent pool and may
have many processes. A published message that waits for a worker is a task about to check.
A retry and a redelivery start again at the first symbol, with what was inserted still there.
A message is acknowledged when its task has ended (`task_acks_late`), so the broker may deliver it
a second time: when the visibility timeout has passed, while the first worker goes on or after it is
through, or because that worker died (`redelivered`); and when a worker dies between publishing a
retry and acknowledging the message that failed, both are delivered (`autoretry_unacked`). Each
delivery is a record of its own, with its own retries: the first is at its task's name, further ones
at the names in `Copies`. The result backend keeps the first success of a task's id (`result_ready`).
A database error is in no `autoretry_for` list and fails the task. `result_timeout` is the 504 of
the endpoint; the task goes on, which is why a late answer still ends up in the table.

Abstractions: prices are left out, a bar is its day and whether it falls after midnight UTC (`late`,
on the `EveningDays`: extended hours in New York end after midnight UTC in winter), which the mapper
keeps and the table files under the next date; there is one interval; the symbols of a job are done
in any order; the ticker is put in upper case by the endpoint only (`Upper`), as in the code, so
that two spellings are two tickers for jobs. A provider gains bars only on the last day (those in
`Trading`). `EveningOnly` says whether a day may trade after midnight UTC and not before. The wait
for a slot is the subject of `RedisRateLimiter`.

### BollingerReversion

`df` is the price frame: for each bar its time of day in New York, its close, and the zone of that
close (below the lower band, up to the middle, up to the upper, above). The library's bands are not
computed: every way the closes can lie is a frame. `pc`, `i`, `in_position`, `trades` are the
variables of `run`, one step per bar, and `metrics` what `calculate_metrics` returns, in exact
fractions; the win rate is kept as a count, and rounding, `total_return_pct` and `to_raw` are left
out. A frame with fewer rows than `length` raises. The calendar date of a bar plays no part in the
code: the mask looks at the time of day alone, and the last session bar of the frame, not of the
day, takes the forced exit.

### InMemoryLimiter

One `acquire` is up to four steps (evict and look, compute the sleep, wake and evict, append),
because each reads the clock anew; `until` is the earliest tick of the next reading and `MaxLag`
what the scheduler may add. `acquire` has no loop and sleeps at most once, so that it returns is no
property worth a run. `grants` is the history that `WindowQuota` is about. Two threads are
not modelled: the class documents itself for a loop of one caller.

### Migrations

| variable | code |
|---|---|
| `database` | whether the database exists |
| `objects`, `types` | columns with type and default, indexes, the schema; enum types, which a dropped table leaves behind |
| `version_num` | rows of `alembic_version`; revisions are numbered 1 to 5 in the order of `down_revision` |
| `jobs` | whether a job is stored, and whether its error fits 255 characters |
| `migrator[m]` | a process in `create_database`: its step, and the revision it believes in |

A revision and its number are one transaction (`transaction_per_migration`). What is external and
modelled as the code relies on it: PostgreSQL refuses an existing table or type, a NOT NULL column
without default on a table with rows, and a text too long for its new type; alembic inserts the
first number, updates the others and fails if it finds no row to update, and refuses to start from
two rows. It makes `alembic_version` in its first transaction if it saw none, which fails when
another migrator has made it meanwhile (`version_table_exists`: possible whenever that migrator's
number is there; the model does not remember a version table that downgrades left empty). The API and the workers write jobs meanwhile, as the models let them.

## 4. What TLC checks

| run | instance | shows |
|---|---|---|
| `pipeline_serial` | 1 client, 2 runs, 2 jobs, 2 symbols, 3 retries, any 1 fault but a redelivery | `JobLifecycle` is implemented; error exactly on FAILED rows; a terminal row means no pipeline at work and end after start; the callback comes after all tasks |
| `pipeline_racing` | 2 clients, 2 runs, no fault, fairness | even two pipelines for one job leave true verdicts and no job RUNNING |
| `pipeline_faults` | 2 clients, 2 runs, any 1 fault | COMPLETED rows have all results |
| `limiter_safety` | 3 callers, 2 calls each, quota 2 per 2 ticks, jitter, oversleep, Redis errors, fail closed | implements `WindowQuota`; every window of any alignment keeps the quota; the script counts every recent return; the sorted set is bounded; waits are long enough |
| `limiter_liveness` | 3 callers, quota 1 per 2 ticks, Redis errors, fail open, fairness | every `acquire` ends |
| `market_data` | 2 tasks of either kind and 1 further delivery, a ticker in 2 spellings, 2 days, the first with evening trading, 1 retry, a provider that gains bars | a job whose data task succeeded can load every symbol; an answer is in the table, and a later reader misses nothing of it but late bars of the last day; what was returned once is never bought again; the calls of a delivery are bounded by symbols and retries |
| `strategy` | every frame of up to 5 bars out of 10 (two prices, four zones, the edges of the session), both exit bands | trades alternate and close, lie in the session, are the first signals; metrics and drawdown say what the trades say |
| `migrations` | 2 migrators, 1 job, 1 crash, 5 downgrades, from any release, fairness | the highest version row tells the schema; the last one is `db/models`; who loses no race fails only where every later start would; an upgrade ends or is blocked |
| `memory_limiter` | 1 caller, 5 calls, quota 2 per 5 ticks, oversleep | implements `WindowQuota`; the deque holds at most one entry too many; sleeps only when full |

Runs that show a disagreement between the code and its documents:

| run | the code | the text |
|---|---|---|
| `double_dispatch` | two requests pass the RUNNING check and start two pipelines | `api/routes/backtest.py:85` "409 if job is already running" |
| `unpublished` | a broker error after the mark leaves the job RUNNING for ever, and 409 for ever | `README.md:16` of the repository: "Poll for results (COMPLETED / FAILED)" |
| `partial_hit` | one stored bar makes a longer range a hit, which is then answered with that bar alone | `core/market_data/market_data_service.py:67` "with bars for the requested range" |

Also met while modelling, without a run of their own:

* A symbol task that is redelivered and then answers differently is counted twice by the chord, so
  that the callback may run before the last symbol is done (`api/services/backtest_service.py:55`
  says "after all of the symbol tasks are complete"); `pipeline_faults` and the theorem below show
  that no COMPLETED row comes of it.
* With two pipelines for one job (`double_dispatch`), `update_job_status` assigns `error = None`,
  but the ORM writes a column only if it differs from what its session loaded: a FAILED verdict
  committed between load and commit leaves its error on a RUNNING row. `ErrorIffFailed` is
  therefore checked with one client only.
* A prefork child that dies bypasses the except clause of `run_backtest`, Celery records FAILURE,
  and the chord's callback never runs (`core/backtest.py:30` says "so the chord always completes
  cleanly"). The job stays RUNNING, as in `unpublished`.
* The states of `Blocked` in `Migrations`: jobs stored at revision 4b19bd66b772 stop the upgrade at
  8bb6b5de95e4 for good; after a downgrade below bcdd27605b96 or 4b19bd66b772 the enum type that
  stayed stops the next upgrade; two migrators on an empty schema can leave two rows in
  `alembic_version` (the first revision has nothing that fails the second time), and no later
  `upgrade` starts from two rows. Each of them needs a hand.
* `calculate_metrics` without trades gives `ending_capital` 0, not the capital
  (`core/strategies/models.py:82`), as its test wants it.
* The loop of `run` starts one bar after the first bar that has bands
  (`core/strategies/bollinger_reversion.py:93`).
* `api/routes/debug.py:20` reads the length of a queue `backtest_jobs`; the queues of the workers
  are `backtest_queue` and `fetch_queue`.
* `db/models/market_data.py:29` names Redis as a hot cache and Alpha Vantage as the source; the
  service reads the table first and has only the Massive provider.
* `api/routes/backtest.py:37` speaks of PENDING and "queued": the status is CREATED, and nothing is
  queued before `PUT /run`.

**Bounds.** Two runs are enough for every interference between pipelines of one job, two symbols
for the difference between some and all, two jobs for steps that touch the wrong row. `MaxRetries`
is the code's 3 in `pipeline_serial` and 1 where two clients race, since a second retry only repeats
the first. One fault reaches
each failure path, the second publication of a chord included; that more faults, clients, runs and
retries change nothing is proved, for COMPLETED rows under every fault and for the rest where
messages are not redelivered (section 5). In
the limiter, a window of 2 ticks, quota 2 and 3 callers give full windows, evictions, expiry of the
key and two waiters for one slot; `LastCall` and `MaxTime` end a behaviour after the last window.
Two fetch tasks are every pair that can interfere through the table; two days tell a hit on part of
a range from one on all of it, and let a bar of one be filed under the other; one retry and one
further delivery (`Copies`) start an attempt over in each way, at each step, with two live copies of
a message or beside another task. `Jobs` and `Markets` are what a job asks for (both spellings, all
days) and what the provider has at first (a ticker that did not trade on the first day, or traded
into its evening). `market_data` takes `SpanCap = 0` (the endpoint asks for single days, jobs for any range) to
stay small, `partial_hit` takes 1. That more tasks, deliveries, days and retries change nothing is
proved. `EveningOnly` is FALSE: a ticker that on some day traded after midnight UTC only breaks
`EnsuredIsReadable`, `NeverBoughtTwice` and `CallsBounded`, because the bars fetched for that day
are not found there (a hazard in `PROJECT.json`).
In `strategy`, five bars and `length` 1 hold two trades and a half, a forced exit on the bar of its
BUY, and an extended-hours bar at each place; two prices make a win, a loss and a break-even. In
`memory_limiter`, 5 calls fill the window of 2 more than twice, and oversleeping by 2 ticks reaches
the deque of `max_requests + 1`. In `migrations`, five downgrades lead from the last revision to
nothing; a third migrator meets no state that two do not leave.
Deadlock is not checked because the system may come to rest: jobs done, runs or tasks used
up, the frame at its end, or the clock at `MaxTime`. It is checked in `migrations`, where a migrator
can always be started.

**Symmetry** (jobs, symbols, clients, runs, callers, or tasks) is used in safety runs only.

**Fairness.** A request that awaits is resumed by the event loop (`WF` of a request's steps), a
free worker takes the next message and finishes it (`WF` of a run's steps), the clock runs and a
caller whose sleep is over is scheduled (`WF` per caller; no strong fairness). No fairness makes
anyone create or dispatch a job, or a fault happen. Weak fairness of a whole run is enough because
a run's steps only end in its verdict: retries are bounded.
`limiter_liveness` takes `MaxLag = 0` (callers wake on time): with finitely many calls each waiter
then gets its turn; under an endless stream of new callers the code does not promise it.
A Redis error is never fair. In `Migrations` a migrator that was started goes on and is started again when it fails
(`restartPolicy: OnFailure`; the Job gives up after `backoffLimit` 3 failures, and one crash and
the lost races of two migrators are fewer unless the upgrade is blocked). Nobody has to downgrade,
to start anew or to crash.

## 5. What is proved

For all values of the constants that satisfy the named assumptions (`JobsAssumption`,
`SymbolsAssumption`, `BoundsAssumption`, `FaultsAssumption`; `LimiterAssumption`;
`SymbolAssumption`, `NumbersAssumption`, `InputAssumption`; `StrategyAssumption`,
`InMemoryAssumption`, `MigrationBounds`),
and for `WindowQuota` its `QuotaParameters`.

**`JobPipelineProofs`**: `TypeCorrect` and `CompletedHasAll` (`CompletedHasAllResults`). A row that says
COMPLETED is not inductive by itself: the invariant follows the evidence backwards. `FinInv`: a
callback that will write COMPLETED belongs to a run with a row for every symbol. `PartsInv`: a part
that says ok, and a task past its commit, stand for a row. `JobsInv`: whatever works for a job
knows which (so that the row of a run counts for its job). The step in the middle is the lemma
`AllOk`: as many parts as symbols, none of them anything but ok, leaves no symbol out, by counting.
`CompletedStays` carries it through later steps: rows only accumulate and a run never changes its job. Each
group of actions has one lemma that says what such a step must show (`RequestOnly`, `PipeOnly`,
`TaskOnly`, `FinOnly`). No fault is excluded: that a chord may count a symbol twice
(section 4) does not matter, because then some part is not ok.

**`JobPipelineSerialProofs`**, where no message is delivered again (`NoRedelivery`: "crash" is not
among `Faults`); dead requests, broker and database errors and lost children may happen any number
of times.

* `CallbackAfterTasks` (`FinalizeAfterAllTasks`), for any number of clients, and `VerdictIsTrue`
  (`VerdictMatchesResults`), which also excludes database errors. `ChordInv` says of each run that
  its chord is published once, that a task inserts its row once, and that a part stands for a task
  that is done and says what became of its row; so a full counter has one part for every symbol.
* `OnePipeline` (`AtMostOnePipeline`), `TerminalIsIdle` (`TerminalMeansIdle`), `ErrorsAreOfFailures`
  (`ErrorIffFailed`) and `ImplementsLifecycle` (`LifecycleSpec`: initial state, and each step maps
  to a step of `JobLifecycle` or a stutter), with `OneClient`. `SerialInv` says what ties a row to
  those who work for it: a job that is not RUNNING has nobody at work; the row that a request, the
  failure handler or a callback has loaded is the row that is there, so that an UPDATE of the
  columns that changed writes what a full UPDATE would.

The hypotheses are needed. With "crash" among the faults of one client, TLC finds a counterexample
to each of the six properties; with "db" one to `VerdictMatchesResults` alone: a database error
after the commit reports a stored result as an error. Two clients break `AtMostOnePipeline`
(`double_dispatch`).

**`WindowQuotaProofs`**: `QuotaHolds`. A grant only fills windows that end at or after now, and
every such window that is not past all grants is part of the one that ends now.

**`RedisRateLimiterProofs`**: `TypeCorrect`, `MembershipIsBounded` (both modes),
and for a limiter that fails closed `LiveGrantsAreCounted`, `ImplementsQuota` (refinement of
`WindowQuota`, initial state and step) and `WindowIsBounded`, which follows from the refinement and
`QuotaHolds`. The invariant `ZsetInv` says the key outlives its youngest member by a window, so that expiry of the
key never drops a member that counts; `GrantsInv` says a return still in the window is a member.
`WaitIsSufficient` proves the action property `WaitSuffices` in both modes: unless somebody reserved
since, fewer than `MaxRequests` members will still be in the window when a refused caller's wait is
over (`WaitInv`).

**`MarketDataProofs`**: `TypeCorrect` and `AnswersStored`, for every market; and where no day trades
after midnight UTC only (`~EveningOnly`) `EnsuredReadable`, `BoughtOnce` and `CallsAreBounded`. The
invariant says of every delivery how far it is: a symbol that is no longer to do has bars in the
range (`EnsuredInv`), a symbol task that is over holds bars that are stored (`AnswerInv`), a range
that was answered has a row (`AnsweredInv`, which makes the next check a hit). All of this is stable
because rows are only added, by whichever delivery. The clauses that late bars break carry
`EveningOnly \/ ...`, so that `TableInv` is inductive without a hypothesis; that a series which is
about to be inserted has a bar the select will find comes from `MarketInv` (a day with a late bar has
another one).
`CallsInv` keeps the account that bounds the calls of a delivery: one call for each symbol that is
held or in flight, and one for each retry. Another delivery of the same message starts with an
account of its own and with the retries that are left.
`~EveningOnly` is needed: bars after midnight UTC on the last day of a range are bought but not found
by the select, and if there are no others the range is bought again each time. Regular sessions in
New York never produce one, extended hours in winter do.

**`BollingerReversionProofs`**: `TypeCorrect`, `AlwaysAlternate`, `AlwaysInSession` and
`AlwaysFirstSignals`, for frames, lookbacks and bars of any number. The invariant ties `in_position`
to the parity of the trades, and says that every trade lies before the loop index; a trade appended
at the index then keeps order, session and first-signal claims. The forced exit is the case that
needs an argument of its own: there is a session bar because something was bought on one, and the
last of them is not before the BUY.
`AlwaysMetricsMatch` and `AlwaysWorstFall` are about the equity loop, a recursive function. The
library's induction theorems cannot be used (they take an operator), but induction up to `n` is also
a fact about sets (`UpTo`: a set with 0 that is closed under successors holds all of `0 .. n`), and
with it `Recursion` shows that a function given by its value one before exists. The loop and the
products of the prices are then unfolded one pair at a time: the equity after `k` pairs is the
capital times the products up to trade `2 k` (`Money`), the peak is the highest equity so far and
the drawdown the worst fall so far (`WorstFall`), where fractions are compared by
cross-multiplication and a higher peak makes a worse fall (`FallGrows`). The number of wins and of
trades follows by a bijection between the pairs and their BUYs.

**`InMemoryLimiterProofs`**: `TypeCorrect`, `DequeIsBounded`, `ImplementsQuota`, `SleepIsNeeded`. The
deque is ordered and holds every grant of the window; when the append comes, the time since the
look at the length, or the sleep, has moved the oldest of `max_requests` entries out of the window
that ends now, which is why one look is enough for one caller.

**`MigrationsProofs`**: `TypeCorrect`, `SchemaIsVersioned` (`VersionMatchesSchema`), `HeadMatches`
(`HeadMatchesModels`) and `FailuresAreBlocked` (the action property `FailsOnlyWhenBlocked`). The invariant is
the property with the fact that two version rows are always the first revision's and another. The
lemmas `SchemaTells` (what the guards of a revision say of the version), `Upgraded` and
`Downgraded` (each revision, up and down, from one `SchemaAt` to the next) carry the steps; a
migrator that works from an outdated plan is stopped by the objects or by the number, except at
the first revision, which finds its work done. `HeadMatches` adds up the five revisions, one
`SchemaAt` after the other; `FailuresAreBlocked` rests on the lemma
`NotApplicable`: where the version is the migrator's, the objects are those of `SchemaAt`, and only
an enum type that stayed or a stored job is in a revision's way.

**Only model-checked:** what needs fairness (`RunningResolves`, `AcquireEnds` of the Redis limiter, `UpgradeEnds`), which
the provers cannot do. Every other property of a passing run is proved.

## 6. Not modelled

No liveness is checked of `MarketData`: its waits are those of the limiter. Left out for good: the
indicator arithmetic (floating point in a library), the provider's pages, HTTP client and mapper
(one-to-one), two threads in the in-process limiter, the registry and the JSON of results, request
and response models, exception handlers, health, strategy, listing and debug routes (stateless),
the async Redis client (one line per Redis command, and no job path uses it), the offline mode of
alembic, configuration and logging. The `job_events` table is part of the schema in `Migrations`;
no code writes or reads it. Redis is taken to keep its data and a steady clock; a restart forgets
the limiter's window.

## 7. Running

    tlc -config pipeline_serial.cfg MCJobPipeline.tla      # and so on, one .cfg per run
    tlapm JobPipelineProofs.tla
