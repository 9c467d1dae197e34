# Quant Signal Server: specification

TLA+ modules, TLC configurations and TLAPS proofs for the server in `src/`: a
FastAPI/MCP front over PostgreSQL, a worker process that drains two durable
queues (upstream syncs and backtests), the ledger that makes syncs
incremental, the data derived from what is synced, and the dashboard that
retries until it is there. The quantitative
formulas are pure floating-point code and are not the subject; what is, is who
writes which row when, and what a crash, a retry, a second process or midnight
does to it.

## The system

| Component | State it keeps | Operations | Hard about it | Correct when |
|---|---|---|---|---|
| Sync queue and worker (`application/sync_jobs.py`, `workers/sync.py`, `repository.py:887-986`) | table `sync_jobs`, scheduler entries in `fetch_coverage` | enqueue, claim, complete, fail/retry, stale recovery, first backfill, daily refresh | requests run concurrently with the worker; each call is its own transaction; the worker may stop anywhere | at most one active job per (kind, symbol); no refresh lost to deduplication; every job ends |
| Incremental sync (`application/data_sync.py`, `quant/adjustments.py`) | `daily_bars`, `institutional_flows`, `fetch_coverage` | sync_symbol, sync_institutional_flows | bars and ledger are separate commits; manual backfills run at the same time; today's slice is still open | a covered slice is complete; factors hold exactly the events up to the bar; closed slices get covered |
| Whole-market snapshots and observations (`market_sync.py`, `market_observations.py`) | `market_stock_daily`, `market_observations`, ledger; the index cache of TPEx | newest-first fill, derived scores as the fill goes | a fill of hours that stops anywhere; three states of an open day | a covered session is stored; no score looks ahead; sessions get scored |
| Backfill status, rankings (`market_backfill.py`, `market_rankings.py`) | reads | percent, state, choice of sessions | several reads of tables in motion | never reports complete early; says what it awaits |
| Backtest queue (`workers/backtests.py`, `repository.py:610-661`) | table `backtest_jobs` | create, claim with SKIP LOCKED, complete, fail | crash in the middle of a run; several workers | no job runs twice; each ends |
| Backtest engine, point-in-time selection (`backtest.py`, `quant/point_in_time.py`) | locals of the loop | next-open execution, latest revision available | revisions, rows that become available late | no look-ahead |
| On-demand coverage and the LLM analyst (`ensure_symbol_bar_coverage`, `llm_analysis.py`, dashboard hooks) | the run of the page | count bars, look at the ledger, enqueue, answer 503; stream, debate; retry | handlers that outlive their request, a worker that never comes | every run ends; the page shows one attempt; "too little history" is true |
| Watchlist (server and `use-watchlist.tsx`) | `watchlist_items`; the tab's list | add with limit, remove, optimistic update | concurrent adds, answers out of order | limit holds; what is listed is asked for; the tab shows the server's list |
| Users, sessions, quota, keys (`user_auth.py`, `auth.py`, `security.py`) | `users`, `user_sessions`, `api_keys`, `usage_counters`; state and session cookies | login with state cookie, logout, verify, consume | logins and requests in any order; restarts; midnight | a browser is signed in by its own login; what ended stays ended; the limit holds |
| Providers and report cache (`infrastructure/providers`) | cached reports and indexes | throttled requests, tasks, refusals | settled and open days, tasks behind a failed job | a fetched range is final; every task ends |
| Memory repository (`infrastructure/memory.py`) | lists | the calls of the SQL repository | order, conflicts | the same answers as the tables |
| Formulas, prompts, Kronos, SearxNG, views, deployment | none that matters | | | not modelled |

The pieces meet in PostgreSQL. A request never calls the exchange: it enqueues
a job (or is collapsed into an active one) and answers 503 with `Retry-After`;
the worker claims the job, runs it against the exchange, writes rows and ledger
and completes the job; the page retries. `POST /sync/symbol`, the MCP tool
`sync_symbol_data` and the command line run the same sync inline, next to the
worker. The backtest loop lives in the same process as the sync loop under one
`gather`, so an exception in either stops both until the container is restarted.

`PROJECT.json` lists the components with the files of each, the hazards of the
code at the lines where they bite, and the properties that cover them.

## Modules

| Module | Models |
|---|---|
| `SyncQueue` | the table `sync_jobs`, the handlers that enqueue and the worker's tick |
| `CrawlDesk` | what the queue promises: per key, idle, waiting or crawling |
| `SyncQueueProofs` | type correctness, uniqueness, the single-worker invariant, what a recorded refresh vouches for; SyncQueue with one worker implements CrawlDesk |
| `CoverageSync`, `CoverageSyncProofs` | sync_symbol and sync_institutional_flows with the ledger; covered slices are complete, a lone worker's factors are sound and nothing closed is fetched twice |
| `MarketHistory`, `MarketHistoryProofs` | the newest-first fill of whole-market quotes with its provider's index cache, and the scores derived from it; covered sessions are stored, scores look back, and the reads of MarketReads are honest |
| `MarketReads` | MarketHistory with the status page and the rankings reading between its steps |
| `BacktestQueue` | the backtest table and its workers |
| `PointInTime` | which of the stored records count |
| `Backtest` | the engine's loop over a history and its twin |
| `Stores` | the SQL and the memory repository in step |
| `OfficialReports` | the flows of a range of dates, with tasks, permits and the report cache |
| `DataProofs` | of the four modules before: backtests run once and do not look ahead, the repositories answer alike, fetched flows are final |
| `Access`, `AccessProofs` | login, sessions, keys, quota |
| `Watchlist`, `WatchlistProofs` | the watchlist's handlers and a tab |
| `Analysis` | an analysis from the button to the answer, with the worker that fills its history |
| `ServiceProofs` | of `Analysis`: what the page shows, and when history may be called too short; of the `service` run: its types |
| `FiniteOrder` | lemmas: a family of subsets of a finite set has a smallest one, a finite set of numbers a least and a greatest |
| `MCSyncQueue`, `MCCoverageSync`, `MCMarket`, `MCData`, `MCService` | instances for TLC |

`MCData` and `MCService` check parts that share no state in one run each: a
behaviour is one of the part that `part` names, the others stand still.

### SyncQueue

A step is one committed transaction or one read whose result is used later,
because every repository call commits on its own. `pc` says where a process is
in `tick` (`tick` = about to recover, `ensure`, `ensuring`, `daily`, `markets`,
`symbols`, `claim`, `run`, `finish`, `fail`) or in a request (`asking`). The
insert of `enqueue_sync_job` and its re-read are two actions, `Enqueue` and
`ReadExisting`; `ExistingGone` is the re-read that finds no row. `RequeueStale`,
`EnsureMarketSnapshots`, `DailyRefresh`, `ListTracked`, `RecordRefresh`,
`ClaimNext`, `RunEnds`, `CompleteJob` and `FailJob` are the calls of a tick in
their order. `FailJob` has the three outcomes of the code: given up, queued
again, or refused by the unique index, which ends the tick. `SessionBreaks` is a
database error in a run (the handler that would record the failure raises as
well), `Crash` the end of the process. `GrowStale` is the passage of
`sync_stale_after_seconds` for a running row: at any time, so that no
assumption about the length of a run is made.

Rows that nothing will look at again are dropped and their ids used again, so
that a behaviour is unbounded though the ids are few; with as many ids as keys
and workers an insert always finds one (`OneActivePerKey` and one held row for
each worker). `created_at` is the relation `older`. `lookback_days` and the
back-off delays do not influence the states reached and are left out. A market
job stores its rows and a price job its instrument at some time during the run;
the worker looks at neither before the next tick, so `RunEnds`, `SessionBreaks`
and `Crash` choose. `owed` is a history variable: the keys that a refresh asked
for and no claim has served since.

The daily refresh asks only on weekdays and only for stamps that have passed;
`passed` grows in any order and is emptied by `Midnight`. A refresh reads the
clock once, in `DailyRefresh`.

Outside this module: a manual backfill stores an instrument outside the worker,
which makes a symbol tracked between `ListTracked` and `RecordRefresh`. Its
refresh is then the next one; `RecordedIsEnqueued` speaks of the system
without it.

### CoverageSync

One symbol. A slice is a month of prices, or with `SliceDays = 1` a day of
flows; `ledger[m]` is the Taipei date of `fetched_at`. Factors are real numbers
in the code, products of one ratio for each event; here the factor of a bar is
the set of events in the product, which is what tells a right factor from a
wrong one. `Begin` reads the coverage, `ReadStored` and `ReadKnown` find the
months whose factors may be trusted, then each run of consecutive slices goes
through `FetchBars`, `Adjust` (prior bars and corporate actions), `UpsertBars` and
`RecordCoverage`. `Fail` may strike before any of them: an exception, the 90 s
time-out of the handler, a crash. The worker's window is the last `Lookback`
slices; a `Manual` syncer's caller names any window. `Legacy` are bars of an
older version of the program, stored without coverage, the case the comment at
`data_sync.py:251` is about.

The exchange publishes today's bar at some time before midnight and answers
truly; an upstream that answers a failure as an empty month is listed under the
hazards and not in the model.

### MarketHistory

One market job: `Begin` reads the ledger of the window, then each day goes
through `FetchDay`, `UpsertDay` and `RecordDay`, newest first. After every
`Every`th day that is not the last, and when the fill ends, a scoring pass goes
through `ReadDates`, `ReadTargets`, `BuildScores`, `StoreScores` and `RecordTried`
(`on_progress` and the last `observer.sync` of `run_sync_job`). A score is the set
of sessions whose closes the deques held. `history_sessions` and
`minimum_history` are one constant, as their defaults are equal. The three
stages of `published` are what makes an afternoon run differ from an evening
one: quotes come first, the capital reports later. `rows` are what a fetched day
has: quotes, and reports when they are out. Midnight may pass anywhere in a job;
between an answer and its entry in the ledger only with `LateEntries`, as the entry
takes the clock when it is written (the first of the observations).

`KeepsIndex` tells the providers apart: TPEx looks a day up in the index of its
month, which it reads once in the life of the process (`monthIndex`); TWSE asks
for the day itself.

### MarketReads

`StatusReadsCoverage` and `StatusAnswers` are the reads of the ledger and of the
jobs in `MarketBackfillService.status`; `FillState` is its decision, over every job
that the table may show at that time (a row left `running` by a stopped process
included). `RankingReadsDates`, `RankingReadsNewest` and `RankingAnswers` are the
reads of `MarketRankingService`, with `require_institutional` as a choice. The
entries of a ranking and the percentages of the page are not computed. The fill
asked for by a ranking over an empty table is `EnsureMarketSnapshots` of SyncQueue.

### BacktestQueue, PointInTime, Backtest

`LockOldest` and `Claim` are the locking read and the commit of one transaction;
a row locked by another is skipped. A crash rolls the transaction back and
forgets the held job; its row stays `running`.

A list of records is a function on its positions, of which filters keep some, and
`SelectLatest` is `select_latest_records`: of the candidates of a date (no demo row
within the production dates, or next to enough of them) the first that none
outranks, which is what the loop over `selected` leaves in it; the list it returns,
ordered by date, is a function on the dates.
`Backtest` runs the loop of `BacktestEngine.run` on two histories at once that
agree on everything that was available by the close of the day `known` and are
opposite in all that came later, for every history, every input of the strategy
and every `known`: a property of two executions becomes an invariant of one. A
row's `move` stands for what an engine reads of it and a score is a sum of moves;
which rows enter the score, and when a position changes, is the code's. A
day has one bar, so the loop's index is a date. Costs, metrics and the
floating-point formulas are left out.

### Stores

Each call of the repository goes to `table`, a set of rows with the conflict
clauses of the SQL, and to `memory`, a list that drops the row of the same version
and appends. The lists, totals, statuses and coverage of both are compared: a
SQL list without a total ORDER BY is any order that the clause allows, a sorted
list of memory the one that a stable sort gives, and what is compared is what an
analysis takes from them. A total is the bag of what is added up, so that equal
totals are sums of the same figures. Of news the first `Headlines` of the list are
compared, those an analysis shows.

`Written` are the rows a caller may write: every dataset's, with any contents, and
any version again with others. Observations are rewritten too: by a full rebuild
(`data_sync.py:447-519`), which looks at nothing stored and takes its warm-up from
the caller, and by the demo's seed, which dates the same draws anew each day
(`seed_demo.py:77-202`). There the conflict clauses part, as SQL does nothing and
memory replaces; the history variable `ignored` has the versions of which the table
did not take a write. `SameAnswers` allows an analysis to take another record only of
these, and other headlines only of the moment at which the list is cut, where the
SQL leaves ties in any order. `SameContract` allows neither for records, and fails
(finding 5). A batch is written row by row, but snapshots in statements of 500:
a key twice in one of them would raise in SQL and replace in memory; the reports
of the exchanges list a stock once.

### OfficialReports

`Begin` creates one task for each date of the range; `FromCache`, `Request`,
`Answer` and `Refuse` are a task's steps, `Holders` the permits of the call's
semaphore, `Put` the cache with its eviction: what is put goes to the end in place
of the entry of the same request (`Others`), and the oldest makes room. A `Refuse` ends the call while its
other tasks go on, next to the next call. TWSE then fetches the holding ratio of
the last days one by one (`FetchRatio`), TPEx does not. The clock has two ticks a
date, so that a report is asked for before and after it is published, and
`keeps` is decided before the request as in the code.

### Access

A login is its *flow*: the state, nonce and verifier drawn by `start_login`. A
signed cookie is a record with its signer and its end. `CallbackBegins` opens an
answer of Google in any browser; `ExchangeCode`, `UpsertUser` and `CreateSession`
are the awaits of `complete_login` and what follows it in the handler. `Restart`
loses the handlers under way and draws a new secret, or not when one is
configured. `Principal` and `TouchKey` are the two transactions of a key's check,
`ConsumeUsage` the upsert that counts and decides. `day` is taken before the
count, so midnight may pass between them. `admitted`, `ended` and `origin` are
history variables. Signatures, hashes and tokens are perfect. The password login
of the dashboard keeps no state on the server and is left out.

### Watchlist

`Lookup`, `Lock`, `Exists`, `Count`, `Insert`, `QueueSync` and `List` are the awaits of
an add in their order; those from `Lock` to `Insert` are one transaction, which
holds the advisory lock. The tab sends an add or a remove for a symbol that has
none under way, a refresh aborts the one before, and `Deliver` replaces its list
in the order the answers arrive. `QueueRaises` is an error after the row was
committed.

### Analysis

`run` is the page's loop (`withSyncRetry` under `useSyncRetry`), `handler` the
handler of every attempt, which goes on after its page has turned away, and
`stored`, `covered`, `recent`, `queued`, `worker` the part of the store that decides
between 503, an error and an answer, in months. `kind` is what asks: the signal
view, the LLM stream, the debate or an MCP tool, which does not retry.
`CountBars` and `ReadEntry` are `ensure_symbol_bar_coverage` for the stock and then
the benchmark; `ReadBars` and `Context` what the analysis reads afterwards; the
model answers in deltas, twice for a debate and without `response_format` when
it refuses that. Quota is a choice here (Access counts it). The worker stores
and records run by run, as in CoverageSync.

## Runs

Bounds are the constants of the cfg files. `pass` runs finish; `violation` runs
are the findings below.

| Run | Shows | Bounds |
|---|---|---|
| `queue_single` | type, one active row per key, a held row is running, attempts, owed refreshes pending, the scheduler never trips over its own re-read, a recorded refresh was asked for | one worker, one handler, a market, a stock with two keys, 3 rows, 2 attempts, 1 fault, two days of which one is a weekday |
| `queue_live` | jobs end, due periods are recorded, refreshes are served; the queue implements CrawlDesk with its fairness | one day, one key for the stock |
| `queue_request` | violation: a request raises | |
| `coverage_lone` | complete slices, sound factors, closed months fetched once and covered in the end | 4 months of 2 days beginning in the third, 3 events, 3 legacy bars or fewer, 1 failure; the window always reaches back to the last stored month |
| `coverage_gap` | violation: a factor misses the events of a gap | a manual backfill of any window |
| `market_fill` | covered sessions are stored, no score looks ahead, sessions get scored; the status page is not complete early, a ranking says what it awaits | 4 days of which one is a holiday, scores from 2 sessions, a pass every 2 days, 1 failure, a page that reads at any time |
| `market_index` | violation: a session recorded as a holiday | TPEx, one month |
| `service` | logins, sessions, quota, watchlist and analysis: the ten properties of the three modules | two browsers and two flows of one user over two days, one restart, two sessions of which the second meets requests once the first ended; two requests against a quota of 1; two stocks and two requests on a list of 1; three months, two attempts, two runs, one failed job |
| `data` | no backtest claimed twice and each taken up, no look-ahead, memory and tables answer alike, fetched flows are final, tasks end | 2 workers, 3 jobs, 2 crashes; every history of 4 days; 3 writes of 2 dates, 2 revisions, 2 parts, 2 values, one headline shown; 3 dates, 2 calls, a cache of 2, 1 refusal |
| `stores_contract` | violation: an observation that is kept by the table and replaced in memory | 2 writes |
| `backtest_early` | violation: a backtest trades on branch rows before they are available | branch rows one day late |
| `backtest_stuck` | violation: a backtest stays running | one worker, one crash |

Why the bounds are enough to be interesting: two keys for a stock plus one for a
market make deduplication, order and a partial request possible; two attempts
distinguish a retry from giving up; one fault at any step reaches every crash
point, and the second attempt of the same job meets the recovered row. Three
months give a stored month, a gap and a month after it; four let the worker's
window move past a covered month. Two flows and two browsers give every
confusion of one login with another; a limit of one with two requests is the
counter at its limit; a list of one with two adds is the list at its limit, and
with two requests of a tab their answers cross. Two runs of two attempts have an
aborted handler answer into the next run and into the next attempt. A history of
four days has a decision, a trade after it, the point of that trade and a twin
that parts before each of them. Three rows are two revisions and a conflict, a
cache of two with three settled reports evicts. Every mutant of `PROJECT.json` is
found within these bounds.

The systems of `data`, `service` and `backtest_stuck` come to rest when their
jobs, flows, runs or rows are used up (a bound of the model), and a finished
backtest has no next step, so their configurations, `stores_contract` and
`backtest_early` turn the deadlock check off; all others keep it on. `queue_single` and `queue_request` use
the symmetry of row ids, with safety properties only.

### Fairness

A worker that is up takes its steps: upstream calls have time-outs and a bounded
number of retries, and `run_forever` catches what a tick raises and goes on. A
worker that is down starts again: the containers have `restart: unless-stopped`
(`deploy/coolify/split/worker.yml:37`). A handler goes on with its request. A
running row grows stale: time passes. Faults are bounded (`MaxFaults`,
`MaxFailures`, `MaxCrashes`): liveness says that the system recovers from them,
not that it survives an unending series. Nothing makes a request arrive or a
market be fetched successfully: a job may fail until its attempts run out.
`coverage_lone` takes as fair that the worker's sync is begun again and again,
and `market_fill` that the job is, which is what `RefreshIsServed` and the daily
refresh give.

`AnalysisFairness` is one weak fairness for the run's own attempt: each await of
its handler has a time-out and the page's timer fires. Nothing is assumed of the
worker, of other handlers or of what an answer says; `RunsEnd` therefore holds
when no worker ever comes. `ReportsFairness` is weak fairness of each task: a
request times out, and `asyncio.Semaphore` serves its waiters in order, so a
waiter is not passed over for ever. `data` has the fairness of `BacktestQueue` for
its workers. Nothing in Access, Watchlist and Stores is fair: their properties
are about safety.

## Findings

1. `EnqueueIsHarmless` (`repository.py:925`): a request collapsed into a job that
   ends before the re-read raises. In the worker's own enqueues this cannot
   happen while there is one worker (`SchedulerReadsItsConflict`).
2. `FactorsSound` with a gap (`data_sync.py:370`): the events between the resumed
   bar and the run are lost for the months recorded then and for all that
   resume from them.
3. `CoveredIsStored` for TPEx (`tpex.py:353`): the index of the open month is kept
   for the life of the process; a session that was not in it when it was read is
   taken for a holiday, and recorded as one by the first fetch after midnight.
4. `PositionsIgnoreTheFuture` with branch rows (`chip_flow.py:82`): a backtest with
   the chip filter trades on rows that became available later.
5. `SameContract` (`repository.py:572`): an observation that is written again with other
   contents is kept by the table and replaced in memory.
6. `EveryJobEnds` (`workers/backtests.py:18`): a backtest interrupted by a crash
   stays running.

A second worker is outside what the documents recommend (README:437, for the
load), and outside what the code allows: a job that is still running after
`SYNC_STALE_AFTER_SECONDS` is requeued and claimed by the other worker, and
`complete_sync_job` and `fail_sync_job` write the row without checking who holds
it, so a late failure brings a completed row back. Only uniqueness survives
(`Unique`, proved for any number of workers); the other properties of the queue
are for one worker.

### Observations

What a reader of the code should know besides:

- `fetched_at` is the clock at the recording, not at the answer (`data_sync.py:305`,
  `market_sync.py:97`). A month or day that is asked for before its bar or reports are
  out and recorded after midnight counts as covered without them. With `LongRuns` TRUE
  in `MCCoverageSync_lone.cfg` TLC finds `CoveredIsComplete` violated, with `LateEntries`
  TRUE in `MCMarket_fill.cfg` `CoveredIsStored`.
- After an outage longer than 40 sessions a scoring pass in the middle of the
  newest-first fill uses closes with a hole, and the score stays (`market_sync.py:103`).
  `NoLookAhead` is what holds of every score.
- An add whose enqueue raised, tried again, succeeds without queueing the sync
  (`stocks.py:230`); `ListedIsWanted` excuses the raise.
- The tab takes lists in the order they arrive, so with two requests under way it may
  keep the older one (`use-watchlist.tsx:105`); `LoneAnswersAreCurrent` is for requests
  that do not overlap.
- A report that the exchange refuses, after the close, with an answer that reads
  as a report overwrites the columns of the snapshot with nothing and the day is
  recorded as covered; the same answer for a settled day stays in the cache of
  the process. The models' exchanges answer truly.
- `_login_redirect` deletes the state cookie whatever flow it is of: the answer of
  an older login, or of someone else's, ends a newer login of that browser. It
  then has to be begun again.
- `_recently_synced` looks at the entry of the open month only. A manual backfill
  that was shorter, or a question about an earlier day, is therefore answered
  "insufficient" for up to six hours (`ShortIsSynced` excepts the manual ones).
- A use of the quota is spent before the handler runs, on each automatic retry of
  the page too, and never returned.
- A debate asks both researchers under one `gather`: when one fails the other
  call goes on behind the answered request.
- A backtest over demo rows looks ahead: which demo rows count depends on the
  production dates of the whole input. The invariant is about production rows.
- The repositories differ in calls that nothing makes: `upsert_bars` of several symbols,
  and a snapshot statement with a key twice, raise in SQL only; `market_flow_totals`
  answers dates without rows in memory only. Signals are saved and never read, so
  `save_signal` is not in the model.
- `list_news_items` leaves headlines of the same moment in any order, and an analysis
  shows ten: which of them are shown at the cut is not determined by the rows.

## Proofs

All theorems hold for every value of the constants that satisfies the named
assumptions of the modules.

- `SyncQueueProofs!TypeCorrect`, `Unique`: any number of workers. Uniqueness is
  inductive once `InsertJob` and `FailJob` are seen to look at the same active
  rows and `RequeueStale` to change none from terminal to active.
- `SyncQueueProofs!SingleWorker`: with at most one worker `SingleWorkerInv` is
  invariant. The properties are not inductive alone: a held row stays running
  only because recovery happens when nothing is held (`HoldsWhileBusy`), the
  attempts are bounded because a row that may be claimed has an attempt left
  (`PendingHasAttempt`), and an owed key is pending because only a claim takes
  it out of the queue and a failing run puts it back or had been claimed after
  the refresh. `SingleWorkerClaims`, `AttemptsAreBounded`, `RefreshIsNotLost` and
  `SchedulerIsUndisturbed` state its parts one by one.
- `SyncQueueProofs!LedgerVouches`: `RecordedIsEnqueued`, with at most one worker. While a
  refresh is under way, what it has asked for and what it still has to ask for
  cover the markets, and then the symbols tracked (`RefreshInv`); a second worker
  could claim a key between the two.
- `SyncQueueProofs!QueueImplementsDesk`: under the single-worker invariant, each action
  of the queue is a step of `CrawlDesk` under `deskOf` or leaves it unchanged.
- `CoverageSyncProofs!CoverageTypes`, `CoverageComplete`: with `~LongRuns` (no sync
  is overtaken by midnight), a covered slice is complete. The invariant says
  that what a sync holds between the fetch and the record is all the exchange
  had up to the end of its window, that it is stored before the record, and
  that nothing stored is removed; it needs no assumption on how many syncs run
  or on their windows, so it is also what is known of a worker and manual
  backfills at the same time.
- `CoverageSyncProofs!LoneFetchesOnce`: for a lone worker (`Lone`: one syncer, none
  manual), what is left to fetch is not covered (`ToFetch`). With a manual backfill
  next to it the worker fetches what the backfill just recorded, which is
  wasteful and harmless.
- `CoverageSyncProofs!LoneFactorsSound`, `FactorsSoundInWindow`: for a lone worker,
  `~LongRuns` and no gap (`NoGap`: when no sync runs, a past slice before the window
  has all its bars, or is older than everything stored, or holds bars without a
  ledger entry and will be rebuilt), a recorded bar's factor has exactly the events
  up to it. `LoneInv` says of each place of a sync what its known events, its fetched
  bars and its slices left have in common with the table. The first theorem
  assumes `[]NoGap`, the second bounds the history so that a window reaches over all
  of it. A gap is finding 2, where TLC shows that the property fails; midnight in the
  middle of a sync is the first of the observations.
- `MarketHistoryProofs!SnapshotComplete`: the same argument for the whole-market
  fill: what is in hand between an answer and its entry is what the entry vouches
  for, and midnight does not pass there. It assumes `~KeepsIndex`, the provider
  of TWSE, and `~LateEntries`; finding 3 and the first observation are the other cases.
- `MarketHistoryProofs!MarketTypes`, `ScoresLookBack`: for both providers. That a score
  looks at its own session needs that the targets are among the dates the pass
  read, which holds from `ReadTargets` to `BuildScores` only: between two passes of
  a fill over a gap the newest dates move past an earlier pass's targets. That it
  looks at enough sessions is a fact about the newest of a finite set.
- `MarketHistoryProofs!ReadsTypes`, `RankingIsHonest`, `CompletePageIsRight`: the reads
  between the fill's steps. Rows and reports are never removed, so what a ranking
  read still holds when it is answered; what the status page read of the ledger
  is stored by `CoveredIsStored`, hence the same assumptions for the last.
- `DataProofs!BacktestTypes`, `BacktestsRunOnce`: with any number of workers and
  crashes.
- `DataProofs!EngineTypes`, `BacktestsDoNotLookAhead`: for every history of any length, every
  day `known`, input and end. The twins' positions and trades are equal while the
  loop is at most two days past `known`, their curves while it is not past `known`
  (`TwinsAgree`); afterwards only entries are appended whose dates the property does
  not look at. The lemmas say that an engine asked as of a day up to `known` gets
  the same records from both twins, whatever it computes from them: sums and
  scores stay opaque in the proof. `delay = 0` excludes finding 4.
- `DataProofs!SelectionIgnoresOrder`: `SelectLatest` depends on what is in the list and not
  on its order, when no two records of a date rank the same. It rests on
  `SomeIsSelected`, that every date with a candidate has a selected one.
- `DataProofs!StoresTypes`, `RepositoriesAnswerAlike`: table and list hold the same
  versions, each once, and the same rows but for versions of which the table ignored a
  write, which only observations have (`StoresInv`). Counts and statuses follow by a
  bijection, and where nothing is ignored every answer is a function of the same set:
  lists by the theorem before (rows of a date with equal priority and revision are of
  one version), the headlines because both lists are newest first. For
  observations the records that count are of the same version
  (`VersionsSelected`), so they differ only where a write was ignored.
- `DataProofs!ReportsTypes`, `FetchedFlowsAreFinal`: a cached report is final for a session
  (`HonestCache`), since it is kept only when the date was settled before the
  request (`SettledTasks`), and a done task of a date that was over when its call
  began has the final flow (`TasksInv`, `CallsInv`, `RatiosInv`). An eviction and a
  refusal only take away.
- `AccessProofs!NobodyElsesSession`: each cookie, each callback past its check and each
  token that a browser holds is of a login that began in that browser
  (`SignInv`); a redirect can only take a cookie away, and a restart a callback.
- `AccessProofs!QuotaIsKept`: what was admitted is what was counted (`CountedInv`).
- `AccessProofs!NothingRevives`: a token that ended has no session or one that ran
  out, since a new session gets a token that was never given out (`TokensInv`).
- `AccessProofs!AccessTypes`: counters stay within the calls that were made
  (`AccessInv`).
- `WatchlistProofs!WatchTypes`, `ListKeepsItsLimit`, `ListedWasAskedFor`: a handler between
  the lock and its commit holds the lock, so what it counted is still true when
  it inserts (`LockInv`).
- `WatchlistProofs!LoneTabIsCurrent`: as long as a tab never had two requests under way,
  a list on its way is the list (`AnswerIsList`).
- `ServiceProofs!PageShowsTheLatest`: while a page waits it shows nothing but deltas of
  the attempt it waits for (`AskingInv`), so a late answer of an aborted attempt has
  nothing to be mixed with (`PanelInv`).
- `ServiceProofs!ShortOnlyWhenSynced`: what the ledger covers is stored, what is not
  covered is still to be fetched (`WorkerInv`), so an entry that is recent stands
  for the whole lookback, except after a manual backfill (`RecentInv`,
  `HandlerInv`).
- `ServiceProofs!ServiceTypes`, `DataProofs!DataTypes`: a behaviour of those runs is one of each
  of their parts, so the parts' theorems hold of the runs.

Every invariant and action property of the passing runs is the subject of a
theorem. The assumptions of the theorems are those of the cfg files of these
runs; each of them is named above with what happens without it.

The inductive invariants were first checked by TLC, as invariants of the runs.
Facts that need induction over a finite set (a set of numbers has a greatest
element, hence the newest sessions, the selected record) go through `FiniteOrder`,
which takes a smallest counterexample instead of a predicate.

Only model-checked: all liveness (`QueuedJobsEnd`, `DuePeriodsRecorded`,
`RefreshIsServed`, `ImplementsFairDesk`, `ClosedGetCovered`, `SessionsGetScored`,
`RunsEnd`, `QueuedAreTaken`, `TasksEnd`), since the prover does not reason about
fairness and ENABLED. Folds over sets and the library's filters of sequences are
opaque to it too; what the modules need of them is that equal arguments give
equal results.

## Not modelled, and the plan

Next, in this order:

1. A worker next to manual backfills of any window: which bars keep sound factors
   then, as a weaker invariant than `FactorsSound` that needs neither `Lone` nor
   `NoGap`.
2. Several workers with a stale time longer than every run: which of the
   single-worker properties come back.
3. Refinement of the ledgers: `CoverageSync` and `MarketHistory` both implement "a
   slice is missing, in hand, stored, recorded", which would say once what
   `CoverageComplete` and `SnapshotComplete` say of each.

Left out for good: the floating-point formulas (no state, nothing concurrent; which
records they read is in `Backtest` and `Stores`), prompts, parsing of exchange
reports and of model answers, rendering, the forecast service and the search
proxy, one-shot scripts (`news_sync`, imports), `sync_market_environment` (a manual
full rebuild), migrations and container files. An upstream that answers a
failure as an empty slice is a hazard without a property: nothing in the answer
tells the two apart.
