------------------------------ MODULE Analysis ------------------------------
(***************************************************************************)
(* An analysis of a stock, from the button to the answer: the hook that    *)
(* runs one request at a time and tries again while history is missing     *)
(* (useSyncRetry), the handler that checks the history, queues a job for   *)
(* it or reads it and asks the model, and the worker that fills it.        *)
(*                                                                         *)
(* History is counted in months: 1 .. Window is the lookback of a job, and *)
(* MinMonths of them hold the 60 bars an analysis needs.  A handler goes   *)
(* on after its page has turned to another request.                        *)
(***************************************************************************)
EXTENDS Naturals, FiniteSets

CONSTANTS
  Stock, Benchmark,
  ByHand,       \* the symbols that are also backfilled by hand
  Window,       \* the months of a job's lookback; the last one is open
  MinMonths,    \* minimum_bars
  MaxAttempts,  \* SYNC_MAX_ATTEMPTS
  MaxRuns,      \* bound: how often the button is pressed
  MaxChunks,    \* bound: the deltas of a stream
  MaxFailures   \* bound: jobs that fail, entries that grow old

ASSUME AnalysisAssumption ==
  /\ Stock # Benchmark /\ "none" \notin {Stock, Benchmark}
  /\ ByHand \subseteq {Stock, Benchmark}
  /\ Window \in Nat \ {0} /\ MinMonths \in 1 .. Window
  /\ MaxAttempts \in Nat \ {0} /\ MaxRuns \in Nat
  /\ MaxChunks \in Nat /\ MaxFailures \in Nat

Symbols == {Stock, Benchmark}
Months  == 1 .. Window
Kinds   == {"signal", "stream", "debate", "tool"}

VARIABLES
  kind,     \* what asks: the signal view, the two LLM panels, an MCP tool
  listed,   \* the first month of each symbol with bars at the exchange
  stored,   \* months of each symbol with bars in the table
  covered,  \* months of each symbol with an entry in the coverage ledger
  recent,   \* symbols whose entry of the open month is under 6 hours old
  queued,   \* symbols with an active job
  worker,   \* the run of months it fetches
  manual,   \* history: symbols that a manual backfill was asked for
  failures, \* failures so far
  run,      \* the number of the run, and whether it is under way
  handler,  \* the handler of each attempt
  shown     \* the attempts that what the page shows comes from

store == <<listed, stored, covered, recent, queued, worker, manual, failures>>
page  == <<kind, run, shown>>
analysisVars == <<store, page, handler>>

Attempts == (1 .. MaxRuns) \X (1 .. MaxAttempts)
Current == <<run.number, run.attempt>>
NotBegun == [at |-> "none", symbol |-> Stock, sent |-> 0]
Idle == [symbol |-> "none", months |-> {}, stored |-> FALSE]
Answers == {"ok", "pending", "error"}
Places  == Answers \cup {"none", "quota", "bars", "entry", "read", "context", "model",
                         "plain", "judge", "plain judge"}

AnalysisTypeOK ==
  /\ kind \in Kinds /\ listed \in [Symbols -> Months]
  /\ stored \in [Symbols -> SUBSET Months] /\ covered \in [Symbols -> SUBSET Months]
  /\ recent \subseteq Symbols /\ queued \subseteq Symbols /\ manual \subseteq Symbols
  /\ worker \in [symbol : Symbols \cup {"none"}, months : SUBSET Months,
                 stored : BOOLEAN]
  /\ failures \in 0 .. MaxFailures
  /\ run \in [number : 0 .. MaxRuns, attempt : 0 .. MaxAttempts,
              at : {"idle", "asking", "waiting"}]
  /\ handler \in [Attempts -> [at : Places, symbol : Symbols, sent : 0 .. MaxChunks]]
  /\ shown \subseteq Attempts

(* Earlier syncs may have left any of the months.                          *)
AnalysisInit ==
  /\ kind \in Kinds /\ listed \in [Symbols -> Months]
  /\ covered \in [Symbols -> SUBSET Months]
  /\ stored = [s \in Symbols |-> {m \in covered[s] : m >= listed[s]}]
  /\ recent = {} /\ queued = {} /\ worker = Idle /\ manual = {} /\ failures = 0
  /\ run = [number |-> 0, attempt |-> 0, at |-> "idle"]
  /\ handler = [a \in Attempts |-> NotBegun]
  /\ shown = {}

-----------------------------------------------------------------------------
(* The page.  An answer to an attempt that is over is dropped.             *)
Asks(n, i) ==
  /\ run' = [number |-> n, attempt |-> i, at |-> "asking"]
  /\ handler' = [a \in Attempts |->
       IF a = <<n, i>> THEN [at |-> IF kind \in {"stream", "debate"} THEN "quota"
                                    ELSE "bars",
                             symbol |-> Stock, sent |-> 0]
       ELSE IF handler[a].at \in Answers THEN NotBegun ELSE handler[a]]

(* runStream, runDebate, load: the run under way is aborted.  The panels   *)
(* are emptied first, the signal view keeps what it has until it waits.    *)
Start ==
  /\ run.number < MaxRuns
  /\ Asks(run.number + 1, 1)
  /\ shown' = IF kind = "signal" THEN shown ELSE {}
  /\ UNCHANGED <<kind, store>>

Cancel ==
  /\ run.at # "idle" /\ run' = [run EXCEPT !.at = "idle"]
  /\ UNCHANGED <<kind, shown, store, handler>>

AnyRun(a) == handler[a].at # "none"  \* mutant

(* The page hears the attempt it waits for; an aborted one it does not.    *)
Hears(a) == run.at = "asking" /\ a = Current

Delta(a) ==
  /\ Hears(a) /\ kind = "stream" /\ handler[a].sent > 0 /\ shown' = shown \cup {a}
  /\ UNCHANGED <<kind, run, store, handler>>

(* A result replaces what is shown; the text of a stream is there already. *)
Result(a) ==
  /\ Hears(a) /\ handler[a].at = "ok"
  /\ run' = [run EXCEPT !.at = "idle"]
  /\ shown' = IF kind = "stream" THEN shown ELSE {a}
  /\ UNCHANGED <<kind, store, handler>>

Fails(a) ==
  /\ Hears(a)
  /\ \/ handler[a].at = "error"
     \/ handler[a].at = "pending" /\ (a[2] >= MaxAttempts \/ kind = "tool")
  /\ run' = [run EXCEPT !.at = "idle"]
  /\ shown' = IF kind = "signal" THEN {} ELSE shown
  /\ UNCHANGED <<kind, store, handler>>

Waits(a) ==
  /\ Hears(a) /\ handler[a].at = "pending" /\ a[2] < MaxAttempts /\ kind # "tool"
  /\ run' = [run EXCEPT !.at = "waiting"]
  /\ shown' = IF kind = "signal" THEN {} ELSE shown
  /\ UNCHANGED <<kind, store, handler>>

NeverCounts == run.attempt  \* mutant
NextAttempt == run.attempt + 1

TriesAgain ==
  /\ run.at = "waiting"
  /\ Asks(run.number, NextAttempt)
  /\ shown' = IF kind = "stream" THEN {} ELSE shown
  /\ UNCHANGED <<kind, store>>

-----------------------------------------------------------------------------
(* The handler.                                                            *)
Moves(a, from, to) == handler[a].at = from /\ handler' = [handler EXCEPT ![a].at = to]

Quota(a) ==
  /\ Moves(a, "quota", "bars") \/ Moves(a, "quota", "error")
  /\ UNCHANGED <<store, page>>

Enough(s) == Cardinality(stored[s]) >= MinMonths

(* ensure_symbol_bar_coverage of the stock, then of the benchmark.         *)
Ensured(a) == [handler EXCEPT ![a] =
  [at |-> IF @.symbol = Stock THEN "bars" ELSE "read",
   symbol |-> Benchmark, sent |-> @.sent]]

CountBars(a) ==
  /\ handler[a].at = "bars"
  /\ handler' = IF Enough(handler[a].symbol) THEN Ensured(a)
                ELSE [handler EXCEPT ![a].at = "entry"]
  /\ UNCHANGED <<store, page>>

(* _recently_synced, and else enqueue_sync_job and DataSyncPending.        *)
ReadEntry(a) ==
  LET s == handler[a].symbol IN
  /\ handler[a].at = "entry"
  /\ IF s \in recent THEN handler' = Ensured(a) /\ UNCHANGED queued
     ELSE queued' = queued \cup {s} /\ handler' = [handler EXCEPT ![a].at = "pending"]
  /\ UNCHANGED <<listed, stored, covered, recent, worker, manual, failures, page>>

(* SignalService.analyze: the bars are read again; too few are an error.   *)
ReadBars(a) ==
  /\ Moves(a, "read", IF Enough(Stock) THEN "context" ELSE "error")
  /\ UNCHANGED <<store, page>>

(* The rest of AnalysisContextService.build: the market's environment or   *)
(* the backtest may be missing, which ends the request.                    *)
Context(a) ==
  /\ \/ Moves(a, "context", IF kind \in {"stream", "debate"} THEN "model" ELSE "ok")
     \/ Moves(a, "context", "error")
  /\ UNCHANGED <<store, page>>

(* stream_text: deltas, and then done or an error.                         *)
StreamText(a) ==
  /\ kind = "stream" /\ handler[a].at = "model"
  /\ \/ /\ handler[a].sent < MaxChunks
        /\ handler' = [handler EXCEPT ![a].sent = @ + 1]
     \/ Moves(a, "model", "ok") \/ Moves(a, "model", "error")
  /\ UNCHANGED <<store, page>>

(* complete_json posts again, without response_format, when it is answered *)
(* 400.                                                                    *)
CompleteJson(a, at, again, next) ==
  \/ Moves(a, at, again) \/ Moves(a, at, next) \/ Moves(a, at, "error")
  \/ Moves(a, again, next) \/ Moves(a, again, "error")

(* DebateAnalysisService: both researchers, then the judge.                *)
Debate(a) ==
  /\ kind = "debate"
  /\ \/ CompleteJson(a, "model", "plain", "judge")
     \/ CompleteJson(a, "judge", "plain judge", "ok")
  /\ UNCHANGED <<store, page>>

HandlerStep(a) ==
  \/ Quota(a) \/ CountBars(a) \/ ReadEntry(a) \/ ReadBars(a) \/ Context(a)
  \/ StreamText(a) \/ Debate(a)

-----------------------------------------------------------------------------
(* The store: the worker, manual backfills and the clock.                  *)
Pending(s) == {m \in Months : m \notin covered[s] \/ m = Window}

LastRun(S) == {m \in S : \A n \in m .. Window : n \in S}  \* mutant

(* The first of _consecutive_runs.                                         *)
FirstRun(S) == {m \in S : \A n \in Months : n <= m /\ n \notin S =>
                                            \A o \in S : o > n}

Begin ==
  /\ worker = Idle
  /\ \E s \in queued : worker' = [symbol |-> s, months |-> Pending(s), stored |-> FALSE]
  /\ UNCHANGED <<listed, stored, covered, recent, queued, manual, failures>>

(* A run of months is fetched and stored, and then recorded.               *)
StoreRun ==
  LET s == worker.symbol IN
  /\ worker # Idle /\ worker.months # {} /\ ~worker.stored
  /\ stored' = [stored EXCEPT ![s] =
       @ \cup {m \in FirstRun(worker.months) : m >= listed[s]}]
  /\ worker' = [worker EXCEPT !.stored = TRUE]
  /\ UNCHANGED <<listed, covered, recent, queued, manual, failures>>

RecordRun ==
  LET months == FirstRun(worker.months) IN
  /\ worker.stored
  /\ covered' = [covered EXCEPT ![worker.symbol] = @ \cup months]
  /\ recent' = IF Window \in months THEN recent \cup {worker.symbol} ELSE recent
  /\ worker' = [worker EXCEPT !.months = @ \ months, !.stored = FALSE]
  /\ UNCHANGED <<listed, stored, queued, manual, failures>>

JobEnds ==
  /\ worker # Idle /\ worker.months = {}
  /\ worker' = Idle /\ queued' = queued \ {worker.symbol}
  /\ UNCHANGED <<listed, stored, covered, recent, manual, failures>>

(* A job fails for the last time, or is tried again.                       *)
JobFails ==
  /\ worker # Idle /\ failures < MaxFailures /\ failures' = failures + 1
  /\ worker' = Idle
  /\ queued' \in {queued, queued \ {worker.symbol}}
  /\ UNCHANGED <<listed, stored, covered, recent, manual>>

(* POST /sync/symbol of the newest months.                                 *)
ManualBackfill(s) ==
  /\ manual' = manual \cup {s} /\ s \notin manual
  /\ \E from \in Months :
       /\ stored' = [stored EXCEPT ![s] = @ \cup {m \in from .. Window : m >= listed[s]}]
       /\ covered' = [covered EXCEPT ![s] = @ \cup from .. Window]
  /\ recent' = recent \cup {s}
  /\ UNCHANGED <<listed, queued, worker, failures>>

EntryAges(s) ==
  /\ s \in recent /\ recent' = recent \ {s}
  /\ failures < MaxFailures /\ failures' = failures + 1
  /\ UNCHANGED <<listed, stored, covered, queued, worker, manual>>

StoreStep ==
  /\ \/ Begin \/ StoreRun \/ RecordRun \/ JobEnds \/ JobFails
     \/ (\E s \in ByHand : ManualBackfill(s)) \/ (\E s \in Symbols : EntryAges(s))
  /\ UNCHANGED <<page, handler>>

PageStep(a) == Delta(a) \/ Result(a) \/ Fails(a) \/ Waits(a)

AnalysisNext ==
  \/ Start \/ Cancel \/ TriesAgain \/ StoreStep
  \/ \E a \in Attempts : PageStep(a) \/ HandlerStep(a)

(* The handler of the run's attempt answers, since each of its awaits has  *)
(* a timeout, and the page goes on when it did.  Nothing is assumed of the *)
(* worker.                                                                 *)
RunGoesOn == \/ TriesAgain \/ HandlerStep(Current)
             \/ Result(Current) \/ Fails(Current) \/ Waits(Current)
AnalysisFairness == WF_analysisVars(run.number > 0 /\ run.attempt > 0 /\ RunGoesOn)

AnalysisSpec == AnalysisInit /\ [][AnalysisNext]_analysisVars

-----------------------------------------------------------------------------
(* What the page shows comes from one attempt; a panel shows nothing of an *)
(* earlier run, nor a stream of an earlier attempt, whose handlers go on   *)
(* answering; the signal view shows no other signal while it waits.        *)
ShownIsLatest ==
  /\ Cardinality(shown) <= 1
  /\ kind # "signal" => \A a \in shown : a[1] = run.number
  /\ kind = "stream" => shown \subseteq {Current}
  /\ run.at = "waiting" => shown = {}

(* An analysis that fails for too little history does so when the whole    *)
(* lookback of the stock was fetched just now, whatever was stored before, *)
(* wherever a job failed: the stock is that young.  A manual backfill that *)
(* was shorter may hide that it is not.                                    *)
ShortIsSynced ==
  [][\A a \in Attempts : ReadBars(a) /\ handler'[a].at = "error" =>
       Stock \in manual \/ {m \in Months : m >= listed[Stock]} \subseteq stored[Stock]
    ]_analysisVars

(* A run ends: with a result, an error or, after its last attempt, the     *)
(* answer that the sync takes too long; even if no worker ever comes.      *)
RunsEnd == run.at # "idle" ~> run.at = "idle"
=============================================================================
