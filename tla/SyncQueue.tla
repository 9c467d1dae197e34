------------------------------ MODULE SyncQueue ------------------------------
(***************************************************************************)
(* The sync job queue: the table sync_jobs, the request handlers that put  *)
(* jobs on it, and the worker loop that recovers, schedules and runs them. *)
(*                                                                         *)
(* Every step is one committed transaction of the repository, or one read  *)
(* whose result a later step uses; between two steps of a process any      *)
(* other process may take any number of steps.                             *)
(*                                                                         *)
(* A row of the table is an element of JobIds.  Nothing looks at a row in  *)
(* a terminal status again, except a worker that still holds it: the model *)
(* drops the row when the last holder lets go and gives its id to a later  *)
(* job.  JobIds bounds the rows that matter at one time, not the jobs of a *)
(* behaviour; as many ids as keys and workers are always enough.           *)
(***************************************************************************)
EXTENDS Naturals, FiniteSets

CONSTANTS
  Markets,      \* MARKET_CODES
  Symbols,      \* symbols that requests name
  Indexes,      \* the symbols that start with "^": they have no flows
  Requesters,   \* concurrent request handlers of the API and the MCP server
  Workers,      \* worker processes; the deployment runs one
  JobIds,       \* ids of table rows
  NoJob,        \* no row
  NoKey,        \* no key
  Rank,         \* the order in which a list of keys is enqueued
  MaxAttempts,  \* settings.sync_max_attempts
  MaxFaults,    \* bound: worker crashes and broken sessions in a behaviour
  Stamps,       \* the times of settings.sync_daily_time
  Days,         \* bound: the days of a behaviour are 1 .. Days
  Weekdays      \* the days the refresh runs on

MarketKey(m)       == <<"market", m>>
SymbolKey(s)       == <<"symbol", s>>
InstitutionsKey(s) == <<"institutions", s>>
MarketKeys == {MarketKey(m) : m \in Markets}

(* The two jobs request_symbol_sync queues for one symbol; the daily       *)
(* refresh queues the same two for every tracked symbol.                   *)
SymbolKeys(s) ==
  {SymbolKey(s)} \cup (IF s \in Indexes THEN {} ELSE {InstitutionsKey(s)})

Keys == MarketKeys \cup UNION {SymbolKeys(s) : s \in Symbols}

ASSUME MaxAttemptsAssumption == MaxAttempts \in Nat \ {0}
ASSUME BoundsAssumption == MaxFaults \in Nat /\ Days \in Nat
ASSUME IndexesAssumption == Indexes \subseteq Symbols
ASSUME JobIdsAssumption == NoJob \notin JobIds
ASSUME NoKeyAssumption == NoKey \notin Keys
ASSUME ProcessesAssumption == Requesters \cap Workers = {}
ASSUME RankAssumption ==
  /\ Rank \in [Keys -> Nat]
  /\ \A k, l \in Keys : Rank[k] = Rank[l] => k = l

VARIABLES
  status,       \* sync_jobs.status, by row
  key,          \* sync_jobs.(kind, symbol)
  attempts,     \* sync_jobs.attempts
  overdue,      \* a running row: started_at is past the stale cutoff
  older,        \* <<i, j>>: row i was created before row j (created_at)
  tracked,      \* symbols with an instrument row of market TW or TWO
  marketStored, \* market_stock_daily has rows
  day,          \* today in Taipei
  passed,       \* the stamps that have passed today
  ledger,       \* fetch_coverage entries of the scheduler: <<day, stamp>>
  pc,           \* where each process is
  todo,         \* the keys a process still has to enqueue
  conflict,     \* the key whose insert met an active row
  held,         \* the job a worker has claimed, and its attempts at the claim
  periods,      \* the ledger entries a worker's refresh will record
  faults,       \* crashes and broken sessions so far
  owed          \* history: keys a refresh asked for and no claim served since

tableVars == <<status, key, attempts, overdue, older>>
dataVars  == <<tracked, marketStored>>
clockVars == <<day, passed>>
procVars  == <<pc, todo, conflict, held, periods>>
vars == <<tableVars, dataVars, clockVars, ledger, procVars, faults, owed>>

-----------------------------------------------------------------------------
Processes == Requesters \cup Workers
Active    == {"queued", "running"}
Terminal  == {"completed", "failed"}
Asking    == {"asking", "ensuring", "markets", "symbols"}
Refreshing == {"markets", "symbols"}
Unheld    == [job |-> NoJob, attempts |-> 0]

(* Mutant: the unique index covers the queued rows only.                   *)
QueuedOnly(k) == {j \in JobIds : status[j] = "queued" /\ key[j] = k}

ActiveJobs(k) == {j \in JobIds : status[j] \in Active /\ key[j] = k}

Rows == {j \in JobIds : status[j] # "absent"}

IsFirst(k, T) == k \in T /\ \A l \in T : Rank[k] <= Rank[l]

IsOldestQueued(j) ==
  /\ status[j] = "queued"
  /\ \A i \in JobIds : status[i] = "queued" => <<i, j>> \notin older

(* Mutant: weekdays counted from one instead of zero.                      *)
DueTomorrow == IF day + 1 \in Weekdays THEN {<<day, s>> : s \in passed} \ ledger
               ELSE {}

(* The ledger entries that are due now and not yet recorded.               *)
DuePeriods == IF day \in Weekdays THEN {<<day, s>> : s \in passed} \ ledger
              ELSE {}

Goto(p, l) == pc' = [pc EXCEPT ![p] = l]

(* The session is closed and every local of the process is gone.           *)
Forget(p, l) ==
  /\ Goto(p, l)
  /\ todo' = [todo EXCEPT ![p] = {}]
  /\ conflict' = [conflict EXCEPT ![p] = NoKey]
  /\ held' = [held EXCEPT ![p] = Unheld]
  /\ periods' = [periods EXCEPT ![p] = {}]

TypeOK ==
  /\ status \in [JobIds -> Active \cup Terminal \cup {"absent"}]
  /\ key \in [JobIds -> Keys \cup {NoKey}]
  /\ attempts \in [JobIds -> Nat]
  /\ overdue \in [JobIds -> BOOLEAN]
  /\ older \subseteq JobIds \X JobIds
  /\ tracked \subseteq Symbols
  /\ marketStored \in BOOLEAN
  /\ day \in Nat /\ passed \subseteq Stamps
  /\ ledger \subseteq Nat \X Stamps
  /\ pc \in [Processes -> Asking \cup {"idle", "error", "down", "tick",
               "ensure", "daily", "claim", "run", "finish", "fail"}]
  /\ todo \in [Processes -> SUBSET Keys]
  /\ conflict \in [Processes -> Keys \cup {NoKey}]
  /\ held \in [Processes -> [job : JobIds \cup {NoJob}, attempts : Nat]]
  /\ periods \in [Processes -> SUBSET (Nat \X Stamps)]
  /\ faults \in Nat
  /\ owed \subseteq Keys

Init ==
  /\ status = [j \in JobIds |-> "absent"]
  /\ key = [j \in JobIds |-> NoKey]
  /\ attempts = [j \in JobIds |-> 0]
  /\ overdue = [j \in JobIds |-> FALSE]
  /\ older = {}
  /\ tracked = {} /\ marketStored = FALSE
  /\ day = 1 /\ passed = {} /\ ledger = {}
  /\ pc = [p \in Processes |-> IF p \in Workers THEN "down" ELSE "idle"]
  /\ todo = [p \in Processes |-> {}]
  /\ conflict = [p \in Processes |-> NoKey]
  /\ held = [p \in Processes |-> Unheld]
  /\ periods = [p \in Processes |-> {}]
  /\ faults = 0 /\ owed = {}

-----------------------------------------------------------------------------
(* enqueue_sync_job, first transaction: INSERT .. ON CONFLICT DO NOTHING   *)
(* on the partial unique index of active (kind, symbol).                   *)

InsertJob(p, k) ==
  /\ ActiveJobs(k) = {}
  /\ \E j \in JobIds \ Rows :
       /\ status' = [status EXCEPT ![j] = "queued"]
       /\ key' = [key EXCEPT ![j] = k]
       /\ older' = older \cup {<<i, j>> : i \in Rows}
  /\ todo' = [todo EXCEPT ![p] = @ \ {k}]
  /\ UNCHANGED <<attempts, overdue, conflict>>

(* Mutant: the row's id is kept where its key is expected.                 *)
KeepsRowId(p, k) ==
  /\ ActiveJobs(k) # {}
  /\ \E j \in ActiveJobs(k) : conflict' = [conflict EXCEPT ![p] = j]
  /\ UNCHANGED <<tableVars, todo>>

InsertConflicts(p, k) ==
  /\ ActiveJobs(k) # {}
  /\ conflict' = [conflict EXCEPT ![p] = k]
  /\ UNCHANGED <<tableVars, todo>>

Enqueue(p) ==
  /\ pc[p] \in Asking /\ conflict[p] = NoKey
  /\ \E k \in todo[p] :
       /\ IsFirst(k, todo[p])
       /\ InsertJob(p, k) \/ InsertConflicts(p, k)
       /\ owed' = IF pc[p] \in Refreshing THEN owed \cup {k} ELSE owed
  /\ UNCHANGED <<dataVars, clockVars, ledger, pc, held, periods, faults>>

(* enqueue_sync_job, second transaction: SELECT the active row and take    *)
(* scalar_one of it.                                                       *)
ReadExisting(p) ==
  /\ conflict[p] # NoKey
  /\ ActiveJobs(conflict[p]) # {}
  /\ todo' = [todo EXCEPT ![p] = @ \ {conflict[p]}]
  /\ conflict' = [conflict EXCEPT ![p] = NoKey]
  /\ UNCHANGED <<tableVars, dataVars, clockVars, ledger, pc, held, periods,
                 faults, owed>>

(* The row became terminal since the insert met it: scalar_one raises.  A  *)
(* request answers 500; in the worker the exception ends the tick.         *)
ExistingGone(p) ==
  /\ conflict[p] # NoKey
  /\ ActiveJobs(conflict[p]) = {}
  /\ Forget(p, IF p \in Workers THEN "tick" ELSE "error")
  /\ UNCHANGED <<tableVars, dataVars, clockVars, ledger, faults, owed>>

-----------------------------------------------------------------------------
(* Request handlers.                                                       *)

(* ensure_symbol_bar_coverage queues the price job alone; the overview and *)
(* the watchlist call request_symbol_sync, which queues both.              *)
Request(r) ==
  /\ pc[r] \in {"idle", "error"}
  /\ \E s \in Symbols : \E ks \in {{SymbolKey(s)}, SymbolKeys(s)} :
       todo' = [todo EXCEPT ![r] = ks]
  /\ Goto(r, "asking")
  /\ UNCHANGED <<tableVars, dataVars, clockVars, ledger, conflict, held,
                 periods, faults, owed>>

Respond(r) ==
  /\ pc[r] = "asking" /\ todo[r] = {}
  /\ Goto(r, "idle")
  /\ UNCHANGED <<tableVars, dataVars, clockVars, ledger, todo, conflict, held,
                 periods, faults, owed>>

(* The API process stops in the middle of a request.                       *)
Abandon(r) ==
  /\ pc[r] = "asking"
  /\ Forget(r, "idle")
  /\ UNCHANGED <<tableVars, dataVars, clockVars, ledger, faults, owed>>

-----------------------------------------------------------------------------
(* The worker: run_forever and tick.                                       *)

Start(w) ==
  /\ pc[w] = "down"
  /\ Goto(w, "tick")
  /\ UNCHANGED <<tableVars, dataVars, clockVars, ledger, todo, conflict, held,
                 periods, faults, owed>>

(* Mutants: recovery gives stale jobs up, or leaves them alone.            *)
GivesUp(j) ==
  IF status[j] = "running" /\ overdue[j] THEN "failed" ELSE status[j]
NeverRecovers(j) == status[j]

Recovered(j) ==
  IF status[j] = "running" /\ overdue[j] THEN "queued" ELSE status[j]

RequeueStale(w) ==
  /\ pc[w] = "tick"
  /\ status' = [j \in JobIds |-> Recovered(j)]
  /\ overdue' = [j \in JobIds |-> FALSE]
  /\ Goto(w, "ensure")
  /\ UNCHANGED <<key, attempts, older, dataVars, clockVars, ledger, todo,
                 conflict, held, periods, faults, owed>>

(* ensure_market_snapshots: the first backfill, while no rows are stored.  *)
EnsureMarketSnapshots(w) ==
  /\ pc[w] = "ensure"
  /\ IF marketStored
     THEN Goto(w, "daily") /\ UNCHANGED todo
     ELSE Goto(w, "ensuring") /\ todo' = [todo EXCEPT ![w] = MarketKeys]
  /\ UNCHANGED <<tableVars, dataVars, clockVars, ledger, conflict, held,
                 periods, faults, owed>>

SnapshotsEnsured(w) ==
  /\ pc[w] = "ensuring" /\ todo[w] = {}
  /\ Goto(w, "daily")
  /\ UNCHANGED <<tableVars, dataVars, clockVars, ledger, todo, conflict, held,
                 periods, faults, owed>>

(* enqueue_daily_refresh: the periods due and not in the ledger, then the  *)
(* market jobs, then the jobs of the symbols tracked by now, and only then *)
(* the ledger.                                                             *)
DailyRefresh(w) ==
  /\ pc[w] = "daily"
  /\ IF DuePeriods = {}
     THEN Goto(w, "claim") /\ UNCHANGED <<todo, periods>>
     ELSE /\ Goto(w, "markets")
          /\ todo' = [todo EXCEPT ![w] = MarketKeys]
          /\ periods' = [periods EXCEPT ![w] = DuePeriods]
  /\ UNCHANGED <<tableVars, dataVars, clockVars, ledger, conflict, held,
                 faults, owed>>

(* Mutant: the refresh forgets the institutional flows.                    *)
PricesOnly == {SymbolKey(s) : s \in tracked}

TrackedKeys == UNION {SymbolKeys(s) : s \in tracked}

ListTracked(w) ==
  /\ pc[w] = "markets" /\ todo[w] = {}
  /\ Goto(w, "symbols")
  /\ todo' = [todo EXCEPT ![w] = TrackedKeys]
  /\ UNCHANGED <<tableVars, dataVars, clockVars, ledger, conflict, held,
                 periods, faults, owed>>

RecordRefresh(w) ==
  /\ pc[w] = "symbols" /\ todo[w] = {}
  /\ ledger' = ledger \cup periods[w]
  /\ periods' = [periods EXCEPT ![w] = {}]
  /\ Goto(w, "claim")
  /\ UNCHANGED <<tableVars, dataVars, clockVars, todo, conflict, held, faults,
                 owed>>

(* Mutant: the row is read before the claim counts the attempt.            *)
ReadBeforeClaim(j) == [job |-> j, attempts |-> attempts[j]]

Claimed(j) == [job |-> j, attempts |-> attempts[j] + 1]

ClaimNext(w) ==
  /\ pc[w] = "claim"
  /\ \E j \in JobIds :
       /\ IsOldestQueued(j)
       /\ status' = [status EXCEPT ![j] = "running"]
       /\ attempts' = [attempts EXCEPT ![j] = @ + 1]
       /\ held' = [held EXCEPT ![w] = Claimed(j)]
       /\ owed' = owed \ {key[j]}
  /\ Goto(w, "run")
  /\ UNCHANGED <<key, overdue, older, dataVars, clockVars, ledger, todo, conflict,
                 periods, faults>>

(* The queue is empty: sleep for sync_poll_seconds, then the next tick.    *)
QueueEmpty(w) ==
  /\ pc[w] = "claim"
  /\ \A j \in JobIds : status[j] # "queued"
  /\ Goto(w, "tick")
  /\ UNCHANGED <<tableVars, dataVars, clockVars, ledger, todo, conflict, held,
                 periods, faults, owed>>

(* What a run may have stored when it ends: a price job the instrument of  *)
(* its symbol, a market job the first whole-market rows.                   *)
Stores(k) ==
  /\ tracked' \in {tracked} \cup {tracked \cup {s} : s \in {t \in Symbols :
                                                       k = SymbolKey(t)}}
  /\ marketStored' \in {marketStored, marketStored \/ k \in MarketKeys}

(* run_sync_job returns, or raises; the outcome is written in a later      *)
(* transaction.                                                            *)
RunEnds(w) ==
  /\ pc[w] = "run"
  /\ Stores(key[held[w].job])
  /\ Goto(w, "finish") \/ Goto(w, "fail")
  /\ UNCHANGED <<tableVars, clockVars, ledger, todo, conflict, held, periods,
                 faults, owed>>

(* The row that w holds has status s from now on, and w lets go of it.     *)
Release(w, s) ==
  LET j == held[w].job
      kept == s \in Active \/ \E v \in Workers \ {w} : held[v].job = j
  IN /\ status' = [status EXCEPT ![j] = IF kept THEN s ELSE "absent"]
     /\ key' = [key EXCEPT ![j] = IF kept THEN @ ELSE NoKey]
     /\ attempts' = [attempts EXCEPT ![j] = IF kept THEN @ ELSE 0]
     /\ overdue' = [overdue EXCEPT ![j] = @ /\ s = "running"]
     /\ older' = {e \in older : kept \/ (e[1] # j /\ e[2] # j)}

CompleteJob(w) ==
  /\ pc[w] = "finish"
  /\ Release(w, "completed")
  /\ Forget(w, "tick")
  /\ UNCHANGED <<dataVars, clockVars, ledger, faults, owed>>

(* fail_sync_job: back to the queue while attempts remain, but the unique  *)
(* index refuses that when another row of the key is active by now; then   *)
(* the exception ends the tick and the row stays as it is.                 *)
RetriesOnceMore(w) == held[w].attempts <= MaxAttempts  \* mutant

Retry(w) == held[w].attempts < MaxAttempts

IndexAllows(j) == ActiveJobs(key[j]) \subseteq {j}

FailJob(w) ==
  /\ pc[w] = "fail"
  /\ Release(w, IF ~Retry(w) THEN "failed"
                ELSE IF IndexAllows(held[w].job) THEN "queued"
                ELSE status[held[w].job])
  /\ Forget(w, "tick")
  /\ UNCHANGED <<dataVars, clockVars, ledger, faults, owed>>

(* The tick ends early.  A job that was claimed stays "running" in the      *)
(* table, whatever its run had stored by then.                             *)
Interrupt(w, l) ==
  /\ pc[w] # "down" /\ faults < MaxFaults
  /\ IF pc[w] = "run" THEN Stores(key[held[w].job]) ELSE UNCHANGED dataVars
  /\ IF held[w].job = NoJob THEN UNCHANGED tableVars
     ELSE Release(w, status[held[w].job])
  /\ faults' = faults + 1
  /\ Forget(w, l)
  /\ UNCHANGED <<clockVars, ledger, owed>>

(* A database error: the transaction is broken, so the fail_sync_job that  *)
(* would record it raises as well, and run_forever goes to the next tick.  *)
SessionBreaks(w) == pc[w] # "tick" /\ Interrupt(w, "tick")

(* The process stops.                                                      *)
Crash(w) == Interrupt(w, "down")

-----------------------------------------------------------------------------
(* Time.                                                                   *)

(* Mutant: a time limit ends the job instead of marking it.                *)
Expire(j) ==
  /\ status[j] = "running" /\ ~overdue[j]
  /\ status' = [status EXCEPT ![j] = "failed"]
  /\ UNCHANGED <<key, attempts, overdue, older, dataVars, clockVars, ledger,
                 procVars, faults, owed>>

GrowStale(j) ==
  /\ status[j] = "running" /\ ~overdue[j]
  /\ overdue' = [overdue EXCEPT ![j] = TRUE]
  /\ UNCHANGED <<status, key, attempts, older, dataVars, clockVars, ledger,
                 procVars, faults, owed>>

StampPasses ==
  /\ \E s \in Stamps \ passed : passed' = passed \cup {s}
  /\ UNCHANGED <<tableVars, dataVars, day, ledger, procVars, faults, owed>>

Midnight ==
  /\ day < Days
  /\ day' = day + 1 /\ passed' = {}
  /\ UNCHANGED <<tableVars, dataVars, ledger, procVars, faults, owed>>

-----------------------------------------------------------------------------
Enqueues(p) == Enqueue(p) \/ ReadExisting(p) \/ ExistingGone(p)

Tick(w) ==
  \/ RequeueStale(w) \/ EnsureMarketSnapshots(w) \/ SnapshotsEnsured(w)
  \/ DailyRefresh(w) \/ ListTracked(w) \/ RecordRefresh(w)
  \/ ClaimNext(w) \/ QueueEmpty(w)
  \/ RunEnds(w) \/ CompleteJob(w) \/ FailJob(w)

RequesterStep(r) == Request(r) \/ Respond(r) \/ Abandon(r) \/ Enqueues(r)
WorkerStep(w) ==
  Start(w) \/ Tick(w) \/ Enqueues(w) \/ SessionBreaks(w) \/ Crash(w)
ClockStep == StampPasses \/ Midnight \/ \E j \in JobIds : GrowStale(j)

Next ==
  \/ \E r \in Requesters : RequesterStep(r)
  \/ \E w \in Workers : WorkerStep(w)
  \/ ClockStep

(* A worker that is up takes its steps (upstream calls have time-outs and  *)
(* a bounded number of retries), the container is restarted when it stops, *)
(* a handler goes on with its request, and time passes.                    *)
Fairness ==
  /\ \A w \in Workers : WF_vars(Start(w)) /\ WF_vars(Tick(w) \/ Enqueues(w))
  /\ \A r \in Requesters : WF_vars(Respond(r) \/ Enqueues(r))
  /\ \A j \in JobIds : WF_vars(GrowStale(j))

Spec == Init /\ [][Next]_vars
FairSpec == Spec /\ Fairness
-----------------------------------------------------------------------------
(* Properties.                                                             *)

(* At most one queued or running row per (kind, symbol), through retries,  *)
(* recoveries and concurrent requests (uq_sync_jobs_active).               *)
OneActivePerKey ==
  \A i, j \in JobIds :
    status[i] \in Active /\ status[j] \in Active /\ key[i] = key[j] => i = j

(* A claimed job is nobody else's: while a live worker holds a row it is   *)
(* running, so no other claim can take it and no request can duplicate it. *)
(* It rests on recovery happening only between two jobs of one worker: a   *)
(* whole-market run is longer than sync_stale_after_seconds.               *)
HeldIsRunning ==
  \A w \in Workers : held[w].job # NoJob =>
    /\ status[held[w].job] = "running"
    /\ held[w].attempts = attempts[held[w].job]
    /\ \A v \in Workers \ {w} : held[v].job # held[w].job

(* A job is claimed at most MaxAttempts times, plus once for every tick    *)
(* that was cut off: recovery does not look at the attempts.               *)
AttemptsBounded == \A j \in JobIds : attempts[j] <= MaxAttempts + faults

(* A refresh is not lost to deduplication: what it asked for and no claim  *)
(* has served since is waiting in the table, and no live worker is in the  *)
(* middle of a run of it that began before the refresh.                    *)
OwedIsPending ==
  \A k \in owed : \E j \in ActiveJobs(k) : \A w \in Workers : held[w].job # j

(* The scheduler's own enqueue never meets a row that is gone by the time  *)
(* it reads it, so an exception in enqueue_sync_job never ends a tick.     *)
SchedulerReadsItsConflict ==
  \A w \in Workers : conflict[w] # NoKey => ActiveJobs(conflict[w]) # {}

(* The inductive invariant behind the four, for a deployment of one worker.*)
Busy == {"run", "finish", "fail"}

HoldsWhileBusy ==
  /\ \A r \in Requesters : pc[r] \in {"idle", "error", "asking"}
  /\ \A w \in Workers : /\ held[w].job # NoJob <=> pc[w] \in Busy
                        /\ conflict[w] # NoKey =>
                             pc[w] \in Asking /\ conflict[w] \in todo[w]

AbsentIsBlank == \A j \in JobIds : status[j] = "absent" => attempts[j] = 0

(* A row that can still be claimed has an attempt left.                    *)
PendingHasAttempt ==
  \A j \in JobIds :
    \/ status[j] = "queued"
    \/ status[j] = "running" /\ \A w \in Workers : held[w].job # j
    => attempts[j] < MaxAttempts + faults

SingleWorkerInv ==
  /\ HoldsWhileBusy /\ AbsentIsBlank /\ HeldIsRunning
  /\ AttemptsBounded /\ PendingHasAttempt
  /\ OwedIsPending /\ SchedulerReadsItsConflict

(* The ledger vouches for the refresh: a period is recorded only when each *)
(* market and each tracked symbol was asked for since its last claim.      *)
RecordedIsEnqueued ==
  [][\A w \in Workers : ledger' # ledger =>
       MarketKeys \cup UNION {SymbolKeys(s) : s \in tracked} \subseteq owed]_vars

(* A request never raises from enqueue_sync_job: it is answered with the   *)
(* job it created or with the one it was collapsed into.                   *)
EnqueueIsHarmless == \A r \in Requesters : pc[r] # "error"

(* Every queued job is eventually completed or given up.                   *)
QueuedJobsEnd ==
  \A j \in JobIds : status[j] = "queued" ~> status[j] \notin Active

(* A period that is due is recorded, unless its day ends first.            *)
DuePeriodsRecorded ==
  \A d \in Weekdays : \A s \in Stamps :
    (day = d /\ s \in passed) ~> (<<d, s>> \in ledger \/ day # d)

(* What a refresh asked for is claimed after it asked.                     *)
RefreshIsServed == \A k \in Keys : k \in owed ~> k \notin owed

-----------------------------------------------------------------------------
(* The desk that the table implements.                                     *)
deskOf ==
  [k \in Keys |->
     IF \E j \in ActiveJobs(k) : status[j] = "running" THEN "crawling"
     ELSE IF ActiveJobs(k) # {} THEN "waiting" ELSE "idle"]

Desk == INSTANCE CrawlDesk WITH desk <- deskOf

(* One worker's queue keeps the promise of CrawlDesk: deduplication,       *)
(* retries, crashes and recovery never drop a request, start a crawl that  *)
(* nobody asked for, or end one that is waiting.                           *)
ImplementsDesk == Desk!Spec

(* With a running worker, what is asked for is crawled and ends.           *)
ImplementsFairDesk == Desk!FairSpec
=============================================================================
