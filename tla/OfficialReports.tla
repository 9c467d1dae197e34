-------------------------- MODULE OfficialReports --------------------------
(***************************************************************************)
(* A provider of a sync worker fetches the flows of a range of dates: one  *)
(* task per date, a few at a time, through the cache of whole-market daily *)
(* reports that the provider keeps for the life of the process.  The job   *)
(* is one at a time; the tasks of a failed one go on by themselves.        *)
(***************************************************************************)
EXTENDS Naturals, FiniteSets, Sequences, SequencesExt

CONSTANTS
  LastDate,     \* bound: the calendar is 1 .. LastDate
  Sessions,     \* the dates with a trading session
  Ranges,       \* bound: the calls of fetch_institutional_flows
  Concurrency,  \* permits of a call's semaphore
  MaxEntries,   \* of ReportCache
  MaxRatios,    \* flows that get a holding ratio (7)
  MaxRefused    \* bound: requests that fail all their attempts

ASSUME ReportsAssumption ==
  /\ LastDate \in Nat \ {0} /\ Sessions \subseteq 1 .. LastDate
  /\ Concurrency \in Nat \ {0} /\ MaxEntries \in Nat \ {0}
  /\ MaxRatios \in Nat /\ MaxRefused \in Nat

VARIABLES
  exchange,  \* which exchange the provider is of
  clock,     \* two ticks a date: before and after it is published
  cache,     \* _report_cache, the most recently used last
  call,      \* each call: where it is and when it began
  task,      \* its tasks, by date
  flow,      \* the report each task returned
  ratio,     \* the ownership report of a date
  refused

reportVars == <<exchange, clock, cache, call, task, flow, ratio, refused>>

Calendar == 1 .. LastDate
Kinds == {"flow", "ratio"}
Entries == [kind : Kinds, date : Calendar, content : {"final", "empty"}]
Today == clock \div 2

AnyDate(d) == d <= Today  \* mutant: today's report counts as settled

IsSettled(d) == d < Today

(* What the exchange answers now: the report of a session once it is       *)
(* published, after the close.                                             *)
Content(d) == IF d \in Sessions /\ clock >= 2 * d + 1 THEN "final" ELSE "empty"

ReportsTypeOK ==
  /\ exchange \in {"TWSE", "TPEX"} /\ clock \in 2 .. 2 * LastDate + 1
  /\ cache \in Seq(Entries)
  /\ Len(cache) <= MaxEntries
  /\ \A i, j \in DOMAIN cache :
       i # j => <<cache[i].kind, cache[i].date>> # <<cache[j].kind, cache[j].date>>
  /\ call \in [Ranges -> [at : {"none", "flows", "ratios", "done", "failed"}, began : Nat]]
  /\ task \in [Ranges -> [Calendar -> {"none", "waiting", "direct", "keeps", "done", "error"}]]
  /\ flow \in [Ranges -> [Calendar -> {"none", "final", "empty"}]]
  /\ ratio \in [Ranges -> [Calendar -> {"none", "final", "empty"}]]
  /\ refused \in 0 .. MaxRefused

ReportsInit ==
  /\ exchange \in {"TWSE", "TPEX"} /\ clock = 2 /\ cache = << >>
  /\ call = [c \in Ranges |-> [at |-> "none", began |-> 0]]
  /\ task = [c \in Ranges |-> [d \in Calendar |-> "none"]]
  /\ flow = task /\ ratio = task /\ refused = 0

-----------------------------------------------------------------------------
(* ReportCache                                                             *)
Cached(kind, d) ==
  {e \in Range(cache) : e.kind = kind /\ e.date = d}

(* The other entries: a request has one, or none yet.                      *)
Others(e) ==
  LET at == {i \in DOMAIN cache : cache[i].kind = e.kind /\ cache[i].date = e.date}
  IN  IF at = {} THEN cache ELSE RemoveAt(cache, CHOOSE i \in at : TRUE)

NeverEvicts(e) == Append(Others(e), e)  \* mutant

Put(e) ==
  LET items == Append(Others(e), e)
  IN  IF Len(items) > MaxEntries THEN Tail(items) ELSE items

CallIs(c, l)    == call' = [call EXCEPT ![c].at = l]
TaskIs(c, d, l) == task' = [task EXCEPT ![c][d] = l]

LeakedPermits(c) ==  \* mutant: a refusal keeps its permit
  {d \in Calendar : task[c][d] \in {"direct", "keeps", "error"}}

(* A permit is held while a request is out.                                *)
Holders(c) == {d \in Calendar : task[c][d] \in {"direct", "keeps"}}

Tick ==
  /\ clock < 2 * LastDate + 1 /\ clock' = clock + 1
  /\ UNCHANGED <<exchange, cache, call, task, flow, ratio, refused>>

(* fetch_institutional_flows from the first date to today.  The worker has *)
(* one job at a time.                                                      *)
Begin(c) ==
  /\ call[c].at = "none"
  /\ \A o \in Ranges : call[o].at \notin {"flows", "ratios"}
  /\ call' = [call EXCEPT ![c] = [at |-> "flows", began |-> clock]]
  /\ task' = [task EXCEPT ![c] = [d \in Calendar |->
                IF d <= Today THEN "waiting" ELSE "none"]]
  /\ UNCHANGED <<exchange, clock, cache, flow, ratio, refused>>

(* _get_daily_report of a task that gets a permit: from the cache, or by a *)
(* request, whose answer is kept when the date was settled by now.         *)
FromCache(c, d) ==
  /\ task[c][d] = "waiting" /\ Cardinality(Holders(c)) < Concurrency
  /\ IsSettled(d)
  /\ \E e \in Cached("flow", d) :
       /\ cache' = Put(e) /\ flow' = [flow EXCEPT ![c][d] = e.content]
  /\ TaskIs(c, d, "done")
  /\ UNCHANGED <<exchange, clock, call, ratio, refused>>

Request(c, d) ==
  /\ task[c][d] = "waiting" /\ Cardinality(Holders(c)) < Concurrency
  /\ IsSettled(d) => Cached("flow", d) = {}
  /\ TaskIs(c, d, IF IsSettled(d) THEN "keeps" ELSE "direct")
  /\ UNCHANGED <<exchange, clock, cache, call, flow, ratio, refused>>

(* The answer; the row of the symbol is read from it.                      *)
Answer(c, d) ==
  /\ task[c][d] \in {"direct", "keeps"}
  /\ flow' = [flow EXCEPT ![c][d] = Content(d)]
  /\ cache' = IF task[c][d] = "keeps"
              THEN Put([kind |-> "flow", date |-> d, content |-> Content(d)]) ELSE cache
  /\ TaskIs(c, d, "done")
  /\ UNCHANGED <<exchange, clock, call, ratio, refused>>

(* All attempts of _get_json failed: gather raises, the job fails, and the *)
(* other tasks are not cancelled.                                          *)
Refuse(c, d) ==
  /\ task[c][d] \in {"direct", "keeps"} /\ refused < MaxRefused
  /\ refused' = refused + 1
  /\ TaskIs(c, d, "error") /\ CallIs(c, "failed")
  /\ UNCHANGED <<exchange, clock, cache, flow, ratio>>

AllDone(c) == \A d \in Calendar : task[c][d] \in {"none", "done"}

(* The dates of the last flows, for the ownership report.                  *)
RatioDates(c) ==
  LET found == {d \in Calendar : flow[c][d] = "final"}
  IN  {d \in found : Cardinality({o \in found : o > d}) < MaxRatios}

GatherEnds(c) ==
  /\ exchange = "TWSE" /\ call[c].at = "flows" /\ AllDone(c) /\ CallIs(c, "ratios")
  /\ UNCHANGED <<exchange, clock, cache, task, flow, ratio, refused>>

TpexGatherEnds(c) ==
  /\ exchange = "TPEX" /\ call[c].at = "flows" /\ AllDone(c) /\ CallIs(c, "done")
  /\ UNCHANGED <<exchange, clock, cache, task, flow, ratio, refused>>

(* fetch_foreign_holding_ratio, date by date.                              *)
FetchRatio(c) ==
  /\ call[c].at = "ratios"
  /\ LET left == {d \in RatioDates(c) : ratio[c][d] = "none"}
         d == Min(left)
         kept == Cached("ratio", d)
         e == IF IsSettled(d) /\ kept # {} THEN CHOOSE k \in kept : TRUE
              ELSE [kind |-> "ratio", date |-> d, content |-> Content(d)]
     IN  /\ left # {}
         /\ ratio' = [ratio EXCEPT ![c][d] = e.content]
         /\ cache' = IF IsSettled(d) THEN Put(e) ELSE cache
  /\ UNCHANGED <<exchange, clock, call, task, flow, refused>>

RatioRefused(c) ==
  /\ call[c].at = "ratios" /\ refused < MaxRefused
  /\ \E d \in RatioDates(c) :
       ratio[c][d] = "none" /\ (IsSettled(d) => Cached("ratio", d) = {})
  /\ refused' = refused + 1 /\ CallIs(c, "failed")
  /\ UNCHANGED <<exchange, clock, cache, task, flow, ratio>>

Return(c) ==
  /\ call[c].at = "ratios" /\ \A d \in RatioDates(c) : ratio[c][d] # "none"
  /\ CallIs(c, "done")
  /\ UNCHANGED <<exchange, clock, cache, task, flow, ratio, refused>>

TaskStep(c, d) == FromCache(c, d) \/ Request(c, d) \/ Answer(c, d) \/ Refuse(c, d)

ReportsNext ==
  \/ Tick
  \/ \E c \in Ranges : \/ Begin(c) \/ GatherEnds(c) \/ TpexGatherEnds(c)
                       \/ FetchRatio(c) \/ RatioRefused(c) \/ Return(c)
                       \/ \E d \in Calendar : TaskStep(c, d)

(* A request times out, and a task that waits for a permit is in a queue.  *)
ReportsFairness == \A c \in Ranges, d \in Calendar : WF_reportVars(TaskStep(c, d))

ReportsSpec == ReportsInit /\ [][ReportsNext]_reportVars /\ ReportsFairness

-----------------------------------------------------------------------------
(* A range that was fetched has every session that was over when the fetch *)
(* began, from its final report, whatever an earlier fetch saw of the day  *)
(* and kept; and so has the holding ratio of the last of them.             *)
FlowsAreFinal ==
  \A c \in Ranges, d \in Sessions :
    call[c].at = "done" /\ 2 * d + 1 <= call[c].began =>
      /\ flow[c][d] = "final"
      /\ exchange = "TWSE" /\ d \in RatioDates(c) => ratio[c][d] = "final"

(* Every task ends, those of a call that has failed too: a refusal leaves  *)
(* no permit behind.                                                       *)
TasksEnd ==
  \A c \in Ranges, d \in Calendar :
    task[c][d] = "waiting" ~> task[c][d] \in {"done", "error"}
=============================================================================
