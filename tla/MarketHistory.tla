--------------------------- MODULE MarketHistory ---------------------------
(***************************************************************************)
(* A whole-market job: MarketSnapshotSyncService fills the table of daily  *)
(* quotes, newest session first, and MarketObservationSyncService derives  *)
(* a score for each session from the stored closes before it, after every  *)
(* so many sessions of the fill and at its end.                            *)
(*                                                                         *)
(* One worker and one market.  Days are weekdays; a day that is not in     *)
(* Trading is a holiday.  A score is the set of the sessions whose closes  *)
(* it was computed from.  The market of TPEx answers a day only when the   *)
(* day is in the month's index, which its provider reads once and keeps.   *)
(***************************************************************************)
EXTENDS Naturals, FiniteSets

CONSTANTS
  LastDay,     \* bound: the days of a behaviour are 1 .. LastDay
  FirstToday,  \* the day the worker is deployed
  Trading,     \* the sessions
  MonthOf,     \* the month of each day
  KeepsIndex,  \* the provider is TpexProvider, with _index_month_cache
  Lookback,    \* settings.sync_market_lookback_days
  Need,        \* minimum_history and history_sessions
  MaxDays,     \* max_days, the sessions scored by one pass
  Every,       \* progress_every
  LateEntries, \* midnight may pass between an answer and its entry
  MaxFailures  \* bound: failed jobs in a behaviour

Days == 1 .. LastDay

ASSUME DaysAssumption == /\ LastDay \in Nat /\ FirstToday \in Days
                         /\ Trading \subseteq Days
ASSUME MonthsAssumption == MonthOf \in [Days -> Days] /\ KeepsIndex \in BOOLEAN
ASSUME SizesAssumption == /\ Need \in Nat \ {0} /\ Every \in Nat \ {0}
                          /\ MaxDays \in Nat \ {0}
ASSUME BoundsAssumption == /\ Lookback \in Nat /\ MaxFailures \in Nat
                           /\ LateEntries \in BOOLEAN

VARIABLES
  today,      \* the date in Taipei
  published,  \* what the exchange has published of today
  stored,     \* market_stock_daily: the sessions with rows
  reported,   \* and those whose rows have flows and credit balances
  ledger,     \* fetch_coverage of the snapshot: date of fetched_at, 0 if none
  score,      \* market_observations: the closes behind each score
  tried,      \* fetch_coverage of the observations
  monthIndex, \* _index_month_cache: month -> the sessions in its index
  pc,         \* where the job is
  end,        \* the date it began
  pending,    \* the days it has not fetched yet
  index,      \* how many it has
  day,        \* the day just fetched
  rows,       \* and what its rows have: nothing when there are none
  dates,      \* the stored sessions the scoring pass looks at
  targets,    \* the sessions it scores
  built,      \* the scores it has made
  failures    \* failed jobs so far

tables  == <<stored, reported, ledger, score, tried>>
clock   == <<today, published>>
fill    == <<end, pending, index, day, rows>>
scoring == <<dates, targets, built>>
vars == <<clock, tables, monthIndex, pc, fill, scoring, failures>>

-----------------------------------------------------------------------------
CoveredOnTheDay(L, d) == L[d] >= d  \* mutant

(* _fetched_after                                                          *)
Covered(L, d) == L[d] > d

(* The n newest days of a set.                                             *)
Newest(S, n) == {d \in S : Cardinality({e \in S : e > d}) < n}

AllCloses(d) == Newest(dates, Need)  \* mutant

(* The closes in the deques when the pass reaches d.                       *)
History(d) == Newest({e \in dates : e <= d}, Need)

(* The sessions with enough stored sessions up to them.                    *)
Feasible == {d \in dates : Cardinality({e \in dates : e <= d}) >= Need}

HasQuotes(d)  == d \in Trading /\ (d < today \/ (d = today /\ published # "nothing"))
HasCapital(d) == d \in Trading /\ (d < today \/ (d = today /\ published = "reports"))

(* What the exchange puts in the rows of a session.                        *)
Reports(d) == {"quotes"} \cup (IF HasCapital(d) THEN {"reports"} ELSE {})

(* The cached months after the index of each day of D was looked up: a     *)
(* month in the cache is not read again.                                   *)
IndexAfter(D) ==
  IF ~KeepsIndex THEN monthIndex
  ELSE [m \in DOMAIN monthIndex \cup {MonthOf[d] : d \in D} |->
         IF m \in DOMAIN monthIndex THEN monthIndex[m]
         ELSE {e \in Trading : MonthOf[e] = m /\ HasQuotes(e)}]

(* fetch_market_quotes finds the session, by the cached months I.          *)
Answered(I, d) == HasQuotes(d) /\ (KeepsIndex => d \in I[MonthOf[d]])

NoScores == [d \in Days |-> {}]

TypeOK ==
  /\ today \in Days /\ published \in {"nothing", "quotes", "reports"}
  /\ reported \subseteq stored /\ stored \subseteq Trading
  /\ ledger \in [Days -> Days \cup {0}] /\ tried \in [Days -> Days \cup {0}]
  /\ score \in [Days -> SUBSET Trading]
  /\ \A m \in DOMAIN monthIndex : monthIndex[m] \subseteq Trading
  /\ pc \in {"idle", "next", "upsert", "record", "dates", "targets", "build",
             "store", "tried"}
  /\ end \in Days /\ pending \subseteq Days /\ index \in Nat
  /\ day \in Days /\ rows \subseteq {"quotes", "reports"}
  /\ dates \subseteq Trading /\ targets \subseteq Trading
  /\ built \in [Days -> SUBSET Trading]
  /\ failures \in Nat

Init ==
  /\ today = FirstToday /\ published = "nothing"
  /\ stored = {} /\ reported = {} /\ score = NoScores
  /\ ledger = [d \in Days |-> 0] /\ tried = [d \in Days |-> 0]
  /\ monthIndex = [m \in {} |-> {}]
  /\ pc = "idle" /\ end = FirstToday
  /\ pending = {} /\ index = 0 /\ day = FirstToday /\ rows = {}
  /\ dates = {} /\ targets = {} /\ built = NoScores
  /\ failures = 0

-----------------------------------------------------------------------------
Goto(l) == pc' = l

(* The job ends, or something raises: the locals are gone.                 *)
Leave ==
  /\ Goto("idle")
  /\ end' = FirstToday /\ pending' = {} /\ index' = 0
  /\ day' = FirstToday /\ rows' = {}
  /\ dates' = {} /\ targets' = {} /\ built' = NoScores

(* The read of the coverage of the window.                                 *)
Begin ==
  /\ pc = "idle"
  /\ end' = today
  /\ pending' = {d \in Days : /\ d <= today /\ today <= d + Lookback
                              /\ ~Covered(ledger, d)}
  /\ Goto("next")
  /\ UNCHANGED <<clock, tables, monthIndex, index, day, rows, scoring, failures>>

FetchDay ==
  /\ pc = "next"
  /\ \E d \in Newest(pending, 1) :
       /\ day' = d
       /\ monthIndex' = IndexAfter({d})
       /\ rows' = IF Answered(monthIndex', d) THEN Reports(d) ELSE {}
       /\ pending' = pending \ {d}
  /\ index' = index + 1
  /\ Goto("upsert")
  /\ UNCHANGED <<clock, tables, end, scoring, failures>>

StoresHolidays ==  \* mutant
  /\ pc = "upsert"
  /\ stored' = stored \cup {day}
  /\ reported' = IF "reports" \in rows THEN reported \cup {day} ELSE reported \ {day}
  /\ Goto("record")
  /\ UNCHANGED <<clock, ledger, score, tried, monthIndex, fill, scoring, failures>>

(* The rows of the answer replace those of the session, reports included.  *)
UpsertDay ==
  /\ pc = "upsert"
  /\ IF rows = {} THEN UNCHANGED <<stored, reported>>
     ELSE /\ stored' = stored \cup {day}
          /\ reported' = IF "reports" \in rows THEN reported \cup {day}
                         ELSE reported \ {day}
  /\ Goto("record")
  /\ UNCHANGED <<clock, ledger, score, tried, monthIndex, fill, scoring, failures>>

(* The entry of the day; then on_progress, but not after the last day.     *)
RecordDay ==
  /\ pc = "record"
  /\ ledger' = [ledger EXCEPT ![day] = today]
  /\ Goto(IF index % Every = 0 /\ pending # {} THEN "dates" ELSE "next")
  /\ UNCHANGED <<clock, stored, reported, score, tried, monthIndex, fill, scoring,
                 failures>>

(* The snapshot is done: the last scoring pass of the job.                 *)
FillEnds ==
  /\ pc = "next" /\ pending = {}
  /\ Goto("dates")
  /\ UNCHANGED <<clock, tables, monthIndex, fill, scoring, failures>>

ReadDates ==
  /\ pc = "dates"
  /\ dates' = Newest({d \in stored : d <= end}, Need + MaxDays)
  /\ Goto("targets")
  /\ UNCHANGED <<clock, tables, monthIndex, fill, targets, built, failures>>

TriedOnce(d) == score[d] = {} /\ ~CoveredOnTheDay(tried, d)  \* mutant

(* No score is stored, and the last try was not after the day was over.    *)
Wanted(d) == score[d] = {} /\ ~Covered(tried, d)

ReadTargets ==
  /\ pc = "targets"
  /\ targets' = Newest({d \in Feasible : Wanted(d)}, MaxDays)
  /\ Goto("build")
  /\ UNCHANGED <<clock, tables, monthIndex, fill, dates, built, failures>>

(* The read of the closes, and one request for the official figures of     *)
(* each target; a session whose reports are not out is passed over.        *)
BuildScores ==
  /\ pc = "build"
  /\ monthIndex' = IndexAfter(targets)
  /\ built' = [d \in Days |->
       IF d \in targets /\ Answered(monthIndex', d) /\ HasCapital(d)
       THEN History(d) ELSE {}]
  /\ Goto("store")
  /\ UNCHANGED <<clock, tables, fill, dates, targets, failures>>

(* A score that exists is not rewritten.                                   *)
StoreScores ==
  /\ pc = "store"
  /\ score' = [d \in Days |-> IF score[d] = {} THEN built[d] ELSE score[d]]
  /\ Goto("tried")
  /\ UNCHANGED <<clock, stored, reported, ledger, tried, monthIndex, fill, scoring,
                 failures>>

(* The entries of the targets; the fill goes on, or the job is over.       *)
RecordTried ==
  /\ pc = "tried"
  /\ tried' = [d \in Days |-> IF d \in targets THEN today ELSE tried[d]]
  /\ IF pending = {} THEN Leave
     ELSE Goto("next") /\ UNCHANGED <<fill, scoring>>
  /\ UNCHANGED <<clock, stored, reported, ledger, score, monthIndex, failures>>

(* An exception ends the job; the end of the process, the caches as well.  *)
Fail ==
  /\ pc # "idle" /\ failures < MaxFailures
  /\ failures' = failures + 1
  /\ monthIndex' \in {monthIndex, [m \in {} |-> {}]}
  /\ Leave
  /\ UNCHANGED <<clock, tables>>

-----------------------------------------------------------------------------
(* The quotes of a session come out after it closes, the last of its       *)
(* capital reports in the evening, before the day is over.                 *)
Publish ==
  /\ today \in Trading /\ published # "reports"
  /\ published' = IF published = "nothing" THEN "quotes" ELSE "reports"
  /\ UNCHANGED <<today, tables, monthIndex, pc, fill, scoring, failures>>

(* A job may run past midnight.  An entry has the time of its recording,   *)
(* so one that midnight separates from its answer says more than it knows. *)
AnswerInHand == pc \in {"upsert", "record", "store", "tried"}

Midnight ==
  /\ today < LastDay
  /\ today \in Trading => published = "reports"
  /\ AnswerInHand => LateEntries
  /\ today' = today + 1 /\ published' = "nothing"
  /\ UNCHANGED <<tables, monthIndex, pc, fill, scoring, failures>>

JobStep ==
  \/ FetchDay \/ UpsertDay \/ RecordDay \/ FillEnds
  \/ ReadDates \/ ReadTargets \/ BuildScores \/ StoreScores \/ RecordTried

Next == Begin \/ JobStep \/ Fail \/ Publish \/ Midnight

Spec == Init /\ [][Next]_vars

(* The job goes on, and the refresh queues the next one.                   *)
FairSpec == Spec /\ WF_vars(Begin) /\ WF_vars(JobStep)

-----------------------------------------------------------------------------
(* Properties.                                                             *)

(* A session that will not be fetched again is stored with its reports,    *)
(* through jobs that fail in the middle of the fill and sessions tried     *)
(* before they closed or before their reports were out.                    *)
CoveredIsStored == \A d \in Trading : Covered(ledger, d) => d \in reported

(* A score looks at its own session and enough before it, never at a later *)
(* one, in whatever order the fill stored them.                            *)
NoLookAhead ==
  \A d \in Days : score[d] # {} =>
    /\ d \in score[d] /\ \A e \in score[d] : e <= d
    /\ Cardinality(score[d]) = Need

(* A session of the window with enough sessions before it is scored in the *)
(* end, though its reports were not out when it was first tried.           *)
SessionsGetScored ==
  \A d \in Trading :
    Cardinality({e \in Trading : e <= d}) >= Need /\ d >= FirstToday =>
      (today > d ~> score[d] # {})
=============================================================================
