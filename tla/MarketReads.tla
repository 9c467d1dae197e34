---------------------------- MODULE MarketReads ----------------------------
(***************************************************************************)
(* The pages about the whole market read the tables while a job fills      *)
(* them: MarketBackfillService.status says how far the fill is, and        *)
(* MarketRankingService.ranking picks the sessions to rank over.  Each     *)
(* repository call is a read of its own; the fill goes on between them.    *)
(***************************************************************************)
EXTENDS MarketHistory

CONSTANTS
  SteadyState,   \* STEADY_STATE_PENDING
  RankingWindow  \* the sessions of a ranking

ASSUME ReadsAssumption == SteadyState \in Nat
                          /\ RankingWindow \in Nat \ {0}

VARIABLES
  reader,  \* where the one request at a time is
  view     \* what it has read so far

allVars == <<vars, reader, view>>

NoView == [asOf |-> 0, pending |-> {}, dates |-> {}, require |-> FALSE,
           newest |-> 0, awaiting |-> 0]

ReadsTypeOK ==
  /\ TypeOK
  /\ reader \in {"none", "status", "newest", "rows"}
  /\ view \in [asOf : Days \cup {0}, pending : SUBSET Days,
               dates : SUBSET Trading, require : BOOLEAN,
               newest : Days \cup {0}, awaiting : Days \cup {0}]

ReadsInit == Init /\ reader = "none" /\ view = NoView

Latest(S) == IF S = {} THEN 0 ELSE CHOOSE d \in S : \A e \in S : e <= d

Window(t) == {d \in Days : d <= t /\ t <= d + Lookback}

Moves(l, v) == reader' = l /\ view' = v /\ UNCHANGED vars

-----------------------------------------------------------------------------
PendingWithoutEntry == {d \in Window(today) : ledger[d] = 0}  \* mutant

(* The weekdays of the window whose entry is missing or from before their  *)
(* end.                                                                    *)
PendingDays == {d \in Window(today) : ~Covered(ledger, d)}

StatusReadsCoverage ==
  /\ reader = "none"
  /\ Moves("status", [NoView EXCEPT !.asOf = today, !.pending = PendingDays])

(* The state of the fill.  A job runs; otherwise there may be one in the   *)
(* queue, or one that a stopped process left running.                      *)
ActiveJob == IF pc # "idle" THEN {"running"} ELSE {"none", "queued", "running"}
FillState(job) ==
  CASE Cardinality(view.pending) <= SteadyState -> "complete"
    [] job = "none" -> "idle"
    [] OTHER -> job

(* The jobs are read; the sessions and scores it also counts are left out. *)
StatusAnswers == reader = "status" /\ Moves("none", NoView)

-----------------------------------------------------------------------------
(* list_market_trading_dates, with the report a metric needs.              *)
TradingDates(need, n) == Newest(IF need THEN reported ELSE stored, n)

(* view.newest is what a reader of the whole table would see at this time. *)
RankingReadsDates ==
  /\ reader = "none"
  /\ \E need \in BOOLEAN :
       LET dates0 == TradingDates(need, RankingWindow) IN
       /\ dates0 # {}
       /\ Moves(IF need THEN "newest" ELSE "rows",
                [NoView EXCEPT !.dates = dates0, !.require = need,
                               !.newest = Latest(stored)])

NeverAwaits == reader = "newest" /\ Moves("rows", view)  \* mutant

RankingReadsNewest ==
  /\ reader = "newest"
  /\ LET newest == Latest(TradingDates(FALSE, 1)) IN
     Moves("rows", [view EXCEPT !.awaiting =
                      IF newest > Latest(view.dates) THEN newest ELSE 0])

RankingAnswers == reader = "rows" /\ Moves("none", NoView)

ReaderStep ==
  \/ StatusReadsCoverage \/ StatusAnswers
  \/ RankingReadsDates \/ RankingReadsNewest \/ RankingAnswers

ReadsNext == (Next /\ UNCHANGED <<reader, view>>) \/ ReaderStep

ReadsSpec ==
  /\ ReadsInit /\ [][ReadsNext]_allVars
  /\ WF_vars(Begin) /\ WF_vars(JobStep)

-----------------------------------------------------------------------------
(* The fill is called complete only when all but the steady few of the     *)
(* sessions of the window are stored with their reports, though the rows   *)
(* and the ledger move between the reads.                                  *)
CompleteIsStored ==
  [][StatusAnswers /\ (\E job \in ActiveJob : FillState(job) = "complete") =>
       Cardinality((Window(view.asOf) \cap Trading) \ reported) <= SteadyState]_allVars

(* A ranking that needs a report ranks over sessions that have it, and the *)
(* newest session of the table when it was asked is ranked or awaited.     *)
RankingSaysWhatIsMissing ==
  [][RankingAnswers =>
       /\ view.require => view.dates \subseteq reported
       /\ view.newest \in view.dates \/ view.awaiting >= view.newest]_allVars
=============================================================================
