---------------------------- MODULE CoverageSync ----------------------------
(***************************************************************************)
(* The incremental sync of one symbol: sync_symbol (prices, by month) and  *)
(* sync_institutional_flows (flows, by day) with the ledger fetch_coverage *)
(* that remembers which slices need no further request.                    *)
(*                                                                         *)
(* A slice is a month of prices or, with slices of one day, a day of       *)
(* flows; flows and the index have no adjustment factors (Adjusted is      *)
(* FALSE).  A factor is the set of the ex-dates it includes.  The worker   *)
(* and the handlers of POST /sync/symbol run the same code on the same     *)
(* rows; every step is one read, one request to the exchange, or one       *)
(* commit.                                                                 *)
(***************************************************************************)
EXTENDS Naturals

CONSTANTS
  Syncers,      \* the worker, and handlers of manual backfills
  Manual,       \* those handlers: their caller names the window
  Slices,       \* the slices are 1 .. Slices
  LastDay,      \* the last day of each slice; LastDay[0] = 0
  Trading,      \* the days with a bar
  ExDates,      \* the days with a corporate action
  Legacy,       \* bars that an older version may have left, without coverage
  FirstToday,   \* the day a behaviour begins
  Lookback,     \* the worker's window, in slices
  Adjusted,     \* bars carry adjustment factors
  LongRuns,     \* midnight may pass in the middle of a sync
  MaxFailures   \* bound: failed syncs in a behaviour

Months == 1 .. Slices
Days   == 1 .. LastDay[Slices]

ASSUME SlicesAssumption == Slices \in Nat \ {0}
ASSUME LastDayAssumption ==
  /\ LastDay \in [0 .. Slices -> Nat] /\ LastDay[0] = 0
  /\ \A m, n \in 0 .. Slices : m < n => LastDay[m] < LastDay[n]
ASSUME DaysAssumption ==
  /\ Trading \subseteq Days /\ ExDates \subseteq Trading
  /\ FirstToday \in Days
  /\ Legacy \subseteq {d \in Trading : d < FirstToday}
ASSUME BoundsAssumption ==
  /\ Lookback \in Nat /\ MaxFailures \in Nat
  /\ Adjusted \in BOOLEAN /\ LongRuns \in BOOLEAN

InMonth(d, m) == LastDay[m - 1] < d /\ d <= LastDay[m]

VARIABLES
  today,      \* the date in Taipei
  published,  \* the exchange has published today's bar
  stored,     \* days with a stored bar of the exchange
  factor,     \* the adjustment factor stored with each day
  ledger,     \* fetch_coverage: the date of fetched_at, or 0 for no entry
  pc,         \* where each sync is
  end,        \* the last day of its window
  pending,    \* the slices it still has to fetch
  trusted,    \* the slices whose stored factors may seed a run
  run,        \* the slices being fetched
  batch,      \* the days of the bars fetched for them
  made,       \* and the factors made for those
  failures    \* failed syncs so far

dbVars   == <<stored, factor, ledger>>
dayVars  == <<today, published>>
syncVars == <<pc, end, pending, trusted, run, batch, made>>
vars     == <<dayVars, dbVars, syncVars, failures>>

-----------------------------------------------------------------------------
(* _fetched_after: the slice was fetched after its last day had passed.    *)

CoveredOnLastDay(m) == ledger[m] >= LastDay[m]  \* mutant

Covered(m) == ledger[m] > LastDay[m]

(* The bars the exchange has.                                              *)
Upstream == {d \in Trading : d < today \/ (d = today /\ published)}

RunAndOneMore(P) ==  \* mutant
  LET first == {m \in P : \A a \in P : a <= m => a .. m \subseteq P}
  IN first \cup {m + 1 : m \in first}

(* The first of the consecutive runs of a set of slices.                   *)
FirstRun(P) == {m \in P : \A a \in P : a <= m => a .. m \subseteq P}

EventsUpTo(d) == {a \in ExDates : a <= d}

BeforeRun(d, s) == \A m \in run[s] : d <= LastDay[m - 1]

(* The stored bar before the run, if its factor can be resumed.            *)
Resume(s) ==
  LET prior == {d \in stored : BeforeRun(d, s)}
  IN {d \in prior : /\ \A p \in prior : p <= d
                    /\ \E m \in trusted[s] : InMonth(d, m)}

(* apply_forward_adjustments on the events the exchange was asked for:     *)
(* those from the start of the run when a factor is resumed, else all.     *)
FactorOf(d, s) ==
  IF ~Adjusted THEN {}
  ELSE IF Resume(s) = {} THEN EventsUpTo(d)
  ELSE (UNION {factor[p] : p \in Resume(s)})
         \cup {a \in EventsUpTo(d) : ~BeforeRun(a, s)}

TypeOK ==
  /\ today \in Days /\ published \in BOOLEAN
  /\ stored \subseteq Trading
  /\ factor \in [Trading -> SUBSET ExDates]
  /\ ledger \in [Months -> Days \cup {0}]
  /\ pc \in [Syncers -> {"idle", "stored", "known", "next", "fetch", "adjust",
                         "upsert", "record"}]
  /\ end \in [Syncers -> Days]
  /\ pending \in [Syncers -> SUBSET Months]
  /\ trusted \in [Syncers -> SUBSET Months]
  /\ run \in [Syncers -> SUBSET Months]
  /\ batch \in [Syncers -> SUBSET Trading]
  /\ made \in [Syncers -> [Trading -> SUBSET ExDates]]
  /\ failures \in Nat

Init ==
  /\ today = FirstToday /\ published = FALSE
  /\ stored \in SUBSET Legacy
  /\ factor = [d \in Trading |-> {}]
  /\ ledger = [m \in Months |-> 0]
  /\ pc = [s \in Syncers |-> "idle"]
  /\ end = [s \in Syncers |-> FirstToday]
  /\ pending = [s \in Syncers |-> {}]
  /\ trusted = [s \in Syncers |-> {}]
  /\ run = [s \in Syncers |-> {}]
  /\ batch = [s \in Syncers |-> {}]
  /\ made = [s \in Syncers |-> [d \in Trading |-> {}]]
  /\ failures = 0

-----------------------------------------------------------------------------
Goto(s, l) == pc' = [pc EXCEPT ![s] = l]

(* The return, or an exception, a time-out, a crash: the locals are gone.  *)
Leave(s) ==
  /\ Goto(s, "idle")
  /\ end' = [end EXCEPT ![s] = FirstToday]
  /\ pending' = [pending EXCEPT ![s] = {}]
  /\ trusted' = [trusted EXCEPT ![s] = {}]
  /\ run' = [run EXCEPT ![s] = {}]
  /\ batch' = [batch EXCEPT ![s] = {}]
  /\ made' = [made EXCEPT ![s] = [d \in Trading |-> {}]]

(* The windows a caller may name; the worker's ends today.                 *)
Window(s, m, e) ==
  \/ s \in Manual
  \/ /\ e = today
     /\ \E n \in Months : InMonth(e, n) /\ (m + Lookback = n \/ (n <= Lookback /\ m = 1))

(* The read of the coverage of the window's slices.                        *)
Begin(s) ==
  /\ pc[s] = "idle"
  /\ \E m \in Months, e \in Days :
       /\ Window(s, m, e)
       /\ end' = [end EXCEPT ![s] = e]
       /\ pending' = [pending EXCEPT ![s] =
                        {n \in m .. Slices : LastDay[n - 1] < e /\ ~Covered(n)}]
  /\ Goto(s, IF Adjusted THEN "stored" ELSE "next")
  /\ UNCHANGED <<dayVars, dbVars, trusted, run, batch, made, failures>>

(* The read of the stored bars, up to the end of the window.               *)
ReadStored(s) ==
  /\ pc[s] = "stored"
  /\ trusted' = [trusted EXCEPT ![s] =
       {m \in Months : \E d \in stored : InMonth(d, m) /\ d <= end[s]}]
  /\ Goto(s, "known")
  /\ UNCHANGED <<dayVars, dbVars, end, pending, run, batch, made, failures>>

TrustsAll(s)  == trusted[s]  \* mutant
TrustsNone(s) == {}          \* mutant

Known(s) == {m \in trusted[s] : ledger[m] # 0}

(* The read of their coverage: a month without an entry is not trusted but *)
(* rebuilt.                                                                *)
ReadKnown(s) ==
  /\ pc[s] = "known"
  /\ trusted' = [trusted EXCEPT ![s] = Known(s)]
  /\ pending' = [pending EXCEPT ![s] = @ \cup (trusted[s] \ Known(s))]
  /\ Goto(s, "next")
  /\ UNCHANGED <<dayVars, dbVars, end, run, batch, made, failures>>

NextRun(s) ==
  /\ pc[s] = "next" /\ pending[s] # {}
  /\ run' = [run EXCEPT ![s] = FirstRun(pending[s])]
  /\ pending' = [pending EXCEPT ![s] = @ \ FirstRun(@)]
  /\ Goto(s, "fetch")
  /\ UNCHANGED <<dayVars, dbVars, end, trusted, batch, made, failures>>

Finish(s) ==
  /\ pc[s] = "next" /\ pending[s] = {}
  /\ Leave(s)
  /\ UNCHANGED <<dayVars, dbVars, failures>>

(* The bars of the run, cut at the end of the window.                      *)
FetchBars(s) ==
  /\ pc[s] = "fetch"
  /\ batch' = [batch EXCEPT ![s] =
       {d \in Upstream : d <= end[s] /\ \E m \in run[s] : InMonth(d, m)}]
  /\ Goto(s, "adjust")
  /\ UNCHANGED <<dayVars, dbVars, end, pending, trusted, run, made, failures>>

(* The read of the prior bars, and the corporate actions.                  *)
Adjust(s) ==
  /\ pc[s] = "adjust"
  /\ made' = [made EXCEPT ![s] =
       [d \in Trading |-> IF d \in batch[s] THEN FactorOf(d, s) ELSE {}]]
  /\ Goto(s, "upsert")
  /\ UNCHANGED <<dayVars, dbVars, end, pending, trusted, run, batch, failures>>

UpsertBars(s) ==
  /\ pc[s] = "upsert"
  /\ stored' = stored \cup batch[s]
  /\ factor' = [d \in Trading |-> IF d \in batch[s] THEN made[s][d] ELSE factor[d]]
  /\ Goto(s, "record")
  /\ UNCHANGED <<dayVars, ledger, end, pending, trusted, run, batch, made, failures>>

AlwaysRecordable(s, m) == TRUE              \* mutant
OnlyWhileOpen(s, m) == today <= LastDay[m]  \* mutant

(* A slice cut short by the end of the window is not recorded once it is   *)
(* past; fetched_at is the time of the recording.                          *)
Recordable(s, m) == LastDay[m] <= end[s] \/ today <= LastDay[m]

RecordCoverage(s) ==
  /\ pc[s] = "record"
  /\ ledger' = [m \in Months |-> IF m \in run[s] /\ Recordable(s, m) THEN today
                                 ELSE ledger[m]]
  /\ run' = [run EXCEPT ![s] = {}]
  /\ batch' = [batch EXCEPT ![s] = {}]
  /\ made' = [made EXCEPT ![s] = [d \in Trading |-> {}]]
  /\ Goto(s, "next")
  /\ UNCHANGED <<dayVars, stored, factor, end, pending, trusted, failures>>

Fail(s) ==
  /\ pc[s] # "idle" /\ failures < MaxFailures
  /\ failures' = failures + 1
  /\ Leave(s)
  /\ UNCHANGED <<dayVars, dbVars>>

-----------------------------------------------------------------------------
Publish ==
  /\ today \in Trading /\ ~published
  /\ published' = TRUE
  /\ UNCHANGED <<today, dbVars, syncVars, failures>>

(* The exchange has published a day's bar before the day ends.             *)
Midnight ==
  /\ today + 1 \in Days
  /\ today \in Trading => published
  /\ LongRuns \/ \A s \in Syncers : pc[s] = "idle"
  /\ today' = today + 1 /\ published' = FALSE
  /\ UNCHANGED <<dbVars, syncVars, failures>>

SyncStep(s) ==
  \/ ReadStored(s) \/ ReadKnown(s) \/ NextRun(s) \/ Finish(s)
  \/ FetchBars(s) \/ Adjust(s) \/ UpsertBars(s) \/ RecordCoverage(s)

Next ==
  \/ \E s \in Syncers : Begin(s) \/ SyncStep(s) \/ Fail(s)
  \/ Publish \/ Midnight

Spec == Init /\ [][Next]_vars

(* A sync that has begun goes on, and the daily refresh begins the         *)
(* worker's again and again.                                               *)
FairSpec ==
  Spec /\ \A s \in Syncers : WF_vars(SyncStep(s)) /\ (s \notin Manual => WF_vars(Begin(s)))

-----------------------------------------------------------------------------
(* Properties.                                                             *)

(* A slice the ledger counts as covered is never requested again: every    *)
(* bar the exchange has for it is stored, whatever syncs failed, ran at    *)
(* the same time or were cut short by the end of their window.             *)
CoveredIsComplete ==
  \A m \in Months : Covered(m) =>
    \A d \in Trading : InMonth(d, m) => d \in stored

(* The factor of a bar in a month with a ledger entry includes exactly the *)
(* events up to the bar: such a month seeds the factors of later ones.     *)
FactorsSound ==
  Adjusted => \A d \in stored : \A m \in Months :
    InMonth(d, m) /\ ledger[m] # 0 => factor[d] = EventsUpTo(d)

(* Closed months are requested once: what a lone sync fetches is not       *)
(* covered, though months an older version left are rebuilt.               *)
ClosedAreFetchedOnce == \A s \in Syncers : \A m \in run[s] : ~Covered(m)

(* Every slice that closes is covered in the end, through failed syncs and *)
(* the syncs that recorded it while it was open.                           *)
ClosedGetCovered ==
  \A m \in Months : LastDay[m] >= FirstToday =>
    (today > LastDay[m] ~> Covered(m))
=============================================================================
