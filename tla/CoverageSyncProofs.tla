------------------------- MODULE CoverageSyncProofs -------------------------
(***************************************************************************)
(* The ledger of CoverageSync is right for every calendar, set of syncs    *)
(* and windows, as long as no sync runs across midnight.  The adjustment   *)
(* factors are right as well for the worker alone, as long as no sync      *)
(* begins after a gap in the stored months.                                *)
(***************************************************************************)
EXTENDS CoverageSync, FiniteOrder, TLAPS

LEMMA LastDayType ==
  /\ Slices \in Nat
  /\ \A m \in Months : m \in 0 .. Slices /\ m - 1 \in 0 .. Slices
  /\ \A m \in 0 .. Slices : LastDay[m] \in Nat
  /\ Days \subseteq Nat /\ Trading \subseteq Days /\ ExDates \subseteq Trading
  BY SlicesAssumption, LastDayAssumption, DaysAssumption DEF Months, Days

LEMMA FirstRunPart == ASSUME NEW P PROVE FirstRun(P) \subseteq P
  BY DEF FirstRun

LEMMA FactorPart ==
  ASSUME TypeOK, NEW d, NEW s \in Syncers
  PROVE  FactorOf(d, s) \subseteq ExDates
<1>1. EventsUpTo(d) \subseteq ExDates
  BY DEF EventsUpTo
<1>2. \A p \in Resume(s) : factor[p] \subseteq ExDates
  BY DEF Resume, TypeOK
<1>3. UNION {factor[p] : p \in Resume(s)} \subseteq ExDates
  BY <1>2
<1>4. (UNION {factor[p] : p \in Resume(s)})
        \cup {a \in EventsUpTo(d) : ~BeforeRun(a, s)} \subseteq ExDates
  BY <1>1, <1>3
<1> QED
  BY <1>1, <1>4 DEF FactorOf

LEMMA LeaveType ==
  ASSUME TypeOK, NEW s \in Syncers, Leave(s)
  PROVE  /\ pc' = [pc EXCEPT ![s] = "idle"]
         /\ end' \in [Syncers -> Days] /\ pending' \in [Syncers -> SUBSET Months]
         /\ trusted' \in [Syncers -> SUBSET Months]
         /\ run' \in [Syncers -> SUBSET Months]
         /\ batch' \in [Syncers -> SUBSET Trading]
         /\ made' \in [Syncers -> [Trading -> SUBSET ExDates]]
  BY DaysAssumption DEF TypeOK, Leave, Goto

LEMMA TypeStep == TypeOK /\ [Next]_vars => TypeOK'
<1> SUFFICES ASSUME TypeOK, [Next]_vars PROVE TypeOK'
  OBVIOUS
<1> USE DEF dayVars, dbVars, syncVars
<1>1. ASSUME NEW s \in Syncers, Begin(s) PROVE TypeOK'
  <2>1. PICK m \in Months, e \in Days :
          /\ end' = [end EXCEPT ![s] = e]
          /\ pending' = [pending EXCEPT ![s] =
               {n \in m .. Slices : LastDay[n - 1] < e /\ ~Covered(n)}]
    BY <1>1 DEF Begin
  <2>2. m .. Slices \subseteq Months
    BY SlicesAssumption DEF Months
  <2> QED
    BY <1>1, <2>1, <2>2 DEF TypeOK, Begin, Goto
<1>2. ASSUME NEW s \in Syncers, ReadStored(s) PROVE TypeOK'
  BY <1>2 DEF TypeOK, ReadStored, Goto
<1>3. ASSUME NEW s \in Syncers, ReadKnown(s) PROVE TypeOK'
  BY <1>3 DEF TypeOK, ReadKnown, Known, Goto
<1>4. ASSUME NEW s \in Syncers, NextRun(s) PROVE TypeOK'
  <2>1. FirstRun(pending[s]) \subseteq Months
    BY FirstRunPart DEF TypeOK
  <2> QED
    BY <1>4, <2>1 DEF TypeOK, NextRun, Goto
<1>5. ASSUME NEW s \in Syncers, Finish(s) PROVE TypeOK'
  BY <1>5, LeaveType DEF TypeOK, Finish
<1>6. ASSUME NEW s \in Syncers, FetchBars(s) PROVE TypeOK'
  <2>1. Upstream \subseteq Trading
    BY DEF Upstream
  <2> QED
    BY <1>6, <2>1 DEF TypeOK, FetchBars, Goto
<1>7. ASSUME NEW s \in Syncers, Adjust(s) PROVE TypeOK'
  <2>1. [d \in Trading |-> IF d \in batch[s] THEN FactorOf(d, s) ELSE {}]
          \in [Trading -> SUBSET ExDates]
    BY FactorPart
  <2> QED
    BY <1>7, <2>1 DEF TypeOK, Adjust, Goto
<1>8. ASSUME NEW s \in Syncers, UpsertBars(s) PROVE TypeOK'
  <2>1. stored' \subseteq Trading
    BY <1>8 DEF TypeOK, UpsertBars
  <2>2. factor' \in [Trading -> SUBSET ExDates]
    BY <1>8 DEF TypeOK, UpsertBars
  <2> QED
    BY <1>8, <2>1, <2>2 DEF TypeOK, UpsertBars, Goto
<1>9. ASSUME NEW s \in Syncers, RecordCoverage(s) PROVE TypeOK'
  BY <1>9 DEF TypeOK, RecordCoverage, Goto
<1>10. ASSUME NEW s \in Syncers, Fail(s) PROVE TypeOK'
  <2>1. failures' \in Nat /\ UNCHANGED <<dayVars, dbVars>> /\ Leave(s)
    BY <1>10 DEF TypeOK, Fail
  <2> QED
    BY <2>1, LeaveType DEF TypeOK
<1>11. CASE Publish
  BY <1>11 DEF TypeOK, Publish
<1>12. CASE Midnight
  BY <1>12 DEF TypeOK, Midnight
<1>13. CASE UNCHANGED vars
  BY <1>13 DEF TypeOK, vars
<1> QED
  BY <1>1, <1>2, <1>3, <1>4, <1>5, <1>6, <1>7, <1>8, <1>9, <1>10, <1>11, <1>12,
     <1>13 DEF Next, SyncStep

(* Every variable keeps its type, through every interleaving of syncs.     *)
THEOREM CoverageTypes == Spec => []TypeOK
<1>1. ASSUME Init PROVE TypeOK
  <2>1. stored \subseteq Trading
    BY <1>1, DaysAssumption DEF Init
  <2>2. factor \in [Trading -> SUBSET ExDates]
    BY <1>1 DEF Init
  <2>3. /\ ledger \in [Months -> Days \cup {0}]
        /\ pending \in [Syncers -> SUBSET Months]
        /\ trusted \in [Syncers -> SUBSET Months]
        /\ run \in [Syncers -> SUBSET Months]
        /\ batch \in [Syncers -> SUBSET Trading]
        /\ made \in [Syncers -> [Trading -> SUBSET ExDates]]
    BY <1>1 DEF Init
  <2>4. today \in Days /\ end \in [Syncers -> Days]
    BY <1>1, DaysAssumption DEF Init
  <2> QED
    <3>1. /\ published \in BOOLEAN /\ failures \in Nat
          /\ pc \in [Syncers -> {"idle", "stored", "known", "next", "fetch",
                                 "adjust", "upsert", "record"}]
      BY <1>1 DEF Init
    <3> QED
      BY <2>1, <2>2, <2>3, <2>4, <3>1 DEF TypeOK
<1> QED
  BY <1>1, TypeStep, PTL DEF Spec

-----------------------------------------------------------------------------
(* What a sync has fetched of a slice that is past and not cut short is    *)
(* all there is, and it is stored by the time the slice is recorded.       *)
FetchedIsComplete ==
  \A s \in Syncers :
    /\ pc[s] \in {"adjust", "upsert", "record"} =>
         \A m \in run[s] : \A d \in Trading :
           /\ InMonth(d, m)
           /\ LastDay[m] < today /\ LastDay[m] <= end[s]
           => d \in batch[s]
    /\ pc[s] = "record" => batch[s] \subseteq stored

(* A step of s that does not record keeps the ledger right when it keeps   *)
(* the stored bars.                                                        *)
LEMMA CompleteKept ==
  ASSUME CoveredIsComplete, UNCHANGED ledger, stored \subseteq stored'
  PROVE  CoveredIsComplete'
  BY DEF CoveredIsComplete, Covered

LEMMA OthersKept ==
  ASSUME FetchedIsComplete, NEW s \in Syncers, UNCHANGED today,
         stored \subseteq stored',
         \A t \in Syncers \ {s} : /\ pc'[t] = pc[t] /\ end'[t] = end[t]
                                  /\ run'[t] = run[t] /\ batch'[t] = batch[t]
  PROVE  \A t \in Syncers \ {s} :
           /\ pc'[t] \in {"adjust", "upsert", "record"} =>
                \A m \in run'[t] : \A d \in Trading :
                  /\ InMonth(d, m)
                  /\ LastDay[m] < today' /\ LastDay[m] <= end'[t]
                  => d \in batch'[t]
           /\ pc'[t] = "record" => batch'[t] \subseteq stored'
  BY DEF FetchedIsComplete

LEMMA CompleteStep ==
  ASSUME ~LongRuns, TypeOK, FetchedIsComplete, CoveredIsComplete, [Next]_vars
  PROVE  FetchedIsComplete' /\ CoveredIsComplete'
<1> USE DEF dayVars, dbVars, syncVars
<1>0. \A m \in Months : LastDay[m] \in Nat /\ ledger[m] \in Nat
  <2>1. ASSUME NEW m \in Months
        PROVE  LastDay[m] \in Nat /\ ledger[m] \in Nat
    <3>1. LastDay[m] \in Nat
      BY LastDayType
    <3>2. ledger[m] \in Days \/ ledger[m] = 0
      BY DEF TypeOK
    <3>3. ASSUME ledger[m] \in Days PROVE ledger[m] \in Nat
      BY <3>3, LastDayType
    <3>4. ASSUME ledger[m] = 0 PROVE ledger[m] \in Nat
      BY <3>4
    <3> QED
      BY <3>1, <3>2, <3>3, <3>4
  <2> QED
    BY <2>1
<1>1. ASSUME NEW s \in Syncers,
             Begin(s) \/ ReadStored(s) \/ ReadKnown(s) \/ NextRun(s)
               \/ Finish(s) \/ Fail(s)
      PROVE  FetchedIsComplete' /\ CoveredIsComplete'
  <2>1. /\ UNCHANGED <<today, stored, ledger>>
        /\ pc'[s] \notin {"adjust", "upsert", "record"}
        /\ \A t \in Syncers \ {s} : /\ pc'[t] = pc[t] /\ end'[t] = end[t]
                                    /\ run'[t] = run[t] /\ batch'[t] = batch[t]
    BY <1>1 DEF TypeOK, Begin, ReadStored, ReadKnown, NextRun, Finish, Fail, Leave,
                Goto
  <2> QED
    BY <2>1, CompleteKept, OthersKept DEF FetchedIsComplete
<1>2. ASSUME NEW s \in Syncers, FetchBars(s)
      PROVE  FetchedIsComplete' /\ CoveredIsComplete'
  <2>1. /\ UNCHANGED <<today, stored, ledger, end, run>>
        /\ pc'[s] = "adjust"
        /\ \A t \in Syncers \ {s} : pc'[t] = pc[t] /\ batch'[t] = batch[t]
    BY <1>2 DEF TypeOK, FetchBars, Goto
  <2>2. batch'[s] = {d \in Upstream : /\ d <= end[s]
                                      /\ \E m \in run[s] : InMonth(d, m)}
    BY <1>2 DEF TypeOK, FetchBars
  <2>3. ASSUME NEW m \in run[s], NEW d \in Trading, InMonth(d, m),
               LastDay[m] < today, LastDay[m] <= end[s]
        PROVE  d \in batch'[s]
    <3>1. m \in Months /\ d \in Nat /\ today \in Nat /\ end[s] \in Nat
      BY LastDayType DEF TypeOK
    <3>2. d <= LastDay[m]
      BY <2>3 DEF InMonth
    <3>3. d < today /\ d <= end[s]
      BY <1>0, <2>3, <3>1, <3>2
    <3> QED
      BY <2>2, <2>3, <3>3 DEF Upstream
  <2> QED
    BY <2>1, <2>3, CompleteKept, OthersKept DEF FetchedIsComplete
<1>3. ASSUME NEW s \in Syncers, Adjust(s)
      PROVE  FetchedIsComplete' /\ CoveredIsComplete'
  <2>1. /\ UNCHANGED <<today, stored, ledger, end, run, batch>>
        /\ pc[s] = "adjust" /\ pc'[s] = "upsert"
        /\ \A t \in Syncers \ {s} : pc'[t] = pc[t]
    BY <1>3 DEF TypeOK, Adjust, Goto
  <2> QED
    BY <2>1, CompleteKept, OthersKept DEF FetchedIsComplete
<1>4. ASSUME NEW s \in Syncers, UpsertBars(s)
      PROVE  FetchedIsComplete' /\ CoveredIsComplete'
  <2>1. /\ UNCHANGED <<today, ledger, end, run, batch>>
        /\ stored' = stored \cup batch[s]
        /\ pc[s] = "upsert" /\ pc'[s] = "record"
        /\ \A t \in Syncers \ {s} : pc'[t] = pc[t]
    BY <1>4 DEF TypeOK, UpsertBars, Goto
  <2> QED
    BY <2>1, CompleteKept, OthersKept DEF FetchedIsComplete
<1>5. ASSUME NEW s \in Syncers, RecordCoverage(s)
      PROVE  FetchedIsComplete' /\ CoveredIsComplete'
  <2>1. /\ UNCHANGED <<today, stored, end>>
        /\ pc[s] = "record" /\ pc'[s] = "next"
        /\ \A t \in Syncers \ {s} : /\ pc'[t] = pc[t]
                                    /\ run'[t] = run[t] /\ batch'[t] = batch[t]
    BY <1>5 DEF TypeOK, RecordCoverage, Goto
  <2>2. ASSUME NEW m \in Months, Covered(m)', NEW d \in Trading, InMonth(d, m)
        PROVE  d \in stored
    <3>1. CASE m \in run[s] /\ Recordable(s, m)
      <4>1. ledger'[m] = today
        BY <1>5, <3>1 DEF RecordCoverage
      <4>2. LastDay[m] < today /\ today \in Nat
        BY <2>2, <4>1, LastDayType DEF Covered, TypeOK
      <4>3. LastDay[m] <= end[s]
        BY <1>0, <3>1, <4>2 DEF Recordable
      <4> QED
        BY <2>1, <2>2, <3>1, <4>2, <4>3 DEF FetchedIsComplete
    <3>2. CASE ~(m \in run[s] /\ Recordable(s, m))
      <4>1. ledger'[m] = ledger[m]
        BY <1>5, <3>2 DEF RecordCoverage
      <4> QED
        BY <2>2, <4>1 DEF Covered, CoveredIsComplete
    <3> QED
      BY <3>1, <3>2
  <2>3. CoveredIsComplete'
    BY <2>1, <2>2 DEF CoveredIsComplete
  <2> QED
    BY <2>1, <2>3, OthersKept DEF FetchedIsComplete
<1>6. CASE Publish
  <2>1. FetchedIsComplete'
    BY <1>6 DEF Publish, FetchedIsComplete
  <2> QED
    BY <1>6, <2>1, CompleteKept DEF Publish
<1>7. CASE Midnight
  <2>1. \A s \in Syncers : pc'[s] = "idle"
    BY <1>7 DEF Midnight
  <2> QED
    BY <1>7, <2>1, CompleteKept DEF Midnight, FetchedIsComplete
<1>8. CASE UNCHANGED vars
  <2>1. FetchedIsComplete'
    BY <1>8 DEF vars, FetchedIsComplete
  <2> QED
    BY <1>8, <2>1, CompleteKept DEF vars
<1> QED
  BY <1>1, <1>2, <1>3, <1>4, <1>5, <1>6, <1>7, <1>8 DEF Next, SyncStep

LEMMA CompleteInit == Init => FetchedIsComplete /\ CoveredIsComplete
<1>1. ASSUME Init PROVE \A m \in Months : ~Covered(m)
  BY <1>1, LastDayType DEF Init, Covered
<1> QED
  BY <1>1 DEF Init, FetchedIsComplete, CoveredIsComplete

(* A slice that the ledger counts as covered has every bar of the exchange *)
(* in the table, for every calendar, any number of concurrent syncs and    *)
(* any windows, when no sync runs across midnight.                         *)
THEOREM CoverageComplete ==
  ASSUME ~LongRuns
  PROVE  Spec => []CoveredIsComplete
<1>1. TypeOK /\ FetchedIsComplete /\ CoveredIsComplete /\ [Next]_vars
        => FetchedIsComplete' /\ CoveredIsComplete'
  BY CompleteStep
<1> QED
  BY CompleteInit, <1>1, CoverageTypes, PTL DEF Spec

-----------------------------------------------------------------------------
(* A lone sync: the worker, and no manual backfill next to it.             *)

Lone == (\A s, t \in Syncers : s = t) /\ (\A s \in Syncers : s \notin Manual)

(* What a lone sync is about to fetch is not covered.                      *)
ToFetch ==
  \A s \in Syncers :
    /\ pc[s] \in {"idle", "stored", "known", "next"} => run[s] = {}
    /\ pc[s] = "idle" => pending[s] = {}
    /\ \A m \in pending[s] \cup run[s] : ~Covered(m)
    /\ \A m \in run[s], n \in pending[s] : m < n

LEMMA RunFirst ==
  ASSUME NEW P \in SUBSET Months, NEW m \in FirstRun(P), NEW n \in P \ FirstRun(P)
  PROVE  m < n
<1> SUFFICES ASSUME n <= m PROVE FALSE
  BY LastDayType DEF FirstRun, Months
<1>1. m \in Nat /\ n \in Nat /\ m \in P
  <2>1. m \in P /\ m \in Months /\ n \in Months
    BY FirstRunPart
  <2> QED
    BY <2>1, LastDayType DEF Months
<1>2. ASSUME NEW a \in P, a <= n PROVE a .. n \subseteq P
  <2>1. a \in Nat
    BY LastDayType DEF Months
  <2>2. a <= m
    BY <1>1, <1>2, <2>1
  <2>3. a .. m \subseteq P
    BY <2>2 DEF FirstRun
  <2>4. a .. n \subseteq a .. m
    BY <1>1, <2>1
  <2> QED
    BY <2>3, <2>4
<1>3. n \in FirstRun(P)
  BY <1>2 DEF FirstRun
<1> QED
  BY <1>3

LEMMA ToFetchInit == Init => ToFetch
  BY DEF Init, ToFetch

LEMMA ToFetchStep ==
  ASSUME Lone, TypeOK, ToFetch, [Next]_vars
  PROVE  ToFetch'
<1> USE DEF dayVars, dbVars, syncVars
<1>1. ASSUME NEW s \in Syncers, Begin(s) PROVE ToFetch'
  <2>1. PICK m \in Months, e \in Days :
          pending' = [pending EXCEPT ![s] =
            {n \in m .. Slices : LastDay[n - 1] < e /\ ~Covered(n)}]
    BY <1>1 DEF Begin
  <2>2. /\ pc[s] = "idle" /\ run' = run /\ ledger' = ledger
        /\ pc'[s] \in {"stored", "next"}
    BY <1>1 DEF Begin, Goto, TypeOK
  <2>3. \A n \in pending'[s] : ~Covered(n)
    BY <2>1 DEF TypeOK
  <2>4. \A t \in Syncers : t = s
    BY DEF Lone
  <2> QED
    BY <2>2, <2>3, <2>4 DEF ToFetch, Covered
<1>2. ASSUME NEW s \in Syncers, ReadStored(s) PROVE ToFetch'
  BY <1>2 DEF ReadStored, Goto, TypeOK, ToFetch, Covered
<1>3. ASSUME NEW s \in Syncers, ReadKnown(s) PROVE ToFetch'
  <2>1. /\ pc[s] = "known" /\ pc' = [pc EXCEPT ![s] = "next"]
        /\ run' = run /\ ledger' = ledger
        /\ pending' = [pending EXCEPT ![s] = @ \cup (trusted[s] \ Known(s))]
    BY <1>3 DEF ReadKnown, Goto
  <2>2. \A n \in trusted[s] \ Known(s) : ~Covered(n)
    BY LastDayType DEF TypeOK, Known, Covered
  <2>3. \A t \in Syncers : t = s
    BY DEF Lone
  <2>4. /\ run'[s] = {} /\ pc'[s] = "next"
        /\ \A n \in pending'[s] : ~Covered(n)
    BY <2>1, <2>2 DEF TypeOK, ToFetch
  <2> QED
    BY <2>1, <2>3, <2>4 DEF ToFetch, Covered
<1>4. ASSUME NEW s \in Syncers, NextRun(s) PROVE ToFetch'
  <2>1. /\ pc[s] = "next" /\ pc'[s] = "fetch" /\ ledger' = ledger
        /\ run'[s] = FirstRun(pending[s])
        /\ pending'[s] = pending[s] \ FirstRun(pending[s])
    BY <1>4 DEF NextRun, Goto, TypeOK
  <2>2. pending[s] \in SUBSET Months
    BY DEF TypeOK
  <2>3. \A n \in pending'[s] \cup run'[s] : ~Covered(n)
    BY <2>1, FirstRunPart DEF ToFetch
  <2>4. \A m \in run'[s], n \in pending'[s] : m < n
    BY <2>1, <2>2, RunFirst
  <2>5. \A t \in Syncers : t = s
    BY DEF Lone
  <2> QED
    BY <2>1, <2>3, <2>4, <2>5 DEF ToFetch, Covered
<1>5. ASSUME NEW s \in Syncers, Finish(s) \/ Fail(s) PROVE ToFetch'
  <2>1. pc'[s] = "idle" /\ run'[s] = {} /\ pending'[s] = {}
    BY <1>5 DEF Finish, Fail, Leave, Goto, TypeOK
  <2>2. \A t \in Syncers : t = s
    BY DEF Lone
  <2> QED
    BY <2>1, <2>2 DEF ToFetch
<1>6. ASSUME NEW s \in Syncers, FetchBars(s) \/ Adjust(s) \/ UpsertBars(s)
      PROVE  ToFetch'
  BY <1>6 DEF FetchBars, Adjust, UpsertBars, Goto, TypeOK, ToFetch, Covered
<1>7. ASSUME NEW s \in Syncers, RecordCoverage(s) PROVE ToFetch'
  <2>1. /\ pc[s] = "record" /\ pc'[s] = "next" /\ run'[s] = {}
        /\ pending' = pending
    BY <1>7 DEF RecordCoverage, Goto, TypeOK
  <2>2. ASSUME NEW n \in pending[s] PROVE ledger'[n] = ledger[n]
    <3>1. n \in Months /\ n \in Nat /\ ~(n < n)
      BY LastDayType DEF TypeOK, Months
    <3>2. n \notin run[s]
      BY <3>1 DEF ToFetch
    <3> QED
      BY <1>7, <3>1, <3>2 DEF RecordCoverage
  <2>3. \A t \in Syncers : t = s
    BY DEF Lone
  <2> QED
    BY <2>1, <2>2, <2>3 DEF ToFetch, Covered
<1>8. CASE Publish \/ Midnight \/ UNCHANGED vars
  BY <1>8 DEF Publish, Midnight, vars, ToFetch, Covered
<1> QED
  BY <1>1, <1>2, <1>3, <1>4, <1>5, <1>6, <1>7, <1>8 DEF Next, SyncStep

(* A lone sync never requests a slice that is covered, whatever failed and *)
(* though midnight passes while it runs.                                   *)
THEOREM LoneFetchesOnce ==
  ASSUME Lone
  PROVE  Spec => []ClosedAreFetchedOnce
<1>1. TypeOK /\ ToFetch /\ [Next]_vars => ToFetch'
  BY ToFetchStep
<1>2. ToFetch => ClosedAreFetchedOnce
  BY DEF ToFetch, ClosedAreFetchedOnce
<1> QED
  BY ToFetchInit, <1>1, <1>2, CoverageTypes, PTL DEF Spec

-----------------------------------------------------------------------------
(* The factors of a lone sync.                                             *)

InRun(d, s)  == \E m \in run[s] : InMonth(d, m)
Past(m)      == LastDay[m] < today
HasBars(m)   == \E d \in stored : InMonth(d, m)
AllStored(m) == \A d \in Trading : InMonth(d, m) => d \in stored
NoneUpTo(m)  == \A d \in stored : d > LastDay[m]

(* The window that ends today reaches back to m.                           *)
InWindow(m) == \E n \in Months : InMonth(today, n) /\ n <= m + Lookback

(* Before a sync, no month of which bars are missing lies between stored   *)
(* bars and the window: those before the window have all their bars, or    *)
(* will be rebuilt, or are older than everything that is stored.           *)
NoGap ==
  (\A s \in Syncers : pc[s] = "idle") =>
    \A m \in Months : Past(m) /\ ~InWindow(m) =>
      \/ AllStored(m) \/ NoneUpTo(m)
      \/ ledger[m] = 0 /\ HasBars(m)

(* The window ends today, and a trusted month has a ledger entry.          *)
LocalsInv(s) ==
  /\ pc[s] # "idle" => end[s] = today
  /\ pc[s] \in {"next", "fetch", "adjust", "upsert", "record"} =>
       \A m \in trusted[s] : ledger[m] # 0

(* A batch replaces every stored bar of its months; its factors are right  *)
(* when they are made and when they are stored.                            *)
BatchInv(s) ==
  /\ pc[s] \in {"adjust", "upsert", "record"} =>
       /\ \A d \in batch[s] : InRun(d, s) /\ d \in Upstream
       /\ \A d \in stored : InRun(d, s) => d \in batch[s]
  /\ pc[s] = "upsert" => \A d \in batch[s] : made[s][d] = EventsUpTo(d)
  /\ pc[s] = "record" => \A d \in batch[s] : factor[d] = EventsUpTo(d)

(* A month that is past is still to be fetched, or has all its bars, or is *)
(* before the window and older than everything that is stored.             *)
Accounted(s, m) ==
  \/ m \in pending[s] \cup run[s]
  \/ AllStored(m)
  \/ ~InWindow(m) /\ NoneUpTo(m)
  \/ pc[s] = "stored" /\ ledger[m] = 0 /\ HasBars(m)
  \/ pc[s] = "known" /\ ledger[m] = 0 /\ m \in trusted[s]

GapInv(s) ==
  /\ \A m \in pending[s] \cup run[s] : InWindow(m) \/ HasBars(m)
  /\ pc[s] = "known" => \A m \in trusted[s] : HasBars(m)
  /\ pc[s] # "idle" => \A m \in Months : Past(m) => Accounted(s, m)

LoneInv ==
  /\ stored \subseteq Upstream
  /\ FactorsSound
  /\ \A s \in Syncers : LocalsInv(s) /\ BatchInv(s) /\ GapInv(s)

(* What the proof knows of a state.                                        *)
Sound == TypeOK /\ FetchedIsComplete /\ CoveredIsComplete /\ ToFetch /\ LoneInv

LEMMA MonthsOrdered ==
  ASSUME NEW m \in Months, NEW n \in Months, m < n
  PROVE  LastDay[m] <= LastDay[n - 1]
<1>1. m \in 0 .. Slices /\ n - 1 \in 0 .. Slices /\ m <= n - 1
  BY LastDayType DEF Months
<1>2. CASE m = n - 1
  BY <1>1, <1>2, LastDayType
<1>3. CASE m < n - 1
  BY <1>1, <1>3, LastDayType, LastDayAssumption DEF LastDayAssumption
<1> QED
  BY <1>1, <1>2, <1>3 DEF Months

LEMMA OneMonth ==
  ASSUME NEW d \in Nat, NEW m \in Months, NEW n \in Months, InMonth(d, m), InMonth(d, n)
  PROVE  m = n
<1>1. m \in Nat /\ n \in Nat /\ LastDay[m] \in Nat /\ LastDay[n] \in Nat
      /\ LastDay[m - 1] \in Nat /\ LastDay[n - 1] \in Nat
  BY LastDayType DEF Months
<1>2. ~(m < n) /\ ~(n < m)
  BY <1>1, MonthsOrdered DEF InMonth
<1> QED
  BY <1>1, <1>2

(* Every day is in a month: the first that it is not after.                *)
LEMMA MonthOfDay ==
  ASSUME NEW d \in Days
  PROVE  \E m \in Months : InMonth(d, m)
<1> DEFINE Upper == {m \in Months : d <= LastDay[m]}
<1>1. d \in Nat /\ d > 0 /\ Slices \in Upper
  BY LastDayType, SlicesAssumption DEF Days, Months
<1>2. PICK m \in Upper : \A n \in Upper : m <= n
  <2>1. Upper \in SUBSET Nat /\ Upper # {}
    BY <1>1 DEF Months
  <2>2. IsFiniteSet(Upper)
    <3>1. IsFiniteSet(1 .. Slices) /\ Upper \in SUBSET (1 .. Slices)
      BY LastDayType, FS_Interval DEF Months
    <3> QED
      BY <3>1, FS_Subset
  <2> HIDE DEF Upper
  <2> QED
    BY <2>1, <2>2, LeastExists
<1>3. LastDay[m - 1] < d
  <2>1. CASE m = 1
    BY <1>1, <2>1, LastDayAssumption DEF LastDayAssumption
  <2>2. CASE m # 1
    <3>0. m \in 1 .. Slices
      BY <1>2 DEF Months
    <3>1. m - 1 \in Months /\ m \in Nat
      BY <2>2, <3>0, LastDayType DEF Months
    <3>2. m - 1 \notin Upper
      BY <1>2, <3>1
    <3> QED
      BY <1>1, <3>1, <3>2, LastDayType
  <2> QED
    BY <2>1, <2>2
<1> QED
  BY <1>3 DEF InMonth

LEMMA WindowGrows ==
  ASSUME NEW m \in Months, NEW n \in Months, m <= n, InWindow(m)
  PROVE  InWindow(n)
<1>1. m \in Nat /\ n \in Nat /\ Lookback \in Nat
  BY LastDayType, BoundsAssumption DEF Months
<1> QED
  BY <1>1 DEF InWindow, Months

(* The factor that Adjust makes is right: the resumed one has every event  *)
(* before the run.                                                         *)
LEMMA FactorIsSound ==
  ASSUME Adjusted, Sound, NEW s \in Syncers, pc[s] = "adjust", NEW d \in batch[s]
  PROVE  FactorOf(d, s) = EventsUpTo(d)
<1> USE LastDayType
<1>1. PICK m \in run[s] : InMonth(d, m)
  BY DEF Sound, LoneInv, BatchInv, InRun
<1>2. /\ m \in Months /\ d \in Nat /\ today \in Nat /\ d <= today
      /\ run[s] \subseteq Months /\ stored \subseteq Nat /\ ExDates \subseteq Nat
      /\ stored \subseteq Trading
  BY DEF Sound, TypeOK, LoneInv, BatchInv, Upstream
<1>3. CASE Resume(s) = {}
  BY <1>3 DEF FactorOf
<1>4. CASE Resume(s) # {}
  <2>1. PICK p \in Resume(s) : TRUE
    BY <1>4
  <2>2. /\ p \in stored /\ BeforeRun(p, s)
        /\ \A q \in stored : BeforeRun(q, s) => q <= p
        /\ \E n \in trusted[s] : InMonth(p, n)
    BY <2>1 DEF Resume
  <2>3. Resume(s) = {p}
    <3>1. ASSUME NEW q \in Resume(s) PROVE q = p
      <4>1. q \in stored /\ q <= p /\ p <= q
        BY <2>1 DEF Resume
      <4> QED
        BY <1>2, <2>2, <4>1
    <3> QED
      BY <2>1, <3>1
  <2>4. factor[p] = EventsUpTo(p)
    <3>1. PICK n \in trusted[s] : InMonth(p, n)
      BY <2>2
    <3>2. n \in Months /\ ledger[n] # 0
      BY DEF Sound, TypeOK, LoneInv, LocalsInv
    <3> QED
      BY <2>2, <3>1, <3>2 DEF Sound, LoneInv, FactorsSound
  <2>5. p < d
    <3>1. p <= LastDay[m - 1] /\ LastDay[m - 1] < d /\ LastDay[m - 1] \in Nat
      BY <1>1, <1>2, <2>2 DEF BeforeRun, InMonth
    <3> QED
      BY <1>2, <2>2, <3>1
  <2>6. ASSUME NEW a \in ExDates, a <= d, BeforeRun(a, s) PROVE a <= p
    <3>1. a \in Trading /\ a \in Nat /\ a \in Days
      OBVIOUS
    <3>2. PICK n \in Months : InMonth(a, n)
      BY <3>1, MonthOfDay
    <3>3. n < m
      <4>1. a <= LastDay[m - 1] /\ LastDay[n - 1] < a
        BY <2>6, <3>2 DEF BeforeRun, InMonth
      <4>2. n = m \/ m < n => LastDay[m - 1] <= LastDay[n - 1]
        <5>1. CASE m < n
          <6>1. LastDay[m] <= LastDay[n - 1] /\ LastDay[m - 1] < LastDay[m]
            BY <1>1, <1>2, <5>1, MonthsOrdered DEF InMonth
          <6> QED
            BY <1>2, <6>1
        <5>2. CASE n = m
          BY <1>2, <5>2
        <5> QED
          BY <5>1, <5>2
      <4>3. LastDay[m - 1] \in Nat /\ LastDay[n - 1] \in Nat /\ m \in Nat /\ n \in Nat
        BY <1>2 DEF Months
      <4> QED
        BY <3>1, <4>1, <4>2, <4>3
    <3>4. Past(n)
      <4>1. LastDay[n] <= LastDay[m - 1] /\ LastDay[m - 1] < d
        BY <1>1, <1>2, <3>3, MonthsOrdered DEF InMonth
      <4> QED
        BY <1>2, <4>1 DEF Past
    <3>5. n \notin run[s]
      <4>1. ASSUME n \in run[s] PROVE FALSE
        <5>1. a <= LastDay[n - 1] /\ LastDay[n - 1] < a
          BY <2>6, <3>2, <4>1 DEF BeforeRun, InMonth
        <5> QED
          BY <3>1, <5>1
      <4> QED
        BY <4>1
    <3>6. n \notin pending[s]
      <4>1. n \in Nat /\ m \in Nat
        BY <1>2 DEF Months
      <4>2. n \in pending[s] => m < n
        BY DEF Sound, ToFetch
      <4> QED
        BY <3>3, <4>1, <4>2
    <3>7. AllStored(n) \/ NoneUpTo(n)
      BY <3>4, <3>5, <3>6 DEF Sound, LoneInv, GapInv, Accounted
    <3>8. CASE AllStored(n)
      BY <2>2, <2>6, <3>1, <3>2, <3>8 DEF AllStored
    <3>9. CASE NoneUpTo(n)
      <4>1. p > LastDay[n] /\ a <= LastDay[n]
        BY <2>2, <3>2, <3>9 DEF NoneUpTo, InMonth
      <4> QED
        BY <1>2, <2>2, <3>1, <4>1
    <3> QED
      BY <3>7, <3>8, <3>9
  <2>7. FactorOf(d, s) = EventsUpTo(p) \cup {a \in EventsUpTo(d) : ~BeforeRun(a, s)}
    BY <1>4, <2>3, <2>4 DEF FactorOf
  <2>8. EventsUpTo(p) \subseteq EventsUpTo(d)
    <3>1. p \in Nat
      BY <1>2, <2>2
    <3>2. \A a \in ExDates : a <= p => a <= d
      BY <1>2, <2>5, <3>1
    <3> QED
      BY <3>2 DEF EventsUpTo
  <2>9. \A a \in EventsUpTo(d) : BeforeRun(a, s) => a \in EventsUpTo(p)
    BY <2>6 DEF EventsUpTo
  <2> QED
    BY <2>7, <2>8, <2>9
<1> QED
  BY <1>3, <1>4

LEMMA LoneInit == Init => LoneInv
<1> SUFFICES ASSUME Init PROVE LoneInv
  OBVIOUS
<1>1. stored \subseteq Upstream
  BY DaysAssumption DEF DaysAssumption, Init, Upstream
<1>2. FactorsSound
  BY DEF Init, FactorsSound
<1>3. \A s \in Syncers : pc[s] = "idle" /\ pending[s] = {} /\ run[s] = {}
  BY DEF Init
<1> QED
  BY <1>1, <1>2, <1>3 DEF LoneInv, LocalsInv, BatchInv, GapInv

(* The steps of a sync up to its first run.                                *)
LEMMA BeginStep ==
  ASSUME Lone, Adjusted, Sound, NoGap, NEW s \in Syncers, Begin(s)
  PROVE  LoneInv'
<1> USE LastDayType
<1>1. PICK m \in Months, e \in Days :
        /\ Window(s, m, e)
        /\ end' = [end EXCEPT ![s] = e]
        /\ pending' = [pending EXCEPT ![s] =
             {j \in m .. Slices : LastDay[j - 1] < e /\ ~Covered(j)}]
  BY DEF Begin
<1>2. PICK n \in Months :
        InMonth(today, n) /\ (m + Lookback = n \/ (n <= Lookback /\ m = 1))
  BY <1>1 DEF Window, Lone
<1>3. /\ e = today /\ today \in Nat /\ m \in Nat /\ n \in Nat /\ Lookback \in Nat
  BY <1>1, BoundsAssumption DEF Window, Lone, Sound, TypeOK, Months, BoundsAssumption
<1>4. /\ pc[s] = "idle" /\ pc'[s] = "stored"
      /\ UNCHANGED <<today, published, stored, factor, ledger, run>>
      /\ end'[s] = today /\ run[s] = {}
      /\ pending'[s] = {j \in m .. Slices : LastDay[j - 1] < e /\ ~Covered(j)}
  BY <1>1, <1>3 DEF Begin, Goto, Sound, TypeOK, ToFetch, dayVars, dbVars
<1>5. \A t \in Syncers : t = s
  BY DEF Lone
<1>6. \A j \in pending'[s] : InWindow(j)
  <2>1. ASSUME NEW j \in pending'[s] PROVE n <= j + Lookback
    <3>1. j \in m .. Slices
      BY <1>4
    <3> QED
      BY <1>2, <1>3, <3>1
  <2> QED
    BY <1>2, <2>1 DEF InWindow
<1>7. ASSUME NEW k \in Months, Past(k), InWindow(k)
      PROVE  k \in pending'[s] \/ AllStored(k)
  <2>1. PICK i \in Months : InMonth(today, i) /\ i <= k + Lookback
    BY <1>7 DEF InWindow
  <2>2. i = n
    BY <1>2, <1>3, <2>1, OneMonth
  <2>3. k \in m .. Slices
    BY <1>2, <1>3, <2>1, <2>2 DEF Months
  <2>4. LastDay[k - 1] < e
    <3>1. LastDay[k - 1] < LastDay[k] /\ LastDay[k] < today
      BY <1>7, LastDayAssumption DEF LastDayAssumption, Past, Months
    <3> QED
      BY <1>3, <3>1
  <2>5. CASE Covered(k)
    BY <2>5 DEF Sound, CoveredIsComplete, AllStored
  <2>6. CASE ~Covered(k)
    BY <1>4, <2>3, <2>4, <2>6
  <2> QED
    BY <2>5, <2>6
<1>8. ASSUME NEW k \in Months, Past(k), ~InWindow(k)
      PROVE  AllStored(k) \/ NoneUpTo(k) \/ (ledger[k] = 0 /\ HasBars(k))
  BY <1>4, <1>5, <1>8 DEF NoGap
<1>9. GapInv(s)'
  BY <1>4, <1>6, <1>7, <1>8
  DEF GapInv, Accounted, InWindow, Past, AllStored, NoneUpTo, HasBars
<1>10. LocalsInv(s)' /\ BatchInv(s)'
  BY <1>4 DEF LocalsInv, BatchInv
<1>11. Upstream' = Upstream /\ FactorsSound'
  BY <1>4 DEF Sound, LoneInv, Upstream, FactorsSound
<1> QED
  BY <1>4, <1>5, <1>9, <1>10, <1>11 DEF Sound, LoneInv

(* What the steps that touch neither the tables nor the clock keep.        *)
LEMMA TablesKept ==
  ASSUME Lone, Sound, NEW s \in Syncers,
         UNCHANGED <<today, published, stored, factor, ledger>>,
         LocalsInv(s)', BatchInv(s)', GapInv(s)'
  PROVE  LoneInv'
<1>1. Upstream' = Upstream /\ FactorsSound'
  BY DEF Sound, LoneInv, Upstream, FactorsSound
<1>2. \A t \in Syncers : t = s
  BY DEF Lone
<1> QED
  BY <1>1, <1>2 DEF Sound, LoneInv

LEMMA ReadingStep ==
  ASSUME Lone, Sound, NEW s \in Syncers,
         ReadStored(s) \/ ReadKnown(s) \/ NextRun(s) \/ FetchBars(s)
  PROVE  LoneInv'
<1> USE LastDayType DEF dayVars, dbVars
<1>0. LocalsInv(s) /\ BatchInv(s) /\ GapInv(s) /\ TypeOK /\ stored \subseteq Upstream
  BY DEF Sound, LoneInv
<1>1. CASE ReadStored(s)
  <2>1. /\ UNCHANGED <<today, published, stored, factor, ledger>>
        /\ UNCHANGED <<end, pending, run>>
        /\ pc[s] = "stored" /\ pc'[s] = "known" /\ end[s] = today
        /\ trusted'[s] = {m \in Months : \E d \in stored : InMonth(d, m) /\ d <= end[s]}
    BY <1>0, <1>1 DEF ReadStored, Goto, TypeOK, LocalsInv
  <2>2. \A d \in stored : d <= today
    BY <1>0 DEF Upstream, TypeOK
  <2>3. \A m \in Months : HasBars(m) <=> m \in trusted'[s]
    BY <2>1, <2>2 DEF HasBars
  <2>4. GapInv(s)'
    BY <1>0, <2>1, <2>3
    DEF GapInv, Accounted, InWindow, Past, AllStored, NoneUpTo, HasBars, TypeOK
  <2>5. LocalsInv(s)' /\ BatchInv(s)'
    BY <1>0, <2>1 DEF LocalsInv, BatchInv
  <2> QED
    BY <2>1, <2>4, <2>5, TablesKept
<1>2. CASE ReadKnown(s)
  <2>1. /\ UNCHANGED <<today, published, stored, factor, ledger>>
        /\ UNCHANGED <<end, run>>
        /\ pc[s] = "known" /\ pc'[s] = "next"
        /\ trusted'[s] = {m \in trusted[s] : ledger[m] # 0}
        /\ pending'[s] = pending[s] \cup {m \in trusted[s] : ledger[m] = 0}
    BY <1>0, <1>2 DEF ReadKnown, Known, Goto, TypeOK
  <2>2. GapInv(s)'
    BY <1>0, <2>1
    DEF GapInv, Accounted, InWindow, Past, AllStored, NoneUpTo, HasBars, TypeOK
  <2>3. LocalsInv(s)' /\ BatchInv(s)'
    BY <1>0, <2>1 DEF LocalsInv, BatchInv
  <2> QED
    BY <2>1, <2>2, <2>3, TablesKept
<1>3. CASE NextRun(s)
  <2>1. /\ UNCHANGED <<today, published, stored, factor, ledger>>
        /\ UNCHANGED <<end, trusted>>
        /\ pc[s] = "next" /\ pc'[s] = "fetch"
        /\ run'[s] = FirstRun(pending[s])
        /\ pending'[s] = pending[s] \ FirstRun(pending[s])
    BY <1>0, <1>3 DEF NextRun, Goto, TypeOK
  <2>2. pending'[s] \cup run'[s] = pending[s] /\ run[s] = {}
    BY <2>1, FirstRunPart DEF Sound, ToFetch
  <2>3. GapInv(s)'
    BY <1>0, <2>1, <2>2
    DEF GapInv, Accounted, InWindow, Past, AllStored, NoneUpTo, HasBars
  <2>4. LocalsInv(s)' /\ BatchInv(s)'
    BY <1>0, <2>1 DEF LocalsInv, BatchInv
  <2> QED
    BY <2>1, <2>3, <2>4, TablesKept
<1>4. CASE FetchBars(s)
  <2>1. /\ UNCHANGED <<today, published, stored, factor, ledger>>
        /\ UNCHANGED <<end, pending, trusted, run>>
        /\ pc[s] = "fetch" /\ pc'[s] = "adjust" /\ end[s] = today
        /\ batch'[s] = {d \in Upstream : d <= end[s] /\ InRun(d, s)}
    BY <1>0, <1>4 DEF FetchBars, Goto, TypeOK, LocalsInv, InRun
  <2>2. \A d \in stored : d \in Upstream /\ d <= today
    BY <1>0 DEF Upstream, TypeOK
  <2>3. BatchInv(s)'
    BY <2>1, <2>2 DEF BatchInv, InRun, Upstream
  <2>4. GapInv(s)'
    BY <1>0, <2>1
    DEF GapInv, Accounted, InWindow, Past, AllStored, NoneUpTo, HasBars
  <2>5. LocalsInv(s)'
    BY <1>0, <2>1 DEF LocalsInv
  <2> QED
    BY <2>1, <2>3, <2>4, <2>5, TablesKept
<1> QED
  BY <1>1, <1>2, <1>3, <1>4

LEMMA AdjustStep ==
  ASSUME Lone, Adjusted, Sound, NEW s \in Syncers, Adjust(s)
  PROVE  LoneInv'
<1> USE LastDayType DEF dayVars, dbVars
<1>0. LocalsInv(s) /\ BatchInv(s) /\ GapInv(s) /\ TypeOK
  BY DEF Sound, LoneInv
<1>1. /\ UNCHANGED <<today, published, stored, factor, ledger>>
      /\ UNCHANGED <<end, pending, trusted, run, batch>>
      /\ pc[s] = "adjust" /\ pc'[s] = "upsert"
      /\ made'[s] = [d \in Trading |-> IF d \in batch[s] THEN FactorOf(d, s) ELSE {}]
  BY <1>0 DEF Adjust, Goto, TypeOK
<1>2. \A d \in batch[s] : made'[s][d] = EventsUpTo(d)
  BY <1>0, <1>1, FactorIsSound DEF TypeOK
<1>3. BatchInv(s)'
  BY <1>0, <1>1, <1>2 DEF BatchInv, InRun, Upstream
<1>4. GapInv(s)'
  BY <1>0, <1>1
  DEF GapInv, Accounted, InWindow, Past, AllStored, NoneUpTo, HasBars
<1>5. LocalsInv(s)'
  BY <1>0, <1>1 DEF LocalsInv
<1> QED
  BY <1>1, <1>3, <1>4, <1>5, TablesKept

(* The bars of a run do not end up below a month that is older than all    *)
(* that was stored: they are in the window, or months that had bars.       *)
LEMMA BatchAbove ==
  ASSUME Sound, NEW s \in Syncers, pc[s] = "upsert", NEW d \in batch[s],
         NEW k \in Months, k \notin run[s], ~InWindow(k), NoneUpTo(k)
  PROVE  d > LastDay[k]
<1> USE LastDayType
<1>0. BatchInv(s) /\ GapInv(s) /\ TypeOK
  BY DEF Sound, LoneInv
<1>1. PICK j \in run[s] : InMonth(d, j)
  BY <1>0 DEF BatchInv, InRun
<1>2. /\ j \in Months /\ j \in Nat /\ k \in Nat /\ d \in Nat /\ stored \subseteq Nat
      /\ LastDay[k] \in Nat /\ LastDay[j] \in Nat /\ LastDay[j - 1] \in Nat
      /\ j # k
  BY <1>0 DEF TypeOK, Months
<1> SUFFICES ASSUME d <= LastDay[k] PROVE FALSE
  BY <1>2
<1>3. j < k
  <2>1. CASE k < j
    <3>1. LastDay[k] <= LastDay[j - 1] /\ LastDay[j - 1] < d
      BY <1>1, <1>2, <2>1, MonthsOrdered DEF InMonth
    <3> QED
      BY <1>2, <3>1
  <2> QED
    BY <1>2, <2>1
<1>4. ~InWindow(j)
  BY <1>2, <1>3, WindowGrows
<1>5. PICK b \in stored : InMonth(b, j)
  BY <1>0, <1>4 DEF GapInv, HasBars
<1>6. b <= LastDay[j] /\ LastDay[j] <= LastDay[k - 1] /\ LastDay[k - 1] < LastDay[k]
  BY <1>2, <1>3, <1>5, MonthsOrdered, LastDayAssumption
  DEF InMonth, LastDayAssumption, Months
<1>7. b > LastDay[k] /\ LastDay[k - 1] \in Nat /\ b \in Nat
  BY <1>2, <1>5 DEF NoneUpTo
<1> QED
  BY <1>2, <1>6, <1>7

LEMMA UpsertStep ==
  ASSUME Lone, Adjusted, Sound, NEW s \in Syncers, UpsertBars(s)
  PROVE  LoneInv'
<1> USE LastDayType DEF dayVars, dbVars
<1>0. /\ LocalsInv(s) /\ BatchInv(s) /\ GapInv(s) /\ TypeOK /\ FactorsSound
      /\ stored \subseteq Upstream
  BY DEF Sound, LoneInv
<1>1. /\ UNCHANGED <<today, published, ledger>>
      /\ UNCHANGED <<end, pending, trusted, run, batch>>
      /\ pc[s] = "upsert" /\ pc'[s] = "record"
      /\ stored' = stored \cup batch[s]
      /\ factor' = [d \in Trading |-> IF d \in batch[s] THEN made[s][d] ELSE factor[d]]
  BY <1>0 DEF UpsertBars, Goto, TypeOK
<1>2. \A d \in batch[s] : factor'[d] = EventsUpTo(d)
  BY <1>0, <1>1 DEF BatchInv, TypeOK
<1>3. FactorsSound'
  <2>1. ASSUME NEW d \in stored', NEW m \in Months, InMonth(d, m), ledger[m] # 0
        PROVE  factor'[d] = EventsUpTo(d)
    <3>1. CASE d \in batch[s]
      BY <1>2, <3>1
    <3>2. CASE d \notin batch[s]
      <4>1. d \in stored /\ factor'[d] = factor[d]
        BY <1>0, <1>1, <3>2 DEF TypeOK
      <4> QED
        BY <1>0, <2>1, <4>1 DEF FactorsSound
    <3> QED
      BY <3>1, <3>2
  <2> QED
    BY <1>1, <2>1 DEF FactorsSound
<1>4. stored' \subseteq Upstream'
  BY <1>0, <1>1 DEF BatchInv, Upstream
<1>5. BatchInv(s)'
  BY <1>0, <1>1, <1>2 DEF BatchInv, InRun, Upstream
<1>6. LocalsInv(s)'
  BY <1>0, <1>1 DEF LocalsInv
<1>7. GapInv(s)'
  <2>1. /\ \A m \in Months : HasBars(m) => HasBars(m)'
        /\ \A m \in Months : AllStored(m) => AllStored(m)'
        /\ \A m \in Months : (InWindow(m)' <=> InWindow(m)) /\ (Past(m)' <=> Past(m))
    BY <1>1 DEF HasBars, AllStored, InWindow, Past
  <2>2. ASSUME NEW k \in Months, Past(k) PROVE Accounted(s, k)'
    <3>1. Accounted(s, k)
      BY <1>0, <1>1, <2>2 DEF GapInv
    <3>2. CASE k \in pending[s] \cup run[s] \/ AllStored(k)
      BY <1>1, <2>1, <3>2 DEF Accounted
    <3>3. CASE ~InWindow(k) /\ NoneUpTo(k) /\ k \notin run[s]
      <4>1. \A d \in batch[s] : d > LastDay[k]
        BY <1>1, <3>3, BatchAbove
      <4>2. NoneUpTo(k)'
        BY <1>1, <3>3, <4>1 DEF NoneUpTo
      <4> QED
        BY <2>1, <3>3, <4>2 DEF Accounted
    <3> QED
      BY <1>1, <3>1, <3>2, <3>3 DEF Accounted
  <2>3. \A m \in pending'[s] \cup run'[s] : InWindow(m)' \/ HasBars(m)'
    <3>1. pending'[s] = pending[s] /\ run'[s] = run[s]
          /\ pending[s] \cup run[s] \subseteq Months
      BY <1>0, <1>1 DEF TypeOK
    <3> QED
      BY <1>0, <2>1, <3>1 DEF GapInv
  <2> QED
    BY <1>1, <2>1, <2>2, <2>3 DEF GapInv
<1>8. \A t \in Syncers : t = s
  BY DEF Lone
<1> QED
  BY <1>3, <1>4, <1>5, <1>6, <1>7, <1>8 DEF LoneInv

LEMMA RecordStep ==
  ASSUME Lone, Adjusted, Sound, NEW s \in Syncers, RecordCoverage(s)
  PROVE  LoneInv'
<1> USE LastDayType DEF dayVars, dbVars
<1>0. /\ LocalsInv(s) /\ BatchInv(s) /\ GapInv(s) /\ TypeOK /\ FactorsSound
      /\ stored \subseteq Upstream /\ FetchedIsComplete
  BY DEF Sound, LoneInv
<1>1. /\ UNCHANGED <<today, published, stored, factor>>
      /\ UNCHANGED <<end, pending, trusted>>
      /\ pc[s] = "record" /\ pc'[s] = "next" /\ run'[s] = {}
      /\ ledger' = [m \in Months |-> IF m \in run[s] /\ Recordable(s, m) THEN today
                                     ELSE ledger[m]]
  BY <1>0 DEF RecordCoverage, Goto, TypeOK
<1>2. FactorsSound'
  <2>1. ASSUME NEW d \in stored, NEW m \in Months, InMonth(d, m), ledger'[m] # 0
        PROVE  factor[d] = EventsUpTo(d)
    <3>1. CASE m \in run[s]
      <4>1. d \in batch[s]
        BY <1>0, <1>1, <2>1, <3>1 DEF BatchInv, InRun
      <4> QED
        BY <1>0, <1>1, <4>1 DEF BatchInv
    <3>2. CASE m \notin run[s]
      <4>1. ledger[m] # 0
        BY <1>1, <2>1, <3>2
      <4> QED
        BY <1>0, <2>1, <4>1 DEF FactorsSound
    <3> QED
      BY <3>1, <3>2
  <2> QED
    BY <1>1, <2>1 DEF FactorsSound
<1>3. LocalsInv(s)'
  <2>1. today # 0
    BY <1>0 DEF TypeOK, Days
  <2>2. \A m \in Months : ledger[m] # 0 => ledger'[m] # 0
    BY <1>1, <2>1
  <2>3. trusted[s] \subseteq Months
    BY <1>0 DEF TypeOK
  <2> QED
    BY <1>0, <1>1, <2>2, <2>3 DEF LocalsInv
<1>4. GapInv(s)'
  <2>1. ASSUME NEW m \in run[s], Past(m) PROVE AllStored(m)
    <3>1. LastDay[m] < today /\ LastDay[m] <= end[s]
      <4>1. end[s] = today /\ m \in Months /\ today \in Nat
        BY <1>0, <1>1 DEF LocalsInv, TypeOK
      <4> QED
        BY <2>1, <4>1 DEF Past
    <3> QED
      BY <1>0, <1>1, <3>1 DEF FetchedIsComplete, AllStored
  <2>2. \A m \in Months : /\ HasBars(m)' <=> HasBars(m)
                          /\ AllStored(m)' <=> AllStored(m)
                          /\ NoneUpTo(m)' <=> NoneUpTo(m)
                          /\ (InWindow(m)' <=> InWindow(m)) /\ (Past(m)' <=> Past(m))
    BY <1>1 DEF HasBars, AllStored, NoneUpTo, InWindow, Past
  <2>3. pending'[s] = pending[s] /\ run'[s] = {} /\ pending[s] \subseteq Months
    BY <1>0, <1>1 DEF TypeOK
  <2>4. ASSUME NEW k \in Months, Past(k) PROVE Accounted(s, k)'
    <3>1. Accounted(s, k)
      BY <1>0, <1>1, <2>4 DEF GapInv
    <3> QED
      BY <1>1, <2>1, <2>2, <2>3, <2>4, <3>1 DEF Accounted
  <2> QED
    BY <1>0, <1>1, <2>2, <2>3, <2>4 DEF GapInv
<1>5. BatchInv(s)' /\ stored' \subseteq Upstream'
  BY <1>0, <1>1 DEF BatchInv, Upstream
<1>6. \A t \in Syncers : t = s
  BY DEF Lone
<1> QED
  BY <1>2, <1>3, <1>4, <1>5, <1>6 DEF LoneInv

LEMMA LoneStep ==
  ASSUME Lone, ~LongRuns, Adjusted, Sound, NoGap, [Next]_vars
  PROVE  LoneInv'
<1> USE DEF dayVars, dbVars, syncVars
<1>0. /\ TypeOK /\ FactorsSound /\ stored \subseteq Upstream
      /\ \A s \in Syncers : LocalsInv(s) /\ BatchInv(s) /\ GapInv(s)
  BY DEF Sound, LoneInv
<1>1. ASSUME NEW s \in Syncers, Finish(s) \/ Fail(s) PROVE LoneInv'
  <2>1. /\ UNCHANGED <<today, published, stored, factor, ledger>>
        /\ pc'[s] = "idle" /\ pending'[s] = {} /\ run'[s] = {}
    BY <1>0, <1>1 DEF Finish, Fail, Leave, Goto, TypeOK
  <2>2. LocalsInv(s)' /\ BatchInv(s)' /\ GapInv(s)'
    BY <2>1 DEF LocalsInv, BatchInv, GapInv
  <2> QED
    BY <2>1, <2>2, TablesKept
<1>2. CASE Publish
  <2>1. /\ UNCHANGED <<today, stored, factor, ledger, pc, end, pending, trusted,
                       run, batch, made>>
        /\ Upstream \subseteq Upstream'
    BY <1>2 DEF Publish, Upstream
  <2>2. ASSUME NEW s \in Syncers PROVE LocalsInv(s)' /\ BatchInv(s)' /\ GapInv(s)'
    <3>1. LocalsInv(s)' /\ BatchInv(s)'
      BY <1>0, <2>1 DEF LocalsInv, BatchInv, InRun
    <3>2. GapInv(s)'
      BY <1>0, <2>1
      DEF GapInv, Accounted, InWindow, Past, AllStored, NoneUpTo, HasBars
    <3> QED
      BY <3>1, <3>2
  <2>3. FactorsSound'
    BY <1>0, <2>1 DEF FactorsSound
  <2> QED
    BY <1>0, <2>1, <2>2, <2>3 DEF LoneInv
<1>3. CASE Midnight
  <2>1. /\ UNCHANGED <<stored, factor, ledger, pc, pending, run>>
        /\ \A s \in Syncers : pc[s] = "idle"
    BY <1>3 DEF Midnight
  <2>2. Upstream \subseteq Upstream'
    <3>1. today \in Nat /\ today' = today + 1 /\ (today \in Trading => published)
      BY <1>0, <1>3, LastDayType DEF Midnight, TypeOK
    <3>2. \A d \in Trading : d \in Nat
      BY LastDayType
    <3> QED
      BY <3>1, <3>2 DEF Upstream
  <2>3. \A s \in Syncers : LocalsInv(s)' /\ BatchInv(s)' /\ GapInv(s)'
    BY <2>1 DEF LocalsInv, BatchInv, GapInv, Sound, ToFetch
  <2>4. FactorsSound'
    BY <1>0, <2>1 DEF FactorsSound
  <2> QED
    BY <1>0, <2>1, <2>2, <2>3, <2>4 DEF LoneInv
<1>4. CASE UNCHANGED vars
  <2>1. UNCHANGED <<today, published, stored, factor, ledger, pc, end, pending,
                   trusted, run, batch, made>>
    BY <1>4 DEF vars
  <2> QED
    BY <1>0, <2>1
    DEF LoneInv, FactorsSound, Upstream, LocalsInv, BatchInv, InRun, GapInv, Accounted,
        InWindow, Past, AllStored, NoneUpTo, HasBars
<1> QED
  BY <1>1, <1>2, <1>3, <1>4, BeginStep, ReadingStep, AdjustStep, UpsertStep, RecordStep
  DEF Next, SyncStep

(* The factor of a bar in a month with a ledger entry has exactly the      *)
(* events up to the bar, for every calendar, every set of bars an older    *)
(* version left and every failure, as long as the worker runs alone, no    *)
(* sync runs across midnight and none begins after a gap.                  *)
THEOREM LoneFactorsSound ==
  ASSUME Lone, ~LongRuns
  PROVE  Spec /\ []NoGap => []FactorsSound
<1>1. CASE Adjusted
  <2>1. Sound /\ NoGap /\ [Next]_vars => LoneInv'
    BY <1>1, LoneStep
  <2>2. TypeOK /\ ToFetch /\ [Next]_vars => ToFetch'
    BY ToFetchStep
  <2>3. LoneInv => FactorsSound
    BY DEF LoneInv
  <2>4. TypeOK /\ FetchedIsComplete /\ CoveredIsComplete /\ [Next]_vars
          => FetchedIsComplete' /\ CoveredIsComplete'
    BY CompleteStep
  <2>5. Sound <=> TypeOK /\ FetchedIsComplete /\ CoveredIsComplete /\ ToFetch /\ LoneInv
    BY DEF Sound
  <2> QED
    BY <2>1, <2>2, <2>3, <2>4, <2>5, LoneInit, ToFetchInit, CompleteInit, CoverageTypes,
       PTL DEF Spec
<1>2. CASE ~Adjusted
  <2>1. FactorsSound
    BY <1>2 DEF FactorsSound
  <2> QED
    BY <2>1, PTL
<1> QED
  BY <1>1, <1>2

(* There is no gap before the window as long as the window reaches back to *)
(* the first month.                                                        *)
THEOREM FactorsSoundInWindow ==
  ASSUME Lone, ~LongRuns, Slices <= Lookback + 1
  PROVE  Spec => []FactorsSound
<1>1. TypeOK => NoGap
  <2>1. ASSUME TypeOK, NEW m \in Months PROVE InWindow(m)
    <3>1. PICK n \in Months : InMonth(today, n)
      BY <2>1, MonthOfDay DEF TypeOK
    <3>2. n \in 1 .. Slices /\ m \in 1 .. Slices /\ Lookback \in Nat
      BY BoundsAssumption DEF BoundsAssumption, Months
    <3>3. n <= m + Lookback
      BY <3>2, LastDayType
    <3> QED
      BY <3>1, <3>3 DEF InWindow
  <2> QED
    BY <2>1 DEF NoGap
<1>2. Spec /\ []NoGap => []FactorsSound
  BY LoneFactorsSound
<1> QED
  BY <1>1, <1>2, CoverageTypes, PTL
=============================================================================
