------------------------ MODULE MarketHistoryProofs ------------------------
(***************************************************************************)
(* The fill of MarketHistory is complete where its ledger says so, for     *)
(* every calendar, window and number of failures, when the provider does   *)
(* not keep a month's index (the market of TWSE).  A score looks at        *)
(* exactly the sessions it should.  What the pages of MarketReads say      *)
(* about the tables is so when they say it, though the fill goes on        *)
(* between their reads.                                                    *)
(***************************************************************************)
EXTENDS MarketReads, FiniteOrder, FiniteSetTheorems, TLAPS

(* What the fill holds between an answer and its entry in the ledger: a    *)
(* session that is over has its rows and reports in hand, and then in the  *)
(* table.                                                                  *)
InHand ==
  /\ pc = "upsert" /\ day \in Trading /\ day < today => "reports" \in rows
  /\ pc = "record" /\ day \in Trading /\ day < today => day \in reported

FillTypes ==
  /\ today \in Nat /\ day \in Days /\ pending \subseteq Days
  /\ ledger \in [Days -> Nat]
  /\ \A d \in Days : ledger[d] <= today

FillInv == FillTypes /\ InHand /\ CoveredIsStored

LEMMA FillInit == Init => FillInv
  BY DaysAssumption DEF Init, FillInv, FillTypes, InHand, CoveredIsStored,
     Covered, Days

LEMMA FillStep ==
  ASSUME ~KeepsIndex, ~LateEntries, FillInv, [Next]_vars
  PROVE  FillInv'
<1> USE DaysAssumption DEF FillInv, FillTypes
<1>1. CASE Begin
  BY <1>1 DEF Begin, Goto, clock, tables, scoring, InHand, CoveredIsStored
<1>2. CASE FetchDay
  <2> PICK d \in Newest(pending, 1) :
        /\ day' = d
        /\ monthIndex' = IndexAfter({d})
        /\ rows' = IF Answered(monthIndex', d) THEN Reports(d) ELSE {}
        /\ pending' = pending \ {d}
    BY <1>2 DEF FetchDay
  <2>1. d \in Days
    BY DEF Newest
  <2>2. d \in Trading /\ d < today => "reports" \in rows'
    BY DEF Answered, HasQuotes, HasCapital, Reports
  <2> QED
    BY <1>2, <2>1, <2>2 DEF FetchDay, Goto, clock, tables, scoring, InHand,
       CoveredIsStored
<1>3. CASE UpsertDay
  <2>1. /\ today' = today /\ day' = day /\ pending' = pending /\ ledger' = ledger
        /\ pc' = "record"
    BY <1>3 DEF UpsertDay, Goto, clock, fill
  <2>2. CASE rows = {}
    <3>1. reported' = reported /\ ~(day \in Trading /\ day < today)
      BY <1>3, <2>2 DEF UpsertDay, InHand
    <3> QED
      BY <2>1, <3>1 DEF InHand, CoveredIsStored, Covered
  <2>3. CASE rows # {} /\ "reports" \in rows
    <3>1. reported' = reported \cup {day}
      BY <1>3, <2>3 DEF UpsertDay
    <3> QED
      BY <2>1, <3>1 DEF InHand, CoveredIsStored, Covered
  <2>4. CASE rows # {} /\ "reports" \notin rows
    <3>1. reported' = reported \ {day} /\ ~(day \in Trading /\ day < today)
      BY <1>3, <2>4 DEF UpsertDay, InHand
    <3>2. \A d \in Trading : ledger[d] > d => d # day
      BY <3>1 DEF Days
    <3> QED
      BY <2>1, <3>1, <3>2 DEF InHand, CoveredIsStored, Covered
  <2> QED
    BY <2>2, <2>3, <2>4
<1>4. CASE RecordDay
  <2>1. today' = today /\ day' = day /\ pending' = pending
         /\ reported' = reported
    BY <1>4 DEF RecordDay, clock, fill
  <2>2. ledger' = [ledger EXCEPT ![day] = today]
    BY <1>4 DEF RecordDay
  <2>3. ASSUME NEW d \in Trading, ledger'[d] > d PROVE d \in reported
    <3>1. CASE d = day
      BY <1>4, <2>2, <2>3, <3>1 DEF RecordDay, InHand
    <3>2. CASE d # day
      BY <2>2, <2>3, <3>2 DEF CoveredIsStored, Covered
    <3> QED BY <3>1, <3>2
  <2>4. pc' \in {"dates", "next"}
    BY <1>4 DEF RecordDay, Goto
  <2>5. ledger' \in [Days -> Nat] /\ \A d \in Days : ledger'[d] <= today
    BY <2>2
  <2> QED
    BY <2>1, <2>3, <2>4, <2>5 DEF InHand, CoveredIsStored, Covered
<1>5. CASE FillEnds \/ ReadDates \/ ReadTargets \/ BuildScores
  BY <1>5 DEF FillEnds, ReadDates, ReadTargets, BuildScores, Goto, clock,
     tables, fill, scoring, InHand, CoveredIsStored
<1>6. CASE StoreScores
  BY <1>6 DEF StoreScores, Goto, clock, fill, scoring, InHand, CoveredIsStored
<1>7. CASE RecordTried
  BY <1>7 DEF RecordTried, Leave, Goto, clock, fill, scoring, InHand,
     CoveredIsStored, Days
<1>8. CASE Fail
  BY <1>8 DEF Fail, Leave, Goto, clock, tables, InHand, CoveredIsStored, Days
<1>9. CASE Publish
  BY <1>9 DEF Publish, tables, fill, scoring, InHand, CoveredIsStored
<1>10. CASE Midnight
  BY <1>10 DEF Midnight, AnswerInHand, tables, fill, scoring, InHand, CoveredIsStored, Days
<1>11. CASE UNCHANGED vars
  BY <1>11 DEF vars, clock, tables, fill, scoring, InHand, CoveredIsStored
<1> QED
  BY <1>1, <1>2, <1>3, <1>4, <1>5, <1>6, <1>7, <1>8, <1>9, <1>10, <1>11
  DEF Next, JobStep

(* A session of TWSE that the fill will not ask for again is stored with   *)
(* its reports, whatever the calendar, the window, the failures and the    *)
(* hour of midnight, as long as an answer is entered on the day it came.   *)
THEOREM SnapshotComplete ==
  ASSUME ~KeepsIndex, ~LateEntries
  PROVE  Spec => []CoveredIsStored
<1>1. FillInv => CoveredIsStored
  BY DEF FillInv
<1>2. FillInv /\ [Next]_vars => FillInv'
  BY FillStep
<1> QED
  BY FillInit, <1>1, <1>2, PTL DEF Spec

-----------------------------------------------------------------------------
(* Types, and what a score looks at.                                       *)

LEMMA ConstantTypes ==
  /\ Days \subseteq Nat /\ Trading \subseteq Days /\ FirstToday \in Days
  /\ LastDay \in Nat /\ Need \in Nat \ {0} /\ MonthOf \in [Days -> Days]
  /\ KeepsIndex \in BOOLEAN
  BY DaysAssumption, MonthsAssumption, SizesAssumption DEF Days

(* The n newest days of a set that has as many are n days.                 *)
LEMMA NewestCount ==
  ASSUME NEW S \in SUBSET Nat, IsFiniteSet(S),
         NEW n \in Nat, n <= Cardinality(S)
  PROVE  Cardinality(Newest(S, n)) = n
<1> DEFINE F == {U \in SUBSET S : n <= Cardinality(U) /\ Cardinality(Newest(U, n)) # n}
<1> SUFFICES ASSUME F # {} PROVE FALSE
  OBVIOUS
<1>0. F \in SUBSET (SUBSET S)
  OBVIOUS
<1> HIDE DEF F
<1>1. PICK U : SmallestIn(F, U)
  BY <1>0, SmallestSubset
<1> USE DEF F
<1>1a. U \in F
  BY <1>1 DEF SmallestIn
<1>2. U \subseteq Nat /\ IsFiniteSet(U) /\ Cardinality(U) \in Nat /\ n <= Cardinality(U)
  BY <1>1a, FS_Subset, FS_CardinalityType
<1>3. CASE Cardinality(U) = n
  <2>1. ASSUME NEW d \in U PROVE d \in Newest(U, n)
    <3> DEFINE later == {e \in U : e > d}
    <3>1. later \in SUBSET U /\ later # U
      BY <1>2
    <3>2. Cardinality(later) < Cardinality(U)
      <4> HIDE DEF later, F
      <4>1. Cardinality(later) <= Cardinality(U) /\ Cardinality(later) # Cardinality(U)
        BY <1>2, <3>1, FS_Subset
      <4>2. Cardinality(later) \in Nat
        BY <1>2, <3>1, FS_Subset, FS_CardinalityType
      <4> QED
        BY <1>2, <4>1, <4>2
    <3> QED
      BY <1>3, <3>2 DEF Newest
  <2>2. Newest(U, n) = U
    BY <2>1 DEF Newest
  <2> QED
    BY <1>1a, <1>3, <2>2
<1>4. CASE Cardinality(U) > n
  <2>0. \A e \in U : e \in Nat
    BY <1>2
  <2>1. U # {}
    BY <1>4, FS_EmptySet
  <2>2. PICK m \in U : \A e \in U : m <= e
    BY <1>2, <2>1, LeastExists
  <2> DEFINE T == U \ {m}
  <2>3. Cardinality(T) = Cardinality(U) - 1
    BY <1>2, FS_RemoveElement
  <2>3a. n <= Cardinality(T)
    BY <1>2, <1>4, <2>3
  <2>4. T \subseteq U /\ T # U /\ T \in SUBSET S
    BY <1>1a
  <2>5. Cardinality(Newest(T, n)) = n
    BY <1>1, <2>3a, <2>4 DEF SmallestIn
  <2>6. m \notin Newest(U, n)
    <3>1. \A e \in U : e > m <=> e # m
      BY <2>0, <2>2
    <3>1a. {e \in U : e > m} = T
      BY <3>1
    <3>2. ASSUME m \in Newest(U, n) PROVE FALSE
      <4>1. Cardinality(T) < n
        BY <3>1a, <3>2 DEF Newest
      <4>2. Cardinality(T) \in Nat
        BY <1>2, <2>3, <1>4
      <4> QED
        BY <2>3a, <4>1, <4>2
    <3> QED
      BY <3>2
  <2>7. \A d \in T : {e \in U : e > d} = {e \in T : e > d}
    BY <2>0, <2>2
  <2>8. Newest(U, n) = Newest(T, n)
    BY <2>6, <2>7 DEF Newest
  <2> QED
    BY <1>1a, <2>5, <2>8
<1> QED
  BY <1>1a, <1>2, <1>3, <1>4

LEMMA NewestSubset == \A S, n : Newest(S, n) \subseteq S
  BY DEF Newest

LEMMA IndexType ==
  ASSUME TypeOK, NEW D \in SUBSET Days
  PROVE  \A m \in DOMAIN IndexAfter(D) : IndexAfter(D)[m] \subseteq Trading
  BY DEF TypeOK, IndexAfter

LooksBack(closes) == \A d \in Days : closes[d] # {} =>
                       /\ d \in closes[d] /\ \A e \in closes[d] : e <= d
                       /\ Cardinality(closes[d]) = Need

(* Rows are those of a session; a score is of its own session and enough   *)
(* earlier ones from the moment it is built.                               *)
ScoreInv ==
  /\ TypeOK
  /\ pc = "upsert" /\ rows # {} => day \in Trading
  /\ pc = "build" => targets \subseteq Feasible
  /\ LooksBack(score) /\ LooksBack(built)

LEMMA DaysFinite == \A S \in SUBSET Days : IsFiniteSet(S)
<1>1. IsFiniteSet(Days)
  BY ConstantTypes, FS_Interval DEF Days
<1> QED
  BY <1>1, FS_Subset

LEMMA HistoryLooksBack ==
  ASSUME TypeOK, NEW d \in Feasible
  PROVE  /\ d \in History(d) /\ History(d) \in SUBSET Trading
         /\ \A e \in History(d) : e <= d
         /\ Cardinality(History(d)) = Need
<1> DEFINE upTo == {x \in dates : x <= d}
<1>1. /\ Need > 0 /\ Need \in Nat /\ d \in dates /\ Need <= Cardinality(upTo)
      /\ dates \subseteq Nat /\ dates \subseteq Trading /\ dates \subseteq Days
  BY ConstantTypes DEF TypeOK, Feasible
<1>2. \A e \in dates : ~(e <= d /\ e > d)
  BY <1>1
<1>3. {e \in upTo : e > d} = {}
  BY <1>2
<1>4. Cardinality({e \in upTo : e > d}) < Need
  BY <1>1, <1>3, FS_EmptySet
<1>5. d \in upTo
  BY <1>1
<1>6. d \in Newest(upTo, Need)
  BY <1>4, <1>5 DEF Newest
<1>7. Newest(upTo, Need) \subseteq upTo
  BY NewestSubset
<1>8. History(d) = Newest(upTo, Need)
  BY DEF History
<1>9. upTo \in SUBSET Nat /\ IsFiniteSet(upTo)
  BY <1>1, DaysFinite
<1>10. Cardinality(Newest(upTo, Need)) = Need
  <2> HIDE DEF upTo
  <2> QED
    BY <1>1, <1>9, NewestCount
<1> QED
  BY <1>1, <1>6, <1>7, <1>8, <1>10

LEMMA ScoreInit == Init => ScoreInv
  BY ConstantTypes DEF Init, ScoreInv, TypeOK, NoScores, LooksBack

LEMMA LeaveTypes ==
  Leave => /\ pc' = "idle" /\ end' \in Days /\ pending' = {} /\ index' = 0
           /\ day' \in Days /\ rows' = {} /\ dates' = {} /\ targets' = {}
           /\ built' \in [Days -> SUBSET Trading] /\ LooksBack(built')
  BY ConstantTypes DEF Leave, Goto, NoScores, LooksBack

LEMMA ScoreNext == ScoreInv /\ [Next]_vars => ScoreInv'
<1> SUFFICES ASSUME ScoreInv, [Next]_vars PROVE ScoreInv'
  OBVIOUS
<1> USE ConstantTypes DEF ScoreInv
<1>0. dates' = dates => Feasible' = Feasible
  BY DEF Feasible
<1>1. CASE Begin
  BY <1>1 DEF Begin, Goto, clock, tables, scoring, TypeOK, LooksBack
<1>2. CASE FetchDay
  <2> PICK d \in Newest(pending, 1) :
        /\ day' = d
        /\ monthIndex' = IndexAfter({d})
        /\ rows' = IF Answered(monthIndex', d) THEN Reports(d) ELSE {}
        /\ pending' = pending \ {d}
    BY <1>2 DEF FetchDay
  <2>1. d \in Days
    BY NewestSubset DEF TypeOK
  <2>2. \A m \in DOMAIN monthIndex' : monthIndex'[m] \subseteq Trading
    BY <2>1, IndexType
  <2>3. rows' \subseteq {"quotes", "reports"} /\ (rows' # {} => day' \in Trading)
    BY DEF Reports, Answered, HasQuotes
  <2>4. day' \in Days /\ pending' \subseteq Days
    BY <2>1 DEF TypeOK
  <2>5. /\ pc' = "upsert" /\ index' \in Nat
        /\ UNCHANGED <<clock, tables, end, scoring, failures>>
    BY <1>2 DEF FetchDay, Goto, TypeOK
  <2> QED
    BY <2>2, <2>3, <2>4, <2>5 DEF clock, tables, scoring, TypeOK, LooksBack
<1>3. CASE UpsertDay
  <2>1. /\ stored' \subseteq Trading /\ reported' \subseteq stored'
    BY <1>3 DEF UpsertDay, TypeOK
  <2> QED
    BY <1>3, <2>1 DEF UpsertDay, Goto, clock, fill, scoring, TypeOK, LooksBack
<1>4. CASE RecordDay
  <2>1. ledger' \in [Days -> Days \cup {0}] /\ pc' \in {"dates", "next"}
    BY <1>4 DEF RecordDay, TypeOK, Goto
  <2> QED
    BY <1>4, <2>1 DEF RecordDay, clock, fill, scoring, TypeOK, LooksBack
<1>5. CASE FillEnds
  BY <1>5 DEF FillEnds, Goto, clock, tables, fill, scoring, TypeOK, LooksBack
<1>6. CASE ReadDates
  <2>1. dates' \subseteq Trading
    BY <1>6, NewestSubset DEF ReadDates, TypeOK
  <2>2. targets' = targets /\ built' = built
    BY <1>6 DEF ReadDates
  <2> QED
    BY <1>6, <2>1, <2>2 DEF ReadDates, Goto, clock, tables, fill, TypeOK, LooksBack
<1>7. CASE ReadTargets
  <2>1. /\ targets' \subseteq Feasible /\ targets' \subseteq Trading
        /\ dates' = dates
    BY <1>7, NewestSubset DEF ReadTargets, Feasible, TypeOK, fill
  <2>2. Feasible' = Feasible
    BY <1>0, <2>1
  <2> QED
    BY <1>7, <2>1, <2>2 DEF ReadTargets, Goto, clock, tables, fill, TypeOK, LooksBack
<1>8. CASE BuildScores
  <2>1. \A m \in DOMAIN monthIndex' : monthIndex'[m] \subseteq Trading
    BY <1>8, IndexType DEF BuildScores, TypeOK
  <2>2. \A d \in Days : built'[d] # {} => d \in targets /\ built'[d] = History(d)
    BY <1>8 DEF BuildScores
  <2>3. built' = [d \in Days |-> built'[d]]
    BY <1>8 DEF BuildScores
  <2>4. \A d \in targets : /\ d \in History(d) /\ History(d) \in SUBSET Trading
                           /\ \A e \in History(d) : e <= d
                           /\ Cardinality(History(d)) = Need
    BY <1>8, HistoryLooksBack DEF BuildScores
  <2>5. built' \in [Days -> SUBSET Trading]
    BY <2>2, <2>3, <2>4
  <2>6. LooksBack(built')
    BY <2>2, <2>4 DEF LooksBack
  <2> QED
    BY <1>8, <2>1, <2>5, <2>6 DEF BuildScores, Goto, clock, tables, fill, TypeOK, LooksBack
<1>9. CASE StoreScores
  <2>1. score' = [d \in Days |-> IF score[d] = {} THEN built[d] ELSE score[d]]
    BY <1>9 DEF StoreScores
  <2>2. score' \in [Days -> SUBSET Trading] /\ LooksBack(score')
    BY <2>1 DEF TypeOK, LooksBack
  <2> QED
    BY <1>9, <2>2 DEF StoreScores, Goto, clock, fill, scoring, TypeOK, LooksBack
<1>10. CASE RecordTried
  <2>1. tried' \in [Days -> Days \cup {0}]
    BY <1>10 DEF RecordTried, TypeOK
  <2>2. UNCHANGED <<today, published, stored, reported, ledger, score, monthIndex, failures>>
    BY <1>10 DEF RecordTried, clock
  <2>3. CASE Leave
    BY <2>1, <2>2, <2>3, LeaveTypes DEF TypeOK, LooksBack
  <2>4. CASE pc' = "next" /\ UNCHANGED <<fill, scoring>>
    BY <2>1, <2>2, <2>4 DEF fill, scoring, TypeOK, LooksBack
  <2> QED
    BY <1>10, <2>3, <2>4 DEF RecordTried, Goto
<1>11. CASE Fail
  <2>1. /\ \A m \in DOMAIN monthIndex' : monthIndex'[m] \subseteq Trading
        /\ failures' \in Nat
    BY <1>11 DEF Fail, TypeOK
  <2> QED
    BY <1>11, <2>1, LeaveTypes DEF Fail, clock, tables, TypeOK, LooksBack
<1>12. CASE Publish
  BY <1>0, <1>12 DEF Publish, tables, fill, scoring, TypeOK, LooksBack
<1>13. CASE Midnight
  <2>1. today' \in Days
    BY <1>13 DEF Midnight, TypeOK, Days
  <2> QED
    BY <1>0, <1>13, <2>1 DEF Midnight, tables, fill, scoring, TypeOK, LooksBack
<1>14. CASE UNCHANGED vars
  BY <1>0, <1>14 DEF vars, clock, tables, fill, scoring, TypeOK, LooksBack
<1> QED
  BY <1>1, <1>2, <1>3, <1>4, <1>5, <1>6, <1>7, <1>8, <1>9, <1>10, <1>11, <1>12,
     <1>13, <1>14 DEF Next, JobStep

LEMMA ScoreInvariant == Spec => []ScoreInv
  BY ScoreInit, ScoreNext, PTL DEF Spec

(* Every variable of the fill keeps its type, for both providers.          *)
THEOREM MarketTypes == Spec => []TypeOK
<1>1. ScoreInv => TypeOK
  BY DEF ScoreInv
<1> QED
  BY <1>1, ScoreInvariant, PTL

(* A score is computed from its own session and the ones before it that    *)
(* the model needs, never from a later one and never from fewer, whatever  *)
(* is stored when the pass runs and in whatever order it came.             *)
THEOREM ScoresLookBack == Spec => []NoLookAhead
<1>1. ScoreInv => NoLookAhead
  BY DEF ScoreInv, LooksBack, NoLookAhead
<1> QED
  BY <1>1, ScoreInvariant, PTL

-----------------------------------------------------------------------------
(* The pages read while the fill goes on.  Their steps change no table, so *)
(* what holds of the fill holds with readers as well.                      *)

LEMMA ReadersOnlyRead == [ReadsNext]_allVars => [Next]_vars
  BY DEF ReadsNext, allVars, ReaderStep, StatusReadsCoverage, StatusAnswers,
     RankingReadsDates, RankingReadsNewest, RankingAnswers, Moves

LEMMA ReadsImplyFill == ReadsSpec => Spec
<1>1. ReadsInit => Init
  BY DEF ReadsInit
<1> QED
  BY <1>1, ReadersOnlyRead, PTL DEF ReadsSpec, Spec

(* What the fill never takes back.  Reports that are stored are out, and   *)
(* an answer in hand does not lack the reports that are stored: storing it *)
(* removes nothing.  The ledger is never ahead of the clock.               *)
ReportsAreOut ==
  /\ \A d \in reported : HasCapital(d)
  /\ pc = "upsert" /\ "reports" \in rows => HasCapital(day)
  /\ pc = "upsert" /\ rows # {} /\ day \in reported => "reports" \in rows

LedgerNotAhead == \A d \in Days : ledger[d] <= today

GrowInv == ScoreInv /\ ReportsAreOut /\ LedgerNotAhead

Grows ==
  /\ reported \subseteq reported' /\ stored \subseteq stored'
  /\ \A d \in Days : Covered(ledger, d) => Covered(ledger', d)

LEMMA CapitalStays ==
  ASSUME TypeOK, [Next]_vars, NEW d \in Days, HasCapital(d)
  PROVE  HasCapital(d)'
<1> USE ConstantTypes DEF TypeOK, HasCapital
<1>1. CASE UNCHANGED clock
  BY <1>1 DEF clock
<1>2. CASE Publish
  BY <1>2 DEF Publish
<1>3. CASE Midnight
  <2>1. today' = today + 1 /\ d \in Nat /\ today \in Nat
    BY <1>3 DEF Midnight
  <2> QED
    BY <2>1
<1>4. UNCHANGED clock \/ Publish \/ Midnight
  BY DEF Next, JobStep, Begin, FetchDay, UpsertDay, RecordDay, FillEnds, ReadDates,
     ReadTargets, BuildScores, StoreScores, RecordTried, Fail, vars
<1> QED
  BY <1>1, <1>2, <1>3, <1>4

LEMMA GrowInit == Init => GrowInv
<1>1. Init => ReportsAreOut /\ LedgerNotAhead
  BY ConstantTypes DEF Init, ReportsAreOut, LedgerNotAhead
<1> QED
  BY <1>1, ScoreInit DEF GrowInv

LEMMA GrowNext == GrowInv /\ [Next]_vars => GrowInv' /\ Grows
<1> SUFFICES ASSUME GrowInv, [Next]_vars
             PROVE  ReportsAreOut' /\ LedgerNotAhead' /\ Grows
  BY ScoreNext DEF GrowInv
<1> USE ConstantTypes
<1>0. /\ TypeOK /\ ReportsAreOut /\ LedgerNotAhead
      /\ reported \subseteq Days /\ day \in Days /\ today \in Nat
      /\ ledger \in [Days -> Nat]
      /\ pc = "upsert" /\ rows # {} => day \in Trading
  <2>1. TypeOK /\ ReportsAreOut /\ LedgerNotAhead
        /\ (pc = "upsert" /\ rows # {} => day \in Trading)
    BY DEF GrowInv, ScoreInv
  <2>2. reported \subseteq Days /\ day \in Days /\ today \in Nat
    BY <2>1 DEF TypeOK
  <2>3. Days \cup {0} \subseteq Nat
    OBVIOUS
  <2>4. ledger \in [Days -> Nat]
    BY <2>1, <2>3 DEF TypeOK
  <2> QED
    BY <2>1, <2>2, <2>4
<1>1. \A d \in Days : HasCapital(d) => HasCapital(d)'
  BY <1>0, CapitalStays
<1>2. CASE FetchDay
  <2>1. PICK d \in Newest(pending, 1) :
          /\ day' = d
          /\ rows' = IF Answered(monthIndex', d) THEN Reports(d) ELSE {}
    BY <1>2 DEF FetchDay
  <2>2. UNCHANGED <<today, published, reported, stored, ledger>>
    BY <1>2 DEF FetchDay, clock, tables
  <2>3. d \in Days
    BY <1>0, <2>1, NewestSubset DEF TypeOK
  <2>4. "reports" \in rows' => HasCapital(d)
    BY <2>1 DEF Reports
  <2>5. rows' # {} /\ HasCapital(d) => "reports" \in rows'
    BY <2>1 DEF Reports
  <2> QED
    BY <1>0, <1>1, <2>1, <2>2, <2>3, <2>4, <2>5
    DEF ReportsAreOut, LedgerNotAhead, Grows, Covered
<1>3. CASE UpsertDay
  <2>1. /\ pc = "upsert" /\ pc' = "record"
        /\ UNCHANGED <<today, published, ledger>> /\ stored \subseteq stored'
    BY <1>3 DEF UpsertDay, Goto, clock
  <2>2. CASE rows # {} /\ "reports" \in rows
    <3>1. reported' = reported \cup {day} /\ HasCapital(day)
      BY <1>0, <1>3, <2>1, <2>2 DEF UpsertDay, ReportsAreOut
    <3> QED
      BY <1>0, <1>1, <2>1, <3>1 DEF ReportsAreOut, LedgerNotAhead, Grows, Covered
  <2>3. CASE rows = {} \/ "reports" \notin rows
    <3>1. reported' = reported
      BY <1>0, <1>3, <2>1, <2>3 DEF UpsertDay, ReportsAreOut
    <3> QED
      BY <1>0, <1>1, <2>1, <3>1 DEF ReportsAreOut, LedgerNotAhead, Grows, Covered
  <2> QED
    BY <2>2, <2>3
<1>4. CASE RecordDay
  <2>1. /\ UNCHANGED <<today, published, reported, stored>> /\ pc' # "upsert"
        /\ ledger' = [ledger EXCEPT ![day] = today]
    BY <1>4 DEF RecordDay, Goto, clock
  <2>2. \A d \in Days : ledger[d] <= ledger'[d] /\ ledger'[d] <= today
    BY <1>0, <2>1 DEF LedgerNotAhead
  <2>3. \A d \in Days : d \in Nat /\ ledger[d] \in Nat /\ ledger'[d] \in Nat
    BY <1>0, <2>1
  <2>4. \A d \in Days : Covered(ledger, d) => Covered(ledger', d)
    BY <2>2, <2>3 DEF Covered
  <2> QED
    BY <1>0, <1>1, <2>1, <2>2, <2>4 DEF ReportsAreOut, LedgerNotAhead, Grows
<1>5. CASE Publish \/ Midnight
  <2>1. /\ UNCHANGED <<reported, stored, ledger, pc, rows, day>>
        /\ today <= today'
    BY <1>0, <1>5 DEF Publish, Midnight, tables, fill
  <2>2. \A d \in Days : ledger[d] <= today'
    <3>1. today' \in Nat
      BY <1>0, <1>5 DEF Publish, Midnight
    <3> QED
      BY <1>0, <2>1, <3>1 DEF LedgerNotAhead
  <2> QED
    BY <1>0, <1>1, <2>1, <2>2 DEF ReportsAreOut, LedgerNotAhead, Grows, Covered
<1>6. CASE \/ Begin \/ FillEnds \/ ReadDates \/ ReadTargets \/ BuildScores
           \/ StoreScores \/ RecordTried \/ Fail
  <2>1. UNCHANGED <<today, published, reported, stored, ledger>> /\ pc' # "upsert"
    BY <1>6 DEF Begin, FillEnds, ReadDates, ReadTargets, BuildScores, StoreScores,
       RecordTried, Fail, Leave, Goto, clock, tables
  <2> QED
    BY <1>0, <1>1, <2>1 DEF ReportsAreOut, LedgerNotAhead, Grows, Covered
<1>7. CASE UNCHANGED vars
  <2>1. UNCHANGED <<today, published, reported, stored, ledger, pc, rows, day>>
    BY <1>7 DEF vars, clock, tables, fill
  <2> QED
    BY <1>0, <1>1, <2>1 DEF ReportsAreOut, LedgerNotAhead, Grows, Covered
<1> QED
  BY <1>2, <1>3, <1>4, <1>5, <1>6, <1>7 DEF Next, JobStep

-----------------------------------------------------------------------------
(* What each page has read, against the tables as they are by now.         *)

(* A day of the window that was not pending is still covered.              *)
StatusInv ==
  reader = "status" =>
    \A d \in Window(view.asOf) : d \in view.pending \/ Covered(ledger, d)

(* The sessions of a ranking still have what it needs; the newest session  *)
(* was among them, or is looked for next, or is awaited.                   *)
RankingInv ==
  /\ reader \in {"newest", "rows"} =>
       view.dates # {} /\ (view.require => view.dates \subseteq reported)
  /\ reader = "newest" =>
       /\ view.newest \in stored /\ view.dates \subseteq stored
       /\ \A e \in view.dates : e <= view.newest
  /\ reader = "rows" =>
       view.newest \in view.dates \/ view.awaiting >= view.newest

ReadsInv == ReadsTypeOK /\ GrowInv /\ StatusInv /\ RankingInv

LEMMA LatestIs ==
  ASSUME NEW S \in SUBSET Days, S # {}
  PROVE  Latest(S) \in S /\ \A e \in S : e <= Latest(S)
<1>1. \E d \in S : \A e \in S : e <= d
  <2>1. S \in SUBSET Nat /\ IsFiniteSet(S)
    BY ConstantTypes, DaysFinite
  <2> QED
    BY <2>1, GreatestExists
<1> QED
  BY <1>1 DEF Latest

LEMMA LatestIsNewest ==
  ASSUME NEW S \in SUBSET Days, S # {}, NEW n \in Nat \ {0}
  PROVE  /\ Latest(S) \in Newest(S, n)
         /\ Latest(Newest(S, 1)) = Latest(S)
<1>1. S \subseteq Nat /\ Latest(S) \in S /\ \A e \in S : e <= Latest(S)
  BY ConstantTypes, LatestIs
<1>2. \A e \in S : ~(e > Latest(S))
  <2>1. Latest(S) \in Nat /\ \A e \in S : e \in Nat
    BY <1>1
  <2> QED
    BY <1>1, <2>1
<1>3. {e \in S : e > Latest(S)} = {}
  BY <1>2
<1>4. \A k \in Nat \ {0} : Latest(S) \in Newest(S, k)
  BY <1>1, <1>3, FS_EmptySet DEF Newest
<1>5. /\ Latest(S) \in Newest(S, 1) /\ Newest(S, 1) \subseteq S
      /\ Newest(S, 1) \in SUBSET Days /\ Newest(S, 1) # {}
  BY <1>4, NewestSubset
<1>6. /\ Latest(Newest(S, 1)) \in Newest(S, 1)
      /\ \A e \in Newest(S, 1) : e <= Latest(Newest(S, 1))
  BY <1>5, LatestIs
<1>7. Latest(Newest(S, 1)) <= Latest(S) /\ Latest(S) <= Latest(Newest(S, 1))
  BY <1>1, <1>5, <1>6
<1>8. Latest(Newest(S, 1)) \in Nat /\ Latest(S) \in Nat
  BY <1>1, <1>5, <1>6
<1> QED
  BY <1>4, <1>7, <1>8

LEMMA ReadsInitInv == ReadsInit => ReadsInv
<1> SUFFICES ASSUME ReadsInit PROVE ReadsInv
  OBVIOUS
<1>1. GrowInv /\ TypeOK
  BY GrowInit DEF ReadsInit, GrowInv, ScoreInv
<1>2. ReadsTypeOK
  BY <1>1 DEF ReadsInit, ReadsTypeOK, NoView
<1> QED
  BY <1>1, <1>2 DEF ReadsInit, ReadsInv, StatusInv, RankingInv

LEMMA FillKeepsReads ==
  ASSUME ReadsInv, [Next]_vars, UNCHANGED <<reader, view>>
  PROVE  ReadsInv'
<1>1. GrowInv' /\ Grows /\ TypeOK'
  BY GrowNext DEF ReadsInv, GrowInv, ScoreInv
<1>2. ReadsTypeOK'
  BY <1>1 DEF ReadsInv, ReadsTypeOK
<1>3. StatusInv'
  BY <1>1 DEF ReadsInv, StatusInv, Grows, Window
<1>4. RankingInv'
  BY <1>1 DEF ReadsInv, RankingInv, Grows
<1> QED
  BY <1>1, <1>2, <1>3, <1>4 DEF ReadsInv

LEMMA TablesStay ==
  ASSUME ReadsInv, UNCHANGED vars
  PROVE  GrowInv' /\ TypeOK' /\ UNCHANGED <<stored, reported, ledger, today>>
<1>1. GrowInv' /\ TypeOK'
  BY GrowNext DEF ReadsInv, GrowInv, ScoreInv
<1> QED
  BY <1>1 DEF vars, clock, tables

LEMMA ReaderKeepsReads == ReadsInv /\ ReaderStep => ReadsInv'
<1> SUFFICES ASSUME ReadsInv, ReaderStep PROVE ReadsInv'
  OBVIOUS
<1> USE ConstantTypes
<1>1. UNCHANGED vars
  BY DEF ReaderStep, StatusReadsCoverage, StatusAnswers, RankingReadsDates,
     RankingReadsNewest, RankingAnswers, Moves
<1>2. GrowInv' /\ TypeOK' /\ UNCHANGED <<stored, reported, ledger, today>>
  BY <1>1, TablesStay
<1>3. /\ stored \in SUBSET Days /\ reported \in SUBSET Days
      /\ stored \subseteq Trading /\ reported \subseteq stored
      /\ today \in Days
  BY DEF ReadsInv, ReadsTypeOK, TypeOK
<1>4. CASE StatusReadsCoverage
  <2>1. /\ reader' = "status"
        /\ view' = [asOf |-> today, pending |-> PendingDays, dates |-> {},
                    require |-> FALSE, newest |-> 0, awaiting |-> 0]
    BY <1>4, Zenon DEF StatusReadsCoverage, Moves, NoView
  <2>2. PendingDays \subseteq Days
    BY DEF PendingDays, Window
  <2>3. ReadsTypeOK'
    BY <1>2, <1>3, <2>1, <2>2 DEF ReadsTypeOK
  <2>4. StatusInv'
    BY <1>2, <2>1 DEF StatusInv, PendingDays, Window
  <2> QED
    BY <1>2, <2>1, <2>3, <2>4 DEF ReadsInv, RankingInv
<1>5. CASE StatusAnswers \/ RankingAnswers
  <2>1. reader' = "none" /\ view' = NoView
    BY <1>5 DEF StatusAnswers, RankingAnswers, Moves
  <2>2. ReadsTypeOK'
    BY <1>2, <2>1 DEF ReadsTypeOK, NoView
  <2> QED
    BY <1>2, <2>1, <2>2 DEF ReadsInv, StatusInv, RankingInv
<1>6. CASE RankingReadsDates
  <2>1. PICK need \in BOOLEAN :
          /\ TradingDates(need, RankingWindow) # {}
          /\ reader' = IF need THEN "newest" ELSE "rows"
          /\ view' = [NoView EXCEPT !.dates = TradingDates(need, RankingWindow),
                                    !.require = need, !.newest = Latest(stored)]
    BY <1>6 DEF RankingReadsDates, Moves
  <2> DEFINE D == TradingDates(need, RankingWindow)
  <2>2. view' = [asOf |-> 0, pending |-> {}, dates |-> D, require |-> need,
                 newest |-> Latest(stored), awaiting |-> 0]
    BY <2>1, Zenon DEF NoView
  <2>2a. reader' = IF need THEN "newest" ELSE "rows"
    BY <2>1, Zenon
  <2>3. D \subseteq stored /\ (need => D \subseteq reported) /\ D # {}
    BY <1>3, <2>1, NewestSubset DEF TradingDates
  <2>4. Latest(stored) \in stored /\ \A e \in stored : e <= Latest(stored)
    BY <1>3, <2>3, LatestIs
  <2>5. ~need => Latest(stored) \in D
    <3>1. RankingWindow \in Nat \ {0} /\ stored # {}
      BY <2>3, ReadsAssumption DEF ReadsAssumption
    <3> QED
      BY <1>3, <3>1, LatestIsNewest DEF TradingDates
  <2> HIDE DEF D
  <2>6. ReadsTypeOK'
    <3>1. D \subseteq Trading /\ Latest(stored) \in Days
      BY <1>3, <2>3, <2>4
    <3> QED
      BY <1>2, <2>2, <2>2a, <3>1 DEF ReadsTypeOK
  <2>7. RankingInv'
    <3>1. /\ view'.dates = D /\ view'.require = need /\ view'.newest = Latest(stored)
          /\ reader' = IF need THEN "newest" ELSE "rows"
          /\ stored' = stored /\ reported' = reported
      BY <1>2, <2>2, <2>2a
    <3> QED
      BY <2>3, <2>4, <2>5, <3>1 DEF RankingInv
  <2> QED
    BY <1>2, <2>2a, <2>6, <2>7 DEF ReadsInv, StatusInv
<1>7. CASE RankingReadsNewest
  <2> DEFINE newest == Latest(TradingDates(FALSE, 1))
             a == IF newest > Latest(view.dates) THEN newest ELSE 0
  <2>1. /\ reader = "newest" /\ reader' = "rows"
        /\ view' = [view EXCEPT !.awaiting = a]
    BY <1>7 DEF RankingReadsNewest, Moves
  <2>2. /\ view.dates # {} /\ view.newest \in stored
        /\ view.dates \in SUBSET stored /\ view.dates \in SUBSET Days
        /\ \A e \in view.dates : e <= view.newest
        /\ view.require => view.dates \subseteq reported
    BY <1>3, <2>1 DEF ReadsInv, RankingInv
  <2>3. newest = Latest(stored)
    BY <1>3, <2>2, LatestIsNewest DEF TradingDates
  <2>4. Latest(stored) \in stored /\ view.newest <= Latest(stored)
    BY <1>3, <2>2, LatestIs
  <2>5. Latest(view.dates) \in view.dates
    BY <2>2, LatestIs
  <2>6. a \in Days \cup {0}
    BY <1>3, <2>3, <2>4
  <2> HIDE DEF newest
  <2>7. view.newest \in view.dates \/ a >= view.newest
    <3>1. /\ newest \in Nat /\ Latest(view.dates) \in Nat /\ view.newest \in Nat
          /\ view.newest <= newest /\ Latest(view.dates) <= view.newest
      BY <1>3, <2>2, <2>3, <2>4, <2>5
    <3> QED
      BY <2>5, <3>1
  <2> HIDE DEF a
  <2>8. /\ view' \in [asOf : Days \cup {0}, pending : SUBSET Days,
                      dates : SUBSET Trading, require : BOOLEAN,
                      newest : Days \cup {0}, awaiting : Days \cup {0}]
        /\ view'.dates = view.dates /\ view'.require = view.require
        /\ view'.newest = view.newest /\ view'.awaiting = a
    BY <2>1, <2>6 DEF ReadsInv, ReadsTypeOK
  <2> QED
    BY <1>2, <2>1, <2>2, <2>7, <2>8 DEF ReadsInv, ReadsTypeOK, StatusInv, RankingInv
<1> QED
  BY <1>4, <1>5, <1>6, <1>7 DEF ReaderStep

LEMMA ReadsNextInv == ReadsInv /\ [ReadsNext]_allVars => ReadsInv'
<1> SUFFICES ASSUME ReadsInv, [ReadsNext]_allVars PROVE ReadsInv'
  OBVIOUS
<1>1. CASE ReaderStep
  BY <1>1, ReaderKeepsReads
<1>2. CASE [Next]_vars /\ UNCHANGED <<reader, view>>
  BY <1>2, FillKeepsReads
<1> QED
  BY <1>1, <1>2 DEF ReadsNext, allVars

LEMMA ReadsInvariant == ReadsSpec => []ReadsInv
  BY ReadsInitInv, ReadsNextInv, PTL DEF ReadsSpec

(* Every variable keeps its type, those of the pages included.             *)
THEOREM ReadsTypes == ReadsSpec => []ReadsTypeOK
<1>1. ReadsInv => ReadsTypeOK
  BY DEF ReadsInv
<1> QED
  BY <1>1, ReadsInvariant, PTL

(* When a ranking is answered, each of its sessions still has the report   *)
(* it needs, and the newest session there was when it was asked for is one *)
(* of them or named as awaited, whatever the fill did in between.          *)
THEOREM RankingIsHonest == ReadsSpec => RankingSaysWhatIsMissing
<1>1. ReadsInv /\ [ReadsNext]_allVars =>
        [RankingAnswers =>
           /\ view.require => view.dates \subseteq reported
           /\ view.newest \in view.dates \/ view.awaiting >= view.newest]_allVars
  BY DEF ReadsInv, RankingInv, RankingAnswers
<1> QED
  BY <1>1, ReadsInvariant, PTL DEF ReadsSpec, RankingSaysWhatIsMissing

(* When the status page calls the fill of TWSE complete, all but the       *)
(* steady few sessions of its window are stored with their reports by      *)
(* then, though it read the ledger before.  It needs what the theorem on   *)
(* the fill needs.                                                         *)
THEOREM CompletePageIsRight ==
  ASSUME ~KeepsIndex, ~LateEntries
  PROVE  ReadsSpec => CompleteIsStored
<1>1. ASSUME ReadsInv, CoveredIsStored, StatusAnswers,
             NEW job \in ActiveJob, FillState(job) = "complete"
      PROVE  Cardinality((Window(view.asOf) \cap Trading) \ reported) <= SteadyState
  <2>1. Cardinality(view.pending) <= SteadyState
    BY <1>1 DEF FillState, ActiveJob
  <2> DEFINE missing == (Window(view.asOf) \cap Trading) \ reported
  <2>2. missing \in SUBSET view.pending
    BY <1>1 DEF StatusAnswers, ReadsInv, StatusInv, CoveredIsStored
  <2>3. view.pending \in SUBSET Days /\ IsFiniteSet(view.pending)
    BY <1>1, DaysFinite DEF ReadsInv, ReadsTypeOK
  <2> HIDE DEF missing
  <2>4. /\ Cardinality(missing) <= Cardinality(view.pending)
        /\ Cardinality(missing) \in Nat /\ Cardinality(view.pending) \in Nat
    BY <2>2, <2>3, FS_Subset, FS_CardinalityType
  <2>5. Cardinality(missing) <= SteadyState
    BY <2>1, <2>4, ReadsAssumption DEF ReadsAssumption
  <2> QED
    BY <2>5 DEF missing
<1>2. ReadsInv /\ CoveredIsStored /\ [ReadsNext]_allVars =>
        [StatusAnswers /\ (\E job \in ActiveJob : FillState(job) = "complete") =>
           Cardinality((Window(view.asOf) \cap Trading) \ reported) <= SteadyState]_allVars
  BY <1>1
<1>3. Spec => []CoveredIsStored
  BY SnapshotComplete
<1> QED
  BY <1>2, <1>3, ReadsInvariant, ReadsImplyFill, PTL DEF ReadsSpec, CompleteIsStored
=============================================================================
