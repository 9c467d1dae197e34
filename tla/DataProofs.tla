----------------------------- MODULE DataProofs -----------------------------
(***************************************************************************)
(* No backtest runs twice and none looks ahead; the flows of a range are   *)
(* final; memory and tables answer alike: for any workers, histories,      *)
(* calendars, caches, rows and orders.                                     *)
(***************************************************************************)
EXTENDS MCData, FiniteOrder, SequenceTheorems, TLAPS

-----------------------------------------------------------------------------
(* The queue of backtests.                                                 *)

(* What a worker has locked is queued and its alone, and a row that can    *)
(* still be claimed has not been.                                          *)
LocksHold ==
  \A w \in Workers :
    /\ locked[w] # NoJob <=> pc[w] = "locked"
    /\ held[w] # NoJob <=> pc[w] \in {"run", "complete", "fail"}
    /\ locked[w] # NoJob => /\ status[locked[w]] = "queued"
                            /\ \A v \in Workers \ {w} : locked[v] # locked[w]

Unclaimed == \A j \in Jobs : status[j] \in {"absent", "queued"} => claims[j] = 0

Inv == TypeOK /\ LocksHold /\ Unclaimed /\ ClaimedOnce

LEMMA CreateKeeps == ASSUME Inv, NEW j \in Jobs, Create(j) PROVE Inv'
<1>1. TypeOK'
  BY DEF Inv, TypeOK, Create, Rows
<1>2. /\ status[j] = "absent" /\ status'[j] = "queued"
      /\ \A i \in Jobs \ {j} : status'[i] = status[i]
      /\ UNCHANGED <<locked, held, pc, claims>>
  BY DEF Inv, TypeOK, Create
<1>3. \A w \in Workers : locked[w] # j /\ held[w] # j
  BY <1>2, JobsAssumption DEF Inv, LocksHold, ClaimedOnce
<1>4. LocksHold' /\ Unclaimed'
  BY <1>2, <1>3 DEF Inv, TypeOK, LocksHold, Unclaimed
<1>5. ClaimedOnce'
  BY <1>2, <1>3 DEF Inv, TypeOK, ClaimedOnce
<1> QED
  BY <1>1, <1>4, <1>5 DEF Inv

LEMMA LockKeeps == ASSUME Inv, NEW w \in Workers, LockOldest(w) PROVE Inv'
<1>1. PICK j \in Claimable : locked' = [locked EXCEPT ![w] = j]
  BY DEF LockOldest
<1>2. /\ j \in Jobs /\ status[j] = "queued" /\ \A v \in Workers : locked[v] # j
      /\ locked'[w] = j /\ pc'[w] = "locked" /\ held[w] = NoJob
      /\ \A v \in Workers \ {w} : locked'[v] = locked[v] /\ pc'[v] = pc[v]
      /\ UNCHANGED <<status, held, claims>>
  BY <1>1 DEF Inv, TypeOK, LocksHold, LockOldest, Claimable, Goto
<1>3. TypeOK'
  BY <1>1, <1>2 DEF Inv, TypeOK, LockOldest, Goto
<1>4. LocksHold'
  BY <1>2, JobsAssumption DEF Inv, LocksHold
<1>5. Unclaimed' /\ ClaimedOnce'
  BY <1>2 DEF Inv, Unclaimed, ClaimedOnce
<1> QED
  BY <1>3, <1>4, <1>5 DEF Inv

LEMMA ClaimKeeps == ASSUME Inv, NEW w \in Workers, Claim(w) PROVE Inv'
<1>1. PICK j \in Jobs : j = locked[w]
  BY JobsAssumption DEF Inv, TypeOK, LocksHold, Claim
<1>2. /\ status[j] = "queued" /\ claims[j] = 0
      /\ \A v \in Workers \ {w} : locked[v] # j
      /\ \A v \in Workers : held[v] # j
  BY <1>1, JobsAssumption DEF Inv, LocksHold, Unclaimed, ClaimedOnce, Claim
<1>3. /\ status'[j] = "running" /\ claims'[j] = 1
      /\ \A i \in Jobs \ {j} : status'[i] = status[i] /\ claims'[i] = claims[i]
      /\ locked'[w] = NoJob /\ held'[w] = j /\ pc'[w] = "run"
      /\ \A v \in Workers \ {w} : /\ locked'[v] = locked[v] /\ held'[v] = held[v]
                                  /\ pc'[v] = pc[v]
  BY <1>1, <1>2 DEF Inv, TypeOK, Claim, Goto
<1>4. TypeOK'
  BY <1>1 DEF Inv, TypeOK, Claim, Goto
<1>5. LocksHold'
  BY <1>2, <1>3, JobsAssumption DEF Inv, TypeOK, LocksHold
<1>6. Unclaimed' /\ ClaimedOnce'
  BY <1>2, <1>3 DEF Inv, TypeOK, Unclaimed, ClaimedOnce
<1> QED
  BY <1>4, <1>5, <1>6 DEF Inv

(* The worker writes the end of its job.                                   *)
LEMMA EndKeeps ==
  ASSUME Inv, NEW w \in Workers, Complete(w) \/ FailJob(w)
  PROVE  Inv'
<1>1. PICK j \in Jobs : j = held[w]
  BY JobsAssumption DEF Inv, TypeOK, LocksHold, Complete, FailJob
<1>2. status[j] = "running" /\ \A v \in Workers \ {w} : held[v] # j
  BY <1>1, JobsAssumption DEF Inv, ClaimedOnce
<1>3. /\ status'[j] \in {"completed", "failed"}
      /\ \A i \in Jobs \ {j} : status'[i] = status[i]
      /\ held'[w] = NoJob /\ pc'[w] = "idle" /\ locked[w] = NoJob
      /\ \A v \in Workers \ {w} : held'[v] = held[v] /\ pc'[v] = pc[v]
      /\ UNCHANGED <<locked, claims>>
  BY <1>1 DEF Inv, TypeOK, LocksHold, Complete, FailJob, Goto
<1>4. TypeOK'
  BY <1>1 DEF Inv, TypeOK, Complete, FailJob, Goto
<1>5. LocksHold' /\ Unclaimed'
  BY <1>2, <1>3 DEF Inv, TypeOK, LocksHold, Unclaimed
<1>6. ClaimedOnce'
  BY <1>2, <1>3, JobsAssumption DEF Inv, TypeOK, ClaimedOnce
<1> QED
  BY <1>4, <1>5, <1>6 DEF Inv

(* A worker moves on, or loses what it had, without writing a row.         *)
LEMMA MoveKeeps ==
  ASSUME Inv, NEW w \in Workers, Start(w) \/ RunEnds(w) \/ Crash(w)
  PROVE  Inv'
<1>1. TypeOK'
  <2>1. CASE Start(w) \/ RunEnds(w)
    BY <2>1 DEF Inv, TypeOK, Start, RunEnds, Goto
  <2>2. CASE Crash(w)
    BY <2>2 DEF Inv, TypeOK, Crash, Goto
  <2> QED
    BY <2>1, <2>2
<1>2. /\ UNCHANGED <<status, claims>>
      /\ \A v \in Workers \ {w} : /\ locked'[v] = locked[v] /\ held'[v] = held[v]
                                  /\ pc'[v] = pc[v]
      /\ \/ /\ locked'[w] = NoJob /\ held'[w] = NoJob /\ pc'[w] \in {"idle", "down"}
         \/ /\ locked'[w] = locked[w] /\ held'[w] = held[w]
            /\ pc[w] = "run" /\ pc'[w] \in {"complete", "fail"}
  BY DEF Inv, TypeOK, LocksHold, Start, RunEnds, Crash, Goto
<1>3. LocksHold'
  BY <1>2 DEF Inv, LocksHold
<1>4. Unclaimed' /\ ClaimedOnce'
  BY <1>2 DEF Inv, Unclaimed, ClaimedOnce
<1> QED
  BY <1>1, <1>3, <1>4 DEF Inv

LEMMA InvInit == Init => Inv
<1> SUFFICES ASSUME Init PROVE Inv
  OBVIOUS
<1>1. TypeOK
  BY DEF Init, TypeOK
<1> QED
  BY <1>1 DEF Init, Inv, LocksHold, Unclaimed, ClaimedOnce

LEMMA InvNext == Inv /\ [Next]_vars => Inv'
<1> SUFFICES ASSUME Inv, [Next]_vars PROVE Inv'
  OBVIOUS
<1>1. CASE UNCHANGED vars
  BY <1>1 DEF Inv, TypeOK, LocksHold, Unclaimed, ClaimedOnce, vars
<1> QED
  BY <1>1, CreateKeeps, LockKeeps, ClaimKeeps, EndKeeps, MoveKeeps DEF Next, Step

(* Every variable of the queue of backtests keeps its type.                *)
THEOREM BacktestTypes == Spec => []TypeOK
<1>1. Inv => TypeOK
  BY DEF Inv
<1> QED
  BY <1>1, InvInit, InvNext, PTL DEF Spec

(* Whatever workers claim at the same time and wherever they crash, a      *)
(* backtest is claimed once, and what a worker holds is running and its.   *)
THEOREM BacktestsRunOnce == Spec => []ClaimedOnce
<1>1. Inv => ClaimedOnce
  BY DEF Inv
<1> QED
  BY <1>1, InvInit, InvNext, PTL DEF Spec

-----------------------------------------------------------------------------
(* The engine of backtests.                                                *)

(* A series of production records, one a date, as those of a backtest are. *)
OneADay(f) ==
  /\ f = [d \in DOMAIN f |-> f[d]] /\ DOMAIN f \subseteq Days
  /\ \A d \in DOMAIN f : f[d].date = d /\ f[d].source = Official /\ f[d].revision = 1

(* Of such a series every record counts.                                   *)
LEMMA SelectsItself == ASSUME NEW f, OneADay(f) PROVE SelectLatest(f) = f
<1> DEFINE Pick(d) == CHOOSE i \in Candidates(f) : f[i].date = d /\ IsSelected(f, i)
<1>1. Candidates(f) = DOMAIN f
  BY BacktestAssumption DEF OneADay, Candidates, Superseded
<1>2. {f[i].date : i \in DOMAIN f} = DOMAIN f
  BY DEF OneADay
<1>3. ASSUME NEW d \in DOMAIN f
      PROVE  Pick(d) = d
  <2>1. ~Outranks(f[d], f[d])
    BY BacktestAssumption DEF OneADay, Outranks, SourcePriority
  <2>2. IsSelected(f, d)
    BY <1>1, <2>1 DEF OneADay, IsSelected, Days
  <2>3. \A i \in DOMAIN f : f[i].date = d => i = d
    BY DEF OneADay
  <2> QED
    BY <1>1, <2>2, <2>3 DEF OneADay
<1>4. SelectLatest(f) = [d \in {f[i].date : i \in Candidates(f)} |-> f[Pick(d)]]
  BY DEF SelectLatest
<1> HIDE DEF Pick
<1>5. SelectLatest(f) = [d \in DOMAIN f |-> f[d]]
  BY <1>1, <1>2, <1>3, <1>4
<1> QED
  BY <1>5 DEF OneADay

LEMMA BarsAreTheSeries ==
  ASSUME BacktestTypeOK, NEW t \in Twins
  PROVE  Bars(t) = [d \in Days |-> Row(t, d, 0, moves)]
<1>1. OneADay(Series(t, 0, moves))
  BY DEF OneADay, Series, Row
<1> QED
  BY <1>1, SelectsItself DEF Bars, Series

(* What the loop has seen when it is at a day.                             *)
AtOpen == GoesOn /\ index - 1 >= MinBars

LEMMA HistoryIsThePast ==
  ASSUME BacktestTypeOK, AtOpen, NEW t \in Twins
  PROVE  /\ History(t) = [d \in 1 .. index - 1 |-> Row(t, d, 0, moves)]
         /\ Latest(History(t)).date = index - 1
<1>1. index - 1 \in Days /\ 1 .. index - 1 \subseteq Days
  BY BacktestAssumption DEF BacktestTypeOK, AtOpen, GoesOn, Days
<1>2. History(t) = [d \in 1 .. index - 1 |-> Row(t, d, 0, moves)]
  BY <1>1, BarsAreTheSeries DEF History, Restrict
<1>3. Max(1 .. index - 1) = index - 1
  BY <1>1 DEF Max, Days
<1>4. Latest(History(t)) = Row(t, index - 1, 0, moves)
  BY <1>1, <1>2, <1>3 DEF Latest, Days
<1> QED
  BY <1>2, <1>4 DEF Row

(* Up to the day known a row of one twin is the other's.                   *)
LEMMA SameRows ==
  ASSUME BacktestTypeOK, NEW late \in Nat, NEW series, NEW d \in Days
  PROVE  /\ Row(1, d, late, series).available = d + late
         /\ Row(2, d, late, series).available = d + late
         /\ d + late <= known => Row(1, d, late, series) = Row(2, d, late, series)
BY DEF BacktestTypeOK, Days, Row

LEMMA SameAvailable ==
  ASSUME BacktestTypeOK, BacktestAssumption, NEW asOf \in Days, asOf <= known
  PROVE  Available(Other(1), asOf) = Available(Other(2), asOf)
<1> DEFINE Some(t) == Restrict(Other(t), {i \in DOMAIN Other(t) : Other(t)[i].available <= asOf})
<1>1. delay \in Nat /\ known \in Nat /\ Days \subseteq Nat
  BY DEF BacktestTypeOK, BacktestAssumption, Days
<1>2. \A d \in Days : d + delay <= asOf => d + delay <= known
  BY <1>1 DEF Days
<1>3. ASSUME NEW t \in Twins
      PROVE Some(t) = [d \in {i \in Days : i + delay <= asOf} |-> Row(t, d, delay, other)]
  <2>1. DOMAIN Other(t) = Days /\ \A i \in Days : Other(t)[i] = Row(t, i, delay, other)
    BY DEF Other, Series
  <2>2. \A i \in Days : Row(t, i, delay, other).available = i + delay
    BY DEF Row
  <2>3. {i \in DOMAIN Other(t) : Other(t)[i].available <= asOf} = {i \in Days : i + delay <= asOf}
    BY <2>1, <2>2
  <2> QED
    BY <2>1, <2>3 DEF Restrict
<1>4. [d \in {i \in Days : i + delay <= asOf} |-> Row(1, d, delay, other)]
        = [d \in {i \in Days : i + delay <= asOf} |-> Row(2, d, delay, other)]
  BY <1>1, <1>2, SameRows
<1>5. Some(1) = Some(2)
  BY <1>3, <1>4 DEF Twins
<1> QED
  BY <1>5 DEF Available

(* The same of a series that is available on its dates, by date.           *)
LEMMA SameUntil ==
  ASSUME BacktestTypeOK, NEW series, NEW asOf \in Days, asOf <= known
  PROVE  Until(Series(1, 0, series), asOf) = Until(Series(2, 0, series), asOf)
<1>1. known \in Nat /\ Days \subseteq Nat
  BY DEF BacktestTypeOK, Days
<1>2. ASSUME NEW t \in Twins
      PROVE  Until(Series(t, 0, series), asOf)
               = [d \in {i \in Days : i <= asOf} |-> Row(t, d, 0, series)]
  BY DEF Until, Series, Restrict, Row
<1>3. \A d \in {i \in Days : i <= asOf} : d + 0 <= known
  BY <1>1 DEF Days
<1>4. [d \in {i \in Days : i <= asOf} |-> Row(1, d, 0, series)]
        = [d \in {i \in Days : i <= asOf} |-> Row(2, d, 0, series)]
  BY <1>1, <1>3, SameRows
<1> QED
  BY <1>2, <1>4 DEF Twins

LEMMA SameChip ==
  ASSUME BacktestTypeOK, delay = 0, NEW asOf \in Days, asOf <= known
  PROVE  ChipOf(1, asOf) = ChipOf(2, asOf)
<1>1. Until(Other(1), asOf) = Until(Other(2), asOf)
  BY SameUntil DEF Other
<1>2. Until(Quiet(1), asOf) = Until(Quiet(2), asOf)
  BY SameUntil DEF Quiet
<1>3. ASSUME NEW dates
      PROVE  RecentBranches(Other(1), asOf, dates) = RecentBranches(Other(2), asOf, dates)
  <2>1. ASSUME NEW t \in Twins
        PROVE  RecentBranches(Other(t), asOf, dates)
                 = Restrict(Until(Other(t), asOf),
                     {i \in DOMAIN Until(Other(t), asOf) : Until(Other(t), asOf)[i].date \in dates})
    BY DEF RecentBranches, Until, Restrict
  <2> QED
    BY <1>1, <2>1 DEF Twins
<1>4. ChipScore(Other(1), << >>, asOf) = ChipScore(Other(2), << >>, asOf)
  BY <1>1 DEF ChipScore
<1>5. ChipScore(Quiet(1), Other(1), asOf) = ChipScore(Quiet(2), Other(2), asOf)
  BY <1>2, <1>3 DEF ChipScore
<1> QED
  BY <1>4, <1>5 DEF ChipOf

(* So the two take the same position until the open after that day.        *)
LEMMA SameTarget ==
  ASSUME BacktestTypeOK, delay = 0, AtOpen, index <= known + 1, holds[1] = holds[2]
  PROVE  Target(1) = Target(2)
<1> DEFINE asOf == index - 1
<1>1. asOf \in Days /\ asOf <= known
  BY BacktestAssumption DEF BacktestTypeOK, AtOpen, GoesOn, Days
<1>2. History(1) = History(2)
  <2>1. \A d \in 1 .. index - 1 : d \in Days /\ d + 0 <= known
    BY <1>1, BacktestAssumption DEF BacktestTypeOK, Days
  <2>2. [d \in 1 .. index - 1 |-> Row(1, d, 0, moves)]
          = [d \in 1 .. index - 1 |-> Row(2, d, 0, moves)]
    BY <2>1, SameRows
  <2> QED
    BY <2>2, HistoryIsThePast DEF Twins
<1>3. Latest(History(1)).date = asOf /\ Latest(History(2)).date = asOf
  BY HistoryIsThePast DEF Twins
<1>4. Available(Other(1), asOf) = Available(Other(2), asOf)
  BY <1>1, SameAvailable, BacktestAssumption
<1>5. ChipOf(1, asOf) = ChipOf(2, asOf)
  BY <1>1, SameChip
<1> HIDE DEF asOf
<1>6. RiskOff(Other(1), asOf) = RiskOff(Other(2), asOf)
  BY <1>4 DEF RiskOff
<1>7. Score(History(1), IF input = "benchmark" THEN Other(1) ELSE << >>, asOf)
        = Score(History(2), IF input = "benchmark" THEN Other(2) ELSE << >>, asOf)
  BY <1>2, <1>4 DEF Score, RelativeStrength
<1> QED
  BY <1>3, <1>5, <1>6, <1>7, <1>2 DEF Target

(* The inductive invariant: until the open after the day known the twins   *)
(* did the same, and until its close they showed the same.                 *)
TwinsAgree ==
  /\ index <= known + 2 => holds[1] = holds[2] /\ trades[1] = trades[2]
  /\ index <= known => curve[1] = curve[2]

OneEntryADay == \A t \in Twins : Len(trades[t]) < index /\ Len(curve[t]) < index

BacktestInv ==
  /\ BacktestTypeOK /\ OneEntryADay
  /\ delay = 0 => TwinsAgree /\ PositionsIgnoreTheFuture

(* An entry is seen from its date on.                                      *)
LEMMA BeforeIgnoresLater ==
  ASSUME NEW S, NEW s \in Seq(S), NEW e, NEW d, ~(e.date <= d)
  PROVE  Before(Append(s, e), d) = Before(s, d)
<1>1. /\ DOMAIN Append(s, e) = DOMAIN s \cup {Len(s) + 1}
      /\ Append(s, e)[Len(s) + 1] = e
      /\ \A i \in DOMAIN s : Append(s, e)[i] = s[i]
  OBVIOUS
<1>2. {i \in DOMAIN Append(s, e) : Append(s, e)[i].date <= d} = {i \in DOMAIN s : s[i].date <= d}
  BY <1>1
<1> QED
  BY <1>1, <1>2 DEF Before, Restrict

LEMMA TargetType == ASSUME BacktestTypeOK, NEW t \in Twins PROVE Target(t) \in 0 .. 1
BY DEF BacktestTypeOK, Target

LEMMA PointType ==
  ASSUME BacktestTypeOK, AtOpen, NEW t \in Twins
  PROVE  /\ Bars(t)[index].date = index
         /\ Point(t) \in [date : Days, position : 0 .. 1, from : {0, 2}, to : {0, 2}]
         /\ Point(t).date = index + 1
<1>1. index \in Days /\ index + 1 \in Days
  BY BacktestAssumption DEF BacktestTypeOK, AtOpen, GoesOn, Days
<1>2. \A d \in Days : Bars(t)[d].date = d /\ Bars(t)[d].move \in {0, 2}
  <2>1. \A d \in Days : moves[d] \in {0, 2}
    BY DEF BacktestTypeOK
  <2> QED
    BY <2>1, BarsAreTheSeries DEF Row
<1> QED
  BY <1>1, <1>2, TargetType DEF Point

LEMMA TradeTypes ==
  ASSUME BacktestTypeOK, OneEntryADay, TradeAtOpen,
         UNCHANGED <<moves, input, other, delay, known, stop>>
  PROVE  BacktestTypeOK' /\ OneEntryADay'
<1> DEFINE Trade == [date : Days, to : 0 .. 1]
           Equity == [date : Days, position : 0 .. 1, from : {0, 2}, to : {0, 2}]
<1>1. AtOpen /\ index \in 1 .. LastDay - 1 /\ LastDay \in Nat
  BY BacktestAssumption DEF TradeAtOpen, AtOpen, GoesOn, BacktestTypeOK
<1>2. ASSUME NEW t \in Twins
      PROVE  /\ trades'[t] \in Seq(Trade) /\ Len(trades'[t]) < index + 1
             /\ curve'[t] \in Seq(Equity) /\ Len(curve'[t]) < index + 1
  <2>1. /\ trades[t] \in Seq(Trade) /\ Len(trades[t]) < index
        /\ curve[t] \in Seq(Equity) /\ Len(curve[t]) < index
    BY DEF BacktestTypeOK, OneEntryADay
  <2>2. trades'[t] = Traded(t) /\ curve'[t] = Append(curve[t], Point(t))
    BY DEF TradeAtOpen
  <2>3. [date |-> Bars(t)[index].date, to |-> Target(t)] \in Trade
    BY <1>1, PointType, TargetType DEF Days
  <2>4. Point(t) \in Equity
    BY <1>1, PointType
  <2> HIDE DEF Trade, Equity
  <2>5. Traded(t) \in Seq(Trade) /\ Len(Traded(t)) < index + 1
    BY <1>1, <2>1, <2>3 DEF Traded
  <2>6. Append(curve[t], Point(t)) \in Seq(Equity) /\ Len(Append(curve[t], Point(t))) < index + 1
    BY <1>1, <2>1, <2>4
  <2> QED
    BY <2>2, <2>5, <2>6
<1>3. trades' \in [Twins -> Seq(Trade)] /\ curve' \in [Twins -> Seq(Equity)]
  <2>1. trades' = [t \in Twins |-> trades'[t]] /\ curve' = [t \in Twins |-> curve'[t]]
    BY DEF TradeAtOpen
  <2> HIDE DEF Trade, Equity
  <2> QED
    BY <1>2, <2>1
<1>4. holds' \in [Twins -> 0 .. 1]
  BY TargetType DEF TradeAtOpen
<1>5. index' \in 1 .. LastDay /\ index' = index + 1
  BY <1>1 DEF TradeAtOpen
<1>6. \A t \in Twins : Len(trades'[t]) <= LastDay /\ Len(curve'[t]) <= LastDay
  <2>1. \A t \in Twins : Len(trades'[t]) \in Nat /\ Len(curve'[t]) \in Nat
    BY <1>2
  <2> QED
    BY <1>1, <1>2, <2>1
<1>7. UNCHANGED <<moves, input, other, delay, known, stop, outcome>>
  BY DEF TradeAtOpen
<1> QED
  BY <1>2, <1>3, <1>4, <1>5, <1>6, <1>7 DEF BacktestTypeOK, OneEntryADay, Days

LEMMA TradeAgrees ==
  ASSUME BacktestInv, delay = 0, TradeAtOpen,
         UNCHANGED <<moves, input, other, delay, known, stop>>
  PROVE  (TwinsAgree /\ PositionsIgnoreTheFuture)'
<1>1. /\ AtOpen /\ BacktestTypeOK /\ TwinsAgree /\ PositionsIgnoreTheFuture
      /\ index \in Nat /\ known \in Nat /\ index' = index + 1 /\ known' = known
  <2>1. BacktestTypeOK /\ TwinsAgree /\ PositionsIgnoreTheFuture
    BY DEF BacktestInv
  <2>2. index \in Nat /\ known \in Nat
    BY <2>1 DEF BacktestTypeOK, Days
  <2>3. AtOpen /\ index' = index + 1
    BY DEF TradeAtOpen, AtOpen
  <2> QED
    BY <2>1, <2>2, <2>3
<1>2. /\ \A t \in Twins : holds'[t] = Target(t) /\ trades'[t] = Traded(t)
      /\ \A t \in Twins : curve'[t] = Append(curve[t], Point(t))
  BY DEF TradeAtOpen
<1>3. 1 \in Twins /\ 2 \in Twins
  BY DEF Twins
<1>4. ASSUME index <= known + 1
      PROVE  holds'[1] = holds'[2] /\ trades'[1] = trades'[2]
  <2>1. holds[1] = holds[2] /\ trades[1] = trades[2]
    BY <1>1, <1>4 DEF TwinsAgree
  <2>2. Target(1) = Target(2)
    BY <1>1, <1>4, <2>1, SameTarget
  <2>3. Bars(1)[index].date = Bars(2)[index].date
    BY <1>1, <1>3, PointType
  <2> QED
    BY <1>2, <1>3, <2>1, <2>2, <2>3 DEF Traded
<1>5. ASSUME index + 1 <= known
      PROVE  curve'[1] = curve'[2]
  <2>1. holds[1] = holds[2] /\ curve[1] = curve[2]
    BY <1>1, <1>5 DEF TwinsAgree
  <2>2. Target(1) = Target(2)
    BY <1>1, <1>5, <2>1, SameTarget
  <2>3. index \in Days /\ index + 1 \in Days
    BY <1>1, BacktestAssumption DEF BacktestTypeOK, AtOpen, GoesOn, Days
  <2>4. Row(1, index, 0, moves) = Row(2, index, 0, moves)
        /\ Row(1, index + 1, 0, moves) = Row(2, index + 1, 0, moves)
    BY <1>1, <1>5, <2>3, SameRows
  <2>5. Bars(1)[index] = Bars(2)[index] /\ Bars(1)[index + 1] = Bars(2)[index + 1]
    BY <1>1, <1>3, <2>3, <2>4, BarsAreTheSeries
  <2> QED
    BY <1>2, <1>3, <2>1, <2>2, <2>5 DEF Point
<1>6. TwinsAgree'
  BY <1>1, <1>4, <1>5 DEF TwinsAgree
<1>7. Before(trades'[1], known + 1) = Before(trades'[2], known + 1)
  <2>1. CASE index <= known + 1
    BY <1>4, <2>1
  <2>2. CASE ~(index <= known + 1)
    <3>1. ASSUME NEW t \in Twins PROVE Before(trades'[t], known + 1) = Before(trades[t], known + 1)
      <4> DEFINE e == [date |-> Bars(t)[index].date, to |-> Target(t)]
      <4>1. ~(e.date <= known + 1)
        BY <1>1, <2>2, PointType
      <4>2. PICK S : trades[t] \in Seq(S)
        BY <1>1 DEF BacktestTypeOK
      <4> HIDE DEF e
      <4>3. Before(Append(trades[t], e), known + 1) = Before(trades[t], known + 1)
        BY <4>1, <4>2, BeforeIgnoresLater
      <4>4. trades'[t] = trades[t] \/ trades'[t] = Append(trades[t], e)
        BY <1>2 DEF Traded, e
      <4> QED
        BY <4>3, <4>4
    <3> QED
      BY <1>1, <1>3, <3>1 DEF PositionsIgnoreTheFuture
  <2> QED
    BY <2>1, <2>2
<1>8. Before(curve'[1], known) = Before(curve'[2], known)
  <2>1. CASE index + 1 <= known
    BY <1>5, <2>1
  <2>2. CASE ~(index + 1 <= known)
    <3>1. ASSUME NEW t \in Twins PROVE Before(curve'[t], known) = Before(curve[t], known)
      <4>1. ~(Point(t).date <= known)
        BY <1>1, <2>2, PointType
      <4>2. PICK S : curve[t] \in Seq(S)
        BY <1>1 DEF BacktestTypeOK
      <4>3. Before(Append(curve[t], Point(t)), known) = Before(curve[t], known)
        BY <4>1, <4>2, BeforeIgnoresLater
      <4> QED
        BY <1>2, <4>3
    <3> QED
      BY <1>1, <1>3, <3>1 DEF PositionsIgnoreTheFuture
  <2> QED
    BY <2>1, <2>2
<1> QED
  BY <1>1, <1>6, <1>7, <1>8 DEF PositionsIgnoreTheFuture

LEMMA BacktestInvHolds == BacktestSpec => []BacktestInv
<1>1. BacktestInit => BacktestInv
  <2> SUFFICES ASSUME BacktestInit PROVE BacktestInv
    OBVIOUS
  <2>1. BacktestTypeOK /\ OneEntryADay
    BY BacktestAssumption DEF BacktestInit, BacktestTypeOK, OneEntryADay, Days, Twins
  <2>2. holds[1] = holds[2] /\ trades[1] = trades[2] /\ curve[1] = curve[2]
    BY DEF BacktestInit, Twins
  <2> QED
    BY <2>1, <2>2 DEF BacktestInv, TwinsAgree, PositionsIgnoreTheFuture
<1>2. BacktestInv /\ [BacktestNext]_backtestVars => BacktestInv'
  <2> SUFFICES ASSUME BacktestInv, [BacktestNext]_backtestVars PROVE BacktestInv'
    OBVIOUS
  <2>1. CASE TooShort /\ UNCHANGED <<moves, input, other, delay, known, stop>>
    <3>1. index \in Nat /\ known \in Nat /\ index < LastDay /\ index' = index + 1 /\ LastDay \in Nat
      BY <2>1, BacktestAssumption DEF TooShort, GoesOn, BacktestInv, BacktestTypeOK, Days
    <3>2. UNCHANGED <<moves, input, other, delay, known, stop, holds, trades, curve, outcome>>
      BY <2>1 DEF TooShort
    <3>3. BacktestTypeOK'
      <4>1. index' \in 1 .. LastDay
        BY <3>1
      <4>2. BacktestTypeOK
        BY DEF BacktestInv
      <4> QED
        BY <3>2, <4>1, <4>2 DEF BacktestTypeOK
    <3>4. OneEntryADay'
      BY <3>1, <3>2 DEF BacktestInv, OneEntryADay, BacktestTypeOK
    <3>5. delay = 0 => (TwinsAgree /\ PositionsIgnoreTheFuture)'
      BY <3>1, <3>2 DEF BacktestInv, TwinsAgree, PositionsIgnoreTheFuture
    <3> QED
      BY <3>2, <3>3, <3>4, <3>5 DEF BacktestInv
  <2>2. CASE TradeAtOpen /\ UNCHANGED <<moves, input, other, delay, known, stop>>
    BY <2>2, TradeTypes, TradeAgrees DEF BacktestInv
  <2>3. CASE Report /\ UNCHANGED <<moves, input, other, delay, known, stop>>
    BY <2>3 DEF Report, BacktestInv, BacktestTypeOK, OneEntryADay, TwinsAgree,
                PositionsIgnoreTheFuture, Before, Restrict
  <2>4. CASE UNCHANGED backtestVars
    BY <2>4 DEF backtestVars, run, BacktestInv, BacktestTypeOK, OneEntryADay, TwinsAgree,
                PositionsIgnoreTheFuture, Before, Restrict
  <2> QED
    BY <2>1, <2>2, <2>3, <2>4 DEF BacktestNext
<1> QED
  BY <1>1, <1>2, PTL DEF BacktestSpec

(* Every reachable state of a backtest is well typed, for every history,   *)
(* input and end.                                                          *)
THEOREM EngineTypes == BacktestSpec => []BacktestTypeOK
<1>1. BacktestInv => BacktestTypeOK
  BY DEF BacktestInv
<1> QED
  BY <1>1, BacktestInvHolds, PTL

(* A backtest does not look ahead: for every pair of histories that agree  *)
(* up to a day, of any length, it traded the same until the open after     *)
(* that day and showed the same by its close.  Branch rows that become     *)
(* available after their date are the exception (Backtest_early).          *)
THEOREM BacktestsDoNotLookAhead ==
  BacktestSpec => [](delay = 0 => PositionsIgnoreTheFuture)
<1>1. BacktestInv => (delay = 0 => PositionsIgnoreTheFuture)
  BY DEF BacktestInv
<1> QED
  BY <1>1, BacktestInvHolds, PTL

-----------------------------------------------------------------------------
(* The cache of reports: a sequence with one entry for each request.       *)
Key(e) == <<e.kind, e.date>>
OneEach(s) == \A i, j \in DOMAIN s : i # j => Key(s[i]) # Key(s[j])
Final(e) == e.date \in Sessions => e.content = "final"

CacheType == cache \in Seq(Entries) /\ Len(cache) <= MaxEntries /\ OneEach(cache)
HonestCache == \A i \in DOMAIN cache : Final(cache[i])

LEMMA RemoveAtFacts ==
  ASSUME NEW S, NEW s \in Seq(S), NEW i \in 1 .. Len(s)
  PROVE  /\ RemoveAt(s, i) \in Seq(S) /\ Len(RemoveAt(s, i)) = Len(s) - 1
         /\ \A j \in 1 .. Len(s) - 1 :
              RemoveAt(s, i)[j] = IF j < i THEN s[j] ELSE s[j + 1]
<1> DEFINE front == SubSeq(s, 1, i - 1)
           back == SubSeq(s, i + 1, Len(s))
<1>1. Len(s) \in Nat /\ i \in Nat /\ \A j \in 1 .. Len(s) : s[j] \in S
  OBVIOUS
<1>2. /\ front \in Seq(S) /\ Len(front) = i - 1
      /\ \A j \in 1 .. i - 1 : front[j] = s[j]
  BY <1>1, SubSeqProperties
<1>3. /\ back \in Seq(S) /\ Len(back) = Len(s) - i
      /\ \A j \in 1 .. Len(s) - i : back[j] = s[i + j]
  BY <1>1, SubSeqProperties
<1>4. RemoveAt(s, i) = front \o back
  BY DEF RemoveAt
<1> HIDE DEF front, back
<1>5. /\ front \o back \in Seq(S) /\ Len(front \o back) = Len(s) - 1
      /\ \A j \in 1 .. Len(s) - 1 :
           (front \o back)[j] = IF j < i THEN front[j] ELSE back[j - (i - 1)]
  <2>1. Len(front) + Len(back) = Len(s) - 1 /\ Len(front) \in Nat /\ Len(back) \in Nat
    BY <1>1, <1>2, <1>3
  <2>2. /\ front \o back \in Seq(S) /\ Len(front \o back) = Len(front) + Len(back)
        /\ \A j \in 1 .. Len(front) + Len(back) :
             (front \o back)[j] = IF j <= Len(front) THEN front[j] ELSE back[j - Len(front)]
    BY <1>2, <1>3, ConcatProperties
  <2> QED
    BY <1>1, <1>2, <2>1, <2>2
<1>6. ASSUME NEW j \in 1 .. Len(s) - 1
      PROVE  (front \o back)[j] = IF j < i THEN s[j] ELSE s[j + 1]
  <2>1. CASE j < i
    BY <1>1, <1>2, <1>5, <2>1
  <2>2. CASE ~(j < i)
    <3>1. j - (i - 1) \in 1 .. Len(s) - i /\ i + (j - (i - 1)) = j + 1
      BY <1>1, <2>2
    <3>2. back[j - (i - 1)] = s[j + 1]
      BY <1>3, <3>1
    <3> QED
      BY <1>5, <2>2, <3>2
  <2> QED
    BY <2>1, <2>2
<1> QED
  BY <1>4, <1>5, <1>6

LEMMA OthersFacts ==
  ASSUME CacheType, NEW e \in Entries
  PROVE  /\ Others(e) \in Seq(Entries) /\ Len(Others(e)) <= Len(cache) /\ OneEach(Others(e))
         /\ \A i \in DOMAIN Others(e) :
              Key(Others(e)[i]) # Key(e) /\ \E j \in DOMAIN cache : Others(e)[i] = cache[j]
<1> DEFINE at == {i \in DOMAIN cache : cache[i].kind = e.kind /\ cache[i].date = e.date}
<1>1. at = {i \in DOMAIN cache : Key(cache[i]) = Key(e)}
  BY DEF Key
<1>2. Others(e) = IF at = {} THEN cache ELSE RemoveAt(cache, CHOOSE i \in at : TRUE)
  BY DEF Others
<1> HIDE DEF at
<1>3. CASE at = {}
  BY <1>1, <1>2, <1>3 DEF CacheType
<1>4. CASE at # {}
  <2>1. PICK i \in at : i = CHOOSE k \in at : TRUE
    BY <1>4
  <2>2. i \in 1 .. Len(cache) /\ Key(cache[i]) = Key(e)
    BY <1>1, <2>1 DEF CacheType
  <2>3. /\ Others(e) \in Seq(Entries) /\ Len(Others(e)) = Len(cache) - 1
        /\ \A j \in 1 .. Len(cache) - 1 :
             Others(e)[j] = IF j < i THEN cache[j] ELSE cache[j + 1]
    BY <1>2, <1>4, <2>1, <2>2, RemoveAtFacts DEF CacheType
  <2>4. Len(cache) \in Nat /\ DOMAIN cache = 1 .. Len(cache)
        /\ DOMAIN Others(e) = 1 .. Len(cache) - 1
    BY <2>3 DEF CacheType
  <2> DEFINE From(j) == IF j < i THEN j ELSE j + 1
  <2>5. \A j \in DOMAIN Others(e) :
          From(j) \in DOMAIN cache /\ From(j) # i /\ Others(e)[j] = cache[From(j)]
    BY <2>2, <2>3, <2>4
  <2>6. \A j, k \in DOMAIN Others(e) : j # k => From(j) # From(k)
    BY <2>2, <2>4
  <2>7. i \in DOMAIN cache
    BY <2>2, <2>4
  <2> HIDE DEF From
  <2>8. OneEach(Others(e)) /\ \A j \in DOMAIN Others(e) : Key(Others(e)[j]) # Key(e)
    BY <2>2, <2>5, <2>6, <2>7 DEF OneEach, CacheType
  <2> QED
    BY <2>3, <2>4, <2>5, <2>8
<1> QED
  BY <1>3, <1>4

(* What is put is cached and the oldest entry makes room: the cache stays  *)
(* within its size, and whatever is in it was in it or is new.             *)
LEMMA PutFacts ==
  ASSUME CacheType, NEW e \in Entries
  PROVE  /\ Put(e) \in Seq(Entries) /\ Len(Put(e)) <= MaxEntries /\ OneEach(Put(e))
         /\ \A i \in DOMAIN Put(e) : Put(e)[i] = e \/ \E j \in DOMAIN cache : Put(e)[i] = cache[j]
<1> DEFINE rest == Others(e)
           items == Append(rest, e)
<1>1. /\ rest \in Seq(Entries) /\ Len(rest) <= Len(cache) /\ OneEach(rest)
      /\ \A i \in DOMAIN rest :
           Key(rest[i]) # Key(e) /\ \E j \in DOMAIN cache : rest[i] = cache[j]
  BY OthersFacts
<1>2. MaxEntries \in Nat \ {0} /\ Len(cache) \in Nat /\ Len(rest) \in Nat
      /\ Len(cache) <= MaxEntries
  BY <1>1, ReportsAssumption DEF CacheType, ReportsAssumption
<1>3. Put(e) = IF Len(items) > MaxEntries THEN Tail(items) ELSE items
  BY DEF Put
<1> HIDE DEF rest
<1>4. /\ items \in Seq(Entries) /\ Len(items) = Len(rest) + 1
      /\ \A i \in 1 .. Len(rest) : items[i] = rest[i]
      /\ items[Len(rest) + 1] = e
  BY <1>1
<1>5. DOMAIN rest = 1 .. Len(rest) /\ DOMAIN items = 1 .. Len(rest) + 1
  BY <1>1, <1>4
<1> HIDE DEF items
<1>6. OneEach(items)
  <2> SUFFICES ASSUME NEW i \in DOMAIN items, NEW j \in DOMAIN items, i # j,
                      Key(items[i]) = Key(items[j])
               PROVE  FALSE
    BY DEF OneEach
  <2>1. CASE i \in DOMAIN rest /\ j \in DOMAIN rest
    BY <1>1, <1>4, <1>5, <2>1 DEF OneEach
  <2>2. CASE i \notin DOMAIN rest
    <3>1. items[i] = e /\ j \in DOMAIN rest
      BY <1>2, <1>4, <1>5, <2>2
    <3> QED
      BY <1>1, <1>4, <1>5, <3>1
  <2>3. CASE j \notin DOMAIN rest
    <3>1. items[j] = e /\ i \in DOMAIN rest
      BY <1>2, <1>4, <1>5, <2>3
    <3> QED
      BY <1>1, <1>4, <1>5, <3>1
  <2> QED
    BY <2>1, <2>2, <2>3
<1>7. \A i \in DOMAIN items : items[i] = e \/ \E j \in DOMAIN cache : items[i] = cache[j]
  <2> SUFFICES ASSUME NEW i \in DOMAIN items, i \notin DOMAIN rest PROVE items[i] = e
    BY <1>1, <1>4, <1>5
  <2> QED
    BY <1>2, <1>4, <1>5
<1>8. CASE ~(Len(items) > MaxEntries)
  BY <1>2, <1>3, <1>4, <1>6, <1>7, <1>8
<1>9. CASE Len(items) > MaxEntries
  <2>1. /\ Tail(items) \in Seq(Entries) /\ Len(Tail(items)) = Len(rest)
        /\ \A i \in 1 .. Len(rest) : Tail(items)[i] = items[i + 1]
    BY <1>2, <1>4
  <2>2. \A i \in DOMAIN Tail(items) :
          i \in Nat /\ i + 1 \in DOMAIN items /\ Tail(items)[i] = items[i + 1]
    BY <1>2, <1>5, <2>1
  <2>3. OneEach(Tail(items))
    <3> SUFFICES ASSUME NEW i \in DOMAIN Tail(items), NEW j \in DOMAIN Tail(items), i # j
                 PROVE  Key(Tail(items)[i]) # Key(Tail(items)[j])
      BY DEF OneEach
    <3>1. i + 1 # j + 1
      BY <2>2
    <3> QED
      BY <1>6, <2>2, <3>1 DEF OneEach
  <2> QED
    BY <1>1, <1>2, <1>3, <1>7, <1>9, <2>1, <2>2, <2>3
<1> QED
  BY <1>8, <1>9
-----------------------------------------------------------------------------
(* The flows of a range.  A request that is to be kept is of a settled     *)
(* day; a call asks for every date up to the one it began on and does not  *)
(* go on before the answers are there; what it was answered of a session   *)
(* that was over when it began is the final report.                        *)
CallPlaces == {"none", "flows", "ratios", "done", "failed"}
TaskPlaces == {"none", "waiting", "direct", "keeps", "done", "error"}
Says == {"none", "final", "empty"}

CallType == call \in [Ranges -> [at : CallPlaces, began : Nat]]
TaskType == task \in [Ranges -> [Calendar -> TaskPlaces]]
FlowType == flow \in [Ranges -> [Calendar -> Says]]
RatioType == ratio \in [Ranges -> [Calendar -> Says]]
ClockType == /\ exchange \in {"TWSE", "TPEX"} /\ clock \in 2 .. 2 * LastDate + 1
             /\ refused \in 0 .. MaxRefused

Over(c, d) == 2 * d + 1 <= call[c].began

SettledTasks == \A c \in Ranges, d \in Calendar : task[c][d] = "keeps" => 2 * d + 2 <= clock

TasksInv ==
  \A c \in Ranges, d \in Calendar :
    call[c].at \in {"flows", "ratios", "done"} /\ Over(c, d) =>
      /\ task[c][d] # "none"
      /\ d \in Sessions /\ task[c][d] = "done" => flow[c][d] = "final"

CallsInv ==
  \A c \in Ranges :
    /\ call[c].began <= clock
    /\ call[c].at \in {"ratios", "done"} => AllDone(c)
    /\ call[c].at = "done" /\ exchange = "TWSE" =>
         \A d \in RatioDates(c) : ratio[c][d] # "none"

RatiosInv ==
  \A c \in Ranges, d \in Calendar :
    /\ call[c].at \in {"none", "flows"} => ratio[c][d] = "none"
    /\ d \in Sessions /\ Over(c, d) /\ ratio[c][d] # "none" => ratio[c][d] = "final"

ReportsInv == /\ ReportsTypeOK /\ HonestCache /\ SettledTasks
              /\ TasksInv /\ CallsInv /\ RatiosInv

ReportTypes == CallType /\ TaskType /\ FlowType /\ RatioType /\ ClockType /\ CacheType

LEMMA ReportsTypesAre ==
  (ReportsTypeOK <=> ReportTypes) /\ (ReportsTypeOK' <=> ReportTypes')
  BY DEF ReportTypes, ReportsTypeOK, CallType, TaskType, FlowType, RatioType, ClockType, CacheType,
     CallPlaces, TaskPlaces, Says, OneEach, Key

LEMMA DatesAreNumbers ==
  /\ LastDate \in Nat \ {0} /\ Calendar \subseteq Nat /\ IsFiniteSet(Calendar)
  /\ Sessions \subseteq Calendar /\ MaxRefused \in Nat
  /\ \A d \in Calendar : d <= LastDate
<1>1. LastDate \in Nat \ {0} /\ Sessions \subseteq 1 .. LastDate /\ MaxRefused \in Nat
  BY ReportsAssumption DEF ReportsAssumption
<1>2. IsFiniteSet(1 .. LastDate)
  BY <1>1, FS_Interval
<1> QED
  BY <1>1, <1>2 DEF Calendar

(* What the exchange answers of a session that is over.                    *)
LEMMA ContentSays ==
  ASSUME NEW d \in Calendar
  PROVE  /\ Content(d) \in {"final", "empty"}
         /\ d \in Sessions /\ 2 * d + 1 <= clock => Content(d) = "final"
  BY DatesAreNumbers DEF Content

LEMMA SettledIsOver ==
  ASSUME ClockType, NEW d \in Calendar
  PROVE  IsSettled(d) => 2 * d + 2 <= clock
  BY DatesAreNumbers DEF ClockType, IsSettled, Today

LEMMA TodayIsOver ==
  ASSUME ClockType, NEW d \in Calendar, 2 * d + 1 <= clock
  PROVE  d <= Today
  BY DatesAreNumbers DEF ClockType, Today

LEMMA MinIsIn == ASSUME NEW S \in SUBSET Calendar, S # {} PROVE Min(S) \in S
<1>1. S \in SUBSET Nat /\ IsFiniteSet(S)
  BY DatesAreNumbers, FS_Subset
<1>2. \E m \in S : \A e \in S : m <= e
  BY <1>1, LeastExists
<1> QED
  BY <1>2 DEF Min

(* A cell of a table of ranges and dates.                                  *)
LEMMA CellMoves ==
  ASSUME NEW T, NEW f \in [Ranges -> [Calendar -> T]], NEW g,
         NEW c \in Ranges, NEW d \in Calendar, NEW x \in T, g = [f EXCEPT ![c][d] = x]
  PROVE  /\ g \in [Ranges -> [Calendar -> T]] /\ g[c][d] = x
         /\ \A o \in Ranges, e \in Calendar : <<o, e>> # <<c, d>> => g[o][e] = f[o][e]
  OBVIOUS

LEMMA CallMoves ==
  ASSUME CallType, NEW c \in Ranges, NEW l \in CallPlaces, CallIs(c, l)
  PROVE  /\ CallType' /\ call'[c].at = l /\ call'[c].began = call[c].began
         /\ \A o \in Ranges : o # c => call'[o] = call[o]
  BY DEF CallType, CallIs

(* The outcome of a step of a task.                                        *)
TaskMoves(c, d) ==
  /\ TaskType' /\ FlowType' /\ CallType'
  /\ task[c][d] \in {"waiting", "direct", "keeps"}
  /\ task'[c][d] \in {"direct", "keeps", "done", "error"}
  /\ \A o \in Ranges, e \in Calendar :
       <<o, e>> # <<c, d>> => task'[o][e] = task[o][e] /\ flow'[o][e] = flow[o][e]
  /\ task'[c][d] = "keeps" => 2 * d + 2 <= clock
  /\ task'[c][d] = "done" /\ d \in Sessions /\ 2 * d + 1 <= clock => flow'[c][d] = "final"
  /\ \A o \in Ranges :
       call'[o] = call[o] \/ (call'[o].at = "failed" /\ call'[o].began = call[o].began)
  /\ ClockType' /\ UNCHANGED <<exchange, clock, ratio>>

(* What may be put into the cache.                                         *)
Puts == UNCHANGED cache \/ \E e \in Entries : Final(e) /\ cache' = Put(e)

LEMMA TaskOutcome ==
  ASSUME ReportsTypeOK, HonestCache, SettledTasks, NEW c \in Ranges, NEW d \in Calendar,
         TaskStep(c, d)
  PROVE  TaskMoves(c, d) /\ Puts
<1>0. CallType /\ TaskType /\ FlowType /\ ClockType /\ CacheType
  BY ReportsTypesAre DEF ReportTypes
<1> USE DEF TaskType, FlowType
<1>1. CASE FromCache(c, d)
  <2>1. PICK e \in Cached("flow", d) :
          cache' = Put(e) /\ flow' = [flow EXCEPT ![c][d] = e.content]
    BY <1>1 DEF FromCache
  <2>2. e \in Entries /\ e.date = d /\ Final(e)
    BY <1>0, <2>1 DEF Cached, Range, CacheType, HonestCache
  <2>3. e.content \in Says /\ (d \in Sessions => e.content = "final")
    BY <2>2 DEF Entries, Says, Final
  <2>4. /\ task' = [task EXCEPT ![c][d] = "done"] /\ task[c][d] = "waiting"
        /\ UNCHANGED <<exchange, clock, call, ratio, refused>>
    BY <1>1 DEF FromCache, TaskIs
  <2>5. /\ TaskType' /\ task'[c][d] = "done"
        /\ \A o \in Ranges, g \in Calendar : <<o, g>> # <<c, d>> => task'[o][g] = task[o][g]
    BY <1>0, <2>4, CellMoves DEF TaskPlaces
  <2>6. /\ FlowType' /\ flow'[c][d] = e.content
        /\ \A o \in Ranges, g \in Calendar : <<o, g>> # <<c, d>> => flow'[o][g] = flow[o][g]
    BY <1>0, <2>1, <2>3, CellMoves
  <2> HIDE DEF TaskType, FlowType
  <2> QED
    BY <1>0, <2>1, <2>2, <2>3, <2>4, <2>5, <2>6
    DEF TaskMoves, Puts, CallType, ClockType
<1>2. CASE Request(c, d)
  <2> DEFINE to == IF IsSettled(d) THEN "keeps" ELSE "direct"
  <2>1. /\ task' = [task EXCEPT ![c][d] = to] /\ task[c][d] = "waiting"
        /\ UNCHANGED <<exchange, clock, cache, call, flow, ratio, refused>>
    BY <1>2 DEF Request, TaskIs
  <2>2. to \in {"keeps", "direct"} /\ (to = "keeps" => 2 * d + 2 <= clock)
    BY <1>0, SettledIsOver
  <2> HIDE DEF to
  <2>3. /\ TaskType' /\ task'[c][d] = to
        /\ \A o \in Ranges, g \in Calendar : <<o, g>> # <<c, d>> => task'[o][g] = task[o][g]
    BY <1>0, <2>1, <2>2, CellMoves DEF TaskPlaces
  <2> HIDE DEF TaskType
  <2> QED
    BY <1>0, <2>1, <2>2, <2>3 DEF TaskMoves, Puts, CallType, ClockType
<1>3. CASE Answer(c, d)
  <2>1. /\ task[c][d] \in {"direct", "keeps"}
        /\ task' = [task EXCEPT ![c][d] = "done"]
        /\ flow' = [flow EXCEPT ![c][d] = Content(d)]
        /\ UNCHANGED <<exchange, clock, call, ratio, refused>>
    BY <1>3 DEF Answer, TaskIs
  <2>2. /\ TaskType' /\ task'[c][d] = "done"
        /\ \A o \in Ranges, g \in Calendar : <<o, g>> # <<c, d>> => task'[o][g] = task[o][g]
    BY <1>0, <2>1, CellMoves DEF TaskPlaces
  <2>3. Content(d) \in Says
    BY ContentSays DEF Says
  <2>4. /\ FlowType' /\ flow'[c][d] = Content(d)
        /\ \A o \in Ranges, g \in Calendar : <<o, g>> # <<c, d>> => flow'[o][g] = flow[o][g]
    BY <1>0, <2>1, <2>3, CellMoves
  <2>5. Puts
    <3>1. CASE task[c][d] = "keeps"
      <4> DEFINE e == [kind |-> "flow", date |-> d, content |-> Content(d)]
      <4>1. e \in Entries /\ e.date = d /\ e.content = Content(d)
        BY ContentSays DEF Entries, Kinds
      <4>2. 2 * d + 1 <= clock
        BY <1>0, <3>1, DatesAreNumbers DEF SettledTasks, ClockType
      <4>3. Final(e)
        BY <4>1, <4>2, ContentSays DEF Final
      <4>4. cache' = Put(e)
        BY <1>3, <3>1 DEF Answer
      <4> HIDE DEF e
      <4> QED
        BY <4>1, <4>3, <4>4 DEF Puts
    <3>2. CASE task[c][d] # "keeps"
      BY <1>3, <3>2 DEF Answer, Puts
    <3> QED
      BY <3>1, <3>2
  <2> HIDE DEF TaskType, FlowType
  <2> QED
    BY <1>0, <2>1, <2>2, <2>4, <2>5, ContentSays DEF TaskMoves, CallType, ClockType
<1>4. CASE Refuse(c, d)
  <2>1. /\ task[c][d] \in {"direct", "keeps"} /\ refused < MaxRefused
        /\ refused' = refused + 1
        /\ task' = [task EXCEPT ![c][d] = "error"] /\ CallIs(c, "failed")
        /\ UNCHANGED <<exchange, clock, cache, flow, ratio>>
    BY <1>4 DEF Refuse, TaskIs
  <2>2. /\ TaskType' /\ task'[c][d] = "error"
        /\ \A o \in Ranges, g \in Calendar : <<o, g>> # <<c, d>> => task'[o][g] = task[o][g]
    BY <1>0, <2>1, CellMoves DEF TaskPlaces
  <2>3. /\ CallType' /\ call'[c].at = "failed" /\ call'[c].began = call[c].began
        /\ \A o \in Ranges : o # c => call'[o] = call[o]
    BY <1>0, <2>1, CallMoves DEF CallPlaces
  <2>4. ClockType'
    BY <1>0, <2>1, DatesAreNumbers DEF ClockType
  <2> HIDE DEF TaskType
  <2> QED
    BY <1>0, <2>1, <2>2, <2>3, <2>4 DEF TaskMoves, Puts
<1> QED
  BY <1>1, <1>2, <1>3, <1>4 DEF TaskStep

(* The outcome of fetching the ownership report of one date.               *)
RatioMoves(c, d) ==
  /\ call[c].at = "ratios" /\ d \in RatioDates(c) /\ ratio[c][d] = "none"
  /\ RatioType' /\ ratio'[c][d] # "none"
  /\ d \in Sessions /\ 2 * d + 1 <= clock => ratio'[c][d] = "final"
  /\ \A o \in Ranges, e \in Calendar : <<o, e>> # <<c, d>> => ratio'[o][e] = ratio[o][e]
  /\ UNCHANGED <<exchange, clock, call, task, flow, refused>>

LEMMA RatioOutcome ==
  ASSUME ReportsTypeOK, HonestCache, NEW c \in Ranges, FetchRatio(c)
  PROVE  Puts /\ \E d \in Calendar : RatioMoves(c, d)
<1>0. RatioType /\ ClockType /\ CacheType
  BY ReportsTypesAre DEF ReportTypes
<1> DEFINE left == {d \in RatioDates(c) : ratio[c][d] = "none"}
           d == Min(left)
           kept == Cached("ratio", d)
           e == IF IsSettled(d) /\ kept # {} THEN CHOOSE k \in kept : TRUE
                ELSE [kind |-> "ratio", date |-> d, content |-> Content(d)]
<1>1. /\ left # {} /\ ratio' = [ratio EXCEPT ![c][d] = e.content]
      /\ cache' = IF IsSettled(d) THEN Put(e) ELSE cache
      /\ call[c].at = "ratios" /\ UNCHANGED <<exchange, clock, call, task, flow, refused>>
  BY DEF FetchRatio
<1>2. d \in left /\ d \in Calendar
  <2>1. left \in SUBSET Calendar
    BY DEF RatioDates
  <2> HIDE DEF left
  <2> QED
    BY <1>1, <2>1, MinIsIn
<1>3. d \in RatioDates(c) /\ ratio[c][d] = "none"
  BY <1>2
<1> HIDE DEF d
<1>4. /\ e \in Entries /\ e.date = d
      /\ d \in Sessions /\ (2 * d + 1 <= clock \/ IsSettled(d)) => e.content = "final"
  <2>1. CASE IsSettled(d) /\ kept # {}
    <3>1. e \in kept
      BY <2>1
    <3>2. \A k \in kept : k \in Entries /\ k.date = d /\ Final(k)
      BY <1>0 DEF Cached, Range, CacheType, HonestCache
    <3> HIDE DEF e
    <3> QED
      BY <3>1, <3>2 DEF Final
  <2>2. CASE ~(IsSettled(d) /\ kept # {})
    <3>1. e = [kind |-> "ratio", date |-> d, content |-> Content(d)]
      BY <2>2
    <3>2. IsSettled(d) => 2 * d + 1 <= clock
      BY <1>0, <1>2, SettledIsOver, DatesAreNumbers DEF ClockType
    <3> HIDE DEF e
    <3> QED
      BY <1>2, <3>1, <3>2, ContentSays DEF Entries, Kinds
  <2> QED
    BY <2>1, <2>2
<1> HIDE DEF e
<1>5. Puts
  BY <1>1, <1>4 DEF Puts, Final
<1>6. e.content \in Says /\ e.content # "none"
  BY <1>4 DEF Entries, Says
<1>7. /\ RatioType' /\ ratio'[c][d] = e.content
      /\ \A o \in Ranges, g \in Calendar : <<o, g>> # <<c, d>> => ratio'[o][g] = ratio[o][g]
  BY <1>0, <1>1, <1>2, <1>6, CellMoves DEF RatioType
<1>8. RatioMoves(c, d)
  BY <1>1, <1>3, <1>4, <1>6, <1>7 DEF RatioMoves
<1> QED
  BY <1>2, <1>5, <1>8
LEMMA CacheNext ==
  ASSUME CacheType, HonestCache, Puts PROVE CacheType' /\ HonestCache'
<1>1. CASE UNCHANGED cache
  BY <1>1 DEF CacheType, HonestCache
<1>2. ASSUME NEW e \in Entries, Final(e), cache' = Put(e)
      PROVE  CacheType' /\ HonestCache'
  <2>1. /\ cache' \in Seq(Entries) /\ Len(cache') <= MaxEntries /\ OneEach(cache')
        /\ \A i \in DOMAIN cache' : cache'[i] = e \/ \E j \in DOMAIN cache : cache'[i] = cache[j]
    BY <1>2, PutFacts
  <2> QED
    BY <1>2, <2>1 DEF CacheType, HonestCache
<1> QED
  BY <1>1, <1>2 DEF Puts

(* The dates of a call's ownership reports are those of its flows.         *)
SameFlow(c) == \A e \in Calendar : flow'[c][e] = flow[c][e]
SameTask(c) == \A e \in Calendar : task'[c][e] = task[c][e]

LEMMA RatioDatesStay ==
  ASSUME NEW c \in Ranges, SameFlow(c) PROVE RatioDates(c)' = RatioDates(c)
<1>1. {d \in Calendar : flow'[c][d] = "final"} = {d \in Calendar : flow[c][d] = "final"}
  BY DEF SameFlow
<1> QED
  BY <1>1 DEF RatioDates

LEMMA AllDoneStays == ASSUME NEW c \in Ranges, SameTask(c) PROVE AllDone(c)' <=> AllDone(c)
  BY DEF AllDone, SameTask

LEMMA TaskStepKeeps ==
  ASSUME ReportsInv, NEW c \in Ranges, NEW d \in Calendar, TaskStep(c, d)
  PROVE  ReportsInv'
<1>1. TaskMoves(c, d) /\ Puts
  BY TaskOutcome DEF ReportsInv
<1>2. CallType /\ TaskType /\ FlowType /\ RatioType /\ ClockType /\ CacheType /\ HonestCache
  BY ReportsTypesAre DEF ReportsInv, ReportTypes
<1>3. CacheType' /\ HonestCache'
  BY <1>1, <1>2, CacheNext
<1>4. ReportsTypeOK'
  <2>1. RatioType'
    BY <1>1, <1>2 DEF TaskMoves, RatioType
  <2>2. CallType' /\ TaskType' /\ FlowType' /\ ClockType'
    BY <1>1 DEF TaskMoves
  <2> QED
    BY <1>3, <2>1, <2>2, ReportsTypesAre DEF ReportTypes
<1>5. SettledTasks'
  BY <1>1 DEF TaskMoves, ReportsInv, SettledTasks
<1>6. ~AllDone(c)
  BY <1>1 DEF TaskMoves, AllDone
<1>7. \A o \in Ranges :
        call'[o].began = call[o].began /\ (call'[o].at # "failed" => call'[o] = call[o])
  BY <1>1 DEF TaskMoves
<1>8. TasksInv'
  <2> SUFFICES ASSUME NEW o \in Ranges, NEW e \in Calendar,
                      call'[o].at \in {"flows", "ratios", "done"}, Over(o, e)'
               PROVE  /\ task'[o][e] # "none"
                      /\ e \in Sessions /\ task'[o][e] = "done" => flow'[o][e] = "final"
    BY DEF TasksInv
  <2>1. call'[o] = call[o] /\ call[o].at \in {"flows", "ratios", "done"} /\ Over(o, e)
    BY <1>7 DEF Over
  <2>2. CASE <<o, e>> = <<c, d>>
    <3>1. 2 * d + 1 <= clock
      <4>1. call[c].began <= clock /\ 2 * d + 1 <= call[c].began
        BY <2>1, <2>2 DEF ReportsInv, CallsInv, Over
      <4>2. call[c].began \in Nat /\ clock \in Nat /\ d \in Nat
        BY <1>2, DatesAreNumbers DEF CallType, ClockType
      <4> QED
        BY <4>1, <4>2
    <3> QED
      BY <1>1, <2>2, <3>1 DEF TaskMoves
  <2>3. CASE <<o, e>> # <<c, d>>
    BY <1>1, <2>1, <2>3 DEF TaskMoves, ReportsInv, TasksInv
  <2> QED
    BY <2>2, <2>3
<1>9. CallsInv'
  <2> SUFFICES ASSUME NEW o \in Ranges
               PROVE  /\ call'[o].began <= clock'
                      /\ call'[o].at \in {"ratios", "done"} => AllDone(o)'
                      /\ call'[o].at = "done" /\ exchange' = "TWSE" =>
                           \A e \in RatioDates(o)' : ratio'[o][e] # "none"
    BY DEF CallsInv
  <2>1. clock' = clock /\ exchange' = exchange /\ ratio' = ratio
    BY <1>1 DEF TaskMoves
  <2>2. CASE call'[o].at = "failed"
    BY <1>7, <2>1, <2>2 DEF ReportsInv, CallsInv
  <2>3. CASE call'[o].at # "failed" /\ o # c
    <3>1. SameFlow(o) /\ SameTask(o)
      BY <1>1, <2>3 DEF TaskMoves, SameFlow, SameTask
    <3>2. call'[o] = call[o]
      BY <1>7, <2>3
    <3> QED
      BY <2>1, <3>1, <3>2, RatioDatesStay, AllDoneStays DEF ReportsInv, CallsInv
  <2>4. CASE call'[o].at # "failed" /\ o = c
    <3>1. call'[o] = call[o] /\ call[o].at \notin {"ratios", "done"}
      BY <1>6, <1>7, <2>4 DEF ReportsInv, CallsInv
    <3> QED
      BY <2>1, <3>1 DEF ReportsInv, CallsInv
  <2> QED
    BY <2>2, <2>3, <2>4
<1>10. RatiosInv'
  <2>1. ratio' = ratio
    BY <1>1 DEF TaskMoves
  <2> QED
    BY <1>7, <2>1 DEF ReportsInv, RatiosInv, Over
<1> QED
  BY <1>3, <1>4, <1>5, <1>8, <1>9, <1>10 DEF ReportsInv
LEMMA FetchRatioKeeps ==
  ASSUME ReportsInv, NEW c \in Ranges, FetchRatio(c) PROVE ReportsInv'
<1>1. Puts /\ \E d \in Calendar : RatioMoves(c, d)
  BY RatioOutcome DEF ReportsInv
<1>2. PICK d \in Calendar : RatioMoves(c, d)
  BY <1>1
<1>3. CallType /\ TaskType /\ FlowType /\ RatioType /\ ClockType /\ CacheType /\ HonestCache
  BY ReportsTypesAre DEF ReportsInv, ReportTypes
<1>4. CacheType' /\ HonestCache'
  BY <1>1, <1>3, CacheNext
<1>5. UNCHANGED <<exchange, clock, call, task, flow, refused>> /\ RatioType'
  BY <1>2 DEF RatioMoves
<1>6. ReportsTypeOK'
  BY <1>3, <1>4, <1>5, ReportsTypesAre
  DEF ReportTypes, CallType, TaskType, FlowType, ClockType
<1>7. SettledTasks' /\ TasksInv'
  BY <1>5 DEF ReportsInv, SettledTasks, TasksInv, Over
<1>8. \A o \in Ranges, e \in Calendar :
        ratio[o][e] # "none" => ratio'[o][e] # "none" /\ <<o, e>> # <<c, d>>
  BY <1>2 DEF RatioMoves
<1>9. CallsInv'
  <2>1. \A o \in Ranges : SameFlow(o) /\ SameTask(o)
    BY <1>5 DEF SameFlow, SameTask
  <2>2. \A o \in Ranges : RatioDates(o) \subseteq Calendar
    BY DEF RatioDates
  <2> QED
    BY <1>5, <1>8, <2>1, <2>2, RatioDatesStay, AllDoneStays DEF ReportsInv, CallsInv
<1>10. RatiosInv'
  <2> SUFFICES ASSUME NEW o \in Ranges, NEW e \in Calendar
               PROVE  /\ call[o].at \in {"none", "flows"} => ratio'[o][e] = "none"
                      /\ e \in Sessions /\ Over(o, e) /\ ratio'[o][e] # "none" =>
                           ratio'[o][e] = "final"
    BY <1>5 DEF RatiosInv, Over
  <2>1. CASE <<o, e>> = <<c, d>>
    <3>1. Over(c, d) => 2 * d + 1 <= clock
      <4>1. call[c].began <= clock
        BY DEF ReportsInv, CallsInv
      <4>2. call[c].began \in Nat /\ clock \in Nat /\ d \in Nat
        BY <1>3, DatesAreNumbers DEF CallType, ClockType
      <4> QED
        BY <4>1, <4>2 DEF Over
    <3> QED
      BY <1>2, <2>1, <3>1 DEF RatioMoves
  <2>2. CASE <<o, e>> # <<c, d>>
    BY <1>2, <2>2 DEF RatioMoves, ReportsInv, RatiosInv
  <2> QED
    BY <2>1, <2>2
<1> QED
  BY <1>4, <1>6, <1>7, <1>9, <1>10 DEF ReportsInv

(* A call goes on or fails, and nothing else changes.                      *)
LEMMA PlaceKeeps ==
  ASSUME ReportsInv, NEW c \in Ranges, NEW l \in {"ratios", "done", "failed"}, CallIs(c, l),
         call[c].at \in {"flows", "ratios"}, ClockType',
         l \in {"ratios", "done"} => AllDone(c),
         l = "done" /\ exchange = "TWSE" => \A d \in RatioDates(c) : ratio[c][d] # "none",
         UNCHANGED <<exchange, clock, cache, task, flow, ratio>>
  PROVE  ReportsInv'
<1>1. CallType /\ TaskType /\ FlowType /\ RatioType /\ CacheType /\ HonestCache
  BY ReportsTypesAre DEF ReportsInv, ReportTypes
<1>2. /\ CallType' /\ call'[c].at = l /\ call'[c].began = call[c].began
      /\ \A o \in Ranges : o # c => call'[o] = call[o]
  BY <1>1, CallMoves DEF CallPlaces
<1>3. ReportsTypeOK'
  <2>1. TaskType' /\ FlowType' /\ RatioType' /\ CacheType'
    BY <1>1 DEF TaskType, FlowType, RatioType, CacheType
  <2> QED
    BY <1>2, <2>1, ReportsTypesAre DEF ReportTypes
<1>4. \A o \in Ranges : call'[o].began = call[o].began
  BY <1>2
<1>5. HonestCache' /\ SettledTasks'
  BY DEF ReportsInv, HonestCache, SettledTasks
<1>6. TasksInv'
  <2>1. \A o \in Ranges : call'[o].at \in {"flows", "ratios", "done"} =>
                          call[o].at \in {"flows", "ratios", "done"}
    BY <1>2
  <2> QED
    BY <1>4, <2>1 DEF ReportsInv, TasksInv, Over
<1>7. CallsInv'
  <2>1. \A o \in Ranges : SameFlow(o) /\ SameTask(o)
    BY DEF SameFlow, SameTask
  <2>2. \A o \in Ranges : RatioDates(o)' = RatioDates(o) /\ (AllDone(o)' <=> AllDone(o))
    BY <2>1, RatioDatesStay, AllDoneStays
  <2>3. ASSUME NEW o \in Ranges
        PROVE  /\ call'[o].began <= clock'
               /\ call'[o].at \in {"ratios", "done"} => AllDone(o)'
               /\ call'[o].at = "done" /\ exchange' = "TWSE" =>
                    \A e \in RatioDates(o)' : ratio'[o][e] # "none"
    <3>1. CASE o = c
      BY <1>2, <2>2, <3>1 DEF ReportsInv, CallsInv
    <3>2. CASE o # c
      BY <1>2, <2>2, <3>2 DEF ReportsInv, CallsInv
    <3> QED
      BY <3>1, <3>2
  <2> QED
    BY <2>3 DEF CallsInv
<1>8. RatiosInv'
  <2>1. \A o \in Ranges : call'[o].at \in {"none", "flows"} => call[o].at \in {"none", "flows"}
    BY <1>2
  <2> QED
    BY <1>4, <2>1 DEF ReportsInv, RatiosInv, Over
<1> QED
  BY <1>3, <1>5, <1>6, <1>7, <1>8 DEF ReportsInv

LEMMA CallGoesOnKeeps ==
  ASSUME ReportsInv, NEW c \in Ranges,
         GatherEnds(c) \/ TpexGatherEnds(c) \/ RatioRefused(c) \/ Return(c)
  PROVE  ReportsInv'
<1>1. ClockType /\ MaxRefused \in Nat
  BY ReportsTypesAre, DatesAreNumbers DEF ReportsInv, ReportTypes
<1>2. CASE GatherEnds(c)
  BY <1>1, <1>2, PlaceKeeps DEF GatherEnds, ClockType
<1>3. CASE TpexGatherEnds(c)
  BY <1>1, <1>3, PlaceKeeps DEF TpexGatherEnds, ClockType
<1>4. CASE RatioRefused(c)
  BY <1>1, <1>4, PlaceKeeps DEF RatioRefused, ClockType
<1>5. CASE Return(c)
  <2>1. AllDone(c)
    BY <1>5 DEF Return, ReportsInv, CallsInv
  <2> QED
    BY <1>1, <1>5, <2>1, PlaceKeeps DEF Return, ClockType
<1> QED
  BY <1>2, <1>3, <1>4, <1>5

LEMMA BeginKeeps == ASSUME ReportsInv, NEW c \in Ranges, Begin(c) PROVE ReportsInv'
<1>1. CallType /\ TaskType /\ FlowType /\ RatioType /\ ClockType /\ CacheType
  BY ReportsTypesAre DEF ReportsInv, ReportTypes
<1>2. /\ call[c].at = "none" /\ UNCHANGED <<exchange, clock, cache, flow, ratio, refused>>
      /\ call' = [call EXCEPT ![c] = [at |-> "flows", began |-> clock]]
      /\ task' = [task EXCEPT ![c] = [d \in Calendar |-> IF d <= Today THEN "waiting"
                                                         ELSE "none"]]
  BY DEF Begin
<1>3. clock \in Nat
  BY <1>1, DatesAreNumbers DEF ClockType
<1>4. /\ CallType' /\ call'[c].at = "flows" /\ call'[c].began = clock
      /\ \A o \in Ranges : o # c => call'[o] = call[o]
  BY <1>1, <1>2, <1>3 DEF CallType, CallPlaces
<1>5. /\ TaskType' /\ \A o \in Ranges : o # c => task'[o] = task[o]
      /\ \A d \in Calendar : task'[c][d] = IF d <= Today THEN "waiting" ELSE "none"
  BY <1>1, <1>2 DEF TaskType, TaskPlaces
<1>6. ReportsTypeOK'
  <2>1. FlowType' /\ RatioType' /\ ClockType' /\ CacheType'
    BY <1>1, <1>2 DEF FlowType, RatioType, ClockType, CacheType
  <2> QED
    BY <1>4, <1>5, <2>1, ReportsTypesAre DEF ReportTypes
<1>7. HonestCache'
  BY <1>2 DEF ReportsInv, HonestCache
<1>8. SettledTasks'
  BY <1>2, <1>5 DEF ReportsInv, SettledTasks
<1>9. TasksInv'
  <2> SUFFICES ASSUME NEW o \in Ranges, NEW d \in Calendar,
                      call'[o].at \in {"flows", "ratios", "done"}, Over(o, d)'
               PROVE  /\ task'[o][d] # "none"
                      /\ d \in Sessions /\ task'[o][d] = "done" => flow'[o][d] = "final"
    BY DEF TasksInv
  <2>1. CASE o = c
    <3>1. d <= Today
      BY <1>1, <1>4, <2>1, TodayIsOver DEF Over
    <3> QED
      BY <1>5, <2>1, <3>1
  <2>2. CASE o # c
    BY <1>2, <1>4, <1>5, <2>2 DEF ReportsInv, TasksInv, Over
  <2> QED
    BY <2>1, <2>2
<1>10. CallsInv'
  <2> SUFFICES ASSUME NEW o \in Ranges
               PROVE  /\ call'[o].began <= clock'
                      /\ call'[o].at \in {"ratios", "done"} => AllDone(o)'
                      /\ call'[o].at = "done" /\ exchange' = "TWSE" =>
                           \A e \in RatioDates(o)' : ratio'[o][e] # "none"
    BY DEF CallsInv
  <2>1. CASE o = c
    BY <1>2, <1>3, <1>4, <2>1
  <2>2. CASE o # c
    <3>1. SameFlow(o) /\ SameTask(o)
      BY <1>2, <1>5, <2>2 DEF SameFlow, SameTask
    <3> QED
      BY <1>2, <1>4, <2>2, <3>1, RatioDatesStay, AllDoneStays DEF ReportsInv, CallsInv
  <2> QED
    BY <2>1, <2>2
<1>11. RatiosInv'
  <2>1. \A d \in Calendar : ratio[c][d] = "none"
    BY <1>2 DEF ReportsInv, RatiosInv
  <2> QED
    BY <1>2, <1>4, <2>1 DEF ReportsInv, RatiosInv, Over
<1> QED
  BY <1>6, <1>7, <1>8, <1>9, <1>10, <1>11 DEF ReportsInv

LEMMA TimeKeeps ==
  ASSUME ReportsInv, Tick \/ UNCHANGED reportVars PROVE ReportsInv'
<1>1. CallType /\ TaskType /\ FlowType /\ RatioType /\ ClockType /\ CacheType
  BY ReportsTypesAre DEF ReportsInv, ReportTypes
<1>2. /\ UNCHANGED <<exchange, cache, call, task, flow, ratio, refused>>
      /\ clock' = clock \/ (clock < 2 * LastDate + 1 /\ clock' = clock + 1)
  BY DEF Tick, reportVars
<1>3. clock \in Nat /\ LastDate \in Nat /\ clock' \in Nat /\ clock <= clock'
  BY <1>1, <1>2, DatesAreNumbers DEF ClockType
<1>4. ReportsTypeOK'
  <2>1. ClockType'
    BY <1>1, <1>2, <1>3 DEF ClockType
  <2>2. CallType' /\ TaskType' /\ FlowType' /\ RatioType' /\ CacheType'
    BY <1>1, <1>2 DEF CallType, TaskType, FlowType, RatioType, CacheType
  <2> QED
    BY <2>1, <2>2, ReportsTypesAre DEF ReportTypes
<1>5. HonestCache' /\ TasksInv' /\ RatiosInv'
  BY <1>2 DEF ReportsInv, HonestCache, TasksInv, RatiosInv, Over
<1>6. SettledTasks'
  <2> SUFFICES ASSUME NEW c \in Ranges, NEW d \in Calendar, task[c][d] = "keeps"
               PROVE  2 * d + 2 <= clock'
    BY <1>2 DEF SettledTasks
  <2>1. 2 * d + 2 <= clock /\ d \in Nat
    BY DatesAreNumbers DEF ReportsInv, SettledTasks
  <2> QED
    BY <1>3, <2>1
<1>7. CallsInv'
  <2>1. \A c \in Ranges : call[c].began \in Nat /\ call[c].began <= clock
    BY <1>1 DEF CallType, ReportsInv, CallsInv
  <2>2. \A c \in Ranges : call'[c].began <= clock'
    BY <1>2, <1>3, <2>1
  <2>3. \A c \in Ranges : SameFlow(c) /\ SameTask(c)
    BY <1>2 DEF SameFlow, SameTask
  <2> QED
    BY <1>2, <2>2, <2>3, RatioDatesStay, AllDoneStays DEF ReportsInv, CallsInv
<1> QED
  BY <1>4, <1>5, <1>6, <1>7 DEF ReportsInv

LEMMA ReportsInvInit == ReportsInit => ReportsInv
<1> SUFFICES ASSUME ReportsInit PROVE ReportsInv
  OBVIOUS
<1>1. LastDate \in Nat \ {0} /\ MaxRefused \in Nat /\ MaxEntries \in Nat
  BY ReportsAssumption DEF ReportsAssumption
<1>2. ReportsTypeOK
  <2>1. CallType
    BY DEF ReportsInit, CallType, CallPlaces
  <2>2. TaskType /\ FlowType /\ RatioType
    BY DEF ReportsInit, TaskType, FlowType, RatioType, TaskPlaces, Says
  <2>3. ClockType
    BY <1>1 DEF ReportsInit, ClockType
  <2>4. CacheType
    BY <1>1 DEF ReportsInit, CacheType, OneEach
  <2> QED
    BY <2>1, <2>2, <2>3, <2>4, ReportsTypesAre DEF ReportTypes
<1>3. \A c \in Ranges, d \in Calendar :
        task[c][d] = "none" /\ ratio[c][d] = "none" /\ call[c].at = "none" /\ call[c].began = 0
  BY DEF ReportsInit
<1>4. HonestCache /\ SettledTasks
  BY <1>3 DEF ReportsInit, HonestCache, SettledTasks
<1>5. TasksInv /\ RatiosInv
  BY <1>3 DEF TasksInv, RatiosInv
<1>6. CallsInv
  BY DEF ReportsInit, CallsInv
<1> QED
  BY <1>2, <1>4, <1>5, <1>6 DEF ReportsInv

LEMMA ReportsInvNext == ReportsInv /\ [ReportsNext]_reportVars => ReportsInv'
  BY TaskStepKeeps, FetchRatioKeeps, CallGoesOnKeeps, BeginKeeps, TimeKeeps DEF ReportsNext

LEMMA ReportsInvariant == ReportsSpec => []ReportsInv
  BY ReportsInvInit, ReportsInvNext, PTL DEF ReportsSpec

(* The cache stays within its size with one report for each request, and   *)
(* every task and every answer is one of those that there are.             *)
THEOREM ReportsTypes == ReportsSpec => []ReportsTypeOK
<1>1. ReportsInv => ReportsTypeOK
  BY DEF ReportsInv
<1> QED
  BY <1>1, ReportsInvariant, PTL

(* However fetches, refusals, evictions and the publication of a day's     *)
(* report interleave: a range that was fetched has the final report of     *)
(* every session that was over when the fetch began, and so have the last  *)
(* of them their holding ratio.                                            *)
THEOREM FetchedFlowsAreFinal == ReportsSpec => []FlowsAreFinal
<1>1. ReportsInv => FlowsAreFinal
  <2> SUFFICES ASSUME ReportsInv, NEW c \in Ranges, NEW d \in Sessions, call[c].at = "done",
                      2 * d + 1 <= call[c].began
               PROVE  /\ flow[c][d] = "final"
                      /\ exchange = "TWSE" /\ d \in RatioDates(c) => ratio[c][d] = "final"
    BY DEF FlowsAreFinal
  <2>1. d \in Calendar /\ Over(c, d)
    BY DatesAreNumbers DEF Over
  <2>2. task[c][d] = "done"
    BY <2>1 DEF ReportsInv, TasksInv, CallsInv, AllDone
  <2> QED
    BY <2>1, <2>2 DEF ReportsInv, TasksInv, CallsInv, RatiosInv
<1> QED
  BY <1>1, ReportsInvariant, PTL

-----------------------------------------------------------------------------
(* The selection of records.                                               *)

(* A list of records: as the selection sees it, no two rank the same.      *)
Ranked(f) ==
  /\ DOMAIN f \subseteq Nat /\ IsFiniteSet(DOMAIN f)
  /\ \A i \in DOMAIN f : f[i].revision \in Nat

NoTies(R) ==
  \A r, s \in R :
    /\ r.date = s.date /\ r.revision = s.revision
    /\ SourcePriority(r.source) = SourcePriority(s.source)
    => r = s

LEMMA PriorityType == \A source : SourcePriority(source) \in {0, 1}
BY DEF SourcePriority

LEMMA SomeIsSelected ==
  ASSUME NEW f, Ranked(f), NEW d, \E i \in Candidates(f) : f[i].date = d
  PROVE  \E i \in Candidates(f) : f[i].date = d /\ IsSelected(f, i)
<1> DEFINE Prio(i) == SourcePriority(f[i].source)
           Dated == {i \in Candidates(f) : f[i].date = d}
           Top == {i \in Dated : \A j \in Dated : Prio(j) <= Prio(i)}
           revision == [i \in Top |-> f[i].revision]
           revisions == {f[i].revision : i \in Top}
<1>1. Dated \subseteq DOMAIN f /\ Dated # {}
  BY DEF Candidates
<1>2. \A i \in DOMAIN f : Prio(i) \in {0, 1} /\ f[i].revision \in Nat /\ i \in Nat
  BY PriorityType DEF Ranked
<1>3. Top # {} /\ Top \subseteq Dated
  <2>1. CASE \E i \in Dated : Prio(i) = 1
    <3>1. PICK i \in Dated : Prio(i) = 1
      BY <2>1
    <3>2. \A j \in Dated : Prio(j) \in {0, 1}
      BY <1>1, <1>2
    <3> HIDE DEF Prio, Dated
    <3>3. i \in Top
      BY <3>1, <3>2
    <3> QED
      BY <3>3
  <2>2. CASE \A i \in Dated : Prio(i) # 1
    <3>1. PICK i \in Dated : TRUE
      BY <1>1
    <3>2. \A j \in Dated : Prio(j) = 0
      BY <1>1, <1>2, <2>2
    <3> HIDE DEF Prio, Dated
    <3>3. i \in Top
      BY <3>1, <3>2
    <3> QED
      BY <3>3
  <2> QED
    BY <2>1, <2>2
<1>4. IsFiniteSet(Top)
  BY <1>1, <1>3, FS_Subset DEF Ranked
<1>5. revisions \in SUBSET Nat /\ revisions # {} /\ IsFiniteSet(revisions)
  <2>1. revisions \subseteq Nat /\ revisions # {}
    BY <1>1, <1>2, <1>3
  <2>2. revision \in Surjection(Top, revisions)
    BY DEF Surjection
  <2> HIDE DEF Top, revision, revisions
  <2> QED
    BY <1>4, <2>1, <2>2, FS_Surjection
<1> HIDE DEF Prio, Dated, revisions
<1>6. PICK m \in revisions : \A e \in revisions : e <= m
  BY <1>5, GreatestExists
<1> DEFINE Best == {i \in Top : f[i].revision = m}
<1>7. Best # {} /\ Best \in SUBSET Nat /\ IsFiniteSet(Best)
  <2>1. Best # {}
    BY <1>6 DEF revisions
  <2>2. Best \subseteq Top /\ Best \subseteq Nat
    BY <1>1, <1>2, <1>3
  <2> QED
    BY <1>4, <2>1, <2>2, FS_Subset
<1>8. PICK k \in Best : \A e \in Best : k <= e
  BY <1>7, LeastExists
<1>9. k \in Candidates(f) /\ f[k].date = d
  BY <1>3, <1>8 DEF Dated
<1>10. ASSUME NEW j \in Candidates(f), f[j].date = d
       PROVE  ~Outranks(f[j], f[k]) /\ (j < k => Outranks(f[k], f[j]))
  <2>1. j \in Dated /\ k \in Top /\ k \in Dated
    BY <1>3, <1>8, <1>10 DEF Dated
  <2>2. /\ Prio(j) \in {0, 1} /\ f[j].revision \in Nat /\ j \in Nat
        /\ Prio(k) \in {0, 1} /\ f[k].revision \in Nat /\ k \in Nat
    BY <1>1, <1>2, <2>1
  <2>3. Prio(j) <= Prio(k) /\ f[k].revision = m
    BY <1>8, <2>1
  <2>4. Prio(j) = Prio(k) => j \in Top
    BY <2>1, <2>2
  <2>5. j \in Top => f[j].revision <= m
    BY <1>6 DEF revisions
  <2>6. j < k => j \notin Best
    BY <1>8, <2>2
  <2>7. ~(Prio(j) > Prio(k)) /\ ~(Prio(j) = Prio(k) /\ f[j].revision > f[k].revision)
    BY <2>2, <2>3, <2>4, <2>5
  <2>8. j < k => Prio(k) > Prio(j) \/ (Prio(k) = Prio(j) /\ f[k].revision > f[j].revision)
    BY <2>2, <2>3, <2>4, <2>5, <2>6
  <2> QED
    BY <2>7, <2>8 DEF Outranks, Prio
<1> QED
  BY <1>9, <1>10 DEF IsSelected

(* What counts, as a set.                                                  *)
Counting(f) == {f[i] : i \in Candidates(f)}

LEMMA CountingIsOfTheSet ==
  ASSUME NEW f, NEW g, Range(f) = Range(g) PROVE Counting(f) = Counting(g)
<1>1. ProductionDates(f) = ProductionDates(g)
  BY DEF ProductionDates
<1>2. Counting(f) = {r \in Range(f) : ~Superseded(r, ProductionDates(f))}
  BY DEF Counting, Candidates, Range
<1>3. Counting(g) = {r \in Range(g) : ~Superseded(r, ProductionDates(g))}
  BY DEF Counting, Candidates, Range
<1> QED
  BY <1>1, <1>2, <1>3

(* The record of a date is one that none of that date outranks.            *)
LEMMA SelectedIsBest ==
  ASSUME NEW f, Ranked(f)
  PROVE  /\ DOMAIN SelectLatest(f) = {r.date : r \in Counting(f)}
         /\ SelectLatest(f) = [d \in DOMAIN SelectLatest(f) |-> SelectLatest(f)[d]]
         /\ \A d \in DOMAIN SelectLatest(f) :
              /\ SelectLatest(f)[d] \in Counting(f) /\ SelectLatest(f)[d].date = d
              /\ \A r \in Counting(f) : r.date = d => ~Outranks(r, SelectLatest(f)[d])
<1> DEFINE Pick(d) == CHOOSE i \in Candidates(f) : f[i].date = d /\ IsSelected(f, i)
           dates == {f[i].date : i \in Candidates(f)}
<1>1. SelectLatest(f) = [d \in dates |-> f[Pick(d)]]
  BY DEF SelectLatest
<1>2. dates = {r.date : r \in Counting(f)}
  BY DEF Counting
<1>3. ASSUME NEW d \in dates
      PROVE  Pick(d) \in Candidates(f) /\ f[Pick(d)].date = d /\ IsSelected(f, Pick(d))
  <2>1. \E i \in Candidates(f) : f[i].date = d /\ IsSelected(f, i)
    BY SomeIsSelected
  <2> QED
    BY <2>1
<1> HIDE DEF Pick, dates
<1>4. ASSUME NEW d \in dates
      PROVE  /\ f[Pick(d)] \in Counting(f) /\ f[Pick(d)].date = d
             /\ \A r \in Counting(f) : r.date = d => ~Outranks(r, f[Pick(d)])
  BY <1>3 DEF Counting, IsSelected
<1> QED
  BY <1>1, <1>2, <1>4

(* Which records count depends on what is in the list, not on its order.   *)
THEOREM SelectionIgnoresOrder ==
  ASSUME NEW f, NEW g, Ranked(f), Ranked(g), Range(f) = Range(g), NoTies(Range(f))
  PROVE  SelectLatest(f) = SelectLatest(g)
<1>1. Counting(f) = Counting(g)
  BY CountingIsOfTheSet
<1>2. Counting(f) \subseteq Range(f) /\ \A r \in Range(f) : r.revision \in Nat
  BY DEF Counting, Candidates, Range, Ranked
<1>3. DOMAIN SelectLatest(f) = DOMAIN SelectLatest(g)
  BY <1>1, SelectedIsBest
<1>4. ASSUME NEW d \in DOMAIN SelectLatest(f)
      PROVE  SelectLatest(f)[d] = SelectLatest(g)[d]
  <2> DEFINE r == SelectLatest(f)[d]
             s == SelectLatest(g)[d]
  <2>1. r \in Counting(f) /\ s \in Counting(f) /\ r.date = d /\ s.date = d
    BY <1>1, <1>3, SelectedIsBest
  <2>2. ~Outranks(r, s) /\ ~Outranks(s, r)
    BY <1>1, <1>3, <2>1, SelectedIsBest
  <2> HIDE DEF r, s
  <2>3. r.revision \in Nat /\ s.revision \in Nat
    BY <1>2, <2>1
  <2>4. SourcePriority(r.source) \in {0, 1} /\ SourcePriority(s.source) \in {0, 1}
    BY PriorityType
  <2>5. SourcePriority(r.source) = SourcePriority(s.source) /\ r.revision = s.revision
    BY <2>2, <2>3, <2>4 DEF Outranks
  <2>6. r = s
    BY <1>2, <2>1, <2>5 DEF NoTies
  <2> QED
    BY <2>6 DEF r, s
<1> QED
  BY <1>3, <1>4, SelectedIsBest

-----------------------------------------------------------------------------
(* The repositories.                                                       *)

(* A row says what its version and its dataset allow.                      *)
LEMMA WrittenRows ==
  ASSUME dataset \in Datasets, NEW r \in Written
  PROVE  /\ r.date \in Times /\ r.date \in Nat /\ r.revision \in Nat
         /\ r.value \in Values \cup {NoFigure}
         /\ r = [date |-> r.date, source |-> r.source, revision |-> r.revision,
                 part |-> r.part, value |-> r.value]
         /\ dataset \in {"bars", "flows", "observations"} =>
              r.source \in {Exchange, Demo} /\ r.part \in One
<1>1. PICK sources, revisions, parts, values :
        /\ r \in RowsOf(sources, revisions, parts, values)
        /\ revisions \subseteq Nat /\ values \subseteq Values \cup {NoFigure}
        /\ dataset \in {"bars", "flows", "observations"} =>
             sources = {Exchange, Demo} /\ parts = One
  <2>1. Revisions \subseteq Nat
    BY StoresAssumption
  <2>2. CASE dataset \in {"bars", "flows"}
    BY <2>1, <2>2 DEF Written
  <2>3. CASE dataset = "observations"
    BY <2>3 DEF Written
  <2>4. CASE dataset = "branches"
    BY <2>1, <2>4 DEF Written
  <2>5. CASE dataset = "news"
    BY <2>5 DEF Written
  <2>6. CASE dataset = "snapshots"
    BY <2>6 DEF Written
  <2> QED
    BY <2>2, <2>3, <2>4, <2>5, <2>6 DEF Datasets
<1>3. r.date \in Nat
  BY <1>1, StoresAssumption DEF RowsOf
<1>4. /\ r.date \in Times /\ r.revision \in revisions /\ r.source \in sources
      /\ r.part \in parts /\ r.value \in values
      /\ r = [date |-> r.date, source |-> r.source, revision |-> r.revision,
             part |-> r.part, value |-> r.value]
  BY <1>1 DEF RowsOf
<1> QED
  BY <1>1, <1>3, <1>4

VersionsDiffer(list) ==
  \A i, j \in DOMAIN list : SameVersion(list[i], list[j]) => i = j

(* A row of the table and one of memory of the same version are the same,  *)
(* unless the table ignored a write of it; only observations are ignored.  *)
Differing ==
  /\ {VersionOf(r) : r \in Range(memory)} = {VersionOf(r) : r \in table}
  /\ \A r \in table, s \in Range(memory) :
       SameVersion(r, s) => r = s \/ VersionOf(r) \in ignored

StoresInv ==
  /\ StoresTypeOK /\ VersionsDiffer(memory)
  /\ IsFiniteSet(table) /\ \A r, s \in table : SameVersion(r, s) => r = s
  /\ Differing /\ (dataset # "observations" => Range(memory) = table)

(* A list without one of its rows.                                         *)
LEMMA RemoveAtRows ==
  ASSUME NEW S, NEW s \in Seq(S), NEW i \in 1 .. Len(s), VersionsDiffer(s)
  PROVE  /\ RemoveAt(s, i) \in Seq(S) /\ VersionsDiffer(RemoveAt(s, i))
         /\ Range(RemoveAt(s, i)) = {s[j] : j \in DOMAIN s \ {i}}
<1> DEFINE t == RemoveAt(s, i)
           From(j) == IF j < i THEN j ELSE j + 1
<1>1. /\ t \in Seq(S) /\ Len(t) = Len(s) - 1
      /\ \A j \in 1 .. Len(s) - 1 : t[j] = IF j < i THEN s[j] ELSE s[j + 1]
  BY RemoveAtFacts
<1>2. DOMAIN t = 1 .. Len(s) - 1 /\ DOMAIN s = 1 .. Len(s) /\ Len(s) \in Nat /\ i \in Nat
  BY <1>1
<1>3. \A j \in DOMAIN t : From(j) \in DOMAIN s \ {i} /\ t[j] = s[From(j)]
  BY <1>1, <1>2
<1>4. \A j, k \in DOMAIN t : From(j) = From(k) => j = k
  BY <1>2
<1>5. ASSUME NEW k \in DOMAIN s \ {i} PROVE \E j \in DOMAIN t : From(j) = k
  <2>1. CASE k < i
    BY <1>2, <2>1
  <2>2. CASE k > i
    <3>1. k - 1 \in DOMAIN t /\ From(k - 1) = k
      BY <1>2, <2>2
    <3> QED
      BY <3>1
  <2> QED
    BY <1>2, <2>1, <2>2
<1> HIDE DEF t, From
<1>6. VersionsDiffer(t)
  BY <1>3, <1>4 DEF VersionsDiffer
<1>7. Range(t) = {s[j] : j \in DOMAIN s \ {i}}
  BY <1>3, <1>5 DEF Range
<1> QED
  BY <1>1, <1>6, <1>7 DEF t

LEMMA AppendRow ==
  ASSUME NEW S, NEW s \in Seq(S), NEW r \in S, VersionsDiffer(s),
         \A e \in Range(s) : ~SameVersion(r, e)
  PROVE  /\ Append(s, r) \in Seq(S) /\ VersionsDiffer(Append(s, r))
         /\ Range(Append(s, r)) = Range(s) \cup {r}
<1>1. /\ Append(s, r) \in Seq(S) /\ DOMAIN Append(s, r) = DOMAIN s \cup {Len(s) + 1}
      /\ Append(s, r)[Len(s) + 1] = r
      /\ \A i \in DOMAIN s : Append(s, r)[i] = s[i]
  OBVIOUS
<1>2. \A i \in DOMAIN s : ~SameVersion(r, s[i]) /\ ~SameVersion(s[i], r)
  BY DEF Range, SameVersion
<1> QED
  BY <1>1, <1>2 DEF VersionsDiffer, Range

LEMMA MemoryWriteFacts ==
  ASSUME NEW S, NEW list \in Seq(S), NEW r \in S, VersionsDiffer(list)
  PROVE  /\ MemoryWrite(list, r) \in Seq(S) /\ VersionsDiffer(MemoryWrite(list, r))
         /\ Range(MemoryWrite(list, r)) = {s \in Range(list) : ~SameVersion(r, s)} \cup {r}
<1> DEFINE at == {i \in DOMAIN list : SameVersion(r, list[i])}
           kept == IF at = {} THEN list ELSE RemoveAt(list, CHOOSE i \in at : TRUE)
<1>1. MemoryWrite(list, r) = Append(kept, r)
  BY DEF MemoryWrite
<1>2. /\ kept \in Seq(S) /\ VersionsDiffer(kept)
      /\ Range(kept) = {s \in Range(list) : ~SameVersion(r, s)}
  <2>1. CASE at = {}
    <3>1. \A s \in Range(list) : ~SameVersion(r, s)
      BY <2>1 DEF Range
    <3> QED
      BY <2>1, <3>1
  <2>2. CASE at # {}
    <3> DEFINE i == CHOOSE i \in at : TRUE
    <3>1. i \in at /\ kept = RemoveAt(list, i)
      BY <2>2
    <3>2. i \in 1 .. Len(list) /\ i \in DOMAIN list /\ SameVersion(r, list[i])
      BY <3>1
    <3> HIDE DEF i, kept
    <3>3. \A j \in DOMAIN list : SameVersion(r, list[j]) <=> j = i
      BY <3>2 DEF VersionsDiffer, SameVersion
    <3>4. /\ kept \in Seq(S) /\ VersionsDiffer(kept)
          /\ Range(kept) = {list[j] : j \in DOMAIN list \ {i}}
      BY <3>1, <3>2, RemoveAtRows
    <3>5. {list[j] : j \in DOMAIN list \ {i}} = {s \in Range(list) : ~SameVersion(r, s)}
      BY <3>3 DEF Range
    <3> QED
      BY <3>4, <3>5
  <2> QED
    BY <2>1, <2>2
<1> HIDE DEF kept
<1> QED
  BY <1>1, <1>2, AppendRow

(* After every write the table and the list hold the same versions, and    *)
(* the same rows where the table ignores nothing.                          *)
LEMMA UpsertKeeps ==
  ASSUME StoresInv, NEW r \in Written, Upsert(r) PROVE StoresInv'
<1> DEFINE others == {s \in table : ~SameVersion(r, s)}
           left == {s \in Range(memory) : ~SameVersion(r, s)}
<1>1. /\ dataset \in Datasets /\ table \subseteq Written /\ memory \in Seq(Written)
      /\ VersionsDiffer(memory) /\ IsFiniteSet(table)
      /\ \A s, t \in table : SameVersion(s, t) => s = t
      /\ ignored \subseteq {VersionOf(s) : s \in Written}
      /\ dataset # "observations" => Range(memory) = table
  BY DEF StoresInv, StoresTypeOK
<1>2. /\ table' = TableWrite(table, r) /\ memory' = MemoryWrite(memory, r)
      /\ dataset' = dataset
      /\ ignored' = ignored \cup {VersionOf(s) : s \in {s \in table' : SameVersion(r, s) /\ s # r}}
  BY DEF Upsert
<1>3. /\ memory' \in Seq(Written) /\ VersionsDiffer(memory')
      /\ Range(memory') = left \cup {r}
  BY <1>1, <1>2, MemoryWriteFacts
<1>4. \/ table' = others \cup {r}
      \/ dataset = "observations" /\ table' = table /\ \E s \in table : SameVersion(r, s)
  <2>1. CASE dataset = "observations" /\ \E s \in table : SameVersion(r, s)
    BY <1>2, <2>1 DEF TableWrite, KeepsStored
  <2>2. CASE dataset = "observations" /\ ~\E s \in table : SameVersion(r, s)
    BY <1>2, <2>2 DEF TableWrite, KeepsStored
  <2>3. CASE dataset # "observations"
    BY <1>2, <2>3 DEF TableWrite, Replaces
  <2> QED
    BY <2>1, <2>2, <2>3
<1>5. /\ \A s, t : SameVersion(s, t)' = SameVersion(s, t) /\ VersionOf(s)' = VersionOf(s)
      /\ Written' = Written /\ VersionsDiffer(memory)' = VersionsDiffer(memory')
  BY <1>2 DEF Written, VersionsDiffer, SameVersion, VersionOf
<1>6. /\ IsFiniteSet(table') /\ table' \subseteq Written
      /\ \A s, t \in table' : SameVersion(s, t) => s = t
  <2>1. CASE table' = others \cup {r}
    <3>1. IsFiniteSet(others) /\ IsFiniteSet(others \cup {r})
      BY <1>1, FS_Subset, FS_AddElement
    <3> QED
      BY <1>1, <2>1, <3>1 DEF SameVersion
  <2>2. CASE table' = table
    BY <1>1, <2>2
  <2> QED
    BY <1>4, <2>1, <2>2
<1>7. ignored' \subseteq {VersionOf(s) : s \in Written}
  BY <1>1, <1>2, <1>6
<1> DEFINE V(S) == {VersionOf(s) : s \in S}
<1>8. V(Range(memory')) = V(table')
  <2>1. V(Range(memory)) = V(table)
    BY DEF StoresInv, Differing
  <2>2. V(left) = V(others)
    BY <2>1 DEF SameVersion
  <2>3. \A S : V(S \cup {r}) = V(S) \cup {VersionOf(r)}
    OBVIOUS
  <2>4. CASE table' = table /\ \E s \in table : SameVersion(r, s)
    BY <1>3, <2>2, <2>4 DEF SameVersion
  <2> HIDE DEF V, left, others
  <2>5. CASE table' = others \cup {r}
    BY <1>3, <2>2, <2>3, <2>5
  <2> QED
    BY <1>4, <2>4, <2>5
<1>9. ASSUME NEW s \in table', NEW t \in Range(memory'), SameVersion(s, t)
      PROVE  s = t \/ VersionOf(s) \in ignored'
  <2>1. CASE SameVersion(r, s)
    <3>1. t = r
      BY <1>3, <1>9, <2>1 DEF SameVersion
    <3> QED
      BY <1>2, <2>1, <3>1
  <2>2. CASE ~SameVersion(r, s)
    <3>1. s \in table
      BY <1>4, <2>2 DEF SameVersion
    <3>2. t \in Range(memory)
      BY <1>3, <1>9, <2>2 DEF SameVersion
    <3> QED
      BY <1>2, <1>9, <3>1, <3>2 DEF StoresInv, Differing
  <2> QED
    BY <2>1, <2>2
<1>10. dataset # "observations" => Range(memory') = table'
  BY <1>1, <1>3, <1>4
<1>11. Range(memory)' = Range(memory')
  BY DEF Range
<1>12. StoresTypeOK'
  BY <1>1, <1>2, <1>3, <1>5, <1>6, <1>7 DEF StoresTypeOK
<1>13. Differing'
  BY <1>5, <1>8, <1>9, <1>11 DEF Differing
<1> HIDE DEF others, left
<1> QED
  BY <1>2, <1>3, <1>5, <1>6, <1>10, <1>11, <1>12, <1>13 DEF StoresInv

-----------------------------------------------------------------------------
(* The reads.                                                              *)

(* What is counted by position in the list is counted once in the table.   *)
LEMMA CountedOnce ==
  ASSUME StoresInv, NEW I \in SUBSET DOMAIN memory
  PROVE  /\ IsFiniteSet(I) /\ IsFiniteSet({memory[i] : i \in I})
         /\ Cardinality({memory[i] : i \in I}) = Cardinality(I)
<1> DEFINE R == {memory[i] : i \in I}
           f == [i \in I |-> memory[i]]
<1>1. IsFiniteSet(I)
  <2>1. Len(memory) \in Nat /\ DOMAIN memory = 1 .. Len(memory)
    BY DEF StoresInv, StoresTypeOK
  <2>2. IsFiniteSet(DOMAIN memory)
    BY <2>1, FS_Interval
  <2> QED
    BY <2>2, FS_Subset
<1>2. \A i, j \in I : memory[i] = memory[j] => i = j
  BY DEF StoresInv, VersionsDiffer, SameVersion
<1>3. f \in Bijection(I, R)
  BY <1>2 DEF Bijection, Injection, Surjection, IsInjective
<1> HIDE DEF f, R
<1>4. ExistsBijection(I, R)
  BY <1>3 DEF ExistsBijection
<1>5. IsFiniteSet(R) /\ Cardinality(R) = Cardinality(I)
  BY <1>1, <1>4, FS_Bijection
<1> QED
  BY <1>1, <1>5 DEF R

LEMMA TableIsFinite == ASSUME StoresInv, NEW R \in SUBSET table PROVE IsFiniteSet(R)
BY FS_Subset DEF StoresInv

LEMMA MemoryCounts ==
  ASSUME StoresInv, NEW I \in SUBSET DOMAIN memory, NEW R, R = {memory[i] : i \in I}
  PROVE  Cardinality(R) = Cardinality(I)
BY CountedOnce

(* A list that has each row of R once, by position.                        *)
ListsRows(list, R) ==
  /\ Range(list) = R /\ DOMAIN list \subseteq Nat /\ IsFiniteSet(DOMAIN list)
  /\ \A i, j \in DOMAIN list : list[i] = list[j] => i = j

LEMMA ListHasEachOnce ==
  ASSUME NEW S, IsFiniteSet(S), NEW list \in SetToSeqs(S)
  PROVE  ListsRows(list, S) /\ DOMAIN list = 1 .. Cardinality(S)
<1> DEFINE D == 1 .. Cardinality(S)
<1>1. Cardinality(S) \in Nat
  BY FS_CardinalityType
<1>2. list \in [D -> S] /\ \A i, j \in D : i # j => list[i] # list[j]
  BY DEF SetToSeqs
<1>3. D \subseteq Nat /\ IsFiniteSet(D) /\ Cardinality(D) = Cardinality(S)
  BY <1>1, FS_Interval
<1> HIDE DEF D
<1>4. list \in Injection(D, S)
  BY <1>2 DEF Injection, IsInjective
<1>5. list \in Surjection(D, S)
  BY <1>3, <1>4, FS_Injection
<1>6. Range(list) = S
  BY <1>2, <1>5 DEF Surjection, Range
<1>7. DOMAIN list = D
  BY <1>2
<1>8. ListsRows(list, S)
  BY <1>2, <1>3, <1>6 DEF ListsRows
<1> QED
  BY <1>7, <1>8 DEF D

TableRows(start, end)  == {r \in table : InRange(r, start, end)}
MemoryRows(start, end) == {r \in Range(memory) : InRange(r, start, end)}

LEMMA TableListsRows ==
  ASSUME StoresInv, NEW start, NEW end, NEW list \in TableLists(start, end)
  PROVE  /\ ListsRows(list, TableRows(start, end))
         /\ DOMAIN list = 1 .. Cardinality(TableRows(start, end))
<1>1. TableRows(start, end) \subseteq table
  BY DEF TableRows
<1>2. IsFiniteSet(TableRows(start, end))
  BY <1>1, TableIsFinite
<1>3. list \in SetToSeqs(TableRows(start, end))
  BY DEF TableLists, TableRows
<1> QED
  BY <1>2, <1>3, ListHasEachOnce

LEMMA MemoryListsRows ==
  ASSUME StoresInv, NEW start, NEW end, NEW list \in MemoryLists(start, end)
  PROVE  /\ ListsRows(list, MemoryRows(start, end))
         /\ DOMAIN list = 1 .. Cardinality(MemoryRows(start, end))
<1> DEFINE at == {i \in DOMAIN memory : InRange(memory[i], start, end)}
<1>1. PICK order \in SetToSeqs(at) : list = [k \in DOMAIN order |-> memory[order[k]]]
  BY DEF MemoryLists
<1>2. IsFiniteSet(at) /\ Cardinality({memory[i] : i \in at}) = Cardinality(at)
  BY CountedOnce
<1>3. {memory[i] : i \in at} = MemoryRows(start, end)
  BY DEF Range, MemoryRows
<1> HIDE DEF at
<1>4. ListsRows(order, at) /\ DOMAIN order = 1 .. Cardinality(at)
  BY <1>1, <1>2, ListHasEachOnce
<1>5. \A i, j \in DOMAIN memory : memory[i] = memory[j] => i = j
  BY DEF StoresInv, VersionsDiffer, SameVersion
<1>6. DOMAIN list = DOMAIN order /\ \A k \in DOMAIN order : order[k] \in at
                                       /\ list[k] = memory[order[k]]
  BY <1>1, <1>4 DEF ListsRows, Range
<1>7. \A i, j \in DOMAIN list : list[i] = list[j] => i = j
  BY <1>4, <1>5, <1>6 DEF at, ListsRows
<1>8. Range(list) = {memory[i] : i \in at}
  BY <1>4, <1>6 DEF Range, ListsRows
<1>9. ListsRows(list, MemoryRows(start, end))
  BY <1>3, <1>4, <1>6, <1>7, <1>8 DEF ListsRows
<1> QED
  BY <1>2, <1>3, <1>4, <1>6, <1>9

LEMMA BagIsOfTheSet ==
  ASSUME NEW R, NEW list, ListsRows(list, R) PROVE ToBag(list) = SetToBag(R)
<1>1. ASSUME NEW r \in R PROVE Cardinality({i \in DOMAIN list : list[i] = r}) = 1
  <2>1. PICK i \in DOMAIN list : list[i] = r
    BY <1>1 DEF ListsRows, Range
  <2>2. {j \in DOMAIN list : list[j] = r} = {i}
    BY <2>1 DEF ListsRows
  <2> QED
    BY <2>2, FS_Singleton
<1>2. Range(list) = R
  BY DEF ListsRows
<1> QED
  BY <1>1, <1>2 DEF ToBag, SetToBag

(* Of the rows of a symbol none ranks like another of its date.            *)
LEMMA RowsHaveNoTies ==
  ASSUME StoresInv, dataset \in {"bars", "flows"} PROVE NoTies(table)
<1> SUFFICES ASSUME NEW r \in table, NEW s \in table,
                    r.date = s.date, r.revision = s.revision,
                    SourcePriority(r.source) = SourcePriority(s.source)
             PROVE  r = s
  BY DEF NoTies
<1>1. r \in Written /\ s \in Written /\ dataset \in Datasets
  BY DEF StoresInv, StoresTypeOK
<1>2. r.source = s.source
  BY <1>1, WrittenRows, StoresAssumption DEF SourcePriority
<1>3. SameVersion(r, s)
  BY <1>2 DEF SameVersion, VersionOf, Version
<1> QED
  BY <1>3 DEF StoresInv

LEMMA RecordsAreTheSame ==
  ASSUME StoresInv, dataset \in {"bars", "flows"}, NEW R \in SUBSET table,
         NEW list, NEW answer, ListsRows(list, R), ListsRows(answer, R)
  PROVE  SameRecords(list, answer)
<1>1. NoTies(R)
  BY RowsHaveNoTies DEF NoTies
<1>2. \A r \in R : r.revision \in Nat
  BY WrittenRows DEF StoresInv, StoresTypeOK
<1>3. Ranked(list) /\ Ranked(answer)
  BY <1>2 DEF Ranked, ListsRows, Range
<1>4. SelectLatest(list) = SelectLatest(answer)
  BY <1>1, <1>3, SelectionIgnoresOrder DEF ListsRows
<1> QED
  BY <1>4 DEF SameRecords

(* Two lists of the same versions select the same versions: whether a      *)
(* record counts and which it outranks are matters of its version.         *)
LEMMA SameVersionsCount ==
  ASSUME NEW f, NEW g,
         {Version(r) : r \in Range(f)} = {Version(r) : r \in Range(g)},
         NEW r \in Counting(f)
  PROVE  \E s \in Counting(g) : Version(s) = Version(r)
<1>1. \A s, t : Version(s) = Version(t) <=>
                 s.date = t.date /\ s.source = t.source /\ s.revision = t.revision
  BY DEF Version
<1>2. ProductionDates(f) = ProductionDates(g)
  <2>1. \A s \in Range(f) : \E t \in Range(g) : Version(t) = Version(s)
    OBVIOUS
  <2>2. \A t \in Range(g) : \E s \in Range(f) : Version(s) = Version(t)
    OBVIOUS
  <2> QED
    BY <1>1, <2>1, <2>2 DEF ProductionDates
<1>3. r \in Range(f) /\ ~Superseded(r, ProductionDates(f))
  BY DEF Counting, Candidates, Range
<1>4. PICK s \in Range(g) : Version(s) = Version(r)
  BY <1>3
<1>5. ~Superseded(s, ProductionDates(g))
  BY <1>1, <1>2, <1>3, <1>4 DEF Superseded
<1>6. s \in Counting(g)
  BY <1>5 DEF Counting, Candidates, Range
<1> QED
  BY <1>4, <1>6

LEMMA VersionsSelected ==
  ASSUME NEW f, NEW g, Ranked(f), Ranked(g),
         {Version(r) : r \in Range(f)} = {Version(r) : r \in Range(g)}
  PROVE  /\ DOMAIN SelectLatest(f) = DOMAIN SelectLatest(g)
         /\ \A d \in DOMAIN SelectLatest(f) :
              LET r == SelectLatest(f)[d]
                  s == SelectLatest(g)[d]
              IN  /\ r \in Range(f) /\ s \in Range(g)
                  /\ r.date = s.date /\ r.revision = s.revision
                  /\ SourcePriority(r.source) = SourcePriority(s.source)
<1>1. \A s, t : Version(s) = Version(t) =>
                 s.date = t.date /\ s.source = t.source /\ s.revision = t.revision
  BY DEF Version
<1>2. \A r \in Counting(f) : \E s \in Counting(g) : Version(s) = Version(r)
  BY SameVersionsCount
<1>3. \A s \in Counting(g) : \E r \in Counting(f) : Version(r) = Version(s)
  BY SameVersionsCount
<1>4. /\ Counting(f) \subseteq Range(f) /\ \A r \in Range(f) : r.revision \in Nat
      /\ Counting(g) \subseteq Range(g) /\ \A r \in Range(g) : r.revision \in Nat
  BY DEF Counting, Candidates, Range, Ranked
<1>5. {r.date : r \in Counting(f)} = {s.date : s \in Counting(g)}
  BY <1>1, <1>2, <1>3
<1>6. DOMAIN SelectLatest(f) = DOMAIN SelectLatest(g)
  BY <1>5, SelectedIsBest
<1>7. ASSUME NEW d \in DOMAIN SelectLatest(f), NEW r, NEW s,
             r = SelectLatest(f)[d], s = SelectLatest(g)[d]
      PROVE  /\ r \in Range(f) /\ s \in Range(g)
             /\ r.date = s.date /\ r.revision = s.revision
             /\ SourcePriority(r.source) = SourcePriority(s.source)
  <2>1. /\ r \in Counting(f) /\ r.date = d
        /\ \A t \in Counting(f) : t.date = d => ~Outranks(t, r)
    BY <1>7, SelectedIsBest
  <2>2. /\ s \in Counting(g) /\ s.date = d
        /\ \A t \in Counting(g) : t.date = d => ~Outranks(t, s)
    BY <1>6, <1>7, SelectedIsBest
  <2>3. ~Outranks(s, r)
    <3>1. PICK t \in Counting(f) : Version(t) = Version(s)
      BY <1>3, <2>2
    <3>2. ~Outranks(t, r)
      BY <1>1, <2>1, <2>2, <3>1
    <3> QED
      BY <1>1, <3>1, <3>2 DEF Outranks
  <2>4. ~Outranks(r, s)
    <3>1. PICK t \in Counting(g) : Version(t) = Version(r)
      BY <1>2, <2>1
    <3>2. ~Outranks(t, s)
      BY <1>1, <2>1, <2>2, <3>1
    <3> QED
      BY <1>1, <3>1, <3>2 DEF Outranks
  <2>5. r.revision \in Nat /\ s.revision \in Nat
    BY <1>4, <2>1, <2>2
  <2>6. SourcePriority(r.source) \in {0, 1} /\ SourcePriority(s.source) \in {0, 1}
    BY PriorityType
  <2>7. SourcePriority(r.source) = SourcePriority(s.source) /\ r.revision = s.revision
    BY <2>3, <2>4, <2>5, <2>6 DEF Outranks
  <2> QED
    BY <1>4, <2>1, <2>2, <2>7
<1> QED
  BY <1>6, <1>7

LEMMA ObservationsAreTheSame ==
  ASSUME StoresInv, dataset = "observations", NEW start, NEW end,
         NEW list, NEW answer,
         ListsRows(list, TableRows(start, end)), ListsRows(answer, MemoryRows(start, end))
  PROVE  SameUnlessIgnored(list, answer)
<1>1. \A r : VersionOf(r) = Version(r)
  BY DEF VersionOf
<1>2. \A r \in table \cup Range(memory) : r \in Written
  BY DEF StoresInv, StoresTypeOK, Range
<1>3. \A r \in table \cup Range(memory) :
        r.date \in Nat /\ r.revision \in Nat /\ r.source \in {Exchange, Demo}
  BY <1>2, WrittenRows DEF Datasets
<1>4. Ranked(list) /\ Ranked(answer)
  BY <1>3 DEF Ranked, ListsRows, Range, TableRows, MemoryRows
<1>5. {Version(r) : r \in TableRows(start, end)} = {Version(r) : r \in MemoryRows(start, end)}
  <2>1. {Version(r) : r \in Range(memory)} = {Version(r) : r \in table}
    BY <1>1 DEF StoresInv, Differing
  <2>2. \A r, s : Version(r) = Version(s) => (InRange(r, start, end) <=> InRange(s, start, end))
    BY DEF Version, InRange
  <2> QED
    BY <2>1, <2>2 DEF TableRows, MemoryRows
<1>6. {Version(r) : r \in Range(list)} = {Version(r) : r \in Range(answer)}
  BY <1>5 DEF ListsRows
<1> DEFINE f == SelectLatest(list)
           g == SelectLatest(answer)
<1>7. DOMAIN f = DOMAIN g
  BY <1>4, <1>6, VersionsSelected
<1>8. ASSUME NEW d \in DOMAIN f
      PROVE  f[d] = g[d] \/ (SameVersion(f[d], g[d]) /\ VersionOf(f[d]) \in ignored)
  <2>1. /\ f[d] \in Range(list) /\ g[d] \in Range(answer)
        /\ f[d].date = g[d].date /\ f[d].revision = g[d].revision
        /\ SourcePriority(f[d].source) = SourcePriority(g[d].source)
    BY <1>4, <1>6, VersionsSelected
  <2> HIDE DEF f, g
  <2>2. f[d] \in table /\ g[d] \in Range(memory)
    BY <2>1 DEF ListsRows, TableRows, MemoryRows
  <2>3. f[d].source = g[d].source
    BY <1>3, <2>1, <2>2, StoresAssumption DEF SourcePriority
  <2>4. SameVersion(f[d], g[d])
    BY <1>1, <2>1, <2>3 DEF SameVersion, Version
  <2> QED
    BY <2>2, <2>4 DEF StoresInv, Differing
<1> HIDE DEF f, g
<1> QED
  BY <1>7, <1>8 DEF SameUnlessIgnored, f, g

(* News is listed newest first by both, so a headline shown from one list  *)
(* and not from the other is as old as the one shown in its place.         *)
LEMMA NewestFirst ==
  ASSUME StoresInv, dataset = "news", NEW start, NEW end
  PROVE  /\ \A list \in TableLists(start, end) : \A i, j \in DOMAIN list :
              list[i].date > list[j].date => i < j
         /\ \A list \in MemoryLists(start, end) : \A i, j \in DOMAIN list :
              list[i].date > list[j].date => i < j
<1>1. \A r, s : r.date > s.date => Precedes(r, s) /\ PrecedesInTable(r, s)
  BY DEF Precedes, PrecedesInTable
<1>2. ASSUME NEW list \in TableLists(start, end), NEW i \in DOMAIN list, NEW j \in DOMAIN list,
             list[i].date > list[j].date
      PROVE  i < j
  BY <1>1, <1>2 DEF TableLists
<1>3. ASSUME NEW list \in MemoryLists(start, end), NEW i \in DOMAIN list, NEW j \in DOMAIN list,
             list[i].date > list[j].date
      PROVE  i < j
  <2> DEFINE at == {k \in DOMAIN memory : InRange(memory[k], start, end)}
             Comes(k, l) == \/ Precedes(memory[k], memory[l])
                            \/ ~Precedes(memory[l], memory[k]) /\ k < l
  <2>1. PICK order \in SetToSeqs(at) :
          /\ \A k, l \in DOMAIN order : Comes(order[k], order[l]) => k < l
          /\ list = [k \in DOMAIN order |-> memory[order[k]]]
    BY DEF MemoryLists
  <2>2. Comes(order[i], order[j]) /\ i \in DOMAIN order /\ j \in DOMAIN order
    BY <1>1, <1>3, <2>1
  <2> HIDE DEF Comes, at
  <2> QED
    BY <2>1, <2>2
<1> QED
  BY <1>2, <1>3

LEMMA HeadlinesAreTheSame ==
  ASSUME NEW R, NEW list, NEW answer, \A r \in R : r.date \in Nat,
         ListsRows(list, R), ListsRows(answer, R), DOMAIN list = DOMAIN answer,
         \A i, j \in DOMAIN list : list[i].date > list[j].date => i < j,
         \A i, j \in DOMAIN answer : answer[i].date > answer[j].date => i < j
  PROVE  SameHeadlines(list, answer)
<1> DEFINE top == {i \in DOMAIN list : i <= Headlines}
<1>1. /\ Range(list) = R /\ Range(answer) = R /\ IsFiniteSet(top)
      /\ DOMAIN list \subseteq Nat /\ Headlines \in Nat
  BY FS_Subset, StoresAssumption DEF ListsRows
<1>2. ASSUME NEW l, ListsRows(l, R), DOMAIN l = DOMAIN list
      PROVE  Cardinality(Shown(l)) = Cardinality(top)
  <2>1. Shown(l) = {l[i] : i \in top}
    BY <1>2 DEF Shown
  <2>2. [i \in top |-> l[i]] \in Bijection(top, {l[i] : i \in top})
    BY <1>2 DEF ListsRows, Bijection, Injection, Surjection, IsInjective
  <2> HIDE DEF top
  <2>3. ExistsBijection(top, {l[i] : i \in top})
    BY <2>2 DEF ExistsBijection
  <2> QED
    BY <1>1, <2>1, <2>3, FS_Bijection
<1>3. Cardinality(Shown(list)) = Cardinality(Shown(answer))
  BY <1>2
<1>4. ASSUME NEW r \in Shown(list) \ Shown(answer), NEW s \in Shown(answer) \ Shown(list)
      PROVE  r.date = s.date
  <2>1. PICK i \in DOMAIN list : r = list[i] /\ i <= Headlines
    BY DEF Shown
  <2>2. PICK j \in DOMAIN answer : s = answer[j] /\ j <= Headlines
    BY DEF Shown
  <2>3. r \in R /\ s \in R
    BY <1>1, <2>1, <2>2 DEF Range
  <2>4. PICK k \in DOMAIN list : s = list[k]
    BY <1>1, <2>3 DEF Range
  <2>5. PICK l \in DOMAIN answer : r = answer[l]
    BY <1>1, <2>3 DEF Range
  <2>6. ~(k <= Headlines) /\ ~(l <= Headlines)
    BY <2>4, <2>5 DEF Shown
  <2>7. i \in Nat /\ j \in Nat /\ k \in Nat /\ l \in Nat
    BY <1>1
  <2>8. i < k /\ j < l
    BY <1>1, <2>1, <2>2, <2>6, <2>7
  <2>9. /\ list[k].date > list[i].date => k < i
        /\ answer[l].date > answer[j].date => l < j
    OBVIOUS
  <2>10. r.date \in Nat /\ s.date \in Nat
    BY <2>3
  <2>11. ~(s.date > r.date) /\ ~(r.date > s.date)
    BY <2>1, <2>2, <2>4, <2>5, <2>7, <2>8, <2>9
  <2> QED
    BY <2>10, <2>11
<1> HIDE DEF top
<1> QED
  BY <1>3, <1>4 DEF SameHeadlines

LEMMA ListsAreTheSame == ASSUME StoresInv PROVE SameLists
<1> SUFFICES ASSUME NEW start \in Times, NEW end \in Times,
                    NEW list \in TableLists(start, end), NEW answer \in MemoryLists(start, end)
             PROVE  SameTaken(list, answer)
  BY DEF SameLists
<1> DEFINE R == TableRows(start, end)
<1>1. /\ ListsRows(list, R) /\ ListsRows(answer, MemoryRows(start, end))
      /\ DOMAIN list = 1 .. Cardinality(R)
      /\ DOMAIN answer = 1 .. Cardinality(MemoryRows(start, end))
  BY TableListsRows, MemoryListsRows
<1>2. dataset # "observations" => MemoryRows(start, end) = R
  BY DEF StoresInv, TableRows, MemoryRows
<1>3. R \subseteq table
  BY DEF TableRows
<1>4. CASE dataset = "observations"
  BY <1>1, <1>4, ObservationsAreTheSame DEF SameTaken
<1> HIDE DEF R
<1>5. CASE dataset \in {"bars", "flows"}
  BY <1>1, <1>2, <1>3, <1>5, RecordsAreTheSame DEF SameTaken
<1>6. dataset # "observations" => ToBag(list) = ToBag(answer)
  BY <1>1, <1>2, BagIsOfTheSet
<1>7. CASE dataset = "news"
  <2>1. \A r \in R : r.date \in Nat
    BY <1>3, WrittenRows DEF StoresInv, StoresTypeOK
  <2>2. SameHeadlines(list, answer)
    BY <1>1, <1>2, <1>7, <2>1, NewestFirst, HeadlinesAreTheSame
  <2> QED
    BY <1>6, <1>7, <2>2 DEF SameTaken
<1>8. CASE dataset \in {"branches", "snapshots"}
  BY <1>6, <1>8 DEF SameTaken
<1> QED
  BY <1>4, <1>5, <1>7, <1>8 DEF StoresInv, StoresTypeOK, Datasets

(* A series has the same dates and as many rows in both, one of a version. *)
LEMMA StatusIsTheSame == ASSUME StoresInv PROVE SameStatus
<1> SUFFICES ASSUME NEW source \in {Exchange, Demo}
             PROVE  TableStatus(source) = MemoryStatus(source)
  BY DEF SameStatus
<1> DEFINE rows == {r \in table : r.source = source}
           at == {i \in DOMAIN memory : memory[i].source = source}
           left == {r \in Range(memory) : r.source = source}
<1>1. left = {memory[i] : i \in at}
  BY DEF Range
<1>2. Cardinality(left) = Cardinality(at) /\ IsFiniteSet(left)
  BY <1>1, CountedOnce
<1>3. Cardinality(rows) = Cardinality(left) /\ {r.date : r \in rows} = {r.date : r \in left}
  <2>1. CASE dataset # "observations"
    BY <2>1 DEF StoresInv
  <2>2. CASE dataset = "observations"
    <3>1. /\ {Version(r) : r \in Range(memory)} = {Version(r) : r \in table}
          /\ \A r, s \in table : Version(r) = Version(s) => r = s
      BY <2>2 DEF StoresInv, Differing, SameVersion, VersionOf
    <3>2. \A r, s \in Range(memory) : Version(r) = Version(s) => r = s
      BY <2>2 DEF StoresInv, VersionsDiffer, SameVersion, VersionOf, Range
    <3>3. \A r, s : Version(r) = Version(s) => r.source = s.source /\ r.date = s.date
      BY DEF Version
    <3>4. {Version(r) : r \in rows} = {Version(r) : r \in left}
      BY <3>1, <3>3
    <3>5. {r.date : r \in rows} = {r.date : r \in left}
      BY <3>3, <3>4
    <3> DEFINE V == {Version(r) : r \in rows}
    <3>6. [r \in rows |-> Version(r)] \in Bijection(rows, V)
      BY <3>1 DEF Bijection, Injection, Surjection, IsInjective
    <3>7. [r \in left |-> Version(r)] \in Bijection(left, V)
      BY <3>2, <3>4 DEF Bijection, Injection, Surjection, IsInjective
    <3>8. IsFiniteSet(rows)
      BY TableIsFinite
    <3> HIDE DEF V, rows, left
    <3>9. Cardinality(rows) = Cardinality(V) /\ Cardinality(left) = Cardinality(V)
      BY <1>2, <3>6, <3>7, <3>8, FS_Bijection DEF ExistsBijection
    <3> QED
      BY <3>5, <3>9
  <2> QED
    BY <2>1, <2>2
<1>4. SeriesOf(table, source) = SeriesOf(Range(memory), source)
  BY <1>3 DEF SeriesOf
<1> QED
  BY <1>2, <1>3, <1>4 DEF TableStatus, MemoryStatus

(* A market has reported when as many sources have as are there: the same  *)
(* sources, as each source that reported is there.                         *)
LEMMA SessionsAreTheSame ==
  ASSUME StoresInv, dataset = "snapshots" PROVE TableSessions = MemorySessions
<1> DEFINE Of(d) == {r \in table : r.date = d}
           All(d) == {r.source : r \in Of(d)}
           Reported(d) == {r.source : r \in {s \in Of(d) : s.value # NoFigure}}
<1>1. ASSUME NEW d
      PROVE  Cardinality(Reported(d)) = Cardinality(All(d)) <=> All(d) = Reported(d)
  <2>1. IsFiniteSet(Of(d))
    BY TableIsFinite
  <2>2. [r \in Of(d) |-> r.source] \in Surjection(Of(d), All(d))
    BY DEF Surjection
  <2>3. Reported(d) \in SUBSET All(d)
    OBVIOUS
  <2> HIDE DEF Of, All, Reported
  <2>4. IsFiniteSet(All(d))
    BY <2>1, <2>2, FS_Surjection
  <2> QED
    BY <2>3, <2>4, FS_Subset
<1>2. Range(memory) = table
  BY DEF StoresInv
<1>3. TableSessions = {d \in {r.date : r \in table} :
                         Cardinality(Reported(d)) = Cardinality(All(d))}
  BY DEF TableSessions
<1>4. MemorySessions = {d \in {r.date : r \in table} : All(d) = Reported(d)}
  BY <1>2 DEF MemorySessions
<1> HIDE DEF All, Reported
<1> QED
  BY <1>1, <1>3, <1>4

LEMMA TotalsAreTheSame ==
  ASSUME StoresInv, dataset = "snapshots", NEW d PROVE TableTotal(d) = MemoryTotal(d)
<1> DEFINE OrZero(r) == IF r.value = NoFigure THEN 0 ELSE r.value
           R == {r \in table : r.date = d /\ r.value \notin {NoFigure, 0}}
           at == {i \in DOMAIN memory : memory[i].date = d /\ OrZero(memory[i]) # 0}
           list == Restrict(memory, at)
<1>1. \A r : OrZero(r) # 0 <=> r.value \notin {NoFigure, 0}
  OBVIOUS
<1>2. MemoryTotal(d) = ToBag(list) /\ TableTotal(d) = SetToBag(R)
  BY DEF MemoryTotal, TableTotal
<1>3. {memory[i] : i \in at} = R
  BY <1>1 DEF StoresInv, Range
<1>4. at \subseteq DOMAIN memory /\ DOMAIN memory \subseteq Nat
  BY DEF StoresInv, StoresTypeOK
<1> HIDE DEF at, R
<1>5. DOMAIN list = at /\ \A i \in at : list[i] = memory[i]
  BY DEF Restrict
<1> HIDE DEF list
<1>6. IsFiniteSet(at) /\ \A i, j \in at : memory[i] = memory[j] => i = j
  BY <1>4, CountedOnce DEF StoresInv, VersionsDiffer, SameVersion
<1>7. ListsRows(list, R)
  BY <1>3, <1>4, <1>5, <1>6 DEF ListsRows, Range
<1> QED
  BY <1>2, <1>7, BagIsOfTheSet

LEMMA CoverageIsTheSame ==
  ASSUME StoresInv, dataset = "snapshots", NEW market PROVE TableCoverage(market) = MemoryCoverage(market)
<1> DEFINE rows == {r \in table : r.source = market}
           latest == {r \in rows : \A s \in rows : s.date <= r.date}
           at == {i \in DOMAIN memory : memory[i].source = market}
           newest == {i \in at : \A j \in at : memory[j].date <= memory[i].date}
<1>1. rows = {memory[i] : i \in at}
  BY DEF StoresInv, Range
<1>2. latest = {memory[i] : i \in newest}
  BY <1>1
<1>3. Cardinality(latest) = Cardinality(newest)
  BY <1>2, MemoryCounts
<1>4. {r \in latest : r.value # NoFigure}
        = {memory[i] : i \in {i \in newest : memory[i].value # NoFigure}}
  BY <1>2
<1>5. Cardinality({r \in latest : r.value # NoFigure})
        = Cardinality({i \in newest : memory[i].value # NoFigure})
  BY <1>4, MemoryCounts
<1> QED
  BY <1>3, <1>5 DEF TableCoverage, MemoryCoverage

LEMMA StoresInvHolds == StoresSpec => []StoresInv
<1>1. StoresInit => StoresInv
  BY FS_EmptySet DEF StoresInit, StoresInv, StoresTypeOK, VersionsDiffer, Differing, Range
<1>2. StoresInv /\ [StoresNext]_storeVars => StoresInv'
  <2> SUFFICES ASSUME StoresInv, [StoresNext]_storeVars PROVE StoresInv'
    OBVIOUS
  <2>1. CASE StoresNext
    BY <2>1, UpsertKeeps DEF StoresNext, UpsertBars, UpsertFlows, UpsertBranches,
                             UpsertObservations, UpsertNews, UpsertSnapshots
  <2>2. CASE UNCHANGED storeVars
    <3>1. /\ dataset' = dataset /\ table' = table /\ memory' = memory /\ ignored' = ignored
      BY <2>2 DEF storeVars
    <3>2. /\ Written' = Written /\ \A r : VersionOf(r)' = VersionOf(r)
          /\ \A r, s : SameVersion(r, s)' = SameVersion(r, s)
      BY <3>1 DEF Written, SameVersion, VersionOf
    <3>3. /\ StoresTypeOK' /\ VersionsDiffer(memory)' /\ Differing'
      BY <3>1, <3>2 DEF StoresInv, StoresTypeOK, VersionsDiffer, Differing, Range
    <3> QED
      BY <3>1, <3>2, <3>3 DEF StoresInv, Range
  <2> QED
    BY <2>1, <2>2
<1> QED
  BY <1>1, <1>2, PTL DEF StoresSpec

(* Every reachable state of the two repositories is well typed.            *)
THEOREM StoresTypes == StoresSpec => []StoresTypeOK
<1>1. StoresInv => StoresTypeOK
  BY DEF StoresInv
<1> QED
  BY <1>1, StoresInvHolds, PTL

(* For any rows, of any number, written in any order and as often as one   *)
(* likes: statuses, sessions, totals and coverage are the same, lists give *)
(* an analysis the same records and sums, but for observations of which    *)
(* the table ignored a write, and the same headlines, but for those of the *)
(* moment at which their list is cut.                                      *)
THEOREM RepositoriesAnswerAlike == StoresSpec => []SameAnswers
<1>1. StoresInv => SameAnswers
  BY ListsAreTheSame, StatusIsTheSame, SessionsAreTheSame, TotalsAreTheSame, CoverageIsTheSame
     DEF SameAnswers, SameSnapshots
<1> QED
  BY <1>1, StoresInvHolds, PTL

-----------------------------------------------------------------------------
(* The run of the four parts: each goes on as by itself or stands still.   *)
LEMMA PartsImplemented ==
  DataSpec => Spec /\ BacktestSpec /\ StoresSpec /\ ReportsSpec /\ [](part \in Data)
<1>1. DataInit => Init /\ BacktestInit /\ StoresInit /\ ReportsInit /\ part \in Data
  BY DEF DataInit
<1>2. [DataNext]_dataVars =>
        /\ [Next]_vars /\ [BacktestNext]_backtestVars
        /\ [StoresNext]_storeVars /\ [ReportsNext]_reportVars
  BY DEF DataNext, dataVars
<1>3. part \in Data /\ [DataNext]_dataVars => (part \in Data)'
  BY DEF DataNext, dataVars
<1> QED
  BY <1>1, <1>2, <1>3, PTL DEF DataSpec, Spec, BacktestSpec, StoresSpec, ReportsSpec

(* Backtests, repositories and reports keep the types of their tables,     *)
(* lists, positions and caches.                                            *)
THEOREM DataTypes == DataSpec => []DataTypeOK
  BY PartsImplemented, EngineTypes, StoresTypes, ReportsTypes, PTL DEF DataTypeOK
=============================================================================
