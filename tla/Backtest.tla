------------------------------ MODULE Backtest ------------------------------
(***************************************************************************)
(* BacktestEngine.run, on a history and on its twin: the two agree on all  *)
(* that was available by the close of the day "known" and are opposite in  *)
(* all that came later.  A row's "move" stands for what the engines read   *)
(* of it, and each score for the sum of the moves it looks at.             *)
(***************************************************************************)
EXTENDS PointInTime

CONSTANTS
  LastDay,   \* bound: the trading dates are 1 .. LastDay
  MinBars,   \* QuantSignalEngine.minimum_observations
  MinFlows,  \* ChipFlowEngine.minimum_observations, and the days it looks at
  MaxDelay,  \* bound: days until an imported branch row is available
  Official   \* the exchange's source

ASSUME BacktestAssumption ==
  /\ LastDay \in Nat \ {0, 1} /\ MinBars \in Nat \ {0} /\ MinFlows \in Nat \ {0}
  /\ MaxDelay \in Nat /\ Official # Demo

VARIABLES
  moves,    \* the bars of the stock: 0 falls, 2 rises
  input,    \* the other input the strategy uses
  other,    \* the moves of that input
  delay,    \* of the branch rows
  known,    \* the twins part after this day
  stop,     \* spec.end
  index,    \* of the loop
  holds,    \* the position, of each twin
  trades,   \* transactions
  curve,    \* equity_curve: what the equity of each day is computed from
  outcome

run == <<index, holds, trades, curve, outcome>>
backtestVars == <<moves, input, other, delay, known, stop, run>>

Days  == 1 .. LastDay
Twins == {1, 2}
None  == 99

Row(t, d, late, series) ==
  [date |-> d, source |-> Official, revision |-> 1, available |-> d + late,
   move |-> IF t = 2 /\ d + late > known THEN 2 - series[d] ELSE series[d]]

Series(t, late, series) == [d \in Days |-> Row(t, d, late, series)]

Bars(t)    == SelectLatest(Series(t, 0, moves))
Other(t)   == Series(t, delay, other)
Quiet(t)   == Series(t, 0, [d \in Days |-> 0])

BacktestTypeOK ==
  /\ moves \in [Days -> {0, 2}] /\ other \in [Days -> {0, 2}]
  /\ input \in {"benchmark", "market", "flows", "branches"}
  /\ delay \in 0 .. MaxDelay /\ known \in Days /\ stop \in Days
  /\ index \in 1 .. LastDay /\ holds \in [Twins -> 0 .. 1]
  /\ outcome \in {"running", "report", "error"}
  /\ trades \in [Twins -> Seq([date : Days, to : 0 .. 1])]
  /\ curve \in [Twins -> Seq([date : Days, position : 0 .. 1, from : {0, 2}, to : {0, 2}])]
  /\ \A t \in Twins : Len(trades[t]) <= LastDay /\ Len(curve[t]) <= LastDay

BacktestInit ==
  /\ moves \in [Days -> {0, 2}] /\ other \in [Days -> {0, 2}]
  /\ input \in {"benchmark", "market", "flows", "branches"}
  /\ delay \in IF input = "branches" THEN 0 .. MaxDelay ELSE {0}
  /\ known \in Days /\ stop \in {LastDay - 1, LastDay}
  /\ index \in {1, 2}  \* the first bar from spec.start on
  /\ holds = [t \in Twins |-> 0]
  /\ trades = [t \in Twins |-> << >>] /\ curve = [t \in Twins |-> << >>]
  /\ outcome = IF LastDay < MinBars + 2 THEN "error" ELSE "running"

-----------------------------------------------------------------------------
(* QuantSignalEngine.analyze                                               *)
Available(rows, asOf) ==
  SelectLatest(Until(Restrict(rows, {i \in DOMAIN rows : rows[i].available <= asOf}), asOf))

Latest(selected) == selected[Max(DOMAIN selected)]

RelativeStrength(benchmark, asOf) ==
  LET eligible == Available(benchmark, asOf)
  IN  IF DOMAIN eligible = {} THEN 1 ELSE Latest(eligible).move

Score(history, benchmark, asOf) ==
  Latest(Available(history, asOf)).move + RelativeStrength(benchmark, asOf)

(* MarketEnvironmentEngine.analyze: the last observation decides.          *)
RiskOff(observations, asOf) == Latest(Available(observations, asOf)).move = 0

(* ChipFlowEngine.analyze: the flows of the last days, and every branch    *)
(* row of those days.                                                      *)
RecentDates(flows) ==
  {d \in DOMAIN flows : Cardinality({e \in DOMAIN flows : e > d}) < MinFlows}

RecentBranches(branches, asOf, dates) ==
  Restrict(branches,
           {i \in DOMAIN branches : branches[i].date <= asOf /\ branches[i].date \in dates})

Total(rows) == MapThenSumSet(LAMBDA i : rows[i].move, DOMAIN rows)

ChipScore(flows, branches, asOf) ==
  LET history == SelectLatest(Until(flows, asOf))
      dates == RecentDates(history)
  IN  IF Cardinality(DOMAIN history) < MinFlows THEN None
      ELSE Total(Restrict(history, dates))
           + Total(RecentBranches(branches, asOf, dates))

-----------------------------------------------------------------------------
(* The loop.                                                               *)
WithToday(t) == Restrict(Bars(t), 1 .. index)  \* mutant

(* Only bars through T-1 decide on the position of T.                      *)
History(t) == Restrict(Bars(t), 1 .. index - 1)

ChipOf(t, asOf) ==
  IF input = "branches" THEN ChipScore(Quiet(t), Other(t), asOf)
  ELSE ChipScore(Other(t), << >>, asOf)

Target(t) ==
  LET history == History(t)
      asOf == Latest(history).date
      score == Score(history, IF input = "benchmark" THEN Other(t) ELSE << >>, asOf)
      riskOff == input = "market" /\ RiskOff(Other(t), asOf)
      chip == IF input \in {"flows", "branches"} THEN ChipOf(t, asOf) ELSE 3
  IN  IF score >= 3 /\ ~riskOff /\ chip # None /\ chip >= 3 THEN 1
      ELSE IF score < 2 \/ riskOff \/ chip = None \/ chip < 2 THEN 0
      ELSE holds[t]

Traded(t) ==
  IF Target(t) = holds[t] THEN trades[t]
  ELSE Append(trades[t], [date |-> Bars(t)[index].date, to |-> Target(t)])

(* The return from this open to the next, on the position taken.           *)
Point(t) == [date |-> Bars(t)[index + 1].date, position |-> Target(t),
             from |-> Bars(t)[index].move, to |-> Bars(t)[index + 1].move]

GoesOn == outcome = "running" /\ index < LastDay /\ index + 1 <= stop

TooShort ==
  /\ GoesOn /\ index - 1 < MinBars
  /\ index' = index + 1
  /\ UNCHANGED <<holds, trades, curve, outcome>>

TradeAtOpen ==
  /\ GoesOn /\ index - 1 >= MinBars
  /\ holds' = [t \in Twins |-> Target(t)]
  /\ trades' = [t \in Twins |-> Traded(t)]
  /\ curve' = [t \in Twins |-> Append(curve[t], Point(t))]
  /\ index' = index + 1
  /\ UNCHANGED outcome

Report ==
  /\ outcome = "running" /\ ~GoesOn
  /\ outcome' = IF Len(curve[1]) < 2 THEN "error" ELSE "report"
  /\ UNCHANGED <<index, holds, trades, curve>>

BacktestNext ==
  /\ TooShort \/ TradeAtOpen \/ Report
  /\ UNCHANGED <<moves, input, other, delay, known, stop>>

BacktestSpec == BacktestInit /\ [][BacktestNext]_backtestVars

-----------------------------------------------------------------------------
(* The entries of the dates up to d.                                       *)
Before(s, d) == Restrict(s, {i \in DOMAIN s : s[i].date <= d})

(* What a backtest does at an open, and the equity it shows by a close, is *)
(* what it would have done and shown on that day: a later bar, index       *)
(* value, observation, flow or branch row changes nothing of it.           *)
PositionsIgnoreTheFuture ==
  /\ Before(trades[1], known + 1) = Before(trades[2], known + 1)
  /\ Before(curve[1], known) = Before(curve[2], known)
=============================================================================
