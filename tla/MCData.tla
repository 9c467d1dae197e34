------------------------------- MODULE MCData -------------------------------
(***************************************************************************)
(* Four parts that share no state, each on its own: a behaviour is one of  *)
(* the queue of backtests, of the engine that runs one, of the two         *)
(* repositories or of a provider and its cache.                            *)
(***************************************************************************)
EXTENDS BacktestQueue, Backtest, Stores, OfficialReports

VARIABLE part

dataVars == <<part, vars, backtestVars, storeVars, reportVars>>

Data == {"queue", "engine", "stores", "reports"}

DataTypeOK == part \in Data /\ BacktestTypeOK /\ StoresTypeOK /\ ReportsTypeOK

(* A part that does not run has one initial state.                         *)
AtRest ==
  /\ part # "engine" =>
       /\ moves = [d \in Days |-> 0] /\ other = moves /\ input = "flows"
       /\ known = LastDay /\ stop = LastDay /\ index = 1
  /\ part # "stores" => dataset = "bars"
  /\ part # "reports" => exchange = "TWSE"

DataInit ==
  /\ part \in Data
  /\ Init /\ BacktestInit /\ StoresInit /\ ReportsInit /\ AtRest

DataNext ==
  /\ UNCHANGED part
  /\ \/ part = "queue" /\ Next /\ UNCHANGED <<backtestVars, storeVars, reportVars>>
     \/ part = "engine" /\ BacktestNext /\ UNCHANGED <<vars, storeVars, reportVars>>
     \/ part = "stores" /\ StoresNext /\ UNCHANGED <<vars, backtestVars, reportVars>>
     \/ part = "reports" /\ ReportsNext /\ UNCHANGED <<vars, backtestVars, storeVars>>

DataSpec ==
  /\ DataInit /\ [][DataNext]_dataVars
  /\ \A w \in Workers : WF_vars(part = "queue" /\ Step(w))
  /\ ReportsFairness
=============================================================================
