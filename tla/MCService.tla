----------------------------- MODULE MCService -----------------------------
(***************************************************************************)
(* The parts of the API that share no state, each on its own: a behaviour  *)
(* is one of logins, of a browser and its requests, of a watchlist or of   *)
(* an analysis.                                                            *)
(***************************************************************************)
EXTENDS Access, Watchlist, Analysis

CONSTANTS Parts, Home

VARIABLE part

serviceVars == <<part, accessVars, watchVars, analysisVars>>

ServiceTypeOK == AccessTypeOK /\ WatchTypeOK /\ AnalysisTypeOK

(* A stock that was listed throughout and has a month in the middle stored *)
(* or none; or a stock that was listed just now, next to a benchmark       *)
(* without history.                                                        *)
Histories ==
  /\ listed[Benchmark] = 1
  /\ IF kind = "signal"
     THEN listed[Stock] = Window /\ covered = [s \in Symbols |-> {}]
     ELSE /\ listed[Stock] = 1 /\ covered[Benchmark] = Months
          /\ covered[Stock] = IF kind = "debate" THEN {} ELSE {2}

(* A part that does not run has one initial state.                         *)
AnalysisAtRest == kind = "stream"

ServiceInit ==
  /\ part \in Parts
  /\ AccessInit /\ WatchInit /\ AnalysisInit /\ Histories
  /\ part # "analysis" => AnalysisAtRest

(* One browser logs in, and a second time when a session ended and there   *)
(* are no keys.  The secret stays.                                         *)
AtHome == /\ UNCHANGED secret
          /\ \/ Cardinality({f \in Flows : started'[f] # None}) <= 1
             \/ ended # {} /\ \A k \in Keys : key'[k] = "absent"
          /\ \A b \in Browsers \ {Home} : cookie'[b] = None /\ callback'[b] = NoCallback

ServiceNext ==
  /\ UNCHANGED part
  /\ \/ /\ part \in {"logins", "requests"} /\ AccessNext
        /\ part = "logins" => UNCHANGED <<key, requests>>
        /\ part = "requests" => AtHome
        /\ UNCHANGED <<watchVars, analysisVars>>
     \/ part = "watchlist" /\ WatchNext /\ UNCHANGED <<accessVars, analysisVars>>
     \/ part = "analysis" /\ AnalysisNext /\ UNCHANGED <<accessVars, watchVars>>

ServiceSpec == ServiceInit /\ [][ServiceNext]_serviceVars /\ AnalysisFairness
=============================================================================
