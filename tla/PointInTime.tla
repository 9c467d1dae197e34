---------------------------- MODULE PointInTime ----------------------------
(***************************************************************************)
(* The records that count, of all that are stored (quant/point_in_time).   *)
(* Sources other than the demo are production; a record has a date, a      *)
(* source and a revision, whatever else is in it.  A list of records is a  *)
(* function on its positions, of which the filters keep some.              *)
(***************************************************************************)
EXTENDS Naturals, FiniteSets, Sequences, SequencesExt

CONSTANTS
  Demo,       \* the source "synthetic_demo"
  Sufficient  \* production dates from which no demo record counts (60)

ASSUME SufficientAssumption == Sufficient \in Nat \ {0}

SourcePriority(source) == IF source = Demo THEN 0 ELSE 1

Outranks(r, s) ==
  \/ SourcePriority(r.source) > SourcePriority(s.source)
  \/ SourcePriority(r.source) = SourcePriority(s.source) /\ r.revision > s.revision

Until(records, asOf) ==
  Restrict(records, {i \in DOMAIN records : records[i].date <= asOf})

ProductionDates(records) == {r.date : r \in {s \in Range(records) : s.source # Demo}}

(* A demo record counts only outside the range of the production dates.    *)
Superseded(r, production) ==
  /\ r.source = Demo /\ production # {}
  /\ \/ Cardinality(production) >= Sufficient
     \/ r.date \in Min(production) .. Max(production)

Candidates(records) ==
  {i \in DOMAIN records : ~Superseded(records[i], ProductionDates(records))}

(* The record of i takes the place of those before it and keeps it.        *)
IsSelected(records, i) ==
  \A j \in Candidates(records) : records[j].date = records[i].date =>
    /\ ~Outranks(records[j], records[i])
    /\ j < i => Outranks(records[i], records[j])

(* One record a date, by date, which is the order of the list returned.    *)
SelectLatest(records) ==
  [d \in {records[i].date : i \in Candidates(records)} |->
     records[CHOOSE i \in Candidates(records) :
               records[i].date = d /\ IsSelected(records, i)]]
=============================================================================
