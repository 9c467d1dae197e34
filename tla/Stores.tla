------------------------------- MODULE Stores -------------------------------
(***************************************************************************)
(* The two repositories side by side: the tables of PostgreSQL and the     *)
(* lists of MemoryQuantRepository, which the tests and the demo use in     *)
(* their place.  Each call goes to both.  The rows are those of one symbol *)
(* (or market) and dataset; "part" tells branches, urls and stocks apart.  *)
(***************************************************************************)
EXTENDS PointInTime

CONSTANTS
  Times,      \* bound: trading dates, or times of publication
  Exchange,   \* the production source of the symbol
  OtherOne,   \* the other exchange, in the snapshots of the whole market
  Revisions,
  Parts,
  Values,     \* bound: what a row says
  NoFigure,   \* a report column that is None
  MaxRows,    \* bound: stored rows
  Headlines   \* NewsSentimentEngine.max_headlines (10)

ASSUME StoresAssumption ==
  /\ Times \subseteq Nat /\ Revisions \subseteq Nat \ {0} /\ Values \subseteq Nat
  /\ NoFigure \notin Values /\ MaxRows \in Nat \ {0} /\ Headlines \in Nat
  /\ Exchange # Demo /\ OtherOne \notin {Demo, Exchange}

VARIABLES
  dataset,
  table,   \* the rows in PostgreSQL
  memory,  \* the list in memory
  ignored  \* history: the versions of which the table did not take a write

storeVars == <<dataset, table, memory, ignored>>

Datasets == {"bars", "flows", "branches", "observations", "news", "snapshots"}

-----------------------------------------------------------------------------
(* What a write replaces: the row of the same version.                     *)
Version(r)     == <<r.date, r.source, r.revision>>
BranchVersion(r) == <<r.date, r.part, r.source, r.revision>>
NewsVersion(r) == <<r.part, r.source, r.revision>>
SnapshotVersion(r) == <<r.part, r.date, r.source>>

VersionOf(r) ==
  CASE dataset = "branches"  -> BranchVersion(r)
    [] dataset = "news"      -> NewsVersion(r)
    [] dataset = "snapshots" -> SnapshotVersion(r)
    [] OTHER                 -> Version(r)

SameVersion(r, s) == VersionOf(r) = VersionOf(s)

(* ON CONFLICT DO NOTHING, for observations, and DO UPDATE.                *)
KeepsStored(rows, r) ==
  IF \E s \in rows : SameVersion(r, s) THEN rows ELSE rows \cup {r}

Replaces(rows, r) == {s \in rows : ~SameVersion(r, s)} \cup {r}

TableWrite(rows, r) ==
  IF dataset = "observations" THEN KeepsStored(rows, r) ELSE Replaces(rows, r)

(* A list has one row of a version at most.                                *)
MemoryWrite(list, r) ==
  LET at == {i \in DOMAIN list : SameVersion(r, list[i])}
  IN  Append(IF at = {} THEN list ELSE RemoveAt(list, CHOOSE i \in at : TRUE), r)

-----------------------------------------------------------------------------
(* The rows a caller may write.  A symbol has one production source.  Any  *)
(* version may be written again with other contents: an observation by a   *)
(* full rebuild with another warm-up, or by a later seed of the demo.      *)
RowsOf(sources, revisions, parts, values) ==
  [date : Times, source : sources, revision : revisions, part : parts, value : values]

One == {CHOOSE p \in Parts : TRUE}

Written ==
  CASE dataset \in {"bars", "flows"} -> RowsOf({Exchange, Demo}, Revisions, One, Values)
    [] dataset = "observations" -> RowsOf({Exchange, Demo}, {1}, One, Values)
    [] dataset = "branches"  -> RowsOf({Exchange}, Revisions, Parts, Values)
    [] dataset = "news"      -> RowsOf({Exchange}, {1}, Parts, Values)
    [] dataset = "snapshots" -> RowsOf({Exchange, OtherOne}, {1}, Parts, Values \cup {NoFigure})

StoresInit == dataset \in Datasets /\ table = {} /\ memory = << >> /\ ignored = {}

(* A batch is written row by row.  Snapshots go in statements of 500 rows, *)
(* which comes to the same, as the rows of a session are of different      *)
(* stocks.                                                                 *)
Upsert(r) ==
  /\ table' = TableWrite(table, r)
  /\ memory' = MemoryWrite(memory, r)
  /\ ignored' = ignored \cup {VersionOf(s) : s \in {s \in table' : SameVersion(r, s) /\ s # r}}
  /\ Len(memory') <= MaxRows
  /\ UNCHANGED dataset

UpsertBars         == dataset = "bars" /\ \E r \in Written : Upsert(r)
UpsertFlows        == dataset = "flows" /\ \E r \in Written : Upsert(r)
UpsertBranches     == dataset = "branches" /\ \E r \in Written : Upsert(r)
UpsertObservations == dataset = "observations" /\ \E r \in Written : Upsert(r)
UpsertNews         == dataset = "news" /\ \E r \in Written : Upsert(r)
UpsertSnapshots    == dataset = "snapshots" /\ \E r \in Written : Upsert(r)

StoresNext ==
  \/ UpsertBars \/ UpsertFlows \/ UpsertBranches
  \/ UpsertObservations \/ UpsertNews \/ UpsertSnapshots

StoresSpec == StoresInit /\ [][StoresNext]_storeVars

StoresTypeOK ==
  /\ dataset \in Datasets /\ table \subseteq Written /\ memory \in Seq(Written)
  /\ ignored \subseteq {VersionOf(r) : r \in Written}

-----------------------------------------------------------------------------
(* The reads.  ORDER BY leaves the rows it does not tell apart in any      *)
(* order; sorted() leaves them in the order of the list.                   *)
InRange(r, start, end) == start <= r.date /\ r.date <= end

Precedes(r, s) ==
  CASE dataset = "news" -> r.date > s.date
    [] dataset = "branches" -> r.date < s.date \/ (r.date = s.date /\ r.part < s.part)
    [] OTHER -> r.date < s.date

PrecedesInTable(r, s) ==
  \/ Precedes(r, s)
  \/ (~Precedes(s, r) /\ dataset # "news" /\ r.revision < s.revision)

TableLists(start, end) ==
  {list \in SetToSeqs({r \in table : InRange(r, start, end)}) :
     \A i, j \in DOMAIN list : PrecedesInTable(list[i], list[j]) => i < j}

MemoryLists(start, end) ==
  LET at == {i \in DOMAIN memory : InRange(memory[i], start, end)}
      Comes(i, j) == \/ Precedes(memory[i], memory[j])
                     \/ ~Precedes(memory[j], memory[i]) /\ i < j
  IN  {[k \in DOMAIN order |-> memory[order[k]]] :
         order \in {o \in SetToSeqs(at) : \A k, l \in DOMAIN o : Comes(o[k], o[l]) => k < l}}

(* The headlines an analysis shows.  Each is stored with a score, and the  *)
(* sort of analyze is stable, so they are the first of the list.           *)
Shown(list) == {list[i] : i \in {i \in DOMAIN list : i <= Headlines}}

(* get_data_status: rows by source.                                        *)
SeriesOf(rows, source) ==
  LET dates == {r.date : r \in {s \in rows : s.source = source}}
  IN  IF dates = {} THEN << >> ELSE <<Min(dates), Max(dates)>>

TableStatus(source) ==
  <<SeriesOf(table, source), Cardinality({r \in table : r.source = source})>>

MemoryStatus(source) ==
  <<SeriesOf(Range(memory), source),
    Cardinality({i \in DOMAIN memory : memory[i].source = source})>>

(* Of the snapshots: the sessions that every market present has reported,  *)
(* their totals, and the coverage of the last session.  A total is the bag *)
(* of what is added up.                                                    *)
TableSessions ==
  LET Of(d) == {r \in table : r.date = d}
      Reported(d) == {r \in Of(d) : r.value # NoFigure}
  IN  {d \in {r.date : r \in table} :
         Cardinality({r.source : r \in Reported(d)}) = Cardinality({r.source : r \in Of(d)})}

MemorySessions ==
  LET Of(d) == {r \in Range(memory) : r.date = d}
  IN  {d \in {r.date : r \in Range(memory)} :
         {r.source : r \in Of(d)} = {r.source : r \in {s \in Of(d) : s.value # NoFigure}}}

TableTotal(d) == SetToBag({r \in table : r.date = d /\ r.value \notin {NoFigure, 0}})

MemoryTotal(d) ==
  LET OrZero(r) == IF r.value = NoFigure THEN 0 ELSE r.value
  IN  ToBag(Restrict(memory, {i \in DOMAIN memory :
                                memory[i].date = d /\ OrZero(memory[i]) # 0}))

TableCoverage(market) ==
  LET rows == {r \in table : r.source = market}
      latest == {r \in rows : \A s \in rows : s.date <= r.date}
  IN  <<Cardinality(latest), Cardinality({r \in latest : r.value # NoFigure})>>

MemoryCoverage(market) ==
  LET rows == {i \in DOMAIN memory : memory[i].source = market}
      latest == {i \in rows : \A j \in rows : memory[j].date <= memory[i].date}
  IN  <<Cardinality(latest), Cardinality({i \in latest : memory[i].value # NoFigure})>>

-----------------------------------------------------------------------------
(* What an analysis takes from two lists.  Of the headlines, those of the  *)
(* moment at which the list is cut may be others: the SQL leaves them in   *)
(* any order.                                                              *)
SameHeadlines(list, other) ==
  /\ Cardinality(Shown(list)) = Cardinality(Shown(other))
  /\ \A r \in Shown(list) \ Shown(other), s \in Shown(other) \ Shown(list) : r.date = s.date

SameRecords(list, other) == SelectLatest(list) = SelectLatest(other)

SameUnlessIgnored(list, other) ==
  LET f == SelectLatest(list)
      g == SelectLatest(other)
  IN  /\ DOMAIN f = DOMAIN g
      /\ \A d \in DOMAIN f :
           \/ f[d] = g[d]
           \/ SameVersion(f[d], g[d]) /\ VersionOf(f[d]) \in ignored

SameTaken(list, other) ==
  CASE dataset \in {"bars", "flows"} -> SameRecords(list, other)
    [] dataset = "observations" -> SameUnlessIgnored(list, other)
    [] dataset = "news" -> ToBag(list) = ToBag(other) /\ SameHeadlines(list, other)
    [] OTHER -> ToBag(list) = ToBag(other)

SameLists ==
  \A start, end \in Times :
    \A list \in TableLists(start, end), other \in MemoryLists(start, end) :
      SameTaken(list, other)

SameStatus == \A source \in {Exchange, Demo} : TableStatus(source) = MemoryStatus(source)

SameSnapshots ==
  /\ TableSessions = MemorySessions
  /\ \A d \in Times : TableTotal(d) = MemoryTotal(d)
  /\ \A m \in {Exchange, OtherOne} : TableCoverage(m) = MemoryCoverage(m)

(* However rows were written, in whatever order and as often as one likes, *)
(* tables and memory report the same series, and an analysis takes the     *)
(* same records, sums and headlines from both.  Two things may differ and  *)
(* no more: an observation that was written again with other contents,     *)
(* which the tables keep and memory replaces, and the headlines of the     *)
(* moment at which their list is cut.                                      *)
SameAnswers == SameLists /\ SameStatus /\ (dataset = "snapshots" => SameSnapshots)

(* "The same contract as PostgreSQL": the records that count are the same, *)
(* of every dataset of which one counts for each date.                     *)
SameContract ==
  dataset \in {"bars", "flows", "observations"} =>
    \A start, end \in Times :
      \A list \in TableLists(start, end), other \in MemoryLists(start, end) :
        SameRecords(list, other)
=============================================================================
