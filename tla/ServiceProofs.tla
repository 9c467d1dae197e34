---------------------------- MODULE ServiceProofs ----------------------------
(***************************************************************************)
(* An analysis shows the latest answer and is refused for too little       *)
(* history only when there is no more, for every lookback and every number *)
(* of runs and attempts; and the parts of the API side by side keep their  *)
(* types.                                                                  *)
(***************************************************************************)
EXTENDS MCService, AccessProofs, WatchlistProofs

-----------------------------------------------------------------------------
(* The page waits only for an attempt that exists, and waits for another   *)
(* only while one is left.                                                 *)
RunInv ==
  /\ run.at # "idle" => Current \in Attempts
  /\ run.at = "waiting" => run.attempt < MaxAttempts

(* A handler that has sent a delta is a stream's and ends well or with an  *)
(* error; it never answers that the sync is pending.                       *)
SentInv ==
  \A a \in Attempts : handler[a].sent > 0 =>
    kind = "stream" /\ handler[a].at \in {"model", "ok", "error"}

(* While the page waits for an answer it shows nothing but the deltas of   *)
(* that very attempt.                                                      *)
AskingInv ==
  run.at = "asking" /\ kind # "signal" /\ shown # {} =>
    kind = "stream" /\ handler[Current].sent > 0

OneShown == \A a, b \in shown : a = b
PanelInv ==
  /\ OneShown
  /\ kind # "signal" => \A a \in shown : a[1] = run.number
  /\ kind = "stream" => shown \subseteq {Current}
  /\ run.at = "waiting" => shown = {}

PageInv == RunInv /\ SentInv /\ AskingInv /\ PanelInv

Listed(s) == {m \in Months : m >= listed[s]}
WholeLookback(s) == s \in manual \/ Listed(s) \subseteq stored[s]

(* What a closed entry vouches for is stored; a run that was stored waits  *)
(* for its entry; and what is not covered is still to be fetched.          *)
WorkerInv ==
  /\ \A s \in Symbols : covered[s] \cap Listed(s) \subseteq stored[s]
  /\ worker.symbol = "none" => worker = Idle
  /\ worker # Idle => Months \subseteq covered[worker.symbol] \cup worker.months
  /\ worker.stored => FirstRun(worker.months) \cap Listed(worker.symbol)
                        \subseteq stored[worker.symbol]

RecentInv == \A s \in recent : WholeLookback(s)

(* A handler that is past the stock found enough of it, or all there is.   *)
PastStock(a) ==
  \/ handler[a].at = "read"
  \/ handler[a].at \in {"quota", "bars", "entry"} /\ handler[a].symbol = Benchmark
HandlerInv == \A a \in Attempts : PastStock(a) => Enough(Stock) \/ WholeLookback(Stock)

StoreInv == WorkerInv /\ RecentInv /\ HandlerInv

-----------------------------------------------------------------------------
(* Types.                                                                  *)

HandlerType == handler \in [Attempts -> [at : Places, symbol : Symbols, sent : 0 .. MaxChunks]]
RunType == run \in [number : 0 .. MaxRuns, attempt : 0 .. MaxAttempts,
                    at : {"idle", "asking", "waiting"}]
StoreType ==
  /\ listed \in [Symbols -> Months]
  /\ stored \in [Symbols -> SUBSET Months] /\ covered \in [Symbols -> SUBSET Months]
  /\ recent \subseteq Symbols /\ queued \subseteq Symbols /\ manual \subseteq Symbols
  /\ worker \in [symbol : Symbols \cup {"none"}, months : SUBSET Months, stored : BOOLEAN]
  /\ failures \in 0 .. MaxFailures

LEMMA BoundsAreNumbers ==
  /\ Window \in Nat /\ MaxAttempts \in Nat /\ MaxRuns \in Nat /\ MaxChunks \in Nat
  /\ MaxFailures \in Nat /\ MaxAttempts > 0 /\ Window > 0
  BY AnalysisAssumption DEF AnalysisAssumption

LEMMA AnalysisTypesAre ==
  AnalysisTypeOK <=> kind \in Kinds /\ StoreType /\ RunType /\ HandlerType
                       /\ shown \subseteq Attempts
  BY DEF AnalysisTypeOK, StoreType, RunType, HandlerType

(* The handlers of the other attempts stay where they are.                 *)
OthersStay(a) == HandlerType' /\ \A b \in Attempts : b # a => handler'[b] = handler[b]

LEMMA PlaceMoves ==
  ASSUME HandlerType, NEW a \in Attempts, NEW from, NEW to \in Places, Moves(a, from, to)
  PROVE  /\ OthersStay(a) /\ handler[a].at = from /\ handler'[a].at = to
         /\ handler'[a].symbol = handler[a].symbol /\ handler'[a].sent = handler[a].sent
<1>1. handler' = [handler EXCEPT ![a].at = to] /\ handler[a].at = from
  BY DEF Moves
<1> QED
  BY <1>1 DEF HandlerType, OthersStay

LEMMA EnsuredMoves ==
  ASSUME HandlerType, NEW a \in Attempts, handler' = Ensured(a)
  PROVE  /\ OthersStay(a)
         /\ handler'[a].at = IF handler[a].symbol = Stock THEN "bars" ELSE "read"
         /\ handler'[a].symbol = Benchmark /\ handler'[a].sent = handler[a].sent
<1> DEFINE next == [at |-> IF handler[a].symbol = Stock THEN "bars" ELSE "read",
                    symbol |-> Benchmark, sent |-> handler[a].sent]
<1>1. handler' = [handler EXCEPT ![a] = next]
  BY DEF Ensured
<1>2. next \in [at : Places, symbol : Symbols, sent : 0 .. MaxChunks]
  BY DEF HandlerType, Places, Symbols
<1> QED
  BY <1>1, <1>2 DEF HandlerType, OthersStay

(* What every step of a handler has in common.                             *)
HandlerMoves(a) ==
  /\ OthersStay(a) /\ UNCHANGED page
  /\ handler[a].at \notin Answers \cup {"none"}
  /\ \/ handler'[a].sent = handler[a].sent
     \/ /\ handler'[a].sent = handler[a].sent + 1 /\ handler'[a].at = "model"
        /\ kind = "stream"
  /\ handler'[a].at = "pending" => handler[a].at = "entry"
  /\ handler[a].at = "model" => handler'[a].at \in {"model", "ok", "error"} \/ kind = "debate"

LEMMA StepsMove ==
  ASSUME HandlerType, NEW a \in Attempts, HandlerStep(a)
  PROVE  HandlerMoves(a)
<1>0. Answers = {"ok", "pending", "error"}
  BY DEF Answers
<1>m. ASSUME NEW from \in {"quota", "bars", "entry", "read", "context", "plain", "judge",
                           "plain judge"},
             NEW to \in Places, Moves(a, from, to), UNCHANGED page,
             to = "pending" => from = "entry"
      PROVE  HandlerMoves(a)
  BY <1>0, <1>m, PlaceMoves DEF HandlerMoves
<1>n. ASSUME NEW to \in Places \ {"pending"}, Moves(a, "model", to), UNCHANGED page,
             to \in {"ok", "error"} \/ kind = "debate"
      PROVE  HandlerMoves(a)
  BY <1>0, <1>n, PlaceMoves DEF HandlerMoves
<1>e. ASSUME handler[a].at \in {"bars", "entry"}, handler' = Ensured(a), UNCHANGED page
      PROVE  HandlerMoves(a)
  BY <1>0, <1>e, EnsuredMoves DEF HandlerMoves
<1>p. {"bars", "entry", "pending", "context", "error", "model", "ok", "plain", "judge",
       "plain judge"} \subseteq Places
  BY DEF Places, Answers
<1>u. UNCHANGED page
  BY DEF HandlerStep, Quota, CountBars, ReadEntry, ReadBars, Context, StreamText, Debate
<1>1. CASE Quota(a)
  <2>1. Moves(a, "quota", "bars") \/ Moves(a, "quota", "error")
    BY <1>1 DEF Quota
  <2> QED
    BY <2>1, <1>u, <1>m, <1>p
<1>2. CASE CountBars(a)
  <2>1. handler[a].at = "bars" /\ (handler' = Ensured(a) \/ Moves(a, "bars", "entry"))
    BY <1>2 DEF CountBars, Moves
  <2> QED
    BY <2>1, <1>u, <1>m, <1>e, <1>p
<1>3. CASE ReadEntry(a)
  <2>1. handler[a].at = "entry" /\ (handler' = Ensured(a) \/ Moves(a, "entry", "pending"))
    BY <1>3 DEF ReadEntry, Moves
  <2> QED
    BY <2>1, <1>u, <1>m, <1>e, <1>p
<1>4. CASE ReadBars(a)
  <2>1. Moves(a, "read", "context") \/ Moves(a, "read", "error")
    BY <1>4 DEF ReadBars
  <2> QED
    BY <2>1, <1>u, <1>m, <1>p
<1>5. CASE Context(a)
  <2>1. \E to \in {"model", "ok", "error"} : Moves(a, "context", to)
    BY <1>5 DEF Context
  <2> QED
    BY <2>1, <1>u, <1>m, <1>p
<1>6. CASE StreamText(a)
  <2>1. CASE Moves(a, "model", "ok") \/ Moves(a, "model", "error")
    BY <2>1, <1>u, <1>n, <1>p
  <2>2. CASE /\ handler[a].sent < MaxChunks
             /\ handler' = [handler EXCEPT ![a].sent = @ + 1]
    <3>1. handler[a].sent \in 0 .. MaxChunks
      BY DEF HandlerType
    <3>2. handler[a].sent + 1 \in 0 .. MaxChunks
      BY <2>2, <3>1, BoundsAreNumbers
    <3>3. HandlerType' /\ handler'[a].sent = handler[a].sent + 1
          /\ handler'[a].at = handler[a].at
          /\ \A b \in Attempts : b # a => handler'[b] = handler[b]
      BY <2>2, <3>2 DEF HandlerType
    <3>4. handler[a].at = "model" /\ kind = "stream"
      BY <1>6 DEF StreamText
    <3> QED
      BY <1>0, <1>u, <3>3, <3>4 DEF HandlerMoves, OthersStay
  <2> QED
    BY <1>6, <2>1, <2>2 DEF StreamText
<1>7. CASE Debate(a)
  <2>1. \/ \E to \in {"plain", "judge", "error"} : Moves(a, "model", to)
        \/ \E from \in {"plain", "judge", "plain judge"},
              to \in {"judge", "ok", "error", "plain judge"} : Moves(a, from, to)
    BY <1>7 DEF Debate, CompleteJson
  <2>2. kind = "debate"
    BY <1>7 DEF Debate
  <2> QED
    BY <2>1, <2>2, <1>u, <1>m, <1>n, <1>p
<1> QED
  BY <1>1, <1>2, <1>3, <1>4, <1>5, <1>6, <1>7 DEF HandlerStep

(* A new attempt: its handler begins, those that have answered are gone.   *)
LEMMA AsksMoves ==
  ASSUME HandlerType, NEW n \in 1 .. MaxRuns, NEW i \in 1 .. MaxAttempts, Asks(n, i)
  PROVE  /\ RunType' /\ HandlerType'
         /\ run'.number = n /\ run'.attempt = i /\ run'.at = "asking"
         /\ handler'[<<n, i>>].at \in {"quota", "bars"}
         /\ handler'[<<n, i>>].symbol = Stock /\ handler'[<<n, i>>].sent = 0
         /\ \A a \in Attempts : a # <<n, i>> =>
              handler'[a] = handler[a] \/ (handler'[a].at = "none" /\ handler'[a].sent = 0)
<1>1. NotBegun \in [at : Places, symbol : Symbols, sent : 0 .. MaxChunks]
  BY BoundsAreNumbers DEF NotBegun, Places, Symbols
<1>2. NotBegun.at = "none" /\ NotBegun.sent = 0
  BY DEF NotBegun
<1>3. <<n, i>> \in Attempts
  BY DEF Attempts
<1>4. RunType' /\ run'.number = n /\ run'.attempt = i /\ run'.at = "asking"
  BY BoundsAreNumbers DEF Asks, RunType
<1> DEFINE begins == [at |-> IF kind \in {"stream", "debate"} THEN "quota" ELSE "bars",
                      symbol |-> Stock, sent |-> 0]
<1>5. begins \in [at : Places, symbol : Symbols, sent : 0 .. MaxChunks]
  BY BoundsAreNumbers DEF Places, Symbols
<1>6. handler' = [a \in Attempts |->
         IF a = <<n, i>> THEN begins
         ELSE IF handler[a].at \in Answers THEN NotBegun ELSE handler[a]]
  BY DEF Asks
<1>7. HandlerType'
  BY <1>1, <1>5, <1>6 DEF HandlerType
<1>8. handler'[<<n, i>>] = begins
  BY <1>3, <1>6
<1>9. /\ begins.at \in {"quota", "bars"} /\ begins.symbol = Stock /\ begins.sent = 0
  OBVIOUS
<1>10. \A a \in Attempts : a # <<n, i>> => handler'[a] \in {handler[a], NotBegun}
  BY <1>6
<1> QED
  BY <1>2, <1>4, <1>7, <1>8, <1>9, <1>10

LEMMA StartMoves ==
  ASSUME AnalysisTypeOK, Start
  PROVE  \E n \in 1 .. MaxRuns :
           /\ n = run.number + 1 /\ Asks(n, 1)
           /\ shown' = IF kind = "signal" THEN shown ELSE {}
           /\ UNCHANGED <<kind, store>>
<1>1. run.number \in 0 .. MaxRuns
  BY DEF AnalysisTypeOK
<1> QED
  BY <1>1, BoundsAreNumbers DEF Start

LEMMA TryMoves ==
  ASSUME AnalysisTypeOK, RunInv, TriesAgain
  PROVE  \E i \in 1 .. MaxAttempts :
           /\ i = run.attempt + 1 /\ run.number \in 1 .. MaxRuns /\ Asks(run.number, i)
           /\ shown' = IF kind = "stream" THEN {} ELSE shown
           /\ UNCHANGED <<kind, store>>
<1>1. run.attempt \in 0 .. MaxAttempts /\ run.number \in 1 .. MaxRuns
  BY DEF AnalysisTypeOK, TriesAgain, RunInv, Current, Attempts
<1>2. run.attempt < MaxAttempts
  BY DEF TriesAgain, RunInv
<1> QED
  BY <1>1, <1>2, BoundsAreNumbers DEF TriesAgain, NextAttempt

(* A step of the store leaves the page and the handlers alone.             *)
LEMMA PendingAreMonths == \A s : Pending(s) \subseteq Months
  BY DEF Pending

LEMMA FirstAreMonths == \A S : FirstRun(S) \subseteq S
  BY DEF FirstRun

LEMMA StoreTypes ==
  ASSUME StoreType, WorkerInv, StoreStep
  PROVE  StoreType'
<1> USE BoundsAreNumbers DEF StoreType
<1>0. /\ worker # Idle => worker.symbol \in Symbols
      /\ worker.stored => worker.symbol \in Symbols
      /\ FirstRun(worker.months) \subseteq Months
  BY FirstAreMonths DEF WorkerInv, Idle
<1>1. CASE Begin
  <2>1. PICK s \in queued : worker' = [symbol |-> s, months |-> Pending(s), stored |-> FALSE]
    BY <1>1 DEF Begin
  <2> QED
    BY <1>1, <2>1, PendingAreMonths DEF Begin
<1>2. CASE StoreRun
  <2>1. worker' \in [symbol : Symbols \cup {"none"}, months : SUBSET Months, stored : BOOLEAN]
    BY <1>2 DEF StoreRun
  <2>2. stored' \in [Symbols -> SUBSET Months]
    BY <1>2, <1>0 DEF StoreRun
  <2> QED
    BY <1>2, <2>1, <2>2 DEF StoreRun
<1>3. CASE RecordRun
  <2>1. worker' = [symbol |-> worker.symbol,
                   months |-> worker.months \ FirstRun(worker.months), stored |-> FALSE]
    BY <1>3, Zenon DEF RecordRun
  <2>2. worker' \in [symbol : Symbols \cup {"none"}, months : SUBSET Months, stored : BOOLEAN]
    BY <2>1
  <2>3. covered' \in [Symbols -> SUBSET Months] /\ recent' \subseteq Symbols
    <3>1. covered' = [covered EXCEPT ![worker.symbol] = @ \cup FirstRun(worker.months)]
      BY <1>3 DEF RecordRun
    <3>2. recent' = IF Window \in FirstRun(worker.months)
                    THEN recent \cup {worker.symbol} ELSE recent
      BY <1>3 DEF RecordRun
    <3>3. worker.stored
      BY <1>3 DEF RecordRun
    <3> QED
      BY <1>0, <3>1, <3>2, <3>3
  <2>4. UNCHANGED <<listed, stored, queued, manual, failures>>
    BY <1>3 DEF RecordRun
  <2> QED
    BY <2>2, <2>3, <2>4
<1>4. CASE JobEnds
  BY <1>4 DEF JobEnds, Idle
<1>5. CASE JobFails
  BY <1>5 DEF JobFails, Idle
<1>6. ASSUME NEW s \in ByHand, ManualBackfill(s) PROVE StoreType'
  <2>1. s \in Symbols
    BY AnalysisAssumption DEF AnalysisAssumption, Symbols
  <2>2. PICK from \in Months :
          /\ stored' = [stored EXCEPT ![s] = @ \cup {m \in from .. Window : m >= listed[s]}]
          /\ covered' = [covered EXCEPT ![s] = @ \cup from .. Window]
    BY <1>6 DEF ManualBackfill
  <2>3. from .. Window \subseteq Months
    BY DEF Months
  <2> QED
    BY <1>6, <2>1, <2>2, <2>3 DEF ManualBackfill
<1>7. ASSUME NEW s \in Symbols, EntryAges(s) PROVE StoreType'
  BY <1>7 DEF EntryAges
<1> QED
  BY <1>1, <1>2, <1>3, <1>4, <1>5, <1>6, <1>7 DEF StoreStep

(* A page step moves the run only, to a place of its own.                  *)
LEMMA AnalysisTypeNext ==
  ASSUME AnalysisTypeOK, RunInv, WorkerInv, [AnalysisNext]_analysisVars
  PROVE  AnalysisTypeOK'
<1>0. kind \in Kinds /\ StoreType /\ RunType /\ HandlerType /\ shown \subseteq Attempts
  BY AnalysisTypesAre
<1>g. SUFFICES kind' = kind /\ StoreType' /\ RunType' /\ HandlerType' /\ shown' \subseteq Attempts
  BY <1>0, AnalysisTypesAre DEF Kinds, AnalysisTypeOK, StoreType, RunType, HandlerType
<1>s. UNCHANGED store => StoreType'
  BY <1>0 DEF store, StoreType
<1>1. CASE UNCHANGED analysisVars
  BY <1>0, <1>1 DEF analysisVars, store, page, StoreType, RunType, HandlerType
<1>2. CASE Start
  <2>1. PICK n \in 1 .. MaxRuns :
          /\ n = run.number + 1 /\ Asks(n, 1)
          /\ shown' = IF kind = "signal" THEN shown ELSE {}
          /\ UNCHANGED <<kind, store>>
    BY <1>2, StartMoves
  <2>2. 1 \in 1 .. MaxAttempts
    BY BoundsAreNumbers
  <2>3. RunType' /\ HandlerType'
    BY <1>0, <2>1, <2>2, AsksMoves
  <2> QED
    BY <1>0, <1>s, <2>1, <2>3
<1>3. CASE TriesAgain
  <2>1. PICK i \in 1 .. MaxAttempts :
           /\ i = run.attempt + 1 /\ run.number \in 1 .. MaxRuns /\ Asks(run.number, i)
           /\ shown' = IF kind = "stream" THEN {} ELSE shown
           /\ UNCHANGED <<kind, store>>
    BY <1>3, TryMoves
  <2>2. RunType' /\ HandlerType'
    BY <1>0, <2>1, AsksMoves
  <2> QED
    BY <1>0, <1>s, <2>1, <2>2
<1>4. CASE Cancel
  BY <1>0, <1>s, <1>4 DEF Cancel, RunType, HandlerType
<1>5. CASE StoreStep
  <2>1. UNCHANGED <<page, handler>>
    BY <1>5 DEF StoreStep
  <2>2. StoreType'
    BY <1>0, <1>5, StoreTypes
  <2> QED
    BY <1>0, <2>1, <2>2 DEF page, RunType, HandlerType
<1>6. ASSUME NEW a \in Attempts, PageStep(a)
      PROVE  kind' = kind /\ StoreType' /\ RunType' /\ HandlerType' /\ shown' \subseteq Attempts
  <2>1. UNCHANGED <<kind, store, handler>>
    BY <1>6 DEF PageStep, Delta, Result, Fails, Waits
  <2>2. RunType' /\ shown' \subseteq Attempts
    BY <1>0, <1>6 DEF PageStep, Delta, Result, Fails, Waits, RunType
  <2> QED
    BY <1>0, <1>s, <2>1, <2>2 DEF HandlerType
<1>7. ASSUME NEW a \in Attempts, HandlerStep(a)
      PROVE  kind' = kind /\ StoreType' /\ RunType' /\ HandlerType' /\ shown' \subseteq Attempts
  <2>1. HandlerType' /\ UNCHANGED page
    BY <1>0, <1>7, StepsMove DEF HandlerMoves, OthersStay
  <2>2. /\ UNCHANGED <<listed, stored, covered, recent, worker, manual, failures>>
        /\ queued' \subseteq Symbols
    <3>1. UNCHANGED store \/ ReadEntry(a)
      BY <1>7 DEF HandlerStep, Quota, CountBars, ReadBars, Context, StreamText, Debate
    <3>2. CASE UNCHANGED store
      BY <1>0, <3>2 DEF store, StoreType
    <3>3. CASE ReadEntry(a)
      <4>1. queued' = queued \/ queued' = queued \cup {handler[a].symbol}
        BY <3>3 DEF ReadEntry
      <4>2. handler[a].symbol \in Symbols
        BY <1>0 DEF HandlerType
      <4> QED
        BY <1>0, <3>3, <4>1, <4>2 DEF ReadEntry, StoreType
    <3> QED
      BY <3>1, <3>2, <3>3
  <2> QED
    BY <1>0, <2>1, <2>2 DEF page, RunType, StoreType
<1> QED
  BY <1>1, <1>2, <1>3, <1>4, <1>5, <1>6, <1>7 DEF AnalysisNext

-----------------------------------------------------------------------------
(* The page.                                                               *)

LEMMA RunNext ==
  ASSUME AnalysisTypeOK, RunInv, [AnalysisNext]_analysisVars
  PROVE  RunInv'
<1>0. StoreType /\ RunType /\ HandlerType
  BY AnalysisTypesAre
<1>1. CASE UNCHANGED analysisVars
  BY <1>1 DEF analysisVars, page, RunInv, Current
<1>2. CASE Start
  <2>1. PICK n \in 1 .. MaxRuns : Asks(n, 1)
    BY <1>2, StartMoves
  <2>2. 1 \in 1 .. MaxAttempts
    BY BoundsAreNumbers
  <2> QED
    BY <1>0, <2>1, <2>2, AsksMoves DEF RunInv, Current, Attempts
<1>3. CASE TriesAgain
  <2>1. PICK i \in 1 .. MaxAttempts : run.number \in 1 .. MaxRuns /\ Asks(run.number, i)
    BY <1>3, TryMoves
  <2>2. run'.number = run.number /\ run'.attempt = i /\ run'.at = "asking"
    BY <1>0, <2>1, AsksMoves
  <2> QED
    BY <2>1, <2>2 DEF RunInv, Current, Attempts
<1>4. CASE Cancel
  BY <1>0, <1>4 DEF Cancel, RunInv, RunType
<1>5. CASE StoreStep
  BY <1>5 DEF StoreStep, page, RunInv, Current
<1>6. ASSUME NEW a \in Attempts, PageStep(a)
      PROVE  RunInv'
  <2>1. /\ run.at = "asking" /\ a = <<run.number, run.attempt>>
        /\ run'.number = run.number /\ run'.attempt = run.attempt
    BY <1>0, <1>6 DEF PageStep, Delta, Result, Fails, Waits, Hears, Current, RunType
  <2>2. run'.at = "waiting" => a[2] < MaxAttempts
    BY <1>0, <1>6, <2>1 DEF PageStep, Delta, Result, Fails, Waits, RunType
  <2>3. a[2] = run.attempt
    BY <2>1
  <2> QED
    BY <2>1, <2>2, <2>3 DEF RunInv, Current
<1>7. ASSUME NEW a \in Attempts, HandlerStep(a)
      PROVE  RunInv'
  BY <1>0, <1>7, StepsMove DEF HandlerMoves, page, RunInv, Current
<1> QED
  BY <1>1, <1>2, <1>3, <1>4, <1>5, <1>6, <1>7 DEF AnalysisNext

LEMMA SentNext ==
  ASSUME AnalysisTypeOK, RunInv, SentInv, [AnalysisNext]_analysisVars
  PROVE  SentInv'
<1>0. HandlerType /\ \A a \in Attempts : handler[a].sent \in Nat
  BY AnalysisTypesAre, BoundsAreNumbers DEF HandlerType
<1>k. kind' = kind
  BY DEF AnalysisNext, Start, Cancel, TriesAgain, StoreStep, PageStep, Delta, Result, Fails,
         Waits, HandlerStep, Quota, CountBars, ReadEntry, ReadBars, Context, StreamText,
         Debate, analysisVars, page
<1>1. CASE UNCHANGED handler
  BY <1>1, <1>k DEF SentInv
<1>2. ASSUME NEW n \in 1 .. MaxRuns, NEW i \in 1 .. MaxAttempts, Asks(n, i)
      PROVE  SentInv'
  <2>1. \A a \in Attempts : handler'[a] = handler[a] \/ handler'[a].sent = 0
    BY <1>0, <1>2, AsksMoves
  <2> QED
    BY <2>1, <1>k DEF SentInv
<1>3. CASE Start
  <2>1. 1 \in 1 .. MaxAttempts
    BY BoundsAreNumbers
  <2> QED
    BY <1>2, <1>3, <2>1, StartMoves
<1>4. CASE TriesAgain
  BY <1>2, <1>4, TryMoves
<1>5. ASSUME NEW a \in Attempts, HandlerStep(a)
      PROVE  SentInv'
  <2>1. HandlerMoves(a)
    BY <1>0, <1>5, StepsMove
  <2>2. \A b \in Attempts : b # a => handler'[b] = handler[b]
    BY <2>1 DEF HandlerMoves, OthersStay
  <2>3. handler[a].at \notin {"ok", "error"}
    BY <2>1 DEF HandlerMoves, Answers
  <2>4. CASE /\ handler'[a].sent = handler[a].sent + 1 /\ handler'[a].at = "model"
             /\ kind = "stream"
    BY <1>k, <2>2, <2>4 DEF SentInv
  <2>5. CASE handler'[a].sent = handler[a].sent
    <3>1. CASE handler[a].sent > 0
      <4>1. handler[a].at = "model" /\ kind = "stream"
        BY <2>3, <3>1 DEF SentInv
      <4>2. handler'[a].at \in {"model", "ok", "error"}
        BY <2>1, <4>1 DEF HandlerMoves
      <4> QED
        BY <1>k, <2>2, <4>1, <4>2 DEF SentInv
    <3>2. CASE ~(handler[a].sent > 0)
      BY <1>k, <2>2, <2>5, <3>2 DEF SentInv
    <3> QED
      BY <3>1, <3>2
  <2> QED
    BY <2>1, <2>4, <2>5 DEF HandlerMoves
<1>6. CASE Cancel \/ StoreStep
  BY <1>1, <1>6 DEF Cancel, StoreStep
<1>7. ASSUME NEW a \in Attempts, PageStep(a)
      PROVE  SentInv'
  BY <1>1, <1>7 DEF PageStep, Delta, Result, Fails, Waits
<1> QED
  BY <1>1, <1>3, <1>4, <1>5, <1>6, <1>7 DEF AnalysisNext, analysisVars

LEMMA ShownNext ==
  ASSUME AnalysisTypeOK, RunInv, SentInv, AskingInv, PanelInv, [AnalysisNext]_analysisVars
  PROVE  AskingInv' /\ PanelInv'
<1>0. StoreType /\ RunType /\ HandlerType /\ \A a \in Attempts : handler[a].sent \in Nat
  BY AnalysisTypesAre, BoundsAreNumbers DEF HandlerType
<1>1. CASE UNCHANGED <<page, handler>>
  BY <1>1 DEF page, AskingInv, PanelInv, OneShown, Current
<1>2. CASE Start
  <2>1. PICK n \in 1 .. MaxRuns :
          /\ Asks(n, 1) /\ kind' = kind
          /\ shown' = IF kind = "signal" THEN shown ELSE {}
    BY <1>2, StartMoves
  <2>2. 1 \in 1 .. MaxAttempts
    BY BoundsAreNumbers
  <2>3. run'.at = "asking"
    BY <1>0, <2>1, <2>2, AsksMoves
  <2> QED
    BY <2>1, <2>3 DEF AskingInv, PanelInv, OneShown
<1>3. CASE TriesAgain
  <2>1. shown = {} /\ run.at = "waiting"
    BY <1>3 DEF TriesAgain, PanelInv
  <2>2. shown' = {}
    BY <1>3, <2>1 DEF TriesAgain
  <2> QED
    BY <2>2 DEF AskingInv, PanelInv, OneShown
<1>4. CASE Cancel
  <2>1. UNCHANGED <<kind, shown>> /\ run'.at = "idle" /\ run'.number = run.number
        /\ run'.attempt = run.attempt
    BY <1>0, <1>4 DEF Cancel, RunType
  <2> QED
    BY <2>1 DEF AskingInv, PanelInv, OneShown, Current
<1>5. ASSUME NEW a \in Attempts, PageStep(a)
      PROVE  AskingInv' /\ PanelInv'
  <2>1. /\ run.at = "asking" /\ a = Current /\ UNCHANGED <<kind, handler>>
        /\ run'.number = run.number /\ run'.attempt = run.attempt /\ Current' = Current
    BY <1>0, <1>5 DEF PageStep, Delta, Result, Fails, Waits, Hears, Current, RunType
  <2>2. a[1] = run.number
    BY <2>1 DEF Current
  <2>3. CASE Delta(a)
    <3>1. shown' = shown \cup {a} /\ kind = "stream" /\ handler[a].sent > 0 /\ run' = run
      BY <2>3 DEF Delta
    <3>2. shown' = {a}
      BY <2>1, <3>1 DEF PanelInv
    <3> QED
      BY <2>1, <2>2, <3>1, <3>2 DEF AskingInv, PanelInv, OneShown
  <2>4. CASE Result(a) \/ Fails(a)
    <3>1. run'.at = "idle"
      BY <1>0, <2>4 DEF Result, Fails, RunType
    <3>2. shown' \in {shown, {a}, {}}
      BY <2>4 DEF Result, Fails
    <3> QED
      BY <2>1, <2>2, <3>1, <3>2 DEF AskingInv, PanelInv, OneShown
  <2>5. CASE Waits(a)
    <3>1. run'.at = "waiting" /\ handler[a].at = "pending"
          /\ shown' = IF kind = "signal" THEN {} ELSE shown
      BY <1>0, <2>5 DEF Waits, RunType
    <3>2. ~(handler[a].sent > 0)
      BY <3>1 DEF SentInv
    <3>3. shown' = {}
      BY <2>1, <3>1, <3>2 DEF AskingInv
    <3> QED
      BY <3>1, <3>3 DEF AskingInv, PanelInv, OneShown
  <2> QED
    BY <1>5, <2>3, <2>4, <2>5 DEF PageStep
<1>6. ASSUME NEW a \in Attempts, HandlerStep(a)
      PROVE  AskingInv' /\ PanelInv'
  <2>1. HandlerMoves(a)
    BY <1>0, <1>6, StepsMove
  <2>2. UNCHANGED <<kind, run, shown>>
    BY <2>1 DEF HandlerMoves, page
  <2>3. \A b \in Attempts : handler[b].sent > 0 => handler'[b].sent > 0
    BY <1>0, <2>1 DEF HandlerMoves, OthersStay
  <2>4. PanelInv'
    BY <2>2 DEF PanelInv, OneShown, Current
  <2>5. run.at = "asking" => Current \in Attempts
    BY DEF RunInv
  <2> QED
    BY <2>2, <2>3, <2>4, <2>5 DEF AskingInv, Current
<1>7. CASE StoreStep
  BY <1>1, <1>7 DEF StoreStep
<1> QED
  BY <1>1, <1>2, <1>3, <1>4, <1>5, <1>6, <1>7 DEF AnalysisNext, analysisVars

-----------------------------------------------------------------------------
(* The store.                                                              *)

(* A run of months that reaches the open month is all that was left.       *)
LEMMA LastRunIsAll ==
  ASSUME NEW S \in SUBSET Months, Window \in FirstRun(S)
  PROVE  FirstRun(S) = S
<1>1. \A n \in Months : n <= Window /\ n \in Nat
  BY BoundsAreNumbers DEF Months
<1>2. \A n \in Months \ S : \A o \in S : o > n
  BY <1>1 DEF FirstRun
<1>3. S \subseteq FirstRun(S)
  BY <1>2 DEF FirstRun
<1> QED
  BY <1>3, FirstAreMonths

(* History only grows, and a manual backfill is remembered.                *)
Grows == /\ listed' = listed /\ manual \subseteq manual'
         /\ \A s \in Symbols : stored[s] \subseteq stored'[s]

LEMMA WorkerNext ==
  ASSUME StoreType, WorkerInv, StoreStep
  PROVE  WorkerInv' /\ Grows
<1>0. /\ worker # Idle => worker.symbol \in Symbols
      /\ worker.stored => worker.symbol \in Symbols /\ worker # Idle
      /\ FirstRun(worker.months) \subseteq Months
      /\ Idle.symbol = "none" /\ Idle.stored = FALSE /\ "none" \notin Symbols
      /\ \A s \in Symbols : covered[s] \subseteq Months /\ stored[s] \subseteq Months
  BY FirstAreMonths, AnalysisAssumption
  DEF StoreType, WorkerInv, Idle, AnalysisAssumption, Symbols
<1>1. CASE Begin
  <2>1. PICK s \in queued : worker' = [symbol |-> s, months |-> Pending(s), stored |-> FALSE]
    BY <1>1 DEF Begin
  <2>2. UNCHANGED <<listed, stored, covered, manual>>
    BY <1>1 DEF Begin
  <2>3. s \in Symbols
    BY DEF StoreType
  <2>4. Months \subseteq covered[s] \cup Pending(s)
    BY DEF Pending
  <2>5. worker'.symbol = s /\ worker'.months = Pending(s) /\ worker'.stored = FALSE
    BY <2>1
  <2> QED
    BY <1>0, <2>2, <2>3, <2>4, <2>5 DEF WorkerInv, Grows, Listed
<1>2. CASE StoreRun
  <2>1. /\ stored' = [stored EXCEPT ![worker.symbol] =
                      @ \cup {m \in FirstRun(worker.months) : m >= listed[worker.symbol]}]
        /\ worker' = [worker EXCEPT !.stored = TRUE]
        /\ UNCHANGED <<listed, covered, manual>> /\ worker # Idle
    BY <1>2 DEF StoreRun
  <2>2. /\ worker'.symbol = worker.symbol /\ worker'.months = worker.months
        /\ worker'.stored = TRUE
    BY <2>1 DEF StoreType
  <2>3. /\ \A s \in Symbols : stored[s] \subseteq stored'[s]
        /\ {m \in FirstRun(worker.months) : m >= listed[worker.symbol]}
             \subseteq stored'[worker.symbol]
    BY <1>0, <2>1 DEF StoreType
  <2>4. FirstRun(worker.months) \cap Listed(worker.symbol) \subseteq stored'[worker.symbol]
    BY <1>0, <2>3 DEF Listed
  <2>5. \A s \in Symbols : covered[s] \cap Listed(s) \subseteq stored'[s]
    BY <2>3 DEF WorkerInv
  <2>6. worker'.symbol # "none" /\ Months \subseteq covered[worker.symbol] \cup worker.months
    BY <1>0, <2>1, <2>2 DEF WorkerInv
  <2>7. Listed(worker.symbol)' = Listed(worker.symbol)
        /\ \A s \in Symbols : Listed(s)' = Listed(s)
    BY <2>1 DEF Listed
  <2>8. Grows
    BY <2>1, <2>3 DEF Grows
  <2> QED
    BY <2>1, <2>2, <2>4, <2>5, <2>6, <2>7, <2>8 DEF WorkerInv
<1>3. CASE RecordRun
  <2> DEFINE s == worker.symbol
             months == FirstRun(worker.months)
  <2>1. /\ worker.stored /\ s \in Symbols /\ worker # Idle
        /\ covered' = [covered EXCEPT ![s] = @ \cup months]
        /\ UNCHANGED <<listed, stored, manual>>
    BY <1>0, <1>3 DEF RecordRun
  <2>2. worker' = [symbol |-> s, months |-> worker.months \ months, stored |-> FALSE]
    BY <1>3, Zenon DEF RecordRun, StoreType
  <2>3. worker'.symbol = s /\ worker'.months = worker.months \ months /\ worker'.stored = FALSE
    BY <2>2
  <2>4. covered'[s] = covered[s] \cup months
        /\ \A t \in Symbols : t # s => covered'[t] = covered[t]
    BY <2>1 DEF StoreType
  <2>5. \A t \in Symbols : Listed(t)' = Listed(t)
    BY <2>1 DEF Listed
  <2>6. months \cap Listed(s) \subseteq stored[s]
    BY <2>1 DEF WorkerInv
  <2>7. Months \subseteq covered[s] \cup worker.months
    BY <2>1 DEF WorkerInv
  <2> HIDE DEF s, months
  <2>8. \A t \in Symbols : covered'[t] \cap Listed(t) \subseteq stored[t]
    BY <2>4, <2>6 DEF WorkerInv
  <2>9. Months \subseteq covered'[s] \cup (worker.months \ months)
    BY <2>4, <2>7
  <2>10. s # "none"
    BY <1>0, <2>1
  <2> QED
    BY <2>1, <2>3, <2>5, <2>8, <2>9, <2>10 DEF WorkerInv, Grows
<1>4. CASE JobEnds \/ JobFails
  <2>1. UNCHANGED <<listed, stored, covered, manual>> /\ worker' = Idle
    BY <1>4 DEF JobEnds, JobFails
  <2> QED
    BY <1>0, <2>1 DEF WorkerInv, Grows, Listed, Idle
<1>5. ASSUME NEW s \in ByHand, ManualBackfill(s) PROVE WorkerInv' /\ Grows
  <2>1. s \in Symbols
    BY AnalysisAssumption DEF AnalysisAssumption, Symbols
  <2>2. PICK from \in Months :
          /\ stored' = [stored EXCEPT ![s] = @ \cup {m \in from .. Window : m >= listed[s]}]
          /\ covered' = [covered EXCEPT ![s] = @ \cup from .. Window]
    BY <1>5 DEF ManualBackfill
  <2>3. UNCHANGED <<listed, worker>> /\ manual \subseteq manual'
    BY <1>5 DEF ManualBackfill
  <2>4. stored'[s] = stored[s] \cup {m \in from .. Window : m >= listed[s]}
        /\ \A t \in Symbols : t # s => stored'[t] = stored[t]
    BY <2>1, <2>2 DEF StoreType
  <2>5. covered'[s] = covered[s] \cup from .. Window
        /\ \A t \in Symbols : t # s => covered'[t] = covered[t]
    BY <2>1, <2>2 DEF StoreType
  <2>6. \A t \in Symbols : /\ stored[t] \subseteq stored'[t]
                          /\ covered[t] \subseteq covered'[t]
                          /\ Listed(t)' = Listed(t)
    BY <2>3, <2>4, <2>5 DEF Listed
  <2>7. \A t \in Symbols : covered'[t] \cap Listed(t) \subseteq stored'[t]
    BY <2>4, <2>5 DEF WorkerInv, Listed
  <2>8. worker # Idle => Months \subseteq covered'[worker.symbol] \cup worker.months
    BY <1>0, <2>6 DEF WorkerInv
  <2>9. worker.stored => FirstRun(worker.months) \cap Listed(worker.symbol)
                           \subseteq stored'[worker.symbol]
    BY <1>0, <2>6 DEF WorkerInv
  <2>10. Grows
    BY <2>3, <2>6 DEF Grows
  <2>11. Listed(worker.symbol)' = Listed(worker.symbol)
    BY <2>3 DEF Listed
  <2> QED
    BY <2>3, <2>6, <2>7, <2>8, <2>9, <2>10, <2>11 DEF WorkerInv
<1>6. ASSUME NEW s \in Symbols, EntryAges(s) PROVE WorkerInv' /\ Grows
  BY <1>6 DEF EntryAges, WorkerInv, Grows, Listed
<1> QED
  BY <1>1, <1>2, <1>3, <1>4, <1>5, <1>6 DEF StoreStep

LEMMA WholeStays ==
  ASSUME Grows, NEW s \in Symbols, WholeLookback(s)
  PROVE  WholeLookback(s)'
  BY DEF Grows, WholeLookback, Listed

LEMMA EnoughStays ==
  ASSUME StoreType, StoreType', Grows, NEW s \in Symbols, Enough(s)
  PROVE  Enough(s)'
<1>1. stored[s] \subseteq stored'[s] /\ stored'[s] \subseteq 1 .. Window
  BY DEF StoreType, Grows, Months
<1>2. IsFiniteSet(1 .. Window)
  BY FS_Interval, BoundsAreNumbers
<1>3. IsFiniteSet(stored[s]) /\ IsFiniteSet(stored'[s])
  BY <1>1, <1>2, FS_Subset
<1>4. Cardinality(stored[s]) <= Cardinality(stored'[s])
  BY <1>1, <1>3, FS_Subset
<1>5. Cardinality(stored[s]) \in Nat /\ Cardinality(stored'[s]) \in Nat
  BY <1>3, FS_CardinalityType
<1>6. MinMonths \in Nat
  BY AnalysisAssumption DEF AnalysisAssumption
<1> QED
  BY <1>4, <1>5, <1>6 DEF Enough

(* An entry of the open month is made new by the run that fetched the last *)
(* of what was left, or by hand.                                           *)
LEMMA RecentNext ==
  ASSUME StoreType, WorkerInv, WorkerInv', RecentInv, Grows, StoreStep
  PROVE  RecentInv'
<1>0. \A s \in recent : WholeLookback(s)'
  BY WholeStays DEF RecentInv, StoreType
<1>1. CASE RecordRun
  <2>1. worker.stored /\ worker # Idle /\ worker.months \in SUBSET Months
        /\ worker.symbol \in Symbols
    BY <1>1 DEF RecordRun, StoreType, WorkerInv, Idle
  <2>2. PICK s \in Symbols : s = worker.symbol
    BY <2>1
  <2>3. PICK months : months = FirstRun(worker.months)
    OBVIOUS
  <2>4. /\ covered' = [covered EXCEPT ![s] = @ \cup months]
        /\ recent' = IF Window \in months THEN recent \cup {s} ELSE recent
        /\ UNCHANGED <<listed, stored, manual>>
    BY <1>1, <2>2, <2>3 DEF RecordRun
  <2>5. ASSUME Window \in months
        PROVE  WholeLookback(s)'
    <3>1. months = worker.months
      BY <2>1, <2>3, <2>5, LastRunIsAll
    <3>2. Months \subseteq covered[s] \cup worker.months
      BY <2>1, <2>2 DEF WorkerInv
    <3>3. Months \subseteq covered'[s]
      BY <2>4, <3>1, <3>2 DEF StoreType
    <3>4. Listed(s)' \subseteq Months
      BY DEF Listed
    <3>5. covered'[s] \cap Listed(s)' \subseteq stored'[s]
      BY DEF WorkerInv
    <3> QED
      BY <3>3, <3>4, <3>5 DEF WholeLookback
  <2> QED
    BY <1>0, <2>4, <2>5 DEF RecentInv
<1>2. ASSUME NEW s \in ByHand, ManualBackfill(s) PROVE RecentInv'
  <2>1. recent' = recent \cup {s} /\ s \in manual'
    BY <1>2 DEF ManualBackfill
  <2> QED
    BY <1>0, <2>1 DEF RecentInv, WholeLookback
<1>3. CASE \/ Begin \/ StoreRun \/ JobEnds \/ JobFails
           \/ \E s \in Symbols : EntryAges(s)
  <2>1. recent' \subseteq recent
    BY <1>3 DEF Begin, StoreRun, JobEnds, JobFails, EntryAges
  <2> QED
    BY <1>0, <2>1 DEF RecentInv
<1> QED
  BY <1>1, <1>2, <1>3 DEF StoreStep

(* A handler gets past the stock with enough of it, or with an entry that  *)
(* is recent.                                                              *)
LEMMA PassesStock ==
  ASSUME HandlerType, RecentInv, HandlerInv, NEW a \in Attempts, HandlerStep(a), PastStock(a)'
  PROVE  Enough(Stock) \/ WholeLookback(Stock)
<1>1. CASE PastStock(a)
  BY <1>1 DEF HandlerInv
<1>2. CASE ~PastStock(a)
  <2>1. handler[a].symbol \in {Stock, Benchmark} /\ Stock # Benchmark
    BY AnalysisAssumption DEF HandlerType, Symbols, AnalysisAssumption
  <2>2. ASSUME NEW from, NEW to \in Places, Moves(a, from, to),
               from \in {"quota", "bars", "entry"} \/ to \notin {"quota", "bars", "entry"},
               to # "read"
        PROVE  FALSE
    <3>1. /\ handler[a].at = from /\ handler'[a].at = to
          /\ handler'[a].symbol = handler[a].symbol
      BY <2>2, PlaceMoves
    <3> QED
      BY <1>2, <2>2, <3>1 DEF PastStock
  <2>3. Places = Answers \cup {"none", "quota", "bars", "entry", "read", "context", "model",
                                "plain", "judge", "plain judge"}
        /\ Answers = {"ok", "pending", "error"}
    BY DEF Places, Answers
  <2>4. CASE CountBars(a)
    <3>1. ~Moves(a, "bars", "entry")
      BY <2>2, <2>3
    <3>2. Enough(handler[a].symbol) /\ handler[a].at = "bars"
      BY <2>4, <3>1 DEF CountBars, Moves
    <3> QED
      BY <1>2, <2>1, <3>2 DEF PastStock
  <2>5. CASE ReadEntry(a)
    <3>1. ~Moves(a, "entry", "pending")
      BY <2>2, <2>3
    <3>2. handler[a].symbol \in recent /\ handler[a].at = "entry"
      BY <2>5, <3>1 DEF ReadEntry, Moves
    <3> QED
      BY <1>2, <2>1, <3>2 DEF PastStock, RecentInv
  <2>6. ~Quota(a)
    BY <2>2, <2>3 DEF Quota
  <2>7. ~ReadBars(a)
    <3>1. ~Moves(a, "read", "context") /\ ~Moves(a, "read", "error")
      BY <2>2, <2>3
    <3> QED
      BY <3>1 DEF ReadBars
  <2>8. ~Context(a)
    <3>1. \A to \in {"model", "ok", "error"} : ~Moves(a, "context", to)
      BY <2>2, <2>3
    <3> QED
      BY <3>1 DEF Context
  <2>9. ~StreamText(a)
    <3>1. CASE Moves(a, "model", "ok") \/ Moves(a, "model", "error")
      BY <2>2, <2>3, <3>1
    <3>2. CASE handler' = [handler EXCEPT ![a].sent = @ + 1]
      BY <1>2, <3>2 DEF HandlerType, PastStock
    <3> QED
      BY <3>1, <3>2 DEF StreamText
  <2>10. ~Debate(a)
    <3>1. \A from \in {"model", "plain", "judge", "plain judge"},
             to \in {"plain", "judge", "plain judge", "ok", "error"} : ~Moves(a, from, to)
      BY <2>2, <2>3
    <3> QED
      BY <3>1 DEF Debate, CompleteJson
  <2> QED
    BY <2>4, <2>5, <2>6, <2>7, <2>8, <2>9, <2>10 DEF HandlerStep
<1> QED
  BY <1>1, <1>2

LEMMA HandlersNext ==
  ASSUME AnalysisTypeOK, RunInv, AnalysisTypeOK', RecentInv, HandlerInv,
         [AnalysisNext]_analysisVars, Grows
  PROVE  HandlerInv'
<1>0. StoreType /\ StoreType' /\ HandlerType
  BY AnalysisTypesAre DEF AnalysisTypeOK, StoreType
<1>1. Stock \in Symbols /\ Stock # Benchmark
  BY AnalysisAssumption DEF Symbols, AnalysisAssumption
<1>2. Enough(Stock) \/ WholeLookback(Stock) => (Enough(Stock) \/ WholeLookback(Stock))'
  BY <1>0, <1>1, EnoughStays, WholeStays
<1>3. CASE UNCHANGED handler
  BY <1>2, <1>3 DEF HandlerInv, PastStock
<1>4. ASSUME NEW n \in 1 .. MaxRuns, NEW i \in 1 .. MaxAttempts, Asks(n, i)
      PROVE  HandlerInv'
  <2>1. \A a \in Attempts : a # <<n, i>> =>
          handler'[a] = handler[a] \/ (handler'[a].at = "none" /\ handler'[a].sent = 0)
    BY <1>0, <1>4, AsksMoves, Zenon
  <2>2. <<n, i>> \in Attempts => handler'[<<n, i>>].at \in {"quota", "bars"}
                               /\ handler'[<<n, i>>].symbol = Stock
    BY <1>0, <1>4, AsksMoves
  <2>3. ASSUME NEW a \in Attempts, a # <<n, i>>, PastStock(a)'
        PROVE  PastStock(a)
    <3>1. CASE handler'[a] = handler[a]
      BY <2>3, <3>1 DEF PastStock
    <3>2. CASE handler'[a].at = "none"
      BY <2>3, <3>2 DEF PastStock
    <3> QED
      BY <2>1, <2>3, <3>1, <3>2
  <2>4. <<n, i>> \in Attempts => ~PastStock(<<n, i>>)'
    BY <1>1, <2>2 DEF PastStock
  <2>5. \A a \in Attempts : PastStock(a)' => PastStock(a)
    BY <2>3, <2>4
  <2> QED
    BY <1>2, <2>5 DEF HandlerInv
<1>5. CASE Start
  <2>1. 1 \in 1 .. MaxAttempts
    BY BoundsAreNumbers
  <2> QED
    BY <1>4, <1>5, <2>1, StartMoves
<1>6. CASE TriesAgain
  BY <1>4, <1>6, TryMoves
<1>7. ASSUME NEW a \in Attempts, HandlerStep(a)
      PROVE  HandlerInv'
  <2>1. \A b \in Attempts : b # a => handler'[b] = handler[b]
    BY <1>0, <1>7, StepsMove DEF HandlerMoves, OthersStay
  <2>2. \A b \in Attempts : b # a => (PastStock(b)' => PastStock(b))
    BY <2>1 DEF PastStock
  <2>3. PastStock(a)' => Enough(Stock) \/ WholeLookback(Stock)
    BY <1>0, <1>7, PassesStock
  <2> QED
    BY <1>2, <2>2, <2>3 DEF HandlerInv
<1>8. CASE Cancel \/ StoreStep
  BY <1>3, <1>8 DEF Cancel, StoreStep
<1>9. ASSUME NEW a \in Attempts, PageStep(a)
      PROVE  HandlerInv'
  BY <1>3, <1>9 DEF PageStep, Delta, Result, Fails, Waits
<1> QED
  BY <1>3, <1>5, <1>6, <1>7, <1>8, <1>9 DEF AnalysisNext, analysisVars

LEMMA StoreInvNext ==
  ASSUME AnalysisTypeOK, AnalysisTypeOK', RunInv, StoreInv, [AnalysisNext]_analysisVars
  PROVE  StoreInv'
<1>0. StoreType /\ HandlerType
  BY AnalysisTypesAre
<1>1. CASE StoreStep
  BY <1>0, <1>1, WorkerNext, RecentNext, HandlersNext DEF StoreInv
<1>2. CASE ~StoreStep
  <2>1. UNCHANGED <<listed, stored, covered, recent, worker, manual>>
    BY <1>2
    DEF AnalysisNext, Start, Cancel, TriesAgain, PageStep, Delta, Result, Fails, Waits,
        HandlerStep, Quota, CountBars, ReadEntry, ReadBars, Context, StreamText, Debate,
        analysisVars, store
  <2>2. WorkerInv' /\ RecentInv' /\ Grows
    BY <2>1 DEF StoreInv, WorkerInv, RecentInv, Grows, WholeLookback, Listed
  <2> QED
    BY <2>2, HandlersNext DEF StoreInv
<1> QED
  BY <1>1, <1>2

-----------------------------------------------------------------------------
(* The inductive invariant of an analysis.                                 *)
AnalysisInv == AnalysisTypeOK /\ PageInv /\ StoreInv

LEMMA AnalysisInvInit == AnalysisInit => AnalysisInv
<1> SUFFICES ASSUME AnalysisInit PROVE AnalysisInv
  OBVIOUS
<1>1. NotBegun \in [at : Places, symbol : Symbols, sent : 0 .. MaxChunks]
      /\ NotBegun.at = "none" /\ NotBegun.sent = 0
  BY BoundsAreNumbers DEF NotBegun, Places, Symbols
<1>2. HandlerType
  BY <1>1 DEF AnalysisInit, HandlerType
<1>3. RunType
  BY BoundsAreNumbers DEF AnalysisInit, RunType
<1>4. StoreType
  <2>1. worker \in [symbol : Symbols \cup {"none"}, months : SUBSET Months, stored : BOOLEAN]
    BY DEF AnalysisInit, Idle
  <2>2. stored \in [Symbols -> SUBSET Months]
    BY DEF AnalysisInit
  <2> QED
    BY <2>1, <2>2, BoundsAreNumbers DEF AnalysisInit, StoreType
<1>5. AnalysisTypeOK
  BY <1>2, <1>3, <1>4, AnalysisTypesAre DEF AnalysisInit
<1>6. \A a \in Attempts : handler[a] = NotBegun
  BY DEF AnalysisInit
<1>7. run.at = "idle"
  BY DEF AnalysisInit
<1>8. PageInv
  BY <1>1, <1>6, <1>7 DEF AnalysisInit, PageInv, RunInv, SentInv, AskingInv, PanelInv, OneShown
<1>9. StoreInv
  <2>1. \A s \in Symbols : covered[s] \cap Listed(s) \subseteq stored[s]
    BY DEF AnalysisInit, Listed
  <2>2. worker.stored = FALSE /\ worker = Idle /\ recent = {}
    BY DEF AnalysisInit, Idle
  <2>3. WorkerInv /\ RecentInv
    BY <2>1, <2>2 DEF WorkerInv, RecentInv
  <2>4. HandlerInv
    BY <1>1, <1>6 DEF HandlerInv, PastStock
  <2> QED
    BY <2>3, <2>4 DEF StoreInv
<1> QED
  BY <1>5, <1>8, <1>9 DEF AnalysisInv

LEMMA AnalysisInvNext == AnalysisInv /\ [AnalysisNext]_analysisVars => AnalysisInv'
<1> SUFFICES ASSUME AnalysisInv, [AnalysisNext]_analysisVars PROVE AnalysisInv'
  OBVIOUS
<1> USE DEF AnalysisInv, PageInv
<1>1. AnalysisTypeOK'
  BY AnalysisTypeNext DEF StoreInv
<1>2. RunInv' /\ SentInv'
  BY RunNext, SentNext
<1>3. AskingInv' /\ PanelInv'
  BY ShownNext
<1>4. StoreInv'
  BY <1>1, StoreInvNext
<1> QED
  BY <1>1, <1>2, <1>3, <1>4

LEMMA AnalysisInvariant == AnalysisSpec => []AnalysisInv
  BY AnalysisInvInit, AnalysisInvNext, PTL DEF AnalysisSpec

(* Every variable of an analysis keeps its type.                           *)
THEOREM AnalysisTypes == AnalysisSpec => []AnalysisTypeOK
<1>1. AnalysisInv => AnalysisTypeOK
  BY DEF AnalysisInv
<1> QED
  BY <1>1, AnalysisInvariant, PTL

(* Whatever handlers of earlier runs and attempts still do, a page shows   *)
(* the answer of one attempt; a panel none of an earlier run, a stream     *)
(* none of an earlier attempt, and a page that waits shows nothing.        *)
THEOREM PageShowsTheLatest == AnalysisSpec => []ShownIsLatest
<1>1. AnalysisInv => ShownIsLatest
  <2> SUFFICES ASSUME AnalysisInv PROVE ShownIsLatest
    OBVIOUS
  <2>1. PanelInv
    BY DEF AnalysisInv, PageInv
  <2>2. Cardinality(shown) <= 1
    <3>1. CASE shown = {}
      BY <3>1, FS_EmptySet
    <3>2. CASE shown # {}
      <4>1. PICK a : shown = {a}
        BY <2>1, <3>2 DEF PanelInv, OneShown
      <4>2. Cardinality(shown) = 1
        BY <4>1, FS_Singleton
      <4> QED
        BY <4>2
    <3> QED
      BY <3>1, <3>2
  <2> QED
    BY <2>1, <2>2 DEF ShownIsLatest, PanelInv
<1> QED
  BY <1>1, AnalysisInvariant, PTL

(* An analysis fails for too few bars only when all the months since the   *)
(* stock was listed are stored, however jobs fail and entries age, unless  *)
(* the stock was backfilled by hand: the entry that lets it go on is made  *)
(* new by the run that fetches the last of what is left.                   *)
THEOREM ShortOnlyWhenSynced == AnalysisSpec => ShortIsSynced
<1>1. AnalysisInv /\ [AnalysisNext]_analysisVars =>
        [\A a \in Attempts : ReadBars(a) /\ handler'[a].at = "error" =>
           Stock \in manual \/ {m \in Months : m >= listed[Stock]} \subseteq stored[Stock]
          ]_analysisVars
  <2> SUFFICES ASSUME AnalysisInv, NEW a \in Attempts, ReadBars(a), handler'[a].at = "error"
               PROVE  WholeLookback(Stock)
    BY DEF WholeLookback, Listed
  <2>1. handler[a].at = "read" /\ HandlerType
    BY AnalysisTypesAre DEF ReadBars, Moves, AnalysisInv
  <2>2. ~Enough(Stock)
    BY <2>1 DEF ReadBars, Moves, HandlerType
  <2> QED
    BY <2>1, <2>2 DEF AnalysisInv, StoreInv, HandlerInv, PastStock
<1> QED
  BY <1>1, AnalysisInvariant, PTL DEF AnalysisSpec, ShortIsSynced
-----------------------------------------------------------------------------
(* The parts side by side: a step is a step of one of them, and the others *)
(* stand still, so what holds of each on its own holds of all.             *)
LEMMA PartsImplemented == ServiceSpec => AccessSpec /\ WatchSpec /\ AnalysisSpec
<1>1. ServiceInit => AccessInit /\ WatchInit /\ AnalysisInit
  BY DEF ServiceInit
<1>2. [ServiceNext]_serviceVars =>
        [AccessNext]_accessVars /\ [WatchNext]_watchVars /\ [AnalysisNext]_analysisVars
  BY DEF ServiceNext, serviceVars
<1> QED
  BY <1>1, <1>2, PTL DEF ServiceSpec, AccessSpec, WatchSpec, AnalysisSpec

(* Logins and requests, watchlists and analyses keep the types of their    *)
(* tables, cookies, requests and pages.                                    *)
THEOREM ServiceTypes == ServiceSpec => []ServiceTypeOK
  BY PartsImplemented, AccessTypes, WatchTypes, AnalysisTypes, PTL DEF ServiceTypeOK
=============================================================================
