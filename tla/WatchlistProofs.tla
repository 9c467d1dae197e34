-------------------------- MODULE WatchlistProofs --------------------------
(***************************************************************************)
(* The watchlist keeps its limit and asks for what it lists, for every     *)
(* number of stocks and of requests that run side by side.                 *)
(***************************************************************************)
EXTENDS Watchlist, FiniteSetTheorems, TLAPS

(* A handler between the lock and the commit holds the lock, and one that  *)
(* is about to insert has counted: nobody else may add to the list.        *)
LockInv ==
  \A r \in Requests :
    /\ request[r].at \in {"exists", "count", "insert"} => lock = r
    /\ request[r].at = "insert" => Cardinality(items) < MaxItems

WatchInv == WithinLimit /\ LockInv /\ ListedIsWanted

USE DEF Handling, NotSent

-----------------------------------------------------------------------------
LEMMA WatchTypeInit == WatchInit => WatchTypeOK
<1> SUFFICES ASSUME WatchInit PROVE WatchTypeOK
  OBVIOUS
<1>1. \A r \in Requests : request[r].at \notin Handling
  BY DEF WatchInit
<1>2. request \in [Requests -> [at : Handling \cup {"none", "list", "answer", "error"},
                               symbol : Stocks \cup {NoRequest}, list : SUBSET Stocks]]
  BY DEF WatchInit
<1>3. errors \in 0 .. MaxErrors
  BY WatchAssumption DEF WatchInit, WatchAssumption
<1> QED
  BY <1>1, <1>2, <1>3 DEF WatchInit, WatchTypeOK

LEMMA WatchTypeNext == WatchTypeOK /\ [WatchNext]_watchVars => WatchTypeOK'
<1> SUFFICES ASSUME WatchTypeOK, [WatchNext]_watchVars PROVE WatchTypeOK'
  OBVIOUS
<1> USE DEF WatchTypeOK, Goes, UnderWay, Unlock, server, tab
<1>1. CASE UNCHANGED watchVars
  BY <1>1 DEF watchVars
<1>2. ASSUME NEW r \in Requests, Send(r) PROVE WatchTypeOK'
  BY <1>2 DEF Send
<1>3. ASSUME NEW r \in Requests, Refresh(r) PROVE WatchTypeOK'
  BY <1>3 DEF Refresh
<1>4. ASSUME NEW r \in Requests, Deliver(r) PROVE WatchTypeOK'
  BY <1>4 DEF Deliver
<1>5. ASSUME NEW r \in Requests, Lookup(r) PROVE WatchTypeOK'
  BY <1>5 DEF Lookup
<1>6. ASSUME NEW r \in Requests, Lock(r) PROVE WatchTypeOK'
  BY <1>6 DEF Lock
<1>7. ASSUME NEW r \in Requests, Exists(r) PROVE WatchTypeOK'
  BY <1>7 DEF Exists
<1>8. ASSUME NEW r \in Requests, Count(r) PROVE WatchTypeOK'
  BY <1>8 DEF Count
<1>9. ASSUME NEW r \in Requests, Insert(r) PROVE WatchTypeOK'
  BY <1>9 DEF Insert
<1>10. ASSUME NEW r \in Requests, QueueSync(r) PROVE WatchTypeOK'
  BY <1>10 DEF QueueSync
<1>11. ASSUME NEW r \in Requests, QueueRaises(r) PROVE WatchTypeOK'
  BY <1>11, WatchAssumption DEF QueueRaises, WatchAssumption
<1>12. ASSUME NEW r \in Requests, Delete(r) PROVE WatchTypeOK'
  BY <1>12 DEF Delete
<1>13. ASSUME NEW r \in Requests, List(r) PROVE WatchTypeOK'
  BY <1>13 DEF List
<1> QED
  BY <1>1, <1>2, <1>3, <1>4, <1>5, <1>6, <1>7, <1>8, <1>9, <1>10, <1>11, <1>12,
     <1>13 DEF WatchNext

(* Every variable of the watchlist keeps its type.                         *)
THEOREM WatchTypes == WatchSpec => []WatchTypeOK
  BY WatchTypeInit, WatchTypeNext, PTL DEF WatchSpec

-----------------------------------------------------------------------------
(* A step of a handler moves its own request only.                         *)
LEMMA GoesMoves ==
  ASSUME WatchTypeOK, NEW r \in Requests, NEW from, NEW to, Goes(r, from, to)
  PROVE  /\ request[r].at = from /\ request'[r].at = to
         /\ request'[r].symbol = request[r].symbol
         /\ \A o \in Requests : o # r => request'[o] = request[o]
  BY DEF WatchTypeOK, Goes

LEMMA WatchInvInit == WatchInit => WatchInv
  BY FS_EmptySet, WatchAssumption
  DEF WatchInit, WatchInv, WithinLimit, LockInv, ListedIsWanted, WatchAssumption

(* A step that adds nothing, keeps the lock and starts no part of an add.  *)
LEMMA WatchFrame ==
  ASSUME WatchTypeOK, WatchInv,
         items' \subseteq items, lock' = lock,
         wanted \cup unqueued \subseteq wanted' \cup unqueued',
         \A r \in Requests :
           /\ request'[r].at \in {"exists", "count", "insert"} => request'[r] = request[r]
           /\ request[r].at = "queue" => request'[r] = request[r]
  PROVE  WatchInv'
<1>1. IsFiniteSet(items) /\ IsFiniteSet(items')
  BY FS_Subset, WatchAssumption DEF WatchTypeOK, WatchAssumption
<1>2. Cardinality(items') <= Cardinality(items)
  BY <1>1, FS_Subset
<1>3. Cardinality(items) \in Nat /\ Cardinality(items') \in Nat
  BY <1>1, FS_CardinalityType
<1>4. WithinLimit'
  BY <1>2, <1>3, WatchAssumption DEF WatchInv, WithinLimit, WatchAssumption
<1>5. LockInv'
  BY <1>2, <1>3, WatchAssumption DEF WatchInv, LockInv, WatchAssumption
<1>6. ListedIsWanted'
  BY DEF WatchInv, ListedIsWanted
<1> QED
  BY <1>4, <1>5, <1>6 DEF WatchInv

LEMMA WatchInvNext == WatchTypeOK /\ WatchInv /\ [WatchNext]_watchVars => WatchInv'
<1> SUFFICES ASSUME WatchTypeOK, WatchInv, [WatchNext]_watchVars PROVE WatchInv'
  OBVIOUS
<1> USE DEF Unlock, server, tab
<1>0. /\ IsFiniteSet(items) /\ Cardinality(items) \in Nat /\ MaxItems \in Nat
  BY FS_Subset, FS_CardinalityType, WatchAssumption DEF WatchTypeOK, WatchAssumption
<1>1. CASE UNCHANGED watchVars
  BY <1>1, WatchFrame DEF watchVars
<1>2. ASSUME NEW r \in Requests, Send(r) PROVE WatchInv'
  BY <1>2, WatchFrame DEF Send, UnderWay, WatchTypeOK
<1>3. ASSUME NEW r \in Requests, Refresh(r) PROVE WatchInv'
  <2>1. \A o \in Requests :
          /\ request'[o].at \in {"exists", "count", "insert"} => request'[o] = request[o]
          /\ request[o].at = "queue" => request'[o] = request[o]
    <3> TAKE o \in Requests
    <3>1. CASE o = r
      BY <1>3, <3>1 DEF Refresh, UnderWay
    <3>2. CASE o # r /\ UnderWay(o) /\ request[o].symbol = NoRequest
      BY <1>3, <3>2, WatchAssumption DEF Refresh, UnderWay, WatchTypeOK, WatchAssumption
    <3>3. CASE o # r /\ ~(UnderWay(o) /\ request[o].symbol = NoRequest)
      BY <1>3, <3>3 DEF Refresh
    <3> QED
      BY <3>1, <3>2, <3>3
  <2> QED
    BY <1>3, <2>1, WatchFrame DEF Refresh
<1>4. ASSUME NEW r \in Requests, Deliver(r) PROVE WatchInv'
  BY <1>4, WatchFrame DEF Deliver, WatchTypeOK
<1>5. ASSUME NEW r \in Requests, Lookup(r) PROVE WatchInv'
  BY <1>5, GoesMoves, WatchFrame DEF Lookup
<1>6. ASSUME NEW r \in Requests, Lock(r) PROVE WatchInv'
  <2>1. /\ request[r].at = "lock" /\ request'[r].at = "exists"
        /\ \A o \in Requests : o # r => request'[o] = request[o]
    BY <1>6, GoesMoves DEF Lock
  <2>2. \A o \in Requests : request[o].at \notin {"exists", "count", "insert"}
    BY <1>6, WatchAssumption DEF Lock, WatchInv, LockInv, WatchAssumption
  <2>3. LockInv'
    BY <1>6, <2>1, <2>2 DEF Lock, LockInv
  <2>4. ListedIsWanted'
    BY <1>6, <2>1 DEF Lock, WatchInv, ListedIsWanted
  <2> QED
    BY <1>6, <2>3, <2>4 DEF Lock, WatchInv, WithinLimit
<1>7. ASSUME NEW r \in Requests, Exists(r) PROVE WatchInv'
  BY <1>7, GoesMoves DEF Exists, WatchInv, WithinLimit, LockInv, ListedIsWanted
<1>8. ASSUME NEW r \in Requests, Count(r) PROVE WatchInv'
  BY <1>8, <1>0, GoesMoves DEF Count, WatchInv, WithinLimit, LockInv, ListedIsWanted
<1>9. ASSUME NEW r \in Requests, Insert(r) PROVE WatchInv'
  <2>1. /\ request[r].at = "insert" /\ request'[r].at = "queue"
        /\ request'[r].symbol = request[r].symbol
        /\ \A o \in Requests : o # r => request'[o] = request[o]
    BY <1>9, GoesMoves DEF Insert
  <2>2. Cardinality(items') <= MaxItems
    <3>1. Cardinality(items) < MaxItems
      BY <2>1 DEF WatchInv, LockInv
    <3>2. items' = items \cup {request[r].symbol}
      BY <1>9 DEF Insert
    <3>3. Cardinality(items') \in {Cardinality(items), Cardinality(items) + 1}
      BY <1>0, <3>2, FS_AddElement
    <3> QED
      BY <1>0, <3>1, <3>3
  <2>3. \A o \in Requests : o # r => request[o].at \notin {"exists", "count", "insert"}
    BY <2>1 DEF WatchInv, LockInv
  <2>4. LockInv'
    BY <2>1, <2>3 DEF LockInv
  <2>5. ListedIsWanted'
    BY <1>9, <2>1 DEF Insert, WatchInv, ListedIsWanted
  <2> QED
    BY <2>2, <2>4, <2>5 DEF WatchInv, WithinLimit
<1>10. ASSUME NEW r \in Requests, QueueSync(r) PROVE WatchInv'
  BY <1>10, GoesMoves DEF QueueSync, WatchInv, WithinLimit, LockInv, ListedIsWanted
<1>11. ASSUME NEW r \in Requests, QueueRaises(r) PROVE WatchInv'
  BY <1>11, GoesMoves DEF QueueRaises, WatchInv, WithinLimit, LockInv, ListedIsWanted
<1>12. ASSUME NEW r \in Requests, Delete(r) PROVE WatchInv'
  BY <1>12, GoesMoves, WatchFrame DEF Delete
<1>13. ASSUME NEW r \in Requests, List(r) PROVE WatchInv'
  BY <1>13, WatchFrame DEF List, WatchTypeOK
<1> QED
  BY <1>1, <1>2, <1>3, <1>4, <1>5, <1>6, <1>7, <1>8, <1>9, <1>10, <1>11, <1>12,
     <1>13 DEF WatchNext

LEMMA WatchInvariant == WatchSpec => []WatchInv
  BY WatchInvInit, WatchInvNext, WatchTypes, PTL DEF WatchSpec

(* However many adds of a user count the list at the same time, it never   *)
(* has more than watchlist_max_items: the advisory lock is held from before *)
(* the count to the commit of the row.                                     *)
THEOREM ListKeepsItsLimit == WatchSpec => []WithinLimit
<1>1. WatchInv => WithinLimit
  BY DEF WatchInv
<1> QED
  BY <1>1, WatchInvariant, PTL

(* In every order of adds, removes and errors, a stock on the list was     *)
(* asked for, is about to be, or its request_symbol_sync raised.           *)
THEOREM ListedWasAskedFor == WatchSpec => []ListedIsWanted
<1>1. WatchInv => ListedIsWanted
  BY DEF WatchInv
<1> QED
  BY <1>1, WatchInvariant, PTL

-----------------------------------------------------------------------------
(* A tab that never had two requests under way at once: an answer on its   *)
(* way is the list as it is, and between two requests the tab shows it.    *)
LoneRequest == \A r, o \in Requests : UnderWay(r) /\ UnderWay(o) => r = o
AnswerIsList == \A r \in Requests : request[r].at = "answer" => request[r].list = items

LoneInv == ~overlapped => LoneRequest /\ AnswerIsList /\ LoneAnswersAreCurrent

(* A step of one request, which stays under way; an answer lists what is   *)
(* there.                                                                  *)
LEMMA LoneFrame ==
  ASSUME LoneInv, NEW r \in Requests, UnderWay(r), UnderWay(r)', overlapped' = overlapped,
         \A o \in Requests : o # r => request'[o] = request[o],
         request'[r].at = "answer" => request'[r].list = items'
  PROVE  LoneInv'
<1>1. SUFFICES ASSUME ~overlapped
               PROVE  LoneRequest' /\ AnswerIsList' /\ LoneAnswersAreCurrent'
  BY DEF LoneInv
<1>2. \A o \in Requests : o # r => ~UnderWay(o)
  BY <1>1 DEF LoneInv, LoneRequest
<1>3. \A o \in Requests : o # r => ~UnderWay(o)' /\ request'[o].at # "answer"
  BY <1>2 DEF UnderWay
<1>4. LoneRequest' /\ AnswerIsList'
  BY <1>3 DEF LoneRequest, AnswerIsList
<1>5. ~Quiet'
  BY DEF Quiet
<1> QED
  BY <1>4, <1>5 DEF LoneAnswersAreCurrent

LEMMA LoneGoes ==
  ASSUME WatchTypeOK, LoneInv, NEW r \in Requests, NEW from \in Handling,
         NEW to \in Handling \cup {"list", "error"}, Goes(r, from, to),
         overlapped' = overlapped
  PROVE  LoneInv'
<1>1. /\ request[r].at = from /\ request'[r].at = to
      /\ \A o \in Requests : o # r => request'[o] = request[o]
  BY GoesMoves
<1> QED
  BY <1>1, LoneFrame DEF UnderWay

LEMMA LoneNext == WatchTypeOK /\ LoneInv /\ [WatchNext]_watchVars => LoneInv'
<1> SUFFICES ASSUME WatchTypeOK, LoneInv, [WatchNext]_watchVars PROVE LoneInv'
  OBVIOUS
<1> USE DEF server, tab
<1>1. CASE UNCHANGED watchVars
  BY <1>1 DEF watchVars, LoneInv, LoneRequest, AnswerIsList, LoneAnswersAreCurrent, Quiet,
              UnderWay
<1>2. ASSUME NEW r \in Requests, Send(r) \/ Refresh(r), ~overlapped'
      PROVE  LoneRequest' /\ AnswerIsList' /\ LoneAnswersAreCurrent'
  <2>1. \A o \in Requests : ~UnderWay(o)
    BY <1>2 DEF Send, Refresh
  <2>2. /\ UnderWay(r)' /\ request'[r].at # "answer"
        /\ \A o \in Requests : o # r => request'[o] = request[o]
    <3>1. CASE Send(r)
      BY <3>1 DEF Send, UnderWay, WatchTypeOK
    <3>2. CASE Refresh(r)
      BY <2>1, <3>2 DEF Refresh, UnderWay
    <3> QED
      BY <1>2, <3>1, <3>2
  <2>3. \A o \in Requests : o # r => ~UnderWay(o)' /\ request'[o].at # "answer"
    BY <2>1, <2>2 DEF UnderWay
  <2>4. ~Quiet'
    BY <2>2 DEF Quiet
  <2> QED
    BY <2>2, <2>3, <2>4 DEF LoneRequest, AnswerIsList, LoneAnswersAreCurrent
<1>3. ASSUME NEW r \in Requests, Deliver(r), ~overlapped'
      PROVE  LoneRequest' /\ AnswerIsList' /\ LoneAnswersAreCurrent'
  <2>1. ~overlapped /\ items' = items /\ UnderWay(r)
    BY <1>3 DEF Deliver, UnderWay
  <2>2. \A o \in Requests : o # r => ~UnderWay(o)
    BY <2>1 DEF LoneInv, LoneRequest
  <2>3. \A o \in Requests : request'[o].at = "none"
    BY <1>3, <2>2 DEF Deliver, UnderWay, WatchTypeOK
  <2>4. missed' \/ stars' = items'
    BY <1>3, <2>1 DEF Deliver, LoneInv, AnswerIsList
  <2> QED
    BY <2>3, <2>4 DEF LoneRequest, AnswerIsList, LoneAnswersAreCurrent, UnderWay
<1>4. ASSUME NEW r \in Requests, Lookup(r) PROVE LoneInv'
  BY <1>4, LoneGoes DEF Lookup
<1>5. ASSUME NEW r \in Requests, Lock(r) PROVE LoneInv'
  BY <1>5, LoneGoes DEF Lock
<1>6. ASSUME NEW r \in Requests, Exists(r) PROVE LoneInv'
  BY <1>6, LoneGoes DEF Exists
<1>7. ASSUME NEW r \in Requests, Count(r) PROVE LoneInv'
  BY <1>7, LoneGoes DEF Count
<1>8. ASSUME NEW r \in Requests, Insert(r) PROVE LoneInv'
  BY <1>8, LoneGoes DEF Insert
<1>9. ASSUME NEW r \in Requests, QueueSync(r) PROVE LoneInv'
  BY <1>9, LoneGoes DEF QueueSync
<1>10. ASSUME NEW r \in Requests, QueueRaises(r) PROVE LoneInv'
  BY <1>10, LoneGoes DEF QueueRaises
<1>11. ASSUME NEW r \in Requests, Delete(r) PROVE LoneInv'
  BY <1>11, LoneGoes DEF Delete
<1>12. ASSUME NEW r \in Requests, List(r) PROVE LoneInv'
  <2>1. /\ request[r].at = "list" /\ request'[r].at = "answer"
        /\ request'[r].list = items' /\ overlapped' = overlapped
        /\ \A o \in Requests : o # r => request'[o] = request[o]
    BY <1>12 DEF List, WatchTypeOK
  <2> QED
    BY <2>1, LoneFrame DEF UnderWay
<1> QED
  BY <1>1, <1>2, <1>3, <1>4, <1>5, <1>6, <1>7, <1>8, <1>9, <1>10, <1>11, <1>12
  DEF WatchNext, LoneInv

(* A tab that sends one request at a time and heard no error last shows    *)
(* the list of the server, whatever the handlers did with it: each answer  *)
(* is a list read after its change.                                        *)
THEOREM LoneTabIsCurrent == WatchSpec => []LoneAnswersAreCurrent
<1>1. WatchInit => LoneInv
  BY DEF WatchInit, LoneInv, LoneRequest, AnswerIsList, LoneAnswersAreCurrent, UnderWay
<1>2. LoneInv => LoneAnswersAreCurrent
  BY DEF LoneInv, LoneAnswersAreCurrent
<1> QED
  BY <1>1, <1>2, LoneNext, WatchTypes, PTL DEF WatchSpec
=============================================================================
