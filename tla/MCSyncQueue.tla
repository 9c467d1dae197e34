---------------------------- MODULE MCSyncQueue ----------------------------
(***************************************************************************)
(* Instances of SyncQueue for TLC.                                         *)
(***************************************************************************)
EXTENDS SyncQueue, TLC

CONSTANTS TW, stock, index, r1, r2, w1, w2, j1, j2, j3, j4

(* Keys in the order the code enqueues them: the markets first, then each  *)
(* symbol's price job before its flow job, the symbols in table order.     *)
MCRank ==
  [k \in Keys |->
     CASE k = MarketKey(TW)         -> 0
       [] k = SymbolKey(index)      -> 1
       [] k = SymbolKey(stock)      -> 2
       [] OTHER                     -> 3]

(* Row ids are only names.                                                 *)
JobSymmetry == Permutations(JobIds)
=============================================================================
