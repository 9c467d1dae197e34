------------------------------ MODULE CrawlDesk ------------------------------
(***************************************************************************)
(* What the sync queue promises to whoever asks for data: one desk per     *)
(* (kind, symbol) on which requests collapse.  A crawl starts only when it *)
(* was asked for, a request is never dropped without a crawl, and while a  *)
(* crawl is outstanding further requests change nothing.                   *)
(***************************************************************************)
CONSTANT Keys

VARIABLE desk  \* what is outstanding for each key

TypeOK == desk \in [Keys -> {"idle", "waiting", "crawling"}]

Init == desk = [k \in Keys |-> "idle"]

Move(k, from, to) == desk[k] = from /\ desk' = [desk EXCEPT ![k] = to]

Ask(k)   == Move(k, "idle", "waiting")
Begin(k) == Move(k, "waiting", "crawling")
End(k)   == Move(k, "crawling", "idle")

(* Crawls that failed or were found dead wait for another attempt.         *)
Again(K) ==
  /\ \A k \in K : desk[k] = "crawling"
  /\ desk' = [k \in Keys |-> IF k \in K THEN "waiting" ELSE desk[k]]

Next ==
  \/ \E k \in Keys : Ask(k) \/ Begin(k) \/ End(k)
  \/ \E K \in SUBSET Keys : Again(K)

Spec == Init /\ [][Next]_desk

(* What waits is crawled, and what is crawled again and again ends.        *)
FairSpec ==
  Spec /\ \A k \in Keys : WF_desk(Begin(k)) /\ SF_desk(End(k))
=============================================================================
