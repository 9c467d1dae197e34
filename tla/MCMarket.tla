----------------------------- MODULE MCMarket ------------------------------
(* Instances of MarketReads for TLC. *)
EXTENDS MarketReads

(* All days of a behaviour are in one month. *)
OneMonth == [d \in Days |-> 1]
=============================================================================
