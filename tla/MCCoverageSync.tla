--------------------------- MODULE MCCoverageSync ---------------------------
(***************************************************************************)
(* Instances of CoverageSync for TLC: months of two days, or days.         *)
(***************************************************************************)
EXTENDS CoverageSync

CONSTANTS SliceDays, worker, request

MCLastDay == [m \in 0 .. Slices |-> m * SliceDays]
=============================================================================
