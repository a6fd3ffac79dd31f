-------------------------- MODULE MCMissingRanges ---------------------------
(* Instance of RangeScrape in which uint64 has MaxHeight + 1 values. *)
EXTENDS RangeScrape
=============================================================================
