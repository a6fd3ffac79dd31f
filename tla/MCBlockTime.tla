----------------------------- MODULE MCBlockTime -----------------------------
(* Instances of BlockTime; the cfgs give the switches and the horizon. *)
EXTENDS BlockTime
=============================================================================
