---------------------------- MODULE MCLearntTiers ----------------------------
(* LearntTiers with LBDs on each side of the code's limits, and with its   *)
(* numbers of conflicts scaled down.                                       *)
EXTENDS LearntTiers

(* Core; core once core_lbd_cut is 5, else tier 2; tier 2; local.          *)
SomeLbds == {3, 5, 6, 8}
==============================================================================
