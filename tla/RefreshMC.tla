----------------------------- MODULE RefreshMC ------------------------------
(* Instances of Refresh for TLC.                                           *)
EXTENDS Refresh

CONSTANTS l1, l2, w1, w2

TwoLibraries == {l1, l2}
TwoWorkers   == {w1, w2}
=============================================================================
