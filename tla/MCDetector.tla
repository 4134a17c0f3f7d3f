----------------------------- MODULE MCDetector -----------------------------
(* Detector for TLC: three kinds of flows, their projections onto a line,  *)
(* and a percentile that few samples tell from the maximum.                *)
EXTENDS Detector

CONSTANTS f1, f2, f3

MCFeatures == {f1, f2, f3}

MCSpace == {0, 1, 3, 4}
=============================================================================
