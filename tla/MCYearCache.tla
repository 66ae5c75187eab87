----------------------------- MODULE MCYearCache -----------------------------
(* Scaled-down times that keep the order of the real ones: a statement's     *)
(* delay is at most the debounce interval, which is shorter than the         *)
(* freshness thresholds, which are shorter than the prune age.               *)
EXTENDS YearCache, TLC

CONSTANTS r1, r2

MCRequests == {r1, r2}
Symmetry == Permutations(MCRequests)
=============================================================================
