---------------------------- MODULE MCRateLimiter ----------------------------
(* A tick is 700 ms: 5 s are 7 ticks and 30 s are 43.  Three goroutines: the *)
(* prewarm or a request, the worker, and one whose request is under way when *)
(* another's is answered with 429.                                           *)
EXTENDS RateLimiter, TLC

CONSTANTS g1, g2, g3

MCGoroutines == {g1, g2, g3}
MCSymmetry == Permutations(MCGoroutines)
=============================================================================
