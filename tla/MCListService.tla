---------------------------- MODULE MCListService ----------------------------
(* One year that clients ask for and the year before it, which only winter  *)
(* overflow and the stale-refresh worker fetch.                             *)
EXTENDS ListService, TLC

CONSTANTS r1, r2, main0, stale0

OneRequest == {r1}
TwoRequests == {r1, r2}
MCWorkers == {main0, stale0}
Symmetry == Permutations(TwoRequests)
=============================================================================
