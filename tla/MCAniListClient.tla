--------------------------- MODULE MCAniListClient ---------------------------
(* Three shows on pages of one: a show can move past the place being read in *)
(* both directions, and the number of pages can change during the call.      *)
EXTENDS AniListClient

CONSTANTS a, b, c

MCShows == {a, b, c}
=============================================================================
