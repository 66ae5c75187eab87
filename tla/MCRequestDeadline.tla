-------------------------- MODULE MCRequestDeadline --------------------------
(* A list of two pages; an attempt is answered within a second, or ends with *)
(* the HTTP timeout.                                                         *)
EXTENDS RequestDeadline

MCDurations == {1, 30}
=============================================================================
