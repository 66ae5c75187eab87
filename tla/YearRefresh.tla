----------------------------- MODULE YearRefresh -----------------------------
(***************************************************************************)
(* What Scheduler.FetchAndStore promises to the rest of the program,       *)
(* without saying how: a year is refreshed by one refresh at a time, a     *)
(* refresh writes the year's row at most once, and what it writes was read *)
(* from AniList after the refresh began.  Nothing else writes rows; pruning*)
(* and clearing only remove them.                                          *)
(*                                                                         *)
(* Data is abstracted to a version number: upstream[y] counts the changes  *)
(* AniList published for year y, rows[y] is the version of the row of the  *)
(* table year_cache, or Absent.                                            *)
(***************************************************************************)
EXTENDS Integers

CONSTANTS
    Years,         \* the years that can be asked for
    MaxVersion     \* bound on the versions AniList publishes

Absent == 0
Versions == 1 .. MaxVersion
Phases == {"none", "reading", "done"}

VARIABLES
    upstream,      \* newest version AniList has of each year
    rows,          \* version of the cached row of each year, or Absent
    phase,         \* the year's refresh: none, not yet written, finished
    since          \* upstream's version when the refresh began

vars == <<upstream, rows, phase, since>>

Init ==
    /\ upstream = [y \in Years |-> 1]
    /\ rows \in [Years -> {Absent, 1}]
    /\ phase = [y \in Years |-> "none"]
    /\ since = [y \in Years |-> 0]

\* AniList changes the list of year y.
Publish(y) ==
    /\ upstream[y] < MaxVersion
    /\ upstream' = [upstream EXCEPT ![y] = @ + 1]
    /\ UNCHANGED <<rows, phase, since>>

\* Pruning or clearing removes the rows of the years in S.
Evict(S) ==
    /\ rows' = [y \in Years |-> IF y \in S THEN Absent ELSE rows[y]]
    /\ UNCHANGED <<upstream, phase, since>>

Begin(y) ==
    /\ phase[y] = "none"
    /\ phase' = [phase EXCEPT ![y] = "reading"]
    /\ since' = [since EXCEPT ![y] = upstream[y]]
    /\ UNCHANGED <<upstream, rows>>

\* The refresh ends its work, with the row written or with an error.
Commit(y) ==
    /\ phase[y] = "reading"
    /\ phase' = [phase EXCEPT ![y] = "done"]
    /\ \/ \E v \in since[y] .. upstream[y] : rows' = [rows EXCEPT ![y] = v]
       \/ UNCHANGED rows
    /\ since' = [since EXCEPT ![y] = 0]
    /\ UNCHANGED upstream

End(y) ==
    /\ phase[y] = "done"
    /\ phase' = [phase EXCEPT ![y] = "none"]
    /\ UNCHANGED <<upstream, rows, since>>

\* The process dies and is started again: the rows survive on disk.
Restart ==
    /\ phase' = [y \in Years |-> "none"]
    /\ since' = [y \in Years |-> 0]
    /\ UNCHANGED <<upstream, rows>>

Next ==
    \/ \E y \in Years : Publish(y) \/ Begin(y) \/ Commit(y) \/ End(y)
    \/ \E S \in SUBSET Years : Evict(S)
    \/ Restart

Spec == Init /\ [][Next]_vars
=============================================================================
