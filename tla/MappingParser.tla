---------------------------- MODULE MappingParser ----------------------------
(***************************************************************************)
(* parseAnibridgeJSON reads the mapping file key by key; for an entry with *)
(* a MAL or AniList ID, extractTVDB chooses one of its TVDB shows while it *)
(* ranges over a Go map, that is, in an order that changes from one load to*)
(* the next.                                                               *)
(*                                                                         *)
(* A target is a descriptor "tvdb_show:<id>:<scope>" with its source       *)
(* ranges; id 0 stands for one that does not have this form.  Of a scope   *)
(* only matters whether it is s1, and MAL and AniList IDs, which are kept  *)
(* in two maps, are one set.                                               *)
(***************************************************************************)
EXTENDS Integers

CONSTANTS
    Ids,           \* the MAL and AniList IDs of the file's keys
    Descriptors,   \* the places of an entry
    Targets,       \* what may be found at a place
    MaxRange,      \* bound on the episode numbers of a range
    Open           \* a range without an end, or of a single episode

Ranges == [first : 0 .. MaxRange, last : 0 .. MaxRange \cup {Open}]

\* Two ranges for a descriptor; one that is not there is one without episodes.
AllTargets == [tvdb : Nat, s1 : BOOLEAN, ranges : Ranges \X Ranges]
Nothing == [tvdb |-> 0, s1 |-> FALSE,
            ranges |-> <<[first |-> 0, last |-> 0], [first |-> 0, last |-> 0]>>]

ASSUME RangeAssumption == MaxRange \in Nat /\ Open \notin 0 .. MaxRange
ASSUME TargetsAssumption == Targets \subseteq AllTargets
ASSUME NoneAssumption == Nothing \notin Descriptors

VARIABLES
    pc,            \* "key" at the loop's head, "entry" in extractTVDB, "ok", "error"
    id,            \* the key being read
    entry,         \* targets: what each place of the entry holds
    todo,          \* the places that the range loop has yet to visit
    best,          \* the place of bestTVDB and bestEpCount, or Nothing
    foundS1,
    byId,          \* byMAL and byAniList: the TVDB ID of each ID, or 0
    cut,           \* the decoder stands before the end of the input, or bytes that
                   \* are not JSON, and does not get past them
    listed         \* auxiliary: the IDs for which the file, as it was before it was
                   \* cut, has a TVDB show, as far as it has been looked at

vars == <<pc, id, entry, todo, best, foundS1, byId, cut, listed>>

Empty == [d \in Descriptors |-> Nothing]

Init ==
    /\ pc = "key" /\ id \in Ids
    /\ entry = Empty /\ todo = {} /\ best = Nothing /\ foundS1 = FALSE
    /\ byId = [i \in Ids |-> 0]
    /\ cut = FALSE /\ listed = {}

-----------------------------------------------------------------------------
\* Changed form of Length: a range that ends before it begins is not looked for.
LengthBackward(r) ==
    IF r.first = 0 THEN 0 ELSE IF r.last = Open THEN 1 ELSE r.last - r.first + 1

\* countSourceEpisodes; a range without an end counts for one episode.
Length(r) ==
    IF r.first = 0 THEN 0
    ELSE IF r.last = Open THEN 1
    ELSE IF r.last < r.first THEN 0 ELSE r.last - r.first + 1

Episodes(t) == Length(t.ranges[1]) + Length(t.ranges[2])

Count(d) == IF d = Nothing THEN 0 ELSE Episodes(entry[d])

\* The locals hold values of their types, and no count of episodes is negative.
ParserTypeOK ==
    /\ pc \in {"key", "entry", "ok", "error"}
    /\ id \in Ids
    /\ entry \in [Descriptors -> AllTargets]
    /\ todo \subseteq Descriptors
    /\ best \in Descriptors \cup {Nothing}
    /\ foundS1 \in BOOLEAN
    /\ byId \in [Ids -> Nat]
    /\ cut \in BOOLEAN
    /\ listed \subseteq Ids
    /\ \A d \in Descriptors : Count(d) \in Nat

\* A target that extractTVDB takes if there is no better one.
Offers(t) == t.tvdb > 0 /\ (t.s1 \/ Episodes(t) > 0)

\* A key with an ID, and its entry; keys without one are skipped.
ReadEntry ==
    /\ pc = "key" /\ ~cut
    /\ pc' = "entry" /\ id' \in Ids
    /\ entry' \in [Descriptors -> Targets \cup {Nothing}]
    /\ todo' = Descriptors
    /\ best' = Nothing /\ foundS1' = FALSE
    /\ listed' = IF \E d \in Descriptors : Offers(entry'[d]) THEN listed \cup {id'} ELSE listed
    /\ UNCHANGED <<byId, cut>>

\* Changed forms of Visit: the s1 scopes are compared as the others are; the
\* others are not compared with the best so far.
VisitStrict(d) ==
    /\ pc = "entry" /\ d \in todo
    /\ todo' = todo \ {d}
    /\ LET wins == entry[d].tvdb > 0 /\ Count(d) > Count(best)
       IN  /\ best' = IF wins /\ (entry[d].s1 \/ ~foundS1) THEN d ELSE best
           /\ foundS1' = (foundS1 \/ (wins /\ entry[d].s1))
    /\ UNCHANGED <<pc, id, entry, byId, cut, listed>>

VisitLast(d) ==
    /\ pc = "entry" /\ d \in todo
    /\ todo' = todo \ {d}
    /\ LET s1Wins == entry[d].tvdb > 0 /\ entry[d].s1 /\ Count(d) >= Count(best)
           otherWins == entry[d].tvdb > 0 /\ ~foundS1 /\ Count(d) > 0
       IN  /\ best' = IF s1Wins \/ otherWins THEN d ELSE best
           /\ foundS1' = (foundS1 \/ s1Wins)
    /\ UNCHANGED <<pc, id, entry, byId, cut, listed>>

\* One round of the range loop.
Visit(d) ==
    /\ pc = "entry" /\ d \in todo
    /\ todo' = todo \ {d}
    /\ LET s1Wins == entry[d].tvdb > 0 /\ entry[d].s1 /\ Count(d) >= Count(best)
           otherWins == entry[d].tvdb > 0 /\ ~foundS1 /\ Count(d) > Count(best)
       IN  /\ best' = IF s1Wins \/ otherWins THEN d ELSE best
           /\ foundS1' = (foundS1 \/ s1Wins)
    /\ UNCHANGED <<pc, id, entry, byId, cut, listed>>

Chosen == IF best = Nothing THEN 0 ELSE entry[best].tvdb

\* A later entry of the same ID replaces an earlier one, if it has a TVDB ID.
Record ==
    /\ pc = "entry" /\ todo = {}
    /\ byId' = [byId EXCEPT ![id] = IF Chosen > 0 THEN Chosen ELSE @]
    /\ pc' = "key"
    /\ entry' = Empty /\ best' = Nothing /\ foundS1' = FALSE
    /\ UNCHANGED <<id, todo, cut, listed>>

\* The input ends, or is damaged, before the next key or in its value, which
\* extractTVDB and skipValue do not report.  Any IDs may have been in what is lost.
CutInValue ==
    /\ pc = "key" /\ ~cut
    /\ cut' = TRUE
    /\ \E lost \in SUBSET Ids : listed' = listed \cup lost
    /\ UNCHANGED <<pc, id, entry, todo, best, foundS1, byId>>

\* Changed form of Close: what comes after the loop's last round is not read.
CloseUnread ==
    /\ pc = "key"
    /\ pc' = "ok"
    /\ UNCHANGED <<id, entry, todo, best, foundS1, byId, cut, listed>>

\* The Token after the loop is the closing brace.
Close ==
    /\ pc = "key" /\ ~cut
    /\ pc' = "ok"
    /\ UNCHANGED <<id, entry, todo, best, foundS1, byId, cut, listed>>

\* The next Token is no string key, or after the loop no closing brace, or not there:
\* so it is when an error was not reported, as the decoder has not moved on.
Reject ==
    /\ pc = "key"
    /\ pc' = "error"
    /\ UNCHANGED <<id, entry, todo, best, foundS1, byId, cut, listed>>

\* The next load of a mapping.
Reload ==
    /\ pc \in {"ok", "error"}
    /\ pc' = "key" /\ byId' = [i \in Ids |-> 0] /\ cut' = FALSE /\ listed' = {}
    /\ UNCHANGED <<id, entry, todo, best, foundS1>>

Next ==
    \/ ReadEntry \/ (\E d \in Descriptors : Visit(d)) \/ Record
    \/ CutInValue \/ Close \/ Reject \/ Reload

Spec == Init /\ [][Next]_vars

-----------------------------------------------------------------------------
Usable(d) == entry[d].tvdb > 0
S1(d) == Usable(d) /\ entry[d].s1
Most(d) == \A e \in Descriptors : Usable(e) => Count(d) >= Count(e)

\* The whole entry has been looked at.
Ranged == pc = "entry" /\ todo = {}

\* If one of the scopes with the most source episodes is s1, such a scope is
\* chosen, in whatever order Go's map is walked (extractTVDB, anibridge.go:499-540).
DominantS1Chosen ==
    Ranged /\ (\E d \in Descriptors : S1(d) /\ Most(d)) =>
        best \in Descriptors /\ S1(best) /\ Most(best)

\* Without an s1 scope one with the most episodes is chosen, if it has any.
MostEpisodesChosen ==
    Ranged /\ (\A d \in Descriptors : ~S1(d))
           /\ (\E d \in Descriptors : Usable(d) /\ Count(d) > 0) =>
        best \in Descriptors /\ Usable(best) /\ Most(best)

\* Whatever the file holds and wherever it is cut or damaged, parseAnibridgeJSON
\* returns an error or a mapping of every ID for which the whole file has a TVDB show:
\* errors that extractTVDB and skipValue swallow, entries without a show and repeated
\* keys never make it a smaller one (anibridge.go:434-490).
NothingLost == pc = "ok" => \A i \in listed : byId[i] > 0
=============================================================================
