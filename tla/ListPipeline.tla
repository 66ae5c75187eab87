---------------------------- MODULE ListPipeline ----------------------------
(***************************************************************************)
(* Scheduler.Process: from the cached list of a year to the answer of GET  *)
(* /list.  The December shows of the prior year's list, read from the cache*)
(* later than the year's own, are merged in; the filters run one after the *)
(* other; then every show is looked up in the mapping that is in force at  *)
(* that moment, while the refresh worker may swap it.                      *)
(*                                                                         *)
(* The clock of the future filter is FutureWindow; a day may pass between  *)
(* two requests.  Titles, which decide nothing, and rows that are not JSON,*)
(* which SetYear never writes, are left out; tags are compared in lower    *)
(* case, and are written so.                                               *)
(***************************************************************************)
EXTENDS FutureWindow, Sequences, Functions

CONSTANTS
    YearLists,      \* the lists the row of the requested year may hold
    PriorLists,     \* those of the prior year
    Mappings,       \* [byMAL, byAniList] : ID -> TVDB ID, 0 where there is none
    None,           \* no row, no mapping, no value
    IncludeTypes, ExcludeTags, FilterFutureEnabled

Seasons == {"WINTER", "SPRING", "SUMMER", "FALL"}

Lists == YearLists \cup PriorLists
Ids == {s.id : s \in UNION {Range(l) : l \in Lists}}

\* A doubled show, which a page that shifted may leave in a list, is the same twice.
ASSUME ListsAssumption ==
    /\ \A l \in Lists : l \in Seq(Range(l))
    /\ \A l \in Lists : \A s, t \in Range(l) : s.id = t.id => s = t
    /\ None \notin 1 .. 12
    /\ \A l \in Lists : \A s \in Range(l) :
           s.season \in Seasons \cup {""} /\ s.month \in 1 .. 12 \cup {None}
ASSUME MappingsAssumption ==
    /\ None \notin Mappings
    /\ \A m \in Mappings : \A l \in Lists : \A s \in Range(l) :
           /\ m.byAniList[s.id] \in Nat
           /\ s.mal # None /\ s.mal > 0 => m.byMAL[s.mal] \in Nat

VARIABLES
    pc,             \* "idle", "prior", "check", "resolve", "answered"
    season, category,
    data,           \* the year's list, read by the handler
    prior,          \* the prior year's list as Process read it, or None
    shows,          \* the slice that the filters pass on
    i,              \* ResolveBatch's next index
    resolved,       \* its result: the TVDB ID of each AniList ID, or 0
    mapping,        \* the resolver's pointer
    used            \* auxiliary: the mappings that were in force since the request

vars == <<pc, season, category, data, prior, shows, i, resolved, mapping, used, today>>

Init ==
    /\ pc = "idle" /\ season = "ALL" /\ category = "series"
    /\ data = <<>> /\ prior = None /\ shows = <<>>
    /\ i = 1 /\ resolved = [a \in Ids |-> 0]
    /\ mapping \in Mappings \cup {None}
    /\ used = {}
    /\ ClockInit

-----------------------------------------------------------------------------
\* The loop of every filter: the shows that are good, in the list's order.
Kept(list, good) ==
    LET kept[n \in 0 .. Len(list)] ==
            IF n = 0 THEN <<>>
            ELSE IF list[n] \in good THEN Append(kept[n - 1], list[n]) ELSE kept[n - 1]
    IN  kept[Len(list)]

\* Changed form of InSeason: December is autumn's too.
InSeasonLate(s, name) ==
    \/ s.season = name
    \/ /\ s.season = "" /\ s.month # None
       /\ CASE name = "WINTER" -> s.month \in {12, 1, 2, 3}
            [] name = "SPRING" -> s.month \in 4 .. 6
            [] name = "SUMMER" -> s.month \in 7 .. 9
            [] name = "FALL"   -> s.month \in 10 .. 12

InSeason(s, name) ==
    \/ s.season = name
    \/ /\ s.season = "" /\ s.month # None
       /\ CASE name = "WINTER" -> s.month \in {12, 1, 2, 3}
            [] name = "SPRING" -> s.month \in 4 .. 6
            [] name = "SUMMER" -> s.month \in 7 .. 9
            [] name = "FALL"   -> s.month \in {10, 11}

FilterBySeason(list, name) ==
    IF name = "ALL" THEN list ELSE Kept(list, {s \in Range(list) : InSeason(s, name)})

FilterByFormats(list) == Kept(list, {s \in Range(list) : s.format \in IncludeTypes})

SkipByDuration(s) == s.duration # None /\ s.duration <= 10
HasExcludedTag(s) == \E t \in ExcludeTags : t # "" /\ t \in s.tags
Filter(list) ==
    Kept(list, {s \in Range(list) : ~SkipByDuration(s) /\ ~HasExcludedTag(s)})

\* A show whose start is not known is not held back.
Near(s) ==
    \/ s.year = None \/ s.month = None
    \/ IsWithinMonths([month |-> 12 * s.year + s.month - 1, day |-> 1])

FilterFuture(list) ==
    IF AheadMonths <= 0 THEN list ELSE Kept(list, {s \in Range(list) : Near(s)})

IsNew(s) == s.relations \cap {"PREQUEL", "PARENT"} = {}
FilterFirstSeason(list) == Kept(list, {s \in Range(list) : IsNew(s)})

\* Changed forms of Merge: without the map of what was seen; in front of the list.
MergeUnseen(list, previous) ==
    LET winter == FilterBySeason(previous, "WINTER")
    IN  list \o Kept(winter, {s \in Range(winter) : s.month = 12})
MergeFirst(list, previous) ==
    LET winter == FilterBySeason(previous, "WINTER")
        merged[n \in 0 .. Len(winter)] ==
            IF n = 0 THEN list
            ELSE IF winter[n].month = 12 /\ \A t \in Range(merged[n - 1]) : t.id # winter[n].id
            THEN <<winter[n]>> \o merged[n - 1] ELSE merged[n - 1]
    IN  merged[Len(winter)]

\* The winter overflow; `seen' also meets the doubled shows of the prior list.
Merge(list, previous) ==
    LET winter == FilterBySeason(previous, "WINTER")
        merged[n \in 0 .. Len(winter)] ==
            IF n = 0 THEN list
            ELSE IF winter[n].month = 12 /\ \A t \in Range(merged[n - 1]) : t.id # winter[n].id
            THEN Append(merged[n - 1], winter[n]) ELSE merged[n - 1]
    IN  merged[Len(winter)]

\* Process up to resolveShows, for a request and the two lists.
Selected(name, cat, list, previous) ==
    LET merged == IF name \in {"WINTER", "ALL"} /\ previous # None
                  THEN Merge(list, previous) ELSE list
        kept == Filter(FilterByFormats(FilterBySeason(merged, name)))
        near == IF FilterFutureEnabled THEN FilterFuture(kept) ELSE kept
    IN  IF cat = "series-new" THEN FilterFirstSeason(near) ELSE near

-----------------------------------------------------------------------------
\* The handler has found the resolver loaded and has read the year's list.
Request(name, cat) ==
    /\ pc = "idle" /\ mapping # None
    /\ season' = name /\ category' = cat
    /\ data' \in YearLists
    /\ used' = {mapping}
    /\ pc' = "prior"
    /\ UNCHANGED <<prior, shows, i, resolved, mapping, today>>

\* GetYear(year - 1), if the season asks for it: any list by now, or no row.
Select ==
    /\ pc = "prior"
    /\ prior' \in IF season \in {"WINTER", "ALL"} THEN PriorLists \cup {None} ELSE {None}
    /\ shows' = Selected(season, category, data, prior')
    /\ pc' = "check"
    /\ UNCHANGED <<season, category, data, i, resolved, mapping, used, today>>

\* resolveShows answers at once if there is no mapping.
CheckMapping ==
    /\ pc = "check"
    /\ pc' = IF mapping = None THEN "answered" ELSE "resolve"
    /\ i' = 1 /\ resolved' = [a \in Ids |-> 0]
    /\ UNCHANGED <<season, category, data, prior, shows, mapping, used, today>>

\* Changed form of Lookup: AniList IDs only, and a miss is -1.
LookupMiss(m, s) ==
    IF m = None \/ (m.byAniList[s.id] = 0) THEN -1
    ELSE m.byAniList[s.id]

\* MAL first; AniList if there is no MAL ID, or it is not in the mapping.
Lookup(m, s) ==
    IF m = None THEN 0
    ELSE IF s.mal # None /\ s.mal > 0 /\ m.byMAL[s.mal] # 0 THEN m.byMAL[s.mal]
    ELSE m.byAniList[s.id]

\* One round of ResolveBatch, which loads the pointer again.
Resolve ==
    /\ pc = "resolve" /\ i <= Len(shows)
    /\ resolved' = [resolved EXCEPT ![shows[i].id] = Lookup(mapping, shows[i])]
    /\ i' = i + 1
    /\ UNCHANGED <<pc, season, category, data, prior, shows, mapping, used, today>>

Finish ==
    /\ pc = "resolve" /\ i > Len(shows)
    /\ pc' = "answered"
    /\ UNCHANGED <<season, category, data, prior, shows, i, resolved, mapping, used, today>>

\* What resolveShows returns: the shows of the slice that have a TVDB ID.
Answer == Kept(shows, {s \in Range(shows) : resolved[s.id] # 0})

NextRequest ==
    /\ pc = "answered"
    /\ pc' = "idle" /\ season' = "ALL" /\ category' = "series"
    /\ data' = <<>> /\ prior' = None /\ shows' = <<>>
    /\ i' = 1 /\ resolved' = [a \in Ids |-> 0] /\ used' = {}
    /\ UNCHANGED <<mapping, today>>

\* Changed form of RefreshMapping: what a failed load returned is stored.
RefreshMappingUnchecked ==
    \E m \in Mappings \cup {None} :
        /\ mapping' = m
        /\ used' = IF pc = "idle" THEN used ELSE used \cup ({m} \ {None})
        /\ UNCHANGED <<pc, season, category, data, prior, shows, i, resolved, today>>

\* LoadResolver and refreshMapping: m is None if the load failed.
RefreshMapping ==
    \E m \in Mappings \cup {None} :
        /\ mapping' = IF m = None THEN mapping ELSE m
        /\ used' = IF pc = "idle" THEN used ELSE used \cup ({m} \ {None})
        /\ UNCHANGED <<pc, season, category, data, prior, shows, i, resolved, today>>

\* The date matters only while Select runs; days pass between the requests.
Midnight ==
    /\ pc = "idle"
    /\ NextDay
    /\ UNCHANGED <<pc, season, category, data, prior, shows, i, resolved, mapping, used>>

Next ==
    \/ \E name \in Seasons \cup {"ALL"}, cat \in {"series", "series-new"} : Request(name, cat)
    \/ Select \/ CheckMapping \/ Resolve \/ Finish \/ NextRequest
    \/ RefreshMapping \/ Midnight

Spec == Init /\ [][Next]_vars

-----------------------------------------------------------------------------
\* The slices hold shows of the lists, and the loop stays within its slice.
PipelineTypeOK ==
    /\ pc \in {"idle", "prior", "check", "resolve", "answered"}
    /\ season \in Seasons \cup {"ALL"} /\ category \in {"series", "series-new"}
    /\ data \in YearLists \cup {<<>>}
    /\ prior \in PriorLists \cup {None}
    /\ Range(shows) \subseteq Range(data) \cup (IF prior = None THEN {} ELSE Range(prior))
    /\ i \in 1 .. Len(shows) + 1
    /\ resolved \in [Ids -> Nat]
    /\ mapping \in Mappings \cup {None}
    /\ used \subseteq Mappings
    /\ WindowTypeOK

\* Although each show is looked up in whatever mapping is in force at that moment, a
\* show that every one of them knows is answered, and none is answered with an ID that
\* none of them gave it; in particular a refresh that fails in between takes nothing
\* out of the answer (resolve.go:36-75, scheduler.go:233-247).
AnsweredAsMapped ==
    pc = "answered" => \A s \in Range(shows) :
        /\ (\A m \in used : Lookup(m, s) # 0) => resolved[s.id] # 0
        /\ resolved[s.id] # 0 => \E m \in used : resolved[s.id] = Lookup(m, s)

DistinctShows(list) == \A a, b \in 1 .. Len(list) : list[a].id = list[b].id => a = b

\* The overflow brings in no show a second time: one that AniList has moved from one
\* year's list to the other between the two fetches, or that the prior list holds
\* twice (the map `seen', scheduler.go:154-168).
OverflowAddsOnce ==
    pc = "answered" /\ DistinctShows(data) => DistinctShows(Answer)

\* The answer keeps AniList's order of popularity, the year's own shows first.
PopularityKept ==
    pc = "answered" => \A a, b \in 1 .. Len(Answer) :
        a < b /\ Answer[b] \in Range(data) =>
            \E j, k \in 1 .. Len(data) : j < k /\ data[j] = Answer[a] /\ data[k] = Answer[b]

\* The four seasons divide up what season=ALL selects of the same lists: a show with a
\* season or a start month is in exactly one, the December shows of the prior year in
\* WINTER (filter.go:90-127, scheduler.go:148-174).
SeasonsDivideAll ==
    pc = "check" /\ season = "ALL" =>
        \A s \in Range(shows) : s.season # "" \/ s.month # None =>
            \E n \in Seasons : \A other \in Seasons :
                s \in Range(Selected(other, category, data, prior)) <=> other = n
=============================================================================
