--------------------------- MODULE MCListPipeline ---------------------------
(* Requests for 2024, in the days around the ends of September and November  *)
(* 2023: three months on is the end of the year, and the end of a February   *)
(* of 29 days.  Lists of up to two shows: one that is *)
(* in both years' lists, those of December, January and February, one without*)
(* a MAL ID, shows without a season, a year or a month, and one for each     *)
(* filter; and lists that hold a show twice.                                 *)
EXTENDS ListPipeline

S(id, mal, sn, year, month, format, duration, tags, relations) ==
    [id |-> id, mal |-> mal, season |-> sn, year |-> year, month |-> month,
     format |-> format, duration |-> duration, tags |-> tags, relations |-> relations]

Plain(id, sn, year, month) == S(id, id, sn, year, month, "TV", 24, {}, {})

Dec == Plain(1, "WINTER", 2023, 12)
DecLast == Plain(2, "", 2023, 12)
Jan == S(3, None, "WINTER", 2024, 1, "TV", None, {"drama"}, {"PREQUEL", "SEQUEL"})
Old == Plain(4, "WINTER", 2022, 12)
Spring == S(5, 5, "SPRING", None, None, "ONA", 11, {}, {"SIDE_STORY"})
Fall == S(6, 6, "", 2024, 11, "TV", 24, {}, {"PARENT"})
FallLast == Plain(6, "FALL", 2023, 12)
Unknown == S(7, 0, "", None, None, "TV", None, {}, {})
Short == S(8, 8, "WINTER", 2023, 12, "TV", 10, {}, {})
Tagged == S(9, 9, "WINTER", 2023, 12, "TV", 24, {"drama", "ecchi"}, {})
Movie == S(10, 10, "WINTER", 2024, 1, "MOVIE", 90, {}, {})
Feb == S(11, 11, "", 2024, 2, "TV", 24, {}, {})
Mar == S(12, 12, "WINTER", 2024, 3, "TV", 24, {}, {})
DecLate == Plain(13, "", None, 12)

ListsOf(singles, paired) ==
    {<<>>} \cup {<<s>> : s \in singles} \cup {<<s, t>> : s, t \in paired}
MCYearLists == ListsOf({Spring, Fall, Short, Tagged, Movie, Mar, DecLate},
                       {Dec, Jan, Unknown, Feb})
MCPriorLists == ListsOf({FallLast, Short, Tagged}, {Dec, DecLast, Old})

Map(base, mal, aniList) ==
    [byMAL |-> [a \in 1 .. 13 |-> IF a \in mal THEN base + a ELSE 0],
     byAniList |-> [a \in 1 .. 13 |-> IF a \in aniList THEN base + 50 + a ELSE 0]]
MCMappings == {Map(100, 1 .. 13, {3, 7}), Map(200, {2, 6}, {1, 7})}

Day(year, month, day) == [month |-> 12 * year + month - 1, day |-> day]
MCFirstDays == {Day(2023, 9, 30), Day(2023, 11, 28)}
MCLastDays == {Day(2023, 10, 1), Day(2023, 12, 1)}
MCMonths == {12 * 2023 + 11, 12 * 2024 + 1, 12 * 2024 + 2}
MCIncludeTypes == {"TV", "ONA"}
MCExcludeTags == {"", "ecchi"}
=============================================================================
