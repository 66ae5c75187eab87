------------------------- MODULE ListPipelineProofs -------------------------
(***************************************************************************)
(* Proofs about ListPipeline, for lists of any length, any mappings and any*)
(* number of months ahead.  The window never moves back; a filter's loop,  *)
(* by induction over its rounds, returns the good shows in the list's      *)
(* order, and the overflow's loop the list and behind it shows with new    *)
(* IDs; so what Process passes on is a slice of one base list.  The        *)
(* invariant says so of every state, and what the lookups made so far owe  *)
(* to the mappings that were in force.                                     *)
(***************************************************************************)
EXTENDS ListPipeline, SequenceTheorems, WellFoundedInduction, TLAPS

-----------------------------------------------------------------------------
(* The window.  All the proofs need of the calendar is that a month has     *)
(* between 28 and 31 days; MonthsAssumption makes the months numbers.       *)

\* The lengths of the months.
LEMMA MonthLength ==
  ASSUME NEW m \in Nat
  PROVE  DaysIn(m) \in 28 .. 31
BY DEF DaysIn

\* AddDate returns a date, in the month asked for or, on its first days, the next.
LEMMA AddDateValid ==
  ASSUME NEW d, Valid(d), NEW k \in Nat
  PROVE  /\ Valid(AddDate(d, k))
         /\ AddDate(d, k).month = IF d.day <= DaysIn(d.month + k) THEN d.month + k
                                                                  ELSE d.month + k + 1
<1>1. d.month \in Nat /\ d.day \in 1 .. 31 /\ d.month + k \in Nat /\ d.month + k + 1 \in Nat
  BY DEF Valid, Dates
<1>2. DaysIn(d.month + k) \in 28 .. 31 /\ DaysIn(d.month + k + 1) \in 28 .. 31
  BY <1>1, MonthLength
<1>3. CASE d.day <= DaysIn(d.month + k)
  <2>1. AddDate(d, k) = [month |-> d.month + k, day |-> d.day]
    BY <1>3 DEF AddDate
  <2> QED
    BY <1>1, <1>3, <2>1 DEF Valid, Dates
<1>4. CASE ~(d.day <= DaysIn(d.month + k))
  <2>1. AddDate(d, k) = [month |-> d.month + k + 1, day |-> d.day - DaysIn(d.month + k)]
    BY <1>4 DEF AddDate
  <2>2. d.day - DaysIn(d.month + k) \in 1 .. 3
    BY <1>1, <1>2, <1>4
  <2>3. d.day - DaysIn(d.month + k) <= DaysIn(d.month + k + 1)
    BY <1>2, <2>2
  <2> QED
    BY <1>1, <1>4, <2>1, <2>2, <2>3 DEF Valid, Dates
<1> QED
  BY <1>3, <1>4

\* The clock never shows a day its month does not have.
LEMMA TodayStaysValid == Valid(today) /\ [NextDay]_today => Valid(today)'
<1> SUFFICES ASSUME Valid(today), NextDay PROVE Valid(today)'
  BY DEF Valid
<1>1. today.month \in Nat /\ today.day \in 1 .. 31
  BY DEF Valid, Dates
<1>2. DaysIn(today.month) \in 28 .. 31 /\ DaysIn(today.month + 1) \in 28 .. 31
  BY <1>1, MonthLength
<1>3. CASE today.day < DaysIn(today.month)
  <2>1. today' = [today EXCEPT !.day = today.day + 1]
    BY <1>3 DEF NextDay
  <2>2. today' \in Dates /\ today'.month = today.month /\ today'.day = today.day + 1
    BY <1>1, <1>2, <1>3, <2>1 DEF Valid, Dates
  <2> QED
    BY <1>1, <1>2, <1>3, <2>2 DEF Valid
<1>4. CASE ~(today.day < DaysIn(today.month))
  <2>1. today' = [month |-> today.month + 1, day |-> 1]
    BY <1>4 DEF NextDay
  <2> QED
    BY <1>1, <1>2, <2>1 DEF Valid, Dates
<1> QED
  BY <1>3, <1>4

\* Then the limit is a date as well.
LEMMA ValidWindow == Valid(today) => WindowTypeOK
BY MonthsAssumption, AddDateValid DEF WindowTypeOK, Limit

\* No day takes a show out of the window.
LEMMA ListedStep ==
  Valid(today) /\ Valid(today)' /\ [NextDay]_today =>
    [\A start \in [month : Months, day : {1}] :
         IsWithinMonths(start) => IsWithinMonths(start)']_today
<1> USE MonthsAssumption
<1> SUFFICES ASSUME Valid(today), Valid(today)', NextDay,
                    NEW start \in [month : Months, day : {1}],
                    IsWithinMonths(start)
             PROVE  IsWithinMonths(start)'
  OBVIOUS
<1> DEFINE first == [start EXCEPT !.day = 1]
<1>1. first.month \in Int /\ first.day = 1
  OBVIOUS
<1>2. today.month \in Nat /\ today.day \in 1 .. 31 /\ Valid(today')
  BY DEF Valid, Dates
<1>3. today'.month \in Nat /\ today'.day \in 1 .. 31
  BY <1>2 DEF Valid, Dates
<1>4. Limit.month = IF today.day <= DaysIn(today.month + AheadMonths)
                    THEN today.month + AheadMonths ELSE today.month + AheadMonths + 1
  BY AddDateValid DEF Limit
<1>5. Limit' = AddDate(today', AheadMonths)
  BY DEF Limit
<1>6. AddDate(today', AheadMonths).month =
        IF today'.day <= DaysIn(today'.month + AheadMonths)
        THEN today'.month + AheadMonths ELSE today'.month + AheadMonths + 1
  BY <1>2, AddDateValid
<1>7. Limit.month <= Limit'.month
  <2>1. CASE today.day < DaysIn(today.month)
    <3>1. today'.month = today.month /\ today'.day = today.day + 1
      BY <1>2, <2>1 DEF NextDay, Valid, Dates
    <3>2. DaysIn(today.month + AheadMonths) \in 28 .. 31
      BY <1>2, MonthLength
    <3> QED
      BY <1>2, <1>4, <1>5, <1>6, <3>1, <3>2
  <2>2. CASE ~(today.day < DaysIn(today.month))
    <3>1. today'.month = today.month + 1 /\ today'.day = 1
      BY <2>2 DEF NextDay
    <3>2. DaysIn(today'.month + AheadMonths) \in 28 .. 31
      BY <1>3, MonthLength
    <3> QED
      BY <1>2, <1>4, <1>5, <1>6, <3>1, <3>2
  <2> QED
    BY <2>1, <2>2
<1>8. Valid(Limit) /\ Valid(Limit')
  BY <1>2, <1>5, AddDateValid DEF Limit
<1>9. NotAfter(first, Limit)
  BY DEF IsWithinMonths
<1>10. NotAfter(first, Limit')
  BY <1>1, <1>7, <1>8, <1>9 DEF NotAfter, Valid, Dates
<1> QED
  BY <1>10 DEF IsWithinMonths

-----------------------------------------------------------------------------
(* Loops over a list.  What a loop keeps is proved by induction over the    *)
(* index, with the set of the indices at which it holds; an index of a loop *)
(* of L rounds at which it fails has a least one.                           *)

\* Induction up to L, over a set.
LEMMA Induction ==
  ASSUME NEW L \in Nat, NEW S, 0 \in S,
         \A n \in 1 .. L : n - 1 \in S => n \in S
  PROVE  0 .. L \subseteq S
<1> DEFINE Bad == {n \in 0 .. L : n \notin S}
<1> SUFFICES ASSUME Bad # {} PROVE FALSE
  OBVIOUS
<1>1. Bad \subseteq Nat
  OBVIOUS
<1> DEFINE Less == OpToRel(<, Nat)
<1>2. IsWellFoundedOn(Less, Nat)
  BY NatLessThanWellFounded
<1>3. \A m \in Nat : <<m, m + 1>> \in Less
  BY DEF OpToRel
<1> HIDE DEF Bad, Less
<1>4. PICK n \in Bad : \A m \in Bad : ~(<<m, n>> \in Less)
  BY <1>1, <1>2, WFMin
<1>5. n \in 1 .. L /\ n \notin S
  BY DEF Bad
<1>6. n - 1 \in Bad
  BY <1>5 DEF Bad
<1>7. n - 1 \in Nat /\ (n - 1) + 1 = n
  BY <1>5
<1>8. <<n - 1, (n - 1) + 1>> \in Less
  BY <1>3, <1>7
<1> QED
  BY <1>4, <1>6, <1>7, <1>8

\* f holds the values in T that k rounds, started with base, go through.
Runs(f, k, T, base, round) ==
  /\ f \in [0 .. k -> T]
  /\ f[0] = base
  /\ \A n \in 1 .. k : f[n] = round[<<f[n - 1], n>>]

\* A loop of L rounds has such values.
LEMMA LoopExists ==
  ASSUME NEW L \in Nat, NEW T, NEW base \in T, NEW round \in [T \X (1 .. L) -> T]
  PROVE  \E f : Runs(f, L, T, base, round)
<1> DEFINE S == {k \in 0 .. L : \E f : Runs(f, k, T, base, round)}
<1>1. 0 \in S
  <2>1. [n \in 0 .. 0 |-> base] \in [0 .. 0 -> T] /\ [n \in 0 .. 0 |-> base][0] = base
    OBVIOUS
  <2>2. 1 .. 0 = {}
    OBVIOUS
  <2>3. Runs([n \in 0 .. 0 |-> base], 0, T, base, round)
    BY <2>1, <2>2 DEF Runs
  <2> QED
    BY <2>3
<1>2. ASSUME NEW k \in 1 .. L, k - 1 \in S PROVE k \in S
  <2>1. PICK f : Runs(f, k - 1, T, base, round)
    BY <1>2
  <2> DEFINE g == [n \in 0 .. k |-> IF n = k THEN round[<<f[k - 1], k>>] ELSE f[n]]
  <2>2. f[k - 1] \in T /\ round[<<f[k - 1], k>>] \in T
    <3>1. k - 1 \in 0 .. k - 1
      OBVIOUS
    <3>2. f[k - 1] \in T
      BY <2>1, <3>1 DEF Runs
    <3>3. <<f[k - 1], k>> \in T \X (1 .. L)
      BY <3>2
    <3> QED
      BY <3>2, <3>3
  <2>3. g \in [0 .. k -> T] /\ g[0] = base
    BY <2>1, <2>2 DEF Runs
  <2>4. ASSUME NEW n \in 1 .. k PROVE g[n] = round[<<g[n - 1], n>>]
    <3>1. n - 1 \in 0 .. k /\ n - 1 # k /\ g[n - 1] = f[n - 1]
      OBVIOUS
    <3>2. CASE n = k
      BY <3>1, <3>2
    <3>3. CASE n # k
      <4>1. n \in 1 .. k - 1 /\ g[n] = f[n]
        BY <3>3
      <4> QED
        BY <2>1, <3>1, <4>1 DEF Runs
    <3> QED
      BY <3>2, <3>3
  <2> HIDE DEF g
  <2>5. Runs(g, k, T, base, round)
    BY <2>3, <2>4 DEF Runs
  <2> QED
    BY <2>5
<1> HIDE DEF S
<1>3. L \in S
  BY <1>1, <1>2, Induction
<1> QED
  BY <1>3 DEF S

\* If every round stays in T, the loop does.
LEMMA LoopTyped ==
  ASSUME NEW L \in Nat, NEW T, NEW k, k = [n \in 0 .. L |-> k[n]],
         k[0] \in T, \A n \in 1 .. L : k[n - 1] \in T => k[n] \in T
  PROVE  k \in [0 .. L -> T]
<1> DEFINE S == {n \in 0 .. L : k[n] \in T}
<1>1. 0 \in S
  OBVIOUS
<1>2. \A n \in 1 .. L : n - 1 \in S => n \in S
  OBVIOUS
<1> HIDE DEF S
<1>3. 0 .. L \subseteq S
  BY <1>1, <1>2, Induction
<1>4. \A n \in 0 .. L : k[n] \in T
  BY <1>3 DEF S
<1> QED
  BY <1>4

\* The rounds of a filter's loop.
KeepsIn(k, T, list, good) ==
  /\ k \in [0 .. Len(list) -> Seq(T)]
  /\ k[0] = <<>>
  /\ \A n \in 1 .. Len(list) :
        k[n] = IF list[n] \in good THEN Append(k[n - 1], list[n]) ELSE k[n - 1]
  /\ Kept(list, good) = k[Len(list)]

LEMMA KeptRounds ==
  ASSUME NEW T, NEW list \in Seq(T), NEW good
  PROVE  \E k : KeepsIn(k, T, list, good)
<1> DEFINE L == Len(list)
           Round(s, n) == IF list[n] \in good THEN Append(s, list[n]) ELSE s
           Body(k) == [n \in 0 .. L |-> IF n = 0 THEN <<>> ELSE Round(k[n - 1], n)]
           kept == CHOOSE k : k = Body(k)
<1>1. L \in Nat /\ <<>> \in Seq(T) /\ \A n \in 1 .. L : list[n] \in T
  OBVIOUS
<1>2. Kept(list, good) = kept[L]
  BY DEF Kept
<1>3. \A s \in Seq(T) : \A n \in 1 .. L : Round(s, n) \in Seq(T)
  BY <1>1
<1>4. \A s, n : Round(s, n) = IF list[n] \in good THEN Append(s, list[n]) ELSE s
  OBVIOUS
<1> HIDE DEF L, Round
<1>5. \E k : k = Body(k)
  <2> DEFINE round == [p \in Seq(T) \X (1 .. L) |-> Round(p[1], p[2])]
  <2>1. round \in [Seq(T) \X (1 .. L) -> Seq(T)]
    BY <1>3
  <2>2. \A s \in Seq(T) : \A n \in 1 .. L : round[<<s, n>>] = Round(s, n)
    OBVIOUS
  <2> HIDE DEF round
  <2>3. PICK f : Runs(f, L, Seq(T), <<>>, round)
    BY <1>1, <2>1, LoopExists, Zenon
  <2>4. ASSUME NEW n \in 1 .. L PROVE f[n] = Round(f[n - 1], n)
    <3>1. f[n - 1] \in Seq(T)
      BY <1>1, <2>3 DEF Runs
    <3> QED
      BY <2>2, <2>3, <3>1 DEF Runs
  <2>5. f[0] = <<>> /\ f = [n \in 0 .. L |-> f[n]]
    BY <2>3 DEF Runs
  <2>6. \A n \in 0 .. L : n # 0 => n \in 1 .. L
    BY <1>1
  <2>7. \A n \in 0 .. L : f[n] = IF n = 0 THEN <<>> ELSE Round(f[n - 1], n)
    BY <2>4, <2>5, <2>6, Zenon
  <2>8. f = Body(f)
    BY <2>5, <2>7, Zenon
  <2> QED
    BY <2>8
<1>6. kept = Body(kept)
  <2> HIDE DEF Body
  <2> QED
    BY <1>5
<1> HIDE DEF kept
<1>7. DOMAIN kept = 0 .. L
      /\ \A n \in 0 .. L : kept[n] = IF n = 0 THEN <<>> ELSE Round(kept[n - 1], n)
  BY <1>6, Zenon
<1>8. 0 \in 0 .. L /\ \A n \in 1 .. L : n \in 0 .. L /\ n # 0
  BY <1>1
<1>9. kept[0] = <<>> /\ \A n \in 1 .. L : kept[n] = Round(kept[n - 1], n)
  BY <1>7, <1>8, Zenon
<1>10. \A n \in 1 .. L : kept[n - 1] \in Seq(T) => kept[n] \in Seq(T)
  BY <1>3, <1>9
<1>11. kept = [n \in 0 .. L |-> kept[n]]
  BY <1>6
<1>12. kept \in [0 .. L -> Seq(T)]
  BY <1>1, <1>9, <1>10, <1>11, LoopTyped, Zenon
<1> QED
  BY <1>2, <1>4, <1>9, <1>12, Zenon DEF L, KeepsIn

\* u is v with some of its elements left out.
Embeds(u, v) ==
  \E g \in [1 .. Len(u) -> 1 .. Len(v)] :
     /\ \A a, b \in 1 .. Len(u) : a < b => g[a] < g[b]
     /\ \A a \in 1 .. Len(u) : u[a] = v[g[a]]

\* What a filter returns: the good shows, all of them, in the list's order.
LEMMA KeptProperties ==
  ASSUME NEW T, NEW list \in Seq(T), NEW good
  PROVE  /\ Kept(list, good) \in Seq(T)
         /\ Embeds(Kept(list, good), list)
         /\ Range(Kept(list, good)) = Range(list) \cap good
<1>1. PICK k : KeepsIn(k, T, list, good)
  BY KeptRounds, Zenon
<1>2. /\ k \in [0 .. Len(list) -> Seq(T)]
      /\ k[0] = <<>>
      /\ \A n \in 1 .. Len(list) :
            k[n] = IF list[n] \in good THEN Append(k[n - 1], list[n]) ELSE k[n - 1]
      /\ Kept(list, good) = k[Len(list)]
  BY <1>1, Zenon DEF KeepsIn
<1> DEFINE L == Len(list)
           Fits(n, g) == /\ g \in [1 .. Len(k[n]) -> 1 .. n]
                         /\ \A a, b \in 1 .. Len(k[n]) : a < b => g[a] < g[b]
                         /\ \A a \in 1 .. Len(k[n]) : k[n][a] = list[g[a]] /\ k[n][a] \in good
                         /\ \A j \in 1 .. n : list[j] \in good =>
                               \E a \in 1 .. Len(k[n]) : k[n][a] = list[j]
           S == {n \in 0 .. L : \E g : Fits(n, g)}
<1>3. L \in Nat /\ list \in [1 .. L -> T]
  OBVIOUS
<1>4. 0 \in S
  <2>1. Len(k[0]) = 0 /\ 1 .. 0 = {}
    BY <1>2
  <2>2. Fits(0, [n \in {} |-> n])
    BY <2>1
  <2> HIDE DEF Fits
  <2> QED
    BY <1>3, <2>2
<1>5. ASSUME NEW n \in 1 .. L, n - 1 \in S PROVE n \in S
  <2>1. PICK g : Fits(n - 1, g)
    BY <1>5
  <2>2. n - 1 \in 0 .. L /\ n \in 0 .. L /\ k[n - 1] \in Seq(T) /\ list[n] \in T
    BY <1>2, <1>3
  <2> DEFINE u == k[n - 1]
  <2>3. CASE list[n] \in good
    <3> DEFINE h == [a \in 1 .. Len(u) + 1 |-> IF a = Len(u) + 1 THEN n ELSE g[a]]
    <3>1. k[n] = Append(u, list[n])
      BY <1>2, <2>3
    <3>2. Len(k[n]) = Len(u) + 1 /\ k[n][Len(u) + 1] = list[n] /\ Len(u) \in Nat
          /\ \A a \in 1 .. Len(u) : k[n][a] = u[a]
      BY <2>2, <3>1
    <3> HIDE DEF u
    <3>3. h \in [1 .. Len(k[n]) -> 1 .. n]
      BY <2>1, <3>2 DEF u
    <3>4. ASSUME NEW a \in 1 .. Len(k[n]), NEW b \in 1 .. Len(k[n]), a < b
          PROVE  h[a] < h[b]
      <4>1. a \in 1 .. Len(u) /\ h[a] = g[a]
        BY <3>2, <3>4
      <4>2. g[a] \in 1 .. n - 1
        BY <2>1, <4>1 DEF u
      <4>3. CASE b = Len(u) + 1
        BY <3>2, <4>1, <4>2, <4>3
      <4>4. CASE b # Len(u) + 1
        BY <2>1, <3>2, <3>4, <4>1, <4>4 DEF u
      <4> QED
        BY <4>3, <4>4
    <3>5. ASSUME NEW a \in 1 .. Len(k[n])
          PROVE  k[n][a] = list[h[a]] /\ k[n][a] \in good
      <4>1. CASE a = Len(u) + 1
        BY <2>3, <3>2, <4>1
      <4>2. CASE a # Len(u) + 1
        <5>1. a \in 1 .. Len(u) /\ h[a] = g[a]
          BY <3>2, <4>2
        <5> QED
          BY <2>1, <3>2, <5>1 DEF u
      <4> QED
        BY <4>1, <4>2
    <3>6. ASSUME NEW j \in 1 .. n, list[j] \in good
          PROVE  \E a \in 1 .. Len(k[n]) : k[n][a] = list[j]
      <4>1. CASE j = n
        <5>1. Len(u) + 1 \in 1 .. Len(k[n])
          BY <3>2
        <5> QED
          BY <3>2, <4>1, <5>1
      <4>2. CASE j # n
        <5>1. j \in 1 .. n - 1
          BY <4>2
        <5>2. PICK a \in 1 .. Len(u) : u[a] = list[j]
          BY <2>1, <3>6, <5>1 DEF u
        <5>3. a \in 1 .. Len(k[n]) /\ k[n][a] = u[a]
          BY <3>2, <5>2
        <5> QED
          BY <5>2, <5>3
      <4> QED
        BY <4>1, <4>2
    <3> HIDE DEF h
    <3>7. Fits(n, h)
      BY <3>3, <3>4, <3>5, <3>6
    <3> HIDE DEF Fits
    <3> QED
      BY <2>2, <3>7
  <2>4. CASE list[n] \notin good
    <3>1. k[n] = u
      BY <1>2, <2>4
    <3>2. Fits(n, g)
      <4>1. g \in [1 .. Len(k[n]) -> 1 .. n]
        BY <2>1, <3>1
      <4>2. \A j \in 1 .. n : list[j] \in good => j \in 1 .. n - 1
        BY <2>4
      <4> QED
        BY <2>1, <3>1, <4>1, <4>2
    <3> HIDE DEF Fits
    <3> QED
      BY <2>2, <3>2
  <2> QED
    BY <2>3, <2>4
<1> HIDE DEF S, L
<1>6. L \in S
  BY <1>3, <1>4, <1>5, Induction
<1>7. PICK g : Fits(L, g)
  BY <1>6 DEF S
<1>8. k[L] \in Seq(T) /\ k[L] = Kept(list, good) /\ Len(k[L]) \in Nat
  BY <1>2, <1>3 DEF L
<1>9. Embeds(k[L], list)
  BY <1>7 DEF Embeds, L
<1>10. Range(k[L]) = Range(list) \cap good
  <2>1. DOMAIN list = 1 .. L /\ DOMAIN k[L] = 1 .. Len(k[L])
    BY <1>3, <1>8
  <2>2. \A a \in 1 .. Len(k[L]) : g[a] \in 1 .. L /\ k[L][a] = list[g[a]] /\ k[L][a] \in good
    BY <1>7
  <2>3. \A j \in 1 .. L : list[j] \in good => \E a \in 1 .. Len(k[L]) : k[L][a] = list[j]
    BY <1>7
  <2>4. Range(k[L]) \subseteq Range(list) \cap good
    BY <2>1, <2>2 DEF Range
  <2>5. Range(list) \cap good \subseteq Range(k[L])
    BY <2>1, <2>3 DEF Range
  <2> QED
    BY <2>4, <2>5
<1> QED
  BY <1>8, <1>9, <1>10

\* The rounds of the overflow's loop over the winter shows of the prior list.
MergesIn(k, T, list, winter) ==
  /\ k \in [0 .. Len(winter) -> Seq(T)]
  /\ k[0] = list
  /\ \A n \in 1 .. Len(winter) :
        k[n] = IF winter[n].month = 12 /\ \A t \in Range(k[n - 1]) : t.id # winter[n].id
               THEN Append(k[n - 1], winter[n]) ELSE k[n - 1]

LEMMA MergeRounds ==
  ASSUME NEW T, NEW list \in Seq(T), NEW previous,
         FilterBySeason(previous, "WINTER") \in Seq(T)
  PROVE  LET winter == FilterBySeason(previous, "WINTER")
         IN  \E k : MergesIn(k, T, list, winter) /\ Merge(list, previous) = k[Len(winter)]
<1> DEFINE winter == FilterBySeason(previous, "WINTER")
           L == Len(winter)
           Round(s, n) == IF winter[n].month = 12 /\ \A t \in Range(s) : t.id # winter[n].id
                          THEN Append(s, winter[n]) ELSE s
           Body(k) == [n \in 0 .. L |-> IF n = 0 THEN list ELSE Round(k[n - 1], n)]
           merged == CHOOSE k : k = Body(k)
<1>1. L \in Nat /\ list \in Seq(T) /\ \A n \in 1 .. L : winter[n] \in T
  OBVIOUS
<1>2. Merge(list, previous) = merged[L]
  BY DEF Merge
<1>3. \A s \in Seq(T) : \A n \in 1 .. L : Round(s, n) \in Seq(T)
  BY <1>1
<1>4. \A s, n : Round(s, n) =
                    IF winter[n].month = 12 /\ \A t \in Range(s) : t.id # winter[n].id
                    THEN Append(s, winter[n]) ELSE s
  OBVIOUS
<1> HIDE DEF L, Round
<1>5. \E k : k = Body(k)
  <2> DEFINE round == [p \in Seq(T) \X (1 .. L) |-> Round(p[1], p[2])]
  <2>1. round \in [Seq(T) \X (1 .. L) -> Seq(T)]
    BY <1>3
  <2>2. \A s \in Seq(T) : \A n \in 1 .. L : round[<<s, n>>] = Round(s, n)
    OBVIOUS
  <2> HIDE DEF round
  <2>3. PICK f : Runs(f, L, Seq(T), list, round)
    BY <1>1, <2>1, LoopExists, Zenon
  <2>4. ASSUME NEW n \in 1 .. L PROVE f[n] = Round(f[n - 1], n)
    <3>1. f[n - 1] \in Seq(T)
      BY <1>1, <2>3 DEF Runs
    <3> QED
      BY <2>2, <2>3, <3>1 DEF Runs
  <2>5. f[0] = list /\ f = [n \in 0 .. L |-> f[n]]
    BY <2>3 DEF Runs
  <2>6. \A n \in 0 .. L : n # 0 => n \in 1 .. L
    BY <1>1
  <2>7. \A n \in 0 .. L : f[n] = IF n = 0 THEN list ELSE Round(f[n - 1], n)
    BY <2>4, <2>5, <2>6, Zenon
  <2>8. f = Body(f)
    BY <2>5, <2>7, Zenon
  <2> QED
    BY <2>8
<1>6. merged = Body(merged)
  <2> HIDE DEF Body
  <2> QED
    BY <1>5
<1> HIDE DEF merged
<1>7. DOMAIN merged = 0 .. L
      /\ \A n \in 0 .. L : merged[n] = IF n = 0 THEN list ELSE Round(merged[n - 1], n)
  BY <1>6, Zenon
<1>8. 0 \in 0 .. L /\ \A n \in 1 .. L : n \in 0 .. L /\ n # 0
  BY <1>1
<1>9. merged[0] = list /\ \A n \in 1 .. L : merged[n] = Round(merged[n - 1], n)
  BY <1>7, <1>8, Zenon
<1>10. \A n \in 1 .. L : merged[n - 1] \in Seq(T) => merged[n] \in Seq(T)
  BY <1>3, <1>9
<1>11. merged = [n \in 0 .. L |-> merged[n]]
  BY <1>6
<1>12. merged \in [0 .. L -> Seq(T)]
  BY <1>1, <1>9, <1>10, <1>11, LoopTyped, Zenon
<1> QED
  BY <1>2, <1>4, <1>9, <1>12, Zenon DEF L, MergesIn

\* m is list and, behind it, shows of W that start in December, each with a new ID.
Overflows(m, list, W) ==
  /\ Len(list) <= Len(m)
  /\ \A a \in 1 .. Len(list) : m[a] = list[a]
  /\ \A b \in Len(list) + 1 .. Len(m) :
        m[b] \in W /\ m[b].month = 12 /\ \A a \in 1 .. b - 1 : m[a].id # m[b].id

\* What the overflow returns.
LEMMA MergeProperties ==
  ASSUME NEW T, NEW list \in Seq(T), NEW previous,
         FilterBySeason(previous, "WINTER") \in Seq(T)
  PROVE  /\ Merge(list, previous) \in Seq(T)
         /\ Overflows(Merge(list, previous), list, Range(FilterBySeason(previous, "WINTER")))
<1> DEFINE winter == FilterBySeason(previous, "WINTER")
           W == Range(winter)
           L == Len(winter)
<1>1. PICK k : MergesIn(k, T, list, winter) /\ Merge(list, previous) = k[Len(winter)]
  BY MergeRounds, Zenon
<1>2. L \in Nat /\ winter \in [1 .. L -> T] /\ \A n \in 1 .. L : winter[n] \in W
  BY DEF Range
<1> HIDE DEF W, L, winter
<1>3. /\ k \in [0 .. L -> Seq(T)]
      /\ k[0] = list
      /\ \A n \in 1 .. L :
            k[n] = IF winter[n].month = 12 /\ \A t \in Range(k[n - 1]) : t.id # winter[n].id
                   THEN Append(k[n - 1], winter[n]) ELSE k[n - 1]
  BY <1>1, Zenon DEF MergesIn, L
<1> DEFINE S == {n \in 0 .. L : Overflows(k[n], list, W)}
<1>4. 0 \in S
  <2>1. Overflows(list, list, W)
    BY DEF Overflows
  <2> QED
    BY <1>2, <1>3, <2>1
<1>5. ASSUME NEW n \in 1 .. L, n - 1 \in S PROVE n \in S
  <2> DEFINE u == k[n - 1]
             x == winter[n]
  <2>1. n \in 0 .. L /\ u \in Seq(T) /\ x \in T /\ x \in W /\ Overflows(u, list, W)
    BY <1>2, <1>3, <1>5
  <2>2. CASE x.month = 12 /\ \A t \in Range(u) : t.id # x.id
    <3>1. k[n] = Append(u, x)
      BY <1>3, <2>2
    <3> HIDE DEF u, x
    <3>2. /\ Len(k[n]) = Len(u) + 1 /\ Len(u) \in Nat /\ k[n][Len(u) + 1] = x
          /\ \A a \in 1 .. Len(u) : k[n][a] = u[a]
      BY <2>1, <3>1
    <3>3. \A a \in 1 .. Len(u) : u[a].id # x.id
      BY <2>1, <2>2 DEF Range
    <3>4. Len(list) <= Len(k[n]) /\ \A a \in 1 .. Len(list) : k[n][a] = list[a]
      BY <2>1, <3>2 DEF Overflows
    <3>5. ASSUME NEW b \in Len(list) + 1 .. Len(k[n])
          PROVE  k[n][b] \in W /\ k[n][b].month = 12
                 /\ \A a \in 1 .. b - 1 : k[n][a].id # k[n][b].id
      <4>1. CASE b = Len(u) + 1
        BY <2>1, <2>2, <3>2, <3>3, <4>1
      <4>2. CASE b # Len(u) + 1
        <5>1. b \in Len(list) + 1 .. Len(u) /\ b \in 1 .. Len(u)
              /\ \A a \in 1 .. b - 1 : a \in 1 .. Len(u)
          BY <3>2, <4>2
        <5> QED
          BY <2>1, <3>2, <5>1 DEF Overflows
      <4> QED
        BY <4>1, <4>2
    <3>6. Overflows(k[n], list, W)
      BY <3>4, <3>5 DEF Overflows
    <3> QED
      BY <2>1, <3>6
  <2>3. CASE ~(x.month = 12 /\ \A t \in Range(u) : t.id # x.id)
    <3>1. k[n] = u
      BY <1>3, <2>3
    <3> QED
      BY <2>1, <3>1
  <2> QED
    BY <2>2, <2>3
<1> HIDE DEF S
<1>6. L \in S
  <2>1. \A n \in 1 .. L : n - 1 \in S => n \in S
    BY <1>5
  <2>2. 0 .. L \subseteq S
    BY <1>2, <1>4, <2>1, Induction, Zenon
  <2> QED
    BY <1>2, <2>2
<1>7. k[L] \in Seq(T) /\ Overflows(k[L], list, W)
  BY <1>2, <1>3, <1>6 DEF S
<1> QED
  BY <1>1, <1>7 DEF L, W, winter

-----------------------------------------------------------------------------
(* What the filters, one after the other, make of a list.                   *)

LEMMA EmbedsItself ==
  ASSUME NEW T, NEW v \in Seq(T)
  PROVE  Embeds(v, v)
<1> DEFINE g == [a \in 1 .. Len(v) |-> a]
<1>1. g \in [1 .. Len(v) -> 1 .. Len(v)]
  OBVIOUS
<1>2. \A a \in 1 .. Len(v) : g[a] = a
  OBVIOUS
<1> HIDE DEF g
<1> QED
  BY <1>1, <1>2 DEF Embeds

LEMMA EmbedsTransitive ==
  ASSUME NEW T, NEW u \in Seq(T), NEW v \in Seq(T), NEW w \in Seq(T),
         Embeds(u, v), Embeds(v, w)
  PROVE  Embeds(u, w)
<1>1. PICK g \in [1 .. Len(u) -> 1 .. Len(v)] :
          /\ \A a, b \in 1 .. Len(u) : a < b => g[a] < g[b]
          /\ \A a \in 1 .. Len(u) : u[a] = v[g[a]]
  BY DEF Embeds
<1>2. PICK h \in [1 .. Len(v) -> 1 .. Len(w)] :
          /\ \A a, b \in 1 .. Len(v) : a < b => h[a] < h[b]
          /\ \A a \in 1 .. Len(v) : v[a] = w[h[a]]
  BY DEF Embeds
<1> DEFINE f == [a \in 1 .. Len(u) |-> h[g[a]]]
<1>3. f \in [1 .. Len(u) -> 1 .. Len(w)] /\ \A a \in 1 .. Len(u) : f[a] = h[g[a]]
  BY <1>1, <1>2
<1> HIDE DEF f
<1>4. ASSUME NEW a \in 1 .. Len(u), NEW b \in 1 .. Len(u), a < b
      PROVE  f[a] < f[b]
  <2>1. g[a] \in 1 .. Len(v) /\ g[b] \in 1 .. Len(v) /\ g[a] < g[b]
    BY <1>1, <1>4
  <2> QED
    BY <1>2, <1>3, <2>1
<1>5. \A a \in 1 .. Len(u) : u[a] = w[f[a]]
  BY <1>1, <1>2, <1>3
<1> QED
  BY <1>3, <1>4, <1>5 DEF Embeds

\* A list that leaves some shows out holds none twice that the whole list holds once.
LEMMA EmbedsDistinct ==
  ASSUME NEW T, NEW u \in Seq(T), NEW v \in Seq(T), Embeds(u, v), DistinctShows(v)
  PROVE  DistinctShows(u)
<1>1. PICK g \in [1 .. Len(u) -> 1 .. Len(v)] :
          /\ \A a, b \in 1 .. Len(u) : a < b => g[a] < g[b]
          /\ \A a \in 1 .. Len(u) : u[a] = v[g[a]]
  BY DEF Embeds
<1> SUFFICES ASSUME NEW a \in 1 .. Len(u), NEW b \in 1 .. Len(u), u[a].id = u[b].id
             PROVE  a = b
  BY DEF DistinctShows
<1>2. g[a] \in 1 .. Len(v) /\ g[b] \in 1 .. Len(v) /\ v[g[a]].id = v[g[b]].id
  BY <1>1
<1>3. g[a] = g[b]
  BY <1>2 DEF DistinctShows
<1>4. ~(a < b) /\ ~(b < a)
  BY <1>1, <1>2, <1>3
<1> QED
  BY <1>4

\* u is v without the shows that are not good.
Filters(u, v, T, good) == u \in Seq(T) /\ Embeds(u, v) /\ Range(u) = Range(v) \cap good

LEMMA KeptFilters ==
  ASSUME NEW T, NEW list \in Seq(T), NEW good
  PROVE  Filters(Kept(list, good), list, T, good)
BY KeptProperties, Zenon DEF Filters

LEMMA WholeFilters ==
  ASSUME NEW T, NEW list \in Seq(T), NEW good, Range(list) \subseteq good
  PROVE  Filters(list, list, T, good)
BY EmbedsItself, Zenon DEF Filters

\* Two filters, one after the other.
LEMMA FiltersCompose ==
  ASSUME NEW T, NEW list \in Seq(T), NEW u, NEW v, NEW good, NEW better,
         Filters(u, list, T, good), Filters(v, u, T, better)
  PROVE  Filters(v, list, T, good \cap better)
<1>1. u \in Seq(T) /\ v \in Seq(T) /\ Embeds(u, list) /\ Embeds(v, u)
  BY DEF Filters
<1>2. Embeds(v, list)
  BY <1>1, EmbedsTransitive, Zenon
<1>3. Range(v) = Range(list) \cap (good \cap better)
  BY Zenon DEF Filters
<1> QED
  BY <1>1, <1>2, <1>3, Zenon DEF Filters

\* The five filters.
InSeasonOrAll(T, name) == {s \in T : name = "ALL" \/ InSeason(s, name)}
OfTypes(T) == {s \in T : s.format \in IncludeTypes}
LongUntagged(T) == {s \in T : ~SkipByDuration(s) /\ ~HasExcludedTag(s)}
NearEnough(T) == {s \in T : FilterFutureEnabled /\ ~(AheadMonths <= 0) => Near(s)}
NewIfAsked(T, cat) == {s \in T : cat = "series-new" => IsNew(s)}

LEMMA SeqRange ==
  ASSUME NEW T, NEW list \in Seq(T)
  PROVE  Range(list) \subseteq T
BY DEF Range

\* A filter keeps of a list what it keeps of any set that holds the list's shows.
LEMMA FiltersWider ==
  ASSUME NEW T, NEW list \in Seq(T), NEW u, NEW good, NEW wide,
         Filters(u, list, T, good), Range(list) \cap good = Range(list) \cap wide
  PROVE  Filters(u, list, T, wide)
BY Zenon DEF Filters

LEMMA SeasonFilters ==
  ASSUME NEW T, NEW list \in Seq(T), NEW name
  PROVE  Filters(FilterBySeason(list, name), list, T, InSeasonOrAll(T, name))
<1>1. Range(list) \subseteq T
  BY SeqRange, Zenon
<1>2. CASE name = "ALL"
  <2>1. FilterBySeason(list, name) = list
    BY <1>2, Zenon DEF FilterBySeason
  <2>2. Range(list) \subseteq InSeasonOrAll(T, name)
    BY <1>1, <1>2, Zenon DEF InSeasonOrAll
  <2> QED
    BY <2>1, <2>2, WholeFilters, Zenon
<1>3. CASE name # "ALL"
  <2> DEFINE good == {s \in Range(list) : InSeason(s, name)}
  <2>1. FilterBySeason(list, name) = Kept(list, good)
    BY <1>3, Zenon DEF FilterBySeason
  <2>2. Range(list) \cap good = Range(list) \cap InSeasonOrAll(T, name)
    BY <1>1, <1>3, Zenon DEF InSeasonOrAll
  <2> HIDE DEF good
  <2>3. Filters(FilterBySeason(list, name), list, T, good)
    BY <2>1, KeptFilters, Zenon
  <2> QED
    BY <2>2, <2>3, FiltersWider, Zenon
<1> QED
  BY <1>2, <1>3

LEMMA FormatFilters ==
  ASSUME NEW T, NEW list \in Seq(T)
  PROVE  Filters(FilterByFormats(list), list, T, OfTypes(T))
<1>1. Range(list) \subseteq T
  BY SeqRange, Zenon
<1> DEFINE good == {s \in Range(list) : s.format \in IncludeTypes}
<1>2. Range(list) \cap good = Range(list) \cap OfTypes(T)
  BY <1>1, Zenon DEF OfTypes
<1>3. FilterByFormats(list) = Kept(list, good)
  BY Zenon DEF FilterByFormats
<1> QED
  BY <1>2, <1>3, KeptFilters, FiltersWider, Zenon

LEMMA DurationFilters ==
  ASSUME NEW T, NEW list \in Seq(T)
  PROVE  Filters(Filter(list), list, T, LongUntagged(T))
<1>1. Range(list) \subseteq T
  BY SeqRange, Zenon
<1> DEFINE good == {s \in Range(list) : ~SkipByDuration(s) /\ ~HasExcludedTag(s)}
<1>2. Range(list) \cap good = Range(list) \cap LongUntagged(T)
  BY <1>1, Zenon DEF LongUntagged
<1>3. Filter(list) = Kept(list, good)
  BY Zenon DEF Filter
<1> QED
  BY <1>2, <1>3, KeptFilters, FiltersWider, Zenon

LEMMA FutureFilters ==
  ASSUME NEW T, NEW list \in Seq(T)
  PROVE  Filters(IF FilterFutureEnabled THEN FilterFuture(list) ELSE list,
                 list, T, NearEnough(T))
<1>1. Range(list) \subseteq T
  BY SeqRange, Zenon
<1>2. CASE FilterFutureEnabled /\ ~(AheadMonths <= 0)
  <2> DEFINE good == {s \in Range(list) : Near(s)}
  <2>1. FilterFuture(list) = Kept(list, good)
    BY <1>2, Zenon DEF FilterFuture
  <2>2. Range(list) \cap good = Range(list) \cap NearEnough(T)
    BY <1>1, <1>2, Zenon DEF NearEnough
  <2>3. Filters(FilterFuture(list), list, T, NearEnough(T))
    BY <2>1, <2>2, KeptFilters, FiltersWider, Zenon
  <2> QED
    BY <1>2, <2>3, Zenon
<1>3. CASE ~(FilterFutureEnabled /\ ~(AheadMonths <= 0))
  <2>1. (IF FilterFutureEnabled THEN FilterFuture(list) ELSE list) = list
    BY <1>3, Zenon DEF FilterFuture
  <2>2. Range(list) \subseteq NearEnough(T)
    BY <1>1, <1>3, Zenon DEF NearEnough
  <2> QED
    BY <2>1, <2>2, WholeFilters, Zenon
<1> QED
  BY <1>2, <1>3, Zenon

LEMMA FirstSeasonFilters ==
  ASSUME NEW T, NEW list \in Seq(T), NEW cat
  PROVE  Filters(IF cat = "series-new" THEN FilterFirstSeason(list) ELSE list,
                 list, T, NewIfAsked(T, cat))
<1>1. Range(list) \subseteq T
  BY SeqRange, Zenon
<1>2. CASE cat = "series-new"
  <2> DEFINE good == {s \in Range(list) : IsNew(s)}
  <2>1. FilterFirstSeason(list) = Kept(list, good)
    BY Zenon DEF FilterFirstSeason
  <2>2. Range(list) \cap good = Range(list) \cap NewIfAsked(T, cat)
    BY <1>1, <1>2, Zenon DEF NewIfAsked
  <2> HIDE DEF good
  <2>3. Filters(FilterFirstSeason(list), list, T, good)
    BY <2>1, KeptFilters, Zenon
  <2>4. Filters(FilterFirstSeason(list), list, T, NewIfAsked(T, cat))
    BY <2>2, <2>3, FiltersWider, Zenon
  <2> QED
    BY <1>2, <2>4, Zenon
<1>3. CASE cat # "series-new"
  <2>1. Range(list) \subseteq NewIfAsked(T, cat)
    BY <1>1, <1>3, Zenon DEF NewIfAsked
  <2> QED
    BY <1>3, <2>1, WholeFilters, Zenon
<1> QED
  BY <1>2, <1>3, Zenon

\* The list that the filters run over, and the shows they let pass.
Base(name, list, previous) ==
  IF name \in {"WINTER", "ALL"} /\ previous # None THEN Merge(list, previous) ELSE list
Passing(T, cat) == OfTypes(T) \cap LongUntagged(T) \cap NearEnough(T) \cap NewIfAsked(T, cat)

\* The winter shows of the prior list.
LEMMA WinterShows ==
  ASSUME NEW T, NEW previous \in Seq(T)
  PROVE  /\ FilterBySeason(previous, "WINTER") \in Seq(T)
         /\ \A s \in Range(FilterBySeason(previous, "WINTER")) :
               s \in Range(previous) /\ InSeason(s, "WINTER")
<1>1. Filters(FilterBySeason(previous, "WINTER"), previous, T, InSeasonOrAll(T, "WINTER"))
  BY SeasonFilters, Zenon
<1>2. "WINTER" # "ALL"
  OBVIOUS
<1> QED
  BY <1>1, <1>2, Zenon DEF Filters, InSeasonOrAll

LEMMA BaseIsAList ==
  ASSUME NEW T, NEW list \in Seq(T), NEW name, NEW previous,
         previous # None => previous \in Seq(T)
  PROVE  Base(name, list, previous) \in Seq(T)
BY WinterShows, MergeProperties, Zenon DEF Base

\* Process keeps the shows of its base that are in season and pass, in their order.
LEMMA SelectedFilters ==
  ASSUME NEW T, NEW list \in Seq(T), NEW name, NEW cat, NEW previous,
         previous # None => previous \in Seq(T)
  PROVE  Filters(Selected(name, cat, list, previous), Base(name, list, previous), T,
                 InSeasonOrAll(T, name) \cap Passing(T, cat))
<1> DEFINE base == Base(name, list, previous)
           season1 == FilterBySeason(base, name)
           format1 == FilterByFormats(season1)
           kept == Filter(format1)
           near == IF FilterFutureEnabled THEN FilterFuture(kept) ELSE kept
           new == IF cat = "series-new" THEN FilterFirstSeason(near) ELSE near
<1>1. Selected(name, cat, list, previous) = new
  BY Zenon DEF Selected, Base
<1>2. base \in Seq(T)
  BY BaseIsAList, Zenon
<1> HIDE DEF base
<1>3. Filters(season1, base, T, InSeasonOrAll(T, name))
  BY <1>2, SeasonFilters, Zenon
<1>4. season1 \in Seq(T)
  BY <1>3, Zenon DEF Filters
<1> HIDE DEF season1
<1>5. Filters(format1, season1, T, OfTypes(T))
  BY <1>4, FormatFilters, Zenon
<1>6. format1 \in Seq(T)
  BY <1>5, Zenon DEF Filters
<1> HIDE DEF format1
<1>7. Filters(kept, format1, T, LongUntagged(T))
  BY <1>6, DurationFilters, Zenon
<1>8. kept \in Seq(T)
  BY <1>7, Zenon DEF Filters
<1> HIDE DEF kept
<1>9. Filters(near, kept, T, NearEnough(T))
  BY <1>8, FutureFilters, Zenon
<1>10. near \in Seq(T)
  BY <1>9, Zenon DEF Filters
<1> HIDE DEF near
<1>11. Filters(new, near, T, NewIfAsked(T, cat))
  BY <1>10, FirstSeasonFilters, Zenon
<1> HIDE DEF new
<1>12. Filters(format1, base, T, InSeasonOrAll(T, name) \cap OfTypes(T))
  BY <1>2, <1>3, <1>5, FiltersCompose, Zenon
<1>13. Filters(kept, base, T, (InSeasonOrAll(T, name) \cap OfTypes(T)) \cap LongUntagged(T))
  BY <1>2, <1>7, <1>12, FiltersCompose, Zenon
<1>14. Filters(near, base, T, ((InSeasonOrAll(T, name) \cap OfTypes(T)) \cap LongUntagged(T))
                                 \cap NearEnough(T))
  BY <1>2, <1>9, <1>13, FiltersCompose, Zenon
<1>15. Filters(new, base, T, (((InSeasonOrAll(T, name) \cap OfTypes(T)) \cap LongUntagged(T))
                                 \cap NearEnough(T)) \cap NewIfAsked(T, cat))
  BY <1>2, <1>11, <1>14, FiltersCompose, Zenon
<1>16. (((InSeasonOrAll(T, name) \cap OfTypes(T)) \cap LongUntagged(T)) \cap NearEnough(T))
          \cap NewIfAsked(T, cat)
        = InSeasonOrAll(T, name) \cap Passing(T, cat)
  BY DEF Passing
<1> QED
  BY <1>1, <1>15, <1>16, Zenon DEF base

\* The shows of the base: those of the year's list and December shows of the prior one.
LEMMA BaseShows ==
  ASSUME NEW T, NEW list \in Seq(T), NEW name, NEW previous,
         previous # None => previous \in Seq(T)
  PROVE  /\ Range(list) \subseteq Range(Base(name, list, previous))
         /\ \A s \in Range(Base(name, list, previous)) : s \notin Range(list) =>
               /\ previous # None /\ s \in Range(previous)
               /\ InSeason(s, "WINTER")
<1>1. CASE ~(name \in {"WINTER", "ALL"} /\ previous # None)
  BY <1>1, Zenon DEF Base
<1>2. CASE name \in {"WINTER", "ALL"} /\ previous # None
  <2> DEFINE m == Merge(list, previous)
             W == Range(FilterBySeason(previous, "WINTER"))
  <2>1. Base(name, list, previous) = m
    BY <1>2, Zenon DEF Base
  <2>2. FilterBySeason(previous, "WINTER") \in Seq(T)
    BY <1>2, WinterShows, Zenon
  <2>3. m \in Seq(T) /\ Overflows(m, list, W)
    BY <2>2, MergeProperties, Zenon
  <2>4. \A s \in W : s \in Range(previous) /\ InSeason(s, "WINTER")
    BY <1>2, WinterShows, Zenon
  <2> HIDE DEF m, W
  <2>5. Range(list) \subseteq Range(m)
    BY <2>3 DEF Overflows, Range
  <2>6. \A s \in Range(m) : s \in Range(list) \/ s \in W
    <3> SUFFICES ASSUME NEW a \in 1 .. Len(m) PROVE m[a] \in Range(list) \/ m[a] \in W
      BY <2>3 DEF Range
    <3>1. CASE a \in 1 .. Len(list)
      BY <2>3, <3>1 DEF Overflows, Range
    <3>2. CASE a \notin 1 .. Len(list)
      <4>1. a \in Len(list) + 1 .. Len(m)
        BY <2>3, <3>2
      <4> QED
        BY <2>3, <4>1 DEF Overflows
    <3> QED
      BY <3>1, <3>2
  <2> QED
    BY <1>2, <2>1, <2>4, <2>5, <2>6, Zenon
<1> QED
  BY <1>1, <1>2, Zenon

\* One ID stands for one show: the overflow takes in no second show with an ID.
LEMMA BaseIds ==
  ASSUME NEW T, NEW list \in Seq(T), NEW name, NEW previous,
         previous # None => previous \in Seq(T),
         \A s, t \in Range(list) : s.id = t.id => s = t
  PROVE  \A s, t \in Range(Base(name, list, previous)) : s.id = t.id => s = t
<1>1. CASE ~(name \in {"WINTER", "ALL"} /\ previous # None)
  BY <1>1, Zenon DEF Base
<1>2. CASE name \in {"WINTER", "ALL"} /\ previous # None
  <2> DEFINE m == Merge(list, previous)
             W == Range(FilterBySeason(previous, "WINTER"))
  <2>1. Base(name, list, previous) = m
    BY <1>2, Zenon DEF Base
  <2>2. m \in Seq(T) /\ Overflows(m, list, W)
    BY <1>2, WinterShows, MergeProperties, Zenon
  <2> HIDE DEF m, W
  <2>3. \A a, b \in 1 .. Len(m) : a < b /\ m[a].id = m[b].id => m[a] = m[b]
    <3> SUFFICES ASSUME NEW a \in 1 .. Len(m), NEW b \in 1 .. Len(m), a < b,
                        m[a].id = m[b].id
                 PROVE  m[a] = m[b]
      OBVIOUS
    <3>1. Len(list) \in Nat /\ Len(m) \in Nat
      BY <2>2
    <3>2. ~(b \in Len(list) + 1 .. Len(m))
      BY <2>2, <3>1 DEF Overflows
    <3>3. a \in 1 .. Len(list) /\ b \in 1 .. Len(list)
      BY <3>1, <3>2
    <3>4. m[a] \in Range(list) /\ m[b] \in Range(list)
      BY <2>2, <3>3 DEF Overflows, Range
    <3> QED
      BY <3>4
  <2>4. \A a, b \in 1 .. Len(m) : m[a].id = m[b].id => m[a] = m[b]
    BY <2>2, <2>3
  <2> QED
    BY <2>1, <2>2, <2>4 DEF Range
<1> QED
  BY <1>1, <1>2, Zenon

\* The base holds each show once, if the year's list does.
LEMMA BaseDistinct ==
  ASSUME NEW T, NEW list \in Seq(T), NEW name, NEW previous,
         previous # None => previous \in Seq(T), DistinctShows(list)
  PROVE  DistinctShows(Base(name, list, previous))
<1>1. CASE ~(name \in {"WINTER", "ALL"} /\ previous # None)
  BY <1>1, Zenon DEF Base
<1>2. CASE name \in {"WINTER", "ALL"} /\ previous # None
  <2> DEFINE m == Merge(list, previous)
             W == Range(FilterBySeason(previous, "WINTER"))
  <2>1. Base(name, list, previous) = m
    BY <1>2, Zenon DEF Base
  <2>2. m \in Seq(T) /\ Overflows(m, list, W)
    BY <1>2, WinterShows, MergeProperties, Zenon
  <2> HIDE DEF m, W
  <2>3. Len(list) \in Nat /\ Len(m) \in Nat
    BY <2>2
  <2>4. ASSUME NEW a \in 1 .. Len(m), NEW b \in 1 .. Len(m), a < b
        PROVE  m[a].id # m[b].id
    <3>1. CASE b \in Len(list) + 1 .. Len(m)
      BY <2>2, <2>3, <2>4, <3>1 DEF Overflows
    <3>2. CASE ~(b \in Len(list) + 1 .. Len(m))
      <4>1. a \in 1 .. Len(list) /\ b \in 1 .. Len(list) /\ a # b
        BY <2>3, <2>4, <3>2
      <4> QED
        BY <2>2, <4>1 DEF Overflows, DistinctShows
    <3> QED
      BY <3>1, <3>2
  <2>5. DistinctShows(m)
    BY <2>3, <2>4 DEF DistinctShows
  <2> QED
    BY <2>1, <2>5
<1> QED
  BY <1>1, <1>2, Zenon

\* The order of a slice of the base is the order of the year's list.
LEMMA BaseOrder ==
  ASSUME NEW T, NEW list \in Seq(T), NEW name, NEW previous,
         previous # None => previous \in Seq(T),
         NEW u \in Seq(T), Embeds(u, Base(name, list, previous)),
         NEW a \in 1 .. Len(u), NEW b \in 1 .. Len(u), a < b, u[b] \in Range(list)
  PROVE  \E j, k \in 1 .. Len(list) : j < k /\ list[j] = u[a] /\ list[k] = u[b]
<1> DEFINE m == Base(name, list, previous)
<1>1. m \in Seq(T)
  BY BaseIsAList, Zenon
<1>2. /\ \A x \in 1 .. Len(list) : x \in 1 .. Len(m) /\ m[x] = list[x]
      /\ \A y \in 1 .. Len(m) : y \notin 1 .. Len(list) =>
            \A x \in 1 .. Len(list) : m[x].id # m[y].id
  <2>1. CASE ~(name \in {"WINTER", "ALL"} /\ previous # None)
    <3>1. m = list
      BY <2>1, Zenon DEF Base
    <3> QED
      BY <3>1
  <2>2. CASE name \in {"WINTER", "ALL"} /\ previous # None
    <3> DEFINE W == Range(FilterBySeason(previous, "WINTER"))
    <3>1. m = Merge(list, previous)
      BY <2>2, Zenon DEF Base
    <3>2. Overflows(m, list, W)
      BY <2>2, <3>1, WinterShows, MergeProperties, Zenon
    <3> HIDE DEF m, W
    <3>3. Len(list) \in Nat /\ Len(m) \in Nat
      BY <1>1
    <3>4. \A y \in 1 .. Len(m) : y \notin 1 .. Len(list) =>
             y \in Len(list) + 1 .. Len(m) /\ \A x \in 1 .. Len(list) : x \in 1 .. y - 1
      BY <3>3
    <3> QED
      BY <3>2, <3>3, <3>4 DEF Overflows
  <2> QED
    BY <2>1, <2>2, Zenon
<1>3. PICK g \in [1 .. Len(u) -> 1 .. Len(m)] :
          /\ \A x, y \in 1 .. Len(u) : x < y => g[x] < g[y]
          /\ \A x \in 1 .. Len(u) : u[x] = m[g[x]]
  BY DEF Embeds
<1> HIDE DEF m
<1>4. g[a] \in 1 .. Len(m) /\ g[b] \in 1 .. Len(m) /\ g[a] < g[b]
      /\ u[a] = m[g[a]] /\ u[b] = m[g[b]]
  BY <1>3
<1>5. PICK x \in 1 .. Len(list) : list[x] = u[b]
  BY DEF Range
<1>6. g[b] \in 1 .. Len(list)
  BY <1>2, <1>4, <1>5
<1>7. g[a] \in 1 .. Len(list)
  BY <1>4, <1>6
<1> QED
  BY <1>2, <1>4, <1>6, <1>7

-----------------------------------------------------------------------------
(* The steps of Process.                                                    *)

\* Every show that some list holds.
AllShows == UNION {Range(l) : l \in Lists}

LEMMA ListsHoldShows ==
  /\ \A l \in Lists : l \in Seq(AllShows)
  /\ <<>> \in Seq(AllShows)
  /\ Ids = {s.id : s \in AllShows}
<1>1. ASSUME NEW l \in Lists PROVE l \in Seq(AllShows)
  <2>1. l \in Seq(Range(l)) /\ Range(l) \subseteq AllShows
    BY ListsAssumption DEF AllShows
  <2> QED
    BY <2>1, SeqMonotonic, Zenon
<1> QED
  BY <1>1 DEF Ids, AllShows

\* Every lookup finds a TVDB ID, or 0.
LEMMA LookupTyped ==
  ASSUME NEW m \in Mappings, NEW s \in AllShows
  PROVE  Lookup(m, s) \in Nat
<1>1. PICK l \in Lists : s \in Range(l)
  BY DEF AllShows
<1>2. m # None /\ m.byAniList[s.id] \in Nat
      /\ (s.mal # None /\ s.mal > 0 => m.byMAL[s.mal] \in Nat)
  BY <1>1, MappingsAssumption, Zenon
<1> QED
  BY <1>2 DEF Lookup

\* What Select computed is what it would compute until the day ends.
LEMMA SelectedStays ==
  UNCHANGED <<season, category, data, prior, today>> =>
    Selected(season, category, data, prior)' = Selected(season, category, data, prior)
BY DEF Selected, FilterFuture, Near, IsWithinMonths, Limit

\* What AnsweredAsMapped says of a show that has been looked up.
AsMapped(s) ==
  /\ (\A m \in used : Lookup(m, s) # 0) => resolved[s.id] # 0
  /\ resolved[s.id] # 0 => \E m \in used : resolved[s.id] = Lookup(m, s)

SlicesTyped ==
  /\ pc \in {"idle", "prior", "check", "resolve", "answered"}
  /\ season \in Seasons \cup {"ALL"} /\ category \in {"series", "series-new"}
  /\ data \in YearLists \cup {<<>>} /\ prior \in PriorLists \cup {None}
  /\ shows \in Seq(AllShows) /\ i \in 1 .. Len(shows) + 1
  /\ resolved \in [Ids -> Nat]
  /\ mapping \in Mappings \cup {None} /\ used \subseteq Mappings
  /\ Valid(today)

\* The slice is what Select makes of the two lists, and the mapping one that was in force.
SliceSelected ==
  /\ pc # "idle" => data \in YearLists /\ mapping \in used
  /\ pc \in {"idle", "prior"} => shows = <<>> /\ prior = None /\ i = 1
  /\ pc \in {"check", "resolve", "answered"} => shows = Selected(season, category, data, prior)

\* The loop of ResolveBatch, at its index.
ResolvedSoFar ==
  /\ pc = "resolve" => \A j \in 1 .. i - 1 : AsMapped(shows[j])
  /\ pc = "answered" => \A j \in 1 .. Len(shows) : AsMapped(shows[j])

PipelineInv == SlicesTyped /\ SliceSelected /\ ResolvedSoFar

LEMMA PipelineInit == Init => PipelineInv
<1> SUFFICES ASSUME Init PROVE PipelineInv
  OBVIOUS
<1>1. Valid(today)
  BY MonthsAssumption DEF Init, ClockInit
<1>2. SlicesTyped
  BY <1>1, ListsHoldShows DEF Init, SlicesTyped
<1>3. SliceSelected /\ ResolvedSoFar
  BY DEF Init, SliceSelected, ResolvedSoFar
<1> QED
  BY <1>2, <1>3 DEF PipelineInv

\* The two lists of a request are lists of shows; in each an ID stands for one show.
LEMMA ListsTyped ==
  ASSUME NEW d \in YearLists, NEW p \in PriorLists \cup {None}
  PROVE  /\ d \in Seq(AllShows) /\ (p # None => p \in Seq(AllShows))
         /\ \A s, t \in Range(d) : s.id = t.id => s = t
<1>1. d \in Lists /\ (p # None => p \in Lists)
  BY DEF Lists
<1> QED
  BY <1>1, ListsHoldShows, ListsAssumption, Zenon

LEMMA SelectKeeps == PipelineInv /\ Select => PipelineInv'
<1> SUFFICES ASSUME PipelineInv, Select PROVE PipelineInv'
  OBVIOUS
<1> USE DEF PipelineInv
<1>1. data \in YearLists /\ prior' \in PriorLists \cup {None}
  BY DEF Select, SliceSelected
<1>2. data \in Seq(AllShows) /\ (prior' # None => prior' \in Seq(AllShows))
  BY <1>1, ListsTyped, Zenon
<1>3. Filters(Selected(season, category, data, prior'), Base(season, data, prior'), AllShows,
              InSeasonOrAll(AllShows, season) \cap Passing(AllShows, category))
  BY <1>2, SelectedFilters, Zenon
<1>4. shows' = Selected(season, category, data, prior') /\ shows' \in Seq(AllShows)
  BY <1>3, Zenon DEF Select, Filters
<1>5. Len(shows') \in Nat /\ i = 1
  BY <1>4 DEF Select, SliceSelected
<1>6. SlicesTyped'
  BY <1>1, <1>4, <1>5 DEF Select, SlicesTyped
<1>7. Selected(season, category, data, prior)' = Selected(season, category, data, prior')
  BY DEF Select, Selected, FilterFuture, Near, IsWithinMonths, Limit
<1>8. SliceSelected' /\ ResolvedSoFar'
  BY <1>4, <1>7 DEF Select, SliceSelected, ResolvedSoFar
<1> QED
  BY <1>6, <1>8

\* In the slice, one ID stands for one show.
LEMMA SliceIds ==
  PipelineInv /\ pc \in {"check", "resolve", "answered"} =>
    \A s, t \in Range(shows) : s.id = t.id => s = t
<1> SUFFICES ASSUME PipelineInv, pc \in {"check", "resolve", "answered"}
             PROVE  \A s, t \in Range(shows) : s.id = t.id => s = t
  OBVIOUS
<1>1. data \in YearLists /\ prior \in PriorLists \cup {None}
      /\ shows = Selected(season, category, data, prior)
  BY DEF PipelineInv, SlicesTyped, SliceSelected
<1>2. /\ data \in Seq(AllShows) /\ (prior # None => prior \in Seq(AllShows))
      /\ \A s, t \in Range(data) : s.id = t.id => s = t
  BY <1>1, ListsTyped, Zenon
<1>3. Filters(Selected(season, category, data, prior), Base(season, data, prior), AllShows,
              InSeasonOrAll(AllShows, season) \cap Passing(AllShows, category))
  BY <1>2, SelectedFilters, Zenon
<1>4. Range(shows) \subseteq Range(Base(season, data, prior))
  BY <1>1, <1>3, Zenon DEF Filters
<1>5. \A s, t \in Range(Base(season, data, prior)) : s.id = t.id => s = t
  BY <1>2, BaseIds, Zenon
<1> QED
  BY <1>4, <1>5, Zenon

LEMMA ResolveKeeps == PipelineInv /\ Resolve => PipelineInv'
<1> SUFFICES ASSUME PipelineInv, Resolve PROVE PipelineInv'
  OBVIOUS
<1> USE DEF PipelineInv
<1>1. PICK s : s = shows[i]
  OBVIOUS
<1>2. /\ pc = "resolve" /\ i \in 1 .. Len(shows) /\ i' = i + 1
      /\ resolved' = [resolved EXCEPT ![s.id] = Lookup(mapping, s)]
      /\ UNCHANGED <<pc, season, category, data, prior, shows, mapping, used, today>>
  BY <1>1 DEF Resolve, SlicesTyped
<1>3. shows \in Seq(AllShows) /\ Len(shows) \in Nat /\ resolved \in [Ids -> Nat]
      /\ mapping \in used /\ mapping \in Mappings
  BY <1>2 DEF SlicesTyped, SliceSelected
<1>4. \A j \in 1 .. Len(shows) : shows[j] \in AllShows /\ shows[j].id \in Ids
                                 /\ shows[j] \in Range(shows)
  BY <1>3, ListsHoldShows DEF Range
<1>5. s \in AllShows /\ s.id \in Ids /\ s \in Range(shows)
  BY <1>1, <1>2, <1>4
<1>6. Lookup(mapping, s) \in Nat
  BY <1>3, <1>5, LookupTyped
<1>7. resolved' \in [Ids -> Nat]
  BY <1>2, <1>3, <1>6
<1>8. SlicesTyped'
  BY <1>2, <1>3, <1>7 DEF SlicesTyped
<1>9. SliceSelected'
  BY <1>2, SelectedStays DEF SliceSelected
<1>10. AsMapped(s)'
  <2>1. resolved'[s.id] = Lookup(mapping, s)
    BY <1>2, <1>3, <1>5
  <2> QED
    BY <1>2, <1>3, <2>1, Zenon DEF AsMapped
<1>11. ASSUME NEW j \in 1 .. i - 1 PROVE AsMapped(shows[j])'
  <2>1. j \in 1 .. Len(shows) /\ AsMapped(shows[j])
    BY <1>2, <1>3 DEF ResolvedSoFar
  <2>2. CASE shows[j].id = s.id
    <3>1. shows[j] = s
      BY <1>2, <1>4, <1>5, <2>1, <2>2, SliceIds
    <3> QED
      BY <1>2, <1>10, <3>1 DEF AsMapped
  <2>3. CASE shows[j].id # s.id
    <3>1. resolved'[shows[j].id] = resolved[shows[j].id]
      BY <1>2, <1>3, <1>4, <2>1, <2>3
    <3> QED
      BY <1>2, <2>1, <3>1 DEF AsMapped
  <2> QED
    BY <2>2, <2>3
<1>12. ResolvedSoFar'
  <2>1. ASSUME NEW j \in 1 .. i' - 1 PROVE AsMapped(shows[j])'
    <3>1. CASE j = i
      BY <1>1, <1>2, <1>10, <3>1 DEF AsMapped
    <3>2. CASE j # i
      <4>1. j \in 1 .. i - 1
        BY <1>2, <1>3, <3>2
      <4> QED
        BY <1>11, <4>1
    <3> QED
      BY <3>1, <3>2
  <2> QED
    BY <1>2, <2>1 DEF ResolvedSoFar
<1> QED
  BY <1>8, <1>9, <1>12

\* A swap of the mapping undoes nothing that was resolved.
LEMMA RefreshMappingKeeps == PipelineInv /\ RefreshMapping => PipelineInv'
<1> SUFFICES ASSUME PipelineInv, RefreshMapping PROVE PipelineInv'
  OBVIOUS
<1> USE DEF PipelineInv
<1>1. PICK m \in Mappings \cup {None} :
          /\ mapping' = IF m = None THEN mapping ELSE m
          /\ used' = IF pc = "idle" THEN used ELSE used \cup ({m} \ {None})
          /\ UNCHANGED <<pc, season, category, data, prior, shows, i, resolved, today>>
  BY DEF RefreshMapping
<1>2. UNCHANGED <<pc, season, category, data, prior, shows, i, resolved, today>>
  BY <1>1
<1>3. used \subseteq used' /\ used' \subseteq Mappings
  BY <1>1 DEF SlicesTyped
<1>4. mapping' \in Mappings \cup {None} /\ (pc # "idle" => mapping' \in used')
  BY <1>1 DEF SlicesTyped, SliceSelected
<1>5. SlicesTyped'
  BY <1>2, <1>3, <1>4 DEF SlicesTyped
<1>6. SliceSelected'
  BY <1>2, <1>4, SelectedStays DEF SliceSelected
<1>7. \A s : AsMapped(s) => AsMapped(s)'
  BY <1>2, <1>3 DEF AsMapped
<1>8. ResolvedSoFar'
  BY <1>2, <1>7 DEF ResolvedSoFar
<1> QED
  BY <1>5, <1>6, <1>8

LEMMA PipelineStep == PipelineInv /\ [Next]_vars => PipelineInv'
<1> SUFFICES ASSUME PipelineInv, [Next]_vars PROVE PipelineInv'
  OBVIOUS
<1> USE DEF PipelineInv
<1>1. ASSUME NEW name \in Seasons \cup {"ALL"}, NEW cat \in {"series", "series-new"},
             Request(name, cat)
      PROVE  PipelineInv'
  <2>1. SlicesTyped'
    BY <1>1 DEF Request, SlicesTyped
  <2>2. SliceSelected' /\ ResolvedSoFar'
    BY <1>1 DEF Request, SliceSelected, ResolvedSoFar
  <2> QED
    BY <2>1, <2>2
<1>2. CASE Select
  BY <1>2, SelectKeeps
<1>3. CASE CheckMapping
  <2>1. Len(shows) \in Nat /\ mapping # None
    BY <1>3, MappingsAssumption DEF CheckMapping, SlicesTyped, SliceSelected
  <2>2. SlicesTyped'
    BY <1>3, <2>1 DEF CheckMapping, SlicesTyped
  <2>3. SliceSelected'
    BY <1>3, SelectedStays DEF CheckMapping, SliceSelected
  <2>4. ResolvedSoFar'
    BY <1>3, <2>1 DEF CheckMapping, ResolvedSoFar
  <2> QED
    BY <2>2, <2>3, <2>4
<1>4. CASE Resolve
  BY <1>4, ResolveKeeps
<1>5. CASE Finish
  <2>1. SlicesTyped'
    BY <1>5 DEF Finish, SlicesTyped
  <2>2. SliceSelected'
    BY <1>5, SelectedStays DEF Finish, SliceSelected
  <2>3. \A s : AsMapped(s) => AsMapped(s)'
    BY <1>5 DEF Finish, AsMapped
  <2>4. \A j \in 1 .. Len(shows) : j \in 1 .. i - 1
    BY <1>5 DEF Finish, SlicesTyped
  <2>5. ResolvedSoFar'
    BY <1>5, <2>3, <2>4 DEF Finish, ResolvedSoFar
  <2> QED
    BY <2>1, <2>2, <2>5
<1>6. CASE NextRequest
  <2>1. SlicesTyped'
    BY <1>6, ListsHoldShows DEF NextRequest, SlicesTyped
  <2>2. SliceSelected' /\ ResolvedSoFar'
    BY <1>6 DEF NextRequest, SliceSelected, ResolvedSoFar
  <2> QED
    BY <2>1, <2>2
<1>7. CASE RefreshMapping
  BY <1>7, RefreshMappingKeeps
<1>8. CASE Midnight
  <2>1. Valid(today)'
    BY <1>8, TodayStaysValid DEF Midnight, SlicesTyped
  <2>2. SlicesTyped'
    BY <1>8, <2>1 DEF Midnight, SlicesTyped
  <2>3. SliceSelected' /\ ResolvedSoFar'
    BY <1>8 DEF Midnight, SliceSelected, ResolvedSoFar
  <2> QED
    BY <2>2, <2>3
<1>9. CASE UNCHANGED vars
  <2>1. SlicesTyped'
    BY <1>9 DEF vars, SlicesTyped
  <2>2. SliceSelected'
    BY <1>9, SelectedStays DEF vars, SliceSelected
  <2>3. \A s : AsMapped(s) => AsMapped(s)'
    BY <1>9 DEF vars, AsMapped
  <2>4. ResolvedSoFar'
    BY <1>9, <2>3 DEF vars, ResolvedSoFar
  <2> QED
    BY <2>1, <2>2, <2>4
<1> QED
  BY <1>1, <1>2, <1>3, <1>4, <1>5, <1>6, <1>7, <1>8, <1>9 DEF Next

LEMMA PipelineInvariant == Spec => []PipelineInv
BY PipelineInit, PipelineStep, PTL DEF Spec

-----------------------------------------------------------------------------
(* What the invariant gives.                                                *)

\* The slice is a slice of the base of the two lists (filter.go, scheduler.go:142-191).
LEMMA SliceFilters ==
  PipelineInv /\ pc \in {"check", "resolve", "answered"} =>
    /\ data \in YearLists /\ data \in Seq(AllShows)
    /\ prior # None => prior \in Seq(AllShows)
    /\ Filters(shows, Base(season, data, prior), AllShows,
               InSeasonOrAll(AllShows, season) \cap Passing(AllShows, category))
<1> SUFFICES ASSUME PipelineInv, pc \in {"check", "resolve", "answered"}
             PROVE  /\ data \in YearLists /\ data \in Seq(AllShows)
                    /\ prior # None => prior \in Seq(AllShows)
                    /\ Filters(shows, Base(season, data, prior), AllShows,
                               InSeasonOrAll(AllShows, season) \cap Passing(AllShows, category))
  OBVIOUS
<1>1. data \in YearLists /\ prior \in PriorLists \cup {None}
      /\ shows = Selected(season, category, data, prior)
  BY DEF PipelineInv, SlicesTyped, SliceSelected
<1>2. data \in Seq(AllShows) /\ (prior # None => prior \in Seq(AllShows))
  BY <1>1, ListsTyped, Zenon
<1>3. Filters(Selected(season, category, data, prior), Base(season, data, prior), AllShows,
              InSeasonOrAll(AllShows, season) \cap Passing(AllShows, category))
  BY <1>2, SelectedFilters, Zenon
<1> QED
  BY <1>1, <1>2, <1>3, Zenon

\* What is answered is a slice of the same base, and so is not empty by accident.
LEMMA AnswerFilters ==
  PipelineInv /\ pc = "answered" =>
    Answer \in Seq(AllShows) /\ Embeds(Answer, Base(season, data, prior))
<1> SUFFICES ASSUME PipelineInv, pc = "answered"
             PROVE  Answer \in Seq(AllShows) /\ Embeds(Answer, Base(season, data, prior))
  OBVIOUS
<1>1. /\ data \in Seq(AllShows) /\ (prior # None => prior \in Seq(AllShows))
      /\ shows \in Seq(AllShows) /\ Embeds(shows, Base(season, data, prior))
  BY SliceFilters, Zenon DEF Filters
<1>2. Answer \in Seq(AllShows) /\ Embeds(Answer, shows)
  BY <1>1, KeptProperties, Zenon DEF Answer
<1>3. Base(season, data, prior) \in Seq(AllShows)
  BY <1>1, BaseIsAList, Zenon
<1> QED
  BY <1>1, <1>2, <1>3, EmbedsTransitive, Zenon

\* Type correctness: the slice holds shows of the two lists only, and the loop of
\* ResolveBatch stays within it.
THEOREM PipelineTypeCorrect == Spec => []PipelineTypeOK
<1>1. PipelineInv => PipelineTypeOK
  <2> SUFFICES ASSUME PipelineInv PROVE PipelineTypeOK
    OBVIOUS
  <2>1. SlicesTyped /\ SliceSelected
    BY DEF PipelineInv
  <2>2. WindowTypeOK
    BY <2>1, ValidWindow DEF SlicesTyped
  <2>3. Range(shows) \subseteq Range(data) \cup (IF prior = None THEN {} ELSE Range(prior))
    <3>1. CASE pc \in {"idle", "prior"}
      BY <2>1, <3>1 DEF SliceSelected, Range
    <3>2. CASE pc \in {"check", "resolve", "answered"}
      <4>1. Range(shows) \subseteq Range(Base(season, data, prior))
        BY <3>2, SliceFilters, Zenon DEF Filters
      <4>2. data \in Seq(AllShows) /\ (prior # None => prior \in Seq(AllShows))
        BY <3>2, SliceFilters, Zenon
      <4>3. \A s \in Range(Base(season, data, prior)) :
               s \notin Range(data) => prior # None /\ s \in Range(prior)
        BY <4>2, BaseShows, Zenon
      <4> QED
        BY <4>1, <4>3, Zenon
    <3> QED
      BY <2>1, <3>1, <3>2 DEF SlicesTyped
  <2> QED
    BY <2>1, <2>2, <2>3 DEF SlicesTyped, PipelineTypeOK
<1> QED
  BY <1>1, PipelineInvariant, PTL

\* A show that every mapping in force since the request knows is answered, and no show
\* is answered with an ID that none of them gave it (resolve.go:36-75).
THEOREM AnswersFollowTheMappings == Spec => []AnsweredAsMapped
<1>1. PipelineInv => AnsweredAsMapped
  <2> SUFFICES ASSUME PipelineInv, pc = "answered", NEW s \in Range(shows)
               PROVE  AsMapped(s)
    BY DEF AnsweredAsMapped, AsMapped
  <2>1. shows \in Seq(AllShows) /\ \A j \in 1 .. Len(shows) : AsMapped(shows[j])
    BY DEF PipelineInv, SlicesTyped, ResolvedSoFar
  <2>2. PICK j \in 1 .. Len(shows) : s = shows[j]
    BY <2>1 DEF Range
  <2> QED
    BY <2>1, <2>2
<1> QED
  BY <1>1, PipelineInvariant, PTL

\* The overflow answers no show twice, in lists of any length (scheduler.go:153-168).
THEOREM OverflowIsOnce == Spec => []OverflowAddsOnce
<1>1. PipelineInv => OverflowAddsOnce
  <2> SUFFICES ASSUME PipelineInv, pc = "answered", DistinctShows(data)
               PROVE  DistinctShows(Answer)
    BY DEF OverflowAddsOnce
  <2>1. data \in Seq(AllShows) /\ (prior # None => prior \in Seq(AllShows))
    BY SliceFilters, Zenon
  <2>2. Base(season, data, prior) \in Seq(AllShows)
        /\ DistinctShows(Base(season, data, prior))
    BY <2>1, BaseIsAList, BaseDistinct, Zenon
  <2> QED
    BY <2>2, AnswerFilters, EmbedsDistinct, Zenon
<1> QED
  BY <1>1, PipelineInvariant, PTL

\* The answer keeps AniList's order of popularity, in lists of any length.
THEOREM PopularityIsKept == Spec => []PopularityKept
<1>1. PipelineInv => PopularityKept
  <2> SUFFICES ASSUME PipelineInv, pc = "answered",
                      NEW a \in 1 .. Len(Answer), NEW b \in 1 .. Len(Answer),
                      a < b, Answer[b] \in Range(data)
               PROVE  \E j, k \in 1 .. Len(data) :
                         j < k /\ data[j] = Answer[a] /\ data[k] = Answer[b]
    BY DEF PopularityKept
  <2>1. data \in Seq(AllShows) /\ (prior # None => prior \in Seq(AllShows))
    BY SliceFilters, Zenon
  <2>2. Answer \in Seq(AllShows) /\ Embeds(Answer, Base(season, data, prior))
    BY AnswerFilters
  <2> QED
    BY <2>1, <2>2, BaseOrder
<1> QED
  BY <1>1, PipelineInvariant, PTL

\* The months of the seasons do not overlap, and leave no month out.
LEMMA MonthOfOneSeason ==
  ASSUME NEW m \in 1 .. 12, NEW In,
         In["WINTER"] <=> m \in {12, 1, 2, 3}, In["SPRING"] <=> m \in 4 .. 6,
         In["SUMMER"] <=> m \in 7 .. 9, In["FALL"] <=> m \in {10, 11}
  PROVE  \E n \in Seasons : \A other \in Seasons : In[other] <=> other = n
<1> DEFINE Only(n) == \A other \in Seasons : In[other] <=> other = n
<1>1. m \in {12, 1, 2, 3} => Only("WINTER")
  BY DEF Seasons
<1>2. m \in 4 .. 6 => Only("SPRING")
  BY DEF Seasons
<1>3. m \in 7 .. 9 => Only("SUMMER")
  BY DEF Seasons
<1>4. m \in {10, 11} => Only("FALL")
  BY DEF Seasons
<1>5. m \in {12, 1, 2, 3} \/ m \in 4 .. 6 \/ m \in 7 .. 9 \/ m \in {10, 11}
  OBVIOUS
<1> HIDE DEF Only
<1>6. \E n \in Seasons : Only(n)
  BY <1>1, <1>2, <1>3, <1>4, <1>5, Zenon DEF Seasons
<1> QED
  BY <1>6 DEF Only

\* A show with a season or a month is in season in exactly one season.
LEMMA OneSeason ==
  ASSUME NEW s \in AllShows, s.season # "" \/ s.month # None
  PROVE  \E n \in Seasons : \A other \in Seasons : InSeason(s, other) <=> other = n
<1>1. s.season \in Seasons \cup {""} /\ s.month \in 1 .. 12 \cup {None} /\ None \notin 1 .. 12
  BY ListsAssumption DEF AllShows
<1>2. CASE s.season # ""
  BY <1>1, <1>2 DEF InSeason, Seasons
<1>3. CASE s.season = ""
  <2> DEFINE In == [n \in Seasons |-> InSeason(s, n)]
  <2>1. s.month \in 1 .. 12 /\ s.month # None
    BY <1>1, <1>3
  <2>2. InSeason(s, "WINTER") <=> s.month \in {12, 1, 2, 3}
    BY <1>3, <2>1, Zenon DEF InSeason
  <2>3. InSeason(s, "SPRING") <=> s.month \in 4 .. 6
    BY <1>3, <2>1, Zenon DEF InSeason
  <2>4. InSeason(s, "SUMMER") <=> s.month \in 7 .. 9
    BY <1>3, <2>1, Zenon DEF InSeason
  <2>5. InSeason(s, "FALL") <=> s.month \in {10, 11}
    BY <1>3, <2>1, Zenon DEF InSeason
  <2>6. \A n \in Seasons : In[n] <=> InSeason(s, n)
    BY Zenon
  <2>7. {"WINTER", "SPRING", "SUMMER", "FALL"} = Seasons
    BY Zenon DEF Seasons
  <2> HIDE DEF In
  <2>8. \E n \in Seasons : \A other \in Seasons : In[other] <=> other = n
    BY <2>1, <2>2, <2>3, <2>4, <2>5, <2>6, <2>7, MonthOfOneSeason, Zenon
  <2> QED
    BY <2>6, <2>8, Zenon
<1> QED
  BY <1>2, <1>3

\* The four seasons divide up what season=ALL selects (filter.go:90-127).
THEOREM SeasonsPartition == Spec => []SeasonsDivideAll
<1>1. PipelineInv => SeasonsDivideAll
  <2> SUFFICES ASSUME PipelineInv, pc = "check", season = "ALL",
                      NEW s \in Range(shows), s.season # "" \/ s.month # None
               PROVE  \E n \in Seasons : \A other \in Seasons :
                         s \in Range(Selected(other, category, data, prior)) <=> other = n
    BY DEF SeasonsDivideAll
  <2>1. /\ data \in Seq(AllShows) /\ (prior # None => prior \in Seq(AllShows))
        /\ Filters(shows, Base(season, data, prior), AllShows,
                   InSeasonOrAll(AllShows, season) \cap Passing(AllShows, category))
    BY SliceFilters, Zenon
  <2>2. s \in Range(Base("ALL", data, prior)) /\ s \in AllShows
        /\ s \in Passing(AllShows, category)
    BY <2>1, Zenon DEF Filters, InSeasonOrAll
  <2>3. PICK n \in Seasons : \A other \in Seasons : InSeason(s, other) <=> other = n
    BY <2>2, OneSeason
  <2>4. ASSUME NEW other \in Seasons
        PROVE  s \in Range(Selected(other, category, data, prior))
                 <=> s \in Range(Base(other, data, prior)) /\ InSeason(s, other)
    <3>1. Filters(Selected(other, category, data, prior), Base(other, data, prior), AllShows,
                  InSeasonOrAll(AllShows, other) \cap Passing(AllShows, category))
      BY <2>1, SelectedFilters, Zenon
    <3>2. other # "ALL"
      BY DEF Seasons
    <3> QED
      BY <2>2, <3>1, <3>2, Zenon DEF Filters, InSeasonOrAll
  <2>5. s \in Range(Base(n, data, prior))
    <3>1. CASE n = "WINTER"
      <4>1. Base(n, data, prior) = Base("ALL", data, prior)
        BY <3>1 DEF Base
      <4> QED
        BY <2>2, <4>1
    <3>2. CASE n # "WINTER"
      <4>1. ~InSeason(s, "WINTER")
        BY <2>3, <3>2 DEF Seasons
      <4>2. s \in Range(data)
        BY <2>1, <2>2, <4>1, BaseShows, Zenon
      <4> QED
        BY <2>1, <4>2, BaseShows, Zenon
    <3> QED
      BY <3>1, <3>2
  <2> QED
    BY <2>3, <2>4, <2>5
<1> QED
  BY <1>1, PipelineInvariant, PTL

\* A listed show stays listed as the days pass: the limit's month never goes back, for
\* any number of months ahead (anilist.go:120-126).
THEOREM ListedStaysListed == Spec => OnceListedStays
<1>1. PipelineInv => Valid(today)
  BY DEF PipelineInv, SlicesTyped
<1>2. [Next]_vars => [NextDay]_today
  BY DEF Next, vars, Request, Select, CheckMapping, Resolve, Finish, NextRequest,
         RefreshMapping, Midnight
<1>3. PipelineInv /\ PipelineInv' /\ [Next]_vars =>
        [\A start \in [month : Months, day : {1}] :
             IsWithinMonths(start) => IsWithinMonths(start)']_today
  BY <1>1, <1>2, ListedStep DEF PipelineInv, SlicesTyped
<1> QED
  BY <1>3, PipelineInvariant, PTL DEF Spec, OnceListedStays
=============================================================================
