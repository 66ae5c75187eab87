------------------------- MODULE MappingParserProofs -------------------------
(***************************************************************************)
(* Proofs about MappingParser, for any entry and any order in which its    *)
(* places are visited.  The invariant speaks of the places visited so far: *)
(* the best one is among them, is s1 once foundS1 is set, and is at least  *)
(* as good as any visited place that must not lose.                        *)
(***************************************************************************)
EXTENDS MappingParser, TLAPS

USE RangeAssumption, TargetsAssumption, NoneAssumption

\* A range never counts for a negative number of episodes (countSourceEpisodes).
LEMMA LengthNat ==
  ASSUME NEW r \in Ranges
  PROVE  Length(r) \in Nat
<1>1. r.first \in 0 .. MaxRange /\ (r.last = Open \/ r.last \in 0 .. MaxRange)
  BY DEF Ranges
<1> QED
  BY <1>1 DEF Length

LEMMA EpisodesNat ==
  ASSUME NEW t \in AllTargets
  PROVE  Episodes(t) \in Nat
<1>1. t.ranges[1] \in Ranges /\ t.ranges[2] \in Ranges
  BY DEF AllTargets
<1> QED
  BY <1>1, LengthNat DEF Episodes

LEMMA NothingTyped == Nothing \in AllTargets
  BY DEF Nothing, AllTargets, Ranges

\* The counts, for any typed entry.
LEMMA CountNat ==
  ASSUME entry \in [Descriptors -> AllTargets],
         NEW d \in Descriptors \cup {Nothing}
  PROVE  Count(d) \in Nat
<1>1. CASE d = Nothing
  BY <1>1 DEF Count
<1>2. CASE d # Nothing
  BY <1>2, EpisodesNat DEF Count
<1> QED
  BY <1>1, <1>2

\* ParserTypeOK without what follows from it.
Shape ==
    /\ pc \in {"key", "entry", "ok", "error"}
    /\ id \in Ids
    /\ entry \in [Descriptors -> AllTargets]
    /\ todo \subseteq Descriptors
    /\ best \in Descriptors \cup {Nothing}
    /\ foundS1 \in BOOLEAN
    /\ byId \in [Ids -> Nat]
    /\ cut \in BOOLEAN
    /\ listed \subseteq Ids

LEMMA ShapeInvariant == Spec => []Shape
<1>1. Init => Shape
  <2> SUFFICES ASSUME Init PROVE Shape
    OBVIOUS
  <2>1. foundS1 \in BOOLEAN /\ cut \in BOOLEAN /\ listed \subseteq Ids
    BY Zenon DEF Init
  <2>2. entry \in [Descriptors -> AllTargets]
    BY NothingTyped DEF Init, Empty
  <2>3. byId \in [Ids -> Nat] /\ todo \subseteq Descriptors
    BY DEF Init
  <2> QED
    BY <2>1, <2>2, <2>3 DEF Init, Shape
<1>2. Shape /\ [Next]_vars => Shape'
  <2> SUFFICES ASSUME Shape, [Next]_vars
               PROVE  Shape'
    OBVIOUS
  <2> USE DEF Shape
  <2>1. CASE ReadEntry
    <3>1. entry' \in [Descriptors -> AllTargets]
      BY <2>1, NothingTyped DEF ReadEntry
    <3> QED
      BY <2>1, <3>1 DEF ReadEntry
  <2>2. ASSUME NEW d \in Descriptors, Visit(d)
        PROVE  Shape'
    <3>1. best' \in Descriptors \cup {Nothing}
      BY <2>2 DEF Visit
    <3>2. foundS1' \in BOOLEAN
      BY <2>2, Zenon DEF Visit
    <3> QED
      BY <2>2, <3>1, <3>2 DEF Visit
  <2>3. CASE Record
    <3>1. Chosen \in Nat
      <4>1. CASE best = Nothing
        BY <4>1 DEF Chosen
      <4>2. CASE best # Nothing
        BY <4>2 DEF Chosen, AllTargets
      <4> QED
        BY <4>1, <4>2
    <3>2. byId' \in [Ids -> Nat]
      BY <2>3, <3>1 DEF Record
    <3>3. entry' \in [Descriptors -> AllTargets]
      BY <2>3, NothingTyped DEF Record, Empty
    <3> QED
      BY <2>3, <3>2, <3>3 DEF Record
  <2>4. CASE CutInValue
    BY <2>4 DEF CutInValue
  <2>5. CASE Close \/ Reject
    BY <2>5 DEF Close, Reject
  <2>6. CASE Reload
    BY <2>6 DEF Reload
  <2>7. CASE UNCHANGED vars
    BY <2>7 DEF vars
  <2> QED
    BY <2>1, <2>2, <2>3, <2>4, <2>5, <2>6, <2>7 DEF Next
<1> QED
  BY <1>1, <1>2, PTL DEF Spec

\* The locals and the maps keep their types, and no count is negative.
THEOREM ParserTypeCorrect == Spec => []ParserTypeOK
<1>1. Shape => ParserTypeOK
  BY CountNat DEF Shape, ParserTypeOK
<1> QED
  BY <1>1, ShapeInvariant, PTL

-----------------------------------------------------------------------------
\* A visited place that must not lose against the best so far: an s1 scope that none
\* exceeds, or any usable place where there is no s1 scope.
MustNotLose(d) ==
    \/ S1(d) /\ Most(d)
    \/ Usable(d) /\ \A e \in Descriptors : ~S1(e)

Scanned ==
    pc = "entry" =>
        /\ best # Nothing => Usable(best)
        /\ foundS1 => best # Nothing /\ S1(best)
        /\ \A d \in Descriptors \ todo : S1(d) /\ Most(d) => foundS1
        /\ \A d \in Descriptors \ todo : MustNotLose(d) => Count(best) >= Count(d)

LEMMA VisitKeeps ==
  ASSUME Shape, Scanned, NEW v \in Descriptors, Visit(v)
  PROVE  Scanned'
<1> DEFINE s1Wins == entry[v].tvdb > 0 /\ entry[v].s1 /\ Count(v) >= Count(best)
           otherWins == entry[v].tvdb > 0 /\ ~foundS1 /\ Count(v) > Count(best)
<1>1. /\ pc = "entry" /\ v \in todo /\ todo' = todo \ {v}
      /\ best' = IF s1Wins \/ otherWins THEN v ELSE best
      /\ foundS1' = (foundS1 \/ s1Wins)
      /\ UNCHANGED <<pc, entry>>
  BY DEF Visit
<1>2. \A d : Usable(d)' = Usable(d) /\ S1(d)' = S1(d)
  BY <1>1 DEF Usable, S1
<1>3. \A d : Count(d)' = Count(d)
  BY <1>1 DEF Count
<1>4. \A d : Most(d)' = Most(d)
  BY <1>2, <1>3 DEF Most
<1>5. \A d : MustNotLose(d)' = MustNotLose(d)
  BY <1>2, <1>4 DEF MustNotLose
<1>6. Count(v) \in Nat /\ Count(best) \in Nat /\ \A d \in Descriptors : Count(d) \in Nat
  BY CountNat DEF Shape
<1>7. Count(best') >= Count(best)
  <2>1. CASE s1Wins \/ otherWins
    BY <1>1, <1>6, <2>1
  <2>2. CASE ~(s1Wins \/ otherWins)
    BY <1>1, <1>6, <2>2
  <2> QED
    BY <2>1, <2>2
<1>8. best' \in Descriptors \cup {Nothing} /\ Count(best') \in Nat
  BY <1>1, <1>6 DEF Shape
<1>9. best' # Nothing => Usable(best')
  <2>1. CASE s1Wins \/ otherWins
    BY <1>1, <2>1 DEF Usable
  <2>2. CASE ~(s1Wins \/ otherWins)
    BY <1>1, <2>2 DEF Scanned
  <2> QED
    BY <2>1, <2>2
<1>10. foundS1' => best' # Nothing /\ S1(best')
  <2>1. CASE s1Wins
    BY <1>1, <2>1 DEF Usable, S1
  <2>2. CASE ~s1Wins /\ foundS1
    BY <1>1, <2>2 DEF Scanned
  <2>3. CASE ~s1Wins /\ ~foundS1
    BY <1>1, <2>3
  <2> QED
    BY <2>1, <2>2, <2>3
<1>11. S1(v) /\ Most(v) => s1Wins
  <2>1. best # Nothing => Usable(best) /\ best \in Descriptors
    BY <1>1 DEF Scanned, Shape
  <2>2. Most(v) => Count(v) >= Count(best)
    BY <2>1, <1>6 DEF Most, Count
  <2> QED
    BY <2>2 DEF S1, Usable
<1>12. MustNotLose(v) => Count(best') >= Count(v)
  <2>1. CASE s1Wins \/ otherWins
    BY <1>1, <1>6, <2>1
  <2>2. CASE ~(s1Wins \/ otherWins)
    <3>1. S1(v) /\ Most(v) => Count(best) >= Count(v)
      BY <1>11, <2>2
    <3>2. (\A e \in Descriptors : ~S1(e)) => ~foundS1
      BY <1>1 DEF Scanned, Shape
    <3>3. Usable(v) /\ ~foundS1 => Count(best) >= Count(v)
      BY <1>6, <2>2 DEF Usable
    <3> QED
      BY <1>1, <2>2, <3>1, <3>2, <3>3 DEF MustNotLose
  <2> QED
    BY <2>1, <2>2
<1>13. \A d \in Descriptors \ todo' : S1(d) /\ Most(d) => foundS1'
  BY <1>1, <1>11 DEF Scanned
<1>14. ASSUME NEW d \in Descriptors \ todo', MustNotLose(d)
       PROVE  Count(best') >= Count(d)
  <2>1. CASE d = v
    BY <1>12, <1>14, <2>1
  <2>2. CASE d # v
    <3>1. Count(best) >= Count(d)
      BY <1>1, <1>14, <2>2 DEF Scanned
    <3> QED
      BY <1>6, <1>7, <1>8, <3>1
  <2> QED
    BY <2>1, <2>2
<1>15. Count(best)' = Count(best')
  BY <1>1 DEF Count
<1>16. Usable(best)' = Usable(best') /\ S1(best)' = S1(best')
  BY <1>1 DEF Usable, S1
<1> QED
  BY <1>2, <1>3, <1>4, <1>5, <1>9, <1>10, <1>13, <1>14, <1>15, <1>16 DEF Scanned

LEMMA ScannedInvariant == Spec => []Scanned
<1>1. Init => Scanned
  BY DEF Init, Scanned
<1>2. Shape /\ Scanned /\ [Next]_vars => Scanned'
  <2> SUFFICES ASSUME Shape, Scanned, [Next]_vars
               PROVE  Scanned'
    OBVIOUS
  <2>1. CASE ReadEntry
    BY <2>1 DEF ReadEntry, Scanned
  <2>2. ASSUME NEW d \in Descriptors, Visit(d)
        PROVE  Scanned'
    BY <2>2, VisitKeeps
  <2>3. CASE Record \/ CutInValue \/ Close \/ Reject \/ Reload
    <3>1. pc' # "entry"
      BY <2>3 DEF Record, CutInValue, Close, Reject, Reload
    <3> QED
      BY <3>1 DEF Scanned
  <2>4. CASE UNCHANGED vars
    BY <2>4 DEF vars, Scanned, Usable, S1, Most, MustNotLose, Count
  <2> QED
    BY <2>1, <2>2, <2>3, <2>4 DEF Next
<1> QED
  BY <1>1, <1>2, ShapeInvariant, PTL DEF Spec

\* Whatever the order of the map: an s1 scope that no other scope exceeds wins, or
\* another such s1 scope does.
THEOREM DominantS1Wins == Spec => []DominantS1Chosen
<1>1. Shape /\ Scanned => DominantS1Chosen
  <2> SUFFICES ASSUME Shape, Scanned, Ranged, NEW d \in Descriptors, S1(d), Most(d)
               PROVE  best \in Descriptors /\ S1(best) /\ Most(best)
    BY DEF DominantS1Chosen
  <2>1. foundS1 /\ Count(best) >= Count(d)
    BY DEF Scanned, Ranged, MustNotLose
  <2>2. best \in Descriptors /\ S1(best)
    BY <2>1 DEF Scanned, Ranged, Shape
  <2>3. Count(best) \in Nat /\ \A e \in Descriptors : Count(e) \in Nat
    BY <2>2, CountNat DEF Shape
  <2>4. Most(best)
    BY <2>1, <2>3 DEF Most
  <2> QED
    BY <2>2, <2>4
<1> QED
  BY <1>1, ShapeInvariant, ScannedInvariant, PTL

\* Whatever the order of the map: without an s1 scope, the scope with the most
\* episodes wins.
THEOREM MostEpisodesWin == Spec => []MostEpisodesChosen
<1>1. Shape /\ Scanned => MostEpisodesChosen
  <2> SUFFICES ASSUME Shape, Scanned, Ranged, \A e \in Descriptors : ~S1(e),
                      NEW d \in Descriptors, Usable(d), Count(d) > 0
               PROVE  best \in Descriptors /\ Usable(best) /\ Most(best)
    BY DEF MostEpisodesChosen
  <2>1. \A e \in Descriptors : Usable(e) => Count(best) >= Count(e)
    BY DEF Scanned, Ranged, MustNotLose
  <2>2. \A e \in Descriptors \cup {Nothing} : Count(e) \in Nat
    BY CountNat DEF Shape
  <2>3. best # Nothing
    BY <2>1, <2>2 DEF Count
  <2> QED
    BY <2>1, <2>3 DEF Scanned, Ranged, Shape, Most
<1> QED
  BY <1>1, ShapeInvariant, ScannedInvariant, PTL

-----------------------------------------------------------------------------
\* Of the places visited so far, one that offers a show has left its mark.
Found == pc = "entry" => \A d \in Descriptors \ todo : Offers(entry[d]) => best # Nothing

LEMMA FoundInvariant == Spec => []Found
<1>1. Init => Found
  BY DEF Init, Found
<1>2. Shape /\ Scanned /\ Found /\ [Next]_vars => Found'
  <2> SUFFICES ASSUME Shape, Scanned, Found, [Next]_vars
               PROVE  Found'
    OBVIOUS
  <2>1. CASE ReadEntry
    BY <2>1 DEF ReadEntry, Found
  <2>2. ASSUME NEW v \in Descriptors, Visit(v), NEW d \in Descriptors \ todo',
               Offers(entry[d])
        PROVE  best' # Nothing
    <3>1. pc = "entry" /\ todo' = todo \ {v} /\ (best' = best \/ best' = v)
      BY <2>2 DEF Visit
    <3>2. CASE best # Nothing
      BY <3>1, <3>2
    <3>3. CASE best = Nothing
      <4>1. d = v
        BY <2>2, <3>1, <3>3 DEF Found
      <4>2. ~foundS1 /\ Count(best) = 0
        BY <3>1, <3>3 DEF Scanned, Shape, Count
      <4>3. Count(v) = Episodes(entry[v]) /\ Count(v) \in Nat
        BY CountNat DEF Count, Shape
      <4>4. entry[v].tvdb > 0 /\ (entry[v].s1 \/ Count(v) > 0)
        BY <2>2, <4>1, <4>3 DEF Offers
      <4>5. best' = v
        BY <2>2, <4>2, <4>3, <4>4 DEF Visit
      <4> QED
        BY <4>5
    <3> QED
      BY <3>2, <3>3
  <2>3. ASSUME NEW v \in Descriptors, Visit(v)
        PROVE  Found'
    BY <2>2, <2>3 DEF Found, Visit
  <2>4. CASE Record \/ CutInValue \/ Close \/ Reject \/ Reload
    <3>1. pc' # "entry"
      BY <2>4 DEF Record, CutInValue, Close, Reject, Reload
    <3> QED
      BY <3>1 DEF Found
  <2>5. CASE UNCHANGED vars
    BY <2>5 DEF vars, Found
  <2> QED
    BY <2>1, <2>3, <2>4, <2>5 DEF Next
<1> QED
  BY <1>1, <1>2, ShapeInvariant, ScannedInvariant, PTL DEF Spec

\* As long as the file is not cut, an ID that it gives a show is in the mapping, or is
\* the one whose entry is being looked at.
BeingRead(i) == pc = "entry" /\ i = id /\ \E d \in Descriptors : Offers(entry[d])

ListedInv ==
    /\ ~cut => \A i \in listed : byId[i] > 0 \/ BeingRead(i) \/ pc = "error"
    /\ pc = "ok" => ~cut

\* The mapping that is returned has every ID that the whole file has.
THEOREM MappingIsWhole == Spec => []NothingLost
<1>1. Init => ListedInv
  BY DEF Init, ListedInv
<1>2. Shape /\ Scanned /\ Found /\ ListedInv /\ [Next]_vars => ListedInv'
  <2> SUFFICES ASSUME Shape, Scanned, Found, ListedInv, [Next]_vars
               PROVE  ListedInv'
    OBVIOUS
  <2>1. CASE ReadEntry
    <3>1. pc = "key" /\ pc' = "entry" /\ ~cut /\ UNCHANGED <<byId, cut>>
      BY <2>1 DEF ReadEntry
    <3>2. \A i \in listed : byId[i] > 0
      BY <3>1 DEF ListedInv, BeingRead
    <3>3. \A i \in listed' : i \in listed \/ BeingRead(i)'
      BY <2>1 DEF ReadEntry, BeingRead
    <3> QED
      BY <3>1, <3>2, <3>3 DEF ListedInv
  <2>2. ASSUME NEW v \in Descriptors, Visit(v)
        PROVE  ListedInv'
    BY <2>2 DEF Visit, ListedInv, BeingRead
  <2>3. CASE Record
    <3>1. /\ pc = "entry" /\ todo = {} /\ pc' = "key" /\ UNCHANGED <<cut, listed>>
          /\ byId' = [byId EXCEPT ![id] = IF Chosen > 0 THEN Chosen ELSE @]
      BY <2>3 DEF Record
    <3>2. \A i \in Ids : byId[i] > 0 => byId'[i] > 0
      BY <3>1 DEF Shape
    <3>3. (\E d \in Descriptors : Offers(entry[d])) => byId'[id] > 0
      <4>1. SUFFICES ASSUME \E d \in Descriptors : Offers(entry[d])
                     PROVE  byId'[id] > 0
        OBVIOUS
      <4>2. best # Nothing
        BY <3>1, <4>1 DEF Found
      <4>3. Chosen > 0
        BY <3>1, <4>2 DEF Scanned, Usable, Chosen
      <4> QED
        BY <3>1, <4>3 DEF Shape
    <3> QED
      BY <3>1, <3>2, <3>3 DEF ListedInv, BeingRead, Shape
  <2>4. CASE CutInValue
    BY <2>4 DEF CutInValue, ListedInv
  <2>5. CASE Close \/ Reject
    BY <2>5 DEF Close, Reject, ListedInv, BeingRead
  <2>6. CASE Reload
    BY <2>6 DEF Reload, ListedInv
  <2>7. CASE UNCHANGED vars
    BY <2>7 DEF vars, ListedInv, BeingRead
  <2> QED
    BY <2>1, <2>2, <2>3, <2>4, <2>5, <2>6, <2>7 DEF Next
<1>3. ListedInv => NothingLost
  BY DEF ListedInv, NothingLost, BeingRead
<1> QED
  BY <1>1, <1>2, <1>3, ShapeInvariant, ScannedInvariant, FoundInvariant, PTL DEF Spec
=============================================================================
