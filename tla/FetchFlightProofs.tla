-------------------------- MODULE FetchFlightProofs --------------------------
(***************************************************************************)
(* What holds of FetchFlight for every set of years, requests and workers  *)
(* and every bound MaxVersion.  The invariants that the runs check are not *)
(* inductive by themselves; Inv adds what each step relies on:             *)
(*   - a flight is open exactly while its owner has yet to close it,       *)
(*   - no row is newer than AniList, and a row is no newer than what the   *)
(*     owner of the year's flight will store,                              *)
(*   - "ok" is only ever the outcome of a Store.                           *)
(***************************************************************************)
EXTENDS FetchFlight, TLAPS

USE DEF Callers, Absent, Versions, Results, OwnerSteps, Flights

-----------------------------------------------------------------------------
(* 1. Who owns a flight.  Type correctness needs it: Close assigns the result *)
(* of a flight that must exist, and FetchYear reads upstream[year[p]].        *)

CallHasYear ==
    \A p \in Callers : (pc[p] # "idle" \/ err[p] = "ok") => year[p] \in Years

OwnerInv == TypeOK /\ CallHasYear /\ OneFlightPerYear

\* No step of a caller or of its environment disturbs a flight it does not own.
LEMMA OwnerStep ==
  ASSUME OwnerInv, [Next]_vars
  PROVE  OwnerInv'
<1> USE NoneAssumption, MaxVersionAssumption DEF OwnerInv, TypeOK, CallHasYear, OneFlightPerYear
<1>1. ASSUME NEW p \in Callers, NEW y \in Years, Lead(p, y)
      PROVE  OwnerInv'
  <2> USE <1>1 DEF Lead
  <2>1. TypeOK' /\ CallHasYear'
    OBVIOUS
  <2>2. \A q \in Callers : pc[q] \in OwnerSteps => year[q] # y
    OBVIOUS
  <2>3. \A z \in Years : inflight'[z] # None =>
           /\ pc'[inflight'[z].owner] \in OwnerSteps
           /\ year'[inflight'[z].owner] = z
    <3> SUFFICES ASSUME NEW z \in Years, inflight'[z] # None
                 PROVE  /\ pc'[inflight'[z].owner] \in OwnerSteps
                        /\ year'[inflight'[z].owner] = z
      OBVIOUS
    <3>1. CASE z = y
      BY <3>1
    <3>2. CASE z # y
      <4>1. inflight'[z] = inflight[z] /\ inflight[z].owner \in Callers
        BY <3>2
      <4>2. inflight[z].owner # p
        BY <4>1
      <4> QED BY <4>1, <4>2
    <3> QED BY <3>1, <3>2
  <2>4. \A q \in Callers : pc'[q] \in OwnerSteps =>
           inflight'[year'[q]] # None /\ inflight'[year'[q]].owner = q
    <3> SUFFICES ASSUME NEW q \in Callers, pc'[q] \in OwnerSteps
                 PROVE  inflight'[year'[q]] # None /\ inflight'[year'[q]].owner = q
      OBVIOUS
    <3>1. CASE q = p
      <4>1. year'[q] = y /\ inflight'[y] = [owner |-> p, result |-> "open"]
        BY <3>1
      <4>2. [owner |-> p, result |-> "open"] # None
        BY <4>1
      <4> QED BY <3>1, <4>1, <4>2
    <3>2. CASE q # p
      <4>1. pc[q] \in OwnerSteps /\ year'[q] = year[q] /\ year[q] \in Years
        BY <3>2
      <4>2. inflight'[year[q]] = inflight[year[q]]
        BY <4>1, <2>2
      <4> QED BY <4>1, <4>2
    <3> QED BY <3>1, <3>2
  <2> QED BY <2>1, <2>3, <2>4
<1>2. ASSUME NEW p \in Callers, NEW y \in Years, Join(p, y)
      PROVE  OwnerInv'
  BY <1>2 DEF Join
<1>3. ASSUME NEW p \in Callers, FetchYear(p)
      PROVE  OwnerInv'
  BY <1>3 DEF FetchYear
<1>4. ASSUME NEW p \in Callers, FetchFails(p)
      PROVE  OwnerInv'
  BY <1>4 DEF FetchFails
<1>5. ASSUME NEW p \in Callers, Store(p)
      PROVE  OwnerInv'
  BY <1>5 DEF Store
<1>6. ASSUME NEW p \in Callers, StoreFails(p)
      PROVE  OwnerInv'
  BY <1>6 DEF StoreFails
<1>7. ASSUME NEW p \in Callers, Close(p)
      PROVE  OwnerInv'
  <2> USE <1>7 DEF Close
  <2>1. year[p] \in Years /\ inflight[year[p]] \in Flights
    OBVIOUS
  <2>2. /\ inflight' \in [Years -> Flights \cup {None}]
        /\ \A z \in Years : inflight'[z] # None =>
              inflight[z] # None /\ inflight'[z].owner = inflight[z].owner
        /\ \A z \in Years : inflight[z] # None => inflight'[z] # None
    <3> DEFINE closed == [inflight[year[p]] EXCEPT !.result = err[p]]
    <3>1. closed \in Flights /\ closed.owner = inflight[year[p]].owner
      BY <2>1
    <3>2. inflight[year[p]] # None /\ closed # None
      OBVIOUS
    <3>3. inflight' = [inflight EXCEPT ![year[p]] = closed]
      OBVIOUS
    <3> HIDE DEF closed
    <3> QED BY <2>1, <3>1, <3>2, <3>3
  <2>3. err' \in [Callers -> Results]
    OBVIOUS
  <2>4. TypeOK'
    BY SMTT(60), <2>2, <2>3
  <2>5. CallHasYear'
    BY SMTT(60) DEF Waiting
  <2>6. OneFlightPerYear'
    BY SMTT(60), <2>2
  <2> QED BY <2>4, <2>5, <2>6
<1>8. ASSUME NEW p \in Callers, Delete(p)
      PROVE  OwnerInv'
  BY <1>8 DEF Delete
<1>9. ASSUME NEW p \in Callers, WaitDone(p)
      PROVE  OwnerInv'
  BY <1>9 DEF WaitDone
<1>10. ASSUME NEW p \in Callers, WaitCancelled(p)
      PROVE  OwnerInv'
  BY <1>10 DEF WaitCancelled
<1>11. ASSUME NEW y \in Years, Publish(y)
      PROVE  OwnerInv'
  BY <1>11 DEF Publish
<1>12. ASSUME NEW S \in SUBSET Years, Evict(S)
      PROVE  OwnerInv'
  BY <1>12 DEF Evict
<1>13. CASE Cancel
  BY <1>13 DEF Cancel
<1>14. CASE Restart
  BY <1>14 DEF Restart
<1>15. CASE UNCHANGED vars
  BY <1>15 DEF vars
<1>16. ASSUME NEW p \in Callers, Return(p)
       PROVE  OwnerInv'
  BY <1>16 DEF Return
<1> QED
  BY <1>1, <1>2, <1>3, <1>4, <1>5, <1>6, <1>7, <1>8,
     <1>9, <1>10, <1>11, <1>12, <1>13, <1>14, <1>15, <1>16
     DEF Next, Call, Step, Environment

\* The initial states are among them.
LEMMA OwnerBegins ==
  ASSUME Init
  PROVE  OwnerInv
<1> USE NoneAssumption, MaxVersionAssumption DEF Init, MemoryInit
<1>1. upstream \in [Years -> Versions] /\ rows \in [Years -> {Absent} \cup Versions]
  OBVIOUS
<1>2. TypeOK
  BY <1>1 DEF TypeOK
<1> QED
  BY <1>2 DEF OwnerInv, CallHasYear, OneFlightPerYear

LEMMA OwnerInvariant == Spec => []OwnerInv
<1>1. Init => OwnerInv
  BY OwnerBegins
<1>2. OwnerInv /\ [Next]_vars => OwnerInv'
  BY OwnerStep
<1> QED BY <1>1, <1>2, PTL DEF Spec

\* Every variable has its type.
THEOREM TypeCorrect == Spec => []TypeOK
<1>1. OwnerInv => TypeOK
  BY DEF OwnerInv
<1> QED BY <1>1, OwnerInvariant, PTL

\* At any time a year has at most one flight, owned by the one caller that is
\* fetching it: two callers in the steps of an owner have different years.
THEOREM SingleFlight == Spec => []OneFlightPerYear
<1>1. OwnerInv => OneFlightPerYear
  BY DEF OwnerInv
<1> QED BY <1>1, OwnerInvariant, PTL

-----------------------------------------------------------------------------
(* 2. Who waits.  A flight is open exactly while its owner has yet to close   *)
(* it, and an owner never closes it with the result still open.               *)

OpenUntilClose ==
    \A y \in Years : inflight[y] # None =>
        (inflight[y].result = "open" <=>
            pc[inflight[y].owner] \in {"fetch", "store", "close"})

OwnerErrDecided == \A p \in Callers : pc[p] # "wait" => err[p] # "open"

ResultInv == OpenUntilClose /\ OwnerErrDecided /\ NoLostWaiter

\* Close decides the flight of its owner and of everyone who waits for it.
LEMMA CloseDecides ==
  ASSUME ResultInv, OwnerInv, NEW p \in Callers, Close(p)
  PROVE  ResultInv'
<1> DEFINE z == year[p]
<1>1. /\ pc[p] = "close" /\ UNCHANGED year
      /\ pc' = [pc EXCEPT ![p] = "delete"]
      /\ inflight' = [inflight EXCEPT ![z].result = err[p]]
      /\ err' = [q \in Callers |-> IF Waiting(q, z) THEN err[p] ELSE err[q]]
  BY DEF Close
<1>2. err[p] # "open"
  BY <1>1 DEF ResultInv, OwnerErrDecided
<1>3. z \in Years /\ inflight[z] # None /\ inflight[z].owner = p
  BY <1>1 DEF OwnerInv, OneFlightPerYear, CallHasYear, OwnerSteps
<1>4. inflight \in [Years -> Flights \cup {None}] /\ pc \in [Callers -> OwnerSteps \cup {"idle", "wait"}]
  BY DEF OwnerInv, TypeOK
<1>5. inflight[z] \in Flights
  BY <1>3, <1>4
<1>6. inflight'[z] = [inflight[z] EXCEPT !.result = err[p]]
  BY <1>1, <1>3, <1>4
<1>7. inflight'[z].owner = p /\ inflight'[z].result = err[p]
  BY <1>3, <1>5, <1>6 DEF Flights
<1>8. \A y \in Years : y # z => inflight'[y] = inflight[y]
  BY <1>1, <1>4
<1>9. pc'[p] = "delete" /\ \A q \in Callers : q # p => pc'[q] = pc[q]
  BY <1>1, <1>4
<1>10. \A y \in Years : inflight[y] # None /\ y # z => inflight[y].owner \in Callers \ {p}
  <2> SUFFICES ASSUME NEW y \in Years, inflight[y] # None, y # z
               PROVE  inflight[y].owner \in Callers /\ inflight[y].owner # p
    OBVIOUS
  <2>1. inflight[y].owner \in Callers
    BY <1>4 DEF Flights
  <2>2. year[inflight[y].owner] = y
    BY DEF OwnerInv, OneFlightPerYear
  <2> QED
    BY <2>1, <2>2
<1>11. ASSUME NEW q \in Callers
       PROVE  err'[q] = IF Waiting(q, z) THEN err[p] ELSE err[q]
  BY <1>1
<1> HIDE DEF z
<1>12. OpenUntilClose'
  <2> SUFFICES ASSUME NEW y \in Years, inflight'[y] # None
               PROVE  inflight'[y].result = "open" <=>
                          pc'[inflight'[y].owner] \in {"fetch", "store", "close"}
    BY DEF OpenUntilClose
  <2>1. CASE y = z
    BY <1>2, <1>7, <1>9, <2>1
  <2>2. CASE y # z
    <3>1. inflight'[y] = inflight[y] /\ pc'[inflight[y].owner] = pc[inflight[y].owner]
      BY <1>8, <1>9, <1>10, <2>2
    <3> QED
      BY <3>1 DEF ResultInv, OpenUntilClose
  <2> QED
    BY <2>1, <2>2
<1>13. OwnerErrDecided'
  <2> SUFFICES ASSUME NEW q \in Callers, pc'[q] # "wait"
               PROVE  err'[q] # "open"
    BY DEF OwnerErrDecided
  <2>1. pc[q] # "wait"
    BY <1>1, <1>9
  <2> QED
    BY <1>2, <1>11, <2>1 DEF Waiting, ResultInv, OwnerErrDecided
<1>14. NoLostWaiter'
  <2> SUFFICES ASSUME NEW q \in Callers, pc'[q] = "wait", err'[q] = "open"
               PROVE  /\ inflight'[year[q]] # None
                      /\ pc'[inflight'[year[q]].owner] \in {"fetch", "store", "close"}
    BY <1>1 DEF NoLostWaiter
  <2>1. pc[q] = "wait"
    BY <1>9
  <2>2. err[q] = "open" /\ year[q] # z
    BY <1>2, <1>11, <2>1 DEF Waiting
  <2>3. year[q] \in Years
    BY <2>1 DEF OwnerInv, CallHasYear
  <2>4. inflight[year[q]] # None /\ pc[inflight[year[q]].owner] \in {"fetch", "store", "close"}
    BY <2>1, <2>2 DEF ResultInv, NoLostWaiter
  <2> QED
    BY <1>8, <1>9, <1>10, <2>2, <2>3, <2>4
<1> QED
  BY <1>12, <1>13, <1>14 DEF ResultInv

\* A caller that waits on a done channel waits on one its owner has yet to close.
THEOREM WaitersServed == Spec => []NoLostWaiter
<1>1. Init => ResultInv
  BY NoneAssumption DEF Init, MemoryInit, ResultInv, OwnerInv, TypeOK, CallHasYear, OneFlightPerYear,
      OpenUntilClose, OwnerErrDecided, NoLostWaiter, Waiting, Cancelled
<1>2. ASSUME ResultInv, OwnerInv, OwnerInv', [Next]_vars
      PROVE  ResultInv'
  <2> USE <1>2, NoneAssumption, MaxVersionAssumption DEF ResultInv, OwnerInv, TypeOK, CallHasYear, OneFlightPerYear,
      OpenUntilClose, OwnerErrDecided, NoLostWaiter, Waiting, Cancelled
  <2>1. ASSUME NEW p \in Callers, NEW y \in Years, Lead(p, y)
        PROVE  ResultInv'
    BY <2>1 DEF Lead
  <2>2. ASSUME NEW p \in Callers, NEW y \in Years, Join(p, y)
        PROVE  ResultInv'
    BY <2>2 DEF Join
  <2>3. ASSUME NEW p \in Callers, FetchYear(p)
        PROVE  ResultInv'
    BY <2>3 DEF FetchYear
  <2>4. ASSUME NEW p \in Callers, FetchFails(p)
        PROVE  ResultInv'
    BY <2>4 DEF FetchFails
  <2>5. ASSUME NEW p \in Callers, Store(p)
        PROVE  ResultInv'
    BY <2>5 DEF Store
  <2>6. ASSUME NEW p \in Callers, StoreFails(p)
        PROVE  ResultInv'
    BY <2>6 DEF StoreFails
  <2>7. ASSUME NEW p \in Callers, Close(p)
        PROVE  ResultInv'
    BY <2>7, CloseDecides
  <2>8. ASSUME NEW p \in Callers, Delete(p)
        PROVE  ResultInv'
    BY <2>8 DEF Delete
  <2>9. ASSUME NEW p \in Callers, WaitDone(p)
        PROVE  ResultInv'
    BY <2>9 DEF WaitDone
  <2>10. ASSUME NEW p \in Callers, WaitCancelled(p)
        PROVE  ResultInv'
    BY <2>10 DEF WaitCancelled
  <2>11. ASSUME NEW y \in Years, Publish(y)
        PROVE  ResultInv'
    BY <2>11 DEF Publish
  <2>12. ASSUME NEW S \in SUBSET Years, Evict(S)
        PROVE  ResultInv'
    BY <2>12 DEF Evict
  <2>13. CASE Cancel
    BY <2>13 DEF Cancel
  <2>14. CASE Restart
    BY <2>14 DEF Restart
  <2>15. CASE UNCHANGED vars
    BY <2>15 DEF vars
  <2>16. ASSUME NEW p \in Callers, Return(p)
         PROVE  ResultInv'
    BY <2>16 DEF Return
  <2> QED
    BY <2>1, <2>2, <2>3, <2>4, <2>5, <2>6, <2>7, <2>8,
       <2>9, <2>10, <2>11, <2>12, <2>13, <2>14, <2>15, <2>16
       DEF Next, Call, Step, Environment
<1>3. ResultInv => NoLostWaiter
  BY DEF ResultInv
<1> QED BY <1>1, <1>2, <1>3, OwnerInvariant, PTL DEF Spec

-----------------------------------------------------------------------------
(* 3. What is stored.  The rows never run ahead of AniList, and the row of a  *)
(* year is no newer than what the owner of its flight is about to store.      *)

RowsPublished == \A y \in Years : rows[y] <= upstream[y]

OwnerReadsForward ==
    /\ \A p \in Callers : pc[p] \in {"fetch", "store"} =>
          /\ since[p] \in Versions
          /\ rows[year[p]] <= since[p]
          /\ since[p] <= upstream[year[p]]
    /\ \A p \in Callers : pc[p] = "store" =>
          /\ since[p] <= ver[p]
          /\ ver[p] <= upstream[year[p]]

VersionInv == RowsPublished /\ OwnerReadsForward

LEMMA VersionInvariant == Spec => []VersionInv
<1>1. Init => VersionInv
  BY NoneAssumption, MaxVersionAssumption DEF Init, MemoryInit, VersionInv, OwnerInv, TypeOK, CallHasYear, OneFlightPerYear,
      RowsPublished, OwnerReadsForward
<1>2. ASSUME VersionInv, OwnerInv, OwnerInv', [Next]_vars
      PROVE  VersionInv'
  <2> USE <1>2, NoneAssumption, MaxVersionAssumption DEF VersionInv, OwnerInv, TypeOK, CallHasYear, OneFlightPerYear,
      RowsPublished, OwnerReadsForward
  <2>1. ASSUME NEW p \in Callers, NEW y \in Years, Lead(p, y)
        PROVE  VersionInv'
    BY <2>1 DEF Lead
  <2>2. ASSUME NEW p \in Callers, NEW y \in Years, Join(p, y)
        PROVE  VersionInv'
    BY <2>2 DEF Join
  <2>3. ASSUME NEW p \in Callers, FetchYear(p)
        PROVE  VersionInv'
    BY <2>3 DEF FetchYear
  <2>4. ASSUME NEW p \in Callers, FetchFails(p)
        PROVE  VersionInv'
    BY <2>4 DEF FetchFails
  <2>5. ASSUME NEW p \in Callers, Store(p)
        PROVE  VersionInv'
    BY <2>5 DEF Store
  <2>6. ASSUME NEW p \in Callers, StoreFails(p)
        PROVE  VersionInv'
    BY <2>6 DEF StoreFails
  <2>7. ASSUME NEW p \in Callers, Close(p)
        PROVE  VersionInv'
    BY <2>7 DEF Close
  <2>8. ASSUME NEW p \in Callers, Delete(p)
        PROVE  VersionInv'
    BY <2>8 DEF Delete
  <2>9. ASSUME NEW p \in Callers, WaitDone(p)
        PROVE  VersionInv'
    BY <2>9 DEF WaitDone
  <2>10. ASSUME NEW p \in Callers, WaitCancelled(p)
        PROVE  VersionInv'
    BY <2>10 DEF WaitCancelled
  <2>11. ASSUME NEW y \in Years, Publish(y)
        PROVE  VersionInv'
    BY <2>11 DEF Publish
  <2>12. ASSUME NEW S \in SUBSET Years, Evict(S)
        PROVE  VersionInv'
    BY <2>12 DEF Evict
  <2>13. CASE Cancel
    BY <2>13 DEF Cancel
  <2>14. CASE Restart
    BY <2>14 DEF Restart
  <2>15. CASE UNCHANGED vars
    BY <2>15 DEF vars
  <2>16. ASSUME NEW p \in Callers, Return(p)
         PROVE  VersionInv'
    BY <2>16 DEF Return
  <2> QED
    BY <2>1, <2>2, <2>3, <2>4, <2>5, <2>6, <2>7, <2>8,
       <2>9, <2>10, <2>11, <2>12, <2>13, <2>14, <2>15, <2>16
       DEF Next, Call, Step, Environment
<1> QED BY <1>1, <1>2, OwnerInvariant, PTL DEF Spec

\* A row is only ever replaced by data at least as new, or removed.
THEOREM RowsNeverGoBack == Spec => VersionsAdvance
<1> DEFINE Advance == \A y \in Years : rows'[y] # Absent => rows'[y] >= rows[y]
<1>1. ASSUME OwnerInv, VersionInv, [Next]_vars
      PROVE  Advance
  <2> USE <1>1 DEF OwnerInv, TypeOK
  <2>1. ASSUME NEW p \in Callers, Store(p)
        PROVE  Advance
    BY <2>1 DEF Store, CallHasYear, VersionInv, OwnerReadsForward
  <2>2. ASSUME NEW S \in SUBSET Years, Evict(S)
        PROVE  Advance
    BY <2>2 DEF Evict
  <2>3. CASE UNCHANGED rows
    BY <2>3
  <2>4. \/ \E p \in Callers : Store(p)
        \/ \E S \in SUBSET Years : Evict(S)
        \/ UNCHANGED rows
    BY DEF Next, Call, Step, Environment, vars, Lead, Join, FetchYear, FetchFails,
           StoreFails, Close, Delete, WaitDone, WaitCancelled, Return, Publish, Cancel, Restart
  <2> QED BY <2>1, <2>2, <2>3, <2>4
<1>2. OwnerInv /\ VersionInv /\ [Next]_vars => [Advance]_vars
  BY <1>1
<1> QED BY <1>2, OwnerInvariant, VersionInvariant, PTL DEF Spec, VersionsAdvance

-----------------------------------------------------------------------------
(* 4. What "ok" means.  A nil error comes from a Store only, and reaches the  *)
(* waiters through the result of the flight.                                  *)

Stored(y) == rows[y] # Absent \/ evicted[y]

OkIsStored ==
    /\ \A p \in Callers : err[p] = "ok" => Stored(year[p])
    /\ \A y \in Years :
          (inflight[y] # None /\ inflight[y].result = "ok") => Stored(y)

\* What an eviction removes it remembers.
LEMMA EvictRemembers ==
  ASSUME OkIsStored, OwnerInv, NEW S \in SUBSET Years, Evict(S)
  PROVE  OkIsStored'
<1>1. ASSUME NEW y \in Years, Stored(y)
      PROVE  Stored(y)'
  <2>1. rows'[y] = IF y \in S THEN Absent ELSE rows[y]
    BY DEF Evict
  <2>2. evicted'[y] = (evicted[y] \/ (y \in S /\ rows[y] # Absent))
    BY DEF Evict
  <2> QED
    BY <1>1, <2>1, <2>2 DEF Stored
<1>2. UNCHANGED <<err, year, inflight>>
  BY DEF Evict
<1>3. ASSUME NEW q \in Callers, err[q] = "ok"
      PROVE  Stored(year[q])'
  <2>1. year[q] \in Years /\ Stored(year[q])
    BY <1>3 DEF OwnerInv, CallHasYear, OkIsStored
  <2> QED
    BY <1>1, <1>2, <2>1 DEF Stored
<1>4. ASSUME NEW y \in Years, inflight[y] # None, inflight[y].result = "ok"
      PROVE  Stored(y)'
  <2>1. Stored(y)
    BY <1>4 DEF OkIsStored
  <2> QED
    BY <1>1, <2>1
<1> QED
  BY <1>2, <1>3, <1>4 DEF OkIsStored, Stored

\* After a nil error the row is there, unless it was removed since it was stored.
THEOREM NilIsStored == Spec => []NilMeansStored
<1>1. Init => OkIsStored
  BY NoneAssumption DEF Init, MemoryInit, OkIsStored, OwnerInv, VersionInv, TypeOK, CallHasYear,
      OneFlightPerYear, OwnerReadsForward, Stored, Waiting, Cancelled
<1>2. ASSUME OkIsStored, OwnerInv, OwnerInv', VersionInv, [Next]_vars
      PROVE  OkIsStored'
  <2> USE <1>2, NoneAssumption, MaxVersionAssumption DEF OkIsStored, OwnerInv, VersionInv, TypeOK, CallHasYear,
      OneFlightPerYear, OwnerReadsForward, Stored, Waiting, Cancelled
  <2>1. ASSUME NEW p \in Callers, NEW y \in Years, Lead(p, y)
        PROVE  OkIsStored'
    BY <2>1 DEF Lead
  <2>2. ASSUME NEW p \in Callers, NEW y \in Years, Join(p, y)
        PROVE  OkIsStored'
    BY <2>2 DEF Join
  <2>3. ASSUME NEW p \in Callers, FetchYear(p)
        PROVE  OkIsStored'
    BY <2>3 DEF FetchYear
  <2>4. ASSUME NEW p \in Callers, FetchFails(p)
        PROVE  OkIsStored'
    BY <2>4 DEF FetchFails
  <2>5. ASSUME NEW p \in Callers, Store(p)
        PROVE  OkIsStored'
    BY <2>5 DEF Store
  <2>6. ASSUME NEW p \in Callers, StoreFails(p)
        PROVE  OkIsStored'
    BY <2>6 DEF StoreFails
  <2>7. ASSUME NEW p \in Callers, Close(p)
        PROVE  OkIsStored'
    <3> USE <2>7 DEF Close
    <3>1. err[p] = "ok" => Stored(year[p])
      OBVIOUS
    <3>2. ASSUME NEW q \in Callers, err'[q] = "ok"
          PROVE  Stored(year[q])'
      BY SMTT(60), <3>1, <3>2
    <3>3. ASSUME NEW y \in Years, inflight'[y] # None, inflight'[y].result = "ok"
          PROVE  Stored(y)'
      BY SMTT(60), <3>1, <3>3
    <3> QED
      BY <3>2, <3>3
  <2>8. ASSUME NEW p \in Callers, Delete(p)
        PROVE  OkIsStored'
    BY <2>8 DEF Delete
  <2>9. ASSUME NEW p \in Callers, WaitDone(p)
        PROVE  OkIsStored'
    BY <2>9 DEF WaitDone
  <2>10. ASSUME NEW p \in Callers, WaitCancelled(p)
        PROVE  OkIsStored'
    BY <2>10 DEF WaitCancelled
  <2>11. ASSUME NEW y \in Years, Publish(y)
        PROVE  OkIsStored'
    BY <2>11 DEF Publish
  <2>12. ASSUME NEW S \in SUBSET Years, Evict(S)
        PROVE  OkIsStored'
    BY <2>12, EvictRemembers
  <2>13. CASE Cancel
    BY <2>13 DEF Cancel
  <2>14. CASE Restart
    BY <2>14 DEF Restart
  <2>15. CASE UNCHANGED vars
    BY <2>15 DEF vars
  <2>16. ASSUME NEW p \in Callers, Return(p)
         PROVE  OkIsStored'
    BY <2>16 DEF Return
  <2> QED
    BY <2>1, <2>2, <2>3, <2>4, <2>5, <2>6, <2>7, <2>8,
       <2>9, <2>10, <2>11, <2>12, <2>13, <2>14, <2>15, <2>16
       DEF Next, Call, Step, Environment
<1>3. OkIsStored => NilMeansStored
  BY DEF OkIsStored, NilMeansStored, Stored
<1> QED BY <1>1, <1>2, <1>3, OwnerInvariant, VersionInvariant, PTL DEF Spec

-----------------------------------------------------------------------------
(* 5. FetchAndStore implements YearRefresh.  Lead begins the refresh, a Store *)
(* or a failure commits it, Delete ends it; every other step of a caller is   *)
(* invisible there.                                                           *)

\* A step changes what the abstract specification sees of a year only through
\* the year's flight: its presence, and its owner's pc and since.
THEOREM FlightsImplementRefresh == Spec => RefreshSpec
<1> DEFINE ph == [y \in Years |-> phaseOf(y)]
           si == [y \in Years |-> sinceOf(y)]
<1>1. Init => Abstract!Init
  BY MaxVersionAssumption DEF Init, MemoryInit, Abstract!Init, Abstract!Absent, phaseOf, sinceOf
<1>2. ASSUME OwnerInv, VersionInv, [Next]_vars
      PROVE  [Abstract!Next]_Abstract!vars
  <2> USE <1>2, NoneAssumption, MaxVersionAssumption
      DEF OwnerInv, TypeOK, CallHasYear, OneFlightPerYear
  <2>1. ASSUME NEW p \in Callers, NEW y \in Years, Lead(p, y)
        PROVE  Abstract!Begin(y)
    <3>1. inflight'[y] = [owner |-> p, result |-> "open"] /\ inflight'[y] # None
      <4>1. [owner |-> p, result |-> "open"] \in Flights
        OBVIOUS
      <4> QED BY <2>1, <4>1 DEF Lead
    <3>2. phaseOf(y)' = "reading" /\ sinceOf(y)' = upstream[y] /\ phaseOf(y) = "none"
      BY <2>1, <3>1 DEF Lead, phaseOf, sinceOf
    <3>3. \A z \in Years : z # y => phaseOf(z)' = phaseOf(z) /\ sinceOf(z)' = sinceOf(z)
      BY <2>1 DEF Lead, phaseOf, sinceOf
    <3>4. ph' = [ph EXCEPT ![y] = "reading"] /\ si' = [si EXCEPT ![y] = upstream[y]]
      <4>1. \A z \in Years : ph'[z] = IF z = y THEN "reading" ELSE ph[z]
        BY <3>2, <3>3
      <4>2. \A z \in Years : si'[z] = IF z = y THEN upstream[y] ELSE si[z]
        BY <3>2, <3>3
      <4>3. ph' = [z \in Years |-> ph'[z]] /\ si' = [z \in Years |-> si'[z]]
        OBVIOUS
      <4>4. ph = [z \in Years |-> ph[z]] /\ si = [z \in Years |-> si[z]]
        OBVIOUS
      <4> HIDE DEF ph, si
      <4>5. ph' = [ph EXCEPT ![y] = "reading"]
        BY <4>1, <4>3, <4>4
      <4>6. si' = [si EXCEPT ![y] = upstream[y]]
        BY <4>2, <4>3, <4>4
      <4> QED BY <4>5, <4>6
    <3> QED BY <2>1, <3>2, <3>4 DEF Lead, Abstract!Begin
  <2>2. ASSUME NEW p \in Callers, NEW y \in Years, Join(p, y)
        PROVE  UNCHANGED Abstract!vars
    <3>1. \A z \in Years : phaseOf(z)' = phaseOf(z) /\ sinceOf(z)' = sinceOf(z)
      BY <2>2 DEF Join, phaseOf, sinceOf
    <3> QED BY <2>2, <3>1 DEF Join, Abstract!vars
  <2>3. ASSUME NEW p \in Callers, FetchYear(p)
        PROVE  UNCHANGED Abstract!vars
    <3>1. \A z \in Years : phaseOf(z)' = phaseOf(z) /\ sinceOf(z)' = sinceOf(z)
      BY <2>3 DEF FetchYear, phaseOf, sinceOf
    <3> QED BY <2>3, <3>1 DEF FetchYear, Abstract!vars
  <2>4. ASSUME NEW p \in Callers, FetchFails(p) \/ StoreFails(p)
        PROVE  year[p] \in Years /\ Abstract!Commit(year[p])
    <3>1. year[p] \in Years /\ phaseOf(year[p]) = "reading"
      BY <2>4 DEF FetchFails, StoreFails, phaseOf
    <3>2. phaseOf(year[p])' = "done" /\ sinceOf(year[p])' = 0
      BY <2>4, <3>1 DEF FetchFails, StoreFails, phaseOf, sinceOf
    <3>3. \A z \in Years : z # year[p] => phaseOf(z)' = phaseOf(z) /\ sinceOf(z)' = sinceOf(z)
      BY <2>4 DEF FetchFails, StoreFails, phaseOf, sinceOf
    <3>4. UNCHANGED <<upstream, rows, year>>
      BY <2>4 DEF FetchFails, StoreFails
    <3>5. ph' = [ph EXCEPT ![year[p]] = "done"] /\ si' = [si EXCEPT ![year[p]] = 0]
      <4>1. \A z \in Years : ph'[z] = IF z = year[p] THEN "done" ELSE ph[z]
        BY <3>1, <3>2, <3>3, <3>4
      <4>2. \A z \in Years : si'[z] = IF z = year[p] THEN 0 ELSE si[z]
        BY <3>1, <3>2, <3>3, <3>4
      <4>3. ph' = [z \in Years |-> ph'[z]] /\ si' = [z \in Years |-> si'[z]]
        OBVIOUS
      <4>4. ph = [z \in Years |-> ph[z]] /\ si = [z \in Years |-> si[z]]
        OBVIOUS
      <4> HIDE DEF ph, si
      <4>5. ph' = [ph EXCEPT ![year[p]] = "done"]
        BY <4>1, <4>3, <4>4, <3>1
      <4>6. si' = [si EXCEPT ![year[p]] = 0]
        BY <4>2, <4>3, <4>4, <3>1
      <4> QED BY <4>5, <4>6
    <3> QED BY <3>1, <3>5, <3>4 DEF Abstract!Commit
  <2>5. ASSUME NEW p \in Callers, Store(p)
        PROVE  year[p] \in Years /\ Abstract!Commit(year[p])
    <3> USE <2>5 DEF Store
    <3>1. year[p] \in Years /\ phaseOf(year[p]) = "reading" /\ sinceOf(year[p]) = since[p]
      BY DEF phaseOf, sinceOf
    <3>2. phaseOf(year[p])' = "done" /\ sinceOf(year[p])' = 0
      BY <3>1 DEF phaseOf, sinceOf
    <3>3. \A z \in Years : z # year[p] => phaseOf(z)' = phaseOf(z) /\ sinceOf(z)' = sinceOf(z)
      BY DEF phaseOf, sinceOf
    <3>4. ver[p] \in since[p] .. upstream[year[p]]
      BY <3>1 DEF VersionInv, OwnerReadsForward
    <3>5. ph' = [ph EXCEPT ![year[p]] = "done"] /\ si' = [si EXCEPT ![year[p]] = 0]
      <4>1. \A z \in Years : ph'[z] = IF z = year[p] THEN "done" ELSE ph[z]
        BY <3>1, <3>2, <3>3
      <4>2. \A z \in Years : si'[z] = IF z = year[p] THEN 0 ELSE si[z]
        BY <3>1, <3>2, <3>3
      <4>3. ph' = [z \in Years |-> ph'[z]] /\ si' = [z \in Years |-> si'[z]]
        OBVIOUS
      <4>4. ph = [z \in Years |-> ph[z]] /\ si = [z \in Years |-> si[z]]
        OBVIOUS
      <4> HIDE DEF ph, si
      <4>5. ph' = [ph EXCEPT ![year[p]] = "done"]
        BY <4>1, <4>3, <4>4, <3>1
      <4>6. si' = [si EXCEPT ![year[p]] = 0]
        BY <4>2, <4>3, <4>4, <3>1
      <4> QED BY <4>5, <4>6
    <3>6. \E v \in si[year[p]] .. upstream[year[p]] : rows' = [rows EXCEPT ![year[p]] = v]
      BY <3>1, <3>4
    <3> QED BY <3>1, <3>5, <3>6 DEF Abstract!Commit
  <2>6. ASSUME NEW p \in Callers, Close(p)
        PROVE  UNCHANGED Abstract!vars
    <3> USE <2>6 DEF Close
    <3>1. year[p] \in Years /\ inflight[year[p]] \in Flights
      OBVIOUS
    <3>2. \A z \in Years : /\ inflight'[z] = None <=> inflight[z] = None
                           /\ inflight[z] # None => inflight'[z].owner = inflight[z].owner
      <4> DEFINE closed == [inflight[year[p]] EXCEPT !.result = err[p]]
      <4>1. closed \in Flights /\ closed.owner = inflight[year[p]].owner
        BY <3>1
      <4>2. inflight[year[p]] # None /\ closed # None
        BY <3>1, <4>1
      <4>3. inflight' = [inflight EXCEPT ![year[p]] = closed]
        OBVIOUS
      <4> HIDE DEF closed
      <4> QED BY <3>1, <4>1, <4>2, <4>3
    <3>3. \A z \in Years : phaseOf(z)' = phaseOf(z) /\ sinceOf(z)' = sinceOf(z)
      BY <3>2 DEF phaseOf, sinceOf
    <3> QED BY <3>3 DEF Abstract!vars
  <2>7. ASSUME NEW p \in Callers, Delete(p)
        PROVE  year[p] \in Years /\ Abstract!End(year[p])
    <3> USE <2>7 DEF Delete
    <3>1. year[p] \in Years /\ phaseOf(year[p]) = "done" /\ sinceOf(year[p]) = 0
      BY DEF phaseOf, sinceOf
    <3>2. phaseOf(year[p])' = "none" /\ sinceOf(year[p])' = 0
      BY <3>1 DEF phaseOf, sinceOf
    <3>3. \A z \in Years : z # year[p] => phaseOf(z)' = phaseOf(z) /\ sinceOf(z)' = sinceOf(z)
      BY DEF phaseOf, sinceOf
    <3> QED BY <3>1, <3>2, <3>3 DEF Abstract!End
  <2>8. ASSUME NEW p \in Callers, WaitDone(p) \/ WaitCancelled(p)
        PROVE  UNCHANGED Abstract!vars
    <3>1. \A z \in Years : phaseOf(z)' = phaseOf(z) /\ sinceOf(z)' = sinceOf(z)
      BY <2>8 DEF WaitDone, WaitCancelled, phaseOf, sinceOf
    <3> QED BY <2>8, <3>1 DEF WaitDone, WaitCancelled, Abstract!vars
  <2>9. ASSUME NEW y \in Years, Publish(y)
        PROVE  Abstract!Publish(y)
    BY <2>9 DEF Publish, Abstract!Publish, phaseOf, sinceOf
  <2>10. ASSUME NEW S \in SUBSET Years, Evict(S)
         PROVE  Abstract!Evict(S)
    BY <2>10 DEF Evict, Abstract!Evict, Abstract!Absent, phaseOf, sinceOf
  <2>11. CASE Cancel
    BY <2>11 DEF Cancel, Abstract!vars, phaseOf, sinceOf
  <2>12. ASSUME Restart
         PROVE  Abstract!Restart
    BY <2>12 DEF Restart, Abstract!Restart, phaseOf, sinceOf
  <2>13. CASE UNCHANGED vars
    BY <2>13 DEF vars, Abstract!vars, phaseOf, sinceOf
  <2>14. ASSUME NEW p \in Callers, Step(p)
         PROVE  [Abstract!Next]_Abstract!vars
    BY <2>3, <2>4, <2>5, <2>6, <2>7, <2>8, <2>14 DEF Step, Abstract!Next
  <2>15. ASSUME Environment
         PROVE  [Abstract!Next]_Abstract!vars
    BY <2>9, <2>10, <2>11, <2>12, <2>15 DEF Environment, Abstract!Next
  <2>16. ASSUME NEW p \in Callers, NEW y \in Years, Call(p, y)
         PROVE  [Abstract!Next]_Abstract!vars
    BY <2>1, <2>2, <2>16 DEF Call, Abstract!Next
  <2>17. ASSUME NEW p \in Callers, Return(p)
         PROVE  UNCHANGED Abstract!vars
    <3> USE <2>17 DEF Return
    <3>1. \A z \in Years : phaseOf(z)' = phaseOf(z) /\ sinceOf(z)' = sinceOf(z)
      BY DEF phaseOf, sinceOf
    <3> QED BY <3>1 DEF Abstract!vars
  <2> QED BY <2>13, <2>14, <2>15, <2>16, <2>17 DEF Next
<1> QED BY <1>1, <1>2, OwnerInvariant, VersionInvariant, PTL DEF Spec, RefreshSpec, Abstract!Spec
=============================================================================
