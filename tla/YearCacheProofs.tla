--------------------------- MODULE YearCacheProofs ---------------------------
(***************************************************************************)
(* What holds of YearCache for every set of years and requests and every   *)
(* choice of the times, of which only Debounce must not be zero.  The      *)
(* argument is one inequality, RowRemembers: the last use a row records is *)
(* at most Debounce + Delay - 1 before the last time it was asked for.  A  *)
(* write of last_hit keeps it because the value it writes is at most Delay *)
(* old; a read whose write is left out keeps it because what lastHitTimes  *)
(* says is at most Delay ahead of the row (MemoryTracksRow), which in turn *)
(* needs the same of every write that is yet to be remembered.             *)
(***************************************************************************)
EXTENDS YearCache, TLAPS

USE DEF Callers, Rows, Statements

\* A statement takes effect at most Delay after its time was read, and only the
\* worker's prune has no year.
StatementsInTime ==
    \A p \in Callers : stmt[p] # None =>
        /\ stmt[p].at <= now
        /\ stmt[p].kind # "remember" => now <= stmt[p].at + Delay
        /\ stmt[p].kind # "prune" => stmt[p].year \in Years
        /\ stmt[p].kind = "prune" => p = Worker /\ stage = "prune"

PruneHasCutoff == stage = "prune" => Doing(Worker, "prune")

PastOnly ==
    \A y \in Years : /\ noted[y] <= now
                     /\ lastHitTimes[y] # None => lastHitTimes[y] <= now

TimeInv == CacheTypeOK /\ StatementsInTime /\ PruneHasCutoff /\ PastOnly

LEMMA TimeInvariant == Spec => []TimeInv
<1>1. Init => TimeInv
  BY TimesAssumption, SentinelsAssumption DEF Init, TimeInv, CacheTypeOK, StatementsInTime,
     PruneHasCutoff, PastOnly, Doing
<1>2. ASSUME TimeInv, [Next]_vars
      PROVE  TimeInv'
  <2> USE <1>2, TimesAssumption, SentinelsAssumption
      DEF TimeInv, CacheTypeOK, StatementsInTime, PruneHasCutoff, PastOnly, Doing, Begin, Finish,
          clock, memory, workerVars, Note, Later
  <2>1. ASSUME NEW p \in Callers, NEW y \in Years, GetYear(p, y)
        PROVE  TimeInv'
    BY <2>1 DEF GetYear
  <2>2. ASSUME NEW p \in Callers, UpdateHit(p)
        PROVE  TimeInv'
    BY <2>2 DEF UpdateHit
  <2>3. ASSUME NEW p \in Callers, UpdateFails(p)
        PROVE  TimeInv'
    BY <2>3 DEF UpdateFails
  <2>4. ASSUME NEW p \in Callers, RememberHit(p)
        PROVE  TimeInv'
    BY <2>4 DEF RememberHit
  <2>5. ASSUME NEW p \in Callers, NEW y \in Years, Fetched(p, y)
        PROVE  TimeInv'
    BY <2>5 DEF Fetched
  <2>6. ASSUME NEW p \in Callers, SetYear(p)
        PROVE  TimeInv'
    BY <2>6 DEF SetYear
  <2>7. ASSUME NEW p \in Callers, SetFails(p)
        PROVE  TimeInv'
    BY <2>7 DEF SetFails
  <2>8. CASE Tick
    BY <2>8 DEF Tick
  <2>9. CASE RefreshNext
    BY <2>9 DEF RefreshNext
  <2>10. CASE PruneBegins
    BY <2>10 DEF PruneBegins
  <2>11. CASE Prune
    BY <2>11 DEF Prune
  <2>12. CASE PruneFails
    BY <2>12 DEF PruneFails
  <2>13. CASE Clear
    BY <2>13 DEF Clear
  <2>14. CASE Advance
    BY <2>14 DEF Advance
  <2>15. CASE NewYear
    BY <2>15 DEF NewYear
  <2>16. CASE Restart
    BY <2>16 DEF Restart
  <2>17. CASE UNCHANGED vars
    BY <2>17 DEF vars
  <2> QED
    BY <2>1, <2>2, <2>3, <2>4, <2>5, <2>6, <2>7, <2>8,
       <2>9, <2>10, <2>11, <2>12, <2>13, <2>14, <2>15, <2>16, <2>17
       DEF Next, Statement, WorkerStep
<1> QED BY <1>1, <1>2, PTL DEF Spec

\* Every variable has its type.
THEOREM CacheTypeCorrect == Spec => []CacheTypeOK
<1>1. TimeInv => CacheTypeOK
  BY DEF TimeInv
<1> QED BY <1>1, TimeInvariant, PTL

-----------------------------------------------------------------------------
\* What a caller is about to remember is no more than Delay ahead of the row.
PendingTracksRow ==
    \A p \in Callers : Doing(p, "remember") =>
        LET y == stmt[p].year IN
        rows[y] # Absent => rows[y].lastHit + Delay >= stmt[p].at

TrackInv == MemoryTracksRow /\ PendingTracksRow

LEMMA TrackInvariant == Spec => []TrackInv
<1>1. Init => TrackInv
  BY SentinelsAssumption DEF Init, TrackInv, MemoryTracksRow, PendingTracksRow, Doing
<1>2. ASSUME TrackInv, TimeInv, TimeInv', [Next]_vars
      PROVE  TrackInv'
  <2> USE <1>2, TimesAssumption, SentinelsAssumption
      DEF TrackInv, MemoryTracksRow, PendingTracksRow, TimeInv, CacheTypeOK, StatementsInTime, PruneHasCutoff, PastOnly, Doing, Begin, Finish,
          clock, memory, workerVars
  <2>1. ASSUME NEW p \in Callers, NEW y \in Years, GetYear(p, y)
        PROVE  TrackInv'
    BY <2>1 DEF GetYear
  <2>2. ASSUME NEW p \in Callers, UpdateHit(p)
        PROVE  TrackInv'
    <3> USE <2>2 DEF UpdateHit
    <3>1. MemoryTracksRow'
      BY SMTT(60)
    <3>2. PendingTracksRow'
      BY SMTT(60)
    <3> QED
      BY <3>1, <3>2
  <2>3. ASSUME NEW p \in Callers, UpdateFails(p)
        PROVE  TrackInv'
    BY <2>3 DEF UpdateFails
  <2>4. ASSUME NEW p \in Callers, RememberHit(p)
        PROVE  TrackInv'
    BY <2>4 DEF RememberHit
  <2>5. ASSUME NEW p \in Callers, NEW y \in Years, Fetched(p, y)
        PROVE  TrackInv'
    BY <2>5 DEF Fetched
  <2>6. ASSUME NEW p \in Callers, SetYear(p)
        PROVE  TrackInv'
    BY <2>6 DEF SetYear
  <2>7. ASSUME NEW p \in Callers, SetFails(p)
        PROVE  TrackInv'
    BY <2>7 DEF SetFails
  <2>8. CASE Tick
    BY <2>8 DEF Tick
  <2>9. CASE RefreshNext
    BY <2>9 DEF RefreshNext
  <2>10. CASE PruneBegins
    BY <2>10 DEF PruneBegins
  <2>11. CASE Prune
    BY <2>11 DEF Prune
  <2>12. CASE PruneFails
    BY <2>12 DEF PruneFails
  <2>13. CASE Clear
    BY <2>13 DEF Clear
  <2>14. CASE Advance
    BY <2>14 DEF Advance
  <2>15. CASE NewYear
    BY <2>15 DEF NewYear
  <2>16. CASE Restart
    BY <2>16 DEF Restart
  <2>17. CASE UNCHANGED vars
    BY <2>17 DEF vars
  <2> QED
    BY <2>1, <2>2, <2>3, <2>4, <2>5, <2>6, <2>7, <2>8,
       <2>9, <2>10, <2>11, <2>12, <2>13, <2>14, <2>15, <2>16, <2>17
       DEF Next, Statement, WorkerStep
<1> QED BY <1>1, <1>2, TimeInvariant, PTL DEF Spec

\* What GetYear remembers never runs more than Delay ahead of the row.
THEOREM MemoryNeverAhead == Spec => []MemoryTracksRow
<1>1. TrackInv => MemoryTracksRow
  BY DEF TrackInv
<1> QED BY <1>1, TrackInvariant, PTL

-----------------------------------------------------------------------------
\* A value at most Delay old is as good a record as the present time.
LEMMA DelayedWrite ==
    ASSUME NEW asked \in Nat, NEW present \in Nat, NEW t \in Nat, NEW use \in Nat,
           asked <= present, present <= t + Delay, t <= use
    PROVE  asked + 1 <= use + Debounce + Delay
BY TimesAssumption

RowRemembers ==
    \A y \in Years : rows[y] # Absent =>
        noted[y] + 1 <= LastUse(rows[y]) + Debounce + Delay

LEMMA RowRemembersInvariant == Spec => []RowRemembers
<1>1. Init => RowRemembers
  BY TimesAssumption, SentinelsAssumption DEF Init, RowRemembers, LastUse
<1>2. ASSUME RowRemembers, TimeInv, TimeInv', TrackInv, [Next]_vars
      PROVE  RowRemembers'
  <2> USE <1>2, TimesAssumption, SentinelsAssumption
      DEF RowRemembers, TrackInv, MemoryTracksRow, TimeInv, LastUse, Note, Later,
          CacheTypeOK, StatementsInTime, PruneHasCutoff, PastOnly, Doing, Begin, Finish,
          clock, memory, workerVars
  <2>1. ASSUME NEW p \in Callers, NEW y \in Years, GetYear(p, y)
        PROVE  RowRemembers'
    <3> USE <2>1 DEF GetYear
    <3>1. CASE HitIsDue(y)
      BY <3>1
    <3>2. CASE ~HitIsDue(y)
      <4> DEFINE t == lastHitTimes[y]
      <4>1. t \in Nat /\ now - t < Debounce
        BY <3>2 DEF HitIsDue
      <4>2. rows[y] \in Rows /\ t <= rows[y].lastHit + Delay
        BY <4>1
      <4>3. rows[y].lastHit <= LastUse(rows[y]) /\ LastUse(rows[y]) \in Nat
        BY <4>2
      <4>4. now + 1 <= LastUse(rows[y]) + Debounce + Delay
        <5> HIDE DEF t, LastUse
        <5> QED BY <4>1, <4>2, <4>3
      <4>5. noted' = [noted EXCEPT ![y] = Later(noted[y], now)] /\ UNCHANGED rows
        BY <3>2
      <4> HIDE DEF LastUse
      <4> QED BY <4>4, <4>5
    <3> QED BY <3>1, <3>2
  <2>2. ASSUME NEW p \in Callers, UpdateHit(p)
        PROVE  RowRemembers'
    <3> USE <2>2 DEF UpdateHit
    <3> DEFINE z == stmt[p].year  t == stmt[p].at
    <3>1. z \in Years /\ t \in Nat /\ t <= now /\ now <= t + Delay
      BY SMTT(60)
    <3>2. noted'[z] <= now /\ \A y \in Years : y # z => noted'[y] = noted[y]
      BY <3>1
    <3>3. \A y \in Years : y # z => rows'[y] = rows[y]
      BY <3>1
    <3>4. rows'[z] # Absent => rows'[z].lastHit = t /\ rows'[z] \in Rows
      BY SMTT(60), <3>1
    <3>5. rows'[z] # Absent => LastUse(rows'[z]) \in Nat /\ t <= LastUse(rows'[z])
      <4> SUFFICES ASSUME rows'[z] # Absent
                   PROVE  LastUse(rows'[z]) \in Nat /\ t <= LastUse(rows'[z])
        OBVIOUS
      <4> DEFINE row == rows'[z]
      <4>1. row.lastHit = t /\ row.lastHit \in Nat /\ row.fetchedAt \in Nat
        BY <3>4
      <4> HIDE DEF row
      <4> QED
        BY <3>1, <4>1
    <3>6. noted'[z] \in Nat
      BY SMTT(60), <3>1
    <3> HIDE DEF z, t, LastUse
    <3>7. rows'[z] # Absent => noted'[z] + 1 <= LastUse(rows'[z]) + Debounce + Delay
      BY <3>1, <3>2, <3>5, <3>6, DelayedWrite
    <3> QED BY <3>2, <3>3, <3>7
  <2>3. ASSUME NEW p \in Callers, UpdateFails(p)
        PROVE  RowRemembers'
    BY <2>3 DEF UpdateFails
  <2>4. ASSUME NEW p \in Callers, RememberHit(p)
        PROVE  RowRemembers'
    BY <2>4 DEF RememberHit
  <2>5. ASSUME NEW p \in Callers, NEW y \in Years, Fetched(p, y)
        PROVE  RowRemembers'
    BY <2>5 DEF Fetched
  <2>6. ASSUME NEW p \in Callers, SetYear(p)
        PROVE  RowRemembers'
    BY <2>6 DEF SetYear
  <2>7. ASSUME NEW p \in Callers, SetFails(p)
        PROVE  RowRemembers'
    BY <2>7 DEF SetFails
  <2>8. CASE Tick
    BY <2>8 DEF Tick
  <2>9. CASE RefreshNext
    BY <2>9 DEF RefreshNext
  <2>10. CASE PruneBegins
    BY <2>10 DEF PruneBegins
  <2>11. CASE Prune
    BY <2>11 DEF Prune
  <2>12. CASE PruneFails
    BY <2>12 DEF PruneFails
  <2>13. CASE Clear
    BY <2>13 DEF Clear
  <2>14. CASE Advance
    BY <2>14 DEF Advance
  <2>15. CASE NewYear
    BY <2>15 DEF NewYear
  <2>16. CASE Restart
    BY <2>16 DEF Restart
  <2>17. CASE UNCHANGED vars
    BY <2>17 DEF vars
  <2> QED
    BY <2>1, <2>2, <2>3, <2>4, <2>5, <2>6, <2>7, <2>8,
       <2>9, <2>10, <2>11, <2>12, <2>13, <2>14, <2>15, <2>16, <2>17
       DEF Next, Statement, WorkerStep
<1> QED BY <1>1, <1>2, TimeInvariant, TrackInvariant, PTL DEF Spec

\* A row in use is not evicted: what a prune removes was asked for last before the
\* cutoff, up to the debounce interval and the delay of a write.
THEOREM RowsInUseStay == Spec => NoEarlyEviction
<1> DEFINE Late == \A y \in Years : rows'[y] # rows[y] =>
                      noted[y] + 1 < Cutoff + Debounce + Delay
<1>1. ASSUME TimeInv, RowRemembers, Prune
      PROVE  Late
  <2> SUFFICES ASSUME NEW y \in Years, rows'[y] # rows[y]
               PROVE  noted[y] + 1 < Cutoff + Debounce + Delay
    OBVIOUS
  <2>1. rows[y] # Absent /\ LastUse(rows[y]) < Cutoff
    BY <1>1 DEF Prune, Prunable, TimeInv, CacheTypeOK
  <2>2. noted[y] + 1 <= LastUse(rows[y]) + Debounce + Delay
    BY <1>1, <2>1 DEF RowRemembers
  <2>3. LastUse(rows[y]) \in Int /\ Cutoff \in Int /\ noted[y] \in Int
    BY <1>1, <2>1, TimesAssumption, SentinelsAssumption
       DEF TimeInv, CacheTypeOK, PruneHasCutoff, Doing, LastUse, Cutoff, Prune
  <2> QED BY <2>1, <2>2, <2>3, TimesAssumption
<1>2. TimeInv /\ RowRemembers /\ [Next]_vars => [Prune => Late]_vars
  BY <1>1
<1> QED BY <1>2, TimeInvariant, RowRemembersInvariant, PTL DEF Spec, NoEarlyEviction
=============================================================================
