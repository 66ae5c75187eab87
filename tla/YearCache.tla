------------------------------ MODULE YearCache ------------------------------
(***************************************************************************)
(* The table year_cache and the clock: when a row is stale, what records   *)
(* that it was asked for, and when the background worker prunes it.        *)
(*                                                                         *)
(* A statement takes time: execWithRetry waits and retries while SQLite  *)
(* is busy, so the value a statement writes was computed up to Delay before*)
(* it takes effect, and other statements come between.  GetYear remembers  *)
(* in lastHitTimes when it last wrote last_hit and leaves the write out for*)
(* a Debounce interval.  The process may die between any two steps: the    *)
(* table survives, lastHitTimes does not.                                  *)
(*                                                                         *)
(* Times are integers in an unspecified unit; the data of a row, the       *)
(* hit and miss counters and VACUUM are left out.                          *)
(***************************************************************************)
EXTENDS Integers

CONSTANTS
    Years,         \* the years that can be asked for
    Requests,      \* goroutines that call GetYear, and FetchAndStore if need be
    Worker,        \* the stale-refresh worker
    None,          \* no statement under way, never written
    Absent,        \* no row
    Debounce,      \* lastHitDebounce, 5 minutes
    Delay,         \* the longest a statement waits for SQLite
    PruneAge,      \* 14 days
    CurrentFresh,  \* 24 hours
    PastFresh,     \* 7 days
    FirstYear,     \* the calendar year at the start
    MaxTime        \* bound on the clock

Callers == Requests \cup {Worker}
Rows == [fetchedAt : Nat, lastHit : Nat]
Statements == [kind : {"hit", "remember", "set", "prune"},
               year : Years \cup {None}, at : Nat]

ASSUME TimesAssumption ==
    /\ Debounce \in Nat \ {0} /\ Delay \in Nat /\ PruneAge \in Nat
    /\ CurrentFresh \in Nat /\ PastFresh \in Nat /\ MaxTime \in Nat
    /\ FirstYear \in Nat
ASSUME SentinelsAssumption ==
    /\ Absent \notin Rows
    /\ None \notin Nat \cup Statements \cup Years
ASSUME WorkerAssumption == Worker \notin Requests

VARIABLES
    now,           \* time.Now()
    currentYear,   \* time.Now().Year()
    rows,          \* the table
    lastHitTimes,  \* Cache.lastHitTimes
    lastHitFailed, \* Cache.lastHitFailed
    stmt,          \* the statement each caller is about to execute
    stage,         \* where the worker is between two ticks
    queue,         \* the stale years it has yet to refresh
    noted          \* auxiliary: when the year was last asked for (see Note)

vars == <<now, currentYear, rows, lastHitTimes, lastHitFailed, stmt, stage, queue, noted>>
workerVars == <<stage, queue>>
clock == <<now, currentYear>>
memory == <<lastHitTimes, lastHitFailed>>

CacheTypeOK ==
    /\ now \in Nat
    /\ currentYear \in Nat
    /\ rows \in [Years -> Rows \cup {Absent}]
    /\ lastHitTimes \in [Years -> Nat \cup {None}]
    /\ lastHitFailed \subseteq Years
    /\ stmt \in [Callers -> Statements \cup {None}]
    /\ stage \in {"sleep", "refresh", "prune"}
    /\ queue \subseteq Years
    /\ noted \in [Years -> Nat]

\* A database of an earlier run, perhaps with rows from before the column
\* last_hit existed, or an empty one.
Init ==
    /\ now = 1
    /\ currentYear = FirstYear
    /\ rows \in [Years -> {Absent} \cup [fetchedAt : {1}, lastHit : {0, 1}]]
    /\ lastHitTimes = [y \in Years |-> None]
    /\ lastHitFailed = {}
    /\ stmt = [p \in Callers |-> None]
    /\ stage = "sleep"
    /\ queue = {}
    /\ noted = [y \in Years |-> IF rows[y] = Absent THEN 0 ELSE 1]

Later(a, b) == IF a > b THEN a ELSE b

\* A request counts once GetYear has written it or found it recent enough not to,
\* or once its own fetch is stored; so does the creation of a row, but not the
\* worker's refresh of one.
Note(y, t) == noted' = [noted EXCEPT ![y] = Later(@, t)]

Threshold(y) == IF y = currentYear THEN CurrentFresh ELSE PastFresh
Age(y) == now - rows[y].fetchedAt
Fresh(y) == rows[y] # Absent /\ Age(y) < Threshold(y)
NeedsRefresh(y) == rows[y] # Absent /\ Age(y) > Threshold(y)

Doing(p, kind) == stmt[p] # None /\ stmt[p].kind = kind
Begin(p, kind, y) ==
    stmt' = [stmt EXCEPT ![p] = [kind |-> kind, year |-> y, at |-> now]]
Finish(p) == stmt' = [stmt EXCEPT ![p] = None]

-----------------------------------------------------------------------------
(* GetYear, for a row that is there; a miss changes nothing.                *)

HitIsDue(y) == lastHitTimes[y] # None => now - lastHitTimes[y] >= Debounce

GetYear(p, y) ==
    /\ p \in Requests
    /\ stmt[p] = None
    /\ rows[y] # Absent
    /\ \/ HitIsDue(y) /\ Begin(p, "hit", y) /\ UNCHANGED noted
       \/ ~HitIsDue(y) /\ Note(y, now) /\ UNCHANGED stmt
    /\ UNCHANGED <<clock, rows, memory, workerVars>>

\* UPDATE ... SET last_hit; it succeeds as well when the row has gone.
UpdateHit(p) ==
    LET y == stmt[p].year IN
    /\ Doing(p, "hit")
    /\ rows' = IF rows[y] = Absent THEN rows
               ELSE [rows EXCEPT ![y].lastHit = stmt[p].at]
    /\ stmt' = [stmt EXCEPT ![p].kind = "remember"]
    /\ Note(y, stmt[p].at)
    /\ UNCHANGED <<clock, memory, workerVars>>

\* Changed forms of UpdateFails: the time is remembered, though nothing was written.
UpdateFailsRemembered(p) ==
    /\ Doing(p, "hit")
    /\ lastHitTimes' = [lastHitTimes EXCEPT ![stmt[p].year] = stmt[p].at]
    /\ lastHitFailed' = lastHitFailed \cup {stmt[p].year}
    /\ Finish(p)
    /\ UNCHANGED <<clock, rows, workerVars, noted>>

\* the failure is kept under the time, since a sync.Map takes keys of any type, where
\* no later success finds and deletes it.
UpdateFailsMisfiled(p) ==
    /\ Doing(p, "hit")
    /\ lastHitFailed' = lastHitFailed \cup {stmt[p].at}
    /\ Finish(p)
    /\ UNCHANGED <<clock, rows, lastHitTimes, workerVars, noted>>

UpdateFails(p) ==
    /\ Doing(p, "hit")
    /\ lastHitFailed' = lastHitFailed \cup {stmt[p].year}
    /\ Finish(p)
    /\ UNCHANGED <<clock, rows, lastHitTimes, workerVars, noted>>

\* Another GetYear may have written a later time in between.
RememberHit(p) ==
    /\ Doing(p, "remember")
    /\ lastHitTimes' = [lastHitTimes EXCEPT ![stmt[p].year] = stmt[p].at]
    /\ lastHitFailed' = lastHitFailed \ {stmt[p].year}
    /\ Finish(p)
    /\ UNCHANGED <<clock, rows, workerVars, noted>>

-----------------------------------------------------------------------------
(* SetYear, called by the owner of the year's flight.                       *)

NoOtherFlight(y) == \A q \in Callers : ~(Doing(q, "set") /\ stmt[q].year = y)

\* A request has fetched a year that it found missing or stale.
Fetched(p, y) ==
    /\ p \in Requests
    /\ stmt[p] = None
    /\ ~Fresh(y)
    /\ NoOtherFlight(y)
    /\ Begin(p, "set", y)
    /\ UNCHANGED <<clock, rows, memory, workerVars, noted>>

\* Changed form of SetYear: REPLACE without last_hit gives the column its default.
SetYearWithoutHit(p) ==
    LET y == stmt[p].year  t == stmt[p].at IN
    /\ Doing(p, "set")
    /\ rows' = [rows EXCEPT ![y] = [fetchedAt |-> t, lastHit |-> 0]]
    /\ IF p \in Requests \/ rows[y] = Absent THEN Note(y, t) ELSE UNCHANGED noted
    /\ Finish(p)
    /\ UNCHANGED <<clock, memory, workerVars>>

\* INSERT OR REPLACE: last_hit is set too, whoever asked for the fetch.
SetYear(p) ==
    LET y == stmt[p].year  t == stmt[p].at IN
    /\ Doing(p, "set")
    /\ rows' = [rows EXCEPT ![y] = [fetchedAt |-> t, lastHit |-> t]]
    /\ IF p \in Requests \/ rows[y] = Absent THEN Note(y, t) ELSE UNCHANGED noted
    /\ Finish(p)
    /\ UNCHANGED <<clock, memory, workerVars>>

SetFails(p) ==
    /\ Doing(p, "set")
    /\ Finish(p)
    /\ UNCHANGED <<clock, rows, memory, workerVars, noted>>

Clear ==
    /\ rows' = [y \in Years |-> Absent]
    /\ UNCHANGED <<clock, memory, stmt, workerVars, noted>>

-----------------------------------------------------------------------------
(* The worker: at each tick the stale years first, then the prune.          *)

Tick ==
    /\ stage = "sleep"
    /\ stage' = "refresh"
    /\ queue' = {y \in Years : NeedsRefresh(y)}
    /\ UNCHANGED <<clock, rows, memory, stmt, noted>>

\* The fetch of the next year fails, finds another flight, or is to be stored.
RefreshNext ==
    /\ stage = "refresh"
    /\ stmt[Worker] = None
    /\ \E y \in queue :
          /\ queue' = queue \ {y}
          /\ UNCHANGED stmt \/ (NoOtherFlight(y) /\ Begin(Worker, "set", y))
    /\ UNCHANGED <<clock, rows, memory, stage, noted>>

\* PruneStaleYears computes its cutoff.
PruneBegins ==
    /\ stage = "refresh"
    /\ stmt[Worker] = None
    /\ queue = {}
    /\ stage' = "prune"
    /\ Begin(Worker, "prune", None)
    /\ UNCHANGED <<clock, rows, memory, queue, noted>>

LastUse(row) == IF row.lastHit > 0 THEN row.lastHit ELSE row.fetchedAt

Cutoff == stmt[Worker].at - PruneAge

Prunable(y) == rows[y] # Absent /\ LastUse(rows[y]) < Cutoff

Prune ==
    /\ stage = "prune"
    /\ rows' = [y \in Years |-> IF Prunable(y) THEN Absent ELSE rows[y]]
    /\ stage' = "sleep"
    /\ Finish(Worker)
    /\ UNCHANGED <<clock, memory, queue, noted>>

PruneFails ==
    /\ stage = "prune"
    /\ stage' = "sleep"
    /\ Finish(Worker)
    /\ UNCHANGED <<clock, rows, memory, queue, noted>>

-----------------------------------------------------------------------------
\* No statement waits longer than Delay.
Advance ==
    /\ now < MaxTime
    /\ \A p \in Callers : stmt[p] # None /\ stmt[p].kind # "remember" =>
          now < stmt[p].at + Delay
    /\ now' = now + 1
    /\ UNCHANGED <<currentYear, rows, memory, stmt, workerVars, noted>>

NewYear ==
    /\ currentYear = FirstYear
    /\ currentYear' = currentYear + 1
    /\ UNCHANGED <<now, rows, memory, stmt, workerVars, noted>>

Restart ==
    /\ lastHitTimes' = [y \in Years |-> None]
    /\ lastHitFailed' = {}
    /\ stmt' = [p \in Callers |-> None]
    /\ stage' = "sleep"
    /\ queue' = {}
    /\ UNCHANGED <<clock, rows, noted>>

Statement(p) ==
    UpdateHit(p) \/ UpdateFails(p) \/ RememberHit(p) \/ SetYear(p) \/ SetFails(p)

WorkerStep == Tick \/ RefreshNext \/ PruneBegins \/ Prune \/ PruneFails

Next ==
    \/ \E p \in Callers, y \in Years : GetYear(p, y) \/ Fetched(p, y)
    \/ \E p \in Callers : Statement(p)
    \/ WorkerStep
    \/ Clear
    \/ Advance \/ NewYear \/ Restart

Spec == Init /\ [][Next]_vars

-----------------------------------------------------------------------------
\* What GetYear remembers in memory never runs more than Delay ahead of the row:
\* else it would leave out writes on the strength of one the row has lost
\* (cache.go:197-208).
MemoryTracksRow ==
    \A y \in Years : (rows[y] # Absent /\ lastHitTimes[y] # None) =>
        rows[y].lastHit + Delay >= lastHitTimes[y]

\* Pruning takes only rows that were asked for last before the cutoff, up to the
\* debounce interval and the time a write may be delayed: however reads, delayed
\* writes, refreshes and restarts interleave, a row in use is not evicted
\* (cache.go:196-210, 278-291).
NoEarlyEviction ==
    [][Prune => \A y \in Years : rows'[y] # rows[y] =>
          noted[y] + 1 < Cutoff + Debounce + Delay]_vars
=============================================================================
