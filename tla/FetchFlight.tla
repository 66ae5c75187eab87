----------------------------- MODULE FetchFlight -----------------------------
(***************************************************************************)
(* Scheduler.FetchAndStore: every fetch of a year from AniList goes through*)
(* the map "inflight", so that callers who ask for the same year at the    *)
(* same time share one fetch and its error.  The callers are the HTTP      *)
(* handlers (Requests, whose context is context.WithoutCancel and so is    *)
(* never cancelled) and the goroutines that run under the process's context*)
(* (Workers: the prewarm loop of main and the stale-refresh worker).       *)
(*                                                                         *)
(* One FetchAndStore is several steps, between which the others run:       *)
(*    LoadOrStore -> FetchYear -> SetYear -> close(done) -> Delete.        *)
(* The window between close and Delete is where a caller still finds a     *)
(* flight that is over.                                                    *)
(*                                                                         *)
(* The rows of the SQLite table and AniList are part of the model, reduced *)
(* to version numbers; SQLite and AniList themselves are not.              *)
(***************************************************************************)
EXTENDS Integers

CONSTANTS
    Years,         \* the years that can be asked for
    Requests,      \* goroutines of HTTP handlers
    Workers,       \* goroutines under the context that run() cancels
    None,          \* no flight, no year
    MaxVersion     \* bound on the versions AniList publishes

Callers == Requests \cup Workers

Absent == 0
Versions == 1 .. MaxVersion
Results == {"none", "open", "ok", "failed", "cancelled"}

\* The steps during which a caller owns a flight.
OwnerSteps == {"fetch", "store", "close", "delete"}

\* inflightResult, with the caller that stored it in the map.
Flights == [owner : Callers, result : Results]

ASSUME MaxVersionAssumption == MaxVersion \in Nat \ {0}
ASSUME NoneAssumption == None \notin Callers \cup Years \cup Flights

VARIABLES
    upstream,      \* newest version AniList has of each year
    rows,          \* version of the cached row of each year, or Absent
    evicted,       \* auxiliary: the row was removed after it was last written
    inflight,      \* Scheduler.inflight: owner and result of each flight
    pc,            \* where each caller is in FetchAndStore
    year,          \* the argument of each caller's last call
    since,         \* auxiliary: upstream's version when the caller began
    ver,           \* the version of the shows fetched (the local "data")
    err,           \* the error to return; "open" while the flight waited for is
    ctxDone        \* the context of the Workers is cancelled

vars == <<upstream, rows, evicted, inflight, pc, year, since, ver, err, ctxDone>>

TypeOK ==
    /\ upstream \in [Years -> Versions]
    /\ rows \in [Years -> {Absent} \cup Versions]
    /\ evicted \in [Years -> BOOLEAN]
    /\ inflight \in [Years -> Flights \cup {None}]
    /\ pc \in [Callers -> OwnerSteps \cup {"idle", "wait"}]
    /\ year \in [Callers -> Years \cup {None}]
    /\ since \in [Callers -> {0} \cup Versions]
    /\ ver \in [Callers -> {0} \cup Versions]
    /\ err \in [Callers -> Results]
    /\ ctxDone \in BOOLEAN

\* Nothing of a call survives a start of the process; the rows may.
MemoryInit ==
    /\ inflight = [y \in Years |-> None]
    /\ pc = [p \in Callers |-> "idle"]
    /\ year = [p \in Callers |-> None]
    /\ since = [p \in Callers |-> 0]
    /\ ver = [p \in Callers |-> 0]
    /\ err = [p \in Callers |-> "none"]
    /\ ctxDone = FALSE

Init ==
    /\ upstream = [y \in Years |-> 1]
    /\ rows \in [Years -> {Absent, 1}]
    /\ evicted = [y \in Years |-> FALSE]
    /\ MemoryInit

\* Requests call with context.WithoutCancel, Workers with the process's context.
Cancelled(p) == ctxDone /\ p \in Workers

-----------------------------------------------------------------------------
\* Changed form of Lead: a map that is stored to without being loaded first.
LeadWithoutLoad(p, y) ==
    /\ pc[p] = "idle"
    /\ inflight' = [inflight EXCEPT ![y] = [owner |-> p, result |-> "open"]]
    /\ pc' = [pc EXCEPT ![p] = "fetch"]
    /\ year' = [year EXCEPT ![p] = y]
    /\ since' = [since EXCEPT ![p] = upstream[y]]
    /\ err' = [err EXCEPT ![p] = "none"]
    /\ UNCHANGED <<upstream, rows, evicted, ver, ctxDone>>

\* inflight.LoadOrStore stores the caller's own result: it owns the flight.
Lead(p, y) ==
    /\ pc[p] = "idle"
    /\ inflight[y] = None
    /\ inflight' = [inflight EXCEPT ![y] = [owner |-> p, result |-> "open"]]
    /\ pc' = [pc EXCEPT ![p] = "fetch"]
    /\ year' = [year EXCEPT ![p] = y]
    /\ since' = [since EXCEPT ![p] = upstream[y]]
    /\ err' = [err EXCEPT ![p] = "none"]
    /\ UNCHANGED <<upstream, rows, evicted, ver, ctxDone>>

\* inflight.LoadOrStore loads a flight, which may be over but not deleted yet.
Join(p, y) ==
    /\ pc[p] = "idle"
    /\ inflight[y] # None
    /\ pc' = [pc EXCEPT ![p] = "wait"]
    /\ year' = [year EXCEPT ![p] = y]
    /\ err' = [err EXCEPT ![p] = inflight[y].result]
    /\ UNCHANGED <<upstream, rows, evicted, inflight, since, ver, ctxDone>>

Call(p, y) == Lead(p, y) \/ Join(p, y)

\* Changed form of FetchYear: an answer an HTTP cache kept from before the call.
FetchYearFromProxy(p) ==
    /\ pc[p] = "fetch"
    /\ ~Cancelled(p)
    /\ \E v \in 1 .. upstream[year[p]] : ver' = [ver EXCEPT ![p] = v]
    /\ pc' = [pc EXCEPT ![p] = "store"]
    /\ UNCHANGED <<upstream, rows, evicted, inflight, year, since, err, ctxDone>>

\* client.FetchYear returns the pages it read one after the other: the oldest
\* of them is no older than what AniList had when the call began.
FetchYear(p) ==
    /\ pc[p] = "fetch"
    /\ ~Cancelled(p)
    /\ \E v \in since[p] .. upstream[year[p]] : ver' = [ver EXCEPT ![p] = v]
    /\ pc' = [pc EXCEPT ![p] = "store"]
    /\ UNCHANGED <<upstream, rows, evicted, inflight, year, since, err, ctxDone>>

\* Changed form of FetchFails: the error path deletes the flight, unclosed.
FetchFailsUnclosed(p) ==
    /\ pc[p] = "fetch"
    /\ err' = [err EXCEPT ![p] = IF Cancelled(p) THEN "cancelled" ELSE "failed"]
    /\ pc' = [pc EXCEPT ![p] = "delete"]
    /\ UNCHANGED <<upstream, rows, evicted, inflight, year, since, ver, ctxDone>>

FetchFails(p) ==
    /\ pc[p] = "fetch"
    /\ err' = [err EXCEPT ![p] = IF Cancelled(p) THEN "cancelled" ELSE "failed"]
    /\ pc' = [pc EXCEPT ![p] = "close"]
    /\ UNCHANGED <<upstream, rows, evicted, inflight, year, since, ver, ctxDone>>

\* cache.SetYear takes no context: a cancelled worker still stores.
Store(p) ==
    /\ pc[p] = "store"
    /\ rows' = [rows EXCEPT ![year[p]] = ver[p]]
    /\ evicted' = [evicted EXCEPT ![year[p]] = FALSE]
    /\ err' = [err EXCEPT ![p] = "ok"]
    /\ pc' = [pc EXCEPT ![p] = "close"]
    /\ UNCHANGED <<upstream, inflight, year, since, ver, ctxDone>>

\* Changed form of StoreFails: it returns before the deferred clean-up.
StoreFailsEarly(p) ==
    /\ pc[p] = "store"
    /\ err' = [err EXCEPT ![p] = "failed"]
    /\ pc' = [pc EXCEPT ![p] = "idle"]
    /\ UNCHANGED <<upstream, rows, evicted, inflight, year, since, ver, ctxDone>>

StoreFails(p) ==
    /\ pc[p] = "store"
    /\ err' = [err EXCEPT ![p] = "failed"]
    /\ pc' = [pc EXCEPT ![p] = "close"]
    /\ UNCHANGED <<upstream, rows, evicted, inflight, year, since, ver, ctxDone>>

Waiting(p, y) == pc[p] = "wait" /\ year[p] = y /\ err[p] = "open"

\* Changed forms of Close: done is closed before err is assigned, so that those
\* who wait read nil; done is never closed.
CloseBeforeErr(p) ==
    /\ pc[p] = "close"
    /\ inflight' = [inflight EXCEPT ![year[p]].result = err[p]]
    /\ err' = [q \in Callers |-> IF Waiting(q, year[p]) THEN "ok" ELSE err[q]]
    /\ pc' = [pc EXCEPT ![p] = "delete"]
    /\ UNCHANGED <<upstream, rows, evicted, year, since, ver, ctxDone>>

CloseNothing(p) ==
    /\ pc[p] = "close"
    /\ pc' = [pc EXCEPT ![p] = "delete"]
    /\ UNCHANGED <<upstream, rows, evicted, inflight, year, since, ver, err, ctxDone>>

\* result.err = err; close(result.done): everyone who waits sees the error.
Close(p) ==
    /\ pc[p] = "close"
    /\ inflight' = [inflight EXCEPT ![year[p]].result = err[p]]
    /\ err' = [q \in Callers |-> IF Waiting(q, year[p]) THEN err[p] ELSE err[q]]
    /\ pc' = [pc EXCEPT ![p] = "delete"]
    /\ UNCHANGED <<upstream, rows, evicted, year, since, ver, ctxDone>>

\* inflight.Delete, and the return; since and ver go out of scope.
Delete(p) ==
    /\ pc[p] = "delete"
    /\ inflight' = [inflight EXCEPT ![year[p]] = None]
    /\ pc' = [pc EXCEPT ![p] = "idle"]
    /\ since' = [since EXCEPT ![p] = 0]
    /\ ver' = [ver EXCEPT ![p] = 0]
    /\ UNCHANGED <<upstream, rows, evicted, year, err, ctxDone>>

WaitDone(p) ==
    /\ pc[p] = "wait"
    /\ err[p] # "open"
    /\ pc' = [pc EXCEPT ![p] = "idle"]
    /\ UNCHANGED <<upstream, rows, evicted, inflight, year, since, ver, err, ctxDone>>

\* With both cases of the select ready either may be taken.
WaitCancelled(p) ==
    /\ pc[p] = "wait"
    /\ Cancelled(p)
    /\ err' = [err EXCEPT ![p] = "cancelled"]
    /\ pc' = [pc EXCEPT ![p] = "idle"]
    /\ UNCHANGED <<upstream, rows, evicted, inflight, year, since, ver, ctxDone>>

\* The caller has looked at the error, which goes out of scope.
Return(p) ==
    /\ pc[p] = "idle"
    /\ err[p] # "none"
    /\ err' = [err EXCEPT ![p] = "none"]
    /\ year' = [year EXCEPT ![p] = None]
    /\ UNCHANGED <<upstream, rows, evicted, inflight, pc, since, ver, ctxDone>>

\* The steps of a call in progress.
Step(p) ==
    \/ FetchYear(p) \/ FetchFails(p) \/ Store(p) \/ StoreFails(p)
    \/ Close(p) \/ Delete(p) \/ WaitDone(p) \/ WaitCancelled(p)

-----------------------------------------------------------------------------
\* AniList changes the list of year y.
Publish(y) ==
    /\ upstream[y] < MaxVersion
    /\ upstream' = [upstream EXCEPT ![y] = @ + 1]
    /\ UNCHANGED <<rows, evicted, inflight, pc, year, since, ver, err, ctxDone>>

\* cache.PruneStaleYears deletes some rows, cache.Clear all of them.
Evict(S) ==
    /\ rows' = [y \in Years |-> IF y \in S THEN Absent ELSE rows[y]]
    /\ evicted' = [y \in Years |-> evicted[y] \/ (y \in S /\ rows[y] # Absent)]
    /\ UNCHANGED <<upstream, inflight, pc, year, since, ver, err, ctxDone>>

\* run() calls cancel() when a signal arrives.
Cancel ==
    /\ ~ctxDone
    /\ ctxDone' = TRUE
    /\ UNCHANGED <<upstream, rows, evicted, inflight, pc, year, since, ver, err>>

\* The process dies at any point and a new one opens the same database.
Restart ==
    /\ inflight' = [y \in Years |-> None]
    /\ pc' = [p \in Callers |-> "idle"]
    /\ year' = [p \in Callers |-> None]
    /\ since' = [p \in Callers |-> 0]
    /\ ver' = [p \in Callers |-> 0]
    /\ err' = [p \in Callers |-> "none"]
    /\ ctxDone' = FALSE
    /\ UNCHANGED <<upstream, rows, evicted>>

Environment ==
    \/ \E y \in Years : Publish(y)
    \/ \E S \in SUBSET Years : Evict(S)
    \/ Cancel
    \/ Restart

Next ==
    \/ \E p \in Callers : \E y \in Years : Call(p, y)
    \/ \E p \in Callers : Step(p) \/ Return(p)
    \/ Environment

Spec == Init /\ [][Next]_vars

-----------------------------------------------------------------------------
\* The flight of a year has exactly one owner, who is between LoadOrStore and
\* Delete: so no year is fetched twice at the same time, and a flight is never
\* left behind in the map (FetchAndStore, scheduler.go:193-231).
OneFlightPerYear ==
    /\ \A y \in Years : inflight[y] # None =>
          /\ pc[inflight[y].owner] \in OwnerSteps
          /\ year[inflight[y].owner] = y
    /\ \A p \in Callers : pc[p] \in OwnerSteps =>
          /\ inflight[year[p]] # None
          /\ inflight[year[p]].owner = p

\* A caller that waits for a done channel waits for one that will be closed: the
\* flight it joined is still in the map and its owner has yet to close it.
NoLostWaiter ==
    \A p \in Callers : (pc[p] = "wait" /\ err[p] = "open") =>
        /\ inflight[year[p]] # None
        /\ pc[inflight[year[p]].owner] \in {"fetch", "store", "close"}

\* A nil error means the year was stored: the row a caller then misses (line 164
\* of handleList) was removed by a prune or a clear after it was written.
NilMeansStored ==
    \A p \in Callers : (pc[p] = "idle" /\ err[p] = "ok") =>
        rows[year[p]] # Absent \/ evicted[year[p]]

\* A row is never replaced by data older than it holds, however the fetches of
\* requests, prewarm and stale refresh overlap.
VersionsAdvance ==
    [][\A y \in Years : rows'[y] # Absent => rows'[y] >= rows[y]]_vars

-----------------------------------------------------------------------------
phaseOf(y) ==
    IF inflight[y] = None THEN "none"
    ELSE IF pc[inflight[y].owner] \in {"fetch", "store"} THEN "reading" ELSE "done"

sinceOf(y) == IF phaseOf(y) = "reading" THEN since[inflight[y].owner] ELSE 0

Abstract == INSTANCE YearRefresh WITH
    phase <- [y \in Years |-> phaseOf(y)],
    since <- [y \in Years |-> sinceOf(y)]

\* FetchAndStore implements YearRefresh.
RefreshSpec == Abstract!Spec
=============================================================================
