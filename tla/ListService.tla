----------------------------- MODULE ListService -----------------------------
(***************************************************************************)
(* The program around FetchAndStore: the handler of GET /list, the stale-  *)
(* refresh and mapping workers, the prewarm loop, and run() from its start *)
(* to its exit.  All of them share the table year_cache and the flights of *)
(* FetchFlight; each database statement and each LoadOrStore is a step.    *)
(*                                                                         *)
(* Abstracted here: the shows of a year are a version (FetchFlight), the   *)
(* filters and the TVDB resolution of Process do not change what is cached *)
(* and are one step with its read of the prior year, the age of a row is   *)
(* the flag "old" (YearCache has the clock), and loading the mapping is one*)
(* step that succeeds or fails.                                            *)
(***************************************************************************)
EXTENDS FetchFlight

CONSTANTS
    Main,          \* the goroutine of run(), which prewarms
    StaleWorker,   \* the goroutine of the 10-minute ticker
    AskYears,      \* the years that requests ask for
    Overflows,     \* whether they ask for WINTER or ALL: a subset of BOOLEAN
    PrewarmYears,  \* cfg.PrewarmYears
    Crashes        \* whether the process may die

ASSUME WorkersAssumption ==
    Workers = {Main, StaleWorker} /\ Main # StaleWorker /\ Workers \cap Requests = {}
ASSUME YearsAssumption ==
    /\ Years \subseteq Nat
    /\ AskYears \subseteq Years /\ PrewarmYears \subseteq Years
    /\ Overflows \subseteq BOOLEAN
    /\ TRUE \in Overflows => \A y \in AskYears : y - 1 \in Years
ASSUME CrashesAssumption == Crashes \in BOOLEAN

VARIABLES
    old,           \* the years whose row is past its freshness threshold
    req,           \* the locals of each request's handleList
    seen,          \* auxiliary: the newest version of each year ever read for a request
    main,          \* where run() is
    toPrewarm,     \* the years Prewarm has yet to look at
    drained,       \* server.Shutdown returned with no request left
    worker,        \* where the stale-refresh worker is
    queue,         \* the stale years it has yet to refresh
    loaded         \* the resolver has a mapping

lifecycle == <<main, toPrewarm, drained>>
background == <<worker, queue, loaded>>
outside == <<old, seen, lifecycle, background>>
allVars == <<vars, req, outside>>

HandlerSteps == {"idle", "lookup", "backfill", "backfilling", "reread", "prior",
                 "backfillPrior", "backfillingPrior", "process", "refresh",
                 "refreshing", "answered"}
Answers == {"none", "data", "empty", "unavailable", "rejected"}

\* trouble is auxiliary: the years of which a fetch or a read failed for it.
Handlers == [step : HandlerSteps, ask : AskYears \cup {None}, overflow : BOOLEAN,
             data : {Absent} \cup Versions, fresh : BOOLEAN,
             prior : {Absent} \cup Versions, answer : Answers, trouble : SUBSET Years]

NoRequest == [step |-> "idle", ask |-> None, overflow |-> FALSE, data |-> Absent,
              fresh |-> FALSE, prior |-> Absent, answer |-> "none", trouble |-> {}]

ServiceTypeOK ==
    /\ TypeOK
    /\ old \subseteq Years
    /\ req \in [Requests -> Handlers]
    /\ seen \in [Years -> {Absent} \cup Versions]
    /\ main \in {"prewarm", "prewarming", "ready", "draining", "waiting", "exited"}
    /\ toPrewarm \subseteq PrewarmYears
    /\ drained \in BOOLEAN
    /\ worker \in {"select", "refresh", "refreshing", "prune", "stopped"}
    /\ queue \subseteq Years
    /\ loaded \in BOOLEAN

-----------------------------------------------------------------------------
\* run() up to Prewarm: LoadResolver may fail, the program starts all the same.
ServiceInit ==
    /\ Init
    /\ old \in SUBSET {y \in Years : rows[y] # Absent}
    /\ req = [r \in Requests |-> NoRequest]
    /\ seen = [y \in Years |-> Absent]
    /\ main = "prewarm"
    /\ toPrewarm = PrewarmYears
    /\ drained = FALSE
    /\ worker = "select"
    /\ queue = {}
    /\ loaded \in BOOLEAN

\* The deferred calls of run() close the database and the process ends.
Running == main # "exited"

\* Changed form of Listening: connections are accepted for as long as it runs.
ListeningToTheEnd == Running

\* The listener is open from before the prewarm until server.Shutdown.
Listening == main \in {"prewarm", "prewarming", "ready"}

\* A step of FetchAndStore; a row just stored is fresh.
FlightStep(p) ==
    /\ Running
    /\ Step(p)
    /\ old' = IF pc[p] = "store" /\ err'[p] = "ok" THEN old \ {year[p]} ELSE old
    /\ UNCHANGED <<req, seen, lifecycle, background>>

-----------------------------------------------------------------------------
(* The handler of GET /list.                                                *)

At(r, s) == req[r].step = s
Goto(r, s) == req' = [req EXCEPT ![r].step = s]

\* The answer is written; failed are the years that could not be had just now.
Respond(r, a, failed) ==
    req' = [req EXCEPT ![r].step = "answered", ![r].answer = a, ![r].trouble = @ \cup failed]

\* The list of the year that was read is written, with or without the prior year.
RespondList(r, p, failed) ==
    req' = [req EXCEPT ![r].step = "answered", ![r].answer = "data",
                       ![r].prior = p, ![r].trouble = @ \cup failed]

\* The list of a year has been read from the cache.
See(y, v) == seen' = [seen EXCEPT ![y] = IF v > @ THEN v ELSE @]

\* GetYear finds the row; only WINTER and ALL go on to look at the prior year.
GetYearHits(r) ==
    LET y == req[r].ask IN
    /\ rows[y] # Absent
    /\ req' = [req EXCEPT ![r].data = rows[y], ![r].fresh = y \notin old,
                          ![r].step = IF req[r].overflow THEN "prior" ELSE "process"]
    /\ See(y, rows[y])

\* The checks before the cache is looked at: a season, year or category out of
\* range is rejected, and nothing is seen before a mapping is loaded.
Arrive(r, y, o) ==
    /\ Listening
    /\ At(r, "idle")
    /\ \E s \in {<<"answered", "rejected">>,
                 IF loaded THEN <<"lookup", "none">> ELSE <<"answered", "unavailable">>} :
          req' = [req EXCEPT ![r].step = s[1], ![r].answer = s[2],
                             ![r].ask = y, ![r].overflow = o]
    /\ UNCHANGED <<vars, outside>>

\* GetYear takes every error of the query for a miss.
Lookup(r) ==
    /\ At(r, "lookup")
    /\ GetYearHits(r) \/ (Goto(r, "backfill") /\ UNCHANGED seen)
    /\ UNCHANGED <<vars, old, lifecycle, background>>

HandlerCalls(r) ==
    /\ \/ At(r, "backfill") /\ Call(r, req[r].ask) /\ Goto(r, "backfilling")
       \/ At(r, "backfillPrior") /\ Call(r, req[r].ask - 1) /\ Goto(r, "backfillingPrior")
       \/ At(r, "refresh") /\ Call(r, req[r].ask) /\ Goto(r, "refreshing")
    /\ UNCHANGED outside

\* Changed form of Backfilled: the handler does not wait for the fetch.
BackfilledAsync(r) ==
    /\ At(r, "backfilling")
    /\ Goto(r, "reread")
    /\ UNCHANGED <<vars, outside>>

Backfilled(r) ==
    /\ At(r, "backfilling")
    /\ Return(r)
    /\ IF err[r] = "ok" THEN Goto(r, "reread") ELSE Respond(r, "empty", {req[r].ask})
    /\ UNCHANGED outside

Reread(r) ==
    /\ At(r, "reread")
    /\ \/ GetYearHits(r)
       \/ rows[req[r].ask] = Absent /\ Respond(r, "empty", {}) /\ UNCHANGED seen
       \/ Respond(r, "empty", {req[r].ask}) /\ UNCHANGED seen      \* the query fails
    /\ UNCHANGED <<vars, old, lifecycle, background>>

\* Changed form of PriorCheck: the fetch of the prior year is left to others.
PriorCheckAsync(r) ==
    /\ At(r, "prior")
    /\ Goto(r, "process")
    /\ UNCHANGED <<vars, outside>>

\* HasYear leaves its count at 0 when the query fails.
PriorCheck(r) ==
    /\ At(r, "prior")
    /\ (rows[req[r].ask - 1] # Absent /\ Goto(r, "process")) \/ Goto(r, "backfillPrior")
    /\ UNCHANGED <<vars, outside>>

\* The error of the prior year's fetch is logged only.
PriorBackfilled(r) ==
    /\ At(r, "backfillingPrior")
    /\ Return(r)
    /\ req' = [req EXCEPT ![r].step = "process",
                          ![r].trouble = IF err[r] = "ok" THEN @ ELSE @ \cup {req[r].ask - 1}]
    /\ UNCHANGED outside

\* Process reads the prior year again.  A fresh list is then written at once; for
\* a stale one the handler first waits for a refresh.
Process(r) ==
    LET prior == req[r].ask - 1
        Reads == IF ~req[r].overflow THEN {<<Absent, {}>>}
                 ELSE {<<rows[prior], {}>>, <<Absent, {prior}>>}    \* or the query fails
    IN
    /\ At(r, "process")
    /\ \E read \in Reads :
          /\ IF req[r].fresh THEN RespondList(r, read[1], read[2])
             ELSE req' = [req EXCEPT ![r].step = "refresh", ![r].prior = read[1],
                                     ![r].trouble = @ \cup read[2]]
          /\ IF read[1] # Absent THEN See(prior, read[1]) ELSE UNCHANGED seen
    /\ UNCHANGED <<vars, old, lifecycle, background>>

\* The refresh's error is logged only.
Refreshed(r) ==
    /\ At(r, "refreshing")
    /\ Return(r)
    /\ RespondList(r, req[r].prior, {})
    /\ UNCHANGED outside

\* The handler returns; its goroutine and its locals are gone.
Finish(r) ==
    /\ At(r, "answered")
    /\ req' = [req EXCEPT ![r] = NoRequest]
    /\ UNCHANGED <<vars, outside>>

HandlerStep(r) ==
    /\ Running
    /\ \/ Lookup(r) \/ HandlerCalls(r) \/ Backfilled(r) \/ Reread(r) \/ PriorCheck(r)
       \/ PriorBackfilled(r) \/ Process(r) \/ Refreshed(r) \/ Finish(r)

-----------------------------------------------------------------------------
(* The background workers.                                                  *)

\* Changed form of Tick: the years of the snapshot are off by one.
TickOffByOne ==
    /\ worker = "select"
    /\ worker' = "refresh"
    /\ queue' \in {{y - 1 : y \in old}, {}}
    /\ UNCHANGED <<vars, old, seen, req, lifecycle, loaded>>

\* The ticker fires: NeedsRefreshYears takes its snapshot, or fails.  With the
\* context done as well, the select may still choose the ticker.
Tick ==
    /\ worker = "select"
    /\ worker' = "refresh"
    /\ queue' \in {old, {}}
    /\ UNCHANGED <<vars, old, seen, req, lifecycle, loaded>>

\* FetchAndStore for the next year of the snapshot, whatever happened meanwhile.
WorkerCalls ==
    /\ worker = "refresh"
    /\ \E y \in queue : Call(StaleWorker, y) /\ queue' = queue \ {y}
    /\ worker' = "refreshing"
    /\ UNCHANGED <<old, seen, req, lifecycle, loaded>>

\* Changed form of WorkerReturns: the goroutine returns on the first error.
WorkerReturnsOnError ==
    /\ worker = "refreshing"
    /\ Return(StaleWorker)
    /\ worker' = IF err[StaleWorker] = "ok" THEN "refresh" ELSE "stopped"
    /\ UNCHANGED <<old, seen, req, lifecycle, queue, loaded>>

\* Another one: a year that could not be fetched stays in the round.
WorkerReturnsToRetry ==
    /\ worker = "refreshing"
    /\ Return(StaleWorker)
    /\ worker' = "refresh"
    /\ queue' = IF err[StaleWorker] = "ok" THEN queue ELSE queue \cup {year[StaleWorker]}
    /\ UNCHANGED <<old, seen, req, lifecycle, loaded>>

WorkerReturns ==
    /\ worker = "refreshing"
    /\ Return(StaleWorker)
    /\ worker' = "refresh"
    /\ UNCHANGED <<old, seen, req, lifecycle, queue, loaded>>

WorkerRefreshed ==
    /\ worker = "refresh"
    /\ queue = {}
    /\ worker' = "prune"
    /\ UNCHANGED <<vars, old, seen, req, lifecycle, queue, loaded>>

\* prune does nothing once the context is done; which rows it deletes is the
\* subject of YearCache.
Prune ==
    /\ worker = "prune"
    /\ worker' = "select"
    /\ \/ \E S \in SUBSET Years : ~ctxDone /\ Evict(S) /\ old' = old \ S
       \/ ctxDone /\ UNCHANGED <<vars, old>>
    /\ UNCHANGED <<seen, req, lifecycle, queue, loaded>>

WorkerStops ==
    /\ worker = "select"
    /\ ctxDone
    /\ worker' = "stopped"
    /\ UNCHANGED <<vars, old, seen, req, lifecycle, queue, loaded>>

WorkerStep ==
    /\ Running
    /\ \/ Tick \/ WorkerCalls \/ WorkerReturns \/ WorkerRefreshed \/ Prune \/ WorkerStops

\* The mapping worker: refreshMapping keeps the current mapping when it fails, so
\* a failed one is no step; nothing takes a mapping away.
MapRefresh ==
    /\ Running
    /\ ~loaded
    /\ loaded' = TRUE
    /\ UNCHANGED <<vars, old, seen, req, lifecycle, worker, queue>>

-----------------------------------------------------------------------------
(* run(): prewarm, signal, shutdown.                                        *)

PrewarmSkips ==
    /\ main = "prewarm"
    /\ \E y \in toPrewarm :
          /\ rows[y] # Absent /\ y \notin old
          /\ toPrewarm' = toPrewarm \ {y}
    /\ UNCHANGED <<vars, old, seen, req, main, drained, background>>

PrewarmCalls ==
    /\ main = "prewarm"
    /\ \E y \in toPrewarm : Call(Main, y) /\ toPrewarm' = toPrewarm \ {y}
    /\ main' = "prewarming"
    /\ UNCHANGED <<old, seen, req, drained, background>>

PrewarmReturns ==
    /\ main = "prewarming"
    /\ Return(Main)
    /\ main' = "prewarm"
    /\ UNCHANGED <<old, seen, req, toPrewarm, drained, background>>

Prewarmed ==
    /\ main = "prewarm"
    /\ toPrewarm = {}
    /\ main' = "ready"
    /\ UNCHANGED <<vars, old, seen, req, toPrewarm, drained, background>>

\* A signal is received after the prewarm only: before, it kills the process,
\* which is Crash.  cancel() comes before server.Shutdown.
Signal ==
    /\ main = "ready"
    /\ main' = "draining"
    /\ Cancel
    /\ UNCHANGED <<old, seen, req, toPrewarm, drained, background>>

\* Shutdown returns when every request is answered, or after ten seconds.
ShutdownReturns ==
    /\ main = "draining"
    /\ \A r \in Requests : At(r, "idle")
    /\ main' = "waiting"
    /\ drained' = TRUE
    /\ UNCHANGED <<vars, old, seen, req, toPrewarm, background>>

ShutdownTimesOut ==
    /\ main = "draining"
    /\ \E r \in Requests : ~At(r, "idle")
    /\ main' = "waiting"
    /\ UNCHANGED <<vars, old, seen, req, toPrewarm, drained, background>>

\* sched.Wait returns when the workers are done, or after five seconds.
Exit ==
    /\ main = "waiting"
    /\ worker = "stopped"
    /\ main' = "exited"
    /\ UNCHANGED <<vars, old, seen, req, toPrewarm, drained, background>>

WaitTimesOut ==
    /\ main = "waiting"
    /\ worker # "stopped"
    /\ main' = "exited"
    /\ UNCHANGED <<vars, old, seen, req, toPrewarm, drained, background>>

MainStep ==
    PrewarmSkips \/ PrewarmCalls \/ PrewarmReturns \/ Prewarmed \/ ShutdownReturns \/ Exit

TimeoutStep == ShutdownTimesOut \/ WaitTimesOut

\* The process dies, or has exited, and is started again on the same database.
Crash ==
    /\ Crashes
    /\ Restart
    /\ req' = [r \in Requests |-> NoRequest]
    /\ main' = "prewarm"
    /\ toPrewarm' = PrewarmYears
    /\ drained' = FALSE
    /\ worker' = "select"
    /\ queue' = {}
    /\ loaded' \in BOOLEAN
    /\ UNCHANGED <<old, seen>>

-----------------------------------------------------------------------------
(* AniList, time, and POST /cache/clear.                                    *)

AniListPublishes(y) == Publish(y) /\ UNCHANGED <<req, outside>>

Age(y) ==
    /\ Running
    /\ rows[y] # Absent /\ y \notin old
    /\ old' = old \cup {y}
    /\ UNCHANGED <<vars, seen, req, lifecycle, background>>

Clear ==
    /\ Running
    /\ Evict(Years)
    /\ old' = {}
    /\ UNCHANGED <<seen, req, lifecycle, background>>

ServiceNext ==
    \/ \E p \in Callers : FlightStep(p)
    \/ \E r \in Requests : HandlerStep(r)
    \/ \E r \in Requests, y \in AskYears, o \in Overflows : Arrive(r, y, o)
    \/ WorkerStep
    \/ MapRefresh
    \/ MainStep \/ TimeoutStep \/ Signal \/ Crash
    \/ \E y \in Years : AniListPublishes(y) \/ Age(y)
    \/ Clear

ServiceSpec == ServiceInit /\ [][ServiceNext]_allVars

\* Goroutines run, and the worker's select does not choose the ticker for ever when
\* the context is done as well.  That the timeouts of run() fire is not assumed.
Fairness ==
    /\ \A p \in Callers : WF_allVars(FlightStep(p))
    /\ \A r \in Requests : WF_allVars(HandlerStep(r))
    /\ WF_allVars(WorkerStep)
    /\ SF_allVars(Running /\ WorkerStops)
    /\ WF_allVars(MainStep)

\* AniList and SQLite do not refuse a year for ever, whoever asks.
Recovery ==
    /\ \A y \in Years :
          /\ SF_allVars(\E p \in Callers : FetchYear(p) /\ year[p] = y /\ FlightStep(p))
          /\ SF_allVars(\E p \in Callers : Store(p) /\ year[p] = y /\ FlightStep(p))
    /\ SF_allVars(Running /\ Tick /\ queue' = old)

FairServiceSpec == ServiceSpec /\ Fairness

RecoveringSpec == FairServiceSpec /\ Recovery

-----------------------------------------------------------------------------
\* A client gets the empty list for one of two reasons only: a fetch or a read of
\* the year failed for this request, or the row was removed after it was stored
\* (handleList, main.go:157-168).
EmptyExplained ==
    [][\A r \in Requests : LET y == req[r].ask IN
          (req[r].answer = "none" /\ req'[r].answer = "empty") =>
             y \in req'[r].trouble \/ evicted[y]]_allVars

\* A winter list is written without the year before it for the same two reasons
\* only, although HasYear, the fetch and the read in Process are separate steps
\* (main.go:171-180, scheduler.go:148-149).
PriorExplained ==
    [][\A r \in Requests : LET y == req[r].ask - 1 IN
          (Process(r) /\ req[r].overflow /\ req'[r].prior = Absent) =>
             y \in req'[r].trouble \/ evicted[y]]_allVars

\* What a request reads of a year, be it the one it asks for or the prior year of a
\* winter list, is as new as whatever any request ever read of that year before:
\* across overlapping fetches, prunes, clears and restarts the row may disappear, but
\* does not come back older (main.go:149-163, scheduler.go:149).  When the answers
\* arrive is another matter: a request may hold what it read for a long time.
ReadsNeverGoBack ==
    [][\A r \in Requests : LET y == req[r].ask IN
          /\ (req[r].data = Absent /\ req'[r].data # Absent) => req'[r].data >= seen[y]
          /\ (req[r].prior = Absent /\ req'[r].prior # Absent) =>
                req'[r].prior >= seen[y - 1]]_allVars

\* When Shutdown has seen the last request answered, none is cut off by the exit;
\* when the worker has stopped as well, no fetch is abandoned half way.
CleanExit ==
    (main = "exited" /\ drained) =>
        /\ \A r \in Requests : At(r, "idle")
        /\ worker = "stopped" => \A y \in Years : inflight[y] = None

\* Every request is answered, unless the process exits first.
RequestsAnswered ==
    \A r \in Requests : ~At(r, "idle") ~> (At(r, "idle") \/ ~Running)

\* A year past its threshold is refreshed or removed, unless the process exits.
StaleRefreshed == \A y \in Years : y \in old ~> (y \notin old \/ ~Running)

\* A signal ends the process without its timeouts: the requests being drained and the
\* worker in its round come to their ends, though they wait for each other's flights
\* and the worker's have been cancelled (main.go:93-104).
SignalEnds == main = "draining" ~> main = "exited"
=============================================================================
