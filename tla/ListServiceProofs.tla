-------------------------- MODULE ListServiceProofs --------------------------
(***************************************************************************)
(* ListService adds no step to the flights of FetchFlight: whatever was    *)
(* proved of them holds in the whole program.  With that, what a request   *)
(* has read of a year stays "seen": no row and no fetch in progress is     *)
(* older, so that nothing read later is older either.                      *)
(***************************************************************************)
EXTENDS ListService, FetchFlightProofs

USE DEF Callers, Absent, Versions, Results, OwnerSteps, Flights

-----------------------------------------------------------------------------
(* 1. What a request asks for is known while it is being served.             *)

HandlerOK(h) ==
    /\ h \in Handlers
    /\ h.step \notin {"idle", "answered"} => h.ask \in AskYears
    /\ h.step \in {"prior", "backfillPrior", "backfillingPrior"} => h.overflow
    /\ h.overflow => TRUE \in Overflows
    /\ h.step = "idle" => h.data = Absent

RequestKnown == \A r \in Requests : HandlerOK(req[r])

ServiceInv == OwnerInv /\ ServiceTypeOK /\ RequestKnown

\* The year before is one of the years when a request may ask for it.
LEMMA PriorYear ==
  ASSUME ServiceInv, NEW r \in Requests, req[r].overflow, req[r].ask \in AskYears
  PROVE  req[r].ask - 1 \in Years
BY YearsAssumption DEF ServiceInv, RequestKnown, HandlerOK

\* A step of the handler is a step of the flights or leaves them alone.
LEMMA HandlerIsFlightStep ==
  ASSUME ServiceInv, NEW r \in Requests, HandlerStep(r)
  PROVE  [Next]_vars
<1>1. CASE HandlerCalls(r)
  <2>1. req[r].ask \in Years
    BY <1>1, YearsAssumption DEF HandlerCalls, At, ServiceInv, RequestKnown, HandlerOK
  <2>2. At(r, "backfillPrior") => req[r].ask - 1 \in Years
    BY PriorYear, YearsAssumption DEF At, ServiceInv, RequestKnown, HandlerOK
  <2>3. \E y \in Years : Call(r, y)
    BY <1>1, <2>1, <2>2 DEF HandlerCalls
  <2> QED
    BY <2>3 DEF Next
<1>2. CASE Backfilled(r) \/ PriorBackfilled(r) \/ Refreshed(r)
  <2>1. Return(r)
    BY <1>2 DEF Backfilled, PriorBackfilled, Refreshed
  <2> QED
    BY <2>1 DEF Next
<1>3. CASE Lookup(r) \/ Reread(r) \/ PriorCheck(r) \/ Process(r) \/ Finish(r)
  BY <1>3 DEF Lookup, Reread, PriorCheck, Process, Finish
<1> QED
  BY <1>1, <1>2, <1>3 DEF HandlerStep

\* Every step of the program is a step of the flights or leaves them alone.
LEMMA StepIsFlightStep ==
  ASSUME ServiceInv, [ServiceNext]_allVars
  PROVE  [Next]_vars
<1> USE DEF ServiceInv
<1>1. ASSUME NEW p \in Callers, FlightStep(p)
      PROVE  [Next]_vars
  BY <1>1 DEF FlightStep, Next
<1>2. ASSUME NEW r \in Requests, HandlerStep(r)
      PROVE  [Next]_vars
  BY <1>2, HandlerIsFlightStep
<1>3. ASSUME NEW r \in Requests, NEW y \in AskYears, NEW o \in Overflows, Arrive(r, y, o)
      PROVE  [Next]_vars
  BY <1>3 DEF Arrive
<1>4. CASE WorkerStep
  <2>1. CASE WorkerCalls
    <3>1. \E y \in Years : Call(StaleWorker, y)
      BY <2>1 DEF WorkerCalls, ServiceTypeOK
    <3> QED
      BY <3>1, WorkersAssumption DEF Next
  <2>2. CASE WorkerReturns
    BY <2>2, WorkersAssumption DEF WorkerReturns, Next
  <2>3. CASE Prune
    BY <2>3 DEF Prune, Next, Environment
  <2>4. CASE Tick \/ WorkerRefreshed \/ WorkerStops
    BY <2>4 DEF Tick, WorkerRefreshed, WorkerStops
  <2> QED
    BY <1>4, <2>1, <2>2, <2>3, <2>4 DEF WorkerStep
<1>5. CASE MapRefresh
  BY <1>5 DEF MapRefresh
<1>6. CASE MainStep \/ TimeoutStep
  <2>1. CASE PrewarmCalls
    <3>1. \E y \in Years : Call(Main, y)
      BY <2>1, YearsAssumption DEF PrewarmCalls, ServiceTypeOK
    <3> QED
      BY <3>1, WorkersAssumption DEF Next
  <2>2. CASE PrewarmReturns
    BY <2>2, WorkersAssumption DEF PrewarmReturns, Next
  <2>3. CASE PrewarmSkips \/ Prewarmed \/ ShutdownReturns \/ Exit
    BY <2>3 DEF PrewarmSkips, Prewarmed, ShutdownReturns, Exit
  <2>4. CASE TimeoutStep
    BY <2>4 DEF TimeoutStep, ShutdownTimesOut, WaitTimesOut
  <2> QED
    BY <1>6, <2>1, <2>2, <2>3, <2>4 DEF MainStep
<1>7. CASE Signal
  BY <1>7 DEF Signal, Next, Environment
<1>8. CASE Crash
  BY <1>8 DEF Crash, Next, Environment
<1>9. ASSUME NEW y \in Years, AniListPublishes(y) \/ Age(y)
      PROVE  [Next]_vars
  BY <1>9 DEF AniListPublishes, Age, Next, Environment
<1>10. CASE Clear
  BY <1>10 DEF Clear, Next, Environment
<1>11. CASE UNCHANGED allVars
  BY <1>11 DEF allVars
<1> QED
  BY <1>1, <1>2, <1>3, <1>4, <1>5, <1>6, <1>7, <1>8, <1>9, <1>10, <1>11 DEF ServiceNext

-----------------------------------------------------------------------------
(* 2. The locals of the handlers and of the workers are well typed.          *)

\* A handler sees what it reads, a row of one of the years, and nothing else.
LEMMA HandlerSees ==
  ASSUME ServiceInv, NEW r \in Requests, HandlerStep(r)
  PROVE  UNCHANGED seen \/ \E y \in Years : See(y, rows[y])
<1> DEFINE busy == req[r].step \notin {"idle", "answered"}
<1>1. busy => req[r].ask \in Years /\ req[r].ask \in AskYears
  BY YearsAssumption DEF ServiceInv, RequestKnown, HandlerOK
<1>2. CASE Lookup(r) \/ Reread(r)
  <2>1. busy /\ (UNCHANGED seen \/ GetYearHits(r))
    BY <1>2 DEF Lookup, Reread, At
  <2> QED
    BY <1>1, <2>1 DEF GetYearHits
<1>3. CASE Process(r)
  <2> DEFINE prior == req[r].ask - 1
             Reads == IF ~req[r].overflow THEN {<<Absent, {}>>}
                      ELSE {<<rows[prior], {}>>, <<Absent, {prior}>>}
  <2>1. busy
    BY <1>3 DEF Process, At
  <2>2. PICK read \in Reads : IF read[1] # Absent THEN See(prior, read[1]) ELSE UNCHANGED seen
    BY <1>3 DEF Process
  <2>3. CASE read[1] = Absent
    BY <2>2, <2>3
  <2>4. CASE read[1] # Absent
    <3>1. req[r].overflow /\ read[1] = rows[prior]
      BY <2>2, <2>4
    <3>2. prior \in Years
      BY <1>1, <2>1, <3>1, PriorYear
    <3> QED
      BY <2>2, <2>4, <3>1, <3>2
  <2> QED
    BY <2>3, <2>4
<1>4. CASE ~(Lookup(r) \/ Reread(r) \/ Process(r))
  BY <1>4 DEF HandlerStep, HandlerCalls, Backfilled, PriorCheck, PriorBackfilled, Refreshed,
              Finish, outside
<1> QED
  BY <1>2, <1>3, <1>4

\* Each step of a handler rewrites its own locals, and rewrites them well.
LEMMA HandlerRewrites ==
  ASSUME ServiceInv, NEW r \in Requests, HandlerStep(r)
  PROVE  /\ \E h \in Handlers : HandlerOK(h) /\ req' = [req EXCEPT ![r] = h]
         /\ seen' \in [Years -> {Absent} \cup Versions]
         /\ UNCHANGED <<old, lifecycle, background>>
<1> USE DEF ServiceInv, ServiceTypeOK
<1>0. UNCHANGED <<old, lifecycle, background>> /\ TypeOK
  BY DEF OwnerInv, HandlerStep, Lookup, HandlerCalls, Backfilled, Reread, PriorCheck, PriorBackfilled,
         Process, Refreshed, Finish, outside
<1>1. /\ req \in [Requests -> Handlers] /\ req[r] \in Handlers /\ HandlerOK(req[r])
      /\ rows \in [Years -> {Absent} \cup Versions]
  BY <1>0 DEF TypeOK, RequestKnown
<1> DEFINE busy == req[r].step \notin {"idle", "answered"}
<1>2. busy => req[r].ask \in Years /\ req[r].ask \in AskYears
  BY <1>1, YearsAssumption DEF HandlerOK
<1>3. ASSUME busy, NEW s \in HandlerSteps \ {"idle"},
             s \in {"prior", "backfillPrior", "backfillingPrior"} => req[r].overflow
      PROVE  HandlerOK([req[r] EXCEPT !.step = s])
  BY <1>1, <1>3 DEF Handlers, HandlerOK
<1>4. ASSUME NEW a \in Answers, NEW F \in SUBSET Years
      PROVE  HandlerOK([req[r] EXCEPT !.step = "answered", !.answer = a, !.trouble = @ \cup F])
  BY <1>1 DEF Handlers, HandlerSteps, HandlerOK
<1>5. ASSUME NEW p \in {Absent} \cup Versions, NEW F \in SUBSET Years
      PROVE  HandlerOK([req[r] EXCEPT !.step = "answered", !.answer = "data",
                                      !.prior = p, !.trouble = @ \cup F])
  <2> DEFINE h == [req[r] EXCEPT !.step = "answered", !.answer = "data",
                                 !.prior = p, !.trouble = @ \cup F]
  <2>1. h \in Handlers
    BY <1>1, <1>5 DEF Handlers, HandlerSteps, Answers
  <2>2. h.step = "answered" /\ h.overflow = req[r].overflow
    BY <1>1 DEF Handlers
  <2> HIDE DEF h
  <2>3. HandlerOK(h)
    BY <1>1, <2>1, <2>2 DEF HandlerOK
  <2> QED
    BY <2>3 DEF h
<1>6. ASSUME NEW p \in {Absent} \cup Versions, NEW F \in SUBSET Years, busy
      PROVE  HandlerOK([req[r] EXCEPT !.step = "refresh", !.prior = p, !.trouble = @ \cup F])
  BY <1>1, <1>6 DEF Handlers, HandlerSteps, HandlerOK
<1>7. ASSUME NEW F \in SUBSET Years, busy
      PROVE  HandlerOK([req[r] EXCEPT !.step = "process", !.trouble = F])
  BY <1>1, <1>7 DEF Handlers, HandlerSteps, HandlerOK
<1>8. ASSUME busy, NEW v \in {Absent} \cup Versions, NEW b \in BOOLEAN
      PROVE  HandlerOK([req[r] EXCEPT !.data = v, !.fresh = b,
                                      !.step = IF req[r].overflow THEN "prior" ELSE "process"])
  BY <1>1, <1>8 DEF Handlers, HandlerSteps, HandlerOK
<1>9. seen' \in [Years -> {Absent} \cup Versions]
  <2>1. seen \in [Years -> {Absent} \cup Versions]
    OBVIOUS
  <2> HIDE DEF ServiceInv, ServiceTypeOK
  <2>2. ASSUME NEW y \in Years, See(y, rows[y])
        PROVE  seen' \in [Years -> {Absent} \cup Versions]
    <3>1. rows[y] \in {Absent} \cup Versions
      BY <1>1
    <3> QED
      BY <2>1, <2>2, <3>1 DEF See
  <2> QED
    BY <2>1, <2>2, HandlerSees
<1> HIDE DEF ServiceInv, ServiceTypeOK
<1> DEFINE Rewritten == \E h \in Handlers : HandlerOK(h) /\ req' = [req EXCEPT ![r] = h]
<1>10. SUFFICES Rewritten
  BY <1>0, <1>9
<1>11. ASSUME NEW h, HandlerOK(h), req' = [req EXCEPT ![r] = h]
       PROVE  Rewritten
  BY <1>11 DEF HandlerOK
<1>12. ASSUME NEW s \in HandlerSteps \ {"idle"}, Goto(r, s), busy,
              s \in {"prior", "backfillPrior", "backfillingPrior"} => req[r].overflow
       PROVE  Rewritten
  <2> DEFINE h == [req[r] EXCEPT !.step = s]
  <2>1. req' = [req EXCEPT ![r] = h]
    BY <1>1, <1>12 DEF Goto
  <2>2. HandlerOK(h)
    BY <1>3, <1>12
  <2> HIDE DEF h
  <2> QED
    BY <1>11, <2>1, <2>2
<1>13. ASSUME NEW a \in Answers, NEW F \in SUBSET Years, Respond(r, a, F)
       PROVE  Rewritten
  <2> DEFINE h == [req[r] EXCEPT !.step = "answered", !.answer = a, !.trouble = @ \cup F]
  <2>1. req' = [req EXCEPT ![r] = h]
    BY <1>1, <1>13 DEF Respond
  <2>2. HandlerOK(h)
    BY <1>4
  <2> HIDE DEF h
  <2> QED
    BY <1>11, <2>1, <2>2
<1>14. ASSUME NEW p \in {Absent} \cup Versions, NEW F \in SUBSET Years, RespondList(r, p, F)
       PROVE  Rewritten
  <2> DEFINE h == [req[r] EXCEPT !.step = "answered", !.answer = "data",
                                 !.prior = p, !.trouble = @ \cup F]
  <2>1. req' = [req EXCEPT ![r] = h]
    BY <1>1, <1>14 DEF RespondList
  <2>2. HandlerOK(h)
    BY <1>5
  <2> HIDE DEF h
  <2> QED
    BY <1>11, <2>1, <2>2
<1>15. ASSUME GetYearHits(r), busy
       PROVE  Rewritten
  <2>1. rows[req[r].ask] \in {Absent} \cup Versions /\ (req[r].ask \notin old) \in BOOLEAN
    BY <1>1, <1>2, <1>15
  <2> DEFINE h == [req[r] EXCEPT !.data = rows[req[r].ask], !.fresh = req[r].ask \notin old,
                                 !.step = IF req[r].overflow THEN "prior" ELSE "process"]
  <2>2. req' = [req EXCEPT ![r] = h]
    BY <1>1, <1>15 DEF GetYearHits
  <2>3. HandlerOK(h)
    BY <1>8, <1>15, <2>1
  <2> HIDE DEF h
  <2> QED
    BY <1>11, <2>2, <2>3
<1>16. CASE Lookup(r) \/ Reread(r)
  <2>1. busy
    BY <1>16 DEF Lookup, Reread, At
  <2>2. {} \in SUBSET Years /\ {req[r].ask} \in SUBSET Years
    BY <1>2, <2>1
  <2>3. "backfill" \in HandlerSteps \ {"idle"} /\ "empty" \in Answers
    BY DEF HandlerSteps, Answers
  <2> QED
    BY <1>16, <2>1, <2>2, <2>3, <1>12, <1>13, <1>15 DEF Lookup, Reread
<1>17. CASE HandlerCalls(r) \/ PriorCheck(r)
  <2>1. busy /\ (At(r, "backfillPrior") \/ At(r, "prior") => req[r].overflow)
    BY <1>17, <1>1 DEF HandlerCalls, PriorCheck, At, HandlerOK
  <2>2. {"backfilling", "backfillPrior", "backfillingPrior", "refreshing", "process"}
            \subseteq HandlerSteps \ {"idle"}
    BY DEF HandlerSteps
  <2>3. \/ Goto(r, "backfilling") \/ Goto(r, "refreshing") \/ Goto(r, "process")
        \/ req[r].overflow /\ (Goto(r, "backfillPrior") \/ Goto(r, "backfillingPrior"))
    BY <1>17, <2>1 DEF HandlerCalls, PriorCheck
  <2> QED
    BY <2>1, <2>2, <2>3, <1>12
<1>18. CASE Backfilled(r)
  <2>1. busy
    BY <1>18 DEF Backfilled, At
  <2>2. {req[r].ask} \in SUBSET Years
    BY <1>2, <2>1
  <2>3. "reread" \in HandlerSteps \ {"idle"} /\ "empty" \in Answers
    BY DEF HandlerSteps, Answers
  <2> QED
    BY <1>18, <2>1, <2>2, <2>3, <1>12, <1>13 DEF Backfilled
<1>19. CASE PriorBackfilled(r)
  <2> DEFINE F == IF err[r] = "ok" THEN req[r].trouble ELSE req[r].trouble \cup {req[r].ask - 1}
             h == [req[r] EXCEPT !.step = "process", !.trouble = F]
  <2>1. busy /\ req[r].overflow
    BY <1>19, <1>1 DEF PriorBackfilled, At, HandlerOK
  <2>2. F \in SUBSET Years
    BY <1>1, <1>2, <2>1, PriorYear DEF Handlers
  <2>3. req' = [req EXCEPT ![r] = h]
    BY <1>1, <1>19 DEF PriorBackfilled
  <2> HIDE DEF F
  <2>4. HandlerOK(h)
    BY <1>7, <2>1, <2>2
  <2> HIDE DEF h
  <2> QED
    BY <1>11, <2>3, <2>4
<1>20. CASE Process(r)
  <2>1. busy
    BY <1>20 DEF Process, At
  <2>2. ASSUME req[r].overflow
        PROVE  req[r].ask - 1 \in Years
    BY <1>2, <2>1, <2>2, PriorYear
  <2> DEFINE Reads == IF ~req[r].overflow THEN {<<Absent, {}>>}
                      ELSE {<<rows[req[r].ask - 1], {}>>, <<Absent, {req[r].ask - 1}>>}
  <2>3. PICK read \in Reads :
           \/ RespondList(r, read[1], read[2])
           \/ req' = [req EXCEPT ![r].step = "refresh", ![r].prior = read[1],
                                 ![r].trouble = @ \cup read[2]]
    BY <1>20 DEF Process
  <2>4. read[1] \in {Absent} \cup Versions /\ read[2] \in SUBSET Years
    BY <1>1, <2>2
  <2>5. CASE RespondList(r, read[1], read[2])
    BY <2>4, <2>5, <1>14
  <2>6. CASE ~RespondList(r, read[1], read[2])
    <3> DEFINE h == [req[r] EXCEPT !.step = "refresh", !.prior = read[1], !.trouble = @ \cup read[2]]
    <3>1. req' = [req EXCEPT ![r] = h]
      BY <1>1, <2>3, <2>6
    <3>2. HandlerOK(h)
      BY <1>6, <2>1, <2>4
    <3> HIDE DEF h
    <3> QED
      BY <1>11, <3>1, <3>2
  <2> QED
    BY <2>5, <2>6
<1>21. CASE Refreshed(r)
  <2>1. req[r].prior \in {Absent} \cup Versions /\ {} \in SUBSET Years
    BY <1>1 DEF Handlers
  <2> QED
    BY <1>21, <2>1, <1>14 DEF Refreshed
<1>22. CASE Finish(r)
  <2>1. HandlerOK(NoRequest)
    BY DEF HandlerOK, NoRequest, Handlers, HandlerSteps, Answers
  <2> QED
    BY <1>22, <2>1, <1>11 DEF Finish
<1> QED
  BY <1>16, <1>17, <1>18, <1>19, <1>20, <1>21, <1>22 DEF HandlerStep

\* A request that arrives knows its year from there on.
LEMMA ArrivalKnown ==
  ASSUME ServiceInv, NEW r \in Requests, NEW y \in AskYears, NEW o \in Overflows, Arrive(r, y, o)
  PROVE  \E h \in Handlers : HandlerOK(h) /\ req' = [req EXCEPT ![r] = h]
<1>1. /\ req \in [Requests -> Handlers] /\ req[r] \in Handlers
      /\ req[r].step = "idle" /\ HandlerOK(req[r])
  BY DEF ServiceInv, ServiceTypeOK, RequestKnown, Arrive, At
<1>2. PICK s \in {<<"answered", "rejected">>, <<"answered", "unavailable">>, <<"lookup", "none">>} :
         req' = [req EXCEPT ![r].step = s[1], ![r].answer = s[2], ![r].ask = y, ![r].overflow = o]
  BY DEF Arrive
<1> DEFINE h == [req[r] EXCEPT !.step = s[1], !.answer = s[2], !.ask = y, !.overflow = o]
<1>3. s[1] \in {"answered", "lookup"} /\ s[2] \in Answers
  BY DEF Answers
<1>4. o \in BOOLEAN /\ (o => TRUE \in Overflows)
  BY YearsAssumption
<1>5. HandlerOK(h)
  BY <1>1, <1>3, <1>4 DEF HandlerOK, Handlers, HandlerSteps
<1>6. req' = [req EXCEPT ![r] = h]
  BY <1>1, <1>2
<1> HIDE DEF h
<1> QED
  BY <1>5, <1>6 DEF HandlerOK

\* No step of the program takes a local out of its type, or a request's year away.
LEMMA ServiceStep ==
  ASSUME ServiceInv, [ServiceNext]_allVars
  PROVE  ServiceInv'
<1>1. OwnerInv' /\ TypeOK' /\ TypeOK
  BY StepIsFlightStep, OwnerStep DEF ServiceInv, OwnerInv
<1> DEFINE Known(q) == q \in [Requests -> Handlers] /\ \A r \in Requests : HandlerOK(q[r])
<1>2. Known(req)
  BY DEF ServiceInv, ServiceTypeOK, RequestKnown
<1>3. SUFFICES /\ Known(req')
               /\ old' \subseteq Years
               /\ seen' \in [Years -> {Absent} \cup Versions]
               /\ main' \in {"prewarm", "prewarming", "ready", "draining", "waiting", "exited"}
               /\ toPrewarm' \subseteq PrewarmYears
               /\ drained' \in BOOLEAN
               /\ worker' \in {"select", "refresh", "refreshing", "prune", "stopped"}
               /\ queue' \subseteq Years
               /\ loaded' \in BOOLEAN
  BY <1>1, <1>3 DEF ServiceInv, ServiceTypeOK, RequestKnown
<1>4. ASSUME NEW r \in Requests,
             \E h \in Handlers : HandlerOK(h) /\ req' = [req EXCEPT ![r] = h]
      PROVE  Known(req')
  BY <1>2, <1>4
<1> HIDE DEF Known
<1>5. /\ old \subseteq Years
      /\ seen \in [Years -> {Absent} \cup Versions]
      /\ main \in {"prewarm", "prewarming", "ready", "draining", "waiting", "exited"}
      /\ toPrewarm \subseteq PrewarmYears
      /\ drained \in BOOLEAN
      /\ worker \in {"select", "refresh", "refreshing", "prune", "stopped"}
      /\ queue \subseteq Years
      /\ loaded \in BOOLEAN
  BY DEF ServiceInv, ServiceTypeOK
<1>6. ASSUME NEW r \in Requests, HandlerStep(r)
      PROVE  /\ Known(req') /\ seen' \in [Years -> {Absent} \cup Versions]
             /\ UNCHANGED <<old, lifecycle, background>>
  BY <1>4, <1>6, HandlerRewrites
<1>7. ASSUME NEW r \in Requests, NEW y \in AskYears, NEW o \in Overflows, Arrive(r, y, o)
      PROVE  Known(req') /\ UNCHANGED outside
  BY <1>4, <1>7, ArrivalKnown DEF Arrive
<1>8. ASSUME NEW p \in Callers, FlightStep(p)
      PROVE  old' \subseteq Years /\ UNCHANGED <<req, seen, lifecycle, background>>
  BY <1>5, <1>8 DEF FlightStep
<1>9. ASSUME WorkerStep
      PROVE  /\ old' \subseteq Years
             /\ worker' \in {"select", "refresh", "refreshing", "prune", "stopped"}
             /\ queue' \subseteq Years
             /\ UNCHANGED <<seen, req, lifecycle, loaded>>
  BY <1>5, <1>9 DEF WorkerStep, Tick, WorkerCalls, WorkerReturns, WorkerRefreshed, Prune, WorkerStops
<1>10. ASSUME MainStep \/ TimeoutStep
       PROVE  /\ main' \in {"prewarm", "prewarming", "ready", "draining", "waiting", "exited"}
              /\ toPrewarm' \subseteq PrewarmYears
              /\ drained' \in BOOLEAN
              /\ UNCHANGED <<old, seen, req, background>>
  BY <1>5, <1>10 DEF MainStep, PrewarmSkips, PrewarmCalls, PrewarmReturns, Prewarmed, ShutdownReturns,
                     Exit, TimeoutStep, ShutdownTimesOut, WaitTimesOut
<1>11. ASSUME Crash
       PROVE  Known(req')
  <2>1. NoRequest \in Handlers /\ HandlerOK(NoRequest)
    BY DEF HandlerOK, NoRequest, Handlers, HandlerSteps, Answers
  <2> QED
    BY <1>11, <2>1 DEF Crash, Known
<1>12. CASE \E p \in Callers : FlightStep(p)
  BY <1>2, <1>5, <1>8, <1>12 DEF lifecycle, background
<1>13. CASE \E r \in Requests : HandlerStep(r)
  BY <1>5, <1>6, <1>13 DEF lifecycle, background
<1>14. CASE \E r \in Requests, y \in AskYears, o \in Overflows : Arrive(r, y, o)
  BY <1>5, <1>7, <1>14 DEF outside, lifecycle, background
<1>15. CASE WorkerStep
  BY <1>2, <1>5, <1>9, <1>15 DEF lifecycle
<1>16. CASE MapRefresh
  BY <1>2, <1>5, <1>16 DEF MapRefresh, lifecycle
<1>17. CASE MainStep \/ TimeoutStep
  BY <1>2, <1>5, <1>10, <1>17 DEF background
<1>18. CASE Signal
  BY <1>2, <1>5, <1>18 DEF Signal, background
<1>19. CASE Crash
  BY <1>5, <1>11, <1>19 DEF Crash
<1>20. CASE \E y \in Years : AniListPublishes(y) \/ Age(y)
  BY <1>2, <1>5, <1>20 DEF AniListPublishes, Age, outside, lifecycle, background
<1>21. CASE Clear
  BY <1>2, <1>5, <1>21 DEF Clear, lifecycle, background
<1>22. CASE UNCHANGED allVars
  BY <1>2, <1>5, <1>22 DEF allVars, outside, lifecycle, background
<1> QED
  BY <1>12, <1>13, <1>14, <1>15, <1>16, <1>17, <1>18, <1>19, <1>20, <1>21, <1>22 DEF ServiceNext

\* The program starts well.
LEMMA ServiceBegins == ServiceInit => ServiceInv /\ Init
<1>1. Init => OwnerInv
  BY OwnerBegins
<1>2. NoRequest \in Handlers /\ HandlerOK(NoRequest)
  BY DEF HandlerOK, NoRequest, Handlers, HandlerSteps, Answers
<1> QED
  BY <1>1, <1>2 DEF ServiceInit, ServiceInv, ServiceTypeOK, RequestKnown, OwnerInv

\* The inductive invariant of the whole program.
LEMMA ServiceInvariant == ServiceSpec => []ServiceInv
BY ServiceBegins, ServiceStep, PTL DEF ServiceSpec

\* The locals of handlers, workers and run() are always of their types.
THEOREM ServiceTypeCorrect == ServiceSpec => []ServiceTypeOK
<1>1. ServiceInv => ServiceTypeOK
  BY DEF ServiceInv
<1> QED
  BY <1>1, ServiceInvariant, PTL

\* The whole program, with its crashes, prunes, clears and shutdown, is one of the
\* behaviours of FetchFlight: FetchAndStore is used by its callers as modelled there.
THEOREM ServiceImplementsFlights == ServiceSpec => Spec
BY ServiceBegins, StepIsFlightStep, ServiceInvariant, PTL DEF ServiceSpec, Spec
-----------------------------------------------------------------------------
(* 3. Nothing that is read is older than what was read before it.            *)

\* Nobody will read or store anything of year y that is older than v.
Seen(y, v) ==
    /\ v <= upstream[y]
    /\ rows[y] # Absent => v <= rows[y]
    /\ \A p \in Callers : (pc[p] \in {"fetch", "store"} /\ year[p] = y) => v <= since[p]

\* What was seen stays seen, through prunes, clears and restarts too.
LEMMA SeenStays ==
  ASSUME OwnerInv, OwnerInv', VersionInv, [Next]_vars,
         NEW y \in Years, NEW v \in Nat, Seen(y, v)
  PROVE  Seen(y, v)'
<1> USE NoneAssumption, MaxVersionAssumption
    DEF OwnerInv, TypeOK, CallHasYear, OneFlightPerYear, Seen
<1>1. ASSUME NEW p \in Callers, NEW z \in Years, Lead(p, z) \/ Join(p, z)
      PROVE  Seen(y, v)'
  BY <1>1 DEF Lead, Join
<1>2. ASSUME NEW p \in Callers, FetchYear(p) \/ FetchFails(p) \/ StoreFails(p)
      PROVE  Seen(y, v)'
  BY <1>2 DEF FetchYear, FetchFails, StoreFails
<1>3. ASSUME NEW p \in Callers, Store(p)
      PROVE  Seen(y, v)'
  BY <1>3 DEF Store, VersionInv, OwnerReadsForward
<1>4. ASSUME NEW p \in Callers, Close(p) \/ Delete(p)
      PROVE  Seen(y, v)'
  BY <1>4 DEF Close, Delete
<1>5. ASSUME NEW p \in Callers, WaitDone(p) \/ WaitCancelled(p) \/ Return(p)
      PROVE  Seen(y, v)'
  BY <1>5 DEF WaitDone, WaitCancelled, Return
<1>6. ASSUME NEW z \in Years, Publish(z)
      PROVE  Seen(y, v)'
  BY <1>6 DEF Publish
<1>7. ASSUME NEW S \in SUBSET Years, Evict(S)
      PROVE  Seen(y, v)'
  BY <1>7 DEF Evict
<1>8. CASE Cancel \/ Restart
  BY <1>8 DEF Cancel, Restart
<1>9. CASE UNCHANGED vars
  BY <1>9 DEF vars
<1> QED
  BY <1>1, <1>2, <1>3, <1>4, <1>5, <1>6, <1>7, <1>8, <1>9 DEF Next, Call, Step, Environment

\* A row that is read now is as new as any that was seen, and seen itself.
LEMMA RowIsSeen ==
  ASSUME OwnerInv, VersionInv, NEW y \in Years
  PROVE  Seen(y, rows[y]) /\ Seen(y, Absent) /\ rows[y] \in Nat
BY MaxVersionAssumption DEF OwnerInv, TypeOK, CallHasYear, VersionInv, RowsPublished, OwnerReadsForward, Seen

\* The locals of a request are rewritten by its own steps and by a crash only.
LEMMA WhoRewrites ==
  ASSUME [ServiceNext]_allVars
  PROVE  \/ req' = req \/ Crash
         \/ \E q \in Requests, y \in AskYears, o \in Overflows : Arrive(q, y, o)
         \/ \E q \in Requests : HandlerStep(q)
BY DEF ServiceNext, FlightStep, WorkerStep, Tick, WorkerCalls, WorkerReturns, WorkerRefreshed, Prune,
       WorkerStops, MapRefresh, MainStep, PrewarmSkips, PrewarmCalls, PrewarmReturns, Prewarmed,
       ShutdownReturns, Exit, TimeoutStep, ShutdownTimesOut, WaitTimesOut, Signal, AniListPublishes,
       Age, Clear, allVars

\* What a request holds after a step is what it held, or nothing, or the row of its year.
ReadsRow(r) ==
    /\ \/ req'[r].data \in {Absent, req[r].data}
       \/ req[r].ask \in Years /\ req'[r].data = rows[req[r].ask]
    /\ \/ req'[r].prior \in {Absent, req[r].prior}
       \/ req[r].ask - 1 \in Years /\ req'[r].prior = rows[req[r].ask - 1]

\* A step of a handler keeps what it holds, or reads one row.
LEMMA HandlerReads ==
  ASSUME ServiceInv, NEW q \in Requests, HandlerStep(q), NEW r \in Requests
  PROVE  ReadsRow(r)
<1> DEFINE Data == \/ req'[r].data \in {Absent, req[r].data}
                   \/ req[r].ask \in Years /\ req'[r].data = rows[req[r].ask]
           Prior == \/ req'[r].prior \in {Absent, req[r].prior}
                    \/ req[r].ask - 1 \in Years /\ req'[r].prior = rows[req[r].ask - 1]
<1>0. SUFFICES Data /\ Prior
  BY DEF ReadsRow
<1>1. req \in [Requests -> Handlers]
  BY DEF ServiceInv, ServiceTypeOK
<1>2. req[q].step \notin {"idle", "answered"} => req[q].ask \in Years /\ req[q].ask \in AskYears
  BY YearsAssumption DEF ServiceInv, RequestKnown, HandlerOK
<1>3. \A s : Goto(q, s) => Data /\ Prior
  BY <1>1 DEF Goto, Handlers
<1>4. \A a, F : Respond(q, a, F) => Data /\ Prior
  BY <1>1 DEF Respond, Handlers
<1>5. Lookup(q) \/ Reread(q) => (GetYearHits(q) => Data /\ Prior)
  BY <1>1, <1>2 DEF GetYearHits, Handlers, Lookup, Reread, At
<1>6. CASE Process(q)
  <2> DEFINE prior == req[q].ask - 1
             Reads == IF ~req[q].overflow THEN {<<Absent, {}>>}
                      ELSE {<<rows[prior], {}>>, <<Absent, {prior}>>}
  <2>1. PICK read \in Reads :
           \/ RespondList(q, read[1], read[2])
           \/ req' = [req EXCEPT ![q].step = "refresh", ![q].prior = read[1],
                                 ![q].trouble = @ \cup read[2]]
    BY <1>6 DEF Process
  <2>2. read[1] = Absent \/ (prior \in Years /\ read[1] = rows[prior])
    <3>1. req[q].overflow => prior \in Years
      BY <1>2, <1>6, PriorYear DEF Process, At
    <3> QED
      BY <2>1, <3>1
  <2>3. req'[r].data = req[r].data /\ (q # r => req'[r].prior = req[r].prior)
    BY <1>1, <2>1 DEF RespondList, Handlers
  <2>4. req'[q].prior = read[1]
    BY <1>1, <2>1 DEF RespondList, Handlers
  <2> QED
    BY <2>2, <2>3, <2>4
<1>7. PriorBackfilled(q) => Data /\ Prior
  BY <1>1 DEF PriorBackfilled, Handlers
<1>8. Refreshed(q) => Data /\ Prior
  BY <1>1 DEF Refreshed, RespondList, Handlers
<1>9. Finish(q) => Data /\ Prior
  BY <1>1 DEF Finish, NoRequest
<1> HIDE DEF Data, Prior
<1>10. CASE Lookup(q) \/ Reread(q)
  BY <1>3, <1>4, <1>5, <1>10 DEF Lookup, Reread
<1>11. CASE HandlerCalls(q) \/ PriorCheck(q) \/ Backfilled(q)
  BY <1>3, <1>4, <1>11 DEF HandlerCalls, PriorCheck, Backfilled
<1> QED
  BY <1>6, <1>7, <1>8, <1>9, <1>10, <1>11 DEF HandlerStep

\* A step leaves what was seen of a year as it is, or sees its row.
LEMMA SeenIsRead ==
  ASSUME ServiceInv, [ServiceNext]_allVars, NEW y \in Years
  PROVE  seen'[y] \in {seen[y], rows[y]}
<1>1. seen \in [Years -> {Absent} \cup Versions]
  BY DEF ServiceInv, ServiceTypeOK
<1>2. ASSUME NEW r \in Requests, HandlerStep(r)
      PROVE  seen'[y] \in {seen[y], rows[y]}
  BY <1>1, <1>2, HandlerSees DEF See
<1>3. seen' = seen \/ \E r \in Requests : HandlerStep(r)
  BY DEF ServiceNext, FlightStep, WorkerStep, Tick, WorkerCalls, WorkerReturns, WorkerRefreshed, Prune,
         WorkerStops, MapRefresh, MainStep, PrewarmSkips, PrewarmCalls, PrewarmReturns, Prewarmed,
         ShutdownReturns, Exit, TimeoutStep, ShutdownTimesOut, WaitTimesOut, Signal, AniListPublishes,
         Age, Clear, Crash, Arrive, outside, allVars
<1> QED
  BY <1>2, <1>3

\* What requests have read was seen: no row and no fetch in progress is older.
SeenInv == \A y \in Years : Seen(y, seen[y])

LEMMA SeenInvariant == ServiceSpec => []SeenInv
<1>1. ServiceInit => SeenInv
  <2> SUFFICES ASSUME ServiceInit, NEW y \in Years PROVE Seen(y, seen[y])
    BY DEF SeenInv
  <2>1. upstream[y] = 1 /\ rows[y] \in {0, 1} /\ seen[y] = Absent
    BY DEF ServiceInit, Init
  <2>2. \A p \in Callers : pc[p] = "idle"
    BY DEF ServiceInit, Init, MemoryInit
  <2> QED
    BY <2>1, <2>2 DEF Seen
<1>2. ASSUME SeenInv, ServiceInv, ServiceInv', VersionInv, [ServiceNext]_allVars
      PROVE  SeenInv'
  <2> SUFFICES ASSUME NEW y \in Years PROVE Seen(y, seen[y])'
    BY DEF SeenInv
  <2>1. OwnerInv /\ OwnerInv' /\ [Next]_vars
    BY <1>2, StepIsFlightStep DEF ServiceInv
  <2>2. PICK v \in Nat : v = seen'[y]
    BY <1>2, MaxVersionAssumption DEF ServiceInv, ServiceTypeOK
  <2>3. Seen(y, v)
    BY <1>2, <2>1, <2>2, SeenIsRead, RowIsSeen DEF SeenInv
  <2>4. Seen(y, v)'
    BY <1>2, <2>1, <2>3, SeenStays
  <2> QED
    BY <2>2, <2>4 DEF Seen
<1> QED
  BY <1>1, <1>2, ServiceInvariant, ServiceImplementsFlights, VersionInvariant, PTL DEF ServiceSpec

\* Whatever handleList reads from the cache, of the year that is asked for or of the
\* one before it, is at least as new as all that was read of that year before, for any
\* number of years, requests and versions.
THEOREM ReadsOnlyAdvance == ServiceSpec => ReadsNeverGoBack
<1> DEFINE Forward == \A r \in Requests : LET y == req[r].ask IN
             /\ (req[r].data = Absent /\ req'[r].data # Absent) => req'[r].data >= seen[y]
             /\ (req[r].prior = Absent /\ req'[r].prior # Absent) =>
                   req'[r].prior >= seen[y - 1]
<1>1. ASSUME ServiceInv, ServiceInv', SeenInv, [ServiceNext]_allVars
      PROVE  Forward
  <2> SUFFICES ASSUME NEW r \in Requests
               PROVE  LET y == req[r].ask IN
                        /\ (req[r].data = Absent /\ req'[r].data # Absent) => req'[r].data >= seen[y]
                        /\ (req[r].prior = Absent /\ req'[r].prior # Absent) =>
                              req'[r].prior >= seen[y - 1]
    OBVIOUS
  <2>1. req \in [Requests -> Handlers]
    BY <1>1 DEF ServiceInv, ServiceTypeOK
  <2>2. ASSUME NEW y \in Years, rows[y] # Absent
        PROVE  rows[y] >= seen[y]
    <3>1. rows[y] \in Nat /\ seen[y] \in Nat
      BY <1>1, MaxVersionAssumption DEF ServiceInv, ServiceTypeOK, OwnerInv, TypeOK
    <3> QED
      BY <1>1, <2>2, <3>1 DEF SeenInv, Seen
  <2>3. CASE req' = req
    BY <2>3
  <2>4. CASE Crash
    BY <2>4 DEF Crash, NoRequest
  <2>5. ASSUME NEW q \in Requests, NEW y \in AskYears, NEW o \in Overflows, Arrive(q, y, o)
        PROVE  req'[r].data = req[r].data /\ req'[r].prior = req[r].prior
    BY <2>1, <2>5 DEF Arrive, Handlers
  <2>6. ASSUME NEW q \in Requests, HandlerStep(q)
        PROVE  ReadsRow(r)
    BY <1>1, <2>6, HandlerReads
  <2> QED
    BY <1>1, <2>2, <2>3, <2>4, <2>5, <2>6, WhoRewrites DEF ReadsRow
<1>2. ServiceInv /\ ServiceInv' /\ SeenInv /\ [ServiceNext]_allVars => [Forward]_allVars
  BY <1>1
<1> QED
  BY <1>2, ServiceInvariant, SeenInvariant, PTL DEF ServiceSpec, ReadsNeverGoBack
-----------------------------------------------------------------------------
(* 4. What is still going on when the process exits.                         *)

\* Only one who waits for a call is in one.
CallPlace ==
    /\ \A r \in Requests :
          pc[r] # "idle" => req[r].step \in {"backfilling", "backfillingPrior", "refreshing"}
    /\ pc[StaleWorker] # "idle" => worker = "refreshing"
    /\ pc[Main] # "idle" => main = "prewarming"

\* Once Shutdown has seen every request answered, none arrives any more.
DrainedStays ==
    drained => main \in {"waiting", "exited"} /\ \A r \in Requests : At(r, "idle")

\* Steps of a call, its begin and its end disturb no other caller.
LEMMA CallIsLocal ==
  ASSUME TypeOK, NEW p \in Callers
  PROVE  /\ Step(p) => pc[p] # "idle" /\ \A q \in Callers \ {p} : pc'[q] = pc[q]
         /\ \A y : Call(p, y) => \A q \in Callers \ {p} : pc'[q] = pc[q]
         /\ Return(p) => pc' = pc /\ pc[p] = "idle"
<1>1. Step(p) => pc[p] # "idle" /\ \A q \in Callers \ {p} : pc'[q] = pc[q]
  BY DEF TypeOK, Step, FetchYear, FetchFails, Store, StoreFails, Close, Delete, WaitDone, WaitCancelled
<1>2. \A y : Call(p, y) => \A q \in Callers \ {p} : pc'[q] = pc[q]
  BY DEF TypeOK, Call, Lead, Join
<1>3. Return(p) => pc' = pc /\ pc[p] = "idle"
  BY DEF Return
<1> QED
  BY <1>1, <1>2, <1>3

\* A handler's own steps.
LEMMA HandlerPlace ==
  ASSUME ServiceInv, CallPlace, NEW r \in Requests, HandlerStep(r)
  PROVE  /\ ~At(r, "idle")
         /\ \A q \in Callers \ {r} : pc'[q] = pc[q]
         /\ \A q \in Requests \ {r} : req'[q] = req[q]
         /\ pc'[r] # "idle" => req'[r].step \in {"backfilling", "backfillingPrior", "refreshing"}
         /\ UNCHANGED <<main, worker, drained>>
<1>1. TypeOK /\ r \in Callers /\ req \in [Requests -> Handlers] /\ req[r] \in Handlers
  BY DEF ServiceInv, OwnerInv, ServiceTypeOK
<1>2. \A q \in Requests \ {r} : req'[q] = req[q]
  BY <1>1, HandlerRewrites
<1>3. UNCHANGED <<main, worker, drained>>
  BY HandlerRewrites DEF lifecycle, background
<1>4. CASE HandlerCalls(r)
  <2>1. \A q \in Callers \ {r} : pc'[q] = pc[q]
    BY <1>1, <1>4, CallIsLocal DEF HandlerCalls
  <2>2. req'[r].step \in {"backfilling", "backfillingPrior", "refreshing"} /\ ~At(r, "idle")
    BY <1>1, <1>4 DEF HandlerCalls, Goto, At, Handlers
  <2> QED
    BY <1>2, <1>3, <2>1, <2>2
<1>5. CASE Backfilled(r) \/ PriorBackfilled(r) \/ Refreshed(r)
  <2>1. Return(r) /\ ~At(r, "idle")
    BY <1>5 DEF Backfilled, PriorBackfilled, Refreshed, At
  <2>2. pc' = pc /\ pc[r] = "idle"
    BY <1>1, <2>1, CallIsLocal
  <2> QED
    BY <1>2, <1>3, <2>1, <2>2
<1>6. CASE Lookup(r) \/ Reread(r) \/ PriorCheck(r) \/ Process(r) \/ Finish(r)
  <2>1. req[r].step \in {"lookup", "reread", "prior", "process", "answered"} /\ pc' = pc
    BY <1>6 DEF Lookup, Reread, PriorCheck, Process, Finish, At, vars
  <2>2. pc[r] = "idle" /\ ~At(r, "idle")
    BY <2>1 DEF CallPlace, At
  <2> QED
    BY <1>2, <1>3, <2>1, <2>2
<1> QED
  BY <1>4, <1>5, <1>6 DEF HandlerStep

LEMMA PlaceStep ==
  ASSUME ServiceInv, CallPlace, DrainedStays, [ServiceNext]_allVars
  PROVE  CallPlace' /\ DrainedStays'
<1> USE DEF CallPlace, DrainedStays, At
<1>0. /\ TypeOK /\ Main \in Callers /\ StaleWorker \in Callers /\ Main # StaleWorker
      /\ Main \notin Requests /\ StaleWorker \notin Requests /\ Requests \subseteq Callers
      /\ req \in [Requests -> Handlers]
  BY WorkersAssumption DEF ServiceInv, OwnerInv, ServiceTypeOK
<1>1. ASSUME NEW p \in Callers, FlightStep(p)
      PROVE  CallPlace' /\ DrainedStays'
  <2>1. \A q \in Callers : pc'[q] # "idle" => pc[q] # "idle"
    BY <1>0, <1>1, CallIsLocal DEF FlightStep
  <2> QED
    BY <1>0, <1>1, <2>1 DEF FlightStep, lifecycle, background
<1>2. ASSUME NEW r \in Requests, HandlerStep(r)
      PROVE  CallPlace' /\ DrainedStays'
  BY <1>0, <1>2, HandlerPlace
<1>3. ASSUME NEW r \in Requests, NEW y \in AskYears, NEW o \in Overflows, Arrive(r, y, o)
      PROVE  CallPlace' /\ DrainedStays'
  <2>1. /\ Listening /\ req[r].step = "idle" /\ pc' = pc
        /\ \A q \in Requests \ {r} : req'[q] = req[q]
        /\ UNCHANGED <<main, worker, drained>>
    BY <1>0, <1>3 DEF Arrive, vars, outside, lifecycle, background
  <2> QED
    BY <1>0, <2>1 DEF Listening
<1>4. CASE WorkerStep
  <2>1. UNCHANGED <<req, main, drained>>
    BY <1>4 DEF WorkerStep, Tick, WorkerCalls, WorkerReturns, WorkerRefreshed, Prune, WorkerStops, lifecycle
  <2>2. CASE WorkerCalls
    <3>1. \A q \in Callers \ {StaleWorker} : pc'[q] = pc[q]
      BY <1>0, <2>2, CallIsLocal DEF WorkerCalls
    <3> QED
      BY <1>0, <2>1, <2>2, <3>1 DEF WorkerCalls
  <2>3. CASE WorkerReturns
    <3>1. pc' = pc /\ pc[StaleWorker] = "idle"
      BY <1>0, <2>3, CallIsLocal DEF WorkerReturns
    <3> QED
      BY <1>0, <2>1, <3>1
  <2>4. CASE Tick \/ WorkerRefreshed \/ Prune \/ WorkerStops
    <3>1. pc' = pc /\ worker # "refreshing"
      BY <2>4 DEF Tick, WorkerRefreshed, Prune, WorkerStops, vars, Evict
    <3> QED
      BY <1>0, <2>1, <3>1
  <2> QED
    BY <1>4, <2>2, <2>3, <2>4 DEF WorkerStep
<1>5. CASE MainStep \/ TimeoutStep
  <2>1. UNCHANGED <<req, worker>>
    BY <1>5 DEF MainStep, PrewarmSkips, PrewarmCalls, PrewarmReturns, Prewarmed, ShutdownReturns, Exit,
                TimeoutStep, ShutdownTimesOut, WaitTimesOut, background
  <2>2. CASE PrewarmCalls
    <3>1. \A q \in Callers \ {Main} : pc'[q] = pc[q]
      BY <1>0, <2>2, CallIsLocal DEF PrewarmCalls
    <3> QED
      BY <1>0, <2>1, <2>2, <3>1 DEF PrewarmCalls
  <2>3. CASE PrewarmReturns
    <3>1. pc' = pc /\ pc[Main] = "idle"
      BY <1>0, <2>3, CallIsLocal DEF PrewarmReturns
    <3> QED
      BY <1>0, <2>1, <2>3, <3>1 DEF PrewarmReturns
  <2>4. CASE PrewarmSkips \/ Prewarmed
    BY <1>0, <2>1, <2>4 DEF PrewarmSkips, Prewarmed, vars
  <2>5. CASE ShutdownReturns
    BY <1>0, <2>1, <2>5 DEF ShutdownReturns, vars
  <2>6. CASE Exit
    BY <1>0, <2>1, <2>6 DEF Exit, vars
  <2>7. CASE TimeoutStep
    BY <1>0, <2>1, <2>7 DEF TimeoutStep, ShutdownTimesOut, WaitTimesOut, vars
  <2> QED
    BY <1>5, <2>2, <2>3, <2>4, <2>5, <2>6, <2>7 DEF MainStep
<1>6. CASE Signal
  BY <1>0, <1>6 DEF Signal, Cancel, background
<1>7. CASE Crash
  BY <1>0, <1>7 DEF Crash, Restart, MemoryInit, NoRequest
<1>8. CASE MapRefresh \/ Clear \/ \E y \in Years : AniListPublishes(y) \/ Age(y)
  <2>1. UNCHANGED <<pc, req, main, worker, drained>>
    BY <1>8 DEF MapRefresh, Clear, AniListPublishes, Age, Evict, Publish, vars, outside, lifecycle, background
  <2> QED
    BY <2>1
<1>9. CASE UNCHANGED allVars
  BY <1>9 DEF allVars, vars, outside, lifecycle, background
<1> QED
  BY <1>1, <1>2, <1>3, <1>4, <1>5, <1>6, <1>7, <1>8, <1>9 DEF ServiceNext

\* An exit after a full shutdown leaves no request unanswered, and no flight in the map
\* if the worker has stopped, for any number of years and requests.
THEOREM ExitIsClean == ServiceSpec => []CleanExit
<1>1. ServiceInit => CallPlace /\ DrainedStays
  <2> SUFFICES ASSUME ServiceInit PROVE CallPlace /\ DrainedStays
    OBVIOUS
  <2>1. \A p \in Callers : pc[p] = "idle"
    BY DEF ServiceInit, Init, MemoryInit
  <2> QED
    BY <2>1, WorkersAssumption DEF ServiceInit, CallPlace, DrainedStays
<1>2. ServiceInv /\ CallPlace /\ DrainedStays => CleanExit
  <2> SUFFICES ASSUME ServiceInv, CallPlace, DrainedStays, main = "exited", drained
               PROVE  /\ \A r \in Requests : At(r, "idle")
                      /\ worker = "stopped" => \A y \in Years : inflight[y] = None
    BY DEF CleanExit
  <2>1. \A r \in Requests : req[r].step = "idle"
    BY DEF DrainedStays, At
  <2>2. ASSUME worker = "stopped", NEW y \in Years, inflight[y] # None
        PROVE  FALSE
    <3>1. inflight[y].owner \in Callers /\ pc[inflight[y].owner] \in OwnerSteps
      BY <2>2 DEF ServiceInv, OwnerInv, OneFlightPerYear, TypeOK
    <3>2. \A p \in Callers : pc[p] = "idle"
      BY <2>1, <2>2, WorkersAssumption DEF CallPlace
    <3> QED
      BY <3>1, <3>2
  <2> QED
    BY <2>1, <2>2 DEF At
<1> QED
  BY <1>1, <1>2, PlaceStep, ServiceInvariant, PTL DEF ServiceSpec
-----------------------------------------------------------------------------
(* 5. Why a list may be empty, or be without the year before it.             *)

\* What a handler waits for is the year it asked for; a year whose fetch it saw succeed
\* was stored; and when it comes to Process, the year before was looked for.
ReadOK(r) ==
    /\ At(r, "backfilling") => year[r] = req[r].ask
    /\ At(r, "backfillingPrior") => year[r] = req[r].ask - 1
    /\ At(r, "reread") => Stored(req[r].ask)
    /\ At(r, "process") /\ req[r].overflow =>
          Stored(req[r].ask - 1) \/ req[r].ask - 1 \in req[r].trouble

\* A stored row is there, or was removed, for ever after.
LEMMA StoredStays ==
  ASSUME OwnerInv, VersionInv, [Next]_vars, NEW y \in Years, Stored(y)
  PROVE  Stored(y)'
<1> USE MaxVersionAssumption DEF OwnerInv, TypeOK, Stored
<1>1. ASSUME NEW p \in Callers, Store(p)
      PROVE  Stored(y)'
  BY <1>1 DEF Store, CallHasYear, VersionInv, OwnerReadsForward
<1>2. ASSUME NEW S \in SUBSET Years, Evict(S)
      PROVE  Stored(y)'
  BY <1>2 DEF Evict
<1>3. CASE UNCHANGED <<rows, evicted>>
  BY <1>3
<1>4. \/ \E p \in Callers : Store(p)
      \/ \E S \in SUBSET Years : Evict(S)
      \/ UNCHANGED <<rows, evicted>>
  BY DEF Next, Call, Step, Environment, vars, Lead, Join, FetchYear, FetchFails,
         StoreFails, Close, Delete, WaitDone, WaitCancelled, Return, Publish, Cancel, Restart
<1> QED
  BY <1>1, <1>2, <1>3, <1>4

\* A handler that is not concerned by a step keeps what it knows.
LEMMA ReadKept ==
  ASSUME ServiceInv, VersionInv, [Next]_vars, NEW r \in Requests, ReadOK(r),
         req'[r] = req[r], year'[r] = year[r]
  PROVE  ReadOK(r)'
<1>1. OwnerInv
  BY DEF ServiceInv
<1>2. ~At(r, "idle") /\ ~At(r, "answered") => req[r].ask \in AskYears /\ req[r].ask \in Years
  BY YearsAssumption DEF At, ServiceInv, RequestKnown, HandlerOK
<1>3. At(r, "process") /\ req[r].overflow => req[r].ask - 1 \in Years
  BY <1>2, PriorYear DEF At
<1>4. At(r, "reread") => Stored(req[r].ask)'
  <2>1. At(r, "reread") => Stored(req[r].ask) /\ req[r].ask \in Years
    BY <1>2 DEF ReadOK, At
  <2>2. \A y \in Years : Stored(y) => Stored(y)'
    BY <1>1, StoredStays
  <2> QED
    BY <2>1, <2>2 DEF Stored
<1>5. At(r, "process") /\ req[r].overflow =>
        Stored(req[r].ask - 1)' \/ req[r].ask - 1 \in req[r].trouble
  <2>1. \A y \in Years : Stored(y) => Stored(y)'
    BY <1>1, StoredStays
  <2> QED
    BY <1>3, <2>1 DEF ReadOK, Stored
<1> QED
  BY <1>4, <1>5 DEF ReadOK, At, Stored

\* Whose argument a step changes.
LEMMA YearIsLocal ==
  ASSUME TypeOK, NEW p \in Callers
  PROVE  /\ Step(p) => year' = year
         /\ \A y : Call(p, y) => year' = [year EXCEPT ![p] = y] /\ UNCHANGED <<rows, evicted>>
         /\ Return(p) => year' = [year EXCEPT ![p] = None] /\ UNCHANGED <<rows, evicted>>
BY DEF Step, FetchYear, FetchFails, Store, StoreFails, Close, Delete, WaitDone, WaitCancelled,
       Call, Lead, Join, Return

\* Process writes the answer, or keeps what it found until the refresh is over.
LEMMA ProcessWrites ==
  ASSUME NEW r \in Requests, Process(r)
  PROVE  \E p, F : \/ RespondList(r, p, F)
                   \/ req' = [req EXCEPT ![r].step = "refresh", ![r].prior = p, ![r].trouble = F]
<1>1. PICK read : \/ RespondList(r, read[1], read[2])
                  \/ req' = [req EXCEPT ![r].step = "refresh", ![r].prior = read[1],
                                        ![r].trouble = @ \cup read[2]]
  BY DEF Process
<1> QED
  BY <1>1

\* A handler's own steps.
LEMMA ReadHandler ==
  ASSUME ServiceInv, NilMeansStored, NEW r \in Requests, ReadOK(r), HandlerStep(r)
  PROVE  ReadOK(r)' /\ \A q \in Callers \ {r} : year'[q] = year[q]
<1> DEFINE Others == \A q \in Callers \ {r} : year'[q] = year[q]
<1>1. /\ TypeOK /\ r \in Callers /\ req \in [Requests -> Handlers] /\ req[r] \in Handlers
      /\ year \in [Callers -> Years \cup {None}]
  BY DEF ServiceInv, OwnerInv, ServiceTypeOK, TypeOK
<1>2. CASE HandlerCalls(r)
  <2>1. /\ At(r, "backfill") => Call(r, req[r].ask) /\ Goto(r, "backfilling")
        /\ At(r, "backfillPrior") => Call(r, req[r].ask - 1) /\ Goto(r, "backfillingPrior")
        /\ At(r, "refresh") => Call(r, req[r].ask) /\ Goto(r, "refreshing")
        /\ At(r, "backfill") \/ At(r, "backfillPrior") \/ At(r, "refresh")
    BY <1>2 DEF HandlerCalls, At
  <2>2. Others
    BY <1>1, <2>1, YearIsLocal
  <2>3. CASE At(r, "backfill")
    <3>1. year'[r] = req[r].ask /\ req'[r].step = "backfilling" /\ req'[r].ask = req[r].ask
      BY <1>1, <2>1, <2>3, YearIsLocal DEF Goto, Handlers
    <3> QED
      BY <2>2, <3>1 DEF ReadOK, At
  <2>4. CASE At(r, "backfillPrior")
    <3>1. year'[r] = req[r].ask - 1 /\ req'[r].step = "backfillingPrior" /\ req'[r].ask = req[r].ask
      BY <1>1, <2>1, <2>4, YearIsLocal DEF Goto, Handlers
    <3> QED
      BY <2>2, <3>1 DEF ReadOK, At
  <2>5. CASE At(r, "refresh")
    <3>1. req'[r].step = "refreshing"
      BY <1>1, <2>1, <2>5 DEF Goto, Handlers
    <3> QED
      BY <2>2, <3>1 DEF ReadOK, At
  <2> QED
    BY <2>1, <2>3, <2>4, <2>5
<1>3. CASE Backfilled(r)
  <2>1. Others /\ UNCHANGED <<rows, evicted>>
    BY <1>1, <1>3, YearIsLocal DEF Backfilled
  <2>2. year[r] = req[r].ask /\ pc[r] = "idle"
    BY <1>3 DEF Backfilled, ReadOK, Return
  <2>3. CASE err[r] = "ok"
    <3>1. req'[r].step = "reread" /\ req'[r].ask = req[r].ask
      BY <1>1, <1>3, <2>3 DEF Backfilled, Goto, Handlers
    <3>2. Stored(req[r].ask)
      BY <1>1, <2>2, <2>3 DEF NilMeansStored, Stored
    <3> QED
      BY <2>1, <3>1, <3>2 DEF ReadOK, At, Stored
  <2>4. CASE err[r] # "ok"
    <3>1. req'[r].step = "answered"
      BY <1>1, <1>3, <2>4 DEF Backfilled, Respond, Handlers
    <3> QED
      BY <2>1, <3>1 DEF ReadOK, At
  <2> QED
    BY <2>3, <2>4
<1>4. CASE PriorBackfilled(r)
  <2>1. Others /\ UNCHANGED <<rows, evicted>>
    BY <1>1, <1>4, YearIsLocal DEF PriorBackfilled
  <2>2. year[r] = req[r].ask - 1 /\ pc[r] = "idle"
    BY <1>4 DEF PriorBackfilled, ReadOK, Return
  <2>3. /\ req'[r].step = "process" /\ req'[r].ask = req[r].ask
        /\ req'[r].trouble = IF err[r] = "ok" THEN req[r].trouble
                                              ELSE req[r].trouble \cup {req[r].ask - 1}
    BY <1>1, <1>4 DEF PriorBackfilled, Handlers
  <2>4. Stored(req[r].ask - 1) \/ req[r].ask - 1 \in req'[r].trouble
    BY <1>1, <2>2, <2>3 DEF NilMeansStored, Stored
  <2> QED
    BY <2>1, <2>3, <2>4 DEF ReadOK, At, Stored
<1>5. CASE Refreshed(r)
  <2>1. Others
    BY <1>1, <1>5, YearIsLocal DEF Refreshed
  <2>2. req'[r].step = "answered"
    BY <1>1, <1>5 DEF Refreshed, RespondList, Handlers
  <2> QED
    BY <2>1, <2>2 DEF ReadOK, At
<1>6. CASE PriorCheck(r)
  <2>1. Others /\ UNCHANGED <<rows, evicted>>
    BY <1>6 DEF PriorCheck, vars
  <2>2. CASE rows[req[r].ask - 1] # Absent /\ Goto(r, "process")
    <3>1. req'[r].step = "process" /\ req'[r].ask = req[r].ask
      BY <1>1, <2>2 DEF Goto, Handlers
    <3> QED
      BY <2>1, <2>2, <3>1 DEF ReadOK, At, Stored
  <2>3. CASE Goto(r, "backfillPrior")
    <3>1. req'[r].step = "backfillPrior"
      BY <1>1, <2>3 DEF Goto, Handlers
    <3> QED
      BY <2>1, <3>1 DEF ReadOK, At
  <2> QED
    BY <1>6, <2>2, <2>3 DEF PriorCheck
<1>7. CASE Lookup(r) \/ Reread(r)
  <2>1. Others
    BY <1>7 DEF Lookup, Reread, vars
  <2>2. GetYearHits(r) \/ Goto(r, "backfill") \/ \E F : Respond(r, "empty", F)
    BY <1>7 DEF Lookup, Reread
  <2>3. \/ req'[r].step \in {"prior", "backfill", "answered"}
        \/ req'[r].step = "process" /\ ~req'[r].overflow
    <3>1. CASE GetYearHits(r)
      BY <1>1, <3>1 DEF GetYearHits, Handlers
    <3>2. CASE Goto(r, "backfill")
      BY <1>1, <3>2 DEF Goto, Handlers
    <3>3. ASSUME NEW F, Respond(r, "empty", F)
          PROVE  req'[r].step = "answered"
      BY <1>1, <3>3 DEF Respond, Handlers
    <3> QED
      BY <2>2, <3>1, <3>2, <3>3
  <2> QED
    BY <2>1, <2>3 DEF ReadOK, At
<1>8. CASE Process(r) \/ Finish(r)
  <2>1. Others
    BY <1>8 DEF Process, Finish, vars
  <2>2. req'[r].step \in {"answered", "refresh", "idle"}
    <3>1. CASE Process(r)
      <4>1. PICK p, F : RespondList(r, p, F) \/
                        req' = [req EXCEPT ![r].step = "refresh", ![r].prior = p, ![r].trouble = F]
        BY <3>1, ProcessWrites
      <4> QED
        BY <1>1, <4>1 DEF RespondList, Handlers
    <3>2. CASE Finish(r)
      BY <1>1, <3>2 DEF Finish, NoRequest
    <3> QED
      BY <1>8, <3>1, <3>2
  <2> QED
    BY <2>1, <2>2 DEF ReadOK, At
<1> QED
  BY <1>2, <1>3, <1>4, <1>5, <1>6, <1>7, <1>8 DEF HandlerStep

\* And so does the whole program.
LEMMA ReadStep ==
  ASSUME ServiceInv, VersionInv, NilMeansStored, [ServiceNext]_allVars,
         \A r \in Requests : ReadOK(r)
  PROVE  \A r \in Requests : ReadOK(r)'
<1>0. /\ TypeOK /\ [Next]_vars /\ Requests \subseteq Callers
      /\ Main \in Callers /\ StaleWorker \in Callers
      /\ Main \notin Requests /\ StaleWorker \notin Requests
      /\ req \in [Requests -> Handlers]
  BY StepIsFlightStep, WorkersAssumption DEF ServiceInv, OwnerInv, ServiceTypeOK
<1>1. SUFFICES ASSUME NEW r \in Requests
               PROVE  ReadOK(r)'
  OBVIOUS
<1>2. SUFFICES ASSUME ~(req'[r] = req[r] /\ year'[r] = year[r])
               PROVE  ReadOK(r)'
  BY <1>0, ReadKept
<1>3. ASSUME NEW p \in Callers, FlightStep(p)
      PROVE  FALSE
  BY <1>0, <1>2, <1>3, YearIsLocal DEF FlightStep
<1>4. ASSUME NEW q \in Requests, HandlerStep(q)
      PROVE  ReadOK(r)'
  <2>1. CASE q = r
    BY <1>4, <2>1, ReadHandler
  <2>2. CASE q # r
    <3>1. req'[r] = req[r]
      BY <1>0, <1>4, <2>2, HandlerRewrites
    <3>2. year'[r] = year[r]
      BY <1>0, <1>4, <2>2, ReadHandler
    <3> QED
      BY <1>2, <3>1, <3>2
  <2> QED
    BY <2>1, <2>2
<1>5. ASSUME NEW q \in Requests, NEW y \in AskYears, NEW o \in Overflows, Arrive(q, y, o)
      PROVE  ReadOK(r)'
  <2>1. UNCHANGED year /\ (q # r => req'[r] = req[r])
    BY <1>0, <1>5 DEF Arrive, vars
  <2>2. req'[q].step \in {"answered", "lookup"}
    <3>1. PICK s \in {<<"answered", "rejected">>, <<"answered", "unavailable">>, <<"lookup", "none">>} :
             req' = [req EXCEPT ![q].step = s[1], ![q].answer = s[2], ![q].ask = y, ![q].overflow = o]
      BY <1>5 DEF Arrive
    <3> QED
      BY <1>0, <3>1 DEF Handlers
  <2> QED
    BY <1>2, <2>1, <2>2 DEF ReadOK, At
<1>6. CASE WorkerStep
  <2>1. UNCHANGED req
    BY <1>6 DEF WorkerStep, Tick, WorkerCalls, WorkerReturns, WorkerRefreshed, Prune, WorkerStops
  <2>2. UNCHANGED year \/ Return(StaleWorker) \/ \E y : Call(StaleWorker, y)
    BY <1>6 DEF WorkerStep, Tick, WorkerCalls, WorkerReturns, WorkerRefreshed, Prune, WorkerStops,
                Evict, vars
  <2>3. year'[r] = year[r]
    BY <1>0, <2>2, YearIsLocal DEF TypeOK
  <2> QED
    BY <1>2, <2>1, <2>3
<1>7. CASE MainStep \/ TimeoutStep
  <2>1. UNCHANGED req
    BY <1>7 DEF MainStep, PrewarmSkips, PrewarmCalls, PrewarmReturns, Prewarmed, ShutdownReturns, Exit,
                TimeoutStep, ShutdownTimesOut, WaitTimesOut
  <2>2. UNCHANGED year \/ Return(Main) \/ \E y : Call(Main, y)
    BY <1>7 DEF MainStep, PrewarmSkips, PrewarmCalls, PrewarmReturns, Prewarmed, ShutdownReturns,
                Exit, TimeoutStep, ShutdownTimesOut, WaitTimesOut, vars
  <2>3. year'[r] = year[r]
    BY <1>0, <2>2, YearIsLocal DEF TypeOK
  <2> QED
    BY <1>2, <2>1, <2>3
<1>8. CASE Crash
  BY <1>8 DEF Crash, NoRequest, ReadOK, At
<1>9. CASE Signal \/ MapRefresh \/ Clear \/ \E y \in Years : AniListPublishes(y) \/ Age(y)
  <2>1. UNCHANGED <<year, req>>
    BY <1>9 DEF Signal, MapRefresh, Clear, AniListPublishes, Age, Cancel, Evict, Publish, vars, outside
  <2> QED
    BY <1>2, <2>1
<1>10. CASE UNCHANGED allVars
  BY <1>2, <1>10 DEF allVars, vars
<1> QED
  BY <1>3, <1>4, <1>5, <1>6, <1>7, <1>8, <1>9, <1>10 DEF ServiceNext

ReadInv == \A r \in Requests : ReadOK(r)

\* What every reachable state of the program has for the two theorems below.
LEMMA ReadInvariant == ServiceSpec => []ReadInv
<1>1. ServiceInit => ReadInv
  BY DEF ServiceInit, NoRequest, ReadInv, ReadOK, At
<1>2. ServiceInv /\ VersionInv /\ NilMeansStored /\ ReadInv /\ [ServiceNext]_allVars => ReadInv'
  BY ReadStep DEF ReadInv
<1> QED
  BY <1>1, <1>2, ServiceInvariant, ServiceImplementsFlights, VersionInvariant, NilIsStored, PTL
     DEF ServiceSpec

\* An empty list always has one of its two causes, whatever the other requests, the
\* workers, the prune and the crashes do.
THEOREM EmptyHasCause == ServiceSpec => EmptyExplained
<1> DEFINE Explained == \A r \in Requests : LET y == req[r].ask IN
             (req[r].answer = "none" /\ req'[r].answer = "empty") =>
                y \in req'[r].trouble \/ evicted[y]
<1>1. ASSUME ServiceInv, ReadInv, [ServiceNext]_allVars
      PROVE  Explained
  <2> SUFFICES ASSUME NEW r \in Requests, req[r].answer = "none", req'[r].answer = "empty"
               PROVE  req[r].ask \in req'[r].trouble \/ evicted[req[r].ask]
    OBVIOUS
  <2>1. /\ req \in [Requests -> Handlers] /\ req[r] \in Handlers /\ req'[r] # req[r]
    BY <1>1 DEF ServiceInv, ServiceTypeOK
  <2>2. PICK q \in Requests : HandlerStep(q) \/ \E y \in AskYears, o \in Overflows : Arrive(q, y, o)
    <3>1. ASSUME ~\E q \in Requests :
                    HandlerStep(q) \/ \E y \in AskYears, o \in Overflows : Arrive(q, y, o)
          PROVE  req' = req \/ Crash
      BY <1>1, <3>1 DEF ServiceNext, FlightStep, WorkerStep, Tick, WorkerCalls, WorkerReturns,
         WorkerRefreshed, Prune, WorkerStops, MapRefresh, MainStep, PrewarmSkips, PrewarmCalls,
         PrewarmReturns, Prewarmed, ShutdownReturns, Exit, TimeoutStep, ShutdownTimesOut, WaitTimesOut,
         Signal, AniListPublishes, Age, Clear, allVars
    <3>2. ~Crash
      BY DEF Crash, NoRequest
    <3> QED
      BY <2>1, <3>1, <3>2
  <2>3. ASSUME NEW y \in AskYears, NEW o \in Overflows, Arrive(q, y, o)
        PROVE  FALSE
    <3>1. PICK s \in {<<"answered", "rejected">>, <<"answered", "unavailable">>, <<"lookup", "none">>} :
             req' = [req EXCEPT ![q].step = s[1], ![q].answer = s[2], ![q].ask = y, ![q].overflow = o]
      BY <2>3 DEF Arrive
    <3>2. CASE q = r
      BY <2>1, <3>1, <3>2 DEF Handlers
    <3>3. CASE q # r
      BY <2>1, <3>1, <3>3
    <3> QED
      BY <3>2, <3>3
  <2>4. HandlerStep(q)
    BY <2>2, <2>3
  <2>5. q = r
    BY <1>1, <2>1, <2>4, HandlerRewrites
  <2>6. CASE Backfilled(r)
    BY <2>1, <2>6 DEF Backfilled, Goto, Respond, Handlers
  <2>7. CASE Reread(r)
    <3>1. Stored(req[r].ask)
      BY <1>1, <2>7 DEF ReadInv, ReadOK, Reread
    <3>2. ~GetYearHits(r)
      BY <2>1 DEF GetYearHits, Handlers
    <3>3. rows[req[r].ask] = Absent \/ Respond(r, "empty", {req[r].ask})
      BY <2>7, <3>2 DEF Reread
    <3> QED
      BY <2>1, <3>1, <3>3 DEF Stored, Respond, Handlers
  <2>8. req'[r].answer \in {req[r].answer, "data", "none"} \/ Backfilled(r) \/ Reread(r)
    <3>1. CASE Lookup(r)
      BY <2>1, <3>1 DEF Lookup, GetYearHits, Goto, Handlers
    <3>2. CASE HandlerCalls(r) \/ PriorCheck(r)
      <4>1. PICK s : Goto(r, s)
        BY <3>2 DEF HandlerCalls, PriorCheck
      <4> QED
        BY <2>1, <4>1 DEF Goto, Handlers
    <3>3. CASE PriorBackfilled(r)
      BY <2>1, <3>3 DEF PriorBackfilled, Handlers
    <3>4. CASE Process(r) \/ Refreshed(r)
      <4>1. PICK p, F : RespondList(r, p, F) \/
                        req' = [req EXCEPT ![r].step = "refresh", ![r].prior = p, ![r].trouble = F]
        <5>1. CASE Process(r)
          BY <5>1, ProcessWrites
        <5>2. CASE Refreshed(r)
          BY <5>2 DEF Refreshed
        <5> QED
          BY <3>4, <5>1, <5>2
      <4> QED
        BY <2>1, <4>1 DEF RespondList, Handlers
    <3>5. CASE Finish(r)
      BY <2>1, <3>5 DEF Finish, NoRequest
    <3> QED
      BY <2>4, <2>5, <3>1, <3>2, <3>3, <3>4, <3>5 DEF HandlerStep
  <2> QED
    BY <2>6, <2>7, <2>8
<1>2. ServiceInv /\ ReadInv /\ [ServiceNext]_allVars => [Explained]_allVars
  BY <1>1
<1> QED
  BY <1>2, ServiceInvariant, ReadInvariant, PTL DEF ServiceSpec, EmptyExplained

\* So has a winter list without the year before it.
THEOREM PriorHasCause == ServiceSpec => PriorExplained
<1> DEFINE Explained == \A r \in Requests : LET y == req[r].ask - 1 IN
             (Process(r) /\ req[r].overflow /\ req'[r].prior = Absent) =>
                y \in req'[r].trouble \/ evicted[y]
<1>1. ASSUME ServiceInv, ReadInv
      PROVE  Explained
  <2> SUFFICES ASSUME NEW r \in Requests, Process(r), req[r].overflow, req'[r].prior = Absent
               PROVE  req[r].ask - 1 \in req'[r].trouble \/ evicted[req[r].ask - 1]
    OBVIOUS
  <2>1. /\ req \in [Requests -> Handlers] /\ req[r] \in Handlers
    BY <1>1 DEF ServiceInv, ServiceTypeOK
  <2>2. Stored(req[r].ask - 1) \/ req[r].ask - 1 \in req[r].trouble
    BY <1>1 DEF Process, ReadInv, ReadOK
  <2>3. PICK read \in {<<rows[req[r].ask - 1], {}>>, <<Absent, {req[r].ask - 1}>>} :
           \/ RespondList(r, read[1], read[2])
           \/ req' = [req EXCEPT ![r].step = "refresh", ![r].prior = read[1],
                                 ![r].trouble = @ \cup read[2]]
    BY DEF Process
  <2>4. req'[r].prior = read[1] /\ req'[r].trouble = req[r].trouble \cup read[2]
    BY <2>1, <2>3 DEF RespondList, Handlers
  <2> QED
    BY <2>2, <2>3, <2>4 DEF Stored
<1>2. ServiceInv /\ ReadInv => [Explained]_allVars
  BY <1>1
<1> QED
  BY <1>2, ServiceInvariant, ReadInvariant, PTL DEF ServiceSpec, PriorExplained
=============================================================================
