# Verification of sonarr-anime-bridge

TLA+ models of the server in this repository, the TLC runs that check them on
small instances, and TLAPS proofs of the properties that matter most for every
instance. Paths such as `scheduler.go` stand for `internal/scheduler/scheduler.go`,
`cache.go` for `internal/cache/cache.go`, `main.go` for `cmd/server/main.go`,
`anibridge.go` and `resolve.go` for those in `internal/mapping/`, `anilist.go` for
`internal/anilist/anilist.go`, `filter.go` for `internal/filter/filter.go`.

## The system

The server answers Sonarr's `GET /list?season=&year=` with TVDB IDs. It fetches the
anime of a year from AniList, keeps the raw list in SQLite, and filters and
resolves it for each request. Everything runs in one process: the goroutine of
`run()`, one goroutine per HTTP request, the stale-refresh worker (every 10 minutes)
and the mapping worker (every 24 hours). They meet in three places: the table
`year_cache`, the map `inflight` of fetches in progress, and the pointer to the mapping.

| Component | State | Operations | Interacts with | What is hard | What makes it correct |
|---|---|---|---|---|---|
| Year fetch, `scheduler.go` `FetchAndStore` | `inflight` | LoadOrStore, fetch, store, close, delete, wait | called by handlers, prewarm, worker; AniList; cache | callers that come at any of its steps; errors and cancellation that are shared | one flight per year; every waiter released with the right error; rows never go back |
| `GET /list`, `main.go` `handleList` | locals of each request | lookup, backfill, reread, prior year, process, refresh | cache, year fetch, mapping | each statement is separate from the next; rows disappear in between | empty answers are explained; what is read never goes back; every request is answered |
| Stale-refresh worker, `scheduler.go` | a snapshot of stale years | snapshot, fetch each, prune, vacuum | cache, year fetch | the snapshot ages; one year of several fails | stale years get refreshed; pruning takes only unused rows |
| `run()`, `main.go` | context, listener | load mapping, prewarm, wait for signal, cancel, shut down | all | the order of cancel, Shutdown, Wait; requests during prewarm | nothing is cut off by a drained shutdown; a signal ends the process, without its timeouts too |
| Year cache, `cache.go` | table, `lastHitTimes`, `lastHitFailed` | GetYear, SetYear, HasYear, Clear, NeedsRefreshYears, PruneStaleYears | SQLite | debounced, retried and delayed writes; restart loses the memory, not the table | a row in use is not pruned; memory is never ahead of the row |
| Mapping loader, `anibridge.go` `LoadOrFetch` | mapping file, sidecar, mapping in memory | HEAD, GET, write file, parse, write sidecar | GitHub releases, disk | two files, one written after the other; crash between | an ETag match is true; a failed refresh keeps what there was |
| AniList client, `anilist.go` | rate limiter, time of last 429 | pages, attempts, Retry-After, throttle | AniList; all goroutines share the limiter | waits under a context; retries; a list that changes between two pages; a limit that changes while goroutines wait | nothing that stays in place is lost or doubled; requests bounded; every call ends; spacing after a 429 |
| Filters, `filter.go`, and `Process`, `scheduler.go` | none | overflow merge, season, format, duration, tags, future, first season | handler, cache | two lists of different age; calendar edges | no show twice; seasons divide the year; the future window never shrinks back |
| TVDB resolution, `resolve.go`, and parser, `anibridge.go` | mapping pointer | parse, choose a TVDB ID, look up | mapping worker swaps the pointer | Go's map order; a swap in the middle of a batch; a file that ends early | the s1 scope or the most episodes; each ID from a mapping in force; no partial mapping |
| Connections, `cache.go` `openDB`, `execWithRetry` | the pool of `database/sql` | exec with retries, query | SQLite | the lock; retries | not modelled; their delays and errors are those of `YearCache`'s statements |
| Configuration, health, statistics, logging, middleware, entrypoint | none that changes | | | | not modelled |

The hazards of this code, each at its line, are listed in `PROJECT.json` with the
properties that would catch it going wrong; those that have none say why.

## Modules

| Module | What it is |
|---|---|
| `YearRefresh` | abstract specification: what a fetch promises to the rest of the program |
| `FetchFlight` | `FetchAndStore` step by step, for any set of callers; implements `YearRefresh` |
| `ListService` | EXTENDS `FetchFlight`: handlers, workers, prewarm, signal and shutdown around it |
| `YearCache` | the table and the clock: freshness, `last_hit`, debounce, pruning |
| `MappingLoader` | `LoadOrFetch`, the mapping file and its sidecar |
| `RequestDeadline` | the time a request takes: fetches and retries against the server's WriteTimeout, clients that give up and come back |
| `AniListClient` | `FetchYear` and `doRequest`: pages, attempts, waits, a list that changes meanwhile |
| `RateLimiter` | `throttle`: the token bucket that all goroutines share |
| `ListPipeline` | `Process`: overflow merge, filters, resolution while the mapping is swapped |
| `FutureWindow` | `IsWithinMonths` and Go's `AddDate`, day after day |
| `MappingParser` | `parseAnibridgeJSON` and `extractTVDB` in any order of the map |
| `MC*` | instances for TLC, one for each module above except `YearRefresh` and `FetchFlight`, which run inside `ListService`, and `FutureWindow`, which runs inside `ListPipeline` |
| `FetchFlightProofs`, `ListServiceProofs`, `YearCacheProofs`, `MappingLoaderProofs`, `AniListClientProofs`, `RateLimiterProofs`, `MappingParserProofs`, `ListPipelineProofs` | theorems and proofs |

How they fit together: `FetchFlight` sees `AniListClient` as one step with an error or a
version, `ListService` extends `FetchFlight`, and sees `YearCache` as rows with a flag and
`ListPipeline` as `Process`. `MappingLoader` sees `MappingParser` as parsed or not; `ListPipeline`
sees it as a set of mappings. `ListPipeline` extends `FutureWindow`.

### FetchFlight

`pc[p]` says where caller `p` is in `FetchAndStore`. `Lead` is LoadOrStore storing
(scheduler.go:195), `Join` is LoadOrStore loading; `FetchYear`/`FetchFails`,
`Store`/`StoreFails` are the body (212-230); `Close` and `Delete` are the deferred
function (206-210), in two steps because other goroutines run between
`close(result.done)` and `inflight.Delete`; `WaitDone`/`WaitCancelled` are the two
cases of the select (199-204). `Return` is the caller reading the error. A
`Request` calls with `context.WithoutCancel` and is never cancelled; a `Worker` runs
under the context that `run()` cancels. A caller that joined holds a pointer to the
flight's result, which is why `err[p]` keeps the result after the entry is deleted.

The list of a year is a version number. `upstream[y]` counts AniList's changes,
`FetchYear` returns any version between the call's begin and now (the pages of one
list are read one after the other). `evicted` and `since` are auxiliary.

### ListService

`req[r]` is the record of a request's locals: the step it is at, the year, whether
the season is WINTER or ALL (`overflow`), the version it read, whether that was fresh.
The steps are the cache statements and fetches of `handleList` in order: `Lookup`
(main.go:149), `HandlerCalls`/`Backfilled` (157), `Reread` (163), `PriorCheck` (171),
`PriorBackfilled` (175), `Process` (180), `Refreshed` (193). Failing statements take
the code's paths: `GetYear` takes any error for a miss, `HasYear` for absence.
The worker is `Tick` (snapshot), `WorkerCalls`/`WorkerReturns` for each year, `Prune`,
`WorkerStops`. `main` goes through prewarm, ready, draining (after `cancel()`),
waiting (after Shutdown), exited. Shutdown returns when every request is idle (`ShutdownReturns`)
or after ten seconds (`ShutdownTimesOut`), `sched.Wait` when the worker has stopped (`Exit`) or
after five (`WaitTimesOut`). A signal before `signal.Notify` (main.go:89) kills the
process, which is `Crash`. `Prune` removes any rows here, because which rows are
unused is `YearCache`'s subject. The age of a row is one flag, `old`, for the two
thresholds: the code compares with `<` in one place and `>` in the other on a
nanosecond clock, so that they differ for one instant only, and `YearCache` keeps
the difference. A prewarm may fetch a fresh year because the read that would
have told it so can fail.

`seen[y]` is auxiliary: the newest version of the year that any request has read. It is not what
clients were sent last: a request may hold what it read while it waits for a refresh (main.go:193), so
that its answer, read earlier, may arrive after a newer one. `ReadsNeverGoBack` is about the reads.

### YearCache

Times are integers. A statement carries the time it computed (`at`) and takes
effect up to `Delay` later, since `execWithRetry` waits while SQLite is busy.
`GetYear` either begins an UPDATE of `last_hit` or, within `Debounce` of the last
write it remembers, does nothing; `UpdateHit` and `RememberHit` are the UPDATE and
the `lastHitTimes.Store` after it. `noted[y]` is auxiliary: the last time the year was
asked for and the program knew it.

### MappingLoader

`pc` follows one call of `LoadOrFetch`. Bytes are a version at a URL; ETag and MD5
identify them, and a response may lack either header. `WriteFile` and
`WriteMetadata` are separate, each atomic (temporary file and rename). `Restart` kills
the process at any point; a power loss may also damage a file that was not synced. Renames
reach the disk in their order. The upstream only advances (`Publish`): that a release returns to the
bytes of an earlier one, with the earlier ETag, is excluded by assumption, and `UpToDateIsCurrent` and
`MappingNeverGoesBack` rest on it. `Unparsable` versions are releases that download but
do not parse.

### RequestDeadline

One client asks for one year. `AskAndWait` is the way through `handleList` without a
fresh row: the fetch begins, or the one in flight is joined, and the handler waits with
the stale list in hand (`held`) or with nothing. `PageFetched`, `AttemptFails` and `FetchFails` let
the seconds of an attempt and its backoff pass. `Ends` writes the answer, which gets to the
client only before `WriteTimeout`. `Leave` closes the connection; the fetch runs under
`context.WithoutCancel` (main.go:157) and goes on. Attempts last one of `Durations`, which
includes the limiter's wait; Retry-After has no bound and is left out, so real requests
take longer still.

### AniListClient

`rank` is AniList's list: the place of each show by popularity. `Publish` changes it at any
time, and `Page` reads the part of it that the call asks for as it is at that moment.
`pc` follows `doRequest`: backoff (anilist.go:314), throttle (324), the request (337),
the Retry-After sleep (351). `Disturbed`, `RateLimited` and `Refused` are the kinds of answer by what the
code does with them. `risen`, `fallen` and `sent` are auxiliary: what moved during the call.

### RateLimiter

Tokens, limit and time as in `golang.org/x/time/rate` with burst 1: a token is taken at
once and may be owed (`tokens` below 0), the goroutine then waits the time that the
limit of that moment gives (`left`). `Throttle` and `Reserve` are two steps because the lock is
released in between (anilist.go:250-252). A tick is 700 ms in the runs. `own`, `strays`,
`sinceSent` and `sinceOwn` are auxiliary. A wait is not bounded by two long gaps for each goroutine, as one
would expect: with 8 goroutines or more, a limit that is tightened and relaxed again and again
lets tokens of several such times be owed at once. The bound of `WaitBounded` is the one that is proved.

### MappingParser

An entry has up to three descriptors with two source ranges each. `Visit` takes any
descriptor not yet visited, which is Go's map order. `CutInValue` is the end of input, or
bytes that are not JSON, before a key or in a value. `extractTVDB` and `skipValue` do not report it,
but the decoder does not get past it: the next `Token` fails (`Reject`), and `Close` needs a
closing brace that is not there. `listed` is auxiliary: the IDs for which the whole file has a
show, what is cut off included. A value that is JSON but no object is an entry without a show: the decoder does move on.
The order of the map does decide between two `s1` scopes with as many episodes, and when a special has more
episodes than `s1` and comes first; `DominantS1Chosen` and `MostEpisodesChosen` leave these cases out (see
the differences below). zstd and the lexical part of JSON are left out.

### ListPipeline

The filters are operators on sequences of shows, with the names of the code; `Kept` is the loop they share. `Select` is
`Process` up to `resolveShows`: one step, because the lists are locals, at the moment the prior
year is read from the cache. `CheckMapping` and each `Resolve` load the resolver's pointer by
themselves, and `RefreshMapping` may come in between. The cached lists are any of the
constants' lists, also with a show doubled, as `AniListClient` shows they can be. The two places of a doubled
show are assumed to be the same, although AniList could change the show between the two pages. `today` is
read in `Select` only, so `Midnight` comes between requests.

### FutureWindow

Days pass; `Limit` is today's date three months on as `AddDate` computes it. Shows without
a start year or month are passed by `Near` of `ListPipeline`.

## What the runs check

| Run | Instance | Checks |
|---|---|---|
| `service` | 2 years, 1 winter request, prewarm, worker, crashes | `ServiceTypeOK`, `EmptyExplained`, `PriorExplained` |
| `service_two` | 1 year, 2 requests, worker, 2 versions, crashes | `OneFlightPerYear`, `NoLostWaiter`, `NilMeansStored`, `VersionsAdvance`, `RefreshSpec`, `CleanExit`, `ReadsNeverGoBack` |
| `service_live` | 2 years, 1 winter request, worker; fair | `RequestsAnswered`, `SignalEnds` |
| `service_stale` | 2 years, 1 request for one of them, worker; fair, with recovery | `StaleRefreshed` |
| `aging` | 1 year, 2 requests, worker, clock to 10 | `CacheTypeOK`, `MemoryTracksRow`, `NoEarlyEviction` |
| `mapping` | 1 URL, 4 versions, version 2 broken, 2 restarts; fair | `MappingTypeOK`, `UpToDateIsCurrent`, `MappingNeverGoesBack`, `MappingConverges` |
| `client` | 3 shows on pages of one, 3 attempts; fair | `TypeOK`, `SteadyListed`, `SteadyOnce`, `RequestsBounded`, `FetchEnds` |
| `limiter` | 3 goroutines; gaps of 1 and 7 ticks, window 43 | `LimiterTypeOK`, `StraysBounded`, `WaitBounded`, `TightSpacing` |
| `parser` | 2 IDs, 3 descriptors, 5 forms of ranges | `ParserTypeOK`, `DominantS1Chosen`, `MostEpisodesChosen`, `NothingLost` |
| `pipeline` | 13 shows in lists of up to two, 2 mappings, 28 November to 1 December and 30 September to 1 October 2023 | `PipelineTypeOK`, `AnsweredAsMapped`, `OverflowAddsOnce`, `PopularityKept`, `SeasonsDivideAll`, `OnceListedStays` |
| `deadline` | 2 pages, 5 attempts of 1 or 30 s; fair | `PersistentServed` |
| `mapping_urls` | 2 URLs, 2 restarts | `UpToDateIsCurrent`, which the code does not keep |

`service_two` checks the properties of the flights where they are used: every call of
`FetchAndStore` is one of a handler or of the worker, and the cancellation, the evictions and
the restarts are those of the program.

Bounds. Flights of different years share only the map, whose entries are
independent, so one year and three callers (owner, waiter, late caller) show every
interplay of flights in `service_two`; the proofs then cover any number. Two years are needed
where a request uses both, in `service` and `service_live`, and where one of the worker's round
fails before the other, in `service_stale`. `MaxVersion` is 2
where the age of data matters (an overlap needs an old and a new version) and 1 where
only presence does; the mapping has 4, a broken one between good ones. The half of `ReadsNeverGoBack` about
the prior year has no run with two versions (two years with two versions each are too many states): there
the proof covers it. `MaxTime` 10 exceeds prune age plus debounce
plus delay of the scaled clock, so that rows age, are refreshed and are pruned.
`MaxRestarts` 2 allows a crash between the two writes and a crash in the load
after it. In `aging` the scaled times (delay 1, debounce 2, freshness 3 and 4, prune age 5) keep the
order of the real ones: delay < debounce < freshness of the current year < of past years < prune age.

In `client` three pages let a show move past the place being read in both directions and
the number of pages change. In `limiter` the gaps have the proportions of the code (700 ms, 5 s, 30 s) and
three goroutines are the requests, the worker and the one whose 429 changes the limit. In
`parser` three descriptors are the best so far, one that surpasses it and one that does not,
with an equal number possible. `pipeline`'s shows are one for each condition of each filter and each
season of the overflow; two of a list are enough for order and doubles. Its days are those at which
three months on is the end of a year, the end of a February of 29 days, and a day that February does not
have; the proofs cover every other. In `client` three attempts are the first, one in between and the
last. Two pages in `deadline` distinguish an attempt from a fetch.

Deadlock is checked where the process can always be started again; it is off in
the runs without crashes, where the process exits and nothing is left to do.

Fairness. A goroutine that can run runs, and the HTTP client (30 s) and SQLite
(`busy_timeout`, five attempts) have timeouts, so each step of a call happens or fails: weak
fairness of `FlightStep`, `HandlerStep`, `WorkerStep`, `MainStep`. It is one formula per goroutine,
so a step may always be the failing one. The worker's select chooses at random between the ticker and a
context that is done, so it does not choose the ticker for ever: strong fairness of
`WorkerStops`. The timeouts of `run()` (10 s, 5 s) are steps (`TimeoutStep`) without fairness: `SignalEnds`
says that the exit does not need them. Only `StaleRefreshed` and `MappingConverges` assume more: that a
call repeated for ever does not fail for ever (strong fairness of the successful step). For a year
that is whoever asks for it (`Recovery`), since the worker may always join a request's flight.
`FetchEnds` needs only that the steps of a call happen (timers, the HTTP timeout).
`PersistentServed` is under the condition that AniList comes to answer (`<>[]up`), with weak
fairness of the fetch and of a client that keeps asking.

### Where the documentation and the code differ

`mapping_urls` shows a state that two changes of the configuration and a crash leave behind. The other
differences below were met while modelling. The models follow the code, and no run
checks the documentation's words.

- `run()` cancels the context before it shuts the server down
  (main.go:93, 98; docs/flow.md:89 has the other order). A request that joined the
  prewarm's or the worker's flight gets its `context.Canceled` and answers `[]`.
- The refresh of a stale year, like every fetch of `handleList`, is waited for
  (main.go:193; docs/flow.md:52 says fire-and-forget, README.md:79 async).
- `SetYear` writes `last_hit`, also for the worker's refresh (cache.go:224), so
  a year that is refreshed every week is never "not requested in 14 days" (README.md:83).
- A download that cannot be written or does not parse is an
  error although a usable file was there (anibridge.go:157-164;
  specs/docker-service/TECH.md:95 says fallback to cache on error).
- A sidecar left behind from URL A beside the file of URL B makes the
  file of B "up to date" when the configuration returns to A (anibridge.go:170, against
  the comment at 28-30): run `mapping_urls`.
- The listener is open before the prewarm begins (main.go:71, 83), as
  docs/flow.md:23 has it; README.md:73-74 says the prewarm comes "before accepting requests".
- A show that moves up between two pages is not returned (anilist.go:305,
  against "all anime" at 255-256).
- Tokens taken before the limit changed are spent after it,
  closer than the 700 ms and 5 s of docs/flow.md:79-80 (anilist.go:250-252).
- An s1 scope loses against a special with more episodes that the map's order
  puts first (anibridge.go:525; specs/docker-service/TECH.md:98 prefers s1).
- The overflow looks at the month of the start only, so that a show of the
  December before last is merged if it is in the prior year's list (scheduler.go:162,
  against anilist.go:131-132, TECH.md:28).
- All shows of the last month of the window are listed, up to a month too
  far ahead (anilist.go:125; TECH.md:32, PRODUCT.md:51).
- The retries last at most 27 s, of which 2.3 s are backoffs, and not 42 and
  17 (cache.go:166-168, against 154-155).
- `busy_timeout` holds on one connection only (cache.go:92, against 74-77).
- A fetch that fails takes longer than WriteTimeout, so that neither `[]` nor
  a stale list gets to the client (main.go:64; PRODUCT.md:35).

## What is proved

All proofs are for any sets of years, callers and URLs and any bounds.
The constants have the assumptions their modules name. The theorems a reader may want to cite:

| Theorem | Module | States | |
| --- | --- | --- | --- |
| `TypeCorrect` | `FetchFlightProofs` |  | Every reachable state of the flights is well typed, for any years, callers and versions. |
| `SingleFlight` | `FetchFlightProofs` | `OneFlightPerYear` | A year's flight has exactly one owner between LoadOrStore and Delete, however many callers there are. |
| `WaitersServed` | `FetchFlightProofs` | `NoLostWaiter` | A waiter always waits for a channel whose owner has yet to close it. |
| `NilIsStored` | `FetchFlightProofs` | `NilMeansStored` | A nil error means the row was stored, whoever fetched it. |
| `RowsNeverGoBack` | `FetchFlightProofs` | `VersionsAdvance` | No step replaces a row by older data. |
| `FlightsImplementRefresh` | `FetchFlightProofs` | `RefreshSpec` | FetchAndStore implements YearRefresh under the refinement mapping. |
| `CacheTypeCorrect` | `YearCacheProofs` | `CacheTypeOK` | Every reachable state of the table, the memory and the statements is well typed. |
| `MemoryNeverAhead` | `YearCacheProofs` | `MemoryTracksRow` | What is remembered of last_hit is at most Delay ahead of the row. |
| `RowsInUseStay` | `YearCacheProofs` | `NoEarlyEviction` | A prune removes only rows last asked for before the cutoff, up to the debounce interval and the delay of a write. |
| `MappingTypeCorrect` | `MappingLoaderProofs` | `MappingTypeOK` | Every reachable state of the loader and its files is well typed. |
| `UpToDate` | `MappingLoaderProofs` | `UpToDateIsCurrent` | With a single URL an ETag match means that the file served is what the upstream has, for any number of releases, crashes and failed writes. |
| `NeverBack` | `MappingLoaderProofs` | `MappingNeverGoesBack` | With a single URL a refresh never brings back an older mapping. |
| `ServiceTypeCorrect` | `ListServiceProofs` | `ServiceTypeOK` | The locals of every handler, of the workers and of run() keep their types. |
| `ServiceImplementsFlights` | `ListServiceProofs` |  | Every step of the whole program is a step of the flights or leaves them alone, so that all their theorems hold in it. |
| `ReadsOnlyAdvance` | `ListServiceProofs` | `ReadsNeverGoBack` | What a request reads of a year, its own or the prior one of a winter list, is never older than what was read of that year before, for any number of years, requests and versions. |
| `ExitIsClean` | `ListServiceProofs` | `CleanExit` | After a drained shutdown no request is cut off and, with the worker stopped, no fetch is abandoned, for any number of requests. |
| `EmptyHasCause` | `ListServiceProofs` | `EmptyExplained` | An empty answer always has a cause that the request could not avoid, for any number of requests. |
| `PriorHasCause` | `ListServiceProofs` | `PriorExplained` | A winter list lacks its prior year for such a cause only. |
| `ClientTypeCorrect` | `AniListClientProofs` | `TypeOK` | Every reachable state of a call is well typed; in particular no attempt beyond the last is made. |
| `NothingSteadyIsLost` | `AniListClientProofs` | `SteadyListed` | A show that is listed and never moves up is returned, for any list, page size and number of retries. |
| `NothingSteadyIsDoubled` | `AniListClientProofs` | `SteadyOnce` | A show that never moves down is returned once at most. |
| `RequestsAreBounded` | `AniListClientProofs` | `RequestsBounded` | The requests of a call are bounded by its pages and attempts. |
| `LimiterTypeCorrect` | `RateLimiterProofs` | `LimiterTypeOK` | Every reachable state of the limiter is well typed. |
| `TightRequestsSpaced` | `RateLimiterProofs` | `TightSpacing` | Requests whose tokens were taken since the limit was tightened are a long gap apart, for any number of goroutines and any gaps. |
| `ParserTypeCorrect` | `MappingParserProofs` | `ParserTypeOK` | Every reachable state of the parser is well typed and no count of episodes is negative. |
| `DominantS1Wins` | `MappingParserProofs` | `DominantS1Chosen` | An s1 scope that no other surpasses is chosen in every order of the map, for entries of any size. |
| `MostEpisodesWin` | `MappingParserProofs` | `MostEpisodesChosen` | Without an s1 scope one with the most episodes is chosen in every order. |
| `MappingIsWhole` | `MappingParserProofs` | `NothingLost` | A mapping that is returned has every ID for which the whole file has a show, wherever the input ends, for entries of any size in every order. |
| `StraysAreBounded` | `RateLimiterProofs` | `StraysBounded` | Of the requests under a tightened limit, fewer than two for each goroutine go out too early, for any number of goroutines and any gaps. |
| `WaitsAreBounded` | `RateLimiterProofs` | `WaitBounded` | No reservation is further away than goroutines × Long × (Long + Short) / Short, however often the limit is tightened and relaxed. |
| `PipelineTypeCorrect` | `ListPipelineProofs` | `PipelineTypeOK` | Every reachable state of a request is well typed, its slice holds shows of the two lists only, and the window's limit is a date of the calendar. |
| `AnswersFollowTheMappings` | `ListPipelineProofs` | `AnsweredAsMapped` | A show that every mapping in force knows is answered, and none with an ID that no mapping gave, for any swaps between the lookups. |
| `OverflowIsOnce` | `ListPipelineProofs` | `OverflowAddsOnce` | The overflow answers no show twice, for lists of any length and any prior list, doubled shows included. |
| `PopularityIsKept` | `ListPipelineProofs` | `PopularityKept` | The answer keeps the order of the year's list, for lists of any length. |
| `SeasonsPartition` | `ListPipelineProofs` | `SeasonsDivideAll` | A show that season=ALL selects of two lists of any length is selected by exactly one season. |
| `ListedStaysListed` | `ListPipelineProofs` | `OnceListedStays` | A show once listed stays listed: the limit's month never goes back, for any number of months. |

How they are argued, module by module:

`FetchFlightProofs`. `OneFlightPerYear` with `TypeOK` is inductive: owners and entries of the
map are in bijection, so a step of one owner touches no other flight (`OwnerInvariant`).
`NoLostWaiter` needs besides that an open entry belongs to an owner before its `Close`.
`RowsNeverGoBack` needs the invariant that no row is newer than upstream and that an
owner's `since` is no older than the row it will replace (`VersionInvariant`): this
holds only because owners of a year do not overlap. `NilIsStored` follows each result
from `Store` to its reader. `FlightsImplementRefresh` maps each step to a step of
`YearRefresh` or to a stutter: `Lead` to Begin, `Store` and the two failures to Commit,
`Delete` to End.

`ListServiceProofs`. Every step of the program is a `FetchFlight` step or leaves its
variables alone, so the theorems above hold in `ListService`; with them, what a request
has read of a year stays a lower bound of the row and of every fetch under way, which
gives `ReadsNeverGoBack`: what is read is a row, and no row is older than what was `seen`. The invariant that carries both (`ServiceInv`) is
`ServiceTypeOK` with what a handler knows at each step: its year, and the year before it
only when the season is WINTER or ALL.

`ListServiceProofs` also has `ExitIsClean`: only who waits for a call is in one (`CallPlace`), and
once Shutdown has seen every request answered none can come any more (`DrainedStays`).
`EmptyHasCause` and `PriorHasCause` rest on `ReadInvariant`: a year whose fetch a handler saw
succeed was stored (`NilIsStored` of the flights), and its row stays or was evicted; and a handler
that comes to `Process` for a winter list has seen its prior year stored, or a failure of it.

`YearCacheProofs`. Statements are never older than `Delay` (`TimeInvariant`); with that
`MemoryTracksRow`, and with a second invariant relating `noted` to the row and to pending
UPDATEs, `NoEarlyEviction`. Assumed: the constants are naturals, and `Debounce` is
positive.

`MappingLoaderProofs`. With one URL the file is never older than what the sidecar
says of it, and nothing is newer than the upstream; hence `UpToDateIsCurrent` and
`MappingNeverGoesBack`. The single URL is a hypothesis of those theorems, and
`mapping_urls` shows that it is needed.

`AniListClientProofs`. The invariant (`Reading`) says that a show which never rose was appended
or is still ahead of the place being read, and that one which never fell was appended at most
once, and then is not ahead. Pages follow each other without a gap, so only a move changes sides.
`RequestsBounded` counts the attempts of the pages so far (`SentSoFar`).

`RateLimiterProofs`. The bucket is low enough to make the next goroutine wait until a long gap
after every reservation that is still waited for (`Debt`) and after the latest request sent (`Paid`),
among those that reserved since the limit was tightened. `StraysAreBounded` counts instead: the requests
that went out too early, two more for each goroutine that waits for a reservation from before the limit was tightened
(it may disturb the spacing before and after its own request), and one if the latest request
is close enough for the next to be early. The goroutine whose 429 tightens the limit is not waiting itself, hence one less than twice their number.
`WaitsAreBounded` is an argument about debt. Consider the pairs of a goroutine and a moment, in the next
goroutines × Long ticks, at which it will still be waiting. A reservation that goes beyond that horizon
adds a whole row of them, time takes away one for each goroutine that waits, and what is owed beyond the horizon is
covered by their number; as there are at most goroutines × horizon pairs, the debt is bounded.

`MappingParserProofs`. Of the descriptors visited so far, none that must not lose (an s1 scope that no
other surpasses, or any where there is no s1) has more episodes than the best (`Scanned`); for any
set of descriptors and any ranges.

`MappingIsWhole`: an entry that has a show to offer is never left without a best one, in whatever order
it is walked (`Found`, which rests on `Scanned`); so an ID listed so far has a show in the maps, or is being
read, unless the input was cut, and then the load can only end in an error (`ListedInv`).

`ListPipelineProofs`. Three layers. The window: the limit's month does not go back from a day to the
next, because a month is 28 to 31 days long and `AddDate` moves over its end by at most three. The
loops: `Kept` is the loop of every filter and `Merge` that of the overflow, recursive functions of the
round. `Induction` proves what holds of a set of rounds from the least round at which it fails
(`WFMin` of the library, for `<` on the naturals), and `LoopExists` that the recursion has a
solution; hence `KeptProperties` (a filter returns the good shows, all of them, in the list's order) and
`MergeProperties` (the overflow returns the list and behind it December shows, each with a new ID).
Composed, `SelectedFilters`: what `Process` passes on is a slice of one base list, of exactly
the shows that are in season and pass. The states: `PipelineInv` says that the slice is what `Select`
made of the two lists, and that every show looked up so far has what some mapping in force gave it.
`AnswersFollowTheMappings` needs that in a slice an ID stands for one show (`SliceIds`): otherwise a
lookup would overwrite what another show was given. Assumed: in one list an ID stands for one show;
seasons and months are those of AniList's schema; a mapping has a natural number, 0 included, for every ID.

All safety properties that the runs check are proved, except the one that `mapping_urls` refutes without
the hypothesis of a single URL. Only model-checked: liveness (`RequestsAnswered`, `StaleRefreshed`, `SignalEnds`,
`MappingConverges`, `FetchEnds`, `PersistentServed`), because the prover does not reason
about fairness.

## What is not modelled

`cache.Open`'s deletion of a stuck database (cache.go:39-64): what is left after a crash
between the removals is decided inside SQLite, and the program sees an empty table at
worst, which is what `Clear` leaves. The pool of connections: every statement of cache.go gives its
connection back and holds no other, so that the pool delays and cannot block; `YearCache` has the delay
and the errors. VACUUM and its `lastVacuum`, the hit and miss counters and the
statistics, of which nothing else depends. zstd and the lexical part of JSON. The
difference of two mappings that a refresh logs. Panics. The listener that fails to bind
(main.go:77 logs only). Configuration, which is parsed once and then constant; health and
statistics endpoints, which read; logging and middleware; the entrypoint script.

## Plan

Done: the core (`YearRefresh`, `FetchFlight`, `ListService`, `YearCache`, `MappingLoader`), then the client
(`AniListClient`, `RateLimiter`), the data path (`MappingParser`, `ListPipeline`, `FutureWindow`), the time of a
request (`RequestDeadline`), and the proofs of every safety property of the runs.

Left: a refinement that maps the end of an `AniListClient` call to `FetchYear` of `FetchFlight`,
with what a version leaves out (shows that moved) in the abstract step; and theorems about the whole
of a request, from `Arrive` to `Process`'s answer, that combine those of `ListService` and `ListPipeline`.
