---------------------------- MODULE AniListClient ----------------------------
(***************************************************************************)
(* Client.FetchYear: the pages of a year are asked for one after the other,*)
(* each in up to MaxRetry attempts, and appended.  AniList sorts the list  *)
(* by popularity and may change it between two pages, which the client     *)
(* cannot see.                                                             *)
(*                                                                         *)
(* One call at a time is modelled, of a caller whose context may be        *)
(* cancelled.  Concurrent calls share the rate limiter only, which is      *)
(* module RateLimiter; here its Wait takes any time.                       *)
(***************************************************************************)
EXTENDS Integers, FiniteSets

CONSTANTS
    Shows,         \* the shows that are ever in the year's list
    PerPage,       \* maxPerPage
    MaxRetry       \* maxRetry: attempts for a page

ASSUME ShowsAssumption == IsFiniteSet(Shows)
ASSUME PageAssumption == PerPage \in Nat \ {0} /\ MaxRetry \in Nat \ {0}

\* A list is the rank of every show in it, from 1; 0 stands for "not listed".
Rankings ==
    {f \in [Shows -> 0 .. Cardinality(Shows)] :
        /\ \A s, t \in Shows : f[s] = f[t] /\ f[s] > 0 => s = t
        /\ \A s \in Shows : f[s] > 1 => \E t \in Shows : f[t] = f[s] - 1}

VARIABLES
    rank,          \* AniList's list now
    pc,            \* where the call is
    page,          \* FetchYear's page
    attempt,       \* doRequest's attempt
    got,           \* allShows: how often each show was appended
    outcome,       \* what the last call returned
    ctxDone,       \* the caller's context is cancelled
    risen,         \* auxiliary: shows that moved up or left since the call began
    fallen,        \* auxiliary: shows that moved down or came since then
    sent           \* auxiliary: requests of the call

local == <<pc, page, attempt, got, outcome>>
aux == <<risen, fallen>>
vars == <<rank, local, ctxDone, aux, sent>>

Init ==
    /\ rank \in Rankings
    /\ pc = "idle" /\ page = 1 /\ attempt = 0
    /\ got = [s \in Shows |-> 0]
    /\ outcome = "none"
    /\ ctxDone = FALSE
    /\ risen = {} /\ fallen = {}
    /\ sent = 0

TypeOK ==
    /\ rank \in [Shows -> Nat]
    /\ pc \in {"idle", "page", "backoff", "throttle", "wait", "sent", "retryAfter"}
    /\ page \in Nat \ {0}
    /\ attempt \in 0 .. MaxRetry - 1
    /\ got \in [Shows -> Nat]
    /\ outcome \in {"none", "ok", "error"}
    /\ ctxDone \in BOOLEAN
    /\ risen \subseteq Shows /\ fallen \subseteq Shows
    /\ sent \in Nat

Unlisted == {s \in Shows : rank[s] = 0}

-----------------------------------------------------------------------------
FetchYear ==
    /\ pc = "idle"
    /\ pc' = "page" /\ page' = 1 /\ attempt' = 0
    /\ got' = [s \in Shows |-> 0]
    /\ outcome' = "none"
    /\ ctxDone' \in BOOLEAN
    /\ risen' = Unlisted /\ fallen' = {}
    /\ sent' = 0
    /\ UNCHANGED rank

\* return nil, err: what was read of the list is dropped.
Fail ==
    /\ pc' = "idle" /\ outcome' = "error"
    /\ UNCHANGED <<rank, page, attempt, got, ctxDone, aux, sent>>

Goto(from, to) ==
    /\ pc = from
    /\ pc' = to
    /\ UNCHANGED <<rank, page, attempt, got, outcome, ctxDone, aux, sent>>

\* "continue": the next attempt, or none is left.  Its changed form counts from 1.
RetryOnceMore ==
    IF attempt < MaxRetry
    THEN /\ pc' = "backoff" /\ attempt' = attempt + 1
         /\ UNCHANGED <<rank, page, got, outcome, ctxDone, aux, sent>>
    ELSE Fail

Retry ==
    IF attempt + 1 < MaxRetry
    THEN /\ pc' = "backoff" /\ attempt' = attempt + 1
         /\ UNCHANGED <<rank, page, got, outcome, ctxDone, aux, sent>>
    ELSE Fail

NextPage == ~ctxDone /\ Goto("page", "throttle")

\* With the timer and the context both ready the select takes either.
BackedOff == Goto("backoff", "throttle")

\* throttle: Wait looks at the context, reserves, and waits for its turn.
Throttle == ~ctxDone /\ Goto("throttle", "wait")

Send ==
    /\ pc = "wait" /\ ~ctxDone
    /\ pc' = "sent" /\ sent' = sent + 1
    /\ UNCHANGED <<rank, page, attempt, got, outcome, ctxDone, aux>>

\* The turn came together with the cancellation: http.Do refuses the request.
SendRefused == pc = "wait" /\ ctxDone /\ Retry

\* Changed form of ContextDone: an error of the limiter makes the loop try again.
ContextDoneOrSpin == ctxDone /\ pc \in {"page", "backoff", "wait", "retryAfter"} /\ Fail

\* Every wait of the call ends when the context is cancelled.
ContextDone == ctxDone /\ pc \in {"page", "backoff", "throttle", "wait", "retryAfter"} /\ Fail

\* A transport error, the 30 s timeout, a status that may heal (5xx, 3xx), or a
\* 429 that names no delay.
Disturbed == pc = "sent" /\ Retry

\* A 429 with a Retry-After, which is waited for before the attempt counts.
RateLimited == Goto("sent", "retryAfter")
RetryAfterOver == pc = "retryAfter" /\ Retry

\* Changed form of Refused: what cannot heal is asked for again, at once.
RefusedAgain ==
    \/ pc = "sent" /\ Fail
    \/ Goto("sent", "throttle")

\* Another 4xx, JSON that does not parse, or errors in the GraphQL response.
Refused == pc = "sent" /\ Fail

\* The shows of the page, and pageInfo.hasNextPage, as AniList answers now.
Page == {s \in Shows : (page - 1) * PerPage < rank[s] /\ rank[s] <= page * PerPage}
HasNextPage == \E s \in Shows : rank[s] > page * PerPage

Append == got' = [s \in Shows |-> IF s \in Page THEN got[s] + 1 ELSE got[s]]

\* Changed forms of Answered: the last page is not appended; the page is asked
\* for again after it was appended.
AnsweredBreakFirst ==
    /\ pc = "sent"
    /\ IF HasNextPage
       THEN Append /\ pc' = "page" /\ page' = page + 1 /\ attempt' = 0 /\ UNCHANGED outcome
       ELSE pc' = "idle" /\ outcome' = "ok" /\ UNCHANGED <<got, page, attempt>>
    /\ UNCHANGED <<rank, ctxDone, aux, sent>>

AnsweredTwice ==
    /\ pc = "sent"
    /\ Append
    /\ \/ /\ HasNextPage
          /\ pc' = "page" /\ page' \in {page, page + 1} /\ attempt' = 0
          /\ UNCHANGED outcome
       \/ /\ ~HasNextPage
          /\ pc' = "idle" /\ outcome' = "ok"
          /\ UNCHANGED <<page, attempt>>
    /\ UNCHANGED <<rank, ctxDone, aux, sent>>

Answered ==
    /\ pc = "sent"
    /\ Append
    /\ IF HasNextPage
       THEN pc' = "page" /\ page' = page + 1 /\ attempt' = 0 /\ UNCHANGED outcome
       ELSE pc' = "idle" /\ outcome' = "ok" /\ UNCHANGED <<page, attempt>>
    /\ UNCHANGED <<rank, ctxDone, aux, sent>>

CallStep ==
    \/ NextPage \/ BackedOff \/ Throttle \/ Send \/ SendRefused \/ ContextDone
    \/ Disturbed \/ RateLimited \/ RetryAfterOver \/ Refused \/ Answered

-----------------------------------------------------------------------------
\* AniList's list changes: shows gain and lose popularity, come and go.
Publish ==
    /\ rank' \in Rankings
    /\ risen' = risen \cup {s \in Shows : rank'[s] < rank[s]}
    /\ fallen' = fallen \cup {s \in Shows : rank'[s] > rank[s]}
    /\ UNCHANGED <<local, ctxDone, sent>>

\* The caller's context is the process's, which run() cancels.
Cancel ==
    /\ ~ctxDone
    /\ ctxDone' = TRUE
    /\ UNCHANGED <<rank, local, aux, sent>>

Next == FetchYear \/ CallStep \/ (pc # "idle" /\ Publish) \/ Cancel

Spec == Init /\ [][Next]_vars

\* Timers fire, the limiter grants every reservation and each request ends
\* within the HTTP timeout.
FairSpec == Spec /\ WF_vars(CallStep)

-----------------------------------------------------------------------------
\* What FetchYear returns holds every show that was listed from the call's start
\* and never moved up: whatever other shows did between the pages, however often
\* a page was retried (FetchYear, anilist.go:257-309).
SteadyListed ==
    outcome = "ok" => \A s \in Shows \ risen : got[s] > 0

\* It holds no show twice that never moved down.  With SteadyListed: a list that
\* does not change while it is read is returned exactly.
SteadyOnce ==
    outcome = "ok" => \A s \in Shows \ fallen : got[s] <= 1

\* A call sends at most MaxRetry requests for each page, and asks for no more
\* pages than the longest list has, while errors, 429s and changes of the list
\* meet in any order (doRequest, anilist.go:312-389).
RequestsBounded ==
    /\ sent <= MaxRetry * page
    /\ page > 1 => (page - 1) * PerPage < Cardinality(Shows)

\* Every call ends, even if the list goes on changing while it is read.
FetchEnds == pc # "idle" ~> pc = "idle"
=============================================================================
