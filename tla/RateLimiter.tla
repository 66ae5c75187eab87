----------------------------- MODULE RateLimiter -----------------------------
(***************************************************************************)
(* Client.throttle: all goroutines that call AniList share one token bucket*)
(* (golang.org/x/time/rate, burst 1), which every call sets to a token per *)
(* Short, or per Long for a Window after a 429.  The limit is set under a  *)
(* lock and the token taken after it is released; a goroutine then waits   *)
(* for the time it reserved, whatever the limit has become since.          *)
(*                                                                         *)
(* Time is counted in ticks, and as the time that has passed since an event*)
(* or is left until one, up to the longest that matters.  A goroutine whose*)
(* time has come sends before the next tick.  Tokens are counted in parts, *)
(* Short * Long to a request, so that a tick brings a whole number of them *)
(* at both rates.  The reservations that cancelled workers give back when  *)
(* the process shuts down are left out.                                    *)
(***************************************************************************)
EXTENDS Integers, FiniteSets

CONSTANTS
    Goroutines,    \* the goroutines that fetch years
    Short,         \* rateLimitDelay, in ticks
    Long,          \* rateLimitBackoff, in ticks
    Window         \* how long a 429 is remembered (30 s), in ticks

ASSUME GoroutinesAssumption == IsFiniteSet(Goroutines) /\ Goroutines # {}
ASSUME TimesAssumption ==
    /\ Short \in Nat \ {0} /\ Long \in Nat /\ Window \in Nat
    /\ Short < Long

\* Changed form of Cost: a request costs what the long gap brings at the short rate.
CostLong == Long * Long

Cost == Short * Long

\* What a tick brings at a limit of one request per gap.
Gain(gap) == IF gap = Long THEN Short ELSE Long

VARIABLES
    sinceLimited,  \* time since lastRateLimit, up to Window
    limit,         \* the limiter's limit: Short or Long
    tokens,        \* its tokens, negative if they are reserved ahead of time
    pc,            \* where each goroutine is in doRequest
    left,          \* the time left until its reservation
    own,           \* auxiliary: it reserved since the limit was last tightened
    sinceSent,     \* auxiliary: time since the latest request, up to Long
    sinceOwn,      \* auxiliary: time since the latest of these, up to Long
    strays         \* auxiliary: others sent since then, too early for Long

aux == <<own, sinceSent, sinceOwn, strays>>
vars == <<sinceLimited, limit, tokens, pc, left, aux>>

Init ==
    /\ sinceLimited = Window
    /\ limit = Short /\ tokens = Cost
    /\ pc = [g \in Goroutines |-> "idle"]
    /\ left = [g \in Goroutines |-> 0]
    /\ own = [g \in Goroutines |-> FALSE]
    /\ sinceSent = Long /\ sinceOwn = Long /\ strays = 0

LimiterTypeOK ==
    /\ sinceLimited \in 0 .. Window
    /\ limit \in {Short, Long}
    /\ tokens \in Int /\ tokens <= Cost
    /\ pc \in [Goroutines -> {"idle", "limited", "wait", "sent"}]
    /\ left \in [Goroutines -> Nat]
    /\ own \in [Goroutines -> BOOLEAN]
    /\ sinceSent \in 0 .. Long /\ sinceOwn \in 0 .. Long /\ strays \in Nat

-----------------------------------------------------------------------------
Tight == sinceLimited < Window

\* SetLimit; when it tightens the limit, earlier reservations are not its own.
SetLimit(gap) ==
    /\ limit' = gap
    /\ IF gap = Long /\ limit = Short
       THEN own' = [g \in Goroutines |-> FALSE] /\ sinceOwn' = Long /\ strays' = 0
       ELSE UNCHANGED <<own, sinceOwn, strays>>

Throttle(g) ==
    /\ pc[g] = "idle"
    /\ SetLimit(IF Tight THEN Long ELSE Short)
    /\ pc' = [pc EXCEPT ![g] = "limited"]
    /\ UNCHANGED <<sinceLimited, tokens, left, sinceSent>>

\* The first tick at which nothing is lacking any more.
FirstTick(lacking) ==
    {d \in 0 .. lacking : Gain(limit) * d >= lacking /\ Gain(limit) * (d - 1) < lacking}

Lacking(t) == IF t < 0 THEN -t ELSE 0

\* Changed form of Reserve: the token is there to be taken until the request is sent.
ReserveNothing(g) ==
    /\ pc[g] = "limited"
    /\ \E d \in FirstTick(Lacking(tokens - Cost)) : left' = [left EXCEPT ![g] = d]
    /\ own' = [own EXCEPT ![g] = limit = Long]
    /\ pc' = [pc EXCEPT ![g] = "wait"]
    /\ UNCHANGED <<sinceLimited, limit, tokens, sinceSent, sinceOwn, strays>>

\* limiter.Wait takes a token at once, and the wait is what it lacks then.
Reserve(g) ==
    /\ pc[g] = "limited"
    /\ tokens' = tokens - Cost
    /\ \E d \in FirstTick(Lacking(tokens')) : left' = [left EXCEPT ![g] = d]
    /\ own' = [own EXCEPT ![g] = limit = Long]
    /\ pc' = [pc EXCEPT ![g] = "wait"]
    /\ UNCHANGED <<sinceLimited, limit, sinceSent, sinceOwn, strays>>

Send(g) ==
    /\ pc[g] = "wait" /\ left[g] = 0
    /\ pc' = [pc EXCEPT ![g] = "sent"]
    /\ sinceSent' = 0
    /\ sinceOwn' = IF own[g] THEN 0 ELSE sinceOwn
    /\ strays' = IF limit = Long /\ sinceSent < Long THEN strays + 1 ELSE strays
    /\ UNCHANGED <<sinceLimited, limit, tokens, left, own>>

\* Changed form of Answered: after a 429 the request is sent again from where it
\* was, past the limiter.
AnsweredResend(g) ==
    /\ pc[g] = "sent"
    /\ \/ /\ pc' = [pc EXCEPT ![g] = "idle"]
          /\ UNCHANGED <<sinceLimited, left, own>>
       \/ /\ pc' = [pc EXCEPT ![g] = "wait"] /\ sinceLimited' = 0
          /\ left' = [left EXCEPT ![g] = Short] /\ own' = [own EXCEPT ![g] = FALSE]
    /\ UNCHANGED <<limit, tokens, sinceSent, sinceOwn, strays>>

\* The answer, which may be a 429; the goroutine then backs off for some time
\* before its next attempt, or goes on to its next page or year.
Answered(g) ==
    /\ pc[g] = "sent"
    /\ pc' = [pc EXCEPT ![g] = "idle"]
    /\ sinceLimited' \in {sinceLimited, 0}
    /\ UNCHANGED <<limit, tokens, left, aux>>

Later(t, max) == IF t < max THEN t + 1 ELSE max

\* Changed form of Tick: tokens are saved up without a burst.
TickUncapped ==
    /\ \A g \in Goroutines : pc[g] = "wait" => left[g] > 0
    /\ sinceLimited' = Later(sinceLimited, Window)
    /\ tokens' = tokens + Gain(limit)
    /\ left' = [g \in Goroutines |-> IF left[g] > 0 THEN left[g] - 1 ELSE 0]
    /\ sinceSent' = Later(sinceSent, Long)
    /\ sinceOwn' = Later(sinceOwn, Long)
    /\ UNCHANGED <<limit, pc, own, strays>>

Tick ==
    /\ \A g \in Goroutines : pc[g] = "wait" => left[g] > 0
    /\ sinceLimited' = Later(sinceLimited, Window)
    /\ tokens' = IF tokens + Gain(limit) > Cost THEN Cost ELSE tokens + Gain(limit)
    /\ left' = [g \in Goroutines |-> IF left[g] > 0 THEN left[g] - 1 ELSE 0]
    /\ sinceSent' = Later(sinceSent, Long)
    /\ sinceOwn' = Later(sinceOwn, Long)
    /\ UNCHANGED <<limit, pc, own, strays>>

Next ==
    \/ \E g \in Goroutines : Throttle(g) \/ Reserve(g) \/ Send(g) \/ Answered(g)
    \/ Tick

Spec == Init /\ [][Next]_vars

-----------------------------------------------------------------------------
\* Two requests that both took their token since the limit was last tightened
\* are Long apart, however many goroutines take turns and however much later one
\* of them began (throttle, anilist.go:243-253).
TightSpacing ==
    [][\A g \in Goroutines :
          pc[g] = "wait" /\ pc'[g] = "sent" /\ own[g] => sinceOwn >= Long]_vars

\* A 429 tightens the limit for those who come after it.  Of those who reserved
\* before, each may disturb the spacing twice, of the request before its own and
\* of the one after, and one token may have been saved: so much, and no more,
\* goes out too early (throttle, anilist.go:243-253).
StraysBounded == strays <= 2 * Cardinality(Goroutines) - 1

\* A request that goes out early leaves its token owed, and every time the limit is
\* relaxed and tightened again there may be more of them; yet what is owed does not
\* pile up for ever, because the more it is, the longer those wait who come next:
\* nobody's reservation is further away than this (throttle, anilist.go:243-253).
WaitBounded ==
    \A g \in Goroutines :
        Short * (left[g] - 1) < Cardinality(Goroutines) * Long * (Long + Short)
=============================================================================
