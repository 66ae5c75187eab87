------------------------- MODULE AniListClientProofs -------------------------
(***************************************************************************)
(* What FetchYear promises for every set of shows, page size and number of *)
(* attempts.  Inv adds to the checked invariants what each page relies on: *)
(* a show that never moved up has been read or is still ahead of the page  *)
(* being read; one that never moved down has been read only if it is       *)
(* behind that page.                                                       *)
(***************************************************************************)
EXTENDS AniListClient, FiniteSetTheorems, TLAPS

Ahead(s) == rank[s] > (page - 1) * PerPage

\* Requests sent for the pages before this one, and for this one.
SentSoFar ==
    sent <= MaxRetry * (page - 1) + attempt
                + (IF pc \in {"sent", "retryAfter"} THEN 1 ELSE 0)

Reading ==
    pc # "idle" =>
        /\ outcome = "none"
        /\ SentSoFar
        /\ \A s \in Shows \ risen : got[s] > 0 \/ Ahead(s)
        /\ \A s \in Shows \ fallen : got[s] = 0 \/ (got[s] = 1 /\ ~Ahead(s))

Ranked == \A s \in Shows : rank[s] <= Cardinality(Shows)

Inv == TypeOK /\ Ranked /\ Reading /\ SteadyListed /\ SteadyOnce /\ RequestsBounded

USE ShowsAssumption, PageAssumption

\* The number of shows is a natural number.
LEMMA ShowCount == Cardinality(Shows) \in Nat
BY FS_CardinalityType

\* A list ranks every show with a natural number up to the number of shows.
LEMMA RankingRange ==
  ASSUME NEW f \in Rankings
  PROVE  f \in [Shows -> Nat] /\ \A s \in Shows : f[s] <= Cardinality(Shows)
BY ShowCount DEF Rankings

\* The pages before page n hold (n - 1) * PerPage shows, a page PerPage more.
LEMMA NextPageStarts ==
  ASSUME NEW n \in Nat \ {0}
  PROVE  /\ (n - 1) * PerPage \in Nat
         /\ n * PerPage = (n - 1) * PerPage + PerPage
         /\ ((n + 1) - 1) * PerPage = n * PerPage
OBVIOUS

\* The same of the requests, MaxRetry for a page.
LEMMA NextPageRequests ==
  ASSUME NEW n \in Nat \ {0}
  PROVE  /\ MaxRetry * (n - 1) \in Nat
         /\ MaxRetry * n = MaxRetry * (n - 1) + MaxRetry
         /\ MaxRetry * ((n + 1) - 1) = MaxRetry * n
OBVIOUS

LEMMA InvInit == Init => Inv
<1> SUFFICES ASSUME Init PROVE Inv
  OBVIOUS
<1>1. rank \in [Shows -> Nat] /\ Ranked
  BY RankingRange DEF Init, Ranked
<1>2. RequestsBounded
  <2>1. page = 1 /\ sent = 0 /\ MaxRetry * 1 = MaxRetry
    BY DEF Init
  <2> QED BY <2>1 DEF RequestsBounded
<1>3. TypeOK
  <2>1. attempt \in 0 .. MaxRetry - 1
    BY DEF Init
  <2>2. got \in [Shows -> Nat]
    BY DEF Init
  <2>3. ctxDone \in BOOLEAN
    BY Zenon DEF Init
  <2>4. page \in Nat \ {0} /\ sent \in Nat
    BY DEF Init
  <2>5. /\ pc \in {"idle", "page", "backoff", "throttle", "wait", "sent", "retryAfter"}
        /\ outcome \in {"none", "ok", "error"}
    BY DEF Init
  <2>6. risen \subseteq Shows /\ fallen \subseteq Shows
    BY DEF Init
  <2> QED BY <1>1, <2>1, <2>2, <2>3, <2>4, <2>5, <2>6 DEF TypeOK
<1> QED
  BY <1>1, <1>2, <1>3 DEF Init, Inv, Reading, SteadyListed, SteadyOnce

\* Failing drops the list, and what was sent stays within the page's attempts.
LEMMA FailKeeps ==
  ASSUME Inv, pc # "idle", Fail
  PROVE  Inv'
<1>1. sent <= MaxRetry * page
  BY NextPageRequests DEF Inv, RequestsBounded
<1> QED
  BY <1>1 DEF Fail, aux, Inv, TypeOK, Ranked, Reading, SteadyListed, SteadyOnce, RequestsBounded

LEMMA RetryKeeps ==
  ASSUME Inv, pc \in {"wait", "sent", "retryAfter"}, Retry
  PROVE  Inv'
<1>1. CASE attempt + 1 < MaxRetry
  BY <1>1 DEF Retry, aux, Inv, TypeOK, Ranked, Reading, SentSoFar, Ahead, SteadyListed,
              SteadyOnce, RequestsBounded
<1>2. CASE ~(attempt + 1 < MaxRetry)
  BY <1>2, FailKeeps DEF Retry
<1> QED BY <1>1, <1>2

\* Moving on within the attempt changes nothing else.
LEMMA GotoKeeps ==
  ASSUME Inv, NEW from, NEW to, Goto(from, to), from # "idle",
         to \in {"throttle", "wait", "retryAfter"},
         from \in {"sent", "retryAfter"} <=> to = "retryAfter"
  PROVE  Inv'
BY DEF Goto, aux, Inv, TypeOK, Ranked, Reading, SentSoFar, Ahead, SteadyListed, SteadyOnce,
       RequestsBounded

LEMMA FetchYearKeeps ==
  ASSUME Inv, FetchYear
  PROVE  Inv'
<1>1. (1 - 1) * PerPage = 0 /\ MaxRetry * (1 - 1) = 0 /\ MaxRetry * 1 = MaxRetry
  OBVIOUS
<1> QED
  BY <1>1 DEF FetchYear, Unlisted, Inv, TypeOK, Ranked, Reading, SentSoFar, Ahead,
              SteadyListed, SteadyOnce, RequestsBounded

LEMMA SendKeeps ==
  ASSUME Inv, Send
  PROVE  Inv'
<1>1. sent + 1 <= MaxRetry * page
  BY NextPageRequests DEF Inv, TypeOK, Reading, SentSoFar, Send
<1> QED
  BY <1>1 DEF Send, aux, Inv, TypeOK, Ranked, Reading, SentSoFar, Ahead, SteadyListed,
              SteadyOnce, RequestsBounded

\* The page being read is where the shows read meet those still ahead.
LEMMA AnsweredKeeps ==
  ASSUME Inv, Answered
  PROVE  Inv'
<1> USE DEF Inv, TypeOK
<1> DEFINE before == (page - 1) * PerPage
           upto == page * PerPage
<1>1. before \in Nat /\ upto \in Nat /\ before < upto /\ ((page + 1) - 1) * PerPage = upto
  BY NextPageStarts
<1>2. pc = "sent" /\ rank' = rank /\ risen' = risen /\ fallen' = fallen /\ sent' = sent
        /\ ctxDone' = ctxDone
  BY DEF Answered, aux
<1>3. got' \in [Shows -> Nat]
  BY DEF Answered, Append
<1>4. \A s \in Shows \ risen : got'[s] > 0 \/ rank[s] > upto
  <2> SUFFICES ASSUME NEW s \in Shows \ risen, ~(rank[s] > upto)
               PROVE  got'[s] > 0
    OBVIOUS
  <2>1. got[s] > 0 \/ rank[s] > before
    BY <1>2 DEF Reading, Ahead
  <2>2. rank[s] \in Nat /\ got[s] \in Nat
    OBVIOUS
  <2>3. CASE s \in Page
    BY <2>2, <2>3 DEF Answered, Append
  <2>4. CASE s \notin Page
    BY <1>1, <2>1, <2>2, <2>4 DEF Answered, Append, Page
  <2> QED BY <2>3, <2>4
<1>5. \A s \in Shows \ fallen : got'[s] = 0 \/ (got'[s] = 1 /\ ~(rank[s] > upto))
  <2> SUFFICES ASSUME NEW s \in Shows \ fallen
               PROVE  got'[s] = 0 \/ (got'[s] = 1 /\ ~(rank[s] > upto))
    OBVIOUS
  <2>1. got[s] = 0 \/ (got[s] = 1 /\ ~(rank[s] > before))
    BY <1>2 DEF Reading, Ahead
  <2>2. rank[s] \in Nat /\ got[s] \in Nat
    OBVIOUS
  <2>3. CASE s \in Page
    BY <1>1, <2>1, <2>2, <2>3 DEF Answered, Append, Page
  <2>4. CASE s \notin Page
    BY <1>1, <2>1, <2>2, <2>4 DEF Answered, Append
  <2> QED BY <2>3, <2>4
<1>6. sent <= MaxRetry * page /\ MaxRetry * (page + 1) = MaxRetry * page + MaxRetry
        /\ MaxRetry * ((page + 1) - 1) = MaxRetry * page /\ MaxRetry * page \in Nat
  BY NextPageRequests DEF RequestsBounded
<1>7. CASE HasNextPage
  <2>1. pc' = "page" /\ page' = page + 1 /\ attempt' = 0 /\ outcome' = outcome
    BY <1>7 DEF Answered
  <2>2. upto < Cardinality(Shows)
    <3>1. PICK s \in Shows : rank[s] > upto
      BY <1>7 DEF HasNextPage
    <3>2. rank[s] \in Nat /\ rank[s] <= Cardinality(Shows)
      BY DEF Ranked
    <3> QED BY <3>1, <3>2, <1>1, ShowCount
  <2>3. RequestsBounded'
    BY <1>1, <1>2, <1>6, <2>1, <2>2 DEF RequestsBounded
  <2>4. SentSoFar'
    BY <1>2, <1>6, <2>1 DEF SentSoFar
  <2>5. Reading' /\ SteadyListed' /\ SteadyOnce'
    BY <1>1, <1>2, <1>4, <1>5, <2>1, <2>4 DEF Reading, Ahead, SteadyListed, SteadyOnce
  <2> QED BY <1>2, <1>3, <2>1, <2>3, <2>5 DEF Ranked
<1>8. CASE ~HasNextPage
  <2>1. pc' = "idle" /\ page' = page /\ attempt' = attempt /\ outcome' = "ok"
    BY <1>8 DEF Answered
  <2>2. \A s \in Shows : ~(rank[s] > upto)
    BY <1>8 DEF HasNextPage
  <2>3. SteadyListed' /\ SteadyOnce' /\ Reading' /\ RequestsBounded'
    BY <1>2, <1>3, <1>4, <1>5, <2>1, <2>2 DEF Reading, SteadyListed, SteadyOnce, RequestsBounded
  <2> QED BY <1>2, <1>3, <2>1, <2>3 DEF Ranked
<1> QED BY <1>7, <1>8

\* A change of the list moves a show only in the direction that is recorded.
LEMMA PublishKeeps ==
  ASSUME Inv, pc # "idle", Publish
  PROVE  Inv'
<1> USE DEF Inv, TypeOK
<1>1. rank' \in [Shows -> Nat] /\ Ranked'
  BY RankingRange DEF Publish, Ranked
<1>2. UNCHANGED <<pc, page, attempt, got, outcome, ctxDone, sent>>
  BY DEF Publish, local
<1>3. \A s \in Shows \ risen' : s \notin risen /\ rank'[s] >= rank[s]
  BY <1>1 DEF Publish
<1>4. \A s \in Shows \ fallen' : s \notin fallen /\ rank'[s] <= rank[s]
  BY <1>1 DEF Publish
<1>5. risen' \subseteq Shows /\ fallen' \subseteq Shows
  BY DEF Publish
<1>6. (page - 1) * PerPage \in Nat
  BY NextPageStarts
<1>7. \A s \in Shows \ risen' : got[s] > 0 \/ rank'[s] > (page - 1) * PerPage
  BY <1>1, <1>3, <1>6 DEF Reading, Ahead
<1>8. \A s \in Shows \ fallen' :
        got[s] = 0 \/ (got[s] = 1 /\ ~(rank'[s] > (page - 1) * PerPage))
  BY <1>1, <1>4, <1>6 DEF Reading, Ahead
<1>9. Reading' /\ SteadyListed' /\ SteadyOnce' /\ RequestsBounded'
  BY <1>2, <1>7, <1>8 DEF Reading, Ahead, SentSoFar, SteadyListed, SteadyOnce, RequestsBounded
<1> QED BY <1>1, <1>2, <1>5, <1>9

LEMMA InvStep ==
  ASSUME Inv, [Next]_vars
  PROVE  Inv'
<1>1. ASSUME CallStep PROVE Inv'
  <2>1. CASE NextPage \/ BackedOff \/ Throttle \/ RateLimited
    BY <2>1, GotoKeeps DEF NextPage, BackedOff, Throttle, RateLimited
  <2>2. CASE Send
    BY <2>2, SendKeeps
  <2>3. CASE SendRefused \/ Disturbed \/ RetryAfterOver
    BY <2>3, RetryKeeps DEF SendRefused, Disturbed, RetryAfterOver
  <2>4. CASE ContextDone \/ Refused
    BY <2>4, FailKeeps DEF ContextDone, Refused
  <2>5. CASE Answered
    BY <2>5, AnsweredKeeps
  <2> QED BY <1>1, <2>1, <2>2, <2>3, <2>4, <2>5 DEF CallStep
<1>2. ASSUME Cancel \/ UNCHANGED vars PROVE Inv'
  BY <1>2 DEF Cancel, vars, local, aux, Inv, TypeOK, Ranked, Reading, SentSoFar, Ahead,
              SteadyListed, SteadyOnce, RequestsBounded
<1> QED BY <1>1, <1>2, FetchYearKeeps, PublishKeeps DEF Next

LEMMA Invariance == Spec => []Inv
BY InvInit, InvStep, PTL DEF Spec

\* Every reachable state of a call is well typed, for any shows and page size.
THEOREM ClientTypeCorrect == Spec => []TypeOK
<1>1. Inv => TypeOK
  BY DEF Inv
<1> QED BY <1>1, Invariance, PTL

\* A show that was listed from the start of the call and never moved up is in
\* what FetchYear returns, however the list changes between the pages.
THEOREM NothingSteadyIsLost == Spec => []SteadyListed
<1>1. Inv => SteadyListed
  BY DEF Inv
<1> QED BY <1>1, Invariance, PTL

\* A show that never moved down is in it once at most.
THEOREM NothingSteadyIsDoubled == Spec => []SteadyOnce
<1>1. Inv => SteadyOnce
  BY DEF Inv
<1> QED BY <1>1, Invariance, PTL

\* A call sends at most MaxRetry requests for each page of the longest list.
THEOREM RequestsAreBounded == Spec => []RequestsBounded
<1>1. Inv => RequestsBounded
  BY DEF Inv
<1> QED BY <1>1, Invariance, PTL
=============================================================================
