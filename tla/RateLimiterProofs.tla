-------------------------- MODULE RateLimiterProofs --------------------------
(***************************************************************************)
(* Requests that took their token at the tight limit are Long apart, for   *)
(* any number of goroutines and any gaps.  What each reservation relies on *)
(* is the bucket: its tokens are low enough to make the next one wait for  *)
(* Long after every reservation that is still waited for (Debt), and after *)
(* the latest request that was sent (Paid).                                *)
(***************************************************************************)
EXTENDS RateLimiter, FiniteSetTheorems, TLAPS

USE TimesAssumption

Pending(g) == pc[g] = "wait" /\ own[g]

\* Reservations that are waited for are Long apart, and from the latest request.
Apart ==
    \A g, h \in Goroutines : g # h /\ Pending(g) /\ Pending(h) =>
        left[g] >= left[h] + Long \/ left[h] >= left[g] + Long
Behind == \A g \in Goroutines : Pending(g) => left[g] + sinceOwn >= Long

Debt ==
    limit = Long =>
        \A g \in Goroutines : Pending(g) => tokens + Short * left[g] < Short
Paid == limit = Long /\ sinceOwn < Long => tokens < Short * sinceOwn + Short

Inv == LimiterTypeOK /\ Apart /\ Behind /\ Debt /\ Paid

\* A tick's worth of tokens at the tight limit.
LEMMA OneMore ==
  ASSUME NEW x \in Int
  PROVE  /\ Short * x \in Int
         /\ Short * (x + 1) = Short * x + Short
         /\ Short * (x - 1) = Short * x - Short
OBVIOUS

\* Multiples of Short are ordered as their factors.
LEMMA FactorLess ==
  ASSUME NEW x \in Int, NEW y \in Int, Short * x < Short * y
  PROVE  x < y
<1>1. SUFFICES ASSUME x >= y PROVE FALSE
  OBVIOUS
<1>2. Short * (x - y) >= 0
  BY <1>1
<1>3. Short * (x - y) = Short * x - Short * y
  OBVIOUS
<1> QED BY <1>2, <1>3

LEMMA InvInit == Init => Inv
<1> SUFFICES ASSUME Init PROVE Inv
  OBVIOUS
<1>1. Cost \in Nat
  BY DEF Cost
<1>2. own \in [Goroutines -> BOOLEAN]
  BY Zenon DEF Init
<1>3. LimiterTypeOK
  BY <1>1, <1>2 DEF Init, LimiterTypeOK
<1>4. \A g \in Goroutines : ~Pending(g)
  BY DEF Init, Pending
<1> QED BY <1>3, <1>4 DEF Init, Inv, Apart, Behind, Debt, Paid

\* Tightening the limit begins anew; relaxing it leaves the reservations alone.
LEMMA ThrottleKeeps ==
  ASSUME Inv, NEW g \in Goroutines, Throttle(g)
  PROVE  Inv'
<1> USE DEF Inv, LimiterTypeOK, Throttle, SetLimit
<1>1. /\ tokens' = tokens /\ left' = left /\ sinceSent' = sinceSent
      /\ sinceLimited' = sinceLimited /\ limit' \in {Short, Long}
      /\ \A h \in Goroutines : pc'[h] = "wait" => pc[h] = "wait"
  OBVIOUS
<1>2. pc' \in [Goroutines -> {"idle", "limited", "wait", "sent"}]
  OBVIOUS
<1>3. CASE limit' = Long /\ limit = Short
  <2>1. own' = [h \in Goroutines |-> FALSE] /\ sinceOwn' = Long /\ strays' = 0
    BY <1>3
  <2>2. own' \in [Goroutines -> BOOLEAN]
    BY <2>1, Zenon
  <2>3. \A h \in Goroutines : ~(Pending(h)')
    BY <2>1, Zenon DEF Pending
  <2>4. LimiterTypeOK'
    BY <1>1, <1>2, <2>1, <2>2
  <2>5. Apart' /\ Behind' /\ Debt' /\ Paid'
    BY <2>1, <2>3 DEF Apart, Behind, Debt, Paid
  <2> QED BY <2>4, <2>5
<1>4. CASE ~(limit' = Long /\ limit = Short)
  <2>1. own' = own /\ sinceOwn' = sinceOwn /\ strays' = strays
    BY <1>4
  <2>2. limit' = Long => limit = Long
    BY <1>4
  <2>3. \A h \in Goroutines : Pending(h)' => Pending(h)
    BY <1>1, <2>1 DEF Pending
  <2>4. LimiterTypeOK'
    BY <1>1, <1>2, <2>1
  <2>5. Apart' /\ Behind' /\ Debt' /\ Paid'
    BY <1>1, <2>1, <2>2, <2>3 DEF Apart, Behind, Debt, Paid
  <2> QED BY <2>4, <2>5
<1> QED BY <1>3, <1>4

\* A token taken at the tight limit is Long away from all that were taken before.
LEMMA ReserveKeeps ==
  ASSUME Inv, NEW g \in Goroutines, Reserve(g)
  PROVE  Inv'
<1> USE DEF Inv, LimiterTypeOK
<1>1. PICK d \in FirstTick(Lacking(tokens')) : left' = [left EXCEPT ![g] = d]
  BY DEF Reserve
<1>2. /\ tokens' = tokens - Cost /\ limit' = limit /\ sinceOwn' = sinceOwn
      /\ strays' = strays /\ sinceSent' = sinceSent /\ sinceLimited' = sinceLimited
      /\ pc' = [pc EXCEPT ![g] = "wait"]
  BY DEF Reserve
<1>3. own' = [own EXCEPT ![g] = (limit = Long)]
  BY DEF Reserve
<1>4. Cost \in Nat /\ Cost = Short * Long
  BY DEF Cost
<1>5. tokens' \in Int /\ tokens' <= 0 /\ Lacking(tokens') = Cost - tokens
  BY <1>2, <1>4 DEF Lacking
<1>6. d \in Nat /\ (limit = Long => Short * d >= Cost - tokens /\ Short * (d - 1) < Cost - tokens)
  BY <1>1, <1>5, <1>4 DEF FirstTick, Gain
<1>7. own' \in [Goroutines -> BOOLEAN]
  BY <1>3
<1>8. LimiterTypeOK'
  <2>1. left' \in [Goroutines -> Nat]
    BY <1>1, <1>6
  <2>2. pc' \in [Goroutines -> {"idle", "limited", "wait", "sent"}]
    BY <1>2
  <2>3. tokens' \in Int /\ tokens' <= Cost
    BY <1>4, <1>5
  <2> QED BY <1>2, <1>7, <2>1, <2>2, <2>3
<1>9. \A h \in Goroutines \ {g} : (Pending(h)' <=> Pending(h)) /\ left'[h] = left[h]
  BY <1>1, <1>2, <1>3 DEF Pending
<1>10. left'[g] = d /\ (Pending(g)' => limit = Long)
  BY <1>1, <1>3 DEF Pending
<1>11. ASSUME limit = Long, NEW h \in Goroutines \ {g}, Pending(h)
       PROVE  d >= left[h] + Long
  <2>1. left[h] \in Nat /\ tokens + Short * left[h] < Short
    BY <1>11 DEF Debt
  <2>2. Short * d > Short * Long + Short * left[h] - Short
    BY <1>4, <1>6, <1>11, <2>1, OneMore
  <2>3. Short * (left[h] + Long - 1) = Short * Long + Short * left[h] - Short
    BY <2>1
  <2> QED BY <1>6, <2>1, <2>2, <2>3, FactorLess
<1>12. ASSUME limit = Long, sinceOwn < Long
       PROVE  d + sinceOwn >= Long
  <2>1. tokens < Short * sinceOwn + Short
    BY <1>12 DEF Paid
  <2>2. Short * d > Short * Long - Short * sinceOwn - Short
    BY <1>4, <1>6, <1>12, <2>1, OneMore
  <2>3. Short * (Long - sinceOwn - 1) = Short * Long - Short * sinceOwn - Short
    OBVIOUS
  <2> QED BY <1>6, <2>2, <2>3, FactorLess
<1>13. Apart'
  BY <1>9, <1>10, <1>11 DEF Apart
<1>14. Behind'
  BY <1>2, <1>6, <1>9, <1>10, <1>12 DEF Behind
<1>15. Debt'
  <2> SUFFICES ASSUME limit = Long, NEW h \in Goroutines, Pending(h)'
               PROVE  tokens' + Short * left'[h] < Short
    BY <1>2 DEF Debt
  <2>1. CASE h = g
    <3>1. Short * (d - 1) = Short * d - Short /\ Short * d \in Int
      BY <1>6, OneMore
    <3> QED BY <2>1, <3>1, <1>2, <1>4, <1>5, <1>6, <1>10
  <2>2. CASE h # g
    <3>1. tokens + Short * left[h] < Short /\ Short * left[h] \in Int
      BY <2>2, <1>9, OneMore DEF Debt
    <3> QED BY <2>2, <3>1, <1>2, <1>4, <1>9
  <2> QED BY <2>1, <2>2
<1>16. Paid'
  BY <1>2, <1>4, OneMore DEF Paid
<1> QED BY <1>8, <1>13, <1>14, <1>15, <1>16

LEMMA SendKeeps ==
  ASSUME Inv, NEW g \in Goroutines, Send(g)
  PROVE  Inv'
<1> USE DEF Inv, LimiterTypeOK
<1>1. /\ pc[g] = "wait" /\ left[g] = 0 /\ pc' = [pc EXCEPT ![g] = "sent"]
      /\ sinceSent' = 0 /\ strays' \in Nat
      /\ UNCHANGED <<sinceLimited, limit, tokens, left, own>>
  BY DEF Send
<1>2. \A h \in Goroutines : Pending(h)' => Pending(h) /\ h # g
  BY <1>1 DEF Pending
<1>3. CASE own[g]
  <2>1. sinceOwn' = 0 /\ Pending(g)
    BY <1>1, <1>3 DEF Send, Pending
  <2>2. LimiterTypeOK'
    BY <1>1, <2>1
  <2>3. Behind'
    <3> SUFFICES ASSUME NEW h \in Goroutines, Pending(h)'
                 PROVE  left[h] >= Long
      BY <1>1, <2>1 DEF Behind
    <3> QED BY <1>1, <1>2, <2>1 DEF Apart
  <2>4. Paid'
    <3>1. limit = Long => tokens < Short
      BY <1>1, <2>1 DEF Debt
    <3> QED BY <1>1, <2>1, <3>1 DEF Paid
  <2>5. Apart' /\ Debt'
    BY <1>1, <1>2 DEF Apart, Debt
  <2> QED BY <2>2, <2>3, <2>4, <2>5
<1>4. CASE ~own[g]
  <2>1. sinceOwn' = sinceOwn
    BY <1>4 DEF Send
  <2>2. LimiterTypeOK'
    BY <1>1, <2>1
  <2>3. Apart' /\ Behind' /\ Debt' /\ Paid'
    BY <1>1, <1>2, <2>1 DEF Apart, Behind, Debt, Paid
  <2> QED BY <2>2, <2>3
<1> QED BY <1>3, <1>4

LEMMA AnsweredKeeps ==
  ASSUME Inv, NEW g \in Goroutines, Answered(g)
  PROVE  Inv'
<1> USE DEF Inv, LimiterTypeOK
<1>1. /\ pc' = [pc EXCEPT ![g] = "idle"] /\ sinceLimited' \in 0 .. Window
      /\ UNCHANGED <<limit, tokens, left, own, sinceSent, sinceOwn, strays>>
  BY DEF Answered, aux
<1>2. \A h \in Goroutines : Pending(h)' => Pending(h)
  BY <1>1 DEF Pending
<1>3. LimiterTypeOK'
  BY <1>1
<1> QED BY <1>1, <1>2, <1>3 DEF Apart, Behind, Debt, Paid

\* A tick shortens every wait by what it brings the bucket.
LEMMA TickKeeps ==
  ASSUME Inv, Tick
  PROVE  Inv'
<1> USE DEF Inv, LimiterTypeOK
<1>1. Gain(limit) \in Nat /\ Cost \in Nat /\ (limit = Long => Gain(limit) = Short)
  BY DEF Gain, Cost
<1>2. tokens' \in Int /\ tokens' <= Cost /\ tokens' <= tokens + Gain(limit)
  BY <1>1 DEF Tick
<1>3. UNCHANGED <<limit, pc, own, strays>>
  BY DEF Tick
<1>4. /\ sinceLimited' \in 0 .. Window /\ sinceSent' \in 0 .. Long /\ sinceOwn' \in 0 .. Long
      /\ sinceOwn' = (IF sinceOwn < Long THEN sinceOwn + 1 ELSE Long)
  BY DEF Tick, Later
<1>5. left' \in [Goroutines -> Nat]
  BY DEF Tick
<1>6. LimiterTypeOK'
  BY <1>2, <1>3, <1>4, <1>5
<1>7. \A g \in Goroutines : Pending(g)' => Pending(g) /\ left[g] > 0 /\ left'[g] = left[g] - 1
  BY <1>3 DEF Tick, Pending
<1>8. Apart' /\ Behind'
  BY <1>4, <1>7 DEF Apart, Behind
<1>9. Debt'
  <2> SUFFICES ASSUME limit = Long, NEW g \in Goroutines, Pending(g)'
               PROVE  tokens' + Short * left'[g] < Short
    BY <1>3 DEF Debt
  <2>1. left[g] \in Nat /\ left'[g] = left[g] - 1 /\ tokens + Short * left[g] < Short
    BY <1>7 DEF Debt
  <2>2. Short * (left[g] - 1) = Short * left[g] - Short /\ Short * left[g] \in Int
    BY <2>1, OneMore
  <2> QED BY <1>1, <1>2, <2>1, <2>2
<1>10. Paid'
  <2> SUFFICES ASSUME limit = Long, sinceOwn' < Long
               PROVE  tokens' < Short * sinceOwn' + Short
    BY <1>3 DEF Paid
  <2>1. sinceOwn < Long /\ sinceOwn' = sinceOwn + 1
    BY <1>4
  <2>2. tokens < Short * sinceOwn + Short
    BY <2>1 DEF Paid
  <2>3. Short * (sinceOwn + 1) = Short * sinceOwn + Short /\ Short * sinceOwn \in Int
    BY OneMore
  <2> QED BY <1>1, <1>2, <2>1, <2>2, <2>3
<1> QED BY <1>6, <1>8, <1>9, <1>10

LEMMA InvStep ==
  ASSUME Inv, [Next]_vars
  PROVE  Inv'
<1>1. CASE UNCHANGED vars
  BY <1>1 DEF vars, aux, Inv, LimiterTypeOK, Apart, Behind, Debt, Paid, Pending
<1> QED
  BY <1>1, ThrottleKeeps, ReserveKeeps, SendKeeps, AnsweredKeeps, TickKeeps DEF Next

LEMMA Invariance == Spec => []Inv
BY InvInit, InvStep, PTL DEF Spec

\* The limiter's state is well typed, for any number of goroutines and any gaps.
THEOREM LimiterTypeCorrect == Spec => []LimiterTypeOK
<1>1. Inv => LimiterTypeOK
  BY DEF Inv
<1> QED BY <1>1, Invariance, PTL

\* Two requests that took their token since the limit was last tightened are Long
\* apart, however many goroutines take turns and however the clock runs.
THEOREM TightRequestsSpaced == Spec => TightSpacing
<1>1. ASSUME Inv, Next, NEW g \in Goroutines, pc[g] = "wait", pc'[g] = "sent", own[g]
      PROVE  sinceOwn >= Long
  <2>1. Send(g)
    BY <1>1 DEF Next, Throttle, Reserve, Send, Answered, Tick, Inv, LimiterTypeOK
  <2> QED BY <1>1, <2>1 DEF Send, Inv, LimiterTypeOK, Behind, Pending
<1>2. Inv /\ [Next]_vars =>
        [\A g \in Goroutines :
            pc[g] = "wait" /\ pc'[g] = "sent" /\ own[g] => sinceOwn >= Long]_vars
  BY <1>1
<1> QED BY <1>2, Invariance, PTL DEF Spec, TightSpacing

-----------------------------------------------------------------------------
\* Those that wait for a reservation from before the limit was last tightened.
Early == {g \in Goroutines : pc[g] = "wait" /\ ~own[g]}

\* The latest request is so recent that the next may be a stray, and is not one of
\* those that the tight limit spaced.
Close == sinceSent < Long /\ sinceSent # sinceOwn
CloseBy == IF Close THEN 1 ELSE 0

\* Each of the early ones may still make two strays, and one follows a close request.
StrayInv ==
    /\ strays <= 2 * Cardinality(Goroutines) - 1
    /\ limit = Long =>
          strays + 2 * Cardinality(Early) + CloseBy <= 2 * Cardinality(Goroutines) - 1

LEMMA EarlyFinite ==
  /\ IsFiniteSet(Early) /\ Cardinality(Early) \in Nat
  /\ Cardinality(Goroutines) \in Nat \ {0}
<1>1. Early \in SUBSET Goroutines
  BY DEF Early
<1> QED
  BY <1>1, GoroutinesAssumption, FS_Subset, FS_CardinalityType, FS_EmptySet

\* Whoever tightens the limit does not wait for a reservation.
LEMMA ThrottleStrays ==
  ASSUME Inv, StrayInv, NEW g \in Goroutines, Throttle(g)
  PROVE  StrayInv'
<1>1. /\ pc[g] = "idle" /\ pc' = [pc EXCEPT ![g] = "limited"] /\ sinceSent' = sinceSent
      /\ limit' \in {Short, Long}
  BY DEF Throttle, SetLimit
<1>2. pc \in [Goroutines -> {"idle", "limited", "wait", "sent"}] /\ strays \in Nat
  BY DEF Inv, LimiterTypeOK
<1>3. CASE limit' = Long /\ limit = Short
  <2>1. strays' = 0
    BY <1>3 DEF Throttle, SetLimit
  <2>2. Early' \in SUBSET (Goroutines \ {g})
    BY <1>1, <1>2 DEF Early
  <2>3. /\ IsFiniteSet(Goroutines \ {g})
        /\ Cardinality(Goroutines \ {g}) = Cardinality(Goroutines) - 1
    BY GoroutinesAssumption, FS_RemoveElement
  <2>4. Cardinality(Early') <= Cardinality(Goroutines) - 1 /\ Cardinality(Early') \in Nat
    BY <2>2, <2>3, FS_Subset, FS_CardinalityType
  <2>5. CloseBy' \in {0, 1}
    BY DEF CloseBy
  <2> QED
    BY <2>1, <2>4, <2>5, EarlyFinite DEF StrayInv
<1>4. CASE ~(limit' = Long /\ limit = Short)
  <2>1. own' = own /\ sinceOwn' = sinceOwn /\ strays' = strays
    BY <1>4 DEF Throttle, SetLimit
  <2>2. Early' = Early
    BY <1>1, <1>2, <2>1 DEF Early
  <2>3. CloseBy' = CloseBy
    BY <1>1, <2>1 DEF CloseBy, Close
  <2>4. limit' = Long => limit = Long
    BY <1>4 DEF Inv, LimiterTypeOK
  <2> QED
    BY <2>1, <2>2, <2>3, <2>4 DEF StrayInv
<1> QED BY <1>3, <1>4

LEMMA SendStrays ==
  ASSUME Inv, StrayInv, NEW g \in Goroutines, Send(g)
  PROVE  StrayInv'
<1>1. /\ pc[g] = "wait" /\ left[g] = 0 /\ pc' = [pc EXCEPT ![g] = "sent"]
      /\ sinceSent' = 0 /\ limit' = limit /\ own' = own
      /\ sinceOwn' = IF own[g] THEN 0 ELSE sinceOwn
      /\ strays' = IF limit = Long /\ sinceSent < Long THEN strays + 1 ELSE strays
  BY DEF Send
<1>2. /\ pc \in [Goroutines -> {"idle", "limited", "wait", "sent"}] /\ strays \in Nat
      /\ sinceSent \in 0 .. Long /\ sinceOwn \in 0 .. Long /\ limit \in {Short, Long}
  BY DEF Inv, LimiterTypeOK
<1>3. Early' = Early \ {g}
  BY <1>1, <1>2 DEF Early
<1>4. CloseBy \in {0, 1} /\ CloseBy' \in {0, 1}
  BY DEF CloseBy
<1>5. CASE limit # Long
  BY <1>1, <1>5 DEF StrayInv
<1>6. CASE limit = Long /\ own[g]
  <2>1. sinceOwn >= Long
    BY <1>1, <1>2, <1>6 DEF Inv, Behind, Pending
  <2>2. strays' <= strays + CloseBy /\ strays' \in Nat
    BY <1>1, <1>2, <2>1 DEF CloseBy, Close
  <2>3. CloseBy' = 0
    BY <1>1, <1>6 DEF CloseBy, Close
  <2>4. Early' = Early
    BY <1>3, <1>6 DEF Early
  <2> QED
    BY <1>1, <1>2, <1>4, <1>6, <2>2, <2>3, <2>4, EarlyFinite DEF StrayInv
<1>7. CASE limit = Long /\ ~own[g]
  <2>1. g \in Early
    BY <1>1, <1>7 DEF Early
  <2>2. Cardinality(Early') = Cardinality(Early) - 1
    BY <1>3, <2>1, EarlyFinite, FS_RemoveElement
  <2>3. strays' <= strays + 1 /\ strays' \in Nat
    BY <1>1, <1>2
  <2>4. strays + 2 * Cardinality(Early) + CloseBy <= 2 * Cardinality(Goroutines) - 1
    BY <1>7 DEF StrayInv
  <2>5. strays' + 2 * Cardinality(Early') + CloseBy' <= 2 * Cardinality(Goroutines) - 1
    BY <1>2, <1>4, <2>2, <2>3, <2>4, EarlyFinite
  <2>6. Cardinality(Early') \in Nat
    BY <2>1, <2>2, EarlyFinite, FS_EmptySet
  <2>7. strays' <= 2 * Cardinality(Goroutines) - 1
    BY <1>4, <2>3, <2>5, <2>6, EarlyFinite
  <2> QED
    BY <2>5, <2>7 DEF StrayInv
<1> QED BY <1>5, <1>6, <1>7

LEMMA OthersStrays ==
  ASSUME Inv, StrayInv,
         Tick \/ (\E g \in Goroutines : Reserve(g) \/ Answered(g)) \/ UNCHANGED vars
  PROVE  StrayInv'
<1>1. /\ pc \in [Goroutines -> {"idle", "limited", "wait", "sent"}]
      /\ own \in [Goroutines -> BOOLEAN]
      /\ sinceSent \in 0 .. Long /\ sinceOwn \in 0 .. Long /\ limit \in {Short, Long}
  BY DEF Inv, LimiterTypeOK
<1>2. strays' = strays /\ limit' = limit
  BY DEF Tick, Reserve, Answered, vars, aux
<1>3. limit = Long => Early' \in SUBSET Early
  <2>1. CASE Tick \/ UNCHANGED vars
    BY <2>1 DEF Tick, vars, aux, Early
  <2>2. ASSUME NEW g \in Goroutines, Reserve(g), limit = Long
        PROVE  Early' \in SUBSET Early
    <3>1. own' = [own EXCEPT ![g] = (limit = Long)] /\ pc' = [pc EXCEPT ![g] = "wait"]
      BY <2>2 DEF Reserve
    <3>2. own'[g]
      BY <1>1, <2>2, <3>1
    <3>3. \A h \in Goroutines : h # g => own'[h] = own[h] /\ pc'[h] = pc[h]
      BY <1>1, <3>1
    <3> QED
      BY <3>2, <3>3 DEF Early
  <2>3. ASSUME NEW g \in Goroutines, Answered(g)
        PROVE  Early' \in SUBSET Early
    BY <1>1, <2>3 DEF Answered, aux, Early
  <2> QED BY <2>1, <2>2, <2>3
<1>4. limit = Long => Cardinality(Early') <= Cardinality(Early) /\ Cardinality(Early') \in Nat
  BY <1>3, EarlyFinite, FS_Subset, FS_CardinalityType
<1>5. CloseBy' <= CloseBy /\ CloseBy \in {0, 1} /\ CloseBy' \in {0, 1}
  BY <1>1 DEF Tick, Later, Reserve, Answered, vars, aux, CloseBy, Close
<1>6. strays \in Nat
  BY DEF Inv, LimiterTypeOK
<1> QED
  BY <1>2, <1>4, <1>5, <1>6, EarlyFinite DEF StrayInv

\* Of the requests sent at the tight limit fewer than two for each goroutine come
\* sooner than Long after another.
THEOREM StraysAreBounded == Spec => []StraysBounded
<1>1. Init => StrayInv
  <2> SUFFICES ASSUME Init PROVE StrayInv
    OBVIOUS
  <2>1. strays = 0 /\ limit # Long
    BY DEF Init
  <2> QED
    BY <2>1, EarlyFinite DEF StrayInv
<1>2. Inv /\ StrayInv /\ [Next]_vars => StrayInv'
  BY ThrottleStrays, SendStrays, OthersStrays DEF Next
<1>3. StrayInv => StraysBounded
  BY DEF StrayInv, StraysBounded
<1> QED
  BY <1>1, <1>2, <1>3, Invariance, PTL DEF Spec

-----------------------------------------------------------------------------
\* How long a reservation has to wait before it has paid for itself at the tight
\* limit, in ticks, even if it was made at the relaxed one.
Horizon == Cardinality(Goroutines) * Long

\* The waits, each up to the horizon, as a set: a pair for each tick of them.
Waited == {w \in Goroutines \X (0 .. Horizon - 1) : w[2] < left[w[1]]}

\* What is owed beyond Horizon * Long is covered by what the bucket gains, at the
\* slower rate, while they wait: for N goroutines, N times what it gains in a tick of
\* which all of them wait.
DebtInv ==
    /\ \A g \in Goroutines : pc[g] # "wait" => left[g] = 0
    /\ Cardinality(Goroutines) * (-tokens - Horizon * Long) <= Short * Cardinality(Waited)

LEMMA HorizonNat == Cardinality(Goroutines) \in Nat \ {0} /\ Horizon \in Nat \ {0}
<1>1. Cardinality(Goroutines) \in Nat \ {0}
  BY GoroutinesAssumption, FS_CardinalityType, FS_EmptySet
<1>2. \A n, k \in Nat \ {0} : n * k \in Nat \ {0}
  OBVIOUS
<1> QED BY <1>1, <1>2 DEF Horizon

\* The slots of any set of goroutines.
LEMMA Slots ==
  ASSUME NEW S \in SUBSET Goroutines
  PROVE  /\ IsFiniteSet(S \X (0 .. Horizon - 1))
         /\ Cardinality(S \X (0 .. Horizon - 1)) = Cardinality(S) * Horizon
<1>1. IsFiniteSet(0 .. Horizon - 1) /\ Cardinality(0 .. Horizon - 1) = Horizon
  <2>1. 0 \in Int /\ Horizon - 1 \in Int /\ ~(0 > Horizon - 1) /\ Horizon - 1 - 0 + 1 = Horizon
    BY HorizonNat
  <2> HIDE DEF Horizon
  <2> QED BY <2>1, FS_Interval
<1>2. IsFiniteSet(S)
  BY GoroutinesAssumption, FS_Subset
<1> QED BY <1>1, <1>2, FS_Product

LEMMA WaitedBound ==
  ASSUME NEW W \in SUBSET (Goroutines \X (0 .. Horizon - 1))
  PROVE  /\ IsFiniteSet(W) /\ Cardinality(W) \in Nat
         /\ Cardinality(W) <= Cardinality(Goroutines) * Horizon
<1>1. /\ IsFiniteSet(Goroutines \X (0 .. Horizon - 1))
      /\ Cardinality(Goroutines \X (0 .. Horizon - 1)) = Cardinality(Goroutines) * Horizon
  BY Slots
<1>2. IsFiniteSet(W) /\ Cardinality(W) <= Cardinality(Goroutines) * Horizon
  BY <1>1, FS_Subset
<1> QED BY <1>2, FS_CardinalityType

LEMMA WaitedIsBounded ==
  /\ IsFiniteSet(Waited) /\ Cardinality(Waited) \in Nat
  /\ Cardinality(Waited) <= Cardinality(Goroutines) * Horizon
<1>1. Waited \in SUBSET (Goroutines \X (0 .. Horizon - 1))
  BY DEF Waited
<1> QED BY <1>1, WaitedBound

\* What is owed is bounded, if the waits cover it as in DebtInv.
LEMMA OwedBound ==
  ASSUME NEW t \in Int, NEW c \in Nat, c <= Cardinality(Goroutines) * Horizon,
         Cardinality(Goroutines) * (-t - Horizon * Long) <= Short * c
  PROVE  -t <= Horizon * (Long + Short)
<1> DEFINE n == Cardinality(Goroutines)
<1>1. n \in Nat \ {0} /\ Horizon \in Nat
  BY HorizonNat
<1>2. n * (-t - Horizon * Long) <= Short * (n * Horizon)
  <2>1. Short * c <= Short * (n * Horizon)
    <3>1. \A a, b \in Int : a <= b => Short * a <= Short * b
      OBVIOUS
    <3> QED BY <1>1, <3>1
  <2> QED BY <1>1, <2>1
<1> HIDE DEF n
<1>3. Short * (n * Horizon) = n * (Short * Horizon)
  BY <1>1
<1>4. \A a, b \in Int : n * a <= n * b => a <= b
  <2> SUFFICES ASSUME NEW a \in Int, NEW b \in Int, n * a <= n * b, a > b PROVE FALSE
    OBVIOUS
  <2>1. n * (a - b) > 0 /\ n * (a - b) = n * a - n * b
    BY <1>1
  <2> QED BY <1>1, <2>1
<1>5. -t - Horizon * Long <= Short * Horizon
  BY <1>1, <1>2, <1>3, <1>4
<1>6. Horizon * (Long + Short) = Horizon * Long + Short * Horizon
  BY <1>1
<1> QED BY <1>1, <1>5, <1>6

\* Nothing is owed beyond the horizon, or as much as before.
LEMMA SmallDebt ==
  ASSUME NEW t \in Int, -t <= Horizon * Long
  PROVE  Cardinality(Goroutines) * (-t - Horizon * Long) <= 0
<1>1. \A n \in Nat, k \in Int : k <= 0 => n * k <= 0
  OBVIOUS
<1> QED BY <1>1, HorizonNat

LEMMA ReserveDebt ==
  ASSUME Inv, DebtInv, NEW g \in Goroutines, Reserve(g)
  PROVE  DebtInv'
<1> DEFINE n == Cardinality(Goroutines)
<1>1. PICK d \in FirstTick(Lacking(tokens')) : left' = [left EXCEPT ![g] = d]
  BY DEF Reserve
<1>2. /\ tokens' = tokens - Cost /\ limit' = limit
      /\ pc[g] = "limited" /\ pc' = [pc EXCEPT ![g] = "wait"]
  BY DEF Reserve
<1>3. /\ tokens \in Int /\ tokens <= Cost /\ left \in [Goroutines -> Nat]
      /\ limit \in {Short, Long}
      /\ pc \in [Goroutines -> {"idle", "limited", "wait", "sent"}]
  BY DEF Inv, LimiterTypeOK
<1>4. Cost \in Nat /\ Cost = Short * Long
  BY DEF Cost
<1>5. tokens' \in Int /\ tokens' <= 0 /\ Lacking(tokens') = -tokens'
  BY <1>2, <1>3, <1>4 DEF Lacking
<1>6. d \in Nat /\ Gain(limit) * d >= -tokens'
  BY <1>1, <1>5 DEF FirstTick
<1>7. left[g] = 0 /\ left' \in [Goroutines -> Nat] /\ left'[g] = d
      /\ \A h \in Goroutines : h # g => left'[h] = left[h]
  BY <1>1, <1>2, <1>3, <1>6 DEF DebtInv
<1>8. \A h \in Goroutines : pc'[h] # "wait" => left'[h] = 0
  BY <1>2, <1>3, <1>7 DEF DebtInv
<1>9. n \in Nat \ {0} /\ Horizon \in Nat \ {0} /\ Cardinality(Waited) \in Nat
      /\ n' = n /\ Horizon' = Horizon
  BY HorizonNat, WaitedIsBounded DEF Horizon
<1>10. Cardinality(Waited)' \in Nat
  <2>1. Waited' \in SUBSET (Goroutines \X (0 .. Horizon - 1))
    BY <1>9 DEF Waited
  <2> QED BY <2>1, WaitedBound
<1>11. CASE -tokens' <= Horizon * Long
  <2>1. n * (-tokens' - Horizon * Long) <= 0
    BY <1>5, <1>11, SmallDebt
  <2>2. Short * Cardinality(Waited)' >= 0
    BY <1>10
  <2>3. n * (-tokens' - Horizon * Long) \in Int /\ Short * Cardinality(Waited)' \in Int
    BY <1>5, <1>9, <1>10
  <2> HIDE DEF n
  <2> QED BY <1>8, <1>9, <2>1, <2>2, <2>3 DEF DebtInv, n
<1>12. CASE -tokens' > Horizon * Long
  <2>1. d >= Horizon
    <3>1. Gain(limit) * d <= Long * d
      <4>1. Gain(limit) \in {Short, Long} /\ \A a, b, c \in Nat : a <= b => a * c <= b * c
        BY DEF Gain
      <4> QED BY <1>6, <4>1
    <3>2. Long * d > Horizon * Long
      <4>1. Horizon * Long \in Int /\ Long * d \in Int /\ Gain(limit) * d \in Int
        BY <1>6, <1>9 DEF Gain
      <4> QED BY <1>5, <1>6, <1>12, <3>1, <4>1
    <3>3. SUFFICES ASSUME d < Horizon PROVE FALSE
      BY <1>6, <1>9
    <3>4. Long * (Horizon - d) >= 0 /\ Long * (Horizon - d) = Horizon * Long - Long * d
      BY <1>6, <1>9, <3>3
    <3> QED BY <1>6, <1>9, <3>2, <3>4
  <2>2. Waited' = Waited \cup ({g} \X (0 .. Horizon - 1))
    BY <1>6, <1>7, <1>9, <2>1 DEF Waited
  <2>3. Waited \cap ({g} \X (0 .. Horizon - 1)) = {}
    BY <1>7, <1>9 DEF Waited
  <2>4. /\ IsFiniteSet({g} \X (0 .. Horizon - 1))
        /\ Cardinality({g} \X (0 .. Horizon - 1)) = Horizon
    <3>1. Cardinality({g}) = 1
      BY FS_Singleton
    <3> QED BY <3>1, Slots, HorizonNat
  <2>5. Cardinality(Waited') = Cardinality(Waited) + Horizon
    <3>1. Cardinality(Waited') = Cardinality(Waited) + Horizon - Cardinality({})
      BY <2>2, <2>3, <2>4, WaitedIsBounded, FS_Union
    <3> QED BY <1>9, <3>1, FS_EmptySet
  <2>6. n * (-tokens' - Horizon * Long) = n * (-tokens - Horizon * Long) + n * Cost
    BY <1>2, <1>3, <1>4, <1>9
  <2>7. Short * Cardinality(Waited') = Short * Cardinality(Waited) + Short * Horizon
    BY <1>9, <2>5
  <2>8. n * Cost = Short * Horizon
    <3>1. \A k \in Nat : k * (Short * Long) = Short * (k * Long)
      OBVIOUS
    <3> QED BY <1>4, <1>9, <3>1 DEF Horizon
  <2>9. n * (-tokens - Horizon * Long) <= Short * Cardinality(Waited)
    BY DEF DebtInv
  <2>10. /\ n * (-tokens - Horizon * Long) \in Int /\ Short * Cardinality(Waited) \in Int
         /\ Short * Horizon \in Int
    BY <1>3, <1>9
  <2>11. n * (-tokens' - Horizon * Long) <= Short * Cardinality(Waited')
    BY <2>6, <2>7, <2>8, <2>9, <2>10
  <2> HIDE DEF n
  <2> QED BY <1>8, <1>9, <2>11 DEF DebtInv, n
<1>13. Horizon * Long \in Int
  BY <1>9
<1> HIDE DEF n
<1> QED BY <1>5, <1>11, <1>12, <1>13

\* A tick shortens the waits by a pair each, of N goroutines at most.
LEMMA TickDebt ==
  ASSUME Inv, DebtInv, Tick
  PROVE  DebtInv'
<1> DEFINE n == Cardinality(Goroutines)
           Passed == Waited \ Waited'
           who == [w \in Passed |-> w[1]]
<1>1. /\ tokens' = (IF tokens + Gain(limit) > Cost THEN Cost ELSE tokens + Gain(limit))
      /\ left' = [g \in Goroutines |-> IF left[g] > 0 THEN left[g] - 1 ELSE 0]
      /\ pc' = pc
  BY DEF Tick
<1>2. tokens \in Int /\ left \in [Goroutines -> Nat]
  BY DEF Inv, LimiterTypeOK
<1>3. Gain(limit) \in Nat /\ Gain(limit) >= Short /\ Cost \in Nat
  BY DEF Gain, Cost
<1>4. tokens' \in Int
  BY <1>1, <1>2, <1>3
<1>5. n \in Nat \ {0} /\ Horizon \in Nat \ {0} /\ Cardinality(Waited) \in Nat
      /\ n' = n /\ Horizon' = Horizon
  BY HorizonNat, WaitedIsBounded DEF Horizon
<1>6. \A g \in Goroutines : pc'[g] # "wait" => left'[g] = 0
  BY <1>1, <1>2 DEF DebtInv
<1>7. Waited' \subseteq Waited
  BY <1>1, <1>2, <1>5 DEF Waited
<1>8. \A w \in Passed : w[1] \in Goroutines /\ w[2] = left[w[1]] - 1 /\ w = <<w[1], w[2]>>
  BY <1>1, <1>2, <1>5 DEF Waited
<1>9. who \in Injection(Passed, Goroutines)
  <2>1. who \in [Passed -> Goroutines]
    BY <1>8
  <2>2. ASSUME NEW v \in Passed, NEW w \in Passed, who[v] = who[w]
        PROVE  v = w
    BY <1>8, <2>2
  <2> HIDE DEF who, Passed
  <2> QED BY <2>1, <2>2 DEF Injection, IsInjective
<1>10. Cardinality(Passed) <= n /\ Cardinality(Passed) \in Nat
  <2>1. IsFiniteSet(Passed) /\ Cardinality(Passed) <= n
    BY <1>9, GoroutinesAssumption, FS_Injection
  <2> QED BY <2>1, FS_CardinalityType
<1>11. Cardinality(Passed) = Cardinality(Waited) - Cardinality(Waited') /\ Cardinality(Waited') \in Nat
  <2>1. Waited \cap Waited' = Waited'
    BY <1>7
  <2>2. IsFiniteSet(Waited')
    BY <1>7, WaitedIsBounded, FS_Subset
  <2> QED BY <2>1, <2>2, WaitedIsBounded, FS_Difference, FS_CardinalityType
<1> HIDE DEF Passed, who
<1>12. CASE -tokens' <= Horizon * Long
  <2>1. n * (-tokens' - Horizon * Long) <= 0
    BY <1>4, <1>12, SmallDebt
  <2>2. Short * Cardinality(Waited') >= 0
    BY <1>11
  <2>3. n * (-tokens' - Horizon * Long) \in Int /\ Short * Cardinality(Waited') \in Int
    BY <1>4, <1>5, <1>11
  <2> HIDE DEF n
  <2> QED BY <1>5, <1>6, <2>1, <2>2, <2>3 DEF DebtInv, n
<1>13. CASE -tokens' > Horizon * Long
  <2>1. Horizon * Long \in Nat
    BY <1>5
  <2>2. tokens' >= tokens + Short
    BY <1>1, <1>2, <1>3, <1>13, <2>1
  <2>3. n * (-tokens' - Horizon * Long) <= n * (-tokens - Horizon * Long) - n * Short
    <3>1. n * (-tokens' - Horizon * Long) <= n * ((-tokens - Horizon * Long) - Short)
      <4>1. \A a, b \in Int : a <= b => n * a <= n * b
        BY <1>5
      <4> QED BY <1>2, <1>4, <1>5, <2>1, <2>2, <4>1
    <3>2. n * ((-tokens - Horizon * Long) - Short) = n * (-tokens - Horizon * Long) - n * Short
      BY <1>2, <1>5, <2>1
    <3> QED BY <3>1, <3>2
  <2>4. Short * Cardinality(Waited') >= Short * Cardinality(Waited) - n * Short
    <3>1. Short * (Cardinality(Waited) - n) <= Short * Cardinality(Waited')
      <4>1. \A a, b \in Int : a <= b => Short * a <= Short * b
        OBVIOUS
      <4> QED BY <1>5, <1>10, <1>11, <4>1
    <3>2. Short * (Cardinality(Waited) - n) = Short * Cardinality(Waited) - n * Short
      BY <1>5
    <3> QED BY <3>1, <3>2
  <2>5. n * (-tokens - Horizon * Long) <= Short * Cardinality(Waited)
    BY DEF DebtInv
  <2>6. /\ n * (-tokens - Horizon * Long) \in Int /\ n * (-tokens' - Horizon * Long) \in Int
        /\ Short * Cardinality(Waited) \in Int /\ Short * Cardinality(Waited') \in Int
        /\ n * Short \in Int
    BY <1>2, <1>4, <1>5, <1>11, <2>1
  <2>7. n * (-tokens' - Horizon * Long) <= Short * Cardinality(Waited')
    BY <2>3, <2>4, <2>5, <2>6
  <2> HIDE DEF n
  <2> QED BY <1>5, <1>6, <2>7 DEF DebtInv, n
<1>14. Horizon * Long \in Int
  BY <1>5
<1> HIDE DEF n
<1> QED BY <1>4, <1>12, <1>13, <1>14

LEMMA DebtInvariant == Spec => []DebtInv
<1>1. Init => DebtInv
  <2> SUFFICES ASSUME Init PROVE DebtInv
    OBVIOUS
  <2>1. tokens \in Int /\ -tokens <= Horizon * Long
    <3>1. tokens = Cost /\ Cost \in Nat /\ Horizon * Long \in Nat
      BY HorizonNat DEF Init, Cost
    <3> QED BY <3>1
  <2>2. Cardinality(Goroutines) * (-tokens - Horizon * Long) <= 0
    BY <2>1, SmallDebt
  <2>3. Short * Cardinality(Waited) >= 0
    BY WaitedIsBounded
  <2>4. Cardinality(Goroutines) * (-tokens - Horizon * Long) \in Int /\ Short * Cardinality(Waited) \in Int
    BY <2>1, HorizonNat, WaitedIsBounded
  <2> QED BY <2>2, <2>3, <2>4 DEF DebtInv, Init
<1>2. Inv /\ DebtInv /\ [Next]_vars => DebtInv'
  <2> SUFFICES ASSUME Inv, DebtInv, [Next]_vars PROVE DebtInv'
    OBVIOUS
  <2>1. ASSUME UNCHANGED <<tokens, left>>,
               \A g \in Goroutines : pc'[g] # "wait" => pc[g] # "wait" \/ left[g] = 0
        PROVE  DebtInv'
    BY <2>1 DEF DebtInv, Waited, Horizon
  <2>2. pc \in [Goroutines -> {"idle", "limited", "wait", "sent"}]
    BY DEF Inv, LimiterTypeOK
  <2>3. ASSUME NEW g \in Goroutines, Throttle(g)
        PROVE  DebtInv'
    BY <2>1, <2>2, <2>3 DEF Throttle
  <2>4. ASSUME NEW g \in Goroutines, Send(g)
        PROVE  DebtInv'
    BY <2>1, <2>2, <2>4 DEF Send
  <2>5. ASSUME NEW g \in Goroutines, Answered(g)
        PROVE  DebtInv'
    BY <2>1, <2>2, <2>5 DEF Answered
  <2>6. CASE UNCHANGED vars
    BY <2>1, <2>2, <2>6 DEF vars
  <2> QED BY <2>3, <2>4, <2>5, <2>6, ReserveDebt, TickDebt DEF Next
<1> QED BY <1>1, <1>2, Invariance, PTL DEF Spec

LEMMA LackingBound ==
  ASSUME NEW t \in Int, NEW b \in Nat, -t <= b
  PROVE  Lacking(t) \in Nat /\ Lacking(t) <= b
BY DEF Lacking

\* WaitBounded, with the horizon.
Near == \A g \in Goroutines : Short * (left[g] - 1) < Horizon * (Long + Short)

LEMMA NearKeeps ==
  ASSUME Inv, Inv', DebtInv', Near, [Next]_vars
  PROVE  Near'
<1> DEFINE Bound == Horizon * (Long + Short)
<1>1. Bound \in Nat \ {0}
  <2>1. \A a, b \in Nat \ {0} : a * b \in Nat \ {0}
    OBVIOUS
  <2> QED BY <2>1, HorizonNat
<1>2. left \in [Goroutines -> Nat] /\ tokens' \in Int
  BY DEF Inv, LimiterTypeOK
<1>3. Near' <=> \A g \in Goroutines : Short * (left'[g] - 1) < Bound
  <2>1. Horizon' = Horizon
    BY DEF Horizon
  <2> QED BY <2>1 DEF Near
<1>4. \A g \in Goroutines : Short * (left[g] - 1) < Bound
  BY DEF Near
<1>5. -tokens' <= Bound
  <2>1. Waited' \in SUBSET (Goroutines \X (0 .. Horizon - 1))
    BY DEF Waited, Horizon
  <2>2. Cardinality(Waited') \in Nat /\ Cardinality(Waited') <= Cardinality(Goroutines) * Horizon
    BY <2>1, WaitedBound
  <2>3. Cardinality(Goroutines) * (-tokens' - Horizon * Long) <= Short * Cardinality(Waited')
    BY DEF DebtInv, Horizon
  <2> QED BY <1>2, <2>2, <2>3, OwedBound
<1> HIDE DEF Bound
<1>6. ASSUME NEW g \in Goroutines, Reserve(g)
      PROVE  Near'
  <2>1. PICK d \in FirstTick(Lacking(tokens')) : left' = [left EXCEPT ![g] = d]
    BY <1>6 DEF Reserve
  <2>2. Lacking(tokens') \in Nat /\ Lacking(tokens') <= Bound
    BY <1>1, <1>2, <1>5, LackingBound
  <2>3. d \in Nat /\ Gain(limit) * (d - 1) < Lacking(tokens')
    BY <2>1, <2>2 DEF FirstTick
  <2>4. Short * (d - 1) < Bound
    <3>1. CASE d = 0
      <4>1. Short * (0 - 1) < 0
        OBVIOUS
      <4> QED BY <1>1, <3>1, <4>1
    <3>2. CASE d # 0
      <4>1. d - 1 \in Nat /\ Gain(limit) \in Nat /\ Short <= Gain(limit)
        BY <2>3, <3>2 DEF Gain
      <4>2. Short * (d - 1) <= Gain(limit) * (d - 1)
        <5>1. \A a, b, c \in Nat : a <= b => a * c <= b * c
          OBVIOUS
        <5> QED BY <4>1, <5>1
      <4>3. Short * (d - 1) \in Int /\ Gain(limit) * (d - 1) \in Int
        BY <4>1
      <4> QED BY <1>1, <2>2, <2>3, <4>2, <4>3
    <3> QED BY <3>1, <3>2
  <2> QED BY <1>2, <1>3, <1>4, <2>1, <2>4
<1>7. CASE Tick
  <2> SUFFICES ASSUME NEW g \in Goroutines PROVE Short * (left'[g] - 1) < Bound
    BY <1>3
  <2>1. left'[g] \in Int /\ left[g] \in Int /\ left'[g] - 1 <= left[g] - 1
    BY <1>2, <1>7 DEF Tick
  <2>2. Short * (left'[g] - 1) <= Short * (left[g] - 1)
    <3>1. \A a, b \in Int : a <= b => Short * a <= Short * b
      OBVIOUS
    <3> QED BY <2>1, <3>1
  <2>3. /\ Short * (left'[g] - 1) \in Int /\ Short * (left[g] - 1) \in Int
        /\ Short * (left[g] - 1) < Bound
    BY <1>4, <2>1
  <2> QED BY <1>1, <2>2, <2>3
<1>8. ASSUME left' = left
      PROVE  Near'
  BY <1>3, <1>4, <1>8
<1> QED BY <1>6, <1>7, <1>8 DEF Next, Throttle, Send, Answered, vars

\* However often the limit is tightened and relaxed, a reservation is never further
\* away than in WaitBounded.
THEOREM WaitsAreBounded == Spec => []WaitBounded
<1>1. Init => Near
  <2>1. \A a, b \in Nat \ {0} : a * b \in Nat \ {0}
    OBVIOUS
  <2>2. Horizon * (Long + Short) \in Nat \ {0}
    BY <2>1, HorizonNat
  <2> QED BY <2>2 DEF Init, Near
<1>2. Inv /\ Inv' /\ DebtInv' /\ Near /\ [Next]_vars => Near'
  BY NearKeeps
<1>3. Near => WaitBounded
  <2>1. Horizon * (Long + Short) = Cardinality(Goroutines) * Long * (Long + Short)
    BY HorizonNat DEF Horizon
  <2> QED BY <2>1 DEF WaitBounded, Near
<1> QED BY <1>1, <1>2, <1>3, Invariance, DebtInvariant, PTL DEF Spec
=============================================================================
