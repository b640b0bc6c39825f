------------------------ MODULE RetryTransportProofs ------------------------
(***************************************************************************)
(* Proofs about RetryTransport, for every number of callers, threshold and *)
(* retry budgets.                                                          *)
(***************************************************************************)
EXTENDS RetryTransport, FiniteSetTheorems, TLAPS

LEMMA Constants ==
  /\ Threshold \in Nat /\ Threshold # 0
  /\ MaxRetries429 \in Nat
  /\ MaxRetries5xx \in Nat
  BY TransportAssumption DEF TransportAssumption

\* A saturating counter moves by at most one.
LEMMA CountToBounds ==
  ASSUME NEW n \in Nat, NEW bound
  PROVE  CountTo(n, bound) \in {n, n + 1}
  BY DEF CountTo

LEMMA TransportInit == Init => InductiveInvariant
<1> SUFFICES ASSUME Init PROVE InductiveInvariant
  OBVIOUS
<1>1. open \in BOOLEAN /\ elapsed \in BOOLEAN /\ healthy \in BOOLEAN
  BY Zenon DEF Init
<1>2. TypeOK
  BY <1>1, Constants DEF Init, TypeOK, Places
<1>3. OpenAtThreshold
  <2>1. open = FALSE /\ ~ (failures >= Threshold)
    BY Constants DEF Init
  <2> QED BY <2>1, Zenon DEF OpenAtThreshold
<1>4. AttemptsCounted
  BY Constants DEF Init, AttemptsCounted
<1> QED
  BY <1>2, <1>3, <1>4 DEF InductiveInvariant

\* What a retry does to the observers.
LEMMA RetryObserved ==
  ASSUME TypeOK, NEW r \in Requests, Retry(r)
  PROVE  /\ late' \in Nat
         /\ attempts' \in [Requests -> Nat]
         /\ attempts'[r] <= attempts[r] + 1
         /\ \A q \in Requests \ {r} : attempts'[q] = attempts[q]
<1>1. late \in Nat /\ attempts \in [Requests -> Nat] /\ attempts[r] \in Nat
  BY DEF TypeOK
<1>2. CountTo(late, Cardinality(Requests) * Budget + 1) \in {late, late + 1}
  BY <1>1, CountToBounds
<1>3. late' \in {late, late + 1}
  <2>1. CASE open
    BY <2>1, <1>2 DEF Retry
  <2>2. CASE ~ open
    BY <2>2 DEF Retry
  <2> QED BY <2>1, <2>2
<1>4. CountTo(attempts[r], Budget + 2) \in {attempts[r], attempts[r] + 1}
  BY <1>1, CountToBounds
<1>5. attempts' = [attempts EXCEPT ![r] = CountTo(attempts[r], Budget + 2)]
  BY DEF Retry
<1> QED
  BY <1>1, <1>3, <1>4, <1>5

LEMMA TransportStep == InductiveInvariant /\ [Next]_vars => InductiveInvariant'
<1> SUFFICES ASSUME TypeOK, OpenAtThreshold, AttemptsCounted, [Next]_vars
             PROVE  InductiveInvariant'
  BY DEF InductiveInvariant
<1> USE Constants
    DEF TypeOK, OpenAtThreshold, AttemptsCounted, InductiveInvariant, Places
<1>1. CASE Elapse
  BY <1>1 DEF Elapse, locals, observers
<1>2. CASE ServerChanges
  BY <1>2 DEF ServerChanges, breaker, locals, observers
<1>3. ASSUME NEW r \in Requests, Reject(r) PROVE InductiveInvariant'
  BY <1>3 DEF Reject, vars, breaker, locals, observers
<1>4. ASSUME NEW r \in Requests, Admit(r) PROVE InductiveInvariant'
  <2>1. open' = FALSE /\ failures' \in Nat /\ late' \in Nat /\ ~ (failures' >= Threshold)
    <3>1. CASE open
      BY <1>4, <3>1 DEF Admit, Passes
    <3>2. CASE ~ open
      BY <1>4, <3>2 DEF Admit, Passes
    <3> QED BY <3>1, <3>2
  <2>2. open' \in BOOLEAN /\ elapsed' \in BOOLEAN /\ healthy' \in BOOLEAN
    BY <1>4, <2>1, Zenon DEF Admit, Passes
  <2>3. /\ at' = [at EXCEPT ![r] = "attempt"]
        /\ retries429' = [retries429 EXCEPT ![r] = 0]
        /\ retries5xx' = [retries5xx EXCEPT ![r] = 0]
        /\ attempts' = [attempts EXCEPT ![r] = 1]
    BY <1>4 DEF Admit, Goto
  <2>4. AttemptsCounted'
    BY <2>3
  <2>5. TypeOK'
    BY <2>1, <2>2, <2>3
  <2>6. OpenAtThreshold'
    BY <2>1
  <2> QED BY <2>4, <2>5, <2>6
<1>5. ASSUME NEW r \in Requests, Succeed(r) PROVE InductiveInvariant'
  <2>1. /\ at' = [at EXCEPT ![r] = "outside"]
        /\ open' = FALSE /\ failures' = 0 /\ late' = 0
        /\ UNCHANGED <<retries429, retries5xx, attempts>>
    BY <1>5 DEF Succeed, Answer, RecordSuccess, Return, Goto
  <2>2. open' \in BOOLEAN /\ elapsed' \in BOOLEAN /\ healthy' \in BOOLEAN
    BY <1>5, <2>1, Zenon DEF Succeed, Answer, RecordSuccess
  <2>3. TypeOK'
    BY <2>1, <2>2
  <2>4. OpenAtThreshold' /\ AttemptsCounted'
    BY <2>1
  <2> QED BY <2>3, <2>4
<1>6. ASSUME NEW r \in Requests, RateLimited(r) PROVE InductiveInvariant'
  <2>1. CASE retries429[r] >= MaxRetries429
    BY <1>6, <2>1 DEF RateLimited, Answer, Return, Goto, breaker
  <2>2. CASE ~ (retries429[r] >= MaxRetries429)
    BY <1>6, <2>2 DEF RateLimited, Answer, Return, Goto, breaker
  <2> QED BY <2>1, <2>2
<1>7. ASSUME NEW r \in Requests, ServerError(r) PROVE InductiveInvariant'
  <2>1. failures' = failures + 1 /\ elapsed' = FALSE /\ late' = late
    BY <1>7 DEF ServerError, RecordFailure
  <2>2. UNCHANGED <<retries429, retries5xx, attempts>>
    BY <1>7 DEF ServerError, Answer
  <2>8. elapsed' \in BOOLEAN /\ healthy' \in BOOLEAN
    BY <1>7, Zenon DEF ServerError, Answer, RecordFailure
  <2>3. \/ at' = [at EXCEPT ![r] = "outside"]
        \/ at' = [at EXCEPT ![r] = "sleep5xx"] /\ retries5xx[r] < MaxRetries5xx
    BY <1>7 DEF ServerError, Return, Goto
  <2>5. AttemptsCounted'
    BY <2>2, <2>3
  <2>6. open' \in BOOLEAN /\ OpenAtThreshold'
    <3>1. CASE failures + 1 >= Threshold
      <4>1. open' = TRUE
        BY <1>7, <3>1 DEF ServerError, RecordFailure
      <4> QED BY <2>1, <3>1, <4>1
    <3>2. CASE ~ (failures + 1 >= Threshold)
      <4>1. open' = open /\ ~ (failures >= Threshold)
        BY <1>7, <3>2 DEF ServerError, RecordFailure
      <4>2. open' = FALSE
        BY <4>1
      <4> QED BY <2>1, <3>2, <4>2
    <3> QED BY <3>1, <3>2
  <2>7. TypeOK'
    BY <2>1, <2>2, <2>3, <2>6, <2>8
  <2> QED BY <2>5, <2>6, <2>7
<1>8. ASSUME NEW r \in Requests, ClientError(r) PROVE InductiveInvariant'
  BY <1>8 DEF ClientError, Answer, Return, Goto, breaker
<1>9. ASSUME NEW r \in Requests, TransportError(r) PROVE InductiveInvariant'
  BY <1>9 DEF TransportError, Return, Goto, breaker
<1>10. ASSUME NEW r \in Requests, Retry429(r) PROVE InductiveInvariant'
  <2>1. late' \in Nat /\ UNCHANGED <<breaker, healthy, retries5xx>>
    BY <1>10, RetryObserved DEF Retry429, Retry
  <2>2. /\ at' = [at EXCEPT ![r] = "attempt"]
        /\ retries429' = [retries429 EXCEPT ![r] = retries429[r] + 1]
        /\ retries429[r] < MaxRetries429
    BY <1>10 DEF Retry429, Retry, Goto
  <2>3. /\ attempts' \in [Requests -> Nat]
        /\ attempts'[r] <= attempts[r] + 1
        /\ \A q \in Requests \ {r} : attempts'[q] = attempts[q]
    BY <1>10, RetryObserved DEF Retry429
  <2>4. open' \in BOOLEAN /\ elapsed' \in BOOLEAN /\ healthy' \in BOOLEAN
    BY <2>1, Zenon DEF breaker
  <2>5. OpenAtThreshold'
    BY <2>1, Zenon DEF breaker
  <2>6. TypeOK'
    <3>1. /\ failures' \in Nat /\ late' \in Nat
          /\ attempts' \in [Requests -> Nat]
      BY <2>1, <2>3 DEF breaker
    <3>2. at' \in [Requests -> Places]
      BY <2>2
    <3>3. /\ retries429' \in [Requests -> 0 .. MaxRetries429]
          /\ retries5xx' \in [Requests -> 0 .. MaxRetries5xx]
      BY <2>1, <2>2
    <3> QED BY <2>4, <3>1, <3>2, <3>3
  <2>7. AttemptsCounted'
    <3> SUFFICES ASSUME NEW q \in Requests
                 PROVE  /\ attempts'[q] <= 1 + retries429'[q] + retries5xx'[q]
                        /\ at'[q] = "sleep429" => retries429'[q] < MaxRetries429
                        /\ at'[q] = "sleep5xx" => retries5xx'[q] < MaxRetries5xx
      OBVIOUS
    <3>1. CASE q = r
      <4>1. attempts'[r] \in Nat /\ attempts[r] <= 1 + retries429[r] + retries5xx[r]
        BY <2>3
      <4>2. at'[r] = "attempt"
        BY <2>2
      <4>3. retries429'[r] + retries5xx'[r] = retries429[r] + retries5xx[r] + 1
        BY <2>1, <2>2
      <4> QED BY <2>1, <2>2, <2>3, <3>1, <4>1, <4>2, <4>3
    <3>2. CASE q # r
      BY <2>1, <2>2, <2>3, <3>2
    <3> QED BY <3>1, <3>2
  <2> QED BY <2>5, <2>6, <2>7
<1>11. ASSUME NEW r \in Requests, Retry5xx(r) PROVE InductiveInvariant'
  <2>1. late' \in Nat /\ UNCHANGED <<breaker, healthy, retries429>>
    BY <1>11, RetryObserved DEF Retry5xx, Retry
  <2>2. /\ at' = [at EXCEPT ![r] = "attempt"]
        /\ retries5xx' = [retries5xx EXCEPT ![r] = retries5xx[r] + 1]
        /\ retries5xx[r] < MaxRetries5xx
    BY <1>11 DEF Retry5xx, Retry, Goto
  <2>3. /\ attempts' \in [Requests -> Nat]
        /\ attempts'[r] <= attempts[r] + 1
        /\ \A q \in Requests \ {r} : attempts'[q] = attempts[q]
    BY <1>11, RetryObserved DEF Retry5xx
  <2>4. open' \in BOOLEAN /\ elapsed' \in BOOLEAN /\ healthy' \in BOOLEAN
    BY <2>1, Zenon DEF breaker
  <2>5. OpenAtThreshold'
    BY <2>1, Zenon DEF breaker
  <2>6. TypeOK'
    <3>1. /\ failures' \in Nat /\ late' \in Nat
          /\ attempts' \in [Requests -> Nat]
      BY <2>1, <2>3 DEF breaker
    <3>2. at' \in [Requests -> Places]
      BY <2>2
    <3>3. /\ retries429' \in [Requests -> 0 .. MaxRetries429]
          /\ retries5xx' \in [Requests -> 0 .. MaxRetries5xx]
      BY <2>1, <2>2
    <3> QED BY <2>4, <3>1, <3>2, <3>3
  <2>7. AttemptsCounted'
    <3> SUFFICES ASSUME NEW q \in Requests
                 PROVE  /\ attempts'[q] <= 1 + retries429'[q] + retries5xx'[q]
                        /\ at'[q] = "sleep429" => retries429'[q] < MaxRetries429
                        /\ at'[q] = "sleep5xx" => retries5xx'[q] < MaxRetries5xx
      OBVIOUS
    <3>1. CASE q = r
      <4>1. attempts'[r] \in Nat /\ attempts[r] <= 1 + retries429[r] + retries5xx[r]
        BY <2>3
      <4>2. at'[r] = "attempt"
        BY <2>2
      <4>3. retries429'[r] + retries5xx'[r] = retries429[r] + retries5xx[r] + 1
        BY <2>1, <2>2
      <4> QED BY <2>1, <2>2, <2>3, <3>1, <4>1, <4>2, <4>3
    <3>2. CASE q # r
      BY <2>1, <2>2, <2>3, <3>2
    <3> QED BY <3>1, <3>2
  <2> QED BY <2>5, <2>6, <2>7
<1>12. CASE UNCHANGED vars
  BY <1>12 DEF vars, breaker, locals, observers
<1> QED
  BY <1>1, <1>2, <1>3, <1>4, <1>5, <1>6, <1>7, <1>8, <1>9, <1>10, <1>11, <1>12
  DEF Next, Call, RoundTrip

\* Every reachable state satisfies the invariant.
THEOREM TransportInvariance == Spec => []InductiveInvariant
  BY TransportInit, TransportStep, PTL DEF Spec

\* Every variable keeps its type; retries stay within their budgets.
THEOREM TransportTypeCorrect == Spec => []TypeOK
<1>1. InductiveInvariant => TypeOK
  BY DEF InductiveInvariant
<1> QED
  BY <1>1, TransportInvariance, PTL

\* The breaker's two fields agree, for any number of concurrent requests.
THEOREM BreakerConsistent == Spec => []OpenAtThreshold
<1>1. InductiveInvariant => OpenAtThreshold
  BY DEF InductiveInvariant
<1> QED
  BY <1>1, TransportInvariance, PTL

\* RoundTrip's loop ends: no mix of answers makes it exceed both budgets.
THEOREM RoundTripBounded == Spec => []AttemptsBounded
<1>1. InductiveInvariant => AttemptsBounded
  BY Constants DEF InductiveInvariant, TypeOK, AttemptsCounted, AttemptsBounded, Budget
<1> QED
  BY <1>1, TransportInvariance, PTL
------------------------------------------------------------------------------
(***************************************************************************)
(* Attempts made while the circuit is open.                                *)
(***************************************************************************)
LEMMA BudgetType == Budget \in Nat
  BY Constants DEF Budget

LEMMA RetriesCounted ==
  /\ IsFiniteSet(Retries)
  /\ Cardinality(Retries) = Cardinality(Requests) * Budget
  /\ Cardinality(Requests) * Budget \in Nat
<1>1. IsFiniteSet(Requests)
  BY TransportAssumption DEF TransportAssumption
<1>2. IsFiniteSet(1 .. Budget) /\ Cardinality(1 .. Budget) = Budget
  BY BudgetType, FS_Interval
<1>3. IsFiniteSet(Retries) /\ Cardinality(Retries) = Cardinality(Requests) * Budget
  BY <1>1, <1>2, FS_Product DEF Retries
<1> QED
  BY <1>3, FS_CardinalityType

LEMMA RemainingFinite ==
  /\ IsFiniteSet(Remaining)
  /\ Cardinality(Remaining) \in Nat
  /\ Cardinality(Remaining) <= Cardinality(Requests) * Budget
<1>1. Remaining \in SUBSET Retries
  BY DEF Remaining
<1>2. IsFiniteSet(Remaining) /\ Cardinality(Remaining) <= Cardinality(Retries)
  BY <1>1, RetriesCounted, FS_Subset
<1> QED
  BY <1>2, RetriesCounted, FS_CardinalityType

LEMMA RemainingFiniteNext ==
  /\ Cardinality(Remaining') \in Nat
  /\ Cardinality(Remaining') <= Cardinality(Requests) * Budget
<1>1. Remaining' \in SUBSET Retries
  BY DEF Remaining, Retries
<1>2. IsFiniteSet(Remaining') /\ Cardinality(Remaining') <= Cardinality(Retries)
  BY <1>1, RetriesCounted, FS_Subset
<1> QED
  BY <1>2, RetriesCounted, FS_CardinalityType

\* A closed circuit has nothing to account for.
LEMMA ClosedIsAccounted ==
  ASSUME open' = FALSE, late' = 0
  PROVE  LateAccounted'
  BY RemainingFiniteNext DEF LateAccounted

\* A step that neither closes the circuit nor spends a retry.
LEMMA IdleIsAccounted ==
  ASSUME LateAccounted,
         open => open',
         UNCHANGED <<late, retries429, retries5xx>>
  PROVE  LateAccounted'
<1>1. Remaining' = Remaining
  BY DEF Remaining, Retries
<1> QED
  BY <1>1 DEF LateAccounted

\* A retry uses up the next one its caller has.
LEMMA RetryIsAccounted ==
  ASSUME TypeOK, LateAccounted, NEW r \in Requests, Retry(r),
         retries429[r] + retries5xx[r] < Budget,
         retries429'[r] + retries5xx'[r] = retries429[r] + retries5xx[r] + 1,
         \A q \in Requests \ {r} :
           retries429'[q] = retries429[q] /\ retries5xx'[q] = retries5xx[q]
  PROVE  LateAccounted'
<1> DEFINE used == retries429[r] + retries5xx[r]
           next == <<r, used + 1>>
<1>1. used \in Nat /\ late \in Nat
  BY Constants DEF TypeOK
<1>2. next \in Remaining
  BY <1>1, BudgetType DEF Remaining, Retries
<1>3. Remaining' \in SUBSET (Remaining \ {next})
  <2> SUFFICES ASSUME NEW retry \in Retries,
                      retry[2] > retries429'[retry[1]] + retries5xx'[retry[1]]
               PROVE  retry \in Remaining /\ retry # next
    BY DEF Remaining, Retries
  <2>1. retry[1] \in Requests /\ retry[2] \in Nat
    BY BudgetType DEF Retries
  <2>2. CASE retry[1] = r
    BY <1>1, <2>1, <2>2 DEF Remaining
  <2>3. CASE retry[1] # r
    BY <2>1, <2>3 DEF Remaining
  <2> QED BY <2>2, <2>3
<1>4. /\ IsFiniteSet(Remaining \ {next})
      /\ Cardinality(Remaining \ {next}) = Cardinality(Remaining) - 1
  BY <1>2, RemainingFinite, FS_RemoveElement
<1>5. Cardinality(Remaining') <= Cardinality(Remaining) - 1
  BY <1>3, <1>4, FS_Subset
<1>6. open' = open
  BY DEF Retry, breaker
<1>7. CASE open
  <2>1. CountTo(late, Cardinality(Requests) * Budget + 1) \in {late, late + 1}
    BY <1>1, CountToBounds
  <2>2. late' \in {late, late + 1}
    BY <1>7, <2>1 DEF Retry
  <2> QED
    BY <1>1, <1>5, <1>6, <1>7, <2>2, RemainingFinite, RemainingFiniteNext, RetriesCounted
    DEF LateAccounted
<1>8. CASE ~ open
  <2>1. late' = late
    BY <1>8 DEF Retry
  <2> QED
    BY <1>6, <1>8, <2>1, RemainingFiniteNext DEF LateAccounted
<1> QED
  BY <1>7, <1>8

LEMMA LateInit == Init => LateAccounted
  BY RemainingFinite DEF Init, LateAccounted

LEMMA LateStep ==
  InductiveInvariant /\ LateAccounted /\ [Next]_vars => LateAccounted'
<1> SUFFICES ASSUME TypeOK, OpenAtThreshold, AttemptsCounted, LateAccounted, [Next]_vars
             PROVE  LateAccounted'
  BY DEF InductiveInvariant
<1>1. ASSUME Elapse \/ ServerChanges \/ UNCHANGED vars PROVE LateAccounted'
  BY <1>1, IdleIsAccounted
  DEF Elapse, ServerChanges, vars, breaker, locals, observers
<1>2. ASSUME NEW r \in Requests, Admit(r) PROVE LateAccounted'
  <2>1. open' = FALSE /\ late' = IF open THEN 0 ELSE late
    BY <1>2 DEF Admit, Passes
  <2>2. late' = 0
    BY <2>1 DEF LateAccounted
  <2> QED BY <2>1, <2>2, ClosedIsAccounted
<1>3. ASSUME NEW r \in Requests, Succeed(r) PROVE LateAccounted'
  BY <1>3, ClosedIsAccounted DEF Succeed, RecordSuccess
<1>4. ASSUME NEW r \in Requests,
             Reject(r) \/ RateLimited(r) \/ ClientError(r) \/ TransportError(r)
      PROVE  LateAccounted'
  BY <1>4, IdleIsAccounted
  DEF Reject, RateLimited, ClientError, TransportError, Answer, vars, breaker, locals, observers
<1>5. ASSUME NEW r \in Requests, ServerError(r) PROVE LateAccounted'
  <2>1. open => open'
    BY <1>5 DEF ServerError, RecordFailure
  <2>2. UNCHANGED <<late, retries429, retries5xx>>
    BY <1>5 DEF ServerError, RecordFailure, Answer
  <2> QED BY <2>1, <2>2, IdleIsAccounted
<1>6. ASSUME NEW r \in Requests, Retry429(r) PROVE LateAccounted'
  <2>1. /\ Retry(r)
        /\ retries429' = [retries429 EXCEPT ![r] = retries429[r] + 1]
        /\ retries5xx' = retries5xx
        /\ retries429[r] < MaxRetries429
    BY <1>6 DEF Retry429, AttemptsCounted
  <2>2. retries429[r] \in Nat /\ retries5xx[r] \in 0 .. MaxRetries5xx
    BY Constants DEF TypeOK
  <2>3. retries429[r] + retries5xx[r] < Budget
    BY <2>1, <2>2, Constants DEF Budget
  <2>4. /\ retries429'[r] = retries429[r] + 1
        /\ \A q \in Requests \ {r} : retries429'[q] = retries429[q]
    BY <2>1 DEF TypeOK
  <2> QED BY <2>1, <2>2, <2>3, <2>4, RetryIsAccounted
<1>7. ASSUME NEW r \in Requests, Retry5xx(r) PROVE LateAccounted'
  <2>1. /\ Retry(r)
        /\ retries5xx' = [retries5xx EXCEPT ![r] = retries5xx[r] + 1]
        /\ retries429' = retries429
        /\ retries5xx[r] < MaxRetries5xx
    BY <1>7 DEF Retry5xx, AttemptsCounted
  <2>2. retries5xx[r] \in Nat /\ retries429[r] \in 0 .. MaxRetries429
    BY Constants DEF TypeOK
  <2>3. retries429[r] + retries5xx[r] < Budget
    BY <2>1, <2>2, Constants DEF Budget
  <2>4. /\ retries5xx'[r] = retries5xx[r] + 1
        /\ \A q \in Requests \ {r} : retries5xx'[q] = retries5xx[q]
    BY <2>1 DEF TypeOK
  <2> QED BY <2>1, <2>2, <2>3, <2>4, RetryIsAccounted
<1> QED
  BY <1>1, <1>2, <1>3, <1>4, <1>5, <1>6, <1>7 DEF Next, Call, RoundTrip

\* RoundTrip looks at IsOpen once: an open circuit lets through the retries of the
\* requests it let pass, for any number of callers at most all their budgets.
THEOREM LateAttemptsBounded == Spec => []LateBounded
<1>1. InductiveInvariant /\ LateAccounted => LateBounded
  BY RemainingFinite, RetriesCounted
  DEF InductiveInvariant, TypeOK, LateAccounted, LateBounded
<1>2. Spec => []LateAccounted
  BY LateInit, LateStep, TransportInvariance, PTL DEF Spec
<1> QED
  BY <1>1, <1>2, TransportInvariance, PTL
------------------------------------------------------------------------------
(***************************************************************************)
(* Why a request returns.  Every answer and every end of a sleep leaves it *)
(* fewer steps, and nothing that others or the server do gives it more.    *)
(***************************************************************************)
StepsLeft(r) ==
  CASE at[r] = "outside" -> 0
    [] at[r] = "attempt" -> 2 + 2 * (Budget - retries429[r] - retries5xx[r])
    [] OTHER             -> 1 + 2 * (Budget - retries429[r] - retries5xx[r])

Shortens ==
  \A r \in Requests :
    at[r] # "outside" =>
      /\ StepsLeft(r)' <= StepsLeft(r)
      /\ RoundTrip(r) => StepsLeft(r)' < StepsLeft(r)

LEMMA StepsLeftType ==
  ASSUME TypeOK, NEW r \in Requests
  PROVE  StepsLeft(r) \in 0 .. 2 + 2 * Budget
<1>1. /\ retries429[r] \in 0 .. MaxRetries429 /\ retries5xx[r] \in 0 .. MaxRetries5xx
      /\ at[r] \in Places
  BY DEF TypeOK
<1>2. Budget - retries429[r] - retries5xx[r] \in 0 .. Budget
  BY <1>1, Constants DEF Budget
<1> QED
  BY <1>1, <1>2, Constants DEF StepsLeft, Places, Budget

\* A caller that leaves has nothing left to do; one that goes to sleep has what it
\* had but for the answer; and a retry spends two steps and gains one.
LEMMA OwnStepShortens ==
  ASSUME TypeOK, NEW r \in Requests, RoundTrip(r)
  PROVE  at[r] # "outside" /\ StepsLeft(r)' < StepsLeft(r)
<1>1. /\ retries429[r] \in Nat /\ retries5xx[r] \in Nat /\ Budget \in Nat
      /\ Budget - retries429[r] - retries5xx[r] >= 0
      /\ at \in [Requests -> Places]
      /\ retries429 \in [Requests -> 0 .. MaxRetries429]
      /\ retries5xx \in [Requests -> 0 .. MaxRetries5xx]
  BY Constants DEF TypeOK, Budget
<1>2. ASSUME at[r] # "outside", Return(r) PROVE StepsLeft(r)' < StepsLeft(r)
  BY <1>1, <1>2 DEF Return, Goto, StepsLeft, Places
<1>3. ASSUME at[r] = "attempt", at'[r] \in {"sleep429", "sleep5xx"},
             UNCHANGED <<retries429, retries5xx>>
      PROVE  StepsLeft(r)' < StepsLeft(r)
  BY <1>1, <1>3 DEF StepsLeft
<1>4. CASE Succeed(r) \/ ClientError(r) \/ TransportError(r)
  BY <1>2, <1>4 DEF Succeed, ClientError, TransportError, Answer
<1>5. CASE RateLimited(r)
  <2>1. Return(r) \/ at' = [at EXCEPT ![r] = "sleep429"]
    BY <1>5 DEF RateLimited, Goto
  <2> QED BY <1>1, <1>2, <1>3, <1>5, <2>1 DEF RateLimited, Answer
<1>6. CASE ServerError(r)
  <2>1. Return(r) \/ at' = [at EXCEPT ![r] = "sleep5xx"]
    BY <1>6 DEF ServerError, Goto
  <2> QED BY <1>1, <1>2, <1>3, <1>6, <2>1 DEF ServerError, Answer
<1>7. ASSUME at[r] \in {"sleep429", "sleep5xx"}, at'[r] = "attempt",
             retries429'[r] + retries5xx'[r] = retries429[r] + retries5xx[r] + 1,
             retries429'[r] \in Nat, retries5xx'[r] \in Nat
      PROVE  StepsLeft(r)' < StepsLeft(r)
  BY <1>1, <1>7 DEF StepsLeft, Budget
<1>8. CASE Retry429(r)
  BY <1>1, <1>7, <1>8 DEF Retry429, Retry, Goto
<1>9. CASE Retry5xx(r)
  BY <1>1, <1>7, <1>9 DEF Retry5xx, Retry, Goto
<1> QED
  BY <1>4, <1>5, <1>6, <1>8, <1>9 DEF RoundTrip

\* A request in RoundTrip has at most two steps for each attempt its budgets allow,
\* each of its steps takes one of them away, and nobody else's gives any back.
THEOREM RequestsWindDown ==
  Spec => /\ [](\A r \in Requests : StepsLeft(r) \in 0 .. 2 + 2 * Budget)
          /\ [][Shortens]_vars
<1> DEFINE Few == \A r \in Requests : StepsLeft(r) \in 0 .. 2 + 2 * Budget
<1>1. TypeOK => Few
  BY StepsLeftType
<1>2. TypeOK /\ Few /\ Few' /\ [Next]_vars => [Shortens]_vars
  <2> SUFFICES ASSUME TypeOK, Few, Few', Next, NEW r \in Requests, at[r] # "outside"
               PROVE  /\ StepsLeft(r)' <= StepsLeft(r)
                      /\ RoundTrip(r) => StepsLeft(r)' < StepsLeft(r)
    BY DEF Shortens
  <2>1. StepsLeft(r) \in Int /\ StepsLeft(r)' \in Int
    BY Constants DEF Budget
  <2>2. CASE RoundTrip(r)
    BY <2>1, <2>2, OwnStepShortens
  <2>3. CASE UNCHANGED <<at[r], retries429[r], retries5xx[r]>>
    <3>1. StepsLeft(r)' = StepsLeft(r)
      BY <2>3 DEF StepsLeft
    <3> QED BY <2>1, <3>1, OwnStepShortens
  <2>4. CASE ~ RoundTrip(r)
    <3>1. CASE Elapse \/ ServerChanges
      BY <2>3, <3>1 DEF Elapse, ServerChanges, locals
    <3>2. ASSUME NEW q \in Requests, Call(q) \/ (q # r /\ RoundTrip(q))
          PROVE  UNCHANGED <<at[r], retries429[r], retries5xx[r]>>
      BY <3>2 DEF Call, Admit, Reject, vars, locals, TypeOK, RoundTrip, Succeed, RateLimited,
                  ServerError, ClientError, TransportError, Retry429, Retry5xx, Retry,
                  Answer, Return, Goto
    <3> QED BY <2>3, <2>4, <3>1, <3>2 DEF Next
  <2> QED BY <2>2, <2>4
<1> QED
  BY <1>1, <1>2, TransportInvariance, PTL DEF Spec, InductiveInvariant
=============================================================================
