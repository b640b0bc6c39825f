---------------------------- MODULE RetryTransport ----------------------------
(***************************************************************************)
(* The HTTP transport of the Google API clients: retries of 429 and 5xx    *)
(* answers around one circuit breaker that every request of a client       *)
(* shares (internal/googleapi/transport.go, circuitbreaker.go).            *)
(*                                                                         *)
(* The breaker's methods hold its mutex, so each is a step; a request is   *)
(* in flight, or asleep between two attempts, while others use it.  Of     *)
(* time only this is kept: whether CircuitBreakerResetTime has passed      *)
(* since the last failure.  The server is the environment.                 *)
(***************************************************************************)
EXTENDS Integers, FiniteSets

CONSTANTS
  Requests,       \* callers of RoundTrip, each making requests one by one
  Threshold,      \* CircuitBreakerThreshold
  MaxRetries429,
  MaxRetries5xx

ASSUME TransportAssumption ==
  /\ IsFiniteSet(Requests)
  /\ Threshold \in Nat \ {0}
  /\ MaxRetries429 \in Nat
  /\ MaxRetries5xx \in Nat

VARIABLES
  open,        \* CircuitBreaker.open
  failures,    \* CircuitBreaker.failures
  elapsed,     \* CircuitBreakerResetTime has passed since lastFailure
  at,          \* where each caller is
  retries429,  \* locals of RoundTrip
  retries5xx,
  healthy,     \* the server answers every request well
  \* Observers.
  attempts,    \* attempts the caller's request has made
  late         \* attempts begun since the circuit opened

breaker == <<open, failures, elapsed>>
locals == <<at, retries429, retries5xx>>
observers == <<attempts, late>>
vars == <<breaker, locals, healthy, observers>>

\* Retries a request may make.
Budget == MaxRetries429 + MaxRetries5xx

\* The observers count no further than the properties can tell apart.
CountTo(n, bound) == IF n < bound THEN n + 1 ELSE n

\* A caller is outside RoundTrip, in an attempt, or asleep before a retry.
Places == {"outside", "attempt", "sleep429", "sleep5xx"}

Init ==
  /\ open = FALSE
  /\ failures = 0
  /\ elapsed = TRUE
  /\ at = [r \in Requests |-> "outside"]
  /\ retries429 = [r \in Requests |-> 0]
  /\ retries5xx = [r \in Requests |-> 0]
  /\ healthy \in BOOLEAN
  /\ attempts = [r \in Requests |-> 0]
  /\ late = 0

------------------------------------------------------------------------------
(***************************************************************************)
(* The circuit breaker.                                                    *)
(***************************************************************************)
RecordSuccess ==
  /\ failures' = 0
  /\ open' = FALSE
  /\ late' = 0
  /\ UNCHANGED elapsed

RecordFailure ==
  /\ failures' = failures + 1
  /\ elapsed' = FALSE
  /\ open' = IF failures + 1 >= Threshold THEN TRUE ELSE open
  /\ UNCHANGED late

\* IsOpen says yes.
Rejects == open /\ ~ elapsed

\* Mutants of Passes: the count is not reset; the time is not looked at; nobody
\* is rejected.
PassesKeepingCount ==
  /\ ~ open \/ elapsed
  /\ open' = FALSE
  /\ late' = IF open THEN 0 ELSE late
  /\ UNCHANGED <<failures, elapsed>>

PassesOnlyClosed ==
  /\ ~ open
  /\ UNCHANGED <<breaker, late>>

PassesAlways ==
  /\ open' = (open /\ ~ elapsed)
  /\ failures' = IF open /\ elapsed THEN 0 ELSE failures
  /\ late' = IF open /\ elapsed THEN 0 ELSE late
  /\ UNCHANGED elapsed

\* IsOpen says no, having closed a circuit whose time is up.
Passes ==
  /\ ~ open \/ elapsed
  /\ open' = FALSE
  /\ failures' = IF open THEN 0 ELSE failures
  /\ late' = IF open THEN 0 ELSE late
  /\ UNCHANGED elapsed

------------------------------------------------------------------------------
(***************************************************************************)
(* RoundTrip.                                                              *)
(***************************************************************************)
Goto(r, place) == at' = [at EXCEPT ![r] = place]

Return(r) == Goto(r, "outside")

\* The caller gets a CircuitBreakerError.
Reject(r) ==
  /\ at[r] = "outside"
  /\ Rejects
  /\ UNCHANGED vars

\* The body is made replayable and the first attempt begins.
Admit(r) ==
  /\ at[r] = "outside"
  /\ Passes
  /\ Goto(r, "attempt")
  /\ retries429' = [retries429 EXCEPT ![r] = 0]
  /\ retries5xx' = [retries5xx EXCEPT ![r] = 0]
  /\ attempts' = [attempts EXCEPT ![r] = 1]
  /\ UNCHANGED healthy

Answer(r) ==
  /\ at[r] = "attempt"
  /\ UNCHANGED <<retries429, retries5xx, healthy, attempts>>

Succeed(r) ==
  /\ Answer(r)
  /\ RecordSuccess
  /\ Return(r)

RateLimited(r) ==
  /\ Answer(r)
  /\ ~ healthy
  /\ IF retries429[r] >= MaxRetries429 THEN Return(r) ELSE Goto(r, "sleep429")
  /\ UNCHANGED <<breaker, late>>

\* Mutant of ServerError: > where >= is meant.
ServerErrorOnceMore(r) ==
  /\ Answer(r)
  /\ ~ healthy
  /\ RecordFailure
  /\ IF retries5xx[r] > MaxRetries5xx THEN Return(r) ELSE Goto(r, "sleep5xx")

ServerError(r) ==
  /\ Answer(r)
  /\ ~ healthy
  /\ RecordFailure
  /\ IF retries5xx[r] >= MaxRetries5xx THEN Return(r) ELSE Goto(r, "sleep5xx")

\* Other 4xx answers go to the caller and tell the breaker nothing.
ClientError(r) ==
  /\ Answer(r)
  /\ Return(r)
  /\ UNCHANGED <<breaker, late>>

\* No answer, a body that cannot be reset, or a cancelled context.
TransportError(r) ==
  /\ at[r] # "outside"
  /\ Return(r)
  /\ UNCHANGED <<breaker, retries429, retries5xx, healthy, attempts, late>>

\* The sleep is over: the next attempt begins, without another look at IsOpen.
Retry(r) ==
  /\ Goto(r, "attempt")
  /\ attempts' = [attempts EXCEPT ![r] = CountTo(@, Budget + 2)]
  /\ late' = IF open THEN CountTo(late, Cardinality(Requests) * Budget + 1) ELSE late
  /\ UNCHANGED <<breaker, healthy>>

\* Mutant of Retry429: retries429 is not incremented.
Retry429Uncounted(r) ==
  /\ at[r] = "sleep429"
  /\ Retry(r)
  /\ UNCHANGED <<retries429, retries5xx>>

Retry429(r) ==
  /\ at[r] = "sleep429"
  /\ Retry(r)
  /\ retries429' = [retries429 EXCEPT ![r] = @ + 1]
  /\ UNCHANGED retries5xx

Retry5xx(r) ==
  /\ at[r] = "sleep5xx"
  /\ Retry(r)
  /\ retries5xx' = [retries5xx EXCEPT ![r] = @ + 1]
  /\ UNCHANGED retries429

------------------------------------------------------------------------------
(***************************************************************************)
(* Time and the server.                                                    *)
(***************************************************************************)
Elapse ==
  /\ ~ elapsed
  /\ elapsed' = TRUE
  /\ UNCHANGED <<open, failures, locals, healthy, observers>>

ServerChanges ==
  /\ healthy' = ~ healthy
  /\ UNCHANGED <<breaker, locals, observers>>

Call(r) == Admit(r) \/ Reject(r)

RoundTrip(r) ==
  \/ Succeed(r)
  \/ RateLimited(r)
  \/ ServerError(r)
  \/ ClientError(r)
  \/ TransportError(r)
  \/ Retry429(r)
  \/ Retry5xx(r)

Next ==
  \/ Elapse
  \/ ServerChanges
  \/ \E r \in Requests : Call(r) \/ RoundTrip(r)

Spec == Init /\ [][Next]_vars

\* Time passes; an attempt is answered or fails; and callers go on calling.
Fairness ==
  /\ WF_vars(Elapse)
  /\ \A r \in Requests : WF_vars(Call(r)) /\ WF_vars(RoundTrip(r))

FairSpec == Spec /\ Fairness

------------------------------------------------------------------------------
TypeOK ==
  /\ open \in BOOLEAN
  /\ failures \in Nat
  /\ elapsed \in BOOLEAN
  /\ at \in [Requests -> Places]
  /\ retries429 \in [Requests -> 0 .. MaxRetries429]
  /\ retries5xx \in [Requests -> 0 .. MaxRetries5xx]
  /\ healthy \in BOOLEAN
  /\ attempts \in [Requests -> Nat]
  /\ late \in Nat

\* The circuit is open exactly while the count is at the threshold: however the
\* answers of requests in flight interleave with resets, it is never left open
\* with a count that says closed, nor closed on the brink.
OpenAtThreshold == open <=> failures >= Threshold

\* One request makes no more attempts than its two budgets of retries allow,
\* though 429 and 5xx answers may alternate.
AttemptsBounded ==
  \A r \in Requests : attempts[r] <= 1 + Budget

\* An open circuit does not stop the retries of requests it let pass before,
\* but those are all it lets through: at most every caller's retries.
LateBounded == late <= Cardinality(Requests) * Budget

\* What makes AttemptsBounded inductive.
AttemptsCounted ==
  \A r \in Requests :
    /\ attempts[r] <= 1 + retries429[r] + retries5xx[r]
    /\ at[r] = "sleep429" => retries429[r] < MaxRetries429
    /\ at[r] = "sleep5xx" => retries5xx[r] < MaxRetries5xx

InductiveInvariant == TypeOK /\ OpenAtThreshold /\ AttemptsCounted

\* The retries that the callers still have, each caller's numbered from 1.
Retries == Requests \X (1 .. Budget)
Remaining == {retry \in Retries : retry[2] > retries429[retry[1]] + retries5xx[retry[1]]}

\* What makes LateBounded inductive: each late attempt was paid for with one of
\* those, and nobody is given new ones before the circuit closes.
LateAccounted ==
  /\ ~ open => late = 0
  /\ late + Cardinality(Remaining) <= Cardinality(Requests) * Budget

\* No outage latches the circuit: once the server stays healthy, and somebody
\* keeps calling, it ends up closed for good.
Recovers == <>[]healthy => <>[](~ open)

\* Every request returns, whatever the server answers.
RequestsReturn == \A r \in Requests : at[r] # "outside" ~> at[r] = "outside"
==============================================================================
