--------------------------- MODULE CircuitBreaker ---------------------------
(***************************************************************************)
(* The value of one ProviderCircuitBreaker and what each of its methods    *)
(* does to it (circuit_breaker.py).  Every method runs under the breaker's *)
(* asyncio.Lock and awaits nothing inside, so a call is one atomic         *)
(* function of the breaker; the modules that own breakers apply these      *)
(* functions in their actions.                                             *)
(*                                                                         *)
(* Time is kept as what is left of it.  The code compares the clock with   *)
(* cooldown_until and with canary_granted_at + lease; `cooldown' and       *)
(* `lease' are those differences, clipped at zero, and Elapse counts both  *)
(* down.  One unit stands for as many seconds as Base does.                *)
(***************************************************************************)
EXTENDS Integers

CONSTANTS
    Base,         \* base_cooldown
    MaxCooldown,  \* max_cooldown
    Jitter,       \* jitter: random.uniform(0, jitter) is a member of 0..Jitter
    Lease,        \* canary_lease_seconds
    RetryAfters,  \* Retry-After values upstreams send; 0 stands for none
    OverflowAt,   \* last failure_count whose 2 ** (n - 1) converts to a float
    CountCap      \* bound: failure_count is not followed beyond this value

ASSUME BreakerAssumption ==
    /\ Base \in Nat \ {0} /\ MaxCooldown \in Nat \ {0}
    /\ Jitter \in Nat     /\ Lease \in Nat \ {0}
    /\ RetryAfters \subseteq Nat
    /\ OverflowAt \in Nat \ {0} /\ CountCap \in Nat \ {0}

States == {"CLOSED", "OPEN", "HALF_OPEN"}

Breakers == [state    : States,
             failures : 0..CountCap,  \* failure_count
             cooldown : Nat,          \* max(0, cooldown_until - now)
             slot     : BOOLEAN,      \* canary_in_flight
             lease    : 0..Lease]     \* what is left of the canary's lease

NewBreaker == [state |-> "CLOSED", failures |-> 0, cooldown |-> 0,
               slot |-> FALSE, lease |-> 0]

\* is_healthy: what the router filters on; it does not look at the clock.
IsHealthy(b) == b.state # "OPEN"

-----------------------------------------------------------------------------
(* can_attempt: whether the caller is let through, and what that leaves.   *)

\* Fault: HALF_OPEN admits whoever asks, the canary in flight or not.
GrantsWithoutSlotCheck(b) ==
    \/ b.state \in {"CLOSED", "HALF_OPEN"}
    \/ b.state = "OPEN" /\ b.cooldown = 0

\* Fault: the liveness guard on the canary's lease is missing.
GrantsWithoutLease(b) ==
    \/ b.state = "CLOSED"
    \/ b.state = "OPEN" /\ b.cooldown = 0
    \/ b.state = "HALF_OPEN" /\ ~b.slot

Grants(b) ==
    \/ b.state = "CLOSED"
    \/ b.state = "OPEN" /\ b.cooldown = 0
    \/ b.state = "HALF_OPEN" /\ (b.slot => b.lease = 0)

\* Fault: the canary's lease is one unit too long.
OnGrantLongLease(b) ==
    IF b.state = "CLOSED"
      THEN b
      ELSE [b EXCEPT !.state = "HALF_OPEN", !.slot = TRUE, !.lease = Lease + 1]

OnGrant(b) ==
    IF b.state = "CLOSED"
      THEN b
      ELSE [b EXCEPT !.state = "HALF_OPEN", !.slot = TRUE, !.lease = Lease]

-----------------------------------------------------------------------------
(* record_success, release_canary: neither asks who is calling.            *)

\* Fault: the failure count survives the reset.
OnSuccessKeepsCount(b) ==
    [b EXCEPT !.state = "CLOSED", !.slot = FALSE, !.lease = 0]

\* Fault: a success is taken for the end of the probe, not of the outage.
OnSuccessStaysHalfOpen(b) ==
    [b EXCEPT !.failures = 0, !.slot = FALSE, !.lease = 0]

OnSuccess(b) ==
    [b EXCEPT !.state = "CLOSED", !.failures = 0, !.slot = FALSE, !.lease = 0]

OnRelease(b) == [b EXCEPT !.slot = FALSE, !.lease = 0]

-----------------------------------------------------------------------------
(* record_failure: the n-th failure in a row, with the upstream's          *)
(* Retry-After (0: none) and a jitter.                                     *)

\* Fault: the exponential is not clipped at max_cooldown.
BackoffUnclipped(n, retry, jitter) ==
    IF retry > 0 THEN retry ELSE Base * 2^(n - 1) + jitter

\* min(max_cooldown, base * 2 ** (n - 1)) + jitter unless Retry-After is given.
\* The quantifier clips at the first doubling that reaches max_cooldown.
Backoff(n, retry, jitter) ==
    IF retry > 0 THEN retry
    ELSE IF \E k \in 0..(n - 1) : Base * 2^k \notin 0..(MaxCooldown - 1)
           THEN MaxCooldown + jitter
           ELSE Base * 2^(n - 1) + jitter

\* base_cooldown is a float: base * (2 ** (n - 1)) raises OverflowError once
\* the power no longer converts, after failure_count has been incremented.
FailureRaises(b, retry) == retry = 0 /\ b.failures + 1 > OverflowAt

OnFailure(b, retry, jitter) ==
    LET n == IF b.failures < CountCap THEN b.failures + 1 ELSE CountCap
    IN  IF FailureRaises(b, retry)
          THEN [b EXCEPT !.failures = n]
          ELSE [state |-> "OPEN", failures |-> n, slot |-> FALSE, lease |-> 0,
                cooldown |-> Backoff(n, retry, jitter)]

-----------------------------------------------------------------------------
\* One unit of time passes.
Elapse(b) == [b EXCEPT !.cooldown = IF @ > 0 THEN @ - 1 ELSE 0,
                       !.lease    = IF @ > 0 THEN @ - 1 ELSE 0]

Settled(b) == b.cooldown = 0 /\ b.lease = 0
=============================================================================
