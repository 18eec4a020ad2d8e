--------------------------- MODULE BreakerProofs ---------------------------
(***************************************************************************)
(* Theorems of Breaker, for every set of callers and every choice of the   *)
(* breaker's parameters.  Lemmas first: what each method of the breaker    *)
(* does to a well-typed breaker; then one theorem per invariant of the     *)
(* MCBreaker run.                                                          *)
(***************************************************************************)
EXTENDS Breaker, TLAPS

\* The consistency of a breaker as a predicate on its value.
Consistent(b) ==
    /\ b.state = "CLOSED" <=> b.failures = 0
    /\ b.slot => b.state = "HALF_OPEN"
    /\ b.lease > 0 => b.slot

\* A cooldown within the bound of record_failure.
WithinBound(n) ==
    \/ n <= MaxCooldown + Jitter
    \/ \E retry \in RetryAfters : n <= retry

-----------------------------------------------------------------------------
(* The methods, one at a time. *)

\* Backoff returns a natural number within the bound: the second branch of the
\* minimum is taken only where the doubling is still below max_cooldown.
LEMMA BackoffBounded ==
    ASSUME NEW n \in Nat \ {0},
           NEW retry \in RetryAfters \cup {0},
           NEW jitter \in 0..Jitter
    PROVE  /\ Backoff(n, retry, jitter) \in Nat
           /\ WithinBound(Backoff(n, retry, jitter))
<1> USE BreakerAssumption
<1> DEFINE Clips == \E k \in 0..(n - 1) : Base * 2^k \notin 0..(MaxCooldown - 1)
<1>1. CASE retry > 0
  <2>1. Backoff(n, retry, jitter) = retry
    BY <1>1 DEF Backoff
  <2>2. retry \in RetryAfters /\ retry \in Nat
    BY <1>1
  <2> QED BY <2>1, <2>2 DEF WithinBound
<1>2. CASE ~(retry > 0) /\ Clips
  <2>1. Backoff(n, retry, jitter) = MaxCooldown + jitter
    BY <1>2 DEF Backoff
  <2> QED BY <2>1 DEF WithinBound
<1>3. CASE ~(retry > 0) /\ ~Clips
  <2>1. Backoff(n, retry, jitter) = Base * 2^(n - 1) + jitter
    BY <1>3 DEF Backoff
  <2>2. Base * 2^(n - 1) \in 0..(MaxCooldown - 1)
    <3>1. n - 1 \in 0..(n - 1)
      OBVIOUS
    <3> QED BY <1>3, <3>1
  <2> HIDE DEF Clips
  <2>3. ASSUME NEW x \in 0..(MaxCooldown - 1)
        PROVE  x + jitter \in Nat /\ x + jitter <= MaxCooldown + Jitter
    OBVIOUS
  <2> QED BY <2>1, <2>2, <2>3 DEF WithinBound
<1> QED BY <1>1, <1>2, <1>3

\* The value a breaker is created with is a breaker, and consistent.
LEMMA NewBreakerFacts ==
    NewBreaker \in Breakers /\ Consistent(NewBreaker) /\ NewBreaker.cooldown = 0
BY BreakerAssumption DEF NewBreaker, Breakers, States, Consistent

\* can_attempt, when it lets the caller through: only CLOSED stays as it was.
LEMMA OnGrantFacts ==
    ASSUME NEW b \in Breakers, Consistent(b)
    PROVE  /\ OnGrant(b) \in Breakers
           /\ Consistent(OnGrant(b))
           /\ OnGrant(b).cooldown = b.cooldown
           /\ OnGrant(b).failures = b.failures
           /\ IF b.state = "CLOSED"
                THEN OnGrant(b) = b
                ELSE OnGrant(b).slot /\ OnGrant(b).state = "HALF_OPEN"
<1>1. CASE b.state = "CLOSED"
  BY <1>1 DEF OnGrant
<1>2. CASE b.state # "CLOSED"
  <2>1. OnGrant(b) = [state |-> "HALF_OPEN", failures |-> b.failures,
                      cooldown |-> b.cooldown, slot |-> TRUE, lease |-> Lease]
    BY <1>2 DEF OnGrant, Breakers
  <2>2. b.failures \in 0..CountCap /\ b.failures # 0 /\ b.cooldown \in Nat
    BY <1>2 DEF Breakers, Consistent
  <2>3. Lease \in 0..Lease
    BY BreakerAssumption
  <2> QED BY <1>2, <2>1, <2>2, <2>3 DEF Breakers, States, Consistent
<1> QED BY <1>1, <1>2

\* record_success and release_canary: both leave the slot free.
LEMMA OnSuccessFacts ==
    ASSUME NEW b \in Breakers, Consistent(b)
    PROVE  /\ OnSuccess(b) \in Breakers
           /\ Consistent(OnSuccess(b))
           /\ OnSuccess(b).cooldown = b.cooldown
           /\ OnSuccess(b).failures = 0
<1>1. OnSuccess(b) \in Breakers
  <2>1. 0 \in 0..CountCap /\ 0 \in 0..Lease
    BY BreakerAssumption
  <2> QED BY <2>1 DEF OnSuccess, Breakers, States
<1>2. /\ OnSuccess(b).state = "CLOSED" /\ OnSuccess(b).failures = 0
      /\ OnSuccess(b).cooldown = b.cooldown
      /\ ~OnSuccess(b).slot /\ OnSuccess(b).lease = 0
  BY DEF OnSuccess, Breakers
<1> QED BY <1>1, <1>2 DEF Consistent

LEMMA OnReleaseFacts ==
    ASSUME NEW b \in Breakers, Consistent(b)
    PROVE  /\ OnRelease(b) \in Breakers
           /\ Consistent(OnRelease(b))
           /\ OnRelease(b).cooldown = b.cooldown
           /\ OnRelease(b).failures = b.failures
<1>1. OnRelease(b) \in Breakers
  <2>1. 0 \in 0..Lease
    BY BreakerAssumption
  <2> QED BY <2>1 DEF OnRelease, Breakers
<1>2. /\ OnRelease(b).state = b.state /\ OnRelease(b).failures = b.failures
      /\ OnRelease(b).cooldown = b.cooldown
      /\ ~OnRelease(b).slot /\ OnRelease(b).lease = 0
  BY DEF OnRelease, Breakers
<1> QED BY <1>1, <1>2 DEF Consistent

\* record_failure: it opens the breaker, or raises and leaves all but the count.
LEMMA OnFailureFacts ==
    ASSUME NEW b \in Breakers, Consistent(b),
           NEW retry \in RetryAfters \cup {0},
           NEW jitter \in 0..Jitter
    PROVE  /\ OnFailure(b, retry, jitter) \in Breakers
           /\ Consistent(OnFailure(b, retry, jitter))
           /\ \/ OnFailure(b, retry, jitter).cooldown = b.cooldown
              \/ WithinBound(OnFailure(b, retry, jitter).cooldown)
           /\ FailureRaises(b, retry) =>
                 /\ OnFailure(b, retry, jitter).slot = b.slot
                 /\ OnFailure(b, retry, jitter).state = b.state
           /\ ~FailureRaises(b, retry) =>
                 /\ ~OnFailure(b, retry, jitter).slot
                 /\ OnFailure(b, retry, jitter).state = "OPEN"
           /\ b.failures = CountCap =>
                 OnFailure(b, retry, jitter).failures = CountCap
<1> USE BreakerAssumption
<1> DEFINE n == IF b.failures < CountCap THEN b.failures + 1 ELSE CountCap
<1>1. n \in 1..CountCap
  BY DEF Breakers
<1>2. n \in Nat \ {0}
  BY <1>1
<1>3. Backoff(n, retry, jitter) \in Nat /\ WithinBound(Backoff(n, retry, jitter))
  BY <1>2, BackoffBounded
<1>4. CASE FailureRaises(b, retry)
  <2>1. OnFailure(b, retry, jitter) =
          [state |-> b.state, failures |-> n, cooldown |-> b.cooldown,
           slot |-> b.slot, lease |-> b.lease]
    BY <1>4 DEF OnFailure, Breakers
  <2>2. b.failures # 0
    BY <1>4 DEF FailureRaises, Breakers
  <2>3. /\ b.state \in States /\ b.state # "CLOSED" /\ b.cooldown \in Nat
        /\ b.slot \in BOOLEAN /\ b.lease \in 0..Lease
        /\ b.slot => b.state = "HALF_OPEN"
        /\ b.lease > 0 => b.slot
    BY <2>2 DEF Breakers, Consistent
  <2>4. b.failures = CountCap => n = CountCap
    OBVIOUS
  <2> HIDE DEF n
  <2> QED BY <1>1, <1>4, <2>1, <2>3, <2>4 DEF Breakers, Consistent
<1>5. CASE ~FailureRaises(b, retry)
  <2>1. OnFailure(b, retry, jitter) =
          [state |-> "OPEN", failures |-> n, slot |-> FALSE, lease |-> 0,
           cooldown |-> Backoff(n, retry, jitter)]
    BY <1>5 DEF OnFailure
  <2>2. 0 \in 0..Lease /\ n # 0 /\ n \in 0..CountCap
    BY <1>1
  <2>5. b.failures = CountCap => n = CountCap
    OBVIOUS
  <2> HIDE DEF n
  <2>3. OnFailure(b, retry, jitter) \in Breakers
    BY <1>3, <2>1, <2>2 DEF Breakers, States
  <2>4. /\ OnFailure(b, retry, jitter).state = "OPEN"
        /\ OnFailure(b, retry, jitter).failures = n
        /\ OnFailure(b, retry, jitter).cooldown = Backoff(n, retry, jitter)
        /\ ~OnFailure(b, retry, jitter).slot
        /\ OnFailure(b, retry, jitter).lease = 0
    BY <2>1
  <2> QED BY <1>3, <1>5, <2>2, <2>3, <2>4, <2>5 DEF Consistent
<1> QED BY <1>4, <1>5

\* The clock: what is left only shrinks, and no slot is given or taken.
LEMMA ElapseFacts ==
    ASSUME NEW b \in Breakers, Consistent(b)
    PROVE  /\ Elapse(b) \in Breakers
           /\ Consistent(Elapse(b))
           /\ Elapse(b).cooldown <= b.cooldown
           /\ Elapse(b).slot = b.slot /\ Elapse(b).state = b.state
           /\ Elapse(b).failures = b.failures
<1> DEFINE cooldown == IF b.cooldown > 0 THEN b.cooldown - 1 ELSE 0
           lease == IF b.lease > 0 THEN b.lease - 1 ELSE 0
<1>1. /\ cooldown \in Nat /\ cooldown <= b.cooldown
      /\ lease \in 0..Lease /\ (lease > 0 => b.lease > 0)
  BY BreakerAssumption DEF Breakers
<1>2. Elapse(b) \in Breakers
  BY <1>1 DEF Elapse, Breakers
<1>3. /\ Elapse(b).state = b.state /\ Elapse(b).failures = b.failures
      /\ Elapse(b).cooldown = cooldown
      /\ Elapse(b).slot = b.slot /\ Elapse(b).lease = lease
  BY DEF Elapse, Breakers
<1> HIDE DEF cooldown, lease
<1> QED BY <1>1, <1>2, <1>3 DEF Consistent

-----------------------------------------------------------------------------
(* The callers' bookkeeping is well typed whoever moves. *)

LEMMA HeldTyped ==
    ASSUME TypeOK, NEW c \in Callers
    PROVE  /\ AfterGrant(c) \in [Callers -> Holdings]
           /\ \A h \in Holdings : AfterReport(c, h) \in [Callers -> Holdings]
           /\ \A h \in Holdings : [held EXCEPT ![c] = h] \in [Callers -> Holdings]
BY DEF TypeOK, AfterGrant, AfterReport, Holdings

-----------------------------------------------------------------------------
(* TypeOK and BreakerConsistent are proved together: the count is a member *)
(* of 0..CountCap that is zero exactly when CLOSED.                        *)

ConsistentInv == TypeOK /\ BreakerConsistent

LEMMA ConsistentStep == ConsistentInv /\ [Next]_vars => ConsistentInv'
<1> SUFFICES ASSUME ConsistentInv, [Next]_vars PROVE ConsistentInv'
  OBVIOUS
<1>0. /\ breaker \in Breakers /\ Consistent(breaker)
      /\ held \in [Callers -> Holdings] /\ TypeOK
  BY DEF ConsistentInv, TypeOK, BreakerConsistent, Consistent
<1>a. /\ "idle" \in Holdings /\ "opened" \in Holdings
      /\ 0 \in RetryAfters \cup {0}
  BY DEF Holdings
<1> SUFFICES /\ breaker' \in Breakers /\ Consistent(breaker')
             /\ held' \in [Callers -> Holdings]
  BY DEF ConsistentInv, TypeOK, BreakerConsistent, Consistent
<1>1. CASE Tick
  BY <1>0, <1>1, ElapseFacts DEF Tick
<1>2. ASSUME NEW c \in Callers, Attempt(c)
      PROVE  breaker' \in Breakers /\ Consistent(breaker')
             /\ held' \in [Callers -> Holdings]
  BY <1>0, <1>2, OnGrantFacts, HeldTyped DEF Attempt
<1>3. ASSUME NEW c \in Callers, Succeed(c)
      PROVE  breaker' \in Breakers /\ Consistent(breaker')
             /\ held' \in [Callers -> Holdings]
  BY <1>0, <1>a, <1>3, OnSuccessFacts, HeldTyped DEF Succeed
<1>4. ASSUME NEW c \in Callers, Fail(c)
      PROVE  breaker' \in Breakers /\ Consistent(breaker')
             /\ held' \in [Callers -> Holdings]
  <2>1. PICK retry \in RetryAfters \cup {0}, jitter \in 0..Jitter :
              /\ breaker' = OnFailure(breaker, retry, jitter)
              /\ held' = IF FailureRaises(breaker, retry)
                           THEN [held EXCEPT ![c] = "idle"]
                           ELSE AfterReport(c, "idle")
    BY <1>4 DEF Fail
  <2>2. breaker' \in Breakers /\ Consistent(breaker')
    BY <1>0, <2>1, OnFailureFacts
  <2>3. held' \in [Callers -> Holdings]
    BY <1>0, <1>a, <2>1, HeldTyped
  <2> QED BY <2>2, <2>3
<1>5. ASSUME NEW c \in Callers, Refuse(c)
      PROVE  breaker' \in Breakers /\ Consistent(breaker')
             /\ held' \in [Callers -> Holdings]
  BY <1>0, <1>a, <1>5, OnReleaseFacts, HeldTyped DEF Refuse
<1>6. ASSUME NEW c \in Callers, Vanish(c)
      PROVE  breaker' \in Breakers /\ Consistent(breaker')
             /\ held' \in [Callers -> Holdings]
  BY <1>0, <1>a, <1>6, HeldTyped DEF Vanish
<1>7. ASSUME NEW c \in Callers, StreamStarts(c)
      PROVE  breaker' \in Breakers /\ Consistent(breaker')
             /\ held' \in [Callers -> Holdings]
  BY <1>0, <1>a, <1>7, HeldTyped DEF StreamStarts
<1>8. ASSUME NEW c \in Callers, FirstChunkTimeout(c)
      PROVE  breaker' \in Breakers /\ Consistent(breaker')
             /\ held' \in [Callers -> Holdings]
  BY <1>0, <1>a, <1>8, OnFailureFacts, HeldTyped DEF FirstChunkTimeout
<1>9. ASSUME NEW c \in Callers, Strand(c)
      PROVE  breaker' \in Breakers /\ Consistent(breaker')
             /\ held' \in [Callers -> Holdings]
  <2>1. AfterGrant(c) \in [Callers -> Holdings]
    BY <1>0, HeldTyped
  <2>2. held' \in [Callers -> Holdings]
    BY <1>a, <1>9, <2>1 DEF Strand
  <2> QED BY <1>0, <1>9, <2>2, OnGrantFacts DEF Strand
<1>10. CASE UNCHANGED vars
  BY <1>0, <1>10 DEF vars
<1> QED BY <1>1, <1>2, <1>3, <1>4, <1>5, <1>6, <1>7, <1>8, <1>9, <1>10 DEF Next

LEMMA ConsistentInvariant == Spec => []ConsistentInv
<1>1. Init => ConsistentInv
  BY NewBreakerFacts
  DEF Init, ConsistentInv, TypeOK, BreakerConsistent, Consistent, Holdings
<1> QED BY <1>1, ConsistentStep, PTL DEF Spec

\* The breaker and what every caller holds stay well typed.
THEOREM TypeCorrect == Spec => []TypeOK
<1>1. ConsistentInv => TypeOK
  BY DEF ConsistentInv
<1> QED BY <1>1, ConsistentInvariant, PTL

\* No interleaving of reports leaves the fields of the breaker in disagreement:
\* a slot or a lease outside HALF_OPEN, or a count that does not fit the state.
THEOREM BreakerIsConsistent == Spec => []BreakerConsistent
<1>1. ConsistentInv => BreakerConsistent
  BY DEF ConsistentInv
<1> QED BY <1>1, ConsistentInvariant, PTL

-----------------------------------------------------------------------------
(* One canary of record.  With typing and consistency the property is      *)
(* inductive: only OnGrant makes a canary, and where one is still out the  *)
(* grant needs its lease to be over, so AfterGrant has marked it expired;  *)
(* every report that frees the slot marks the canary robbed.               *)

\* Labels after a grant: the newcomer, and whoever kept a running lease.
LEMMA ProbesAfterGrant ==
    ASSUME NEW c \in Callers, NEW d \in Callers
    PROVE  AfterGrant(c)[d] = "probe" =>
              \/ d = c /\ breaker.state # "CLOSED"
              \/ d # c /\ held[d] = "probe" /\ breaker.lease # 0
<1>1. CASE d = c
  BY <1>1 DEF AfterGrant
<1>2. CASE d # c /\ held[d] = "probe" /\ breaker.lease = 0
  BY <1>2 DEF AfterGrant
<1>3. CASE d # c /\ ~(held[d] = "probe" /\ breaker.lease = 0)
  BY <1>3 DEF AfterGrant
<1> QED BY <1>1, <1>2, <1>3

\* Labels after a report: nobody is the canary of record any more.
LEMMA NoProbeAfterReport ==
    ASSUME NEW c \in Callers, NEW d \in Callers, NEW h \in {"idle", "opened"}
    PROVE  AfterReport(c, h)[d] # "probe"
<1>1. CASE d = c
  BY <1>1 DEF AfterReport
<1>2. CASE d # c /\ held[d] = "probe"
  BY <1>2 DEF AfterReport
<1>3. CASE d # c /\ held[d] # "probe"
  BY <1>3 DEF AfterReport
<1> QED BY <1>1, <1>2, <1>3

LEMMA OneCanaryStep ==
    ConsistentInv /\ OneCanaryOfRecord /\ [Next]_vars => OneCanaryOfRecord'
<1> SUFFICES ASSUME ConsistentInv, OneCanaryOfRecord, [Next]_vars,
                    NEW d \in Callers, NEW e \in Callers,
                    held'[d] = "probe"
             PROVE  /\ breaker'.slot /\ breaker'.state = "HALF_OPEN"
                    /\ held'[e] = "probe" => d = e
  BY DEF OneCanaryOfRecord
<1>0. /\ breaker \in Breakers /\ Consistent(breaker)
      /\ held \in [Callers -> Holdings]
  BY DEF ConsistentInv, TypeOK, BreakerConsistent, Consistent
<1>i. ASSUME held[d] = "probe"
      PROVE  /\ breaker.slot /\ breaker.state = "HALF_OPEN"
             /\ held[e] = "probe" => d = e
  BY <1>i DEF OneCanaryOfRecord
<1>k. ASSUME NEW c \in Callers, held' = [held EXCEPT ![c] = "idle"],
             breaker'.slot = breaker.slot, breaker'.state = breaker.state
      PROVE  /\ breaker'.slot /\ breaker'.state = "HALF_OPEN"
             /\ held'[e] = "probe" => d = e
  <2>1. held[d] = "probe" /\ (held'[e] = "probe" => held[e] = "probe")
    BY <1>0, <1>k
  <2> QED BY <1>i, <1>k, <2>1
<1>1. CASE Tick
  <2>1. breaker'.slot = breaker.slot /\ breaker'.state = breaker.state
    BY <1>0, <1>1, ElapseFacts DEF Tick
  <2>2. held' = held
    BY <1>1 DEF Tick
  <2> QED BY <1>i, <2>1, <2>2
<1>2. ASSUME NEW c \in Callers, Attempt(c)
      PROVE  /\ breaker'.slot /\ breaker'.state = "HALF_OPEN"
             /\ held'[e] = "probe" => d = e
  <2>0. /\ held' = AfterGrant(c) /\ breaker' = OnGrant(breaker)
        /\ Grants(breaker)
    BY <1>2 DEF Attempt
  <2>1. \A x \in Callers : x # c /\ held'[x] = "probe" => FALSE
    <3> SUFFICES ASSUME NEW x \in Callers, x # c, held'[x] = "probe"
                 PROVE  FALSE
      OBVIOUS
    <3>1. held[x] = "probe" /\ breaker.lease # 0
      BY <2>0, ProbesAfterGrant
    <3>2. breaker.slot /\ breaker.state = "HALF_OPEN"
      BY <3>1 DEF OneCanaryOfRecord
    <3> QED BY <2>0, <3>1, <3>2 DEF Grants
  <2>2. d = c /\ breaker.state # "CLOSED"
    BY <2>0, <2>1, ProbesAfterGrant
  <2>3. breaker'.slot /\ breaker'.state = "HALF_OPEN"
    BY <1>0, <2>0, <2>2, OnGrantFacts
  <2> QED BY <2>1, <2>2, <2>3
<1>3. ASSUME NEW c \in Callers, Succeed(c) PROVE FALSE
  BY <1>3, NoProbeAfterReport DEF Succeed
<1>4. ASSUME NEW c \in Callers, Fail(c)
      PROVE  /\ breaker'.slot /\ breaker'.state = "HALF_OPEN"
             /\ held'[e] = "probe" => d = e
  <2>1. PICK retry \in RetryAfters \cup {0}, jitter \in 0..Jitter :
              /\ breaker' = OnFailure(breaker, retry, jitter)
              /\ held' = IF FailureRaises(breaker, retry)
                           THEN [held EXCEPT ![c] = "idle"]
                           ELSE AfterReport(c, "idle")
    BY <1>4 DEF Fail
  <2>2. FailureRaises(breaker, retry)
    BY <2>1, NoProbeAfterReport
  <2>3. breaker'.slot = breaker.slot /\ breaker'.state = breaker.state
    BY <1>0, <2>1, <2>2, OnFailureFacts
  <2> QED BY <1>k, <2>1, <2>2, <2>3
<1>5. ASSUME NEW c \in Callers, Refuse(c) PROVE FALSE
  BY <1>5, NoProbeAfterReport DEF Refuse
<1>6. ASSUME NEW c \in Callers, Vanish(c)
      PROVE  /\ breaker'.slot /\ breaker'.state = "HALF_OPEN"
             /\ held'[e] = "probe" => d = e
  BY <1>6, <1>k DEF Vanish
<1>7. ASSUME NEW c \in Callers, StreamStarts(c)
      PROVE  /\ breaker'.slot /\ breaker'.state = "HALF_OPEN"
             /\ held'[e] = "probe" => d = e
  BY <1>7, <1>k DEF StreamStarts
<1>8. ASSUME NEW c \in Callers, FirstChunkTimeout(c)
      PROVE  /\ breaker'.slot /\ breaker'.state = "HALF_OPEN"
             /\ held'[e] = "probe" => d = e
  <2>1. PICK jitter \in 0..Jitter : breaker' = OnFailure(breaker, 0, jitter)
    BY <1>8 DEF FirstChunkTimeout
  <2>2. FailureRaises(breaker, 0)
    BY <1>8, NoProbeAfterReport DEF FirstChunkTimeout
  <2>3. breaker'.slot = breaker.slot /\ breaker'.state = breaker.state
    BY <1>0, <2>1, <2>2, OnFailureFacts
  <2>4. held' = [held EXCEPT ![c] = "idle"]
    BY <1>8, <2>2 DEF FirstChunkTimeout
  <2> QED BY <1>k, <2>3, <2>4
<1>9. ASSUME NEW c \in Callers, Strand(c) PROVE FALSE
  <2>1. d # c /\ AfterGrant(c)[d] = "probe" /\ Grants(breaker)
    BY <1>9 DEF Strand, AfterGrant
  <2>2. held[d] = "probe" /\ breaker.lease # 0
    BY <2>1, ProbesAfterGrant
  <2> QED BY <1>i, <2>1, <2>2 DEF Grants
<1>10. CASE UNCHANGED vars
  BY <1>10, <1>i DEF vars
<1> QED BY <1>1, <1>2, <1>3, <1>4, <1>5, <1>6, <1>7, <1>8, <1>9, <1>10 DEF Next

\* The gate of can_attempt: at most one caller is ever the canary of record,
\* whatever stragglers, refused canaries and expired leases do to the slot.
THEOREM OneCanary == Spec => []OneCanaryOfRecord
<1>1. Init => OneCanaryOfRecord
  BY DEF Init, OneCanaryOfRecord
<1> QED BY <1>1, OneCanaryStep, ConsistentInvariant, PTL DEF Spec

-----------------------------------------------------------------------------
\* No sequence of failures makes a cooldown exceed max_cooldown + jitter, save
\* one an upstream asked for.
THEOREM CooldownIsBounded == Spec => []CooldownBounded
<1>1. Init => CooldownBounded
  BY BreakerAssumption, NewBreakerFacts DEF Init, CooldownBounded
<1>2. ConsistentInv /\ CooldownBounded /\ [Next]_vars => CooldownBounded'
  <2> SUFFICES ASSUME ConsistentInv, CooldownBounded, [Next]_vars
               PROVE  CooldownBounded'
    OBVIOUS
  <2>0. breaker \in Breakers /\ Consistent(breaker) /\ 0 \in RetryAfters \cup {0}
    BY DEF ConsistentInv, TypeOK, BreakerConsistent, Consistent
  <2>a. breaker.cooldown \in Nat /\ WithinBound(breaker.cooldown)
    BY <2>0 DEF CooldownBounded, WithinBound, Breakers
  <2> SUFFICES WithinBound(breaker'.cooldown)
    BY DEF CooldownBounded, WithinBound
  <2>1. CASE Tick
    <3>1. breaker'.cooldown \in Nat /\ breaker'.cooldown <= breaker.cooldown
      BY <2>0, <2>1, ElapseFacts DEF Tick, Breakers
    <3> QED BY <2>a, <3>1, BreakerAssumption DEF WithinBound
  <2>2. ASSUME NEW c \in Callers, Attempt(c) PROVE WithinBound(breaker'.cooldown)
    BY <2>0, <2>a, <2>2, OnGrantFacts DEF Attempt
  <2>3. ASSUME NEW c \in Callers, Succeed(c) PROVE WithinBound(breaker'.cooldown)
    BY <2>0, <2>a, <2>3, OnSuccessFacts DEF Succeed
  <2>4. ASSUME NEW c \in Callers, Fail(c) PROVE WithinBound(breaker'.cooldown)
    <3>1. PICK retry \in RetryAfters \cup {0}, jitter \in 0..Jitter :
             breaker' = OnFailure(breaker, retry, jitter)
      BY <2>4 DEF Fail
    <3> QED BY <2>0, <2>a, <3>1, OnFailureFacts
  <2>5. ASSUME NEW c \in Callers, Refuse(c) PROVE WithinBound(breaker'.cooldown)
    BY <2>0, <2>a, <2>5, OnReleaseFacts DEF Refuse
  <2>6. ASSUME NEW c \in Callers, Vanish(c) PROVE WithinBound(breaker'.cooldown)
    BY <2>a, <2>6 DEF Vanish
  <2>7. ASSUME NEW c \in Callers, StreamStarts(c)
        PROVE  WithinBound(breaker'.cooldown)
    BY <2>a, <2>7 DEF StreamStarts
  <2>8. ASSUME NEW c \in Callers, FirstChunkTimeout(c)
        PROVE  WithinBound(breaker'.cooldown)
    <3>1. PICK jitter \in 0..Jitter : breaker' = OnFailure(breaker, 0, jitter)
      BY <2>8 DEF FirstChunkTimeout
    <3> QED BY <2>0, <2>a, <3>1, OnFailureFacts
  <2>9. ASSUME NEW c \in Callers, Strand(c) PROVE WithinBound(breaker'.cooldown)
    BY <2>0, <2>a, <2>9, OnGrantFacts DEF Strand
  <2>10. CASE UNCHANGED vars
    BY <2>a, <2>10 DEF vars
  <2> QED BY <2>1, <2>2, <2>3, <2>4, <2>5, <2>6, <2>7, <2>8, <2>9, <2>10 DEF Next
<1> QED BY <1>1, <1>2, ConsistentInvariant, PTL DEF Spec
=============================================================================
