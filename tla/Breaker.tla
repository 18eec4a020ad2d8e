------------------------------ MODULE Breaker ------------------------------
(***************************************************************************)
(* One provider's circuit breaker and the requests that use it.            *)
(*                                                                         *)
(* A request asks can_attempt and, if let through, calls the provider and  *)
(* some time later reports record_success, record_failure or               *)
(* release_canary, or never reports: the call raised past every report, or *)
(* the request died.  Nothing in the breaker says who is reporting, so the *)
(* requests that were let through before a trip (the stragglers) report on *)
(* the same object as the canary.  What a request was let through as is    *)
(* bookkeeping of this module: the code does not keep it.                  *)
(***************************************************************************)
EXTENDS CircuitBreaker, FiniteSets

CONSTANT Callers      \* requests, each of which may ask again once it is done

VARIABLES
    breaker,   \* the ProviderCircuitBreaker
    held       \* what each caller holds

vars == <<breaker, held>>

(***************************************************************************)
(* "pass"    let through while CLOSED                                      *)
(* "probe"   let through as the canary, and nobody has taken the slot      *)
(* "expired" a canary whose lease ran out and was replaced                 *)
(* "robbed"  a canary whose slot another caller's report gave back         *)
(* "opened"  reported success, still waiting for its first chunk           *)
(***************************************************************************)
Holdings == {"idle", "pass", "probe", "expired", "robbed", "opened"}

InFlight(c) == held[c] \in {"pass", "probe", "expired", "robbed"}

TypeOK ==
    /\ breaker \in Breakers
    /\ held \in [Callers -> Holdings]

Init ==
    /\ breaker = NewBreaker
    /\ held = [c \in Callers |-> "idle"]

\* held after c is let through: a canary still out is replaced only because
\* its lease is over.
AfterGrant(c) ==
    [d \in Callers |->
        CASE d = c -> IF breaker.state = "CLOSED" THEN "pass" ELSE "probe"
          [] d # c /\ held[d] = "probe" /\ breaker.lease = 0 -> "expired"
          [] OTHER -> held[d]]

\* held after c reports and moves on to h: every report gives the slot back.
AfterReport(c, h) ==
    [d \in Callers |->
        CASE d = c -> h
          [] d # c /\ held[d] = "probe" -> "robbed"
          [] OTHER -> held[d]]

-----------------------------------------------------------------------------
\* can_attempt returns True.  When it returns False nothing changes and the
\* caller goes to another provider.
Attempt(c) ==
    /\ held[c] = "idle"
    /\ Grants(breaker)
    /\ breaker' = OnGrant(breaker)
    /\ held' = AfterGrant(c)

\* The same, but the call cannot be built: no upstream URL is configured, and
\* resolve_connection raises past every report.
Strand(c) ==
    /\ held[c] = "idle"
    /\ Grants(breaker)
    /\ breaker' = OnGrant(breaker)
    /\ held' = [AfterGrant(c) EXCEPT ![c] = "idle"]

\* The provider answered 2xx; a streaming caller waits for the first chunk.
Succeed(c) ==
    /\ InFlight(c)
    /\ breaker' = OnSuccess(breaker)
    /\ \E h \in {"idle", "opened"} : held' = AfterReport(c, h)

\* 429, 500, 502, 503, 504 or, without streaming, a transport error.
Fail(c) ==
    /\ InFlight(c)
    /\ \E retry \in RetryAfters \cup {0}, jitter \in 0..Jitter :
          /\ breaker' = OnFailure(breaker, retry, jitter)
          /\ held' = IF FailureRaises(breaker, retry)
                       THEN [held EXCEPT ![c] = "idle"]
                       ELSE AfterReport(c, "idle")

\* Any other status >= 400: the provider is alive, the request was refused.
Refuse(c) ==
    /\ InFlight(c)
    /\ breaker' = OnRelease(breaker)
    /\ held' = AfterReport(c, "idle")

\* The call raised and no handler reports it.
Vanish(c) ==
    /\ InFlight(c)
    /\ held' = [held EXCEPT ![c] = "idle"]
    /\ UNCHANGED breaker

\* The stream delivers, or breaks after the report of success.
StreamStarts(c) ==
    /\ held[c] = "opened"
    /\ held' = [held EXCEPT ![c] = "idle"]
    /\ UNCHANGED breaker

\* No first chunk in 20 s: the caller that reported success reports a failure.
FirstChunkTimeout(c) ==
    /\ held[c] = "opened"
    /\ \E jitter \in 0..Jitter : breaker' = OnFailure(breaker, 0, jitter)
    /\ held' = IF FailureRaises(breaker, 0)
                 THEN [held EXCEPT ![c] = "idle"]
                 ELSE AfterReport(c, "idle")

Tick ==
    /\ ~Settled(breaker)
    /\ breaker' = Elapse(breaker)
    /\ UNCHANGED held

Next ==
    \/ Tick
    \/ \E c \in Callers :
          \/ Attempt(c) \/ Strand(c) \/ Succeed(c) \/ Fail(c)
          \/ Refuse(c) \/ Vanish(c) \/ StreamStarts(c) \/ FirstChunkTimeout(c)

Spec == Init /\ [][Next]_vars

\* Time passes; requests that can be called keep coming, stranded ones in between
\* or not; and a provider that is asked again and again answers in the end.
LiveSpec ==
    /\ Spec
    /\ WF_vars(Tick)
    /\ \A c \in Callers : SF_vars(Attempt(c)) /\ SF_vars(Succeed(c))

-----------------------------------------------------------------------------
(* Properties *)

\* The fields of the breaker agree: the count is zero exactly when CLOSED (so
\* that the next trip starts the exponential afresh, and only then), and a
\* canary slot is taken, or a lease runs, only in HALF_OPEN.
BreakerConsistent ==
    /\ breaker.state = "CLOSED" <=> breaker.failures = 0
    /\ breaker.slot => breaker.state = "HALF_OPEN"
    /\ breaker.lease > 0 => breaker.slot

\* can_attempt: however reports interleave, at most one caller is the canary of
\* record, and while it is the slot is taken and the breaker HALF_OPEN; every
\* other probe still out lost the slot to its lease or to somebody's report.
OneCanaryOfRecord ==
    \A c, d \in Callers :
        held[c] = "probe" =>
            /\ breaker.slot /\ breaker.state = "HALF_OPEN"
            /\ held[d] = "probe" => c = d

\* record_failure: a cooldown is never longer than the clipped exponential and
\* its jitter, unless it is one an upstream asked for with Retry-After.
CooldownBounded ==
    \/ breaker.cooldown <= MaxCooldown + Jitter
    \/ \E retry \in RetryAfters : breaker.cooldown <= retry

\* README.md:74 "exactly ONE single canary probe request": leaving out the
\* probes whose lease ran out, no two canaries are at the provider at once.
SingleCanary ==
    \A c, d \in Callers :
        {held[c], held[d]} \subseteq {"probe", "robbed"} => c = d

\* The liveness guard of can_attempt: a breaker that turns callers away lets one
\* through in the end, whatever became of its canary.
DenialEnds == ~Grants(breaker) ~> Grants(breaker)

\* An outage ends: if requests keep being sent and the provider answers again,
\* the breaker is CLOSED in the end.
Recovers == breaker.state # "CLOSED" ~> breaker.state = "CLOSED"
=============================================================================
