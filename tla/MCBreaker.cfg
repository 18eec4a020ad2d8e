\* One unit is 30 s: base_cooldown 1, max_cooldown clips at the second
\* doubling, the canary lease is the 60 s of ensure_breaker.  The overflow of
\* the exponential, the 1025th failure in a row, is scaled down to the fifth.
CONSTANTS
    Callers = {c1, c2, c3}
    Base = 1
    MaxCooldown = 3
    Jitter = 1
    Lease = 2
    RetryAfters = {5}
    CountCap = 5
    OverflowAt = 4
SPECIFICATION LiveSpec
INVARIANTS TypeOK BreakerConsistent OneCanaryOfRecord CooldownBounded
PROPERTIES DenialEnds Recovers
