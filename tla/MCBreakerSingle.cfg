CONSTANTS
    Callers = {c1, c2, c3}
    Base = 1
    MaxCooldown = 2
    Jitter = 0
    Lease = 2
    RetryAfters = {}
    CountCap = 3
    OverflowAt = 1024
SPECIFICATION Spec
SYMMETRY Symmetry
INVARIANT SingleCanary
