\* Both modes, a model without upstream URL, latched and explicit requests.
CONSTANTS
    LatchAbove = 20
    OverrideThreshold = 20
    DomainThreshold = 0
    DomainBoost = 30
    Protected = {"legal"}
    NoDomain = "none"
    NoRoute = NoRoute
    NoModel = NoModel
    Base = 1
    Jitter = 0
    OverflowAt = 2
    MaxCooldown = 2
    Lease = 2
    RetryAfters = {3}
    CountCap = 2
    Requests = {r1, r2}
    Catalog <- AllModels
    Modes = {"stream", "post"}
    Asks <- AnyAsk
SPECIFICATION Spec
INVARIANTS TypeOK
PROPERTIES SubscriptionGateIsBreaker MeteredGateIsBreaker
