\* Every request leaves the choice of model to the router.
CONSTANTS
    LatchAbove = 20
    OverrideThreshold = 20
    DomainThreshold = 0
    DomainBoost = 30
    Protected = {"legal"}
    NoDomain = "none"
    NoRoute = NoRoute
    NoModel = NoModel
    Base = 1
    Jitter = 0
    OverflowAt = 1
    MaxCooldown = 1
    Lease = 1
    RetryAfters = {}
    CountCap = 1
    Requests = {r1}
    Catalog <- HttpModels
    Modes = {"stream", "post"}
    Asks <- Latched
SPECIFICATION LiveSpec
PROPERTY OpenIsLeft
