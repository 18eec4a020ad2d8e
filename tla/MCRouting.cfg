\* Thresholds are those of scoring_spec.yaml in hundredths, tokens in thousands.
CONSTANTS
    LatchAbove = 20
    OverrideThreshold = 20
    DomainThreshold = 0
    DomainBoost = 30
    Protected = {"legal"}
    NoDomain = "none"
    NoRoute = NoRoute
    Catalogs <- MCCatalogs
    Vectors <- MCVectors
    TierDepth <- MCTierDepth
    Sessions = {s1}
    Wants = {"auto", "cli", "gone"}
SPECIFICATION Spec
INVARIANTS
    TypeOK ShedsOnlyWhenNothingFits PrimaryHealthy FallbackDistinct
    SubscriptionFirst DeepEnoughUnlessEmergency ReplayReproduces
