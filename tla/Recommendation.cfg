CONSTANTS
    Containers <- MCContainers
    Usages <- MCUsages
    Gaps = {1, 8}
    Lookback = 20
    Settings <- MCSettings
    FirstSettings <- MCFirstSettings
    Policies <- MCPolicies
    Target <- MCTarget
    Noises <- MCNoises
    MaxScrapes = 3
    MaxPods = 2
    None = None
SPECIFICATION Spec
INVARIANTS
    TypeOK
    LimitCoversPeak
    RequestWithinLimit
    RequestCoversAverage
    NoInflation
    SavingsWereUnused
