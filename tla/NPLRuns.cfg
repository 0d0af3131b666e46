SPECIFICATION Spec
CONSTANTS
    Hashes = {h1, h2}
    h1 = h1
    h2 = h2
    NoHash = NoHash
    NoLab = NoLab
    NoJob = NoJob
    NodeCount = 1
    TargetSets <- OneNodeMoves
    Output <- NoOutput
    Observations <- All
    Outcomes = {"ok"}
    MaxGeneration = 2
    MaxIncarnation = 1
    MaxDisturbances = 2
    Disturbances = {"edit", "move", "expire"}
    CacheLag = TRUE
INVARIANTS
    TypeOK
    PublishedSound
PROPERTIES
    KeepsPromise
    PublishedForCurrentSpec
    OnlyStaleJobsDeleted
SYMMETRY HashSymmetry
