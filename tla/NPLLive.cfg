SPECIFICATION FairSpec
CONSTANTS
    Hashes = {h1, h2}
    h1 = h1
    h2 = h2
    NoHash = NoHash
    NoLab = NoLab
    NoJob = NoJob
    NodeCount = 1
    TargetSets <- OneNodeStable
    Output <- HtmlOnly
    Observations <- All
    Outcomes = {"ok"}
    MaxGeneration = 1
    MaxIncarnation = 1
    MaxDisturbances = 1
    Disturbances = {"delete", "error", "expire"}
    CacheLag = TRUE
PROPERTIES
    ResultsGetPublished
    DeletionCompletes
CHECK_DEADLOCK FALSE
