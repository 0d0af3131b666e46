SPECIFICATION Spec
CONSTANTS
    Hashes = {h1, h2}
    h1 = h1
    h2 = h2
    NoHash = NoHash
    NoLab = NoLab
    NoJob = NoJob
    NodeCount = 2
    TargetSets <- TwoNodeTargets
    Output <- ExcelThenBoth
    Observations <- All
    Outcomes = {"ok"}
    MaxGeneration = 1
    MaxIncarnation = 2
    MaxDisturbances = 2
    Disturbances = {"delete", "move", "error", "restart"}
    CacheLag = FALSE
INVARIANTS
    CleanedBeforeGone
    ResultsOfThisLab
    PublishedSound
PROPERTIES
    RunningWhileJobsRun
CHECK_DEADLOCK FALSE
