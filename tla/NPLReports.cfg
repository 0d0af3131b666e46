SPECIFICATION Spec
CONSTANTS
    Hashes = {h1, h2}
    h1 = h1
    h2 = h2
    NoHash = NoHash
    NoLab = NoLab
    NoJob = NoJob
    NodeCount = 1
    TargetSets <- OneNodeStable
    Output <- ExcelThenBoth
    Observations <- AllOrNone
    Outcomes = {"ok", "bad", "garbled"}
    MaxGeneration = 2
    MaxIncarnation = 1
    MaxDisturbances = 1
    Disturbances = {"edit", "delete", "move", "expire", "error", "restart"}
    CacheLag = TRUE
INVARIANTS
    ReportsBehindStatus
    NothingForgotten
CHECK_DEADLOCK FALSE
