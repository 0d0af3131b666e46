CONSTANTS
    Traffics <- MCTraffics
    Clusters <- MCClusters
    StartDelays = {60, 90, 240}
    MessageLimit = 4
    Changes = 1
    ProbeIP <- MCProbeIP
    Cuts <- MCCuts
    Within <- MCWithin
    Letter <- MCLetter
    None = None
SPECIFICATION FairSpec
INVARIANTS
    TypeOK
    CutOffOnlyWhenLate
    CheckCount
    AnswersCurrent
    BackendTraced
    PathComplete
PROPERTY JobEnds
CHECK_DEADLOCK FALSE
