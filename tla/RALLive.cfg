SPECIFICATION FairSpec
CONSTANTS
    NoLab = NoLab
    PrometheusParts = 2
    GrafanaParts = 1
    Deployments = {1, 2, 3}
    Deployment = 2
    Wanted <- GrafanaFirst
    MaxGeneration = 2
    MaxIncarnation = 1
    Disturbances = {"edit", "delete", "outage", "error", "stop", "status", "scrape"}
    MaxDisturbances = 2
    CacheLag = TRUE
PROPERTIES
    AnalysisGetsPublished
    DeletionCompletes
    EveryGenerationNoticed
CHECK_DEADLOCK FALSE
