SPECIFICATION Spec
CONSTANTS
    NoLab = NoLab
    PrometheusParts = 2
    GrafanaParts = 1
    Deployments = {1, 2, 3}
    Deployment = 2
    Wanted <- DeployedThenExternal
    MaxGeneration = 2
    MaxIncarnation = 2
    Disturbances = {"edit", "delete", "error", "restart", "stop", "outage", "scrape", "status"}
    MaxDisturbances = 2
    CacheLag = FALSE
INVARIANTS
    CleanedBeforeGone
PROPERTIES
    WaitsForPrometheus
CHECK_DEADLOCK FALSE
