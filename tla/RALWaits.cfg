SPECIFICATION Spec
CONSTANTS
    NoLab = NoLab
    PrometheusParts = 2
    GrafanaParts = 0
    Deployments = {1, 2}
    Deployment = 2
    Wanted <- DeployedThenExternal
    MaxGeneration = 2
    MaxIncarnation = 1
    Disturbances = {"edit", "delete", "error", "restart", "stop", "outage", "scrape", "status"}
    MaxDisturbances = 2
    CacheLag = TRUE
PROPERTIES
    WaitsForPrometheus
CHECK_DEADLOCK FALSE
