SPECIFICATION Spec
CONSTANTS
    NoLab = NoLab
    PrometheusParts = 2
    GrafanaParts = 1
    Deployments = {1, 2, 3}
    Deployment = 2
    Wanted <- GrafanaFirst
    MaxGeneration = 1
    MaxIncarnation = 1
    Disturbances = {"edit", "delete", "error", "restart", "stop", "outage", "scrape", "status"}
    MaxDisturbances = 2
    CacheLag = TRUE
PROPERTIES
    SilentOnlyWhenSame
CHECK_DEADLOCK FALSE
