SPECIFICATION Spec
CONSTANTS
    n1 = n1
    n2 = n2
    r1 = r1
    r2 = r2
    probes = probes
    shared = shared
    own = own
    both = both
    NetLabs = {n1, n2}
    ResLabs = {r1, r2}
    Names = {probes, shared, own, both}
    Outputs <- Meeting
    Scenarios <- Scenes
    Disturbances = {"edit", "delete", "error", "restart"}
    MaxIncarnation = 2
    Nobody = Nobody
    NoMap = NoMap
INVARIANTS
    TypeOK
    ClaimedReportsHold
    NoOrphans
PROPERTIES
    NoLostReport
    DeletesOnlyLabelled
CHECK_DEADLOCK FALSE
