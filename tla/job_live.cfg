CONSTANTS
    Worker = {w1, w2}
    Caller = {c1}
    None = None
    Orphan = Orphan
    MaxDeliveryCount = 2
    CountsDeliveries = TRUE
    MaxReports = 0
    MaxControls = 1
    MaxDisturbances = 1
SPECIFICATION FairSpec
CHECK_DEADLOCK FALSE
PROPERTIES JobEnds
