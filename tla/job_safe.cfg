CONSTANTS
    Worker = {w1, w2}
    Caller = {c1, c2}
    None = None
    Orphan = Orphan
    MaxDeliveryCount = 2
    CountsDeliveries = FALSE
    MaxReports = 1
    MaxControls = 1
    MaxDisturbances = 1
SPECIFICATION Spec
SYMMETRY Symmetry
CHECK_DEADLOCK FALSE
INVARIANTS UnlapsedRunHoldsLease NoSilentAck CallersAgree QuietOutcomeIsHeard
