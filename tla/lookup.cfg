CONSTANTS
    r1 = r1
    r2 = r2
    r3 = r3
    Request = {r1, r2, r3}
    Probe <- Probes
    Permit <- Permits
    Detail <- Details
    Presented <- Presents
    Scenario <- Scenarios
    PermitLimit = 2
    LeaseTime = 2
    BudgetLimit = 6
    WindowTime = 2
    Concurrency = 1
    DetailBudget = 2
    DetailWindow = 2
    PermitTime = 2
    MaxTime = 2
    RouteTime = 1
    NumTargets = 2
    NumCandidates = 2
    Width = 2
    Workers = 2
SPECIFICATION FairSpec
CHECK_DEADLOCK FALSE
INVARIANTS PermitsKept ResolvedIsFirstMatch PaidFor
PROPERTIES BusyOnlyWhenShared RequestEnds
