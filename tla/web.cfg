CONSTANTS
    v1 = v1
    v2 = v2
    u1 = u1
    r1 = r1
    r2 = r2
    bulk = bulk
    None = None
    Account = {v1, v2, u1}
    Vnu = {v1, v2}
    Request = {r1, r2, bulk}
    Bulk = bulk
    MaxTargets = 3
    ChunkMax = 2
    Scenario <- Scenarios
SPECIFICATION FairSpec
CHECK_DEADLOCK FALSE
INVARIANTS ReconnectingIsTrueAlone BulkResultsWhole
PROPERTIES AccountsStayTrue WorkEnds
