CONSTANTS
    n1 = n1
    n2 = n2
    old = old
    new = new
    edited = edited
    m1 = m1
    m2 = m2
    other = other
    q1 = q1
    q2 = q2
    Nobody = Nobody
    Replica = {n1, n2}
    Releases = {old, new, edited}
    Files <- Sources
    Dependency <- Deps
    Query = {q1, q2}
    Resource <- Resources
    Scenario <- Scenarios
SPECIFICATION FairReplicaSpec
CHECK_DEADLOCK FALSE
INVARIANT StartedRightly
PROPERTIES ResourcesOutliveUsers ReadyIsEarned StartsAndExits
