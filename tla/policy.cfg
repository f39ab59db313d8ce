CONSTANTS
    None = None
    NativeSupport = TRUE
    NativeLimit = 2
    HardLimit = 3
    Limit = {1, 4}
    NumReplicas = 2
    Request = {q1}
    Client = {c1}
    Admin = {a1, a2}
    MaxStreams = 1
    Scenario <- Scenarios
    q1 = q1
    c1 = c1
    a1 = a1
    a2 = a2
SPECIFICATION FairSpec
INVARIANTS ReplicasKeepUp PublishedFromReviewed EffectiveWithinCeilings
PROPERTIES PagesConverge
