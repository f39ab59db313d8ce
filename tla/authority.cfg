CONSTANTS
    Id = {i1, i2}
    None = None
    AttemptLimit = 1
    AttemptWindow = 2
    ActivationLimit = 2
    ActivationWindow = 2
    LeaseTime = 1
    HasAlarm = TRUE
    MaxSkew = 0
    AccessLife = 2
    GrantLife = 2
    LastCall = 3
    MaxTime = 6
SPECIFICATION FairStoreSpec
CHECK_DEADLOCK FALSE
INVARIANTS StoredReadsBack DurableAccountsForPairs
PROPERTIES NoResurrection EventuallyForgotten
