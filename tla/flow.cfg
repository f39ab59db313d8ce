CONSTANTS
    Req = {r1, r2, r3}
    Id = {r1, r2, r3}
    None = None
    AttemptLimit = 1
    AttemptWindow = 2
    ActivationLimit = 2
    ActivationWindow = 2
    LeaseTime = 1
    HasAlarm = TRUE
    MaxSkew = 0
    AccessLife = 1
    GrantLife = 3
    LastCall = 2
    MaxTime = 3
SPECIFICATION FairSpec
CHECK_DEADLOCK FALSE
INVARIANTS RotatedAtMostOnce LogoutIsFinal LostRefreshCanLogOut RefreshLoginsBounded
PROPERTIES ImplementsAuthority
