CONSTANTS
    q1 = q1
    q2 = q2
    i1 = i1
    i2 = i2
    s1 = s1
    s2 = s2
    h1 = h1
    h2 = h2
    p1 = p1
    p2 = p2
    p3 = p3
    b1 = b1
    b2 = b2
    None = None
    Slot = {q1, q2}
    MaxToken = 4
    TokenLife = 3
    SignInLife = 1
    FlightLife = 1
    Import = {i1, i2}
    Settler = {s1, s2}
    Host = {h1, h2}
    Job = {1, 2}
    Page = {p1, p2, p3}
    Browser = {b1, b2}
    BrowserOf <- Tabs
    AddressLimit = 1
    GlobalLimit = 2
    Window = 2
    SessionLife = 1
    StateLife = 1
    MaxBuckets = 2
    MaxSession = 2
    Scenario <- Answers
SPECIFICATION FairSpec
CHECK_DEADLOCK FALSE
PROPERTY AnswersReachTheRun
