CONSTANTS
    None = None
    Answer = {a1, a2}
    Guardian = {g1}
    Student = {s1, s2}
    NumBrowsers = 4
    Scenario <- Scenarios
    g1 = g1
    s1 = s1
    s2 = s2
SPECIFICATION FairSpec
CHECK_DEADLOCK FALSE
INVARIANTS AnswersHeard NothingStaysOpen
PROPERTIES ImplementsOneShot SignInEnds
