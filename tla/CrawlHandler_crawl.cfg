SPECIFICATION FairSpec
CONSTANTS
    Item <- TwoItems
    p1 = p1
    p2 = p2
    Proxy = {p1, p2}
    Mobile = {p1}
    Rotating = {p2}
    NoProxy = NoProxy
    Configs <- MCConfigs
    Updates <- MCUpdates
    MaxAttempts = 2
    MaxFaults = 1
    MaxOthers = 1
INVARIANTS
    TypeOK
    ResultsKept
    LeavesAnOutcome
    BrowsersLeft
PROPERTIES
    BlockedIsAvoided
    RunEnds
CHECK_DEADLOCK FALSE
