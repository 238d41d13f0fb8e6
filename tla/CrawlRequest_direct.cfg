SPECIFICATION FairSpec
CONSTANTS
    px = px
    s1 = s1
    Server = {s1}
    Nobody = Nobody
    Call = {1, 2, 3, 4}
    Upstream = {px}
    NoProxy = NoProxy
    MaxFaults = 1
    Requests <- MCRequests
    ApiMaxConcurrency = 2
    MaxOthers = 2
INVARIANTS
    TypeOK
    OneCallAtATime
    ThroughOwnProxy
    PageIsFresh
    HonestAnswer
    ConcurrencyBounded
PROPERTIES
    RequestEnds
    ServersComeBack
CHECK_DEADLOCK FALSE
