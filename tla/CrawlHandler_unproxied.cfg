SPECIFICATION Spec
CONSTANTS
    Item <- TwoItems
    p1 = p1
    p2 = p2
    Proxy = {p1, p2}
    Mobile = {p1}
    Rotating = {p2}
    NoProxy = NoProxy
    Configs <- Pooled
    Updates <- NoUpdates
    MaxAttempts = 2
    MaxFaults = 0
    MaxOthers = 0
PROPERTIES
    CrawlsThroughProxy
CHECK_DEADLOCK FALSE
