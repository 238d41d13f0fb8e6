SPECIFICATION FairSpec
CONSTANTS
    i1 = i1
    i2 = i2
    Item = {i1, i2}
    RetryFailedItems = 1
    Task = {t1}
    Payload <- MCItems
    MaxLaunch = 2
    Requests = {"create", "delete", "drop", "enqueue", "heal", "pause", "resume", "update"}
    Updates <- MCUpdates
    Environment = {"api", "scheduler", "enqueue"}
    MaxRequests = 3
    MaxRestarts = 1
    MaxFaults = 1
INVARIANTS
    TypeOK
    NoOrphanItems
PROPERTIES
    ClosedMeansSettled
    PauseHolds
    Served
CHECK_DEADLOCK FALSE
