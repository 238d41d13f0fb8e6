SPECIFICATION Spec
CONSTANTS
    i1 = i1
    i2 = i2
    Item = {i1, i2}
    RetryFailedItems = 1
    Task = {t1}
    Payload <- MCPayload
    MaxLaunch = 1
    Requests = {"create"}
    Updates <- MCUpdates
    Environment = {}
    MaxRequests = 1
    MaxRestarts = 3
    MaxFaults = 0
INVARIANT DaemonRuns
CHECK_DEADLOCK FALSE
