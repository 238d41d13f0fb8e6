SPECIFICATION Spec
CONSTANTS
  Item = {i1, i2}
  InitialItem = {i1}
  RetryFailedItems = 1
  NumItemsWorker = 2
  MaxItemsPerSecond = 400
  WorkerClass = "browser"
  Measurement <- AnySpeed
  MaxWorkersPerCycle = 1
  MaxLostWorkers = 1
  LostRatioNum = 1
  LostRatioDen = 10
  Longliving = FALSE
  Backend = "docker"
  Outcome = {"completed", "failed", "blocked", "unstored"}
  Environment = {"die", "refused", "unacked", "db", "crash", "late", "enqueue"}
  MaxLaunch = 2
  MaxFaults = 2
INVARIANTS TypeOK CrawledIffCompleted
CHECK_DEADLOCK FALSE
