SPECIFICATION Spec
CONSTANTS
  Item = {i1, i2}
  InitialItem = {i1, i2}
  RetryFailedItems = 1
  NumItemsWorker = 1
  MaxItemsPerSecond = 400
  WorkerClass = "browser"
  Measurement <- TwoSpeeds
  MaxWorkersPerCycle = 0
  MaxLostWorkers = 2
  LostRatioNum = 1
  LostRatioDen = 10
  Longliving = FALSE
  Backend = "docker"
  Outcome = {"completed", "failed"}
  Environment = {"late"}
  MaxLaunch = 3
  MaxFaults = 1
INVARIANTS ExclusiveClaim
CHECK_DEADLOCK FALSE
