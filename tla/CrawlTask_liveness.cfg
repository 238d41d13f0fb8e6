SPECIFICATION FairSpec
CONSTANTS
  Item = {i1, i2}
  InitialItem = {i1, i2}
  RetryFailedItems = 1
  NumItemsWorker = 2
  MaxItemsPerSecond = 200
  WorkerClass = "browser"
  Measurement <- OneSpeed
  MaxWorkersPerCycle = 0
  MaxLostWorkers = 1
  LostRatioNum = 2
  LostRatioDen = 3
  Longliving = FALSE
  Backend = "lambda"
  Outcome = {"completed", "failed", "blocked", "abandoned", "untouched"}
  Environment = {"die", "refused", "db"}
  MaxLaunch = 5
  MaxFaults = 1
PROPERTIES Termination
CHECK_DEADLOCK FALSE
