SPECIFICATION Spec
CONSTANTS
  Item = {i1, i2}
  InitialItem = {i1, i2}
  RetryFailedItems = 2
  NumItemsWorker = 2
  MaxItemsPerSecond = 400
  WorkerClass = "browser"
  Measurement <- TwoSpeeds
  MaxWorkersPerCycle = 0
  MaxLostWorkers = 1
  LostRatioNum = 2
  LostRatioDen = 3
  Longliving = FALSE
  Backend = "lambda"
  Outcome = {"completed", "failed", "blocked", "abandoned", "unstored", "untouched"}
  Environment = {"die", "refused", "db"}
  MaxLaunch = 3
  MaxFaults = 1
SYMMETRY Items
INVARIANTS WorkerIdsUnique ExclusiveClaim CounterMatchesMeta OrphanCanHeal RateKept TriesBounded
PROPERTIES HealTouchesNoClaim ClosedMeansSettled  LedgerSpec
CHECK_DEADLOCK FALSE
