SPECIFICATION FairSpec
CONSTANTS
  MaxRequests = 3
  QueueCap = 1
  MaxRuns = 1
  MaxWorkers = 1
  MaxRestarts = 1
  MaxFaults = 1
INVARIANTS TablesSound AwaitedCallCanEnd FailedMeansNoSession
PROPERTY EveryRequestAnswered
CHECK_DEADLOCK FALSE
