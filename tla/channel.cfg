SPECIFICATION FairSpec
CONSTANTS
  MaxCalls = 2
  Timeout = 1
  Grace = 1
  Cap = 2
  WorkerCap = 2
  Batches = 2
  MaxStray = 1
INVARIANTS AnswersAreTrue GraceSuffices DataInOrder
PROPERTY NobodyWaitsForever
CHECK_DEADLOCK FALSE
