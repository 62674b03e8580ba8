SPECIFICATION FairSpec
CONSTANTS
  Steps <- MCSteps
  Start = 3
  End = 4
  PageSize = 1
  MaxEdits = 2
  MaxBackfills = 1
  MaxFaults = 1
CHECK_DEADLOCK FALSE
INVARIANTS ReplaySound ViewIsCurrent CodeSound ReloadCatchesUp
PROPERTY ReplayEnds
