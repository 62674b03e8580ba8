SPECIFICATION FairSpec
CONSTANTS
  Keys = {ma, signal}
  Limit = 3
  MaxBars = 5
  MaxFaults = 2
  MaxRestarts = 1
INVARIANTS NothingLost PointsAtTheirBars
PROPERTIES ImplementsLog EverythingShown
CHECK_DEADLOCK FALSE
