SPECIFICATION FairSpec
CONSTANTS
    Environment = 0
    LeaseManagement = TRUE
    Symbols = {x1, x2}
    Stops = {s1}
    Guard = guard
    PageSize = 1
    MaxBars = 1
    MaxPos = 1
    MaxFailures = 1
INVARIANTS
    StoppingHasOwner
    FinishedBacktestIsRestored
PROPERTIES
    TerminalIsFinal
    BacktestEnds
