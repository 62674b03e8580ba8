SPECIFICATION Spec
CONSTANTS
    Environment = 1
    LeaseManagement = TRUE
    Symbols = {x1}
    Stops = {s1}
    Guard = guard
    PageSize = 1
    MaxBars = 0
    MaxPos = 1
    MaxFailures = 0
INVARIANTS
    StreamsReleasedAtEnd
