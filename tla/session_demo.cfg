SPECIFICATION Spec
CONSTANTS
    Environment = 1
    LeaseManagement = FALSE
    Symbols = {x1}
    Stops = {s1, s2}
    Guard = guard
    PageSize = 1
    MaxBars = 0
    MaxPos = 1
    MaxFailures = 1
SYMMETRY StopSymmetry
INVARIANTS
    RowNeverAhead
    WalletCoversExchange
    StreamsReleasedAtEnd
