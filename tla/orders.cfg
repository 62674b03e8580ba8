SPECIFICATION FairSpec
CONSTANTS
    Key = k1
    Orders = {o1, o2}
    Keys <- OneKey
    KeyOf <- AllOnKey
    Qty = 2
    InOrder = TRUE
INVARIANTS
    CountedOnce
    QuietIsSettled
    BlockedHasReason
PROPERTIES
    KeysUnblock
    WalletConverges
CHECK_DEADLOCK FALSE
