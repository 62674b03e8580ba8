SPECIFICATION Spec
CONSTANTS
    Orders <- MCOrders
    Buys <- MCBuys
    Limit <- MCLimit
    MaxPrice = 2
    Qty = 3
    Fee = 1
    Free0 = 9
    Base0 = 3
INVARIANTS LedgerSound CheckedIsBooked
CHECK_DEADLOCK FALSE
