SPECIFICATION FuturesSpec
CONSTANTS
    Symbols <- MCSymbols
    FuturesOrders <- MCFuturesOrders
    SymbolOf <- MCSymbolOf
    Sign <- MCSign
    Size <- MCSize
    LimitPrice <- MCLimitPrice
    Quotes = {12, 24}
    Fees = {0, 6}
    Leverage <- MCLeverage
    Snapshots <- MCSnapshots
    Brackets <- MCBrackets
    Scale = 10
    MaxTicks = 2
    MaxReloads = 1
INVARIANTS BooksSound MarginSound
    LiquidationAtMaintenance
CHECK_DEADLOCK FALSE
