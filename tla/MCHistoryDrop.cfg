CONSTANTS
    fundA = fundA
    fundB = fundB
    a0 = a0
    a1 = a1
    b1 = b1
    ab = ab
    Holdings <- MCHoldings
    Purchases <- MCPurchases
    HoldingOf <- MCHoldingOf
    DayOf <- MCDayOf
    Transfers <- MCTransfers
    OriginOf <- MCOriginOf
    DestinationOf <- MCDestinationOf
    MoveDayOf <- MCMoveDayOf
    LastDay = 2

SPECIFICATION HistorySpec

PROPERTY DropsOnlyTheEmpty

CHECK_DEADLOCK FALSE
