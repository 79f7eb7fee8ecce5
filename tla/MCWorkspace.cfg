CONSTANTS
    c1 = c1
    c2 = c2
    c3 = c3
    base = base
    imp1 = imp1
    imp2 = imp2
    rep1 = rep1
    rep2 = rep2
    corr = corr
    amended1 = amended1
    amended2 = amended2
    creation = creation
    d1 = d1
    d2 = d2
    hand = hand
    opening = opening
    none = none
    key1 = key1
    item1 = item1
    never = never
    fundA = fundA
    fundB = fundB
    a0 = a0
    a1 = a1
    ab = ab
    Calls <- MCCalls
    Writes = 2
    MaxThrows = 2
    Base <- base
    Proposals <- MCProposals
    Kind <- MCKind
    Drafted <- MCDrafted
    Dates <- MCDates
    FileDates <- MCFileDates
    Requests <- MCRequests
    Hand <- hand
    Opening <- opening
    None <- none
    MaxEdits = 1
    MaxFaults = 1
    Items <- MCItems
    Sources <- MCSources
    MaxKey = 4
    MaxRuns = 2
    Never <- never
    Holdings <- MCHoldings
    Purchases <- MCPurchases
    HoldingOf <- MCHoldingOf
    DayOf <- MCDayOf
    Transfers <- MCTransfers
    OriginOf <- MCOriginOf
    DestinationOf <- MCDestinationOf
    MoveDayOf <- MCMoveDayOf
    LastDay = 2

SPECIFICATION Spec

INVARIANTS
    TypeOK
    OuterAllOrNothing
    JoinedInTimeIsKept
    CreationWritesOnce
    RepaidAsShown
    AmendmentLeavesOne
    KeysSurvivePush
    HistoryFollowsBook

PROPERTIES
    EveryCallEnds
    ImplementsUnitOfWork
    ImplementsResolution
    ImportMergesByDate
    OverwritesWhatWasSeen

CHECK_DEADLOCK FALSE
