CONSTANTS
    d1 = d1
    d2 = d2
    admin = admin
    null = null
    none = none
    Events <- MCEvents
    Deliveries <- MCDeliveries
    Admin <- admin
    Null <- null
    NoEvent <- none
    Horizon = 2
    TrialLength = 1
    Grace = 1
    MaxEvents = 3
    MaxGrants = 0

SPECIFICATION SubscriberSpec

INVARIANT AccessNeverRegresses

CHECK_DEADLOCK FALSE
