CONSTANTS
    r1 = r1
    r2 = r2
    r3 = r3
    u1 = u1
    u2 = u2
    u3 = u3
    h1 = h1
    h2 = h2
    d1 = d1
    d2 = d2
    admin = admin
    welcome = welcome
    s1 = s1
    s2 = s2
    null = null
    none = none
    j1 = j1
    j2 = j2
    k1 = k1
    w1 = w1
    w2 = w2
    p1 = p1
    NoOwner = NoOwner
    NoJob = NoJob
    NoKey = NoKey
    Jobs <- MCJobs
    Keys <- MCKeys
    Workers <- MCWorkers
    Producers <- MCProducers
    MaxAttempts = 2
    MaxFaults = 2
    Heartbeat = TRUE
    Events <- MCEvents
    Deliveries <- MCDeliveries
    Admin <- admin
    Horizon = 2
    TrialLength = 1
    Grace = 1
    MaxEvents = 2
    MaxGrants = 1
    Null <- null
    NoEvent <- none
    Welcome <- welcome
    Sweeps <- MCSweeps
    MaxMishaps = 2
    Never <- none
    SignIns <- MCSignIns
    Users <- MCUsers
    UserOf <- MCUserOf
    Shares <- MCShares
    OwnerOf <- MCOwnerOf
    ViewerOf <- MCViewerOf
    CapLimit = 2
    MaxViewers = 1
    LastDay = 1
    MaxOutages = 2
    None <- none

SPECIFICATION ControlSpec

INVARIANTS
    TypeOK
    SingleFlight
    DeliveriesDistinct
    CapNeverLooser
    LoginsConverge
    NoOrphanDatabase
    SharedReadOnly
    AppliedOnce
    PaidAccessKept
    ClaimHeldByOne
    MailedAtMostOnce

PROPERTIES
    ImplementsDeliveryQueue
    DeadOnlyWhenSpent
    EveryJobSettles

CHECK_DEADLOCK FALSE
