CONSTANTS
    j1 = j1
    j2 = j2
    k1 = k1
    w1 = w1
    w2 = w2
    p1 = p1
    NoOwner = NoOwner
    NoJob = NoJob
    NoKey = NoKey
    Jobs <- MCJobs
    Keys <- MCKeys
    Workers <- MCWorkers
    Producers <- MCProducers
    MaxAttempts = 2
    MaxFaults = 2
    Heartbeat = TRUE

SPECIFICATION Spec

PROPERTY FailureOnlyWhileOwner

CHECK_DEADLOCK FALSE
