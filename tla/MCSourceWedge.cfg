CONSTANTS
    j1 = j1
    j2 = j2
    k1 = k1
    w1 = w1
    w2 = w2
    p1 = p1
    cron = cron
    NoOwner = NoOwner
    NoJob = NoJob
    NoKey = NoKey
    Never = Never
    Free = Free
    Lost = Lost
    Jobs <- MCJobs
    Keys <- MCKeys
    Workers <- MCOneWorker
    Producers <- MCProducers
    Inline <- MCInline
    MaxAttempts = 2
    MaxFaults = 1
    Heartbeat = FALSE
    Retention = 1

SPECIFICATION FairSpec

PROPERTY Unwedged

CHECK_DEADLOCK FALSE
