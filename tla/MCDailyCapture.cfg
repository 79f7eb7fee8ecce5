CONSTANTS
    ws1 = ws1
    ws2 = ws2
    s1 = s1
    s2 = s2
    r1 = r1
    r2 = r2
    NoRunner = NoRunner
    NoWorkspace = NoWorkspace
    Workspaces <- MCWorkspaces
    Scopes <- MCOneScope
    Runners <- MCRunners
    LastPass = 3
    ReportLimit = 1
    MaxJobs = 2
    MaxDeliveries = 2
    MaxFaults = 3

SPECIFICATION Spec

SYMMETRY MCSymmetry

INVARIANTS
    TypeOK
    FinalizedHasNoHole
    DoneMeansFinalized
    GapsReported

CHECK_DEADLOCK FALSE
