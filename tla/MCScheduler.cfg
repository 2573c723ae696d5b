SPECIFICATION SchedulerSpec
CONSTANTS
    a1 = a1
    a2 = a2
    r1 = r1
    r2 = r2
    Action = {a1, a2}
    Orphan = {a2}
    Routed = {a2}
    Replica = {r1, r2}
    NoAction = NoAction
    Skew <- TwoSkews
    MaxSkew = 1
    MaxDelay = 1
    BatchSize = 2
    ShutdownTimeout = 2
    ClaimTimeout = 3
    StuckAfter = 4
    DuplicateWindow = 2
    MaxCopies = 4
    MaxDeliver = 1
    MaxFaults = 3
INVARIANTS
    LiveClaimKept
PROPERTIES
    ClosedRowsStayClosed
