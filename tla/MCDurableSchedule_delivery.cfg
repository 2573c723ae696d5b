SPECIFICATION FairSpec
CONSTANTS
    a1 = a1
    a2 = a2
    r1 = r1
    r2 = r2
    w1 = w1
    w2 = w2
    Action = {a1}
    Orphan = {}
    Routed = {a1}
    Replica = {r1, r2}
    Worker = {w1}
    NoAction = NoAction
    NoCopy = NoCopy
    Skew <- TwoSkews
    MaxSkew = 1
    MaxDelay = 1
    BatchSize = 1
    ShutdownTimeout = 2
    ClaimTimeout = 3
    StuckAfter = 4
    DuplicateWindow = 2
    MaxCopies = 3
    MaxDeliver = 3
    MaxFaults = 2
    MaxRuns = 2
INVARIANTS
    TypeOK
    CompletedIsCarried
    InboxAfterOutcome
PROPERTIES
    KeepsPromise
    ScheduledIsSettled
