CONSTANTS
    wallet = wallet
    village = village
    p1 = p1
    a1 = a1
    c1 = c1
    Key = {wallet, village}
    SettlementKey = {village}
    Rank <- Ranks
    Projector = {p1}
    Api = {a1}
    Worker = {p1, a1}
    Client = {c1}
    NoWorker = NoWorker
    NoTask = NoTask
    KeepLast = 1
    ResetThreshold = 1
    PullLimit = 1
    Ways <- AllWays
    MaxChanges = 2
    MaxFaults = 1
SPECIFICATION FairSpec
INVARIANTS TypeOK CopyIsTheView LogIsWhole NeverBackwards ResetOnlyBehind
PROPERTIES FollowsTheLog EventuallyCaughtUp
