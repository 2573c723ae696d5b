CONSTANTS
    Gateway = {g1, g2}
    Nobody = Nobody
    TTL = 2
    RenewEvery = 1
    MaxCall = 0
    MaxFaults = 2
    MaxUpdate = 2
    FetchLimit = 2
SPECIFICATION FairSpec
INVARIANTS TypeOK ConfirmedWasBegun OneCommandPerUpdate
PROPERTY SentIsConfirmed
