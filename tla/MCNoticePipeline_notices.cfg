CONSTANTS
    Event = {1, 2}
    Relay = {r1}
    RelayBatch = 2
    MaxCopies = 3
    MaxDeliver = 3
    DuplicateWindow = 1
    MaxFaults = 2
    Notifier = {n1}
    Mute = {2}
    Unreachable = {}
    NoTask = NoTask
SPECIFICATION FairSpec
INVARIANTS TypeOK PublishedIsCarried RepeatsAreExcused
PROPERTY HappenedIsTold
CHECK_DEADLOCK FALSE
