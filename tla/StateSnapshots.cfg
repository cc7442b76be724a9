SPECIFICATION FairSpec
CONSTANTS
    Runners = {r1}
    Nobody = nobody
    MaxWrites = 2
    MaxBoots = 2
    MaxFaults = 2
    MaxCancels = 1
INVARIANTS
    SkipSound
PROPERTIES
    SnapshotKeeps
    ClaimedSettles
CHECK_DEADLOCK FALSE
