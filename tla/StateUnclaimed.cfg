SPECIFICATION FairSpec
CONSTANTS
    Runners = {r1}
    Nobody = nobody
    MaxWrites = 2
    MaxBoots = 2
    MaxFaults = 1
    MaxCancels = 0
PROPERTIES
    DirtySettles
CHECK_DEADLOCK FALSE
