SPECIFICATION ContentionSpec
CONSTANTS
    Apps = {a1, a2}
    Tick = tick
    Parkers = {}
    Wakers = {w1, w2}
    Deployers = {}
    Deleter = deleter
    Nobody = nobody
    WakeConcurrency = 1
    SpawnBatch = 1
    MaxGen = 1
    MaxPatches = 1
    MaxDeploys = 0
    MaxRecycles = 0
    MaxFaults = 2
    MaxRestarts = 1

    
PROPERTIES
    BatchStarvesNobody
CHECK_DEADLOCK FALSE
