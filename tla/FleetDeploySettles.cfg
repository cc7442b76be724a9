SPECIFICATION FairSpec
CONSTANTS
    Apps = {a1}
    Tick = tick
    Parkers = {}
    Wakers = {}
    Deployers = {d1}
    Deleter = deleter
    Nobody = nobody
    WakeConcurrency = 1
    SpawnBatch = 1
    MaxGen = 2
    MaxPatches = 0
    MaxDeploys = 1
    MaxRecycles = 1
    MaxFaults = 1
    MaxRestarts = 1
PROPERTIES
    OrphanSettles
    WantedServes
