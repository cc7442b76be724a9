SPECIFICATION FairRunning
CONSTANTS
    Apps = {a1}
    Tick = tick
    Parkers = {p1}
    Wakers = {}
    Deployers = {}
    Deleter = deleter
    Nobody = nobody
    WakeConcurrency = 1
    SpawnBatch = 1
    MaxGen = 1
    MaxPatches = 0
    MaxDeploys = 0
    MaxRecycles = 0
    MaxFaults = 0
    MaxRestarts = 0
PROPERTIES
    SleepSettles
