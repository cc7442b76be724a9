SPECIFICATION Spec
CONSTANTS
    Apps = {a1}
    Tick = tick
    Parkers = {}
    Wakers = {}
    Deployers = {d1}
    Deleter = deleter
    Nobody = nobody
    WakeConcurrency = 1
    SpawnBatch = 1
    MaxGen = 2
    MaxPatches = 1
    MaxDeploys = 1
    MaxRecycles = 2
    MaxFaults = 1
    MaxRestarts = 0
INVARIANTS
    DeployerRowLive
    PurgedStaysEmpty
PROPERTIES
    StopWins
