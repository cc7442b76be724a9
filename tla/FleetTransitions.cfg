SPECIFICATION RunningSpec
CONSTANTS
    Apps = {a1}
    Tick = tick
    Parkers = {p1}
    Wakers = {w1, w2}
    Deployers = {}
    Deleter = deleter
    Nobody = nobody
    WakeConcurrency = 1
    SpawnBatch = 1
    MaxGen = 1
    MaxPatches = 0
    MaxDeploys = 0
    MaxRecycles = 0
    MaxFaults = 1
    MaxRestarts = 1
SYMMETRY WakersAlike
INVARIANTS
    TransitionExclusion
    NothingLeaked
    ParkedBehindWakeRoute
