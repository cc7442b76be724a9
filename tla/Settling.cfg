SPECIFICATION Spec
CONSTANTS
    CredApps = {"a1", "a2"}
    CredSlugs = {"x", "y"}
    CredStores = {"s1"}
    CredTasks = {"t1"}
    CredMaxKeys = 2
    CredMaxFaults = 1
    CredMaxOps = 2
    CredMaxRestarts = 1
    EdgeSites = 2
    EdgeMaxChanges = 2
    EdgeMaxFaults = 2
PROPERTIES
    
    KeysSettle
    TipSettles
    PlaneSettles
    EdgeKeepsPromise
    StreamsSettle
CHECK_DEADLOCK FALSE
