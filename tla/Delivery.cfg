SPECIFICATION Spec
CONSTANTS
    Actors = {q1, q2}
    VoidCohosted <- Sites
    VoidContents = {"c1", "c2"}
    VoidMaxLevel = 2
    VoidMaxDeploys = 2
    VoidMaxFaults = 3
    ScanSymbols = {"w", "begin", "bp", " ", ";", "'", "[", "]", "--", "/", "*", "nl"}
    ScanMaxLen = 3
    GitRefs = {"main", "dev"}
    GitMaxSha = 2
    GitMaxFaults = 1
    GitMaxBegins = 3
    PrsUsers = {"ann", "bob"}
    PrsMaxPrs = 1
    PrsMaxSha = 4
    PrsMaxOps = 5
    WebPaths = {"a", "b", "c"}
    WebMaxMoves = 2
    ConfEdited = {"AUTH", "TOKEN", "ADM", "KEY"}
    ConfMaxEdits = 1
    ConfMaxDeploys = 2
    ConfMaxFaults = 1
    MapsShas = {"s1", "s2", "s3"}
    MapsDeployed <- Past
    MapsKeepShas = 1
    MapsCap = 3
    MapsTTL = 0
    MapsMaxDeploys = 1
    MapsMaxTime = 1
    MapsMaxReads = 2
    MapsMaxFaults = 1
    ImpSlugs = {"x", "y"}
    ImpFirst = "x"
    ImpRequests = {"retry"}
    ImpCap = 1
    ImpMaxSize = 2
    ImpMaxPushes = 1
    ImpMaxUp = 2
    ImpMaxOps = 1
    ImpMaxFaults = 1
    BootSchema <- Images
    BootKind <- Kinds
    BootConfs = {"A", "B"}
    BootMaxBoots = 3
    BootMaxFaults = 2
    R2Keys <- Stored
    R2PageLimit = 1
    R2RawCap = 1
    R2Sizes = {1, 2}
    R2Types = {"t"}
    R2MaxWrites = 2
    R2MaxRequests = 1
    D1MaxRows = 2
    D1MaxChanges = 2
    D1MaxCalls = 2
    D1PageSize = 1
    D1MaxDeleteKeys = 2
    S3NumKeys = 3
    S3PageSize = 1
    S3BodyLen = 2
    S3Attempts = 2
    S3Waits = 2
    S3MaxWrites = 2
    S3MaxCalls = 1
    S3MaxFaults = 2
SYMMETRY Alike
INVARIANTS
    TypeOK
    
    PlanFollowsLexer
    MergedWasApproved
    
    ShipsVetted
    PublishedWithinCap
    BootServesItsShape
    ListingsComplete

    
CHECK_DEADLOCK FALSE
