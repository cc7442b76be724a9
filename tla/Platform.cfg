SPECIFICATION Spec
CONSTANTS
    Actors = {q1, q2}
    EnvRefs = {"b1", "p1"}
    EnvHidden = {"p1"}
    EnvVisitors = {"v1"}
    EnvMaxPairs = 2
    EnvMaxPerApp = 2
    EnvMaxEnvs = 2
    EnvMaxBegins = 4
    EnvMaxSpare = 1
    TelFleets = {"f"}
    TelHourLen = 2
    TelLag = 1
    TelMaxChunks = 2
    TelLateUpload = FALSE
    TelMaxTime = 5
    TelMaxSpans = 2
    TelMaxFaults = 1
    SbxFleets = {"f"}
    SbxNames = {"n"}
    SbxMaxIds = 2
    SbxMaxSpawns = 2
    SbxMaxReqs = 2
    SbxMaxFaults = 1
    SbxMaxBoots = 1
    CgFleets = {"f"}
    CgAttempts = 2
    CgBase = 1
    CgCrashCap = 3
    CgOomCap = 4
    CgStable = 2
    CgWindow = 2
    CgMaxTime = 3
    CgMaxKills = 2
    CgMaxFaults = 1
    ErrHourLen = 2
    ErrKeep = 1
    ErrMaxTime = 2
    ErrMaxTraces = 1
    ErrMaxSdk = 1
    ErrMaxOps = 2
    DomApps = {"a", "b"}
    DomSlugs <- Slugs
    DomExtra <- ExtraHosts
    DomAsked <- AskedHosts
    DomControl = "panel"
    DomSingle = FALSE
    DomMaxClaims = 2
    DomMaxCalls = 3
    DomMaxEdits = 2
    InstTried <- Tried
    InstOverrides = {64, 256, 1024}
    InstUidRange = 2
    InstMaxBoots = 2
    InstMaxOps = 4
    NoteVersions <- Versions
    NoteDay = 1
    NoteMaxTime = 2
    NoteMaxNews = 1
    NoteMaxToggles = 1
    NoteMaxFaults = 1
    NoteMaxBoots = 1
    RenMaxWrites = 2
    RenMaxRenames = 2
    RenMaxPasses = 3
    RenMaxFaults = 1
    EvProps = {"p", "q"}
    EvDeltas <- Steps
    EvValues = {1}
    EvIntMax = 3
    EvMaxCalls = 4
    LogCatchUp = 4
    LogTruncateAt = 2
    LogTenants = {1, 2, 4}
    LogMaxLines = 4
    LogMaxRotations = 1
    LogMaxFaults = 2
SYMMETRY Alike
INVARIANTS
    TypeOK
    
    
    OrphansAccounted
    
    
    
    
CHECK_DEADLOCK FALSE
