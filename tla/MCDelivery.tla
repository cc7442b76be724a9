-------------------- MODULE MCDelivery --------------------
(*****************************************************************************)
(* The components between a repository and a serving revision, and the      *)
(* panel's browsers of an app's data, in one run. They do not share state:  *)
(* every behaviour is about one of them (part), the others rest in their    *)
(* initial state.                                                           *)
(*****************************************************************************)
EXTENDS Integers, Sequences, FiniteSets, TLC

CONSTANTS
    Actors,  \* interchangeable requests, tasks, readers, apps or objects
    VoidCohosted, VoidContents, VoidMaxLevel, VoidMaxDeploys, VoidMaxFaults,
    ScanSymbols, ScanMaxLen,
    GitRefs, GitMaxSha, GitMaxFaults, GitMaxBegins,
    PrsUsers, PrsMaxPrs, PrsMaxSha, PrsMaxOps,
    WebPaths, WebMaxMoves,
    ConfEdited, ConfMaxEdits, ConfMaxDeploys, ConfMaxFaults,
    MapsShas, MapsDeployed, MapsKeepShas, MapsCap, MapsTTL, MapsMaxDeploys,
    MapsMaxTime, MapsMaxReads, MapsMaxFaults,
    ImpSlugs, ImpFirst, ImpRequests, ImpCap, ImpMaxSize, ImpMaxPushes, ImpMaxUp,
    ImpMaxOps, ImpMaxFaults,
    BootSchema, BootKind, BootConfs, BootMaxBoots, BootMaxFaults,
    R2Keys, R2PageLimit, R2RawCap, R2Sizes, R2Types, R2MaxWrites, R2MaxRequests,
    D1MaxRows, D1MaxChanges, D1MaxCalls, D1PageSize, D1MaxDeleteKeys,
    S3NumKeys, S3PageSize, S3BodyLen, S3Attempts, S3Waits, S3MaxWrites, S3MaxCalls,
    S3MaxFaults

\* The sequences the run uses: one co-hosted site, two past deploys, three
\* images of which the last two share a schema version, what each version's
\* step is, and keys with an empty segment.
Sites == <<"proxy">>
Past == <<"s1", "s2">>
Images == <<2, 5, 5>>
Kinds == <<"base", "table", "indexed", "data", "column">>
Stored == <<<<"a", "">>, <<"a", "", "b">>, <<"a", "c">>, <<"d">>>>

VARIABLES
    part,  \* the component this behaviour is about
    vRow, vHash, vPtr, vServing, vApplied, vExec, vDep, vLeft,
    sSql, sAt, sSegs, sPlan,
    gMirror, gBundles, gManifest, gApplied, gGuard, gReq, gAck, gLeft,
    prTip, prHas, prRows, prReviews, prNeed, prReq, prLanded, prLeft,
    wParent, wChange, wIndex, wStep,
    dRows, dNext, dMinted, dDep, dShip, dLeft,
    uRows, uBucket, uDep, uCache, uRead, uNow, uLeft,
    aApp, aMain, aStage, aTask, aFlight, aReq, aUp, aTip, aPushed, aLeft,
    kBoot, kDb, kSnap, kMet, kCtl, kSup, kLeft,
    hObjects, hWalk, hSteady, hSpool, hRead, hLeft,
    bSchema, bRows, bPage, bCall, bLeft,
    lStore, lBucket, lCall, lKept, lEver, lFresh, lFile, lWrites, lLeft

\* Deploys of a co-hosted app: one site, two contents, two levels of schema.
Void == INSTANCE VoidDeploy WITH Cohosted <- VoidCohosted, Contents <- VoidContents,
    MaxLevel <- VoidMaxLevel, MaxDeploys <- VoidMaxDeploys, MaxFaults <- VoidMaxFaults
voidVars == <<vRow, vHash, vPtr, vServing, vApplied, vExec, vDep, vLeft>>

\* Migration files of up to three symbols.
Scan == INSTANCE MigrationScan WITH Symbols <- ScanSymbols, MaxLen <- ScanMaxLen
scanVars == <<sSql, sAt, sSegs, sPlan>>

\* Pushes and readers of one repository.
Git == INSTANCE GitRefs WITH Refs <- GitRefs, Requests <- Actors, MaxSha <- GitMaxSha,
    MaxFaults <- GitMaxFaults, MaxBegins <- GitMaxBegins
gitVars == <<gMirror, gBundles, gManifest, gApplied, gGuard, gReq, gAck, gLeft>>

\* One pull request, two users, two requests under way.
Prs == INSTANCE PullRequests WITH Users <- PrsUsers, Requests <- Actors,
    MaxPrs <- PrsMaxPrs, MaxSha <- PrsMaxSha, MaxOps <- PrsMaxOps
prVars == <<prTip, prHas, prRows, prReviews, prNeed, prReq, prLanded, prLeft>>

\* Commits of the web editor with up to two moves.
Web == INSTANCE WebCommit WITH Paths <- WebPaths, MaxMoves <- WebMaxMoves
webVars == <<wParent, wChange, wIndex, wStep>>

\* What a deploy hands to its fleet.
Conf == INSTANCE DeployConfig WITH Edited <- ConfEdited, MaxEdits <- ConfMaxEdits,
    MaxDeploys <- ConfMaxDeploys, MaxFaults <- ConfMaxFaults
confVars == <<dRows, dNext, dMinted, dDep, dShip, dLeft>>

\* Maps of two past deploys and a third, two readers of the cache.
Maps == INSTANCE SourceMaps WITH Shas <- MapsShas, Readers <- Actors,
    Deployed <- MapsDeployed, KeepShas <- MapsKeepShas, Cap <- MapsCap,
    TTL <- MapsTTL, MaxDeploys <- MapsMaxDeploys, MaxTime <- MapsMaxTime,
    MaxReads <- MapsMaxReads, MaxFaults <- MapsMaxFaults
mapsVars == <<uRows, uBucket, uDep, uCache, uRead, uNow, uLeft>>

\* An import and its retry, an upstream one unit over the cap.
Imp == INSTANCE AppImport WITH Slugs <- ImpSlugs, First <- ImpFirst, Tasks <- Actors,
    Requests <- ImpRequests, Cap <- ImpCap, MaxSize <- ImpMaxSize,
    MaxPushes <- ImpMaxPushes, MaxUp <- ImpMaxUp, MaxOps <- ImpMaxOps,
    MaxFaults <- ImpMaxFaults
impVars == <<aApp, aMain, aStage, aTask, aFlight, aReq, aUp, aTip, aPushed, aLeft>>

\* Three images, the last two of one schema version.
Boot == INSTANCE BootUpgrade WITH Schema <- BootSchema, Kind <- BootKind,
    Confs <- BootConfs, MaxBoots <- BootMaxBoots, MaxFaults <- BootMaxFaults
bootVars == <<kBoot, kDb, kSnap, kMet, kCtl, kSup, kLeft>>

\* Keys with an empty segment, pages of one entry.
R2 == INSTANCE R2Browser WITH Keys <- R2Keys, PageLimit <- R2PageLimit,
    RawCap <- R2RawCap, Sizes <- R2Sizes, Types <- R2Types, MaxWrites <- R2MaxWrites,
    MaxRequests <- R2MaxRequests
r2Vars == <<hObjects, hWalk, hSteady, hSpool, hRead, hLeft>>

\* A table of up to two rows that may be rebuilt.
D1 == INSTANCE D1Editor WITH MaxRows <- D1MaxRows, MaxChanges <- D1MaxChanges,
    MaxCalls <- D1MaxCalls, PageSize <- D1PageSize, MaxDeleteKeys <- D1MaxDeleteKeys
d1Vars == <<bSchema, bRows, bPage, bCall, bLeft>>

\* Three keys in pages of one, two attempts.
S3 == INSTANCE S3Client WITH NumKeys <- S3NumKeys, PageSize <- S3PageSize,
    BodyLen <- S3BodyLen, Attempts <- S3Attempts, Waits <- S3Waits,
    MaxWrites <- S3MaxWrites, MaxCalls <- S3MaxCalls, MaxFaults <- S3MaxFaults
s3Vars == <<lStore, lBucket, lCall, lKept, lEver, lFresh, lFile, lWrites, lLeft>>

\* What the constants must satisfy for the proofs.
ASSUME VoidBounds == Void!Bounds
ASSUME ScanBounds == Scan!Bounds
ASSUME GitBounds == Git!Bounds
ASSUME PrsBounds == Prs!Bounds
ASSUME WebBounds == Web!Bounds
ASSUME ConfBounds == Conf!Bounds
ASSUME D1Bounds == D1!Bounds
ASSUME MapsBounds == Maps!Bounds
ASSUME ImpBounds == Imp!Bounds
ASSUME BootBounds == Boot!Bounds
ASSUME R2Bounds == R2!Bounds
ASSUME S3Bounds == S3!Bounds

allVars == <<part, voidVars, scanVars, gitVars, prVars, webVars, confVars, mapsVars,
             impVars, bootVars, r2Vars, d1Vars, s3Vars>>

-----------------------------------------------------------------------------
Init ==
    /\ part \in {"void", "scan", "git", "pr", "web", "conf", "maps", "imp",
                  "boot", "r2", "d1", "s3"}
    /\ Void!Init
    /\ Scan!Init
    /\ Git!Init
    /\ Prs!Init
    /\ Web!Init
    /\ Conf!Init
    /\ Maps!Init
    /\ Imp!Init
    /\ Boot!Init
    /\ R2!Init
    /\ D1!Init
    /\ S3!Init

VoidStep ==
    /\ part = "void" /\ Void!Next
    /\ UNCHANGED <<part, scanVars, gitVars, prVars, webVars, confVars, mapsVars,
                   impVars, bootVars, r2Vars, d1Vars, s3Vars>>
ScanStep ==
    /\ part = "scan" /\ Scan!Next
    /\ UNCHANGED <<part, voidVars, gitVars, prVars, webVars, confVars, mapsVars,
                   impVars, bootVars, r2Vars, d1Vars, s3Vars>>
GitStep ==
    /\ part = "git" /\ Git!Next
    /\ UNCHANGED <<part, voidVars, scanVars, prVars, webVars, confVars, mapsVars,
                   impVars, bootVars, r2Vars, d1Vars, s3Vars>>
PrsStep ==
    /\ part = "pr" /\ Prs!Next
    /\ UNCHANGED <<part, voidVars, scanVars, gitVars, webVars, confVars, mapsVars,
                   impVars, bootVars, r2Vars, d1Vars, s3Vars>>
WebStep ==
    /\ part = "web" /\ Web!Next
    /\ UNCHANGED <<part, voidVars, scanVars, gitVars, prVars, confVars, mapsVars,
                   impVars, bootVars, r2Vars, d1Vars, s3Vars>>
ConfStep ==
    /\ part = "conf" /\ Conf!Next
    /\ UNCHANGED <<part, voidVars, scanVars, gitVars, prVars, webVars, mapsVars,
                   impVars, bootVars, r2Vars, d1Vars, s3Vars>>
MapsStep ==
    /\ part = "maps" /\ Maps!Next
    /\ UNCHANGED <<part, voidVars, scanVars, gitVars, prVars, webVars, confVars,
                   impVars, bootVars, r2Vars, d1Vars, s3Vars>>
ImpStep ==
    /\ part = "imp" /\ Imp!Next
    /\ UNCHANGED <<part, voidVars, scanVars, gitVars, prVars, webVars, confVars,
                   mapsVars, bootVars, r2Vars, d1Vars, s3Vars>>
BootStep ==
    /\ part = "boot" /\ Boot!Next
    /\ UNCHANGED <<part, voidVars, scanVars, gitVars, prVars, webVars, confVars,
                   mapsVars, impVars, r2Vars, d1Vars, s3Vars>>
R2Step ==
    /\ part = "r2" /\ R2!Next
    /\ UNCHANGED <<part, voidVars, scanVars, gitVars, prVars, webVars, confVars,
                   mapsVars, impVars, bootVars, d1Vars, s3Vars>>
D1Step ==
    /\ part = "d1" /\ D1!Next
    /\ UNCHANGED <<part, voidVars, scanVars, gitVars, prVars, webVars, confVars,
                   mapsVars, impVars, bootVars, r2Vars, s3Vars>>
S3Step ==
    /\ part = "s3" /\ S3!Next
    /\ UNCHANGED <<part, voidVars, scanVars, gitVars, prVars, webVars, confVars,
                   mapsVars, impVars, bootVars, r2Vars, d1Vars>>

Next ==
    \/ VoidStep
    \/ ScanStep
    \/ GitStep
    \/ PrsStep
    \/ WebStep
    \/ ConfStep
    \/ MapsStep
    \/ ImpStep
    \/ BootStep
    \/ R2Step
    \/ D1Step
    \/ S3Step

Spec == Init /\ [][Next]_allVars

\* Requests, tasks, readers, apps and objects of a component are alike.
Alike == Permutations(Actors)

-----------------------------------------------------------------------------
\* Every component keeps its types.
TypeOK ==
    /\ part = "void" => Void!TypeOK
    /\ part = "scan" => Scan!TypeOK
    /\ part = "git" => Git!TypeOK
    /\ part = "pr" => Prs!TypeOK
    /\ part = "web" => Web!TypeOK
    /\ part = "conf" => Conf!TypeOK
    /\ part = "maps" => Maps!TypeOK
    /\ part = "imp" => Imp!TypeOK
    /\ part = "boot" => Boot!TypeOK
    /\ part = "r2" => R2!TypeOK
    /\ part = "d1" => D1!TypeOK
    /\ part = "s3" => S3!TypeOK

\* Void deploys: traffic reaches a revision only after its migrations were
\* applied (void_cohost.rs).
MigratedBeforeTraffic == part = "void" => Void!MigratedBeforeTraffic

\* Migrations: the plan of a file is the one its lexical structure calls for
\* (void_migrate.rs).
PlanFollowsLexer == part = "scan" => Scan!PlanFollowsLexer

\* Pull requests: what was merged had the approvals the branch rule asked
\* for, of the tip that landed (service/prs.rs).
MergedWasApproved == part = "pr" => Prs!MergedWasApproved

\* What a member edits in the panel is what changes: the tree of a web commit
\* holds exactly the edits, moves and deletions asked for, and an edit of a
\* table touches the row that was shown.
PanelEditsApply ==
    /\ part = "web" => Web!CommitsWhatWasAsked
    /\ part = "d1" => D1!EditTouchesShown

\* Settings: what a deploy hands to its fleet was checked for that fleet.
ShipsVetted == part = "conf" => Conf!ShipsVetted

\* What is published stays: a reader's sync takes no ref out of the mirror,
\* or off its commit, that the stored manifest names (forge.rs), and no prune
\* takes the maps of a deploy that is to be kept (sourcemaps.rs).
PublishedStays == Git!ReadersKeepRefs /\ Maps!RecentMapsStay

\* Imports: nothing over the size cap is published as main.
PublishedWithinCap == part = "imp" => Imp!PublishedWithinCap

\* Boot: the databases have the shape the serving image expects, and the
\* readiness gate opens on the revision it checked.
BootServesItsShape == part = "boot" => Boot!ServedShape /\ Boot!GateServesRevision

\* Listings in pages miss nothing: a walk through the object browser reaches
\* every key that was there throughout, and a listing of the S3 client that
\* ends holds every key that never went away.
ListingsComplete ==
    /\ part = "r2" => R2!BrowseReachesEveryKey
    /\ part = "s3" => S3!ListComplete
=============================================================================
