-------------------- MODULE MCPlatform --------------------
(*****************************************************************************)
(* The components around the fleets (environments, domains, telemetry,      *)
(* error tracking, sandboxes, containment, settings, notices, renames,      *)
(* counters) in one run. They do not share state: every behaviour is about  *)
(* one of them (part), the others rest in their initial state.              *)
(*****************************************************************************)
EXTENDS Integers, Sequences, FiniteSets, TLC

CONSTANTS
    Actors,  \* interchangeable requests, tasks, readers, apps or objects
    EnvRefs, EnvHidden, EnvVisitors, EnvMaxPairs, EnvMaxPerApp, EnvMaxEnvs,
    EnvMaxBegins, EnvMaxSpare,
    TelFleets, TelHourLen, TelLag, TelMaxChunks, TelLateUpload, TelMaxTime,
    TelMaxSpans, TelMaxFaults,
    SbxFleets, SbxNames, SbxMaxIds, SbxMaxSpawns, SbxMaxReqs, SbxMaxFaults,
    SbxMaxBoots,
    CgFleets, CgAttempts, CgBase, CgCrashCap, CgOomCap, CgStable, CgWindow, CgMaxTime,
    CgMaxKills, CgMaxFaults,
    ErrHourLen, ErrKeep, ErrMaxTime, ErrMaxTraces, ErrMaxSdk, ErrMaxOps,
    DomApps, DomSlugs, DomExtra, DomAsked, DomControl, DomSingle, DomMaxClaims,
    DomMaxCalls, DomMaxEdits,
    InstTried, InstOverrides, InstUidRange, InstMaxBoots, InstMaxOps,
    NoteVersions, NoteDay, NoteMaxTime, NoteMaxNews, NoteMaxToggles, NoteMaxFaults,
    NoteMaxBoots,
    RenMaxWrites, RenMaxRenames, RenMaxPasses, RenMaxFaults,
    EvProps, EvDeltas, EvValues, EvIntMax, EvMaxCalls,
    LogCatchUp, LogTruncateAt, LogTenants, LogMaxLines, LogMaxRotations, LogMaxFaults

VARIABLES
    part,  \* the component this behaviour is about
    eRow, eLive, eLock, eReq, ePrefix, eDep, eToken, eGranted, eEntered, eSpare,
    mNow, mLive, mBuf, mDir, mLanded, mCount, mStat, mMark, mFrom, mMem, mSealed, mTick,
    mReplay, mLeft,
    xEngine, xExecs, xProc, xPid, xReg, xKnown, xReq, xClose, xRunner, xNext, xActed,
    xExcused, xLeft,
    zSetup, zOk, zAnchor, zLeaf, zRun, zMap, zStep, zOom, zGate, zNote, zBuild, zNow,
    zLeft,
    rReq, rIndex, rPend, rIssue, rHours, rEvents, rPass, rSdk, rFired, rLost, rReports,
    rNow, rLeft,
    nApp, nEnv, nRows, nDns, nPublished, nReq, nLeft,
    iConf, iRows, iFleets, iBuild, iNft, iLeft,
    oNow, oImage, oRows, oFeed, oCall, oLate, oLeft,
    yRow, yData, yDir, yFleet, yPass, yMove, yLate, yWrites, yLeft,
    fHere, fLog, fInsight, fProfile, fCall, fDue, fWanted, fOverlap, fLeft,
    qLog, qSaved, qTick, qCount, qSkipped, qRaced, qWritten, qFails, qLeft

-----------------------------------------------------------------------------
\* The values the run gives to the constants that are not numbers or names.
Slugs == "a" :> "alpha" @@ "b" :> "beta"
Versions == {[core |-> 1, pre |-> <<<<1, 1>>, <<0, 9>>>>],
             [core |-> 1, pre |-> <<<<1, 1>>, <<0, 10>>>>],
             [core |-> 1, pre |-> <<>>]}
NoProxy == [domain |-> "", relay |-> "", mode |-> "starttls", plain |-> "", ai |-> "",
            aiEnabled |-> "", aiPlain |-> ""]
PrivateRelay == [NoProxy EXCEPT !.domain = "bare", !.relay = "private"]
Sidecar == [NoProxy EXCEPT !.ai = "httpLoopback", !.aiEnabled = "on", !.aiPlain = "on"]
Plain == [local |-> FALSE, tenancy |-> "", dev_secrets |-> FALSE, memory |-> 99999,
          ceiling |-> 99999, base |-> 99999, fleet |-> 99999,
          box |-> [total |-> 4096, cores |-> 4], slots |-> 99999, build |-> 99999,
          proxy |-> NoProxy]
Tried ==
    {Plain, [Plain EXCEPT !.memory = 128, !.ceiling = 256], [Plain EXCEPT !.ceiling = 1024],
     [Plain EXCEPT !.ceiling = 32], [Plain EXCEPT !.ceiling = 99998], [Plain EXCEPT !.memory = 0],
     [Plain EXCEPT !.tenancy = "single", !.memory = 0], [Plain EXCEPT !.tenancy = "single", !.base = 0],
     [Plain EXCEPT !.base = 10040, !.slots = 3], [Plain EXCEPT !.fleet = 10031],
     [Plain EXCEPT !.fleet = 0], [Plain EXCEPT !.base = 0, !.build = 128], [Plain EXCEPT !.base = 0],
     [Plain EXCEPT !.dev_secrets = TRUE], [Plain EXCEPT !.proxy = PrivateRelay],
     [Plain EXCEPT !.local = TRUE, !.dev_secrets = TRUE, !.proxy = Sidecar,
                   !.box = [total |-> 0, cores |-> 2]]}
ExtraHosts == <<<<"lan">>>>
AskedHosts == {<<"shop", "com">>, <<"alpha", "lan">>}
\* An increment may take away.
Steps == {0 - 1, 2}

-----------------------------------------------------------------------------
\* The components. Above each: the instance of the run.

\* A branch and a hidden preview, two port pairs.
Env == INSTANCE Environments WITH Refs <- EnvRefs, Hidden <- EnvHidden,
    Requests <- Actors, Visitors <- EnvVisitors, MaxPairs <- EnvMaxPairs,
    MaxPerApp <- EnvMaxPerApp, MaxEnvs <- EnvMaxEnvs, MaxBegins <- EnvMaxBegins,
    MaxSpare <- EnvMaxSpare
envVars == <<eRow, eLive, eLock, eReq, ePrefix, eDep, eToken, eGranted, eEntered,
             eSpare>>

\* Two spans over two hours and a half.
Tel == INSTANCE Telemetry WITH Fleets <- TelFleets, HourLen <- TelHourLen,
    Lag <- TelLag, MaxChunks <- TelMaxChunks, LateUpload <- TelLateUpload,
    MaxTime <- TelMaxTime, MaxSpans <- TelMaxSpans, MaxFaults <- TelMaxFaults
telVars == <<mNow, mLive, mBuf, mDir, mLanded, mCount, mStat, mMark, mFrom, mMem,
             mSealed, mTick, mReplay, mLeft>>

\* Two requests for one sandbox name, a fleet that respawns.
Sbx == INSTANCE Sandboxes WITH Fleets <- SbxFleets, Names <- SbxNames,
    Requests <- Actors, MaxIds <- SbxMaxIds, MaxSpawns <- SbxMaxSpawns,
    MaxReqs <- SbxMaxReqs, MaxFaults <- SbxMaxFaults, MaxBoots <- SbxMaxBoots
sbxVars == <<xEngine, xExecs, xProc, xPid, xReg, xKnown, xReq, xClose, xRunner, xNext,
             xActed, xExcused, xLeft>>

\* One fleet, three kills, one failing write.
Cg == INSTANCE Containment WITH Fleets <- CgFleets, Attempts <- CgAttempts,
    Base <- CgBase, CrashCap <- CgCrashCap, OomCap <- CgOomCap, Stable <- CgStable,
    Window <- CgWindow, MaxTime <- CgMaxTime, MaxKills <- CgMaxKills,
    MaxFaults <- CgMaxFaults
cgVars == <<zSetup, zOk, zAnchor, zLeaf, zRun, zMap, zStep, zOom, zGate, zNote, zBuild,
            zNow, zLeft>>

\* One failing request, one report of the SDK.
Err == INSTANCE ErrorTracking WITH HourLen <- ErrHourLen, Keep <- ErrKeep,
    MaxTime <- ErrMaxTime, MaxTraces <- ErrMaxTraces, MaxSdk <- ErrMaxSdk,
    MaxOps <- ErrMaxOps
errVars == <<rReq, rIndex, rPend, rIssue, rHours, rEvents, rPass, rSdk, rFired, rLost,
             rReports, rNow, rLeft>>

\* Two apps that claim one name, one of them under an extra host.
Dom == INSTANCE Domains WITH Apps <- DomApps, Requests <- Actors, Slugs <- DomSlugs,
    Extra <- DomExtra, Asked <- DomAsked, Control <- DomControl, Single <- DomSingle,
    MaxClaims <- DomMaxClaims, MaxCalls <- DomMaxCalls, MaxEdits <- DomMaxEdits
domVars == <<nApp, nEnv, nRows, nDns, nPublished, nReq, nLeft>>

\* Caps below, at and above the floor, unset (99999) and unreadable (99998) settings.
Inst == INSTANCE InstallConfig WITH Apps <- Actors, Tried <- InstTried,
    Overrides <- InstOverrides, UidRange <- InstUidRange, MaxBoots <- InstMaxBoots,
    MaxOps <- InstMaxOps
instVars == <<iConf, iRows, iFleets, iBuild, iNft, iLeft>>

\* Three versions whose order a comparison by text gets wrong.
Note == INSTANCE InstanceNotices WITH Versions <- NoteVersions, Day <- NoteDay,
    MaxTime <- NoteMaxTime, MaxNews <- NoteMaxNews, MaxToggles <- NoteMaxToggles,
    MaxFaults <- NoteMaxFaults, MaxBoots <- NoteMaxBoots
noteVars == <<oNow, oImage, oRows, oFeed, oCall, oLate, oLeft>>

\* Two objects, two renames, three passes of the loop.
Ren == INSTANCE AppRename WITH Objects <- Actors, MaxWrites <- RenMaxWrites,
    MaxRenames <- RenMaxRenames, MaxPasses <- RenMaxPasses, MaxFaults <- RenMaxFaults
renVars == <<yRow, yData, yDir, yFleet, yPass, yMove, yLate, yWrites, yLeft>>

\* Two callers of one insight and one profile.
Ev == INSTANCE AppEvents WITH Callers <- Actors, Props <- EvProps, Deltas <- EvDeltas,
    Values <- EvValues, IntMax <- EvIntMax, MaxCalls <- EvMaxCalls
evVars == <<fHere, fLog, fInsight, fProfile, fCall, fDue, fWanted, fOverlap, fLeft>>

\* Four lines, one of them nobody's, one rotation.
Log == INSTANCE AccessLog WITH CatchUp <- LogCatchUp, TruncateAt <- LogTruncateAt,
    Tenants <- LogTenants, MaxLines <- LogMaxLines, MaxRotations <- LogMaxRotations,
    MaxFaults <- LogMaxFaults
logVars == <<qLog, qSaved, qTick, qCount, qSkipped, qRaced, qWritten, qFails, qLeft>>

\* What the constants must satisfy for the proofs.
ASSUME RenBounds == Ren!Bounds
ASSUME InstBounds == Inst!Bounds
ASSUME CgBounds == Cg!Bounds
ASSUME NoteBounds == Note!Bounds
ASSUME ErrBounds == Err!Bounds
ASSUME SbxBounds == Sbx!Bounds
ASSUME EnvBounds == Env!Bounds
ASSUME DomBounds == Dom!Bounds
ASSUME TelBounds == Tel!Bounds
ASSUME EvBounds == Ev!Bounds
ASSUME LogBounds == Log!Bounds

allVars == <<part, envVars, telVars, sbxVars, cgVars, errVars, domVars, instVars,
             noteVars, renVars, evVars, logVars>>

-----------------------------------------------------------------------------
Init ==
    /\ part \in {"env", "tel", "sbx", "cg", "err", "dom", "inst", "note", "ren",
                  "ev", "log"}
    /\ Env!Init
    /\ Tel!Init
    /\ Sbx!Init
    /\ Cg!Init
    /\ Err!Init
    /\ Dom!Init
    /\ Inst!Init
    /\ Note!Init
    /\ Ren!Init
    /\ Ev!Init
    /\ Log!Init

EnvStep ==
    /\ part = "env" /\ Env!Next
    /\ UNCHANGED <<part, telVars, sbxVars, cgVars, errVars, domVars, instVars, noteVars,
                   renVars, evVars, logVars>>
TelStep ==
    /\ part = "tel" /\ Tel!Next
    /\ UNCHANGED <<part, envVars, sbxVars, cgVars, errVars, domVars, instVars, noteVars,
                   renVars, evVars, logVars>>
SbxStep ==
    /\ part = "sbx" /\ Sbx!Next
    /\ UNCHANGED <<part, envVars, telVars, cgVars, errVars, domVars, instVars, noteVars,
                   renVars, evVars, logVars>>
CgStep ==
    /\ part = "cg" /\ Cg!Next
    /\ UNCHANGED <<part, envVars, telVars, sbxVars, errVars, domVars, instVars,
                   noteVars, renVars, evVars, logVars>>
ErrStep ==
    /\ part = "err" /\ Err!Next
    /\ UNCHANGED <<part, envVars, telVars, sbxVars, cgVars, domVars, instVars, noteVars,
                   renVars, evVars, logVars>>
DomStep ==
    /\ part = "dom" /\ Dom!Next
    /\ UNCHANGED <<part, envVars, telVars, sbxVars, cgVars, errVars, instVars, noteVars,
                   renVars, evVars, logVars>>
InstStep ==
    /\ part = "inst" /\ Inst!Next
    /\ UNCHANGED <<part, envVars, telVars, sbxVars, cgVars, errVars, domVars, noteVars,
                   renVars, evVars, logVars>>
NoteStep ==
    /\ part = "note" /\ Note!Next
    /\ UNCHANGED <<part, envVars, telVars, sbxVars, cgVars, errVars, domVars, instVars,
                   renVars, evVars, logVars>>
RenStep ==
    /\ part = "ren" /\ Ren!Next
    /\ UNCHANGED <<part, envVars, telVars, sbxVars, cgVars, errVars, domVars, instVars,
                   noteVars, evVars, logVars>>
EvStep ==
    /\ part = "ev" /\ Ev!Next
    /\ UNCHANGED <<part, envVars, telVars, sbxVars, cgVars, errVars, domVars, instVars,
                   noteVars, renVars, logVars>>
LogStep ==
    /\ part = "log" /\ Log!Next
    /\ UNCHANGED <<part, envVars, telVars, sbxVars, cgVars, errVars, domVars, instVars,
                   noteVars, renVars, evVars>>

Next ==
    \/ EnvStep
    \/ TelStep
    \/ SbxStep
    \/ CgStep
    \/ ErrStep
    \/ DomStep
    \/ InstStep
    \/ NoteStep
    \/ RenStep
    \/ EvStep
    \/ LogStep

Spec == Init /\ [][Next]_allVars

\* Requests, tasks, readers, apps and objects of a component are alike.
Alike == Permutations(Actors)

-----------------------------------------------------------------------------
\* Every component keeps its types.
TypeOK ==
    /\ part = "env" => Env!TypeOK
    /\ part = "tel" => Tel!TypeOK
    /\ part = "sbx" => Sbx!TypeOK
    /\ part = "cg" => Cg!TypeOK
    /\ part = "err" => Err!TypeOK
    /\ part = "dom" => Dom!TypeOK
    /\ part = "inst" => Inst!TypeOK
    /\ part = "note" => Note!TypeOK
    /\ part = "ren" => Ren!TypeOK
    /\ part = "ev" => Ev!TypeOK
    /\ part = "log" => Log!TypeOK

\* A host name and a port name one owner: no two environments share a host or
\* a port pair, and the edge, the certificate check and the panel give one
\* answer about a name.
HostsUnambiguous ==
    /\ part = "env" => Env!HostsAndPortsDistinct
    /\ part = "dom" => Dom!ReadersAgree

\* Counters count once: spans that were ingested, live or from files, lines
\* of the access log, and increments that did not overlap.
CountersRight ==
    /\ part = "tel" => Tel!CountedOnce
    /\ part = "log" => Log!LinesCountedOnce
    /\ part = "ev" => Ev!SerialWritesCount

\* Sandboxes: a container that outlives its fleet is one somebody still knows
\* of.
OrphansAccounted == part = "sbx" => Sbx!OrphansAccounted

\* Caps hold: no fleet runs above the ceiling in force, the builds that run
\* at once leave the residents their reserve, and a fleet told of a cap runs
\* inside it.
CapsHold ==
    /\ part = "inst" => Inst!FleetsCapped /\ Inst!BuildsFit
    /\ part = "cg" => Cg!ToldIsContained

\* Errors: an issue that reads resolved has had no occurrence since, and an
\* occurrence has the request whose access line was tailed.
ErrorsTold == part = "err" => Err!ResolvedMeansQuiet /\ Err!RequestsJoin

\* Notices: the panel announces only versions newer than the one running.
NoticeIsNewer == part = "note" => Note!NoticeIsNewer

\* Renames: a rename that reports success moved every object it read, and one
\* that did not is refused.
MovedOrRefused == part = "ren" => Ren!MovedOrRefused
=============================================================================
