-------------------- MODULE MCSettling --------------------
(*****************************************************************************)
(* The components whose promise is that something comes about, in one run:  *)
(* bucket credentials, deploy tips, the sandbox plane, the edge's table     *)
(* and the panel's live streams. They do not share state: every behaviour   *)
(* is about one of them (part), the others rest in their initial state,     *)
(* and the fairness each component states holds while it is the part that   *)
(* runs.                                                                    *)
(*****************************************************************************)
EXTENDS Integers, Sequences, FiniteSets, TLC

\* What the proofs speak about is given in the .cfg, named after its component.
CONSTANTS
    CredApps, CredSlugs, CredStores, CredTasks, CredMaxKeys, CredMaxFaults, CredMaxOps,
    CredMaxRestarts,
    EdgeSites, EdgeMaxChanges, EdgeMaxFaults

VARIABLES
    part,  \* the component this behaviour is about
    cApp, cRows, cKeys, cMade, cLock, cTask, cSweep, cCleanup, cStore, cLeft,
    tTip, tLive, tGood, tWanted, tQueue, tClaim, tTask, tLeft, tLoop, tHeld, tLeftover,
    pOwn, pRelays, pBridge, pTable, pPass, pProbe, pNext, pLeft,
    jDb, jFile, jHist, jPush, jCaddy, jFlight, jLeft,
    lData, lGone, lNote, lTask, lWire, lClient, lLeft

Passes == "loop" :> 1 @@ "gw" :> 1 @@ "loop2" :> 2

\* Two apps that may follow each other on a slug, one caller of ensure.
Cred == INSTANCE Credentials WITH Apps <- CredApps, Slugs <- CredSlugs, Stores <- CredStores,
    Tasks <- CredTasks, PrefixHandles <- FALSE, MaxKeys <- CredMaxKeys,
    MaxFaults <- CredMaxFaults, MaxOps <- CredMaxOps, MaxRestarts <- CredMaxRestarts
credVars == <<cApp, cRows, cKeys, cMade, cLock, cTask, cSweep, cCleanup, cStore, cLeft>>
ASSUME CredBounds == Cred!Bounds

\* Two deploy tasks, two pushes, one rollback, restart, stop or failure.
Tips == INSTANCE DeployTips WITH Tasks <- {"k1", "k2"}, MaxSha <- 2, MaxEvents <- 1
tipsVars == <<tTip, tLive, tGood, tWanted, tQueue, tClaim, tTask, tLeft, tLoop, tHeld,
              tLeftover>>

\* Two installs on one host, one of them with two passes.
Plane == INSTANCE SandboxPlane WITH Installs <- {1, 2}, Passes <- Passes, MaxEvents <- 1
planeVars == <<pOwn, pRelays, pBridge, pTable, pPass, pProbe, pNext, pLeft>>

\* Two handlers that load the table file, two changes.
Edge == INSTANCE EdgePush WITH Sites <- EdgeSites, MaxChanges <- EdgeMaxChanges,
    MaxFaults <- EdgeMaxFaults
edgeVars == <<jDb, jFile, jHist, jPush, jCaddy, jFlight, jLeft>>
ASSUME EdgeBounds == Edge!Bounds

\* A page, opened twice, of rows or of logs; two changes, two snapshots that fail.
Live == INSTANCE LiveStreams WITH Streams <- {"page"}, Capacity <- 1, Budget <- 2,
    MaxChanges <- 2, MaxFaults <- 2, MaxOpens <- 2
liveVars == <<lData, lGone, lNote, lTask, lWire, lClient, lLeft>>

allVars == <<part, credVars, tipsVars, planeVars, edgeVars, liveVars>>

-----------------------------------------------------------------------------
Init ==
    /\ part \in {"cred", "tips", "plane", "edge", "live"}
    /\ Cred!Init
    /\ Tips!Init
    /\ Plane!Init
    /\ Edge!Init
    /\ Live!Init

CredStep ==
    /\ part = "cred" /\ Cred!Next
    /\ UNCHANGED <<part, tipsVars, planeVars, edgeVars, liveVars>>
TipsStep ==
    /\ part = "tips" /\ Tips!Next
    /\ UNCHANGED <<part, credVars, planeVars, edgeVars, liveVars>>
PlaneStep ==
    /\ part = "plane" /\ Plane!Next
    /\ UNCHANGED <<part, credVars, tipsVars, edgeVars, liveVars>>
EdgeStep ==
    /\ part = "edge" /\ Edge!Next
    /\ UNCHANGED <<part, credVars, tipsVars, planeVars, liveVars>>
LiveStep ==
    /\ part = "live" /\ Live!Next
    /\ UNCHANGED <<part, credVars, tipsVars, planeVars, edgeVars>>

Next ==
    \/ CredStep
    \/ TipsStep
    \/ PlaneStep
    \/ EdgeStep
    \/ LiveStep

Ensuring(t) == Cred!EnsureClear(t) \/ Cred!EnsureMint(t) \/ Cred!EnsureInsert(t)
Sweeping(s) == Cred!SweepEnd(s) \/ \E row \in cSweep[s].rows : Cred!SweepRow(s, row)
CredFair ==
    /\ \A t \in CredTasks : WF_credVars(part = "cred" /\ Ensuring(t))
    /\ \A s \in Cred!Sweepers : WF_credVars(part = "cred" /\ Sweeping(s))
    /\ WF_credVars(part = "cred" /\ (Cred!SweepList("loop") \/ Cred!OrphanList))
    /\ SF_credVars(part = "cred" /\ Cred!SweepLock("loop"))
    /\ SF_credVars(part = "cred" /\ \E h \in cSweep["loop"].handles : Cred!OrphanTake(h))

TipsFair ==
    /\ WF_tipsVars(part = "tips" /\ Tips!TickStart)
    /\ WF_tipsVars(part = "tips" /\ Tips!DrainTip)
    /\ SF_tipsVars(part = "tips" /\ Tips!TickList(TRUE))
    /\ WF_tipsVars(part = "tips" /\ Tips!Sweep(FALSE))
    /\ \A k \in {"k1", "k2"} : WF_tipsVars(part = "tips" /\ Tips!TaskStep(k))
    /\ WF_tipsVars(part = "tips" /\ Tips!Age)

PlaneFair == \A t \in DOMAIN Passes : WF_planeVars(part = "plane" /\ Plane!PassStep(t))

EdgeFair ==
    /\ WF_edgeVars(part = "edge" /\ Edge!Pusher)
    /\ WF_edgeVars(part = "edge" /\ Edge!Caddy)

LiveFair ==
    /\ WF_liveVars(part = "live" /\ Live!TaskStep("page"))
    /\ SF_liveVars(part = "live" /\ Live!Closed("page"))
    /\ WF_liveVars(part = "live" /\ Live!Receive("page"))

Spec ==
    /\ Init
    /\ [][Next]_allVars
    /\ CredFair
    /\ TipsFair
    /\ PlaneFair
    /\ EdgeFair
    /\ LiveFair

-----------------------------------------------------------------------------
\* Every component keeps its types.
TypeOK ==
    /\ part = "cred" => Cred!TypeOK
    /\ part = "tips" => Tips!TypeOK
    /\ part = "plane" => Plane!TypeOK
    /\ part = "edge" => Edge!TypeOK
    /\ part = "live" => Live!TypeOK

\* Live pages: a page that stays open ends up with what is there now or with
\* an ended stream, and a stream whose client left stops (api/sse.rs
\* poll_stream, api/observe.rs app_logs_stream).
StreamsSettle == part = "live" => Live!StreamsSettle

\* Credentials: a key that a live row names is never revoked at the store,
\* neither by a sweep that listed before it waited for the lock nor by the
\* orphan sweep (credentials.rs sweep, orphan_sweep).
LiveKeysStay == Cred!LiveKeysStay

\* Credentials: once faults and restarts are over, every key at the store is
\* one a live row names (credentials.rs sweep, orphan_sweep).
KeysSettle == Cred!KeysSettle

\* Deploy tips: whatever notification a busy app drops, whatever build fails
\* and wherever the runner restarts, a target that is wanted ends up at its
\* ref's tip (deploy.rs on_tip, the tip sweep).
TipSettles == Tips!TipSettles

\* Sandbox plane: once nothing moves any more, each install ends with its own
\* relay running, a table for the bridge as it is and a status that says so
\* (relay.rs ensure, gateway.rs ensure_table).
PlaneSettles == part = "plane" => Plane!PlaneSettles

\* Edge: push_routes and Caddy implement EdgeServes: an edge that is up never
\* goes back to an older table, serves only tables that were written, and
\* ends on the last one (edge.rs push_routes, the Caddy module's handlers).
EdgeKeepsPromise == Edge!EdgeKeepsPromise
=============================================================================
