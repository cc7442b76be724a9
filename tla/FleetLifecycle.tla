--------------------------- MODULE FleetLifecycle ---------------------------
(***************************************************************************)
(* The life of a tenant fleet (one celld child per app) in the runner:     *)
(* the reconcile tick, scale to zero (sleep and wake), deploys landing,    *)
(* the owner's start and stop, app delete and re-create, celld crashes     *)
(* and runner restarts.  Every task is a tokio task; a step of the model   *)
(* is the code between two awaits at which another task may run.           *)
(*                                                                         *)
(* Database rows are read by app id and processes by slug.  A slug can be  *)
(* deleted and created again, so an app id is a slug and a generation.     *)
(***************************************************************************)
EXTENDS Naturals, FiniteSets

CONSTANTS
    Apps,             \* slugs
    Tick,             \* the reconcile loop
    Parkers,          \* tasks running sleep_app (idle sweep, pressure sweep, operator)
    Wakers,           \* held requests, one GET /v1/edge/wake each
    Deployers,        \* deploy tasks
    Deleter,          \* who holds a claim for a delete
    Nobody,           \* no holder
    WakeConcurrency,  \* RUNNER_WAKE_CONCURRENCY
    SpawnBatch,       \* RUNNER_FLEET_SPAWN_BATCH
    MaxGen,           \* bound: generations of one slug
    MaxPatches,       \* bound: owner starts and stops
    MaxDeploys,       \* bound: deploys
    MaxRecycles,      \* bound: deletes and creates
    MaxFaults,        \* bound: crashes, refused spawns, lost pushes, cancels
    MaxRestarts       \* bound: runner restarts

ASSUME TasksDistinct ==
    /\ Tick \notin Parkers \cup Wakers \cup Deployers
    /\ Parkers \cap Wakers = {}
    /\ Parkers \cap Deployers = {}
    /\ Wakers \cap Deployers = {}
    /\ Nobody \notin Parkers \cup Wakers \cup Deployers \cup {Deleter}
    /\ Deleter \notin Deployers

ASSUME AppsExist == Apps # {}

ASSUME WakersFinite == IsFiniteSet(Wakers)

ASSUME BoundsAssumption ==
    /\ WakeConcurrency \in Nat \ {0}
    /\ SpawnBatch \in Nat
    /\ MaxGen \in Nat \ {0}
    /\ MaxPatches \in Nat
    /\ MaxDeploys \in Nat
    /\ MaxRecycles \in Nat
    /\ MaxFaults \in Nat
    /\ MaxRestarts \in Nat

VARIABLES
    row,         \* the app table, by slug
    edge,        \* the route the edge serves for the slug
    proc,        \* ProcMap: the celld child registered under the slug
    gate,        \* CRASH_GATES: the slug's respawn is on hold, or due after one
    released,    \* the slug's bucket has a deploy/current.json celld can serve
    lock,        \* per-app transition lock (sleep.rs LOCKS), by app id
    slotted,     \* wakers holding a cold-start permit (wake_slots)
    claim,       \* AppLock: the deploy/delete claim, by app id
    pc,          \* where each task is
    app,         \* the slug a task works on
    view,        \* what a task keeps of the row it read, which may be stale
    snap,        \* the tick's list_apps
    todo,        \* slugs the tick has still to visit
    cold,        \* cold starts of this tick
    confirming,  \* app ids with a confirm_app_running waiting for health
    flipping,    \* app ids whose confirm saw health and has yet to write
    life,        \* delete and create of a slug
    pending,     \* a lifecycle handler has yet to push the route table
    patches, deploys, recycles, faults, restarts   \* how often each has happened

vars == <<row, edge, proc, gate, released, lock, slotted, claim, pc, app, view, snap,
          todo, cold, confirming, flipping, life, pending, patches,
          deploys, recycles, faults, restarts>>

spent == <<patches, deploys, recycles>>

Tasks   == {Tick} \cup Parkers \cup Wakers \cup Deployers
Gens    == 0 .. MaxGen
Ids     == Apps \X Gens
Routes  == {"none", "proxy", "wake"}
Status  == {"provisioned", "deploying", "running", "sleeping", "stopped", "failed"}

\* Where a task of each kind can be.
EnsureLabels == {"ensure", "reaped", "spawn", "ensured", "refused"}
TickLabels   == {"idle", "apps", "drain", "orphans"} \cup EnsureLabels
ParkLabels   == {"idle", "mark", "push", "stop", "blind", "drain"}
WakeLabels   == {"idle", "queued", "slot", "clear", "load", "flip", "route"} \cup EnsureLabels
DeployLabels == {"idle", "queued", "wake", "build", "activate", "live", "route", "done"}
                \cup EnsureLabels
Labels    == TickLabels \cup ParkLabels \cup WakeLabels \cup DeployLabels
LifeSteps == {"none", "claim", "mark", "purge", "wipe", "row", "last", "reset", "create"}

\* A row of the app table, as far as a fleet's life depends on it.
Rows == [exists: BOOLEAN, gen: Gens, desired: {"running", "stopped"},
         status: Status, asleep: BOOLEAN, sha: BOOLEAN]

NoRow(g) == [exists |-> FALSE, gen |-> g, desired |-> "running",
             status |-> "provisioned", asleep |-> FALSE, sha |-> FALSE]

\* What create_app inserts.
FreshRow(g) == [exists |-> TRUE, gen |-> g, desired |-> "running",
                status |-> "provisioned", asleep |-> FALSE, sha |-> FALSE]

\* A registered child: the generation it was spawned for and what try_wait
\* and the health route would say of it.
Procs  == [gen: Gens, state: {"none", "boot", "healthy", "dead"}]
NoProc == [gen |-> 0, state |-> "none"]
HasProcess(a) == proc[a].state # "none"
Healthy(a)    == proc[a].state = "healthy"

IsStopped(r)  == r.desired = "stopped"
IsAsleep(r)   == r.asleep /\ ~IsStopped(r)
IsDeployed(r) == r.status = "running" \/ r.sha

\* Whether the app may be parked at all right now.
SleepCandidate(r) ==
    r.exists /\ ~IsStopped(r) /\ ~IsAsleep(r) /\ IsDeployed(r) /\ r.status = "running"

\* The tenant entry build_table makes of a row.
RouteOf(r) ==
    IF ~(r.exists /\ ~IsStopped(r) /\ IsDeployed(r)) THEN "none"
    ELSE IF IsAsleep(r) THEN "wake" ELSE "proxy"

Id(t)      == <<app[t], view[t].gen>>
Live(a, g) == row[a].exists /\ row[a].gen = g

\* Mutant: a task takes it that the row it read is still there.
Unchecked(t) == TRUE

Mine(t)    == Live(app[t], view[t].gen)

\* Mutants: nobody waits for the app's lock, or for its claim; one permit too
\* many is handed out.
LockIgnored(i)  == TRUE
ClaimIgnored(i) == TRUE
OnePermitMore   == Cardinality(slotted) <= WakeConcurrency

LockFree(i)  == lock[i] = Nobody
ClaimFree(i) == claim[i] = Nobody
PermitFree   == Cardinality(slotted) < WakeConcurrency

\* What a task keeps of a row it read.
Views   == [gen: Gens, status: Status, asleep: BOOLEAN]
Seen(r) == [gen |-> r.gen, status |-> r.status, asleep |-> IsAsleep(r)]
NoView  == Seen(NoRow(0))
NoApp   == CHOOSE a \in Apps : TRUE

Goto(t, l) == pc' = [pc EXCEPT ![t] = l]

\* A task takes up an app, or is done with it and forgets what it read.
Take(t, a, l) ==
    /\ app' = [app EXCEPT ![t] = a]
    /\ view' = [view EXCEPT ![t] = Seen(row[a])]
    /\ Goto(t, l)

Leave(t, l) ==
    /\ app' = [app EXCEPT ![t] = NoApp]
    /\ view' = [view EXCEPT ![t] = NoView]
    /\ Goto(t, l)

-----------------------------------------------------------------------------
(* Writes to the app table.  Each is one UPDATE ... WHERE id = ?, so a row *)
(* that is gone, or that a later generation replaced, is left alone.       *)

Write(a, g, r) == row' = IF Live(a, g) THEN [row EXCEPT ![a] = r] ELSE row

\* Mutant: a status outside the enum.
SetAppAsleepBadStatus(a, g) ==
    Write(a, g, [row[a] EXCEPT !.asleep = TRUE, !.status = "asleep"])

SetAppAsleep(a, g) ==
    Write(a, g, [row[a] EXCEPT !.asleep = TRUE, !.status = "sleeping"])

SetAppAwake(a, g) == Write(a, g, [row[a] EXCEPT !.asleep = FALSE])

UpdateAppStatus(a, g, s) == Write(a, g, [row[a] EXCEPT !.status = s])

\* Mutant: the conditional write without its condition.
UpdateAnyway(a, g, s) == UpdateAppStatus(a, g, s)

\* A stop in the window wins over a background status write.
UpdateIfWanted(a, g, s) ==
    Write(a, g, IF IsStopped(row[a]) THEN row[a] ELSE [row[a] EXCEPT !.status = s])

\* The sha lands even when a stop raced the deploy; `running` only if wanted.
MarkDeployLive(a, g) ==
    Write(a, g, IF IsStopped(row[a]) THEN [row[a] EXCEPT !.sha = TRUE]
                ELSE [row[a] EXCEPT !.sha = TRUE, !.status = "running"])

PatchDesired(r, d) == [r EXCEPT !.desired = d, !.asleep = FALSE]

-----------------------------------------------------------------------------
(* The edge.  A push rebuilds the whole table from the rows as they are.   *)
(* A push the edge refuses or never sees leaves the old table serving.     *)

\* Mutant: the edge answers and keeps its table.
PushIgnored == UNCHANGED <<edge, faults>>

PushAccepted == edge' = [a \in Apps |-> RouteOf(row[a])] /\ UNCHANGED faults

PushLost == faults < MaxFaults /\ faults' = faults + 1 /\ UNCHANGED edge

Fault == faults < MaxFaults /\ faults' = faults + 1

-----------------------------------------------------------------------------
(* The supervisor: stop_fleet and ensure_spawned.                          *)

\* The child leaves the map at once; the caller then waits for it to exit.
StopFleet(a) ==
    /\ proc' = [proc EXCEPT ![a] = NoProc]
    /\ gate' = [gate EXCEPT ![a] = "open"]

EnsureUnchanged == UNCHANGED <<row, edge, released, lock, slotted, claim, app, view, snap,
                     todo, cold, confirming, flipping, life, pending, spent, restarts>>

\* On hold after a crash, or still running: nothing to do.
EnsureSettled(t) ==
    /\ pc[t] = "ensure"
    /\ gate[app[t]] = "hold" \/ proc[app[t]].state \in {"boot", "healthy"}
    /\ Goto(t, "ensured")
    /\ EnsureUnchanged /\ UNCHANGED <<proc, gate, faults>>

\* An exited child is taken out of the map.  A plain crash is noted after the
\* cleanup, an OOM kill clears the crash chain and respawns in the same call.
EnsureReap(t) ==
    /\ pc[t] = "ensure" /\ gate[app[t]] # "hold" /\ proc[app[t]].state = "dead"
    /\ proc' = [proc EXCEPT ![app[t]] = NoProc]
    /\ \/ Goto(t, "reaped") /\ UNCHANGED gate
       \/ Goto(t, "spawn") /\ gate' = [gate EXCEPT ![app[t]] = "open"]
    /\ EnsureUnchanged /\ UNCHANGED faults

EnsureNoteCrash(t) ==
    /\ pc[t] = "reaped"
    /\ gate' = [gate EXCEPT ![app[t]] = "hold"]
    /\ Goto(t, "ensured")
    /\ EnsureUnchanged /\ UNCHANGED <<proc, faults>>

EnsureCold(t) ==
    /\ pc[t] = "ensure" /\ gate[app[t]] # "hold" /\ ~HasProcess(app[t])
    /\ Goto(t, "spawn")
    /\ EnsureUnchanged /\ UNCHANGED <<proc, gate, faults>>

\* Credentials, spawn, cgroup move, insert.  The insert replaces whatever
\* another ensure registered meanwhile (the replaced child is killed on drop).
EnsureSpawn(t) ==
    /\ pc[t] = "spawn"
    /\ \/ /\ proc' = [proc EXCEPT ![app[t]] = [gen |-> view[t].gen, state |-> "boot"]]
          /\ gate' = [gate EXCEPT ![app[t]] = IF @ = "due" THEN "open" ELSE @]
          /\ Goto(t, "ensured") /\ UNCHANGED faults
       \/ Fault /\ Goto(t, "ensured") /\ UNCHANGED <<proc, gate>>  \* exited before its cgroup move
       \/ Fault /\ Goto(t, "refused") /\ UNCHANGED <<proc, gate>>  \* no credentials, no spawn, no cgroup
    /\ EnsureUnchanged

EnsureSpawned(t) ==
    EnsureSettled(t) \/ EnsureReap(t) \/ EnsureNoteCrash(t) \/ EnsureCold(t) \/ EnsureSpawn(t)

-----------------------------------------------------------------------------
(* The reconcile tick: one list of the apps, read once, drives every       *)
(* decision of the pass.                                                   *)

TickFrame == UNCHANGED <<released, lock, slotted, claim, flipping, life, pending, spent, restarts>>

TickList ==
    /\ pc[Tick] = "idle"
    /\ snap' = row
    /\ todo' = {a \in Apps : row[a].exists}
    /\ cold' = 0
    /\ Goto(Tick, "apps")
    /\ TickFrame /\ UNCHANGED <<row, edge, proc, gate, app, view, confirming, faults>>

\* Mutant: an app whose row already says stopped is taken to have no fleet.
TickStopOnce(a) ==
    /\ pc[Tick] = "apps" /\ a \in todo /\ IsStopped(snap[a])
    /\ IF snap[a].status # "stopped" THEN StopFleet(a) ELSE UNCHANGED <<proc, gate>>
    /\ todo' = todo \ {a}
    /\ app' = [app EXCEPT ![Tick] = a]
    /\ view' = [view EXCEPT ![Tick] = Seen(snap[a])]
    /\ Goto(Tick, "drain")
    /\ TickFrame /\ UNCHANGED <<row, edge, snap, cold, confirming, faults>>

TickStop(a) ==
    /\ pc[Tick] = "apps" /\ a \in todo /\ IsStopped(snap[a])
    /\ StopFleet(a)
    /\ todo' = todo \ {a}
    /\ app' = [app EXCEPT ![Tick] = a]
    /\ view' = [view EXCEPT ![Tick] = Seen(snap[a])]
    /\ Goto(Tick, "drain")
    /\ TickFrame /\ UNCHANGED <<row, edge, snap, cold, confirming, faults>>

\* The status write follows the drain and does not ask whether the app is
\* still wanted stopped.
TickStopped ==
    /\ pc[Tick] = "drain"
    /\ IF view[Tick].status # "stopped"
       THEN UpdateAppStatus(app[Tick], view[Tick].gen, "stopped") ELSE UNCHANGED row
    /\ Leave(Tick, "apps")
    /\ TickFrame
    /\ UNCHANGED <<edge, proc, gate, snap, todo, cold, confirming, faults>>

\* Mutant: a row that says running is taken to have its fleet.
WantedUnlessRunning(r) ==
    ~IsStopped(r) /\ IsDeployed(r) /\ ~IsAsleep(r) /\ r.status # "running"

Wanted(r) == ~IsStopped(r) /\ IsDeployed(r) /\ ~IsAsleep(r)

TickEnsure(a) ==
    /\ pc[Tick] = "apps" /\ a \in todo /\ Wanted(snap[a])
    /\ HasProcess(a) \/ cold < SpawnBatch
    /\ cold' = IF HasProcess(a) THEN cold ELSE cold + 1
    /\ todo' = todo \ {a}
    /\ app' = [app EXCEPT ![Tick] = a]
    /\ view' = [view EXCEPT ![Tick] = Seen(snap[a])]
    /\ Goto(Tick, "ensure")
    /\ TickFrame /\ UNCHANGED <<row, edge, proc, gate, snap, confirming, faults>>

\* Undeployed, asleep, or past this pass's cold-start batch.
TickSkip(a) ==
    /\ pc[Tick] = "apps" /\ a \in todo /\ ~IsStopped(snap[a])
    /\ Wanted(snap[a]) => ~HasProcess(a) /\ cold >= SpawnBatch
    /\ todo' = todo \ {a}
    /\ TickFrame
    /\ UNCHANGED <<row, edge, proc, gate, pc, app, view, snap, cold, confirming, faults>>

TickEnsured ==
    /\ pc[Tick] = "ensured"
    /\ confirming' = IF view[Tick].status # "running" THEN confirming \cup {Id(Tick)}
                     ELSE confirming
    /\ Leave(Tick, "apps")
    /\ TickFrame
    /\ UNCHANGED <<row, edge, proc, gate, snap, todo, cold, faults>>

\* The error is recorded with the status the list carried.
TickRefused ==
    /\ pc[Tick] = "refused"
    /\ UpdateIfWanted(app[Tick], view[Tick].gen, view[Tick].status)
    /\ Leave(Tick, "apps")
    /\ TickFrame
    /\ UNCHANGED <<edge, proc, gate, snap, todo, cold, confirming, faults>>

TickRoutes ==
    /\ pc[Tick] = "apps" /\ todo = {}
    /\ PushAccepted \/ PushLost
    /\ todo' = {a \in Apps : HasProcess(a)}
    /\ Goto(Tick, "orphans")
    /\ TickFrame /\ UNCHANGED <<row, proc, gate, app, view, snap, cold, confirming>>

\* Mutant: no orphan sweep.
TickOrphanBlind(a) ==
    /\ pc[Tick] = "orphans" /\ a \in todo
    /\ todo' = todo \ {a}
    /\ TickFrame
    /\ UNCHANGED <<row, edge, proc, gate, pc, app, view, snap, cold, confirming, faults>>

\* stop_orphan_fleets: each listed key is looked up again before it is stopped.
TickOrphan(a) ==
    /\ pc[Tick] = "orphans" /\ a \in todo
    /\ todo' = todo \ {a}
    /\ IF row[a].exists THEN UNCHANGED <<proc, gate>> ELSE StopFleet(a)
    /\ TickFrame
    /\ UNCHANGED <<row, edge, pc, app, view, snap, cold, confirming, faults>>

TickDone ==
    /\ pc[Tick] = "orphans" /\ todo = {}
    /\ snap' = [a \in Apps |-> NoRow(0)]
    /\ cold' = 0
    /\ Goto(Tick, "idle")
    /\ TickFrame
    /\ UNCHANGED <<row, edge, proc, gate, app, view, todo, confirming, faults>>

TickStep ==
    \/ TickList \/ TickStopped \/ TickEnsured \/ TickRefused \/ TickRoutes \/ TickDone
    \/ \E a \in Apps : TickStop(a) \/ TickEnsure(a) \/ TickSkip(a) \/ TickOrphan(a)
    \/ EnsureSpawned(Tick)

-----------------------------------------------------------------------------
(* Going to sleep: flag, route, then fleet, all under the app's lock.      *)

ParkFrame == UNCHANGED <<released, slotted, claim, snap, todo, cold, confirming, flipping,
                         life, pending, spent, restarts>>

\* Mutant: the guard is leaked.
ReleaseNothing(t) == UNCHANGED lock

\* The lock guard drops: whatever the task held is free.
Release(t) == lock' = [i \in Ids |-> IF lock[i] = t THEN Nobody ELSE lock[i]]

\* The idle and pressure checks only choose among candidates, so any
\* candidate may be parked.
ParkLock(p, a) ==
    /\ pc[p] = "idle" /\ SleepCandidate(row[a]) /\ LockFree(<<a, row[a].gen>>)
    /\ lock' = [lock EXCEPT ![<<a, row[a].gen>>] = p]
    /\ Take(p, a, "mark")
    /\ ParkFrame /\ UNCHANGED <<row, edge, proc, gate, faults>>

\* Mutant: the fleet goes down before the edge has its wake route.
ParkMarkNoPush(p) ==
    /\ pc[p] = "mark"
    /\ SetAppAsleep(app[p], view[p].gen)
    /\ Goto(p, "stop")
    /\ ParkFrame /\ UNCHANGED <<edge, proc, gate, lock, app, view, faults>>

ParkMark(p) ==
    /\ pc[p] = "mark"
    /\ SetAppAsleep(app[p], view[p].gen)
    /\ Goto(p, "push")
    /\ ParkFrame /\ UNCHANGED <<edge, proc, gate, lock, app, view, faults>>

\* A refused or unreachable edge does not stop the park; a failed read does,
\* and leaves the flag set with the fleet up.
ParkPush(p) ==
    /\ pc[p] = "push"
    /\ \/ PushAccepted /\ Goto(p, "stop") /\ UNCHANGED <<lock, app, view>>
       \/ PushLost /\ Goto(p, "blind") /\ UNCHANGED <<lock, app, view>>
       \/ Fault /\ Leave(p, "idle") /\ Release(p) /\ UNCHANGED edge
    /\ ParkFrame /\ UNCHANGED <<row, proc, gate>>

ParkStop(p) ==
    /\ pc[p] \in {"stop", "blind"}
    /\ StopFleet(app[p])
    /\ Goto(p, "drain")
    /\ ParkFrame /\ UNCHANGED <<row, edge, lock, app, view, faults>>

ParkDone(p) ==
    /\ pc[p] = "drain"
    /\ Release(p)
    /\ Leave(p, "idle")
    /\ ParkFrame /\ UNCHANGED <<row, edge, proc, gate, faults>>

ParkStep(p) ==
    ParkMark(p) \/ ParkPush(p) \/ ParkStop(p) \/ ParkDone(p)

-----------------------------------------------------------------------------
(* Waking for a held request.                                              *)

WakeFrame == UNCHANGED <<released, claim, snap, todo, cold, confirming, flipping, life,
                         pending, spent, restarts>>

WakeOver(w) ==
    /\ Leave(w, "idle")
    /\ Release(w)
    /\ slotted' = slotted \ {w}

\* Caddy sends a request for an asleep site to the wake hop first.
WakeArrive(w, a) ==
    /\ pc[w] = "idle" /\ edge[a] = "wake" /\ row[a].exists
    /\ Take(w, a, "queued")
    /\ WakeFrame /\ UNCHANGED <<row, edge, proc, gate, lock, slotted, faults>>

WakeLock(w) ==
    /\ pc[w] = "queued" /\ LockFree(Id(w))
    /\ IF Mine(w) /\ ~IsStopped(row[app[w]])
       THEN /\ lock' = [lock EXCEPT ![Id(w)] = w]
            /\ Take(w, app[w], IF IsAsleep(row[app[w]]) THEN "slot" ELSE "load")
       ELSE Leave(w, "idle") /\ UNCHANGED lock
    /\ WakeFrame /\ UNCHANGED <<row, edge, proc, gate, slotted, faults>>

\* One of WakeConcurrency permits, or the wake budget runs out.
WakeSlot(w) ==
    /\ pc[w] = "slot"
    /\ IF PermitFree
       THEN slotted' = slotted \cup {w} /\ Goto(w, "clear") /\ UNCHANGED <<lock, app, view>>
       ELSE WakeOver(w)
    /\ WakeFrame /\ UNCHANGED <<row, edge, proc, gate, faults>>

WakeClear(w) ==
    /\ pc[w] = "clear"
    /\ SetAppAwake(app[w], view[w].gen)
    /\ Goto(w, "load")
    /\ WakeFrame /\ UNCHANGED <<edge, proc, gate, lock, slotted, app, view, faults>>

WakeLoad(w) ==
    /\ pc[w] = "load"
    /\ view' = [view EXCEPT ![w] = IF Mine(w) THEN Seen(row[app[w]]) ELSE view[w]]
    /\ Goto(w, "ensure")
    /\ WakeFrame /\ UNCHANGED <<row, edge, proc, gate, lock, slotted, app, faults>>

\* The health gate opens, or the budget runs out and the request gets a 503.
WakeGate(w) ==
    /\ pc[w] = "ensured"
    /\ IF Healthy(app[w]) THEN Goto(w, "flip") /\ UNCHANGED <<lock, slotted, app, view>>
                          ELSE WakeOver(w)
    /\ WakeFrame /\ UNCHANGED <<row, edge, proc, gate, faults>>

WakeRefused(w) ==
    /\ pc[w] = "refused"
    /\ WakeOver(w)
    /\ WakeFrame /\ UNCHANGED <<row, edge, proc, gate, faults>>

WakeFlip(w) ==
    /\ pc[w] = "flip"
    /\ IF view[w].status # "running" THEN UpdateIfWanted(app[w], view[w].gen, "running")
       ELSE UNCHANGED row
    /\ IF w \in slotted THEN Goto(w, "route") /\ UNCHANGED <<lock, slotted, app, view>>
       ELSE WakeOver(w)
    /\ WakeFrame /\ UNCHANGED <<edge, proc, gate, faults>>

WakeRoute(w) ==
    /\ pc[w] = "route"
    /\ PushAccepted \/ PushLost
    /\ WakeOver(w)
    /\ WakeFrame /\ UNCHANGED <<row, proc, gate>>

\* The visitor hangs up: the handler's future is dropped at an await, with
\* the lock guard, the permit and a child not yet registered.
WakeCancel(w) ==
    /\ pc[w] # "idle" /\ Fault
    /\ WakeOver(w)
    /\ WakeFrame /\ UNCHANGED <<row, edge, proc, gate>>

WakeStep(w) ==
    \/ WakeSlot(w) \/ WakeClear(w) \/ WakeLoad(w) \/ WakeGate(w)
    \/ WakeRefused(w) \/ WakeFlip(w) \/ WakeRoute(w) \/ EnsureSpawned(w)

-----------------------------------------------------------------------------
(* confirm_app_running: status follows the health gate, off the tick.      *)

ConfirmFrame == UNCHANGED <<edge, proc, gate, released, lock, slotted, claim, pc, app, view,
                     snap, todo, cold, life, pending, spent, faults, restarts>>

ConfirmGate(c) ==
    /\ c \in confirming
    /\ confirming' = confirming \ {c}
    /\ flipping' = IF Healthy(c[1]) THEN flipping \cup {c} ELSE flipping
    /\ ConfirmFrame /\ UNCHANGED row

ConfirmFlip(c) ==
    /\ c \in flipping
    /\ flipping' = flipping \ {c}
    /\ UpdateIfWanted(c[1], c[2], "running")
    /\ ConfirmFrame /\ UNCHANGED confirming

ConfirmStep == \E c \in Ids : ConfirmGate(c) \/ ConfirmFlip(c)

-----------------------------------------------------------------------------
(* A deploy, as far as it touches the fleet.  It works from the row its    *)
(* caller read, which the wait for the claim may have made stale.          *)

DeployFrame == UNCHANGED <<slotted, snap, todo, cold, confirming, flipping,
                           life, pending, restarts>>

DeployOver(d) ==
    /\ Leave(d, "idle")
    /\ claim' = [claim EXCEPT ![Id(d)] = Nobody]

DeployFail(d) == UpdateIfWanted(app[d], view[d].gen, "failed") /\ DeployOver(d)

DeployQueue(d, a) ==
    /\ pc[d] = "idle" /\ row[a].exists /\ deploys < MaxDeploys
    /\ deploys' = deploys + 1
    /\ Take(d, a, "queued")
    /\ DeployFrame /\ UNCHANGED <<row, edge, proc, gate, released, lock, claim, patches, recycles, faults>>

\* A tip deploy that finds the claim taken is skipped, a watched one waits
\* and in the end gives up the same way.
DeployClaim(d) ==
    /\ pc[d] = "queued"
    /\ IF ClaimFree(Id(d))
       THEN claim' = [claim EXCEPT ![Id(d)] = d] /\ Goto(d, "wake") /\ UNCHANGED <<app, view>>
       ELSE Leave(d, "idle") /\ UNCHANGED claim
    /\ DeployFrame /\ UNCHANGED <<row, edge, proc, gate, released, lock, spent, faults>>

\* wake_for_deploy asks the stale row, then clears the flag under the lock.
DeployWake(d) ==
    /\ pc[d] = "wake"
    /\ IF view[d].asleep
       THEN LockFree(Id(d)) /\ SetAppAwake(app[d], view[d].gen)
       ELSE UNCHANGED row
    /\ Goto(d, "build")
    /\ DeployFrame
    /\ UNCHANGED <<edge, proc, gate, released, lock, claim, app, view, spent, faults>>

DeployBuild(d) ==
    /\ pc[d] = "build"
    /\ \/ /\ Mine(d)
          /\ UpdateIfWanted(app[d], view[d].gen, "deploying")
          /\ Goto(d, "activate") /\ UNCHANGED <<claim, app, view, faults>>
       \/ /\ ~Mine(d)
          /\ DeployFail(d) /\ UNCHANGED faults
       \/ Fault /\ DeployFail(d)
    /\ DeployFrame /\ UNCHANGED <<edge, proc, gate, released, lock, spent>>

DeployActivate(d) ==
    /\ pc[d] = "activate"
    /\ \/ /\ released' = [released EXCEPT ![app[d]] = TRUE]
          /\ IF Mine(d) THEN Goto(d, "ensure") /\ UNCHANGED <<row, claim, app, view>>
                        ELSE DeployFail(d)
          /\ UNCHANGED faults
       \/ Fault /\ DeployFail(d) /\ UNCHANGED released
    /\ DeployFrame /\ UNCHANGED <<edge, proc, gate, lock, spent>>

\* The gate races the child: a removed fleet completes the deploy, an exited
\* one or a gate that never opens fails it.
DeployGate(d) ==
    /\ pc[d] = "ensured"
    /\ \/ /\ IF Healthy(app[d]) \/ ~HasProcess(app[d])
             THEN Goto(d, "live") /\ UNCHANGED <<row, claim, app, view>>
             ELSE DeployFail(d)
          /\ UNCHANGED faults
       \/ Fault /\ DeployFail(d)   \* reload refused, migration failed
    /\ DeployFrame /\ UNCHANGED <<edge, proc, gate, released, lock, spent>>

DeployRefused(d) ==
    /\ pc[d] = "refused"
    /\ DeployFail(d)
    /\ DeployFrame /\ UNCHANGED <<edge, proc, gate, released, lock, spent, faults>>

DeployLive(d) ==
    /\ pc[d] = "live"
    /\ MarkDeployLive(app[d], view[d].gen)
    /\ Goto(d, "route")
    /\ DeployFrame
    /\ UNCHANGED <<edge, proc, gate, released, lock, claim, app, view, spent, faults>>

\* The edge must not refuse the table; an unreachable edge is let pass.
DeployRoute(d) ==
    /\ pc[d] = "route"
    /\ \/ (PushAccepted \/ PushLost) /\ Goto(d, "done") /\ UNCHANGED <<row, claim, app, view>>
       \/ PushLost /\ DeployFail(d)
    /\ DeployFrame /\ UNCHANGED <<proc, gate, released, lock, spent>>

\* The success row re-applies the live transition, then the claim drops.
DeployDone(d) ==
    /\ pc[d] = "done"
    /\ MarkDeployLive(app[d], view[d].gen)
    /\ DeployOver(d)
    /\ DeployFrame /\ UNCHANGED <<edge, proc, gate, released, lock, spent, faults>>

DeployStep(d) ==
    \/ DeployClaim(d) \/ DeployWake(d) \/ DeployBuild(d) \/ DeployActivate(d)
    \/ DeployGate(d) \/ DeployRefused(d) \/ DeployLive(d) \/ DeployRoute(d)
    \/ DeployDone(d) \/ EnsureSpawned(d)

-----------------------------------------------------------------------------
(* The owner: start, stop, delete, create.                                 *)

LifeFrame == UNCHANGED <<lock, slotted, pc, app, view, snap, todo, cold,
                         confirming, flipping, restarts>>

OwnerPatch(a, d) ==
    /\ row[a].exists /\ patches < MaxPatches
    /\ patches' = patches + 1
    /\ row' = [row EXCEPT ![a] = PatchDesired(row[a], d)]
    /\ pending' = TRUE
    /\ LifeFrame /\ UNCHANGED <<edge, proc, gate, released, claim, life, faults, deploys, recycles>>

PushPending ==
    /\ pending
    /\ pending' = FALSE
    /\ PushAccepted \/ PushLost
    /\ LifeFrame /\ UNCHANGED <<row, proc, gate, released, claim, life, spent>>

DeleteStart(a) ==
    /\ row[a].exists /\ life[a] = "none" /\ recycles < MaxRecycles
    /\ recycles' = recycles + 1
    /\ life' = [life EXCEPT ![a] = "claim"]
    /\ LifeFrame /\ UNCHANGED <<row, edge, proc, gate, released, claim, pending, faults, patches, deploys>>

\* Waits out a deploy, or gives up and records the failed delete.
DeleteClaim(a) ==
    /\ life[a] = "claim"
    /\ LET id == <<a, row[a].gen>> IN
       IF ClaimFree(id)
       THEN /\ claim' = [claim EXCEPT ![id] = Deleter]
            /\ life' = [life EXCEPT ![a] = "mark"] /\ UNCHANGED row
       ELSE /\ life' = [life EXCEPT ![a] = "none"]
            /\ UpdateAppStatus(a, row[a].gen, "stopped") /\ UNCHANGED claim
    /\ LifeFrame /\ UNCHANGED <<edge, proc, gate, released, pending, spent, faults>>

DeleteMark(a) ==
    /\ life[a] = "mark"
    /\ row' = [row EXCEPT ![a] = PatchDesired(row[a], "stopped")]
    /\ life' = [life EXCEPT ![a] = "purge"]
    /\ LifeFrame /\ UNCHANGED <<edge, proc, gate, released, claim, pending, spent, faults>>

\* purge_slug: the fleet first, then its data.
DeletePurge(a) ==
    /\ life[a] = "purge"
    /\ StopFleet(a)
    /\ life' = [life EXCEPT ![a] = "wipe"]
    /\ LifeFrame /\ UNCHANGED <<row, edge, released, claim, pending, spent, faults>>

DeleteWipe(a) ==
    /\ life[a] = "wipe"
    /\ \/ /\ released' = [released EXCEPT ![a] = FALSE]
          /\ life' = [life EXCEPT ![a] = "row"]
          /\ UNCHANGED <<row, claim, faults>>
       \/ /\ Fault
          /\ \E kept \in BOOLEAN : released' = [released EXCEPT ![a] = @ /\ kept]
          /\ life' = [life EXCEPT ![a] = "none"]
          /\ claim' = [claim EXCEPT ![<<a, row[a].gen>>] = Nobody]
          /\ UpdateAppStatus(a, row[a].gen, "stopped")
    /\ LifeFrame /\ UNCHANGED <<edge, proc, gate, pending, spent>>

DeleteRow(a) ==
    /\ life[a] = "row"
    /\ row' = [row EXCEPT ![a] = NoRow(row[a].gen)]
    /\ life' = [life EXCEPT ![a] = "last"]
    /\ LifeFrame /\ UNCHANGED <<edge, proc, gate, released, claim, pending, spent, faults>>

\* The last stop still holds the slug's push guard and the claim.
DeleteLast(a) ==
    /\ life[a] = "last"
    /\ StopFleet(a)
    /\ life' = [life EXCEPT ![a] = "none"]
    /\ claim' = [claim EXCEPT ![<<a, row[a].gen>>] = Nobody]
    /\ pending' = TRUE
    /\ LifeFrame /\ UNCHANGED <<row, edge, released, spent, faults>>

\* Create wipes the slug's leftovers under its push guard, then inserts.
CreateStart(a) ==
    /\ ~row[a].exists /\ life[a] = "none" /\ row[a].gen < MaxGen /\ recycles < MaxRecycles
    /\ recycles' = recycles + 1
    /\ StopFleet(a)
    /\ life' = [life EXCEPT ![a] = "reset"]
    /\ LifeFrame /\ UNCHANGED <<row, edge, released, claim, pending, faults, patches, deploys>>

CreateWipe(a) ==
    /\ life[a] = "reset"
    /\ \/ /\ released' = [released EXCEPT ![a] = FALSE]
          /\ life' = [life EXCEPT ![a] = "create"] /\ UNCHANGED faults
       \/ /\ Fault
          /\ \E kept \in BOOLEAN : released' = [released EXCEPT ![a] = @ /\ kept]
          /\ life' = [life EXCEPT ![a] = "none"]
    /\ LifeFrame /\ UNCHANGED <<row, edge, proc, gate, claim, pending, spent>>

\* The row lands, or the quota, the repositories or the ports refuse it.
CreateInsert(a) ==
    /\ life[a] = "create"
    /\ \/ row' = [row EXCEPT ![a] = FreshRow(row[a].gen + 1)] /\ UNCHANGED faults
       \/ Fault /\ UNCHANGED row
    /\ life' = [life EXCEPT ![a] = "none"]
    /\ LifeFrame /\ UNCHANGED <<edge, proc, gate, released, claim, pending, spent>>

LifeStep(a) ==
    \/ DeleteClaim(a) \/ DeleteMark(a) \/ DeletePurge(a) \/ DeleteWipe(a)
    \/ DeleteRow(a) \/ DeleteLast(a) \/ CreateWipe(a) \/ CreateInsert(a)

-----------------------------------------------------------------------------
(* celld itself, the crash gate's clock, and the runner's own death.       *)

FleetFrame == UNCHANGED <<row, edge, released, lock, slotted, claim, pc, app, view, snap,
                  todo, cold, confirming, flipping, life, pending, spent, restarts>>

\* A fleet whose bucket has no release exits at once.
FleetBoot(a) ==
    /\ proc[a].state = "boot"
    /\ proc' = [proc EXCEPT ![a].state = IF released[a] THEN "healthy" ELSE "dead"]
    /\ FleetFrame /\ UNCHANGED <<gate, faults>>

FleetCrash(a) ==
    /\ proc[a].state \in {"boot", "healthy"} /\ Fault
    /\ proc' = [proc EXCEPT ![a].state = "dead"]
    /\ FleetFrame /\ UNCHANGED gate

HoldElapses(a) ==
    /\ gate[a] = "hold"
    /\ gate' = [gate EXCEPT ![a] = "due"]
    /\ FleetFrame /\ UNCHANGED <<proc, faults>>

\* Rows and the edge's table outlive the runner, nothing else does.
Restart ==
    /\ restarts < MaxRestarts
    /\ restarts' = restarts + 1
    /\ proc' = [a \in Apps |-> NoProc]
    /\ gate' = [a \in Apps |-> "open"]
    /\ lock' = [i \in Ids |-> Nobody]
    /\ claim' = [i \in Ids |-> Nobody]
    /\ pc' = [t \in Tasks |-> "idle"]
    /\ life' = [a \in Apps |-> "none"]
    /\ slotted' = {} /\ todo' = {} /\ confirming' = {} /\ flipping' = {}
    /\ cold' = 0 /\ pending' = FALSE
    /\ app' = [t \in Tasks |-> NoApp]
    /\ view' = [t \in Tasks |-> NoView]
    /\ snap' = [a \in Apps |-> NoRow(0)]
    /\ UNCHANGED <<row, edge, released, spent, faults>>

-----------------------------------------------------------------------------
\* What a booting runner may find in its database.
RunningRow == [FreshRow(1) EXCEPT !.sha = TRUE, !.status = "running"]
AsleepRow  == [RunningRow EXCEPT !.asleep = TRUE, !.status = "sleeping"]

Init ==
    /\ row \in [Apps -> {NoRow(0), FreshRow(1), RunningRow, AsleepRow}]
    /\ edge \in {[a \in Apps |-> "none"], [a \in Apps |-> RouteOf(row[a])]}
    /\ proc = [a \in Apps |-> NoProc]
    /\ gate = [a \in Apps |-> "open"]
    /\ released = [a \in Apps |-> row[a].sha]
    /\ lock = [i \in Ids |-> Nobody]
    /\ slotted = {}
    /\ claim = [i \in Ids |-> Nobody]
    /\ pc = [t \in Tasks |-> "idle"]
    /\ app = [t \in Tasks |-> NoApp]
    /\ view = [t \in Tasks |-> NoView]
    /\ snap = [a \in Apps |-> NoRow(0)]
    /\ todo = {} /\ cold = 0 /\ confirming = {} /\ flipping = {}
    /\ life = [a \in Apps |-> "none"]
    /\ pending = FALSE
    /\ patches = 0 /\ deploys = 0 /\ recycles = 0 /\ faults = 0 /\ restarts = 0

ParkAny   == \E p \in Parkers : ParkStep(p) \/ \E a \in Apps : ParkLock(p, a)
WakeAny   == \E w \in Wakers : WakeStep(w) \/ WakeLock(w) \/ WakeCancel(w)
                               \/ \E a \in Apps : WakeArrive(w, a)
DeployAny == \E d \in Deployers : DeployStep(d) \/ \E a \in Apps : DeployQueue(d, a)
LifeAny   == \E a \in Apps : \/ LifeStep(a) \/ DeleteStart(a) \/ CreateStart(a)
                             \/ \E d \in {"running", "stopped"} : OwnerPatch(a, d)
FleetAny  == \E a \in Apps : FleetBoot(a) \/ FleetCrash(a) \/ HoldElapses(a)

Next == TickStep \/ ParkAny \/ WakeAny \/ ConfirmStep \/ DeployAny
        \/ LifeAny \/ PushPending \/ FleetAny \/ Restart

Spec == Init /\ [][Next]_vars

(***************************************************************************)
(* Fairness.  tokio runs every spawned task, and every wait in the code    *)
(* has a timeout, so each task that can move moves.  The transition lock   *)
(* is tokio's FIFO mutex, hence strong fairness for who waits on it.  New  *)
(* requests, parks, deploys, owner operations, crashes and restarts are    *)
(* the environment's and are not fair.                                     *)
(***************************************************************************)
WakesFair  == \A w \in Wakers : WF_vars(WakeStep(w)) /\ SF_vars(WakeLock(w))
FleetsFair == \A a \in Apps : WF_vars(FleetBoot(a)) /\ WF_vars(HoldElapses(a))

Fairness ==
    /\ WF_vars(TickStep)
    /\ \A p \in Parkers : WF_vars(ParkStep(p))
    /\ WakesFair
    /\ \A d \in Deployers : WF_vars(DeployStep(d)) /\ SF_vars(DeployWake(d))
    /\ \A c \in Ids : WF_vars(ConfirmGate(c)) /\ WF_vars(ConfirmFlip(c))
    /\ \A a \in Apps : WF_vars(LifeStep(a))
    /\ FleetsFair
    /\ WF_vars(PushPending)

FairSpec == Spec /\ Fairness

-----------------------------------------------------------------------------
(* Properties.                                                             *)

TablesOK ==
    /\ row \in [Apps -> Rows]
    /\ edge \in [Apps -> Routes]
    /\ proc \in [Apps -> Procs]
    /\ gate \in [Apps -> {"open", "hold", "due"}]
    /\ released \in [Apps -> BOOLEAN]

HoldersOK ==
    /\ lock \in [Ids -> Parkers \cup Wakers \cup {Nobody}]
    /\ slotted \subseteq Wakers
    /\ claim \in [Ids -> Deployers \cup {Deleter, Nobody}]

TasksOK ==
    /\ pc \in [Tasks -> Labels]
    /\ pc[Tick] \in TickLabels
    /\ \A p \in Parkers : pc[p] \in ParkLabels
    /\ \A w \in Wakers : pc[w] \in WakeLabels
    /\ \A d \in Deployers : pc[d] \in DeployLabels
    /\ app \in [Tasks -> Apps]
    /\ view \in [Tasks -> Views]

PassOK ==
    /\ snap \in [Apps -> Rows]
    /\ todo \subseteq Apps
    /\ cold \in Nat
    /\ confirming \subseteq Ids
    /\ flipping \subseteq Ids
    /\ life \in [Apps -> LifeSteps]
    /\ pending \in BOOLEAN

SpentOK ==
    /\ patches \in Nat /\ deploys \in Nat /\ recycles \in Nat
    /\ faults \in Nat /\ restarts \in Nat

\* Type invariant.
TypeOK == TablesOK /\ HoldersOK /\ TasksOK /\ PassOK /\ SpentOK

\* A park or a wake that got past its lock, and a deploy past its claim.
InTransition(t) == t \in Parkers \cup Wakers /\ pc[t] \notin {"idle", "queued"}
InDeploy(d)     == pc[d] \notin {"idle", "queued"}

\* Parks and wakes of one app never overlap (sleep.rs: every transition runs
\* under the app's lock), whatever cancels, errors or deletes in between.
TransitionExclusion ==
    \A t, u \in Parkers \cup Wakers :
        InTransition(t) /\ InTransition(u) /\ Id(t) = Id(u) => t = u

\* No lock, permit or claim outlives its holder: not a wake whose visitor hung
\* up, not a park whose push failed, not a deploy that bailed out.
NothingLeaked ==
    /\ \A i \in Ids : lock[i] # Nobody => InTransition(lock[i])
    /\ \A w \in slotted : InTransition(w)
    /\ \A i \in Ids : claim[i] \in Deployers => InDeploy(claim[i])

\* Once the edge took a park's table, and until its fleet goes down, visitors
\* are not proxied to the fleet being stopped (sleep_app's order: flag, route,
\* then fleet), unless the owner meanwhile ordered the app on or off.
ParkedBehindWakeRoute ==
    \A p \in Parkers :
        pc[p] = "stop" /\ Mine(p) /\ IsAsleep(row[app[p]]) => edge[app[p]] # "proxy"

\* A wake that cleared the flag keeps its app awake until it is through: no
\* park slips in before the request it holds is served.
WokenStaysAwake ==
    \A w \in Wakers :
        InTransition(w) /\ pc[w] \notin {"slot", "clear"} /\ Mine(w) => ~row[app[w]].asleep

\* Held requests of different apps never start more fleets at once than there
\* are permits: a wake clears the flag, and restores the route, under one.
ColdStartsBounded ==
    Cardinality({w \in Wakers : pc[w] \in {"clear", "route"}}) <= WakeConcurrency

\* A deploy past its row check works on a row that exists: a delete waits for
\* the claim, and takes the row away before it lets go (R-01).
DeployerRowLive ==
    \A d \in Deployers : InDeploy(d) /\ pc[d] \notin {"wake", "build"} => Mine(d)

\* Nothing is published into the prefix of a deleted app: whoever creates the
\* slug next finds it empty (R-01).
PurgedStaysEmpty == \A a \in Apps : row[a].exists \/ ~released[a]

\* A stop wins: while an app stays stopped no deploy, wake, confirm or tick
\* working from an older read writes it any other status.
StopWins ==
    [][\A a \in Apps :
         row[a].exists /\ IsStopped(row[a]) /\ row'[a].exists /\ IsStopped(row'[a])
            => row'[a].status \in {row[a].status, "stopped", "sleeping"}]_vars

\* An app left stopped ends up with no fleet and says so, although a wake or
\* tick that read it before the stop may start one after it.
StopSettles ==
    \A a \in Apps :
        <>[](row[a].exists /\ IsStopped(row[a]))
            => <>[](~HasProcess(a) /\ row[a].status = "stopped")

\* A deleted app's fleet does not run on (stop_orphan_fleets).
OrphanSettles ==
    \A a \in Apps : <>[](~row[a].exists) => <>[](~HasProcess(a) /\ edge[a] = "none")

\* An app left wanted and deployed ends up running, healthy and routed,
\* whatever crashed, was lost or restarted, and whoever else is cold.
WantedServes ==
    \A a \in Apps :
        <>[](RouteOf(row[a]) = "proxy" /\ row[a].sha /\ released[a])
            => <>[](Healthy(a) /\ row[a].status = "running" /\ edge[a] = "proxy")

\* The edge ends up serving what the rows say.
EdgeSettles ==
    \A a \in Apps, r \in Routes : <>[](RouteOf(row[a]) = r) => <>[](edge[a] = r)

\* Every held request, park and deploy comes back: no cycle among the app
\* lock, the cold-start permits, the claim and the health gate.
EveryTaskReturns ==
    \A t \in Parkers \cup Wakers \cup Deployers : pc[t] # "idle" ~> pc[t] = "idle"

\* Claimed by loop_.rs ("respawning here would undo the sleep") and refuted: a
\* tick that listed the app awake starts it again behind the park's back, and
\* nothing stops the fleet of an app that is already marked asleep.
SleepSettles ==
    \A a \in Apps : <>[](row[a].exists /\ IsAsleep(row[a])) => <>[](~HasProcess(a))

\* Claimed by CHANGELOG.md ("Restarts of an already-running fleet are never
\* delayed") and refuted: a reaped child has left the map, so its restart
\* counts as a cold start and waits for the batch.
RestartsNeverBatched ==
    [][\A a \in Apps : TickSkip(a) /\ Wanted(snap[a]) => gate[a] # "due"]_vars
=============================================================================
