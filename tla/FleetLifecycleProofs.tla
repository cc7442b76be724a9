------------------------ MODULE FleetLifecycleProofs ------------------------
(* Proofs about FleetLifecycle, for every set of apps and tasks and every   *)
(* bound: its types first, then its safety properties from one inductive    *)
(* invariant, shown actor by actor.                                         *)
EXTENDS FleetLifecycle, TLAPS, FiniteSetTheorems

\* The app an idle task is parked on exists.
LEMMA NoAppType == NoApp \in Apps
  BY AppsExist DEF NoApp

\* What may be read of a row, and which updates of it are rows again.
LEMMA RowFacts ==
  ASSUME NEW r \in Rows
  PROVE  /\ r.gen \in Gens /\ r.status \in Status /\ IsAsleep(r) \in BOOLEAN
         /\ Seen(r) \in Views
         /\ \A s \in Status : [r EXCEPT !.status = s] \in Rows
         /\ [r EXCEPT !.asleep = TRUE, !.status = "sleeping"] \in Rows
         /\ [r EXCEPT !.asleep = FALSE] \in Rows
         /\ [r EXCEPT !.sha = TRUE] \in Rows
         /\ [r EXCEPT !.sha = TRUE, !.status = "running"] \in Rows
         /\ \A d \in {"running", "stopped"} : PatchDesired(r, d) \in Rows
  BY DEF Rows, Views, Status, IsAsleep, IsStopped, Seen, PatchDesired

\* The rows the model starts from or inserts.
LEMMA NewRows ==
  /\ \A g \in Gens : NoRow(g) \in Rows /\ FreshRow(g) \in Rows
  /\ NoView \in Views
  /\ RunningRow \in Rows /\ AsleepRow \in Rows
<1>1. \A g \in Gens : NoRow(g) \in Rows /\ FreshRow(g) \in Rows
  BY DEF NoRow, FreshRow, Rows, Status
<1>2. 0 \in Gens /\ 1 \in Gens
  BY BoundsAssumption DEF Gens
<1>3. NoView \in Views
  BY <1>1, <1>2, RowFacts DEF NoView
<1>4. RunningRow \in Rows /\ AsleepRow \in Rows
  BY <1>1, <1>2 DEF RunningRow, AsleepRow, FreshRow, Rows, Status
<1> QED BY <1>1, <1>3, <1>4

\* A task works on an app id.
LEMMA IdType ==
  ASSUME TypeOK, NEW t \in Tasks
  PROVE  app[t] \in Apps /\ view[t] \in Views /\ view[t].gen \in Gens
         /\ view[t].status \in Status /\ Id(t) \in Ids
  BY DEF TypeOK, TasksOK, Views, Id, Ids

\* Every write of the app table keeps it a table of rows.
LEMMA WriteType ==
  ASSUME TypeOK, NEW a \in Apps, NEW g, NEW r \in Rows, Write(a, g, r)
  PROVE  row' \in [Apps -> Rows]
  BY DEF TypeOK, TablesOK, Write

\* The UPDATEs of db/apps.rs are such writes.
LEMMA WritesType ==
  ASSUME TypeOK, NEW a \in Apps, NEW g, NEW s \in Status,
         \/ SetAppAsleep(a, g) \/ SetAppAwake(a, g) \/ UpdateAppStatus(a, g, s)
         \/ UpdateIfWanted(a, g, s) \/ MarkDeployLive(a, g)
  PROVE  row' \in [Apps -> Rows]
<1>1. row[a] \in Rows
  BY DEF TypeOK, TablesOK
<1> QED BY <1>1, RowFacts, WriteType DEF SetAppAsleep, SetAppAwake, UpdateAppStatus,
             UpdateIfWanted, MarkDeployLive

-----------------------------------------------------------------------------
(* Type correctness.                                                       *)

\* A task moves within the labels of its kind.
LEMMA GotoType ==
  ASSUME TypeOK, NEW t \in Tasks, NEW l, Goto(t, l),
         t = Tick => l \in TickLabels,
         t \in Parkers => l \in ParkLabels,
         t \in Wakers => l \in WakeLabels,
         t \in Deployers => l \in DeployLabels
  PROVE  /\ pc' \in [Tasks -> Labels]
         /\ pc'[Tick] \in TickLabels
         /\ \A p \in Parkers : pc'[p] \in ParkLabels
         /\ \A w \in Wakers : pc'[w] \in WakeLabels
         /\ \A d \in Deployers : pc'[d] \in DeployLabels
  BY DEF TypeOK, TasksOK, Goto, Tasks, Labels

\* Taking up and leaving an app.
LEMMA TakeType ==
  ASSUME TypeOK, NEW t \in Tasks, NEW a \in Apps, NEW l, Take(t, a, l) \/ Leave(t, l)
  PROVE  Goto(t, l) /\ app' \in [Tasks -> Apps] /\ view' \in [Tasks -> Views]
<1>1. row[a] \in Rows
  BY DEF TypeOK, TablesOK
<1>2. Seen(row[a]) \in Views
  BY <1>1, RowFacts
<1> QED BY <1>2, NoAppType, NewRows DEF TypeOK, TasksOK, Take, Leave

\* A stop leaves a process map and crash gates.
LEMMA StopType ==
  ASSUME TypeOK, NEW a \in Apps, StopFleet(a)
  PROVE  proc' \in [Apps -> Procs] /\ gate' \in [Apps -> {"open", "hold", "due"}]
<1>1. NoProc \in Procs
  BY BoundsAssumption DEF NoProc, Procs, Gens
<1> QED BY <1>1 DEF TypeOK, TablesOK, StopFleet

\* A push, taken or lost, leaves a table of routes.
LEMMA PushType ==
  ASSUME TypeOK, PushAccepted \/ PushLost \/ (Fault /\ UNCHANGED edge)
  PROVE  edge' \in [Apps -> Routes] /\ faults' \in Nat
<1>1. \A a \in Apps : RouteOf(row[a]) \in Routes
  BY DEF RouteOf, Routes
<1> QED BY <1>1 DEF TypeOK, TablesOK, SpentOK, PushAccepted, PushLost, Fault

\* ensure_spawned, whoever calls it.
LEMMA EnsureType ==
  ASSUME TypeOK, NEW t \in Tasks, t \notin Parkers, EnsureSpawned(t)
  PROVE  TypeOK'
<1> USE DEF EnsureUnchanged
<1>1. app[t] \in Apps /\ view[t].gen \in Gens
  BY IdType
<1>2. UNCHANGED <<row, edge, released, lock, slotted, claim, app, view, snap, todo, cold,
                  confirming, flipping, life, pending, spent, restarts>>
  BY DEF EnsureSpawned, EnsureSettled, EnsureReap, EnsureNoteCrash, EnsureCold, EnsureSpawn
<1>3. proc' \in [Apps -> Procs] /\ gate' \in [Apps -> {"open", "hold", "due"}] /\ faults' \in Nat
  <2>1. NoProc \in Procs /\ [gen |-> view[t].gen, state |-> "boot"] \in Procs
    BY <1>1, BoundsAssumption DEF NoProc, Procs, Gens
  <2>2. proc \in [Apps -> Procs] /\ gate \in [Apps -> {"open", "hold", "due"}] /\ faults \in Nat
    BY DEF TypeOK, TablesOK, SpentOK
  <2> QED BY <1>1, <2>1, <2>2 DEF EnsureSpawned, EnsureSettled, EnsureReap, EnsureNoteCrash,
               EnsureCold, EnsureSpawn, Fault
<1>4. PICK l \in EnsureLabels : Goto(t, l)
  BY DEF EnsureSpawned, EnsureSettled, EnsureReap, EnsureNoteCrash, EnsureCold, EnsureSpawn,
         EnsureLabels
<1>5. TasksOK'
  BY <1>2, <1>4, GotoType DEF TypeOK, TasksOK, TickLabels, WakeLabels, DeployLabels
<1> QED BY <1>2, <1>3, <1>5 DEF TypeOK, TablesOK, HoldersOK, PassOK, SpentOK, spent

\* The reconcile tick.
LEMMA TickType == TypeOK /\ TickStep => TypeOK'
<1> SUFFICES ASSUME TypeOK, TickStep PROVE TypeOK'
  OBVIOUS
<1> USE DEF TickFrame, spent
<1>0. /\ Tick \in Tasks /\ Tick \notin Parkers /\ Tick \notin Wakers /\ Tick \notin Deployers
      /\ app[Tick] \in Apps /\ view[Tick].status \in Status /\ Id(Tick) \in Ids
      /\ "stopped" \in Status
  BY TasksDistinct, IdType DEF Tasks, Status
<1>1. CASE TickList
  <2>1. TasksOK'
    BY <1>0, <1>1, GotoType DEF TickList, TypeOK, TasksOK, TickLabels
  <2> QED BY <1>1, <2>1 DEF TickList, TypeOK, TablesOK, HoldersOK, PassOK, SpentOK
<1>2. CASE TickStopped
  <2>1. TasksOK'
    BY <1>0, <1>2, GotoType, TakeType DEF TickStopped, TypeOK, TasksOK, TickLabels
  <2>2. row' \in [Apps -> Rows]
    BY <1>0, <1>2, WritesType DEF TickStopped, TypeOK, TablesOK
  <2> QED BY <1>2, <2>1, <2>2 DEF TickStopped, TypeOK, TablesOK, HoldersOK, PassOK, SpentOK
<1>3. CASE TickEnsured
  <2>1. TasksOK'
    BY <1>0, <1>3, GotoType, TakeType DEF TickEnsured, TypeOK, TasksOK, TickLabels
  <2> QED BY <1>0, <1>3, <2>1 DEF TickEnsured, TypeOK, TablesOK, HoldersOK, PassOK, SpentOK
<1>4. CASE TickRefused
  <2>1. TasksOK'
    BY <1>0, <1>4, GotoType, TakeType DEF TickRefused, TypeOK, TasksOK, TickLabels
  <2>2. row' \in [Apps -> Rows]
    BY <1>0, <1>4, WritesType DEF TickRefused
  <2> QED BY <1>4, <2>1, <2>2 DEF TickRefused, TypeOK, TablesOK, HoldersOK, PassOK, SpentOK
<1>5. CASE TickRoutes
  <2>1. TasksOK'
    BY <1>0, <1>5, GotoType DEF TickRoutes, TypeOK, TasksOK, TickLabels
  <2>2. edge' \in [Apps -> Routes] /\ faults' \in Nat
    BY <1>5, PushType DEF TickRoutes
  <2> QED BY <1>5, <2>1, <2>2 DEF TickRoutes, TypeOK, TablesOK, HoldersOK, PassOK, SpentOK
<1>6. CASE TickDone
  <2>1. TasksOK'
    BY <1>0, <1>6, GotoType DEF TickDone, TypeOK, TasksOK, TickLabels
  <2>2. NoRow(0) \in Rows
    BY NewRows, BoundsAssumption DEF Gens
  <2> QED BY <1>6, <2>1, <2>2 DEF TickDone, TypeOK, TablesOK, HoldersOK, PassOK, SpentOK
<1>7. CASE EnsureSpawned(Tick)
  BY <1>0, <1>7, EnsureType
<1>8. ASSUME NEW a \in Apps, TickStop(a) \/ TickEnsure(a) PROVE TypeOK'
  <2>1. Seen(snap[a]) \in Views
    BY RowFacts DEF TypeOK, PassOK
  <2>2. TasksOK'
    BY <1>0, <1>8, <2>1, GotoType DEF TickStop, TickEnsure, TypeOK, TasksOK, TickLabels,
       EnsureLabels
  <2>3. proc' \in [Apps -> Procs] /\ gate' \in [Apps -> {"open", "hold", "due"}]
    BY <1>8, StopType DEF TickStop, TickEnsure, TypeOK, TablesOK
  <2> QED BY <1>8, <2>2, <2>3 DEF TickStop, TickEnsure, TypeOK, TablesOK, HoldersOK, PassOK,
               SpentOK
<1>9. ASSUME NEW a \in Apps, TickSkip(a) \/ TickOrphan(a) PROVE TypeOK'
  <2>1. proc' \in [Apps -> Procs] /\ gate' \in [Apps -> {"open", "hold", "due"}]
    BY <1>9, StopType DEF TickSkip, TickOrphan, TypeOK, TablesOK
  <2> QED BY <1>9, <2>1 DEF TickSkip, TickOrphan, TypeOK, TablesOK, HoldersOK, TasksOK, PassOK,
               SpentOK
<1> QED BY <1>1, <1>2, <1>3, <1>4, <1>5, <1>6, <1>7, <1>8, <1>9 DEF TickStep

\* Parking.
LEMMA ParkType ==
  ASSUME TypeOK, NEW p \in Parkers,
         ParkStep(p) \/ \E a \in Apps : ParkLock(p, a)
  PROVE  TypeOK'
<1> USE DEF ParkFrame, spent
<1>0. /\ p \in Tasks /\ p # Tick /\ p \notin Wakers /\ p \notin Deployers
      /\ app[p] \in Apps /\ Id(p) \in Ids /\ "stopped" \in Status
  BY TasksDistinct, IdType DEF Tasks, Status
<1>1. CASE \E a \in Apps : ParkLock(p, a)
  <2>1. PICK a \in Apps : ParkLock(p, a)
    BY <1>1
  <2>2. TasksOK'
    BY <1>0, <2>1, GotoType, TakeType DEF ParkLock, TypeOK, TasksOK, ParkLabels
  <2> QED BY <2>1, <2>2 DEF ParkLock, TypeOK, TablesOK, HoldersOK, PassOK, SpentOK
<1>2. CASE ParkMark(p)
  <2>1. TasksOK'
    BY <1>0, <1>2, GotoType DEF ParkMark, TypeOK, TasksOK, ParkLabels
  <2>2. row' \in [Apps -> Rows]
    BY <1>0, <1>2, WritesType DEF ParkMark
  <2> QED BY <1>2, <2>1, <2>2 DEF ParkMark, TypeOK, TablesOK, HoldersOK, PassOK, SpentOK
<1>3. CASE ParkPush(p)
  <2>1. TasksOK'
    BY <1>0, <1>3, GotoType, TakeType DEF ParkPush, TypeOK, TasksOK, ParkLabels
  <2>2. edge' \in [Apps -> Routes] /\ faults' \in Nat
    BY <1>3, PushType DEF ParkPush
  <2>3. lock' \in [Ids -> Parkers \cup Wakers \cup {Nobody}]
    BY <1>3 DEF ParkPush, Release, TypeOK, HoldersOK
  <2> QED BY <1>3, <2>1, <2>2, <2>3 DEF ParkPush, TypeOK, TablesOK, HoldersOK, PassOK, SpentOK
<1>4. CASE ParkStop(p)
  <2>1. TasksOK'
    BY <1>0, <1>4, GotoType DEF ParkStop, TypeOK, TasksOK, ParkLabels
  <2>2. proc' \in [Apps -> Procs] /\ gate' \in [Apps -> {"open", "hold", "due"}]
    BY <1>0, <1>4, StopType DEF ParkStop
  <2> QED BY <1>4, <2>1, <2>2 DEF ParkStop, TypeOK, TablesOK, HoldersOK, PassOK, SpentOK
<1>5. CASE ParkDone(p)
  <2>1. TasksOK'
    BY <1>0, <1>5, GotoType, TakeType DEF ParkDone, TypeOK, TasksOK, ParkLabels
  <2> QED BY <1>5, <2>1 DEF ParkDone, Release, TypeOK, TablesOK, HoldersOK, PassOK, SpentOK
<1> QED BY <1>1, <1>2, <1>3, <1>4, <1>5 DEF ParkStep

\* Waking.
LEMMA WakeType ==
  ASSUME TypeOK, NEW w \in Wakers,
         WakeStep(w) \/ WakeLock(w) \/ WakeCancel(w) \/ \E a \in Apps : WakeArrive(w, a)
  PROVE  TypeOK'
<1> USE DEF WakeFrame, spent
<1>0. /\ w \in Tasks /\ w # Tick /\ w \notin Parkers /\ w \notin Deployers
      /\ app[w] \in Apps /\ Id(w) \in Ids /\ view[w] \in Views /\ "running" \in Status
  BY TasksDistinct, IdType DEF Tasks, Status
<1>1. CASE \E a \in Apps : WakeArrive(w, a)
  <2>1. PICK a \in Apps : WakeArrive(w, a)
    BY <1>1
  <2>2. TasksOK'
    BY <1>0, <2>1, GotoType, TakeType DEF WakeArrive, TypeOK, TasksOK, WakeLabels
  <2> QED BY <2>1, <2>2 DEF WakeArrive, TypeOK, TablesOK, HoldersOK, PassOK, SpentOK
<1>2. CASE WakeLock(w)
  <2>1. TasksOK'
    BY <1>0, <1>2, GotoType, TakeType DEF WakeLock, TypeOK, TasksOK, WakeLabels
  <2> QED BY <1>0, <1>2, <2>1 DEF WakeLock, TypeOK, TablesOK, HoldersOK, PassOK, SpentOK
<1>3. CASE WakeSlot(w)
  <2>1. TasksOK'
    BY <1>0, <1>3, GotoType, TakeType DEF WakeSlot, WakeOver, TypeOK, TasksOK, WakeLabels
  <2> QED BY <1>3, <2>1 DEF WakeSlot, WakeOver, Release, TypeOK, TablesOK, HoldersOK, PassOK,
               SpentOK
<1>4. CASE WakeClear(w)
  <2>1. TasksOK'
    BY <1>0, <1>4, GotoType DEF WakeClear, TypeOK, TasksOK, WakeLabels
  <2>2. row' \in [Apps -> Rows]
    BY <1>0, <1>4, WritesType DEF WakeClear
  <2> QED BY <1>4, <2>1, <2>2 DEF WakeClear, TypeOK, TablesOK, HoldersOK, PassOK, SpentOK
<1>5. CASE WakeLoad(w)
  <2>1. Seen(row[app[w]]) \in Views
    BY <1>0, RowFacts DEF TypeOK, TablesOK
  <2>2. TasksOK'
    BY <1>0, <1>5, <2>1, GotoType DEF WakeLoad, TypeOK, TasksOK, WakeLabels, EnsureLabels
  <2> QED BY <1>5, <2>2 DEF WakeLoad, TypeOK, TablesOK, HoldersOK, PassOK, SpentOK
<1>6. CASE WakeGate(w) \/ WakeRefused(w)
  <2>1. TasksOK'
    BY <1>0, <1>6, GotoType, TakeType DEF WakeGate, WakeRefused, WakeOver, TypeOK, TasksOK,
       WakeLabels
  <2> QED BY <1>6, <2>1 DEF WakeGate, WakeRefused, WakeOver, Release, TypeOK, TablesOK,
               HoldersOK, PassOK, SpentOK
<1>7. CASE WakeFlip(w)
  <2>1. TasksOK'
    BY <1>0, <1>7, GotoType, TakeType DEF WakeFlip, WakeOver, TypeOK, TasksOK, WakeLabels
  <2>2. row' \in [Apps -> Rows]
    BY <1>0, <1>7, WritesType DEF WakeFlip, TypeOK, TablesOK
  <2> QED BY <1>7, <2>1, <2>2 DEF WakeFlip, WakeOver, Release, TypeOK, TablesOK, HoldersOK,
               PassOK, SpentOK
<1>8. CASE WakeRoute(w) \/ WakeCancel(w)
  <2>1. TasksOK'
    BY <1>0, <1>8, GotoType, TakeType DEF WakeRoute, WakeCancel, WakeOver, TypeOK, TasksOK,
       WakeLabels
  <2>2. edge' \in [Apps -> Routes] /\ faults' \in Nat
    BY <1>8, PushType DEF WakeRoute, WakeCancel
  <2> QED BY <1>8, <2>1, <2>2 DEF WakeRoute, WakeCancel, WakeOver, Release, TypeOK, TablesOK,
               HoldersOK, PassOK, SpentOK
<1>9. CASE EnsureSpawned(w)
  BY <1>0, <1>9, EnsureType
<1> QED BY <1>1, <1>2, <1>3, <1>4, <1>5, <1>6, <1>7, <1>8, <1>9 DEF WakeStep

\* Confirms.
LEMMA ConfirmType == TypeOK /\ ConfirmStep => TypeOK'
<1> SUFFICES ASSUME TypeOK, NEW c \in Ids, ConfirmGate(c) \/ ConfirmFlip(c) PROVE TypeOK'
  BY DEF ConfirmStep
<1>1. row' \in [Apps -> Rows]
  <2>1. c[1] \in Apps /\ "running" \in Status
    BY DEF Ids, Status
  <2> QED BY <2>1, WritesType DEF ConfirmGate, ConfirmFlip, TypeOK, TablesOK
<1> QED BY <1>1 DEF ConfirmGate, ConfirmFlip, ConfirmFrame, TypeOK, TablesOK, HoldersOK, TasksOK,
             PassOK, SpentOK, spent

\* A failed deploy writes one status and lets go of the claim.
LEMMA DeployOverType ==
  ASSUME TypeOK, NEW d \in Deployers, DeployOver(d)
  PROVE  TasksOK' /\ claim' \in [Ids -> Deployers \cup {Deleter, Nobody}]
<1>0. /\ d \in Tasks /\ d # Tick /\ d \notin Parkers /\ d \notin Wakers
      /\ app[d] \in Apps /\ Id(d) \in Ids
  BY TasksDistinct, IdType DEF Tasks
<1>1. TasksOK'
  BY <1>0, GotoType, TakeType DEF DeployOver, TypeOK, TasksOK, DeployLabels
<1> QED BY <1>0, <1>1 DEF DeployOver, TypeOK, HoldersOK

\* Deploys.
LEMMA DeployType ==
  ASSUME TypeOK, NEW d \in Deployers,
         DeployStep(d) \/ \E a \in Apps : DeployQueue(d, a)
  PROVE  TypeOK'
<1> USE DEF DeployFrame, spent
<1>0. /\ d \in Tasks /\ d # Tick /\ d \notin Parkers /\ d \notin Wakers
      /\ app[d] \in Apps /\ Id(d) \in Ids
      /\ "failed" \in Status /\ "deploying" \in Status /\ "running" \in Status
  BY TasksDistinct, IdType DEF Tasks, Status
<1>1. CASE \E a \in Apps : DeployQueue(d, a)
  <2>1. PICK a \in Apps : DeployQueue(d, a)
    BY <1>1
  <2>2. TasksOK'
    BY <1>0, <2>1, GotoType, TakeType DEF DeployQueue, TypeOK, TasksOK, DeployLabels
  <2> QED BY <2>1, <2>2 DEF DeployQueue, TypeOK, TablesOK, HoldersOK, PassOK, SpentOK
<1>2. CASE DeployClaim(d)
  <2>1. TasksOK'
    BY <1>0, <1>2, GotoType, TakeType DEF DeployClaim, TypeOK, TasksOK, DeployLabels
  <2> QED BY <1>0, <1>2, <2>1 DEF DeployClaim, TypeOK, TablesOK, HoldersOK, PassOK, SpentOK
<1>3. CASE DeployWake(d)
  <2>1. TasksOK'
    BY <1>0, <1>3, GotoType DEF DeployWake, TypeOK, TasksOK, DeployLabels
  <2>2. row' \in [Apps -> Rows]
    BY <1>0, <1>3, WritesType DEF DeployWake, TypeOK, TablesOK
  <2> QED BY <1>3, <2>1, <2>2 DEF DeployWake, TypeOK, TablesOK, HoldersOK, PassOK, SpentOK
<1>4. CASE DeployBuild(d)
  <2>1. TasksOK' /\ claim' \in [Ids -> Deployers \cup {Deleter, Nobody}]
    BY <1>0, <1>4, GotoType, DeployOverType
       DEF DeployBuild, DeployFail, TypeOK, TasksOK, HoldersOK, DeployLabels
  <2>2. row' \in [Apps -> Rows] /\ faults' \in Nat
    BY <1>0, <1>4, WritesType DEF DeployBuild, DeployFail, Fault, TypeOK, SpentOK
  <2> QED BY <1>4, <2>1, <2>2 DEF DeployBuild, TypeOK, TablesOK, HoldersOK, PassOK, SpentOK
<1>5. CASE DeployActivate(d)
  <2>1. TasksOK' /\ claim' \in [Ids -> Deployers \cup {Deleter, Nobody}]
    BY <1>0, <1>5, GotoType, DeployOverType
       DEF DeployActivate, DeployFail, TypeOK, TasksOK, HoldersOK, DeployLabels, EnsureLabels
  <2>2. row' \in [Apps -> Rows] /\ faults' \in Nat
    BY <1>0, <1>5, WritesType DEF DeployActivate, DeployFail, Fault, TypeOK, TablesOK, SpentOK
  <2>3. released' \in [Apps -> BOOLEAN]
    BY <1>0, <1>5 DEF DeployActivate, TypeOK, TablesOK
  <2> QED BY <1>5, <2>1, <2>2, <2>3 DEF DeployActivate, TypeOK, TablesOK, HoldersOK, PassOK,
               SpentOK
<1>6. CASE DeployGate(d) \/ DeployRefused(d)
  <2>1. TasksOK' /\ claim' \in [Ids -> Deployers \cup {Deleter, Nobody}]
    BY <1>0, <1>6, GotoType, DeployOverType
       DEF DeployGate, DeployRefused, DeployFail, TypeOK, TasksOK, HoldersOK, DeployLabels
  <2>2. row' \in [Apps -> Rows] /\ faults' \in Nat
    BY <1>0, <1>6, WritesType
       DEF DeployGate, DeployRefused, DeployFail, Fault, TypeOK, TablesOK, SpentOK
  <2> QED BY <1>6, <2>1, <2>2 DEF DeployGate, DeployRefused, TypeOK, TablesOK, HoldersOK, PassOK,
               SpentOK
<1>7. CASE DeployLive(d)
  <2>1. TasksOK'
    BY <1>0, <1>7, GotoType DEF DeployLive, TypeOK, TasksOK, DeployLabels
  <2>2. row' \in [Apps -> Rows]
    BY <1>0, <1>7, WritesType DEF DeployLive
  <2> QED BY <1>7, <2>1, <2>2 DEF DeployLive, TypeOK, TablesOK, HoldersOK, PassOK, SpentOK
<1>8. CASE DeployRoute(d)
  <2>1. TasksOK' /\ claim' \in [Ids -> Deployers \cup {Deleter, Nobody}]
    BY <1>0, <1>8, GotoType, DeployOverType
       DEF DeployRoute, DeployFail, TypeOK, TasksOK, HoldersOK, DeployLabels
  <2>2. row' \in [Apps -> Rows]
    BY <1>0, <1>8, WritesType DEF DeployRoute, DeployFail, TypeOK, TablesOK
  <2>3. edge' \in [Apps -> Routes] /\ faults' \in Nat
    BY <1>8, PushType DEF DeployRoute
  <2> QED BY <1>8, <2>1, <2>2, <2>3 DEF DeployRoute, TypeOK, TablesOK, HoldersOK, PassOK, SpentOK
<1>9. CASE DeployDone(d)
  <2>1. TasksOK' /\ claim' \in [Ids -> Deployers \cup {Deleter, Nobody}]
    BY <1>9, DeployOverType DEF DeployDone
  <2>2. row' \in [Apps -> Rows]
    BY <1>0, <1>9, WritesType DEF DeployDone
  <2> QED BY <1>9, <2>1, <2>2 DEF DeployDone, TypeOK, TablesOK, HoldersOK, PassOK, SpentOK
<1>10. CASE EnsureSpawned(d)
  BY <1>0, <1>10, EnsureType
<1> QED BY <1>1, <1>2, <1>3, <1>4, <1>5, <1>6, <1>7, <1>8, <1>9, <1>10 DEF DeployStep

(***************************************************************************)
(* A delete works on a row that exists until it takes it away, a create on *)
(* one that does not and whose generation can still grow.                  *)
(***************************************************************************)
LifeInv ==
    \A a \in Apps :
        /\ life[a] \in {"claim", "mark", "purge", "wipe", "row"} => row[a].exists
        /\ life[a] \in {"last", "reset", "create"} => ~row[a].exists
        /\ life[a] \in {"reset", "create"} => row[a].gen < MaxGen

\* The owner's operations.
LEMMA LifeType == TypeOK /\ LifeInv /\ (LifeAny \/ PushPending) => TypeOK'
<1> SUFFICES ASSUME TypeOK, LifeInv, LifeAny \/ PushPending PROVE TypeOK'
  OBVIOUS
<1> USE DEF LifeFrame, spent
<1>0. \A a \in Apps : /\ row[a] \in Rows /\ row[a].gen \in Gens /\ <<a, row[a].gen>> \in Ids
                      /\ "stopped" \in Status
  BY RowFacts DEF TypeOK, TablesOK, Status, Ids
<1>1. CASE PushPending
  <2>1. edge' \in [Apps -> Routes] /\ faults' \in Nat
    BY <1>1, PushType DEF PushPending
  <2> QED BY <1>1, <2>1 DEF PushPending, TypeOK, TablesOK, HoldersOK, TasksOK, PassOK, SpentOK
<1>2. ASSUME NEW a \in Apps, NEW d \in {"running", "stopped"}, OwnerPatch(a, d) PROVE TypeOK'
  <2>1. row' \in [Apps -> Rows]
    BY <1>0, <1>2, RowFacts DEF OwnerPatch, TypeOK, TablesOK
  <2> QED BY <1>2, <2>1 DEF OwnerPatch, TypeOK, TablesOK, HoldersOK, TasksOK, PassOK, SpentOK
<1>3. ASSUME NEW a \in Apps, DeleteStart(a) PROVE TypeOK'
  BY <1>3 DEF DeleteStart, TypeOK, TablesOK, HoldersOK, TasksOK, PassOK, SpentOK, LifeSteps
<1>4. ASSUME NEW a \in Apps, DeleteClaim(a) PROVE TypeOK'
  <2>1. row' \in [Apps -> Rows]
    BY <1>0, <1>4, WritesType DEF DeleteClaim, TypeOK, TablesOK
  <2> QED BY <1>0, <1>4, <2>1 DEF DeleteClaim, TypeOK, TablesOK, HoldersOK, TasksOK, PassOK,
               SpentOK, LifeSteps
<1>5. ASSUME NEW a \in Apps, DeleteMark(a) \/ DeleteRow(a) PROVE TypeOK'
  <2>1. row' \in [Apps -> Rows]
    <3>1. PatchDesired(row[a], "stopped") \in Rows
      BY <1>0, RowFacts
    <3>2. NoRow(row[a].gen) \in Rows
      BY <1>0, NewRows
    <3> QED BY <1>5, <3>1, <3>2 DEF DeleteMark, DeleteRow, TypeOK, TablesOK
  <2> QED BY <1>5, <2>1 DEF DeleteMark, DeleteRow, TypeOK, TablesOK, HoldersOK, TasksOK, PassOK,
               SpentOK, LifeSteps
<1>6. ASSUME NEW a \in Apps, DeletePurge(a) \/ DeleteLast(a) \/ CreateStart(a) PROVE TypeOK'
  <2>1. proc' \in [Apps -> Procs] /\ gate' \in [Apps -> {"open", "hold", "due"}]
    BY <1>6, StopType DEF DeletePurge, DeleteLast, CreateStart
  <2>2. HoldersOK'
    BY <1>0, <1>6 DEF DeletePurge, DeleteLast, CreateStart, TypeOK, HoldersOK
  <2>3. TablesOK' /\ TasksOK'
    BY <1>6, <2>1 DEF DeletePurge, DeleteLast, CreateStart, TypeOK, TablesOK, TasksOK
  <2>4. PassOK' /\ SpentOK'
    <3>1. life' \in [Apps -> LifeSteps]
      BY <1>6 DEF DeletePurge, DeleteLast, CreateStart, TypeOK, PassOK, LifeSteps
    <3>2. SpentOK'
      BY <1>6 DEF DeletePurge, DeleteLast, CreateStart, TypeOK, SpentOK
    <3>3. pending' \in BOOLEAN
      BY <1>6 DEF DeletePurge, DeleteLast, CreateStart, TypeOK, PassOK
    <3>4. UNCHANGED <<snap, todo, cold, confirming, flipping>>
      BY <1>6 DEF DeletePurge, DeleteLast, CreateStart
    <3> QED BY <3>1, <3>2, <3>3, <3>4 DEF TypeOK, PassOK
  <2> QED BY <2>2, <2>3, <2>4 DEF TypeOK
<1>7. ASSUME NEW a \in Apps, DeleteWipe(a) PROVE TypeOK'
  <2>1. row' \in [Apps -> Rows] /\ faults' \in Nat
    BY <1>0, <1>7, WritesType DEF DeleteWipe, Fault, TypeOK, TablesOK, SpentOK
  <2>2. released' \in [Apps -> BOOLEAN]
    BY <1>7 DEF DeleteWipe, TypeOK, TablesOK
  <2> QED BY <1>0, <1>7, <2>1, <2>2 DEF DeleteWipe, TypeOK, TablesOK, HoldersOK, TasksOK, PassOK,
               SpentOK, LifeSteps
<1>8. ASSUME NEW a \in Apps, CreateInsert(a) PROVE TypeOK'
  <2>1. row[a].gen + 1 \in Gens
    <3>1. row[a].gen < MaxGen
      BY <1>8 DEF CreateInsert, LifeInv
    <3>2. row[a].gen \in 0 .. MaxGen /\ MaxGen \in Nat
      BY <1>0, BoundsAssumption DEF Gens
    <3> QED BY <3>1, <3>2 DEF Gens
  <2>2. row' \in [Apps -> Rows]
    BY <1>8, <2>1, NewRows DEF CreateInsert, TypeOK, TablesOK
  <2>3. faults' \in Nat
    BY <1>8 DEF CreateInsert, Fault, TypeOK, SpentOK
  <2> QED BY <1>8, <2>2, <2>3 DEF CreateInsert, TypeOK, TablesOK, HoldersOK, TasksOK, PassOK,
               SpentOK, LifeSteps
<1>9. ASSUME NEW a \in Apps, CreateWipe(a) PROVE TypeOK'
  <2>1. faults' \in Nat
    BY <1>9 DEF CreateWipe, Fault, TypeOK, SpentOK
  <2>2. released' \in [Apps -> BOOLEAN]
    BY <1>9 DEF CreateWipe, TypeOK, TablesOK
  <2> QED BY <1>9, <2>1, <2>2 DEF CreateWipe, TypeOK, TablesOK, HoldersOK, TasksOK, PassOK,
               SpentOK, LifeSteps
<1> QED BY <1>1, <1>2, <1>3, <1>4, <1>5, <1>6, <1>7, <1>8, <1>9 DEF LifeAny, LifeStep

\* celld and the runner's own death.
LEMMA FleetType == TypeOK /\ (FleetAny \/ Restart) => TypeOK'
<1> SUFFICES ASSUME TypeOK, FleetAny \/ Restart PROVE TypeOK'
  OBVIOUS
<1>1. ASSUME NEW a \in Apps, FleetBoot(a) \/ FleetCrash(a) \/ HoldElapses(a) PROVE TypeOK'
  <2>1. proc' \in [Apps -> Procs]
    <3>1. CASE FleetBoot(a)
      BY <3>1 DEF FleetBoot, TypeOK, TablesOK, Procs
    <3>2. CASE FleetCrash(a)
      BY <3>2 DEF FleetCrash, TypeOK, TablesOK, Procs
    <3>3. CASE HoldElapses(a)
      BY <3>3 DEF HoldElapses, TypeOK, TablesOK
    <3> QED BY <1>1, <3>1, <3>2, <3>3
  <2>2. gate' \in [Apps -> {"open", "hold", "due"}]
    BY <1>1 DEF FleetBoot, FleetCrash, HoldElapses, TypeOK, TablesOK
  <2>3. faults' \in Nat
    BY <1>1 DEF FleetBoot, FleetCrash, HoldElapses, Fault, TypeOK, SpentOK
  <2> QED BY <1>1, <2>1, <2>2, <2>3 DEF FleetBoot, FleetCrash, HoldElapses, FleetFrame, TypeOK, TablesOK,
               HoldersOK, TasksOK, PassOK, SpentOK, spent
<1>2. CASE Restart
  <2>1. NoRow(0) \in Rows /\ NoProc \in Procs /\ NoView \in Views /\ NoApp \in Apps
    BY NewRows, NoAppType, BoundsAssumption DEF NoProc, Procs, Gens
  <2>2. TablesOK' /\ HoldersOK'
    BY <1>2, <2>1 DEF Restart, TypeOK, TablesOK, HoldersOK
  <2>3. TasksOK'
    BY <1>2, <2>1 DEF Restart, TasksOK, Tasks, Labels, TickLabels, ParkLabels, WakeLabels,
       DeployLabels
  <2>4. PassOK' /\ SpentOK'
    <3>1. PassOK'
      BY <1>2, <2>1 DEF Restart, PassOK, LifeSteps
    <3>2. SpentOK'
      BY <1>2 DEF Restart, TypeOK, SpentOK, spent
    <3> QED BY <3>1, <3>2
  <2> QED BY <2>2, <2>3, <2>4 DEF TypeOK
<1> QED BY <1>1, <1>2 DEF FleetAny

-----------------------------------------------------------------------------
(* What the background tasks may do to the rows: everything but the         *)
(* owner's own operations.                                                 *)

\* A row keeps its existence, its generation and the owner's order, and a
\* stopped one takes no status but `stopped` or a park's `sleeping`.
Kept(q, r) ==
    /\ q.exists = r.exists /\ q.gen = r.gen /\ q.desired = r.desired
    /\ IsStopped(r) => q.status \in {r.status, "stopped", "sleeping"}

RowsKept == \A a \in Apps : Kept(row'[a], row[a])

\* No row goes to sleep.
NoneParked == \A a \in Apps : row'[a].asleep => row[a].asleep

\* A write of a row kept in this sense keeps them all.
LEMMA WriteKeeps ==
  ASSUME TypeOK, NEW a \in Apps, NEW g, NEW r, Kept(r, row[a]), Write(a, g, r)
  PROVE  RowsKept /\ ((r.asleep => row[a].asleep) => NoneParked)
  BY DEF TypeOK, TablesOK, Write, RowsKept, Kept, NoneParked

\* set_app_asleep keeps the row otherwise.
LEMMA ParkWriteKeeps ==
  ASSUME TypeOK, NEW a \in Apps, NEW g, SetAppAsleep(a, g)
  PROVE  RowsKept
<1> DEFINE r == [row[a] EXCEPT !.asleep = TRUE, !.status = "sleeping"]
<1>1. Kept(r, row[a])
  BY DEF TypeOK, TablesOK, Rows, Kept
<1> QED BY <1>1, WriteKeeps DEF SetAppAsleep

\* The others keep the row and do not put it to sleep.
LEMMA WritesKeep ==
  ASSUME TypeOK, NEW a \in Apps, NEW g, NEW s,
         \/ SetAppAwake(a, g) \/ UpdateAppStatus(a, g, "stopped")
         \/ UpdateIfWanted(a, g, s) \/ MarkDeployLive(a, g)
  PROVE  RowsKept /\ NoneParked
<1>1. row[a] \in Rows
  BY DEF TypeOK, TablesOK
<1>2. Kept(row[a], row[a])
  BY DEF Kept
<1>3. CASE SetAppAwake(a, g)
  <2> DEFINE r == [row[a] EXCEPT !.asleep = FALSE]
  <2>1. Kept(r, row[a]) /\ ~r.asleep
    BY <1>1 DEF Rows, Kept
  <2> QED BY <1>3, <2>1, WriteKeeps DEF SetAppAwake
<1>4. CASE UpdateAppStatus(a, g, "stopped")
  <2> DEFINE r == [row[a] EXCEPT !.status = "stopped"]
  <2>1. Kept(r, row[a]) /\ r.asleep = row[a].asleep
    BY <1>1 DEF Rows, Kept
  <2> QED BY <1>4, <2>1, WriteKeeps DEF UpdateAppStatus
<1>5. CASE UpdateIfWanted(a, g, s)
  <2> DEFINE r == [row[a] EXCEPT !.status = s]
  <2>1. ~IsStopped(row[a]) => Kept(r, row[a]) /\ r.asleep = row[a].asleep
    BY <1>1 DEF Rows, Kept
  <2>2. IF IsStopped(row[a]) THEN Write(a, g, row[a]) ELSE Write(a, g, r)
    BY <1>5 DEF UpdateIfWanted
  <2> HIDE DEF r
  <2> QED BY <1>2, <2>1, <2>2, WriteKeeps
<1>6. CASE MarkDeployLive(a, g)
  <2> DEFINE r == [row[a] EXCEPT !.sha = TRUE]
             q == [row[a] EXCEPT !.sha = TRUE, !.status = "running"]
  <2>1. /\ Kept(r, row[a]) /\ r.asleep = row[a].asleep
        /\ ~IsStopped(row[a]) => Kept(q, row[a]) /\ q.asleep = row[a].asleep
    BY <1>1 DEF Rows, Kept
  <2>2. IF IsStopped(row[a]) THEN Write(a, g, r) ELSE Write(a, g, q)
    BY <1>6 DEF MarkDeployLive
  <2> HIDE DEF r, q
  <2> QED BY <2>1, <2>2, WriteKeeps
<1> QED BY <1>3, <1>4, <1>5, <1>6

\* A step that leaves the table alone.
LEMMA SameRowsKeep == UNCHANGED row => RowsKept /\ NoneParked
  BY DEF RowsKept, Kept, NoneParked

\* ensure_spawned touches neither rows nor the owner's operations.
LEMMA EnsureKeeps == ASSUME NEW t, EnsureSpawned(t) PROVE UNCHANGED <<row, life>>
  BY DEF EnsureSpawned, EnsureSettled, EnsureReap, EnsureNoteCrash, EnsureCold, EnsureSpawn,
         EnsureUnchanged

\* The reconcile tick writes rows only in ways that keep them.
LEMMA TickKeeps == TypeOK /\ TickStep => RowsKept /\ NoneParked /\ UNCHANGED life
<1> SUFFICES ASSUME TypeOK, TickStep PROVE RowsKept /\ NoneParked /\ UNCHANGED life
  OBVIOUS
<1>0. app[Tick] \in Apps
  BY IdType DEF Tasks
<1>1. CASE TickStopped \/ TickRefused
  BY <1>0, <1>1, WritesKeep, SameRowsKeep DEF TickStopped, TickRefused, TickFrame
<1>2. CASE TickList \/ TickEnsured \/ TickRoutes \/ TickDone
  BY <1>2, SameRowsKeep DEF TickList, TickEnsured, TickRoutes, TickDone, TickFrame
<1>3. CASE \E a \in Apps : TickStop(a) \/ TickEnsure(a) \/ TickSkip(a) \/ TickOrphan(a)
  BY <1>3, SameRowsKeep DEF TickStop, TickEnsure, TickSkip, TickOrphan, TickFrame
<1>4. CASE EnsureSpawned(Tick)
  BY <1>4, EnsureKeeps, SameRowsKeep
<1> QED BY <1>1, <1>2, <1>3, <1>4 DEF TickStep

\* So does a park, which alone puts a row to sleep.
LEMMA ParkKeeps == TypeOK /\ ParkAny => RowsKept /\ UNCHANGED life
<1> SUFFICES ASSUME TypeOK, NEW p \in Parkers, ParkStep(p) \/ \E a \in Apps : ParkLock(p, a)
             PROVE  RowsKept /\ UNCHANGED life
  BY DEF ParkAny
<1>0. app[p] \in Apps
  BY IdType DEF Tasks
<1>1. CASE ParkMark(p)
  BY <1>0, <1>1, ParkWriteKeeps DEF ParkMark, ParkFrame
<1>2. CASE \E a \in Apps : ParkLock(p, a)
  BY <1>2, SameRowsKeep DEF ParkLock, ParkFrame
<1>3. CASE ParkPush(p) \/ ParkStop(p) \/ ParkDone(p)
  BY <1>3, SameRowsKeep DEF ParkPush, ParkStop, ParkDone, ParkFrame
<1> QED BY <1>1, <1>2, <1>3 DEF ParkStep

\* So does a wake.
LEMMA WakeKeeps == TypeOK /\ WakeAny => RowsKept /\ NoneParked /\ UNCHANGED life
<1> SUFFICES ASSUME TypeOK, NEW w \in Wakers,
                    WakeStep(w) \/ WakeLock(w) \/ WakeCancel(w) \/ \E a \in Apps : WakeArrive(w, a)
             PROVE  RowsKept /\ NoneParked /\ UNCHANGED life
  BY DEF WakeAny
<1>0. app[w] \in Apps
  BY IdType DEF Tasks
<1>1. CASE WakeClear(w) \/ WakeFlip(w)
  BY <1>0, <1>1, WritesKeep, SameRowsKeep DEF WakeClear, WakeFlip, WakeFrame
<1>2. CASE \E a \in Apps : WakeArrive(w, a)
  BY <1>2, SameRowsKeep DEF WakeArrive, WakeFrame
<1>3. CASE WakeLock(w) \/ WakeCancel(w) \/ WakeSlot(w) \/ WakeLoad(w) \/ WakeGate(w)
           \/ WakeRefused(w) \/ WakeRoute(w)
  BY <1>3, SameRowsKeep DEF WakeLock, WakeCancel, WakeSlot, WakeLoad, WakeGate, WakeRefused, WakeRoute,
     WakeFrame
<1>4. CASE EnsureSpawned(w)
  BY <1>4, EnsureKeeps, SameRowsKeep
<1> QED BY <1>1, <1>2, <1>3, <1>4 DEF WakeStep

\* So does a confirm.
LEMMA ConfirmKeeps == TypeOK /\ ConfirmStep => RowsKept /\ NoneParked /\ UNCHANGED life
<1> SUFFICES ASSUME TypeOK, NEW c \in Ids, ConfirmGate(c) \/ ConfirmFlip(c)
             PROVE  RowsKept /\ NoneParked /\ UNCHANGED life
  BY DEF ConfirmStep
<1>1. c[1] \in Apps
  BY DEF Ids
<1> QED BY <1>1, WritesKeep, SameRowsKeep DEF ConfirmGate, ConfirmFlip, ConfirmFrame

\* So does a deploy.
LEMMA DeployKeeps == TypeOK /\ DeployAny => RowsKept /\ NoneParked /\ UNCHANGED life
<1> SUFFICES ASSUME TypeOK, NEW d \in Deployers,
                    DeployStep(d) \/ \E a \in Apps : DeployQueue(d, a)
             PROVE  RowsKept /\ NoneParked /\ UNCHANGED life
  BY DEF DeployAny
<1>0. app[d] \in Apps
  BY IdType DEF Tasks
<1>1. CASE DeployWake(d) \/ DeployBuild(d) \/ DeployActivate(d)
  BY <1>0, <1>1, WritesKeep, SameRowsKeep DEF DeployWake, DeployBuild, DeployActivate, DeployFail, DeployFrame
<1>2. CASE DeployGate(d) \/ DeployRefused(d) \/ DeployRoute(d)
  BY <1>0, <1>2, WritesKeep, SameRowsKeep DEF DeployGate, DeployRefused, DeployRoute, DeployFail, DeployFrame
<1>3. CASE DeployLive(d) \/ DeployDone(d) \/ DeployClaim(d)
  BY <1>0, <1>3, WritesKeep, SameRowsKeep DEF DeployLive, DeployDone, DeployClaim, DeployFrame
<1>4. CASE \E a \in Apps : DeployQueue(d, a)
  BY <1>4, SameRowsKeep DEF DeployQueue, DeployFrame
<1>5. CASE EnsureSpawned(d)
  BY <1>5, EnsureKeeps, SameRowsKeep
<1> QED BY <1>1, <1>2, <1>3, <1>4, <1>5 DEF DeployStep

\* The owner's operations keep to the order of a delete and of a create.
LEMMA LifeKeeps == TypeOK /\ LifeInv /\ (LifeAny \/ PushPending) => LifeInv'
<1> SUFFICES ASSUME TypeOK, LifeInv, LifeAny \/ PushPending PROVE LifeInv'
  OBVIOUS
<1>0. row \in [Apps -> Rows] /\ life \in [Apps -> LifeSteps]
  BY DEF TypeOK, TablesOK, PassOK
<1>1. CASE PushPending
  BY <1>1 DEF PushPending, LifeInv
<1>2. ASSUME NEW a \in Apps, NEW d \in {"running", "stopped"}, OwnerPatch(a, d) PROVE LifeInv'
  BY <1>0, <1>2 DEF OwnerPatch, PatchDesired, LifeInv, Rows
<1>3. ASSUME NEW a \in Apps, DeleteStart(a) \/ DeletePurge(a) \/ DeleteLast(a) \/ CreateStart(a)
      PROVE  LifeInv'
  BY <1>0, <1>3 DEF DeleteStart, DeletePurge, DeleteLast, CreateStart, LifeInv
<1>4. ASSUME NEW a \in Apps, DeleteClaim(a) PROVE LifeInv'
  <2>1. RowsKept
    BY <1>4, WritesKeep, SameRowsKeep DEF DeleteClaim
  <2> QED BY <1>0, <1>4, <2>1 DEF DeleteClaim, RowsKept, Kept, LifeInv
<1>5. ASSUME NEW a \in Apps, DeleteWipe(a) PROVE LifeInv'
  <2>1. RowsKept
    BY <1>5, WritesKeep, SameRowsKeep DEF DeleteWipe
  <2> QED BY <1>0, <1>5, <2>1 DEF DeleteWipe, RowsKept, Kept, LifeInv
<1>6. ASSUME NEW a \in Apps, DeleteMark(a) PROVE LifeInv'
  BY <1>0, <1>6 DEF DeleteMark, PatchDesired, LifeInv, Rows
<1>7. ASSUME NEW a \in Apps, DeleteRow(a) \/ CreateInsert(a) PROVE LifeInv'
  BY <1>0, <1>7 DEF DeleteRow, CreateInsert, NoRow, FreshRow, LifeInv
<1>8. ASSUME NEW a \in Apps, CreateWipe(a) PROVE LifeInv'
  BY <1>0, <1>8 DEF CreateWipe, LifeInv
<1> QED BY <1>1, <1>2, <1>3, <1>4, <1>5, <1>6, <1>7, <1>8 DEF LifeAny, LifeStep

\* LifeInv through any step.
LEMMA LifeInvStep == TypeOK /\ LifeInv /\ [Next]_vars => LifeInv'
<1> SUFFICES ASSUME TypeOK, LifeInv, [Next]_vars PROVE LifeInv'
  OBVIOUS
<1>1. CASE TickStep \/ ParkAny \/ WakeAny \/ ConfirmStep \/ DeployAny
  <2>1. RowsKept /\ UNCHANGED life
    BY <1>1, TickKeeps, ParkKeeps, WakeKeeps, ConfirmKeeps, DeployKeeps
  <2> QED BY <2>1 DEF RowsKept, Kept, LifeInv
<1>2. CASE LifeAny \/ PushPending
  BY <1>2, LifeKeeps
<1>3. CASE FleetAny
  BY <1>3 DEF FleetAny, FleetBoot, FleetCrash, HoldElapses, FleetFrame, LifeInv
<1>4. CASE Restart
  BY <1>4 DEF Restart, LifeInv
<1>5. CASE UNCHANGED vars
  BY <1>5 DEF vars, LifeInv
<1> QED BY <1>1, <1>2, <1>3, <1>4, <1>5 DEF Next

\* The initial states.
LEMMA InitType == Init => TypeOK /\ LifeInv
<1> SUFFICES ASSUME Init PROVE TypeOK /\ LifeInv
  OBVIOUS
<1>1. 0 \in Gens /\ 1 \in Gens
  BY BoundsAssumption DEF Gens
<1>2. /\ NoRow(0) \in Rows /\ FreshRow(1) \in Rows /\ RunningRow \in Rows /\ AsleepRow \in Rows
      /\ NoView \in Views /\ NoProc \in Procs /\ NoApp \in Apps
  BY <1>1, NewRows, NoAppType DEF NoProc, Procs
<1>3. row \in [Apps -> Rows]
  BY <1>2 DEF Init
<1>4. edge \in [Apps -> Routes]
  BY DEF Init, RouteOf, Routes
<1>5. released \in [Apps -> BOOLEAN]
  BY <1>3 DEF Init, Rows
<1>6. TablesOK
  BY <1>2, <1>3, <1>4, <1>5 DEF Init, TablesOK
<1>7. HoldersOK
  BY DEF Init, HoldersOK
<1>8. TasksOK
  BY <1>2 DEF Init, TasksOK, Tasks, Labels, TickLabels, ParkLabels, WakeLabels, DeployLabels
<1>9. PassOK
  BY <1>2 DEF Init, PassOK, LifeSteps
<1>10. SpentOK
  BY DEF Init, SpentOK
<1>11. LifeInv
  BY DEF Init, LifeInv
<1> QED BY <1>6, <1>7, <1>8, <1>9, <1>10, <1>11 DEF TypeOK

\* TypeOK through any step.
LEMMA TypeStep == TypeOK /\ LifeInv /\ [Next]_vars => TypeOK'
<1> SUFFICES ASSUME TypeOK, LifeInv, [Next]_vars PROVE TypeOK'
  OBVIOUS
<1>1. CASE TickStep \/ ConfirmStep
  BY <1>1, TickType, ConfirmType
<1>2. CASE ParkAny
  BY <1>2, ParkType DEF ParkAny
<1>3. CASE WakeAny
  BY <1>3, WakeType DEF WakeAny
<1>4. CASE DeployAny
  BY <1>4, DeployType DEF DeployAny
<1>5. CASE LifeAny \/ PushPending
  BY <1>5, LifeType
<1>6. CASE FleetAny \/ Restart
  BY <1>6, FleetType
<1>7. CASE UNCHANGED vars
  BY <1>7 DEF vars, TypeOK, TablesOK, HoldersOK, TasksOK, PassOK, SpentOK
<1> QED BY <1>1, <1>2, <1>3, <1>4, <1>5, <1>6, <1>7 DEF Next

\* Rows, routes, processes, locks, claims and every task's place keep their
\* types in every reachable state: in particular a slug is never created past
\* the generation its delete and create handlers allow.
THEOREM TypeCorrect == Spec => [](TypeOK /\ LifeInv)
<1>1. TypeOK /\ LifeInv /\ [Next]_vars => (TypeOK /\ LifeInv)'
  BY TypeStep, LifeInvStep
<1> QED BY <1>1, InitType, PTL DEF Spec
-----------------------------------------------------------------------------
(***************************************************************************)
(* The inductive invariant.  Each part says who holds what:                *)
(*   LockInv    the lock of an app id is held by exactly the park or wake  *)
(*              that is in a transition of it;                             *)
(*   SlotInv    a wake between its permit and its route holds a permit;    *)
(*   ClaimInv   the claim of an app id is held by exactly the deploy that  *)
(*              works on it, or by the delete that is past its claim;      *)
(*   PrefixInv  a bucket is empty once the delete wiped it.                *)
(***************************************************************************)
LockInv ==
    /\ \A i \in Ids : lock[i] # Nobody => InTransition(lock[i]) /\ Id(lock[i]) = i
    /\ \A t \in Parkers \cup Wakers : InTransition(t) => lock[Id(t)] = t

SlotInv ==
    /\ \A w \in slotted : InTransition(w)
    /\ \A w \in Wakers : pc[w] \in {"clear", "route"} => w \in slotted
    /\ Cardinality(slotted) <= WakeConcurrency

ClaimInv ==
    /\ \A i \in Ids : claim[i] \in Deployers => InDeploy(claim[i]) /\ Id(claim[i]) = i
    /\ \A d \in Deployers : InDeploy(d) => claim[Id(d)] = d
    /\ \A a \in Apps : life[a] \in {"mark", "purge", "wipe", "row", "last"}
                         => claim[<<a, row[a].gen>>] = Deleter

PrefixInv == \A a \in Apps : life[a] = "row" \/ ~row[a].exists => ~released[a]

IInv ==
    /\ TypeOK /\ LifeInv /\ LockInv /\ SlotInv /\ ClaimInv /\ PrefixInv
    /\ DeployerRowLive /\ WokenStaysAwake /\ ParkedBehindWakeRoute

-----------------------------------------------------------------------------
(* What a step of each actor does, as far as the invariant is concerned.   *)

\* No task but t moves.
Others(t) ==
    \A u \in Tasks \ {t} : pc'[u] = pc[u] /\ app'[u] = app[u] /\ view'[u] = view[u]

\* The edge keeps its table, or takes the one the rows make.
PushOrNot == UNCHANGED edge \/ (UNCHANGED row /\ edge' = [a \in Apps |-> RouteOf(row[a])])

\* A park or wake takes a free lock, keeps what it has, or lets go.
LockEffect(t) ==
    \/ /\ InTransition(t)' /\ Id(t)' \in Ids
       /\ lock[Id(t)'] = Nobody /\ lock' = [lock EXCEPT ![Id(t)'] = t]
       /\ ~InTransition(t)
    \/ UNCHANGED lock /\ Id(t)' = Id(t) /\ (InTransition(t)' <=> InTransition(t))
    \/ UNCHANGED lock /\ ~InTransition(t) /\ ~InTransition(t)'
    \/ Release(t) /\ ~InTransition(t)'

\* A deploy takes a free claim, keeps it, or lets go.
ClaimEffect(d) ==
    \/ /\ ~InDeploy(d) /\ InDeploy(d)' /\ Id(d)' = Id(d)
       /\ claim[Id(d)] = Nobody /\ claim' = [claim EXCEPT ![Id(d)] = d]
    \/ UNCHANGED claim /\ Id(d)' = Id(d) /\ (InDeploy(d)' <=> InDeploy(d))
    \/ UNCHANGED claim /\ ~InDeploy(d) /\ ~InDeploy(d)'
    \/ InDeploy(d) /\ ~InDeploy(d)' /\ claim' = [claim EXCEPT ![Id(d)] = Nobody]

\* Each way a task moves leaves the others where they are.
LEMMA MoveOthers ==
  ASSUME TypeOK, NEW t \in Tasks, NEW a, NEW l,
         (Goto(t, l) /\ UNCHANGED <<app, view>>) \/ Take(t, a, l) \/ Leave(t, l)
  PROVE  Others(t)
  BY DEF TypeOK, TasksOK, Goto, Take, Leave, Others

\* Where a task is after it moved.
LEMMA MoveTo ==
  ASSUME TypeOK, NEW t \in Tasks, NEW a, NEW l
  PROVE  /\ Goto(t, l) => pc'[t] = l
         /\ Take(t, a, l) => pc'[t] = l /\ app'[t] = a /\ view'[t].gen = row[a].gen
         /\ Leave(t, l) => pc'[t] = l
  BY DEF TypeOK, TasksOK, Goto, Take, Leave, Seen

\* ensure_spawned moves its caller among its own labels.
LEMMA EnsureActs ==
  ASSUME TypeOK, NEW t \in Tasks, EnsureSpawned(t)
  PROVE  /\ Others(t) /\ UNCHANGED <<row, edge, released, lock, slotted, claim, life, app, view>>
         /\ pc[t] \in EnsureLabels /\ pc'[t] \in EnsureLabels
  BY DEF EnsureSpawned, EnsureSettled, EnsureReap, EnsureNoteCrash, EnsureCold, EnsureSpawn,
         EnsureUnchanged, EnsureLabels, TypeOK, TasksOK, Goto, Others

\* The tick takes no lock, permit or claim.
LEMMA TickActs ==
  ASSUME TypeOK, TickStep
  PROVE  Others(Tick) /\ PushOrNot /\ UNCHANGED <<lock, slotted, claim, released>>
<1>0. Tick \in Tasks
  BY DEF Tasks
<1> USE DEF TickFrame
<1>1. CASE TickList \/ TickDone \/ TickRoutes
  BY <1>0, <1>1, MoveOthers DEF TickList, TickDone, TickRoutes, PushAccepted, PushLost, PushOrNot
<1>2. CASE TickStopped \/ TickRefused \/ TickEnsured
  BY <1>0, <1>2, MoveOthers DEF TickStopped, TickRefused, TickEnsured, PushOrNot
<1>3. CASE \E a \in Apps : TickStop(a) \/ TickEnsure(a) \/ TickSkip(a) \/ TickOrphan(a)
  BY <1>0, <1>3 DEF TickStop, TickEnsure, TickSkip, TickOrphan, PushOrNot, Others, TypeOK,
     TasksOK, Goto
<1>4. CASE EnsureSpawned(Tick)
  BY <1>0, <1>4, EnsureActs DEF PushOrNot
<1> QED BY <1>1, <1>2, <1>3, <1>4 DEF TickStep

\* A park holds its lock from ParkLock until it is idle again.
LEMMA ParkActs ==
  ASSUME TypeOK, NEW p \in Parkers, ParkStep(p) \/ \E a \in Apps : ParkLock(p, a)
  PROVE  /\ Others(p) /\ PushOrNot /\ UNCHANGED <<slotted, claim, released>>
         /\ LockEffect(p)
         /\ NoneParked \/ ParkMark(p)
<1>0. p \in Tasks /\ p \in Parkers \cup Wakers /\ app[p] \in Apps
  BY IdType DEF Tasks
<1> USE DEF ParkFrame
<1>1. CASE \E a \in Apps : ParkLock(p, a)
  <2>1. PICK a \in Apps : ParkLock(p, a)
    BY <1>1
  <2>2. pc'[p] = "mark" /\ app'[p] = a /\ view'[p].gen = row[a].gen /\ Others(p)
    BY <1>0, <2>1, MoveTo, MoveOthers DEF ParkLock
  <2>3. row[a].gen \in Gens
    BY RowFacts DEF TypeOK, TablesOK
  <2>4. LockEffect(p)
    BY <1>0, <2>1, <2>2, <2>3 DEF ParkLock, LockEffect, LockFree, InTransition, Id, Ids
  <2> QED BY <2>1, <2>2, <2>4, SameRowsKeep DEF ParkLock, PushOrNot
<1>2. CASE ParkMark(p)
  <2>1. pc'[p] = "push" /\ Others(p)
    BY <1>0, <1>2, MoveTo, MoveOthers DEF ParkMark
  <2> QED BY <1>0, <1>2, <2>1 DEF ParkMark, LockEffect, InTransition, Id, PushOrNot
<1>3. CASE ParkPush(p)
  <2>1. \/ pc'[p] \in {"stop", "blind"} /\ UNCHANGED <<lock, app, view>>
        \/ pc'[p] = "idle" /\ Release(p)
    <3>1. \/ (Goto(p, "stop") \/ Goto(p, "blind")) /\ UNCHANGED <<lock, app, view>>
          \/ Leave(p, "idle") /\ Release(p)
      BY <1>3 DEF ParkPush
    <3> QED BY <1>0, <3>1, MoveTo
  <2>2. Others(p)
    <3>1. \/ (Goto(p, "stop") \/ Goto(p, "blind")) /\ UNCHANGED <<app, view>>
          \/ Leave(p, "idle")
      BY <1>3 DEF ParkPush
    <3> QED BY <1>0, <3>1, MoveOthers
  <2>3. LockEffect(p)
    BY <1>0, <1>3, <2>1 DEF ParkPush, LockEffect, InTransition, Id
  <2> QED BY <1>3, <2>2, <2>3, SameRowsKeep
           DEF ParkPush, PushAccepted, PushLost, PushOrNot
<1>4. CASE ParkStop(p)
  <2>1. pc'[p] = "drain" /\ Others(p)
    BY <1>0, <1>4, MoveTo, MoveOthers DEF ParkStop
  <2> QED BY <1>0, <1>4, <2>1, SameRowsKeep DEF ParkStop, LockEffect, InTransition, Id, PushOrNot
<1>5. CASE ParkDone(p)
  <2>1. pc'[p] = "idle" /\ Others(p)
    BY <1>0, <1>5, MoveTo, MoveOthers DEF ParkDone
  <2> QED BY <1>0, <1>5, <2>1, SameRowsKeep DEF ParkDone, LockEffect, InTransition, PushOrNot
<1> QED BY <1>1, <1>2, <1>3, <1>4, <1>5 DEF ParkStep

\* A wake holds its lock from WakeLock, and its permit from WakeSlot, until it
\* is idle again, however it ends.
SlotEffect(w) ==
    \/ /\ pc'[w] = "clear" /\ PermitFree /\ slotted' = slotted \cup {w}
       /\ InTransition(w)'
    \/ /\ UNCHANGED slotted /\ (InTransition(w)' <=> InTransition(w))
       /\ pc'[w] # "clear" /\ (pc'[w] = "route" => w \in slotted)
    \/ UNCHANGED slotted /\ ~InTransition(w) /\ pc'[w] \notin {"clear", "route"}
    \/ slotted' = slotted \ {w} /\ pc'[w] = "idle"

\* A wake's own steps.
LEMMA WakeActs ==
  ASSUME TypeOK, NEW w \in Wakers,
         WakeStep(w) \/ WakeLock(w) \/ WakeCancel(w) \/ \E a \in Apps : WakeArrive(w, a)
  PROVE  /\ Others(w) /\ PushOrNot /\ UNCHANGED <<claim, released>>
         /\ LockEffect(w) /\ SlotEffect(w)
<1>0. w \in Tasks /\ w \in Parkers \cup Wakers /\ app[w] \in Apps /\ Id(w) \in Ids
  BY IdType DEF Tasks
<1> USE DEF WakeFrame
<1>a. ASSUME WakeOver(w)
      PROVE  Others(w) /\ LockEffect(w) /\ SlotEffect(w)
  <2>1. Others(w) /\ pc'[w] = "idle"
    BY <1>0, <1>a, MoveTo, MoveOthers DEF WakeOver
  <2> QED BY <1>a, <2>1 DEF WakeOver, LockEffect, SlotEffect, InTransition
<1>1. CASE \E a \in Apps : WakeArrive(w, a)
  <2>1. PICK a \in Apps : WakeArrive(w, a)
    BY <1>1
  <2>2. pc'[w] = "queued" /\ Others(w)
    BY <1>0, <2>1, MoveTo, MoveOthers DEF WakeArrive
  <2> QED BY <2>1, <2>2 DEF WakeArrive, LockEffect, SlotEffect, InTransition, PushOrNot
<1>2. CASE WakeLock(w)
  <2>1. CASE Mine(w) /\ ~IsStopped(row[app[w]])
    <3>1. PICK l \in {"slot", "load"} :
            Take(w, app[w], l) /\ lock' = [lock EXCEPT ![Id(w)] = w]
      BY <1>2, <2>1 DEF WakeLock
    <3>2. pc'[w] = l /\ app'[w] = app[w] /\ view'[w].gen = row[app[w]].gen /\ Others(w)
      BY <1>0, <3>1, MoveTo, MoveOthers
    <3>3. Id(w)' = Id(w)
      BY <2>1, <3>2 DEF Mine, Live, Id
    <3>4. LockEffect(w)
      BY <1>0, <1>2, <3>1, <3>2, <3>3 DEF WakeLock, LockFree, LockEffect, InTransition
    <3> QED BY <1>2, <3>2, <3>4 DEF WakeLock, SlotEffect, InTransition, PushOrNot
  <2>2. CASE ~(Mine(w) /\ ~IsStopped(row[app[w]]))
    <3>1. Leave(w, "idle") /\ UNCHANGED lock
      BY <1>2, <2>2 DEF WakeLock
    <3>2. pc'[w] = "idle" /\ Others(w)
      BY <1>0, <3>1, MoveTo, MoveOthers
    <3> QED BY <1>2, <3>1, <3>2 DEF WakeLock, LockEffect, SlotEffect, InTransition, PushOrNot
  <2> QED BY <2>1, <2>2
<1>3. CASE WakeSlot(w)
  <2>1. CASE PermitFree
    <3>1. pc'[w] = "clear" /\ Others(w)
      BY <1>0, <1>3, <2>1, MoveTo, MoveOthers DEF WakeSlot
    <3> QED BY <1>0, <1>3, <2>1, <3>1 DEF WakeSlot, LockEffect, SlotEffect, InTransition, Id,
                 PushOrNot
  <2> QED BY <1>3, <1>a, <2>1 DEF WakeSlot, PushOrNot
<1>4. CASE WakeClear(w)
  <2>1. pc'[w] = "load" /\ Others(w)
    BY <1>0, <1>4, MoveTo, MoveOthers DEF WakeClear
  <2> QED BY <1>0, <1>4, <2>1 DEF WakeClear, LockEffect, SlotEffect, InTransition, Id, PushOrNot
<1>5. CASE WakeLoad(w)
  <2>1. pc'[w] = "ensure"
    BY <1>0, <1>5, MoveTo DEF WakeLoad
  <2>2. Others(w)
    BY <1>0, <1>5 DEF WakeLoad, Others, Goto, TypeOK, TasksOK
  <2>3. view'[w].gen = view[w].gen
    BY <1>0, <1>5 DEF WakeLoad, Mine, Live, Seen, TypeOK, TasksOK
  <2> QED BY <1>0, <1>5, <2>1, <2>2, <2>3 DEF WakeLoad, LockEffect, SlotEffect, InTransition, Id,
               PushOrNot
<1>6. CASE WakeGate(w)
  <2>1. CASE Healthy(app[w])
    <3>1. pc'[w] = "flip" /\ Others(w)
      BY <1>0, <1>6, <2>1, MoveTo, MoveOthers DEF WakeGate
    <3> QED BY <1>0, <1>6, <2>1, <3>1 DEF WakeGate, LockEffect, SlotEffect, InTransition, Id,
                 PushOrNot
  <2> QED BY <1>6, <1>a, <2>1 DEF WakeGate, PushOrNot
<1>7. CASE WakeFlip(w)
  <2>1. CASE w \in slotted
    <3>1. pc'[w] = "route" /\ Others(w)
      BY <1>0, <1>7, <2>1, MoveTo, MoveOthers DEF WakeFlip
    <3> QED BY <1>0, <1>7, <2>1, <3>1 DEF WakeFlip, LockEffect, SlotEffect, InTransition, Id,
                 PushOrNot
  <2> QED BY <1>7, <1>a, <2>1 DEF WakeFlip, PushOrNot
<1>8. CASE WakeRefused(w) \/ WakeRoute(w) \/ WakeCancel(w)
  BY <1>8, <1>a DEF WakeRefused, WakeRoute, WakeCancel, PushAccepted, PushLost, PushOrNot
<1>9. CASE EnsureSpawned(w)
  <2>1. /\ Others(w) /\ UNCHANGED <<row, edge, released, lock, slotted, claim, life, app, view>>
        /\ pc[w] \in EnsureLabels /\ pc'[w] \in EnsureLabels
    BY <1>0, <1>9, EnsureActs
  <2> QED BY <1>0, <2>1 DEF EnsureLabels, LockEffect, SlotEffect, InTransition, Id, PushOrNot
<1> QED BY <1>1, <1>2, <1>3, <1>4, <1>5, <1>6, <1>7, <1>8, <1>9 DEF WakeStep

\* A deploy holds its claim from DeployClaim until it is idle again, and
\* publishes only when it activates.
LEMMA DeployActs ==
  ASSUME TypeOK, NEW d \in Deployers, DeployStep(d) \/ \E a \in Apps : DeployQueue(d, a)
  PROVE  /\ Others(d) /\ PushOrNot /\ UNCHANGED <<lock, slotted>>
         /\ ClaimEffect(d)
         /\ UNCHANGED released \/ (pc[d] = "activate" /\ released' = [released EXCEPT ![app[d]] = TRUE])
         /\ InDeploy(d)' /\ pc'[d] \notin {"wake", "build"}
              => /\ InDeploy(d) /\ Id(d)' = Id(d)
                 /\ pc[d] = "build" => Mine(d)
                 /\ pc[d] # "wake"
<1>0. d \in Tasks /\ app[d] \in Apps /\ Id(d) \in Ids
  BY IdType DEF Tasks
<1> USE DEF DeployFrame, InDeploy
<1>a. ASSUME DeployOver(d) PROVE Others(d) /\ pc'[d] = "idle"
  BY <1>0, <1>a, MoveTo, MoveOthers DEF DeployOver
<1>b. ASSUME DeployOver(d), InDeploy(d) PROVE ClaimEffect(d)
  BY <1>a, <1>b DEF DeployOver, ClaimEffect
<1>c. ASSUME NEW l, Goto(d, l), UNCHANGED <<app, view>>
      PROVE  Others(d) /\ pc'[d] = l /\ Id(d)' = Id(d)
  BY <1>0, <1>c, MoveTo, MoveOthers DEF Id
<1>1. CASE \E a \in Apps : DeployQueue(d, a)
  <2>1. PICK a \in Apps : DeployQueue(d, a)
    BY <1>1
  <2>2. pc'[d] = "queued" /\ Others(d)
    BY <1>0, <2>1, MoveTo, MoveOthers DEF DeployQueue
  <2> QED BY <2>1, <2>2 DEF DeployQueue, ClaimEffect, PushOrNot
<1>2. CASE DeployClaim(d)
  <2>1. CASE ClaimFree(Id(d))
    <3>1. Others(d) /\ pc'[d] = "wake" /\ Id(d)' = Id(d)
      BY <1>2, <2>1, <1>c DEF DeployClaim
    <3> QED BY <1>2, <2>1, <3>1 DEF DeployClaim, ClaimFree, ClaimEffect, PushOrNot
  <2>2. CASE ~ClaimFree(Id(d))
    <3>1. Others(d) /\ pc'[d] = "idle"
      BY <1>0, <1>2, <2>2, MoveTo, MoveOthers DEF DeployClaim
    <3> QED BY <1>2, <2>2, <3>1 DEF DeployClaim, ClaimEffect, PushOrNot
  <2> QED BY <2>1, <2>2
<1>3. CASE DeployWake(d)
  <2>1. Others(d) /\ pc'[d] = "build" /\ Id(d)' = Id(d)
    BY <1>3, <1>c DEF DeployWake
  <2> QED BY <1>3, <2>1 DEF DeployWake, ClaimEffect, PushOrNot
<1>4. CASE DeployBuild(d)
  <2>1. CASE Mine(d) /\ Goto(d, "activate") /\ UNCHANGED <<claim, app, view>>
    <3>1. Others(d) /\ pc'[d] = "activate" /\ Id(d)' = Id(d)
      BY <2>1, <1>c
    <3> QED BY <1>4, <2>1, <3>1 DEF DeployBuild, ClaimEffect, PushOrNot
  <2>2. CASE DeployFail(d)
    BY <1>4, <2>2, <1>a, <1>b DEF DeployBuild, DeployFail, PushOrNot
  <2> QED BY <1>4, <2>1, <2>2 DEF DeployBuild
<1>5. CASE DeployActivate(d)
  <2>1. CASE Goto(d, "ensure") /\ UNCHANGED <<claim, app, view>>
    <3>1. Others(d) /\ pc'[d] = "ensure" /\ Id(d)' = Id(d)
      BY <2>1, <1>c
    <3> QED BY <1>5, <2>1, <3>1 DEF DeployActivate, ClaimEffect, PushOrNot
  <2>2. CASE DeployFail(d)
    BY <1>5, <2>2, <1>a, <1>b DEF DeployActivate, DeployFail, PushOrNot
  <2> QED BY <1>5, <2>1, <2>2 DEF DeployActivate
<1>6. CASE DeployGate(d)
  <2>1. CASE Goto(d, "live") /\ UNCHANGED <<claim, app, view>>
    <3>1. Others(d) /\ pc'[d] = "live" /\ Id(d)' = Id(d)
      BY <2>1, <1>c
    <3> QED BY <1>6, <2>1, <3>1 DEF DeployGate, ClaimEffect, PushOrNot
  <2>2. CASE DeployFail(d)
    BY <1>6, <2>2, <1>a, <1>b DEF DeployGate, DeployFail, PushOrNot
  <2> QED BY <1>6, <2>1, <2>2 DEF DeployGate
<1>7. CASE DeployRefused(d) \/ DeployDone(d)
  BY <1>7, <1>a, <1>b DEF DeployRefused, DeployDone, DeployFail, PushOrNot
<1>8. CASE DeployLive(d)
  <2>1. Others(d) /\ pc'[d] = "route" /\ Id(d)' = Id(d)
    BY <1>8, <1>c DEF DeployLive
  <2> QED BY <1>8, <2>1 DEF DeployLive, ClaimEffect, PushOrNot
<1>9. CASE DeployRoute(d)
  <2>1. CASE (PushAccepted \/ PushLost) /\ Goto(d, "done") /\ UNCHANGED <<row, claim, app, view>>
    <3>1. Others(d) /\ pc'[d] = "done" /\ Id(d)' = Id(d)
      BY <2>1, <1>c
    <3> QED BY <1>9, <2>1, <3>1 DEF DeployRoute, ClaimEffect, PushAccepted, PushLost, PushOrNot
  <2>2. CASE PushLost /\ DeployFail(d)
    BY <1>9, <2>2, <1>a, <1>b DEF DeployRoute, DeployFail, PushLost, PushOrNot
  <2> QED BY <1>9, <2>1, <2>2 DEF DeployRoute
<1>10. CASE EnsureSpawned(d)
  <2>1. /\ Others(d) /\ UNCHANGED <<row, edge, released, lock, slotted, claim, life, app, view>>
        /\ pc[d] \in EnsureLabels /\ pc'[d] \in EnsureLabels
    BY <1>0, <1>10, EnsureActs
  <2> QED BY <1>0, <2>1 DEF EnsureLabels, ClaimEffect, Id, PushOrNot
<1> QED BY <1>1, <1>2, <1>3, <1>4, <1>5, <1>6, <1>7, <1>8, <1>9, <1>10 DEF DeployStep

\* Confirms, the owner's operations and celld move no task and take no lock.
Still == UNCHANGED <<pc, app, view, lock, slotted>>

\* Confirms.
LEMMA ConfirmActs == ConfirmStep => Still /\ UNCHANGED <<edge, claim, released>>
  BY DEF ConfirmStep, ConfirmGate, ConfirmFlip, ConfirmFrame, Still

\* The owner.
LEMMA LifeActs == LifeAny \/ PushPending => Still /\ PushOrNot
<1>1. PushPending => Still /\ PushOrNot
  BY DEF PushPending, LifeFrame, Still, PushAccepted, PushLost, PushOrNot
<1>2. ASSUME NEW a \in Apps,
             DeleteClaim(a) \/ DeleteMark(a) \/ DeletePurge(a) \/ DeleteWipe(a)
             \/ DeleteRow(a) \/ DeleteLast(a)
      PROVE  Still /\ UNCHANGED edge
  BY <1>2 DEF DeleteClaim, DeleteMark, DeletePurge, DeleteWipe, DeleteRow, DeleteLast, LifeFrame,
     Still
<1>3. ASSUME NEW a \in Apps, DeleteStart(a) \/ CreateStart(a) \/ CreateWipe(a) \/ CreateInsert(a)
      PROVE  Still /\ UNCHANGED edge
  BY <1>3 DEF DeleteStart, CreateStart, CreateWipe, CreateInsert, LifeFrame, Still
<1>4. ASSUME NEW a \in Apps, NEW d \in {"running", "stopped"}, OwnerPatch(a, d)
      PROVE  Still /\ UNCHANGED edge
  BY <1>4 DEF OwnerPatch, LifeFrame, Still
<1> QED BY <1>1, <1>2, <1>3, <1>4 DEF LifeAny, LifeStep, PushOrNot

\* celld.
LEMMA FleetActs == FleetAny => Still /\ UNCHANGED <<row, edge, claim, released, life>>
  BY DEF FleetAny, FleetBoot, FleetCrash, HoldElapses, FleetFrame, Still

-----------------------------------------------------------------------------
(* The parts of the invariant, each through any step.                      *)

\* Parks and wakes stay where they are, and so do locks.
LEMMA LockFrame ==
  ASSUME LockInv, UNCHANGED lock,
         \A u \in Parkers \cup Wakers : pc'[u] = pc[u] /\ app'[u] = app[u] /\ view'[u] = view[u]
  PROVE  LockInv'
  BY DEF LockInv, InTransition, Id

\* A park or wake moves its own lock only.
LEMMA LockMove ==
  ASSUME TypeOK, LockInv, NEW t \in Parkers \cup Wakers, Others(t), LockEffect(t)
  PROVE  LockInv'
<1>0. t # Nobody /\ Nobody \notin Parkers \cup Wakers /\ t \in Tasks
      /\ Parkers \cup Wakers \subseteq Tasks
  BY TasksDistinct DEF Tasks
<1> DEFINE T       == Parkers \cup Wakers
           In(u)   == InTransition(u)
           Inn(u)  == u \in T /\ pc'[u] \notin {"idle", "queued"}
           Idd(u)  == <<app'[u], view'[u].gen>>
<1>1. \A u \in T : u # t => Idd(u) = Id(u) /\ (Inn(u) <=> In(u))
  BY <1>0 DEF Others, InTransition, Id
<1>2. \A u \in T : Id(u) \in Ids
  BY <1>0, IdType
<1>3. lock \in [Ids -> T \cup {Nobody}]
  BY DEF TypeOK, HoldersOK
<1>4. \A i \in Ids : lock[i] # Nobody => lock[i] \in T /\ In(lock[i]) /\ Id(lock[i]) = i
  BY <1>3 DEF LockInv
<1>5. \A u \in T : In(u) => lock[Id(u)] = u
  BY DEF LockInv
<1>6. \/ /\ Inn(t) /\ Idd(t) \in Ids /\ ~In(t)
         /\ lock[Idd(t)] = Nobody /\ lock' = [lock EXCEPT ![Idd(t)] = t]
      \/ lock' = lock /\ Idd(t) = Id(t) /\ (Inn(t) <=> In(t))
      \/ lock' = lock /\ ~In(t) /\ ~Inn(t)
      \/ lock' = [i \in Ids |-> IF lock[i] = t THEN Nobody ELSE lock[i]] /\ ~Inn(t)
  BY DEF LockEffect, Release, InTransition, Id
<1> SUFFICES
      /\ \A i \in Ids : lock'[i] # Nobody => Inn(lock'[i]) /\ Idd(lock'[i]) = i
      /\ \A u \in T : Inn(u) => lock'[Idd(u)] = u
  BY DEF LockInv, InTransition, Id
<1>7. t \in T /\ Nobody \notin T
  BY <1>0
<1> HIDE DEF T, In, Inn, Idd
<1>8. CASE /\ Inn(t) /\ Idd(t) \in Ids /\ ~In(t)
           /\ lock[Idd(t)] = Nobody /\ lock' = [lock EXCEPT ![Idd(t)] = t]
  BY <1>1, <1>2, <1>3, <1>4, <1>5, <1>7, <1>8
<1>9. CASE lock' = lock /\ Idd(t) = Id(t) /\ (Inn(t) <=> In(t))
  BY <1>1, <1>2, <1>3, <1>4, <1>5, <1>7, <1>9
<1>10. CASE lock' = lock /\ ~In(t) /\ ~Inn(t)
  BY <1>1, <1>2, <1>3, <1>4, <1>5, <1>7, <1>10
<1>11. CASE lock' = [i \in Ids |-> IF lock[i] = t THEN Nobody ELSE lock[i]] /\ ~Inn(t)
  BY <1>1, <1>2, <1>3, <1>4, <1>5, <1>7, <1>11
<1> QED BY <1>6, <1>8, <1>9, <1>10, <1>11

\* LockInv through any step.
LEMMA LockInvStep == TypeOK /\ LockInv /\ [Next]_vars => LockInv'
<1> SUFFICES ASSUME TypeOK, LockInv, [Next]_vars PROVE LockInv'
  OBVIOUS
<1>0. \A u \in Parkers \cup Wakers : u \in Tasks /\ u # Tick /\ u \notin Deployers
  BY TasksDistinct DEF Tasks
<1>1. CASE TickStep
  BY <1>0, <1>1, TickActs, LockFrame DEF Others
<1>2. CASE ParkAny
  BY <1>2, ParkActs, LockMove DEF ParkAny
<1>3. CASE WakeAny
  BY <1>3, WakeActs, LockMove DEF WakeAny
<1>4. CASE DeployAny
  BY <1>0, <1>4, DeployActs, LockFrame DEF DeployAny, Others
<1>5. CASE ConfirmStep \/ LifeAny \/ PushPending \/ FleetAny
  BY <1>5, ConfirmActs, LifeActs, FleetActs, LockFrame DEF Still
<1>6. CASE Restart
  <2>1. \A t \in Parkers \cup Wakers : ~InTransition(t)'
    BY <1>0, <1>6 DEF Restart, InTransition
  <2> QED BY <1>6, <2>1 DEF Restart, LockInv
<1>7. CASE UNCHANGED vars
  BY <1>7, LockFrame DEF vars
<1> QED BY <1>1, <1>2, <1>3, <1>4, <1>5, <1>6, <1>7 DEF Next

\* SlotInv through any step.
LEMMA SlotInvStep == TypeOK /\ SlotInv /\ [Next]_vars => SlotInv'
<1> SUFFICES ASSUME TypeOK, SlotInv, [Next]_vars PROVE SlotInv'
  OBVIOUS
<1>0. \A u \in Wakers : u \in Tasks /\ u # Tick /\ u \notin Deployers /\ u \notin Parkers
  BY TasksDistinct DEF Tasks
<1>a. slotted \subseteq Wakers /\ IsFiniteSet(slotted) /\ Cardinality(slotted) \in Nat
  BY WakersFinite, FS_Subset, FS_CardinalityType DEF TypeOK, HoldersOK
<1>b. ASSUME UNCHANGED slotted, \A u \in Wakers : pc'[u] = pc[u] PROVE SlotInv'
  BY <1>a, <1>b DEF SlotInv, InTransition
<1>1. CASE TickStep
  BY <1>0, <1>1, <1>b, TickActs DEF Others
<1>2. CASE ParkAny
  BY <1>0, <1>2, <1>b, ParkActs DEF ParkAny, Others
<1>3. CASE WakeAny
  <2>1. PICK w \in Wakers : Others(w) /\ SlotEffect(w)
    BY <1>3, WakeActs DEF WakeAny
  <2>2. \A u \in Wakers : u # w => pc'[u] = pc[u] /\ (InTransition(u)' <=> InTransition(u))
    BY <1>0, <2>1 DEF Others, InTransition
  <2>3. /\ \A u \in slotted : InTransition(u)
        /\ \A u \in Wakers : pc[u] \in {"clear", "route"} => u \in slotted
        /\ Cardinality(slotted) <= WakeConcurrency
    BY DEF SlotInv
  <2>4. Cardinality(slotted \cup {w}) <= Cardinality(slotted) + 1
        /\ Cardinality(slotted \ {w}) <= Cardinality(slotted)
    <3>1. Cardinality(slotted \cup {w}) \in {Cardinality(slotted), Cardinality(slotted) + 1}
      BY <1>a, FS_AddElement
    <3>2. Cardinality(slotted \ {w}) \in {Cardinality(slotted), Cardinality(slotted) - 1}
      BY <1>a, FS_RemoveElement
    <3> QED BY <1>a, <3>1, <3>2
  <2>5. CASE /\ pc'[w] = "clear" /\ PermitFree /\ slotted' = slotted \cup {w}
             /\ InTransition(w)'
    <3>1. Cardinality(slotted \cup {w}) \in Nat
      BY <1>a, FS_AddElement, FS_CardinalityType
    <3>2. Cardinality(slotted)' <= WakeConcurrency
      BY <1>a, <2>4, <2>5, <3>1, BoundsAssumption DEF PermitFree
    <3> QED BY <1>a, <2>2, <2>3, <2>5, <3>2 DEF SlotInv
  <2>6. CASE /\ UNCHANGED slotted /\ (InTransition(w)' <=> InTransition(w))
             /\ pc'[w] # "clear" /\ (pc'[w] = "route" => w \in slotted)
    BY <1>a, <2>2, <2>3, <2>6 DEF SlotInv
  <2>7. CASE UNCHANGED slotted /\ ~InTransition(w) /\ pc'[w] \notin {"clear", "route"}
    BY <1>a, <2>2, <2>3, <2>7 DEF SlotInv
  <2>8. CASE slotted' = slotted \ {w} /\ pc'[w] = "idle"
    <3>1. Cardinality(slotted \ {w}) \in Nat
      BY <1>a, FS_RemoveElement, FS_CardinalityType
    <3>2. Cardinality(slotted)' <= WakeConcurrency
      BY <1>a, <2>3, <2>4, <2>8, <3>1, BoundsAssumption
    <3> QED BY <1>a, <2>2, <2>3, <2>8, <3>2 DEF SlotInv
  <2> QED BY <2>1, <2>5, <2>6, <2>7, <2>8 DEF SlotEffect
<1>4. CASE DeployAny
  BY <1>0, <1>4, <1>b, DeployActs DEF DeployAny, Others
<1>5. CASE ConfirmStep \/ LifeAny \/ PushPending \/ FleetAny
  BY <1>5, <1>b, ConfirmActs, LifeActs, FleetActs DEF Still
<1>6. CASE Restart
  <2>1. \A w \in Wakers : pc'[w] = "idle"
    BY <1>0, <1>6 DEF Restart
  <2>2. slotted' = {} /\ Cardinality({}) = 0
    BY <1>6, FS_EmptySet DEF Restart
  <2> QED BY <2>1, <2>2, BoundsAssumption DEF SlotInv
<1>7. CASE UNCHANGED vars
  BY <1>7, <1>b DEF vars
<1> QED BY <1>1, <1>2, <1>3, <1>4, <1>5, <1>6, <1>7 DEF Next

\* Deploys stay where they are, and so do claims and deletes.
LEMMA ClaimFrame ==
  ASSUME ClaimInv, UNCHANGED <<claim, life>>, RowsKept,
         \A d \in Deployers : pc'[d] = pc[d] /\ app'[d] = app[d] /\ view'[d] = view[d]
  PROVE  ClaimInv'
  BY DEF ClaimInv, InDeploy, Id, RowsKept, Kept

\* A deploy moves its own claim only.
LEMMA ClaimMove ==
  ASSUME TypeOK, ClaimInv, NEW d \in Deployers, Others(d), ClaimEffect(d), RowsKept,
         UNCHANGED life
  PROVE  ClaimInv'
<1> DEFINE In(u)   == InDeploy(u)
           Inn(u)  == pc'[u] \notin {"idle", "queued"}
           Idd(u)  == <<app'[u], view'[u].gen>>
<1>0. d # Nobody /\ d # Deleter /\ Nobody \notin Deployers /\ Deleter # Nobody
      /\ Deployers \subseteq Tasks /\ Deleter \notin Deployers
  BY TasksDistinct DEF Tasks
<1>1. \A u \in Deployers : u # d => Idd(u) = Id(u) /\ (Inn(u) <=> In(u))
  BY <1>0 DEF Others, InDeploy, Id
<1>2. \A u \in Deployers : Id(u) \in Ids
  BY <1>0, IdType
<1>3. claim \in [Ids -> Deployers \cup {Deleter, Nobody}]
  BY DEF TypeOK, HoldersOK
<1>4. /\ \A i \in Ids : claim[i] \in Deployers => In(claim[i]) /\ Id(claim[i]) = i
      /\ \A u \in Deployers : In(u) => claim[Id(u)] = u
  BY DEF ClaimInv
<1>5. \A a \in Apps : /\ <<a, row[a].gen>> \in Ids /\ row'[a].gen = row[a].gen
                      /\ life[a] \in {"mark", "purge", "wipe", "row", "last"}
                           => claim[<<a, row[a].gen>>] = Deleter
  BY RowFacts DEF TypeOK, TablesOK, Ids, ClaimInv, RowsKept, Kept
<1>6. \/ /\ ~In(d) /\ Inn(d) /\ Idd(d) = Id(d)
         /\ claim[Id(d)] = Nobody /\ claim' = [claim EXCEPT ![Id(d)] = d]
      \/ claim' = claim /\ Idd(d) = Id(d) /\ (Inn(d) <=> In(d))
      \/ claim' = claim /\ ~In(d) /\ ~Inn(d)
      \/ In(d) /\ ~Inn(d) /\ claim' = [claim EXCEPT ![Id(d)] = Nobody]
  BY DEF ClaimEffect, InDeploy, Id
<1> SUFFICES
      /\ \A i \in Ids : claim'[i] \in Deployers => Inn(claim'[i]) /\ Idd(claim'[i]) = i
      /\ \A u \in Deployers : Inn(u) => claim'[Idd(u)] = u
      /\ \A i \in Ids : claim[i] = Deleter => claim'[i] = Deleter
  BY <1>5 DEF ClaimInv, InDeploy, Id
<1> HIDE DEF In, Inn, Idd
<1>7. CASE /\ ~In(d) /\ Inn(d) /\ Idd(d) = Id(d)
           /\ claim[Id(d)] = Nobody /\ claim' = [claim EXCEPT ![Id(d)] = d]
  BY <1>0, <1>1, <1>2, <1>3, <1>4, <1>7
<1>8. CASE claim' = claim /\ Idd(d) = Id(d) /\ (Inn(d) <=> In(d))
  BY <1>1, <1>2, <1>3, <1>4, <1>8
<1>9. CASE claim' = claim /\ ~In(d) /\ ~Inn(d)
  BY <1>1, <1>2, <1>3, <1>4, <1>9
<1>10. CASE In(d) /\ ~Inn(d) /\ claim' = [claim EXCEPT ![Id(d)] = Nobody]
  BY <1>0, <1>1, <1>2, <1>3, <1>4, <1>10
<1> QED BY <1>6, <1>7, <1>8, <1>9, <1>10

\* What the owner's operations do to claims: a delete takes a free one, and
\* gives back the one it has.
LEMMA LifeClaim ==
  ASSUME TypeOK, LifeInv, ClaimInv, LifeAny \/ PushPending
  PROVE  ClaimInv'
<1>0. /\ Nobody \notin Deployers /\ Deleter \notin Deployers /\ Deleter # Nobody
      /\ Deployers \subseteq Tasks
  BY TasksDistinct DEF Tasks
<1>1. \A u \in Deployers : Id(u) \in Ids
  BY <1>0, IdType
<1>2. claim \in [Ids -> Deployers \cup {Deleter, Nobody}] /\ life \in [Apps -> LifeSteps]
  BY DEF TypeOK, HoldersOK, PassOK
<1>3. \A a \in Apps : row[a] \in Rows /\ <<a, row[a].gen>> \in Ids
  BY RowFacts DEF TypeOK, TablesOK, Ids
<1>4. /\ \A i \in Ids : claim[i] \in Deployers => InDeploy(claim[i]) /\ Id(claim[i]) = i
      /\ \A u \in Deployers : InDeploy(u) => claim[Id(u)] = u
      /\ \A a \in Apps : life[a] \in {"mark", "purge", "wipe", "row", "last"}
                           => claim[<<a, row[a].gen>>] = Deleter
  BY DEF ClaimInv
<1>5. UNCHANGED <<pc, app, view>>
  BY LifeActs DEF Still
<1>6. ASSUME /\ \A i \in Ids : claim'[i] = claim[i] \/ claim'[i] \notin Deployers
             /\ \A i \in Ids : claim[i] \in Deployers => claim'[i] = claim[i]
             /\ \A a \in Apps : life'[a] \in {"mark", "purge", "wipe", "row", "last"}
                                  => claim'[<<a, row'[a].gen>>] = Deleter
      PROVE  ClaimInv'
  BY <1>1, <1>4, <1>5, <1>6 DEF ClaimInv, InDeploy, Id
<1>7. CASE PushPending
  BY <1>4, <1>6, <1>7 DEF PushPending
<1>8. ASSUME NEW a \in Apps, NEW d \in {"running", "stopped"}, OwnerPatch(a, d) PROVE ClaimInv'
  <2>1. \A b \in Apps : row'[b].gen = row[b].gen
    BY <1>3, <1>8 DEF OwnerPatch, PatchDesired, Rows, TypeOK, TablesOK
  <2> QED BY <1>4, <1>6, <1>8, <2>1 DEF OwnerPatch
<1>9. ASSUME NEW a \in Apps, DeleteStart(a) \/ DeletePurge(a) \/ CreateStart(a) \/ CreateWipe(a)
      PROVE  ClaimInv'
  BY <1>2, <1>4, <1>6, <1>9 DEF DeleteStart, DeletePurge, CreateStart, CreateWipe
<1>10. ASSUME NEW a \in Apps, DeleteClaim(a) PROVE ClaimInv'
  <2>1. \A b \in Apps : row'[b].gen = row[b].gen
    <3>1. RowsKept
      BY <1>10, WritesKeep, SameRowsKeep DEF DeleteClaim
    <3> QED BY <3>1 DEF RowsKept, Kept
  <2>2. CASE ClaimFree(<<a, row[a].gen>>)
    <3>1. claim' = [claim EXCEPT ![<<a, row[a].gen>>] = Deleter]
          /\ life' = [life EXCEPT ![a] = "mark"] /\ claim[<<a, row[a].gen>>] = Nobody
      BY <1>10, <2>2 DEF DeleteClaim, ClaimFree
    <3>2. \A i \in Ids : /\ claim'[i] = claim[i] \/ claim'[i] \notin Deployers
                         /\ claim[i] \in Deployers => claim'[i] = claim[i]
      BY <1>0, <1>2, <1>3, <3>1
    <3>3. ASSUME NEW b \in Apps, life'[b] \in {"mark", "purge", "wipe", "row", "last"}
          PROVE  claim'[<<b, row'[b].gen>>] = Deleter
      <4>1. claim'[<<a, row[a].gen>>] = Deleter
        BY <1>2, <1>3, <3>1
      <4>2. CASE b # a
        BY <1>2, <1>3, <1>4, <2>1, <3>1, <3>3, <4>2
      <4> QED BY <2>1, <4>1, <4>2
    <3> QED BY <1>6, <3>2, <3>3
  <2>3. CASE ~ClaimFree(<<a, row[a].gen>>)
    BY <1>2, <1>4, <1>6, <1>10, <2>1, <2>3 DEF DeleteClaim
  <2> QED BY <2>2, <2>3
<1>11. ASSUME NEW a \in Apps, DeleteMark(a) \/ DeleteRow(a) PROVE ClaimInv'
  <2>1. \A b \in Apps : row'[b].gen = row[b].gen
    <3>1. PatchDesired(row[a], "stopped").gen = row[a].gen /\ NoRow(row[a].gen).gen = row[a].gen
      BY <1>3 DEF PatchDesired, NoRow, Rows
    <3>2. \E r : r.gen = row[a].gen /\ row' = [row EXCEPT ![a] = r]
      BY <1>11, <3>1 DEF DeleteMark, DeleteRow
    <3> QED BY <3>2 DEF TypeOK, TablesOK
  <2> QED BY <1>2, <1>4, <1>6, <1>11, <2>1 DEF DeleteMark, DeleteRow
<1>12. ASSUME NEW a \in Apps, DeleteWipe(a) \/ DeleteLast(a) PROVE ClaimInv'
  <2>1. \A b \in Apps : row'[b].gen = row[b].gen
    <3>1. RowsKept
      BY <1>12, WritesKeep, SameRowsKeep DEF DeleteWipe, DeleteLast
    <3> QED BY <3>1 DEF RowsKept, Kept
  <2>2. CASE UNCHANGED claim /\ life' = [life EXCEPT ![a] = "row"] /\ life[a] = "wipe"
    BY <1>2, <1>4, <1>6, <2>1, <2>2
  <2>3. CASE /\ claim' = [claim EXCEPT ![<<a, row[a].gen>>] = Nobody]
             /\ life' = [life EXCEPT ![a] = "none"] /\ life[a] \in {"wipe", "last"}
    <3>1. \A i \in Ids : /\ claim'[i] = claim[i] \/ claim'[i] \notin Deployers
                         /\ claim[i] \in Deployers => claim'[i] = claim[i]
      BY <1>0, <1>2, <1>3, <1>4, <2>3
    <3>2. ASSUME NEW b \in Apps, life'[b] \in {"mark", "purge", "wipe", "row", "last"}
          PROVE  claim'[<<b, row'[b].gen>>] = Deleter
      <4>1. b # a
        BY <1>2, <2>3, <3>2
      <4> QED BY <1>2, <1>3, <1>4, <2>1, <2>3, <3>2, <4>1
    <3> QED BY <1>6, <3>1, <3>2
  <2> QED BY <1>12, <2>2, <2>3 DEF DeleteWipe, DeleteLast
<1>13. ASSUME NEW a \in Apps, CreateInsert(a) PROVE ClaimInv'
  <2>1. \A b \in Apps : b # a => row'[b] = row[b]
    BY <1>13 DEF CreateInsert, TypeOK, TablesOK
  <2> QED BY <1>2, <1>4, <1>6, <1>13, <2>1 DEF CreateInsert
<1> QED BY <1>7, <1>8, <1>9, <1>10, <1>11, <1>12, <1>13 DEF LifeAny, LifeStep

\* ClaimInv through any step.
LEMMA ClaimInvStep == TypeOK /\ LifeInv /\ ClaimInv /\ [Next]_vars => ClaimInv'
<1> SUFFICES ASSUME TypeOK, LifeInv, ClaimInv, [Next]_vars PROVE ClaimInv'
  OBVIOUS
<1>0. \A u \in Deployers : u \in Tasks /\ u # Tick /\ u \notin Parkers /\ u \notin Wakers
  BY TasksDistinct DEF Tasks
<1>1. CASE TickStep
  BY <1>0, <1>1, TickActs, TickKeeps, ClaimFrame DEF Others
<1>2. CASE ParkAny
  BY <1>0, <1>2, ParkActs, ParkKeeps, ClaimFrame DEF ParkAny, Others
<1>3. CASE WakeAny
  BY <1>0, <1>3, WakeActs, WakeKeeps, ClaimFrame DEF WakeAny, Others
<1>4. CASE DeployAny
  BY <1>4, DeployActs, DeployKeeps, ClaimMove DEF DeployAny
<1>5. CASE ConfirmStep
  BY <1>5, ConfirmActs, ConfirmKeeps, ClaimFrame DEF Still
<1>6. CASE LifeAny \/ PushPending
  BY <1>6, LifeClaim
<1>7. CASE FleetAny
  BY <1>7, FleetActs, SameRowsKeep, ClaimFrame DEF Still
<1>8. CASE Restart
  <2>1. \A d \in Deployers : ~InDeploy(d)'
    BY <1>0, <1>8 DEF Restart, InDeploy
  <2>2. Nobody \notin Deployers
    BY TasksDistinct
  <2> QED BY <1>8, <2>1, <2>2 DEF Restart, ClaimInv
<1>9. CASE UNCHANGED vars
  BY <1>9, SameRowsKeep, ClaimFrame DEF vars
<1> QED BY <1>1, <1>2, <1>3, <1>4, <1>5, <1>6, <1>7, <1>8, <1>9 DEF Next

\* Deploys past their row check keep their row: no background step takes it
\* away, and a delete does only under the claim.
LEMMA RowLiveStep ==
  TypeOK /\ LifeInv /\ ClaimInv /\ DeployerRowLive /\ [Next]_vars => DeployerRowLive'
<1> SUFFICES ASSUME TypeOK, LifeInv, ClaimInv, DeployerRowLive, [Next]_vars
             PROVE  DeployerRowLive'
  OBVIOUS
<1>0. \A u \in Deployers : /\ u \in Tasks /\ u # Tick /\ u \notin Parkers /\ u \notin Wakers
                           /\ app[u] \in Apps /\ Id(u) \in Ids
  BY TasksDistinct, IdType DEF Tasks
<1>a. ASSUME RowsKept,
             \A d \in Deployers : pc'[d] = pc[d] /\ app'[d] = app[d] /\ view'[d] = view[d]
      PROVE  DeployerRowLive'
  BY <1>0, <1>a DEF DeployerRowLive, InDeploy, Mine, Live, RowsKept, Kept
<1>1. CASE TickStep
  BY <1>0, <1>1, <1>a, TickActs, TickKeeps DEF Others
<1>2. CASE ParkAny
  BY <1>0, <1>2, <1>a, ParkActs, ParkKeeps DEF ParkAny, Others
<1>3. CASE WakeAny
  BY <1>0, <1>3, <1>a, WakeActs, WakeKeeps DEF WakeAny, Others
<1>4. CASE DeployAny
  <2>1. PICK d \in Deployers :
          /\ Others(d)
          /\ InDeploy(d)' /\ pc'[d] \notin {"wake", "build"}
              => /\ InDeploy(d) /\ Id(d)' = Id(d)
                 /\ pc[d] = "build" => Mine(d)
                 /\ pc[d] # "wake"
    BY <1>4, DeployActs DEF DeployAny
  <2>2. RowsKept
    BY <1>4, DeployKeeps
  <2>3. ASSUME NEW u \in Deployers, InDeploy(u)', pc'[u] \notin {"wake", "build"}
        PROVE  Mine(u)'
    <3>1. Mine(u) /\ app'[u] = app[u] /\ view'[u].gen = view[u].gen
      <4>1. CASE u = d
        BY <2>1, <2>3, <4>1 DEF DeployerRowLive, Id
      <4>2. CASE u # d
        BY <1>0, <2>1, <2>3, <4>2 DEF DeployerRowLive, Others, InDeploy
      <4> QED BY <4>1, <4>2
    <3> QED BY <1>0, <2>2, <3>1 DEF Mine, Live, RowsKept, Kept
  <2> QED BY <2>3 DEF DeployerRowLive
<1>5. CASE ConfirmStep
  BY <1>5, <1>a, ConfirmActs, ConfirmKeeps DEF Still
<1>6. CASE LifeAny \/ PushPending
  <2>1. UNCHANGED <<pc, app, view>>
    BY <1>6, LifeActs DEF Still
  <2>2. ASSUME NEW a \in Apps,
               \A b \in Apps \ {a} : row'[b] = row[b],
               \A d \in Deployers : InDeploy(d) /\ pc[d] \notin {"wake", "build"} => app[d] # a
        PROVE  DeployerRowLive'
    BY <1>0, <2>1, <2>2 DEF DeployerRowLive, InDeploy, Mine, Live
  <2>3. ASSUME NEW a \in Apps, DeleteRow(a) PROVE DeployerRowLive'
    <3>1. claim[<<a, row[a].gen>>] = Deleter /\ Deleter \notin Deployers
      BY <2>3, TasksDistinct DEF DeleteRow, ClaimInv
    <3>2. \A d \in Deployers : InDeploy(d) /\ pc[d] \notin {"wake", "build"} => app[d] # a
      BY <3>1 DEF ClaimInv, DeployerRowLive, Mine, Live, Id
    <3> QED BY <2>2, <2>3, <3>2 DEF DeleteRow, TypeOK, TablesOK
  <2>4. ASSUME NEW a \in Apps, CreateInsert(a) PROVE DeployerRowLive'
    <3>1. \A d \in Deployers : InDeploy(d) /\ pc[d] \notin {"wake", "build"} => app[d] # a
      BY <2>4 DEF CreateInsert, LifeInv, DeployerRowLive, Mine, Live
    <3> QED BY <2>2, <2>4, <3>1 DEF CreateInsert, TypeOK, TablesOK
  <2>5. ASSUME \A b \in Apps : row'[b].exists = row[b].exists /\ row'[b].gen = row[b].gen
        PROVE  DeployerRowLive'
    BY <1>0, <2>1, <2>5 DEF DeployerRowLive, InDeploy, Mine, Live
  <2>6. ASSUME NEW a \in Apps, NEW d \in {"running", "stopped"}, OwnerPatch(a, d)
        PROVE  DeployerRowLive'
    BY <2>5, <2>6 DEF OwnerPatch, PatchDesired, TypeOK, TablesOK, Rows
  <2>7. ASSUME NEW a \in Apps, DeleteMark(a) PROVE DeployerRowLive'
    BY <2>5, <2>7 DEF DeleteMark, PatchDesired, TypeOK, TablesOK, Rows
  <2>8. ASSUME NEW a \in Apps, DeleteClaim(a) \/ DeleteWipe(a) PROVE DeployerRowLive'
    <3>1. RowsKept
      BY <2>8, WritesKeep, SameRowsKeep DEF DeleteClaim, DeleteWipe
    <3> QED BY <2>5, <3>1 DEF RowsKept, Kept
  <2>9. ASSUME NEW a \in Apps,
               DeleteStart(a) \/ DeletePurge(a) \/ DeleteLast(a) \/ CreateStart(a)
               \/ CreateWipe(a)
        PROVE  DeployerRowLive'
    BY <2>5, <2>9 DEF DeleteStart, DeletePurge, DeleteLast, CreateStart, CreateWipe
  <2>10. CASE PushPending
    BY <2>5, <2>10 DEF PushPending
  <2> QED BY <1>6, <2>3, <2>4, <2>6, <2>7, <2>8, <2>9, <2>10 DEF LifeAny, LifeStep
<1>7. CASE FleetAny
  BY <1>7, <1>a, FleetActs, SameRowsKeep DEF Still
<1>8. CASE Restart
  BY <1>0, <1>8 DEF Restart, DeployerRowLive, InDeploy
<1>9. CASE UNCHANGED vars
  BY <1>9, <1>a, SameRowsKeep DEF vars
<1> QED BY <1>1, <1>2, <1>3, <1>4, <1>5, <1>6, <1>7, <1>8, <1>9 DEF Next

\* Nothing is published between a delete's wipe and the next create.
LEMMA PrefixStep ==
  TypeOK /\ LifeInv /\ ClaimInv /\ DeployerRowLive /\ PrefixInv /\ [Next]_vars => PrefixInv'
<1> SUFFICES ASSUME TypeOK, LifeInv, ClaimInv, DeployerRowLive, PrefixInv, [Next]_vars
             PROVE  PrefixInv'
  OBVIOUS
<1>0. row \in [Apps -> Rows] /\ released \in [Apps -> BOOLEAN] /\ life \in [Apps -> LifeSteps]
  BY DEF TypeOK, TablesOK, PassOK
<1>a. ASSUME RowsKept, UNCHANGED <<life, released>> PROVE PrefixInv'
  BY <1>a DEF PrefixInv, RowsKept, Kept
<1>1. CASE TickStep
  BY <1>1, <1>a, TickActs, TickKeeps
<1>2. CASE ParkAny
  BY <1>2, <1>a, ParkActs, ParkKeeps DEF ParkAny
<1>3. CASE WakeAny
  BY <1>3, <1>a, WakeActs, WakeKeeps DEF WakeAny
<1>4. CASE DeployAny
  <2>1. RowsKept /\ UNCHANGED life
    BY <1>4, DeployKeeps
  <2>2. PICK d \in Deployers :
          UNCHANGED released \/ (pc[d] = "activate" /\ released' = [released EXCEPT ![app[d]] = TRUE])
    BY <1>4, DeployActs DEF DeployAny
  <2>3. CASE pc[d] = "activate" /\ released' = [released EXCEPT ![app[d]] = TRUE]
    <3>1. InDeploy(d) /\ Mine(d) /\ claim[Id(d)] = d /\ d # Deleter
      BY <2>3, TasksDistinct DEF InDeploy, DeployerRowLive, ClaimInv
    <3>2. row[app[d]].exists /\ app[d] \in Apps
      BY <3>1, IdType DEF Mine, Live, Tasks
    <3>3. life[app[d]] # "row"
      BY <3>1, <3>2 DEF ClaimInv, Mine, Live, Id
    <3> QED BY <1>0, <2>1, <2>3, <3>2, <3>3 DEF PrefixInv, RowsKept, Kept
  <2> QED BY <1>a, <2>1, <2>2, <2>3
<1>5. CASE ConfirmStep
  BY <1>5, <1>a, ConfirmActs, ConfirmKeeps
<1>6. CASE LifeAny \/ PushPending
  <2>1. ASSUME NEW a \in Apps, DeleteWipe(a) PROVE PrefixInv'
    <3>1. RowsKept
      BY <2>1, WritesKeep, SameRowsKeep DEF DeleteWipe
    <3>2. row[a].exists
      BY <2>1 DEF DeleteWipe, LifeInv
    <3> QED BY <1>0, <2>1, <3>1, <3>2 DEF DeleteWipe, PrefixInv, RowsKept, Kept
  <2>2. ASSUME NEW a \in Apps, DeleteClaim(a) PROVE PrefixInv'
    <3>1. RowsKept
      BY <2>2, WritesKeep, SameRowsKeep DEF DeleteClaim
    <3> QED BY <1>0, <2>2, <3>1 DEF DeleteClaim, PrefixInv, RowsKept, Kept
  <2>3. ASSUME NEW a \in Apps, DeleteRow(a) \/ CreateInsert(a) PROVE PrefixInv'
    BY <1>0, <2>3 DEF DeleteRow, CreateInsert, FreshRow, PrefixInv
  <2>4. ASSUME NEW a \in Apps, DeleteStart(a) \/ DeletePurge(a) \/ DeleteLast(a) \/ CreateStart(a)
        PROVE  PrefixInv'
    BY <1>0, <2>4 DEF DeleteStart, DeletePurge, DeleteLast, CreateStart, PrefixInv
  <2>5. ASSUME NEW a \in Apps, NEW d \in {"running", "stopped"}, OwnerPatch(a, d) PROVE PrefixInv'
    BY <1>0, <2>5 DEF OwnerPatch, PatchDesired, PrefixInv, Rows
  <2>6. ASSUME NEW a \in Apps, DeleteMark(a) PROVE PrefixInv'
    BY <1>0, <2>6 DEF DeleteMark, PatchDesired, PrefixInv, Rows
  <2>7. CASE PushPending
    BY <2>7 DEF PushPending, PrefixInv
  <2>8. ASSUME NEW a \in Apps, CreateWipe(a) PROVE PrefixInv'
    BY <1>0, <2>8 DEF CreateWipe, PrefixInv
  <2> QED BY <1>6, <2>1, <2>2, <2>3, <2>4, <2>5, <2>6, <2>7, <2>8 DEF LifeAny, LifeStep
<1>7. CASE FleetAny
  BY <1>7, <1>a, FleetActs, SameRowsKeep
<1>8. CASE Restart
  BY <1>8 DEF Restart, PrefixInv
<1>9. CASE UNCHANGED vars
  BY <1>9, <1>a, SameRowsKeep DEF vars
<1> QED BY <1>1, <1>2, <1>3, <1>4, <1>5, <1>6, <1>7, <1>8, <1>9 DEF Next

\* A row that is asleep after the step was the same sleeper before it.
SleepersKept ==
    \A a \in Apps : row'[a].asleep =>
        /\ row[a].asleep /\ row'[a].exists = row[a].exists
        /\ row'[a].gen = row[a].gen /\ row'[a].desired = row[a].desired

\* Only a park puts a row to sleep.
LEMMA OnlyParksPark ==
  ASSUME TypeOK, [Next]_vars
  PROVE  SleepersKept \/ \E p \in Parkers : ParkMark(p)
<1>0. row \in [Apps -> Rows]
  BY DEF TypeOK, TablesOK
<1>a. ASSUME RowsKept, NoneParked PROVE SleepersKept
  BY <1>a DEF RowsKept, Kept, NoneParked, SleepersKept
<1>1. CASE TickStep \/ WakeAny \/ ConfirmStep \/ DeployAny
  BY <1>1, <1>a, TickKeeps, WakeKeeps, ConfirmKeeps, DeployKeeps
<1>2. CASE ParkAny
  BY <1>2, <1>a, ParkActs, ParkKeeps DEF ParkAny
<1>3. CASE FleetAny \/ Restart \/ PushPending \/ UNCHANGED vars
  <2>1. UNCHANGED row
    BY <1>3, FleetActs DEF Restart, PushPending, vars
  <2> QED BY <1>a, <2>1, SameRowsKeep
<1>4. CASE LifeAny
  <2>1. ASSUME NEW a \in Apps, DeleteClaim(a) \/ DeleteWipe(a) PROVE SleepersKept
    BY <1>a, <2>1, WritesKeep, SameRowsKeep DEF DeleteClaim, DeleteWipe
  <2>2. ASSUME NEW a \in Apps, NEW r, ~r.asleep, row' = [row EXCEPT ![a] = r] PROVE SleepersKept
    BY <1>0, <2>2 DEF SleepersKept
  <2>3. ASSUME NEW a \in Apps, DeleteMark(a) PROVE SleepersKept
    <3>1. ~PatchDesired(row[a], "stopped").asleep
      BY <1>0 DEF PatchDesired, Rows
    <3> QED BY <2>2, <2>3, <3>1 DEF DeleteMark
  <2>4. ASSUME NEW a \in Apps, NEW d \in {"running", "stopped"}, OwnerPatch(a, d)
        PROVE  SleepersKept
    <3>1. ~PatchDesired(row[a], d).asleep
      BY <1>0 DEF PatchDesired, Rows
    <3> QED BY <2>2, <2>4, <3>1 DEF OwnerPatch
  <2>5. ASSUME NEW a \in Apps, DeleteRow(a) \/ CreateInsert(a) PROVE SleepersKept
    <3>1. ~NoRow(row[a].gen).asleep /\ ~FreshRow(row[a].gen + 1).asleep
      BY DEF NoRow, FreshRow
    <3> QED BY <1>a, <2>2, <2>5, <3>1, SameRowsKeep DEF DeleteRow, CreateInsert
  <2>6. ASSUME NEW a \in Apps,
               DeleteStart(a) \/ DeletePurge(a) \/ DeleteLast(a) \/ CreateStart(a)
               \/ CreateWipe(a)
        PROVE  SleepersKept
    BY <1>a, <2>6, SameRowsKeep DEF DeleteStart, DeletePurge, DeleteLast, CreateStart, CreateWipe
  <2> QED BY <1>4, <2>1, <2>3, <2>4, <2>5, <2>6 DEF LifeAny, LifeStep
<1> QED BY <1>1, <1>2, <1>3, <1>4 DEF Next

\* A park writes the flag of the app id whose lock it holds, so of no app that
\* another park or wake is busy with.
LEMMA ParkMarksOwn ==
  ASSUME TypeOK, LockInv, NEW p \in Parkers, ParkMark(p),
         NEW u \in Parkers \cup Wakers, u # p, InTransition(u), Mine(u)
  PROVE  row'[app[u]] = row[app[u]]
<1>1. InTransition(p) /\ p \in Parkers \cup Wakers
  BY DEF ParkMark, InTransition
<1>2. Id(u) # Id(p)
  BY <1>1 DEF LockInv
<1>3. app[p] \in Apps /\ app[u] \in Apps
  BY IdType DEF Tasks
<1>4. CASE app[u] = app[p]
  <2>1. ~Live(app[p], view[p].gen)
    BY <1>2, <1>4 DEF Mine, Live, Id
  <2> QED BY <2>1 DEF ParkMark, SetAppAsleep, Write
<1>5. CASE app[u] # app[p]
  BY <1>3, <1>5 DEF ParkMark, SetAppAsleep, Write, TypeOK, TablesOK
<1> QED BY <1>4, <1>5

\* How a wake comes to be past its flag.
LEMMA WakeMoves ==
  ASSUME TypeOK, NEW w \in Wakers,
         WakeStep(w) \/ WakeLock(w) \/ WakeCancel(w) \/ \E a \in Apps : WakeArrive(w, a),
         InTransition(w)', pc'[w] \notin {"slot", "clear"}
  PROVE  /\ app'[w] = app[w] /\ view'[w].gen = view[w].gen
         /\ \/ InTransition(w) /\ pc[w] \notin {"slot", "clear"}
            \/ UNCHANGED row /\ ~row[app[w]].asleep
            \/ SetAppAwake(app[w], view[w].gen)
<1>0. w \in Tasks /\ app[w] \in Apps /\ pc'[w] \notin {"idle", "queued"}
      /\ w \in Parkers \cup Wakers
  BY IdType DEF Tasks, InTransition
<1>a. ~WakeOver(w)
  BY <1>0, MoveTo DEF WakeOver
<1>1. CASE WakeLock(w)
  <2>1. ~Leave(w, "idle")
    BY <1>0, MoveTo
  <2>2. /\ Mine(w) /\ ~IsStopped(row[app[w]]) /\ UNCHANGED row
        /\ Take(w, app[w], IF IsAsleep(row[app[w]]) THEN "slot" ELSE "load")
    BY <1>1, <2>1 DEF WakeLock
  <2>3. /\ pc'[w] = IF IsAsleep(row[app[w]]) THEN "slot" ELSE "load"
        /\ app'[w] = app[w] /\ view'[w].gen = row[app[w]].gen
    BY <1>0, <2>2, MoveTo
  <2> QED BY <2>2, <2>3 DEF IsAsleep, Mine, Live
<1>2. CASE WakeClear(w)
  BY <1>2 DEF WakeClear
<1>3. CASE WakeLoad(w)
  BY <1>0, <1>3 DEF WakeLoad, InTransition, Mine, Live, Seen, TypeOK, TasksOK
<1>4. CASE WakeSlot(w)
  <2>1. Goto(w, "clear")
    BY <1>4, <1>a DEF WakeSlot
  <2> QED BY <1>0, <2>1, MoveTo
<1>5. CASE WakeGate(w) \/ WakeFlip(w)
  BY <1>0, <1>5, <1>a DEF WakeGate, WakeFlip, InTransition
<1>6. CASE WakeRefused(w) \/ WakeRoute(w) \/ WakeCancel(w)
  BY <1>6, <1>a DEF WakeRefused, WakeRoute, WakeCancel
<1>7. CASE \E a \in Apps : WakeArrive(w, a)
  BY <1>0, <1>7, MoveTo DEF WakeArrive
<1>8. CASE EnsureSpawned(w)
  BY <1>0, <1>8, EnsureActs DEF EnsureLabels, InTransition
<1> QED BY <1>1, <1>2, <1>3, <1>4, <1>5, <1>6, <1>7, <1>8 DEF WakeStep

\* A step that no waker takes leaves every waker where it is.
LEMMA WakersStill ==
  ASSUME TypeOK, [Next]_vars, ~WakeAny, ~Restart, NEW w \in Wakers
  PROVE  pc'[w] = pc[w] /\ app'[w] = app[w] /\ view'[w] = view[w]
<1>0. w \in Tasks /\ w # Tick /\ w \notin Deployers /\ w \notin Parkers
  BY TasksDistinct DEF Tasks
<1>1. CASE TickStep
  BY <1>0, <1>1, TickActs DEF Others
<1>2. CASE ParkAny
  BY <1>0, <1>2, ParkActs DEF ParkAny, Others
<1>3. CASE DeployAny
  BY <1>0, <1>3, DeployActs DEF DeployAny, Others
<1>4. CASE ConfirmStep \/ LifeAny \/ PushPending \/ FleetAny
  BY <1>4, ConfirmActs, LifeActs, FleetActs DEF Still
<1> QED BY <1>1, <1>2, <1>3, <1>4 DEF Next, vars

\* A woken app stays awake through any step while its wake is busy.
LEMMA WokenStep ==
  TypeOK /\ LockInv /\ WokenStaysAwake /\ [Next]_vars => WokenStaysAwake'
<1> SUFFICES ASSUME TypeOK, LockInv, WokenStaysAwake, [Next]_vars,
                    NEW w \in Wakers, InTransition(w)', pc'[w] \notin {"slot", "clear"}, Mine(w)'
             PROVE  ~row'[app'[w]].asleep
  BY DEF WokenStaysAwake
<1>0. /\ w \in Tasks /\ w \in Parkers \cup Wakers /\ w \notin Parkers
      /\ app[w] \in Apps /\ ~Restart
  <2>1. w \in Tasks /\ w \in Parkers \cup Wakers /\ w \notin Parkers
    BY TasksDistinct DEF Tasks
  <2> QED BY <2>1, IdType DEF Restart, InTransition
<1>a. ASSUME SleepersKept, app'[w] = app[w], view'[w].gen = view[w].gen,
             InTransition(w), pc[w] \notin {"slot", "clear"}
      PROVE  ~row'[app'[w]].asleep
  BY <1>0, <1>a DEF SleepersKept, WokenStaysAwake, Mine, Live
<1>1. CASE WakeAny
  <2>1. PICK v \in Wakers : WakeStep(v) \/ WakeLock(v) \/ WakeCancel(v)
                            \/ \E a \in Apps : WakeArrive(v, a)
    BY <1>1 DEF WakeAny
  <2>2. SleepersKept
    BY <1>1, WakeKeeps DEF RowsKept, Kept, NoneParked, SleepersKept
  <2>3. CASE v # w
    BY <1>0, <1>a, <2>1, <2>2, <2>3, WakeActs DEF Others, InTransition
  <2>4. CASE v = w
    <3>1. /\ app'[w] = app[w] /\ view'[w].gen = view[w].gen
          /\ \/ InTransition(w) /\ pc[w] \notin {"slot", "clear"}
             \/ UNCHANGED row /\ ~row[app[w]].asleep
             \/ SetAppAwake(app[w], view[w].gen)
      BY <2>1, <2>4, WakeMoves
    <3>2. CASE SetAppAwake(app[w], view[w].gen)
      <4>1. row \in [Apps -> Rows]
        BY DEF TypeOK, TablesOK
      <4>2. Live(app[w], view[w].gen)
        BY <1>0, <3>1, <3>2 DEF SetAppAwake, Write, Mine, Live
      <4> QED BY <1>0, <3>1, <3>2, <4>1, <4>2 DEF SetAppAwake, Write, Rows
    <3> QED BY <1>a, <2>2, <3>1, <3>2
  <2> QED BY <2>3, <2>4
<1>2. CASE ~WakeAny
  <2>1. pc'[w] = pc[w] /\ app'[w] = app[w] /\ view'[w] = view[w] /\ InTransition(w)
    BY <1>0, <1>2, WakersStill DEF InTransition
  <2>2. ASSUME NEW p \in Parkers, ParkMark(p) PROVE ~row'[app'[w]].asleep
    <3>1. RowsKept
      BY <2>2, ParkKeeps DEF ParkAny, ParkStep
    <3>2. Mine(w)
      BY <1>0, <2>1, <3>1 DEF RowsKept, Kept, Mine, Live
    <3>3. row'[app[w]] = row[app[w]]
      BY <1>0, <2>1, <2>2, <3>2, ParkMarksOwn
    <3> QED BY <2>1, <3>2, <3>3 DEF WokenStaysAwake
  <2> QED BY <1>a, <2>1, <2>2, OnlyParksPark
<1> QED BY <1>1, <1>2

\* Every push is of the rows as they are, or lost.
LEMMA EveryPush == ASSUME TypeOK, [Next]_vars PROVE PushOrNot
<1>1. CASE TickStep
  BY <1>1, TickActs
<1>2. CASE ParkAny
  BY <1>2, ParkActs DEF ParkAny
<1>3. CASE WakeAny
  BY <1>3, WakeActs DEF WakeAny
<1>4. CASE DeployAny
  BY <1>4, DeployActs DEF DeployAny
<1>5. CASE ConfirmStep \/ FleetAny \/ Restart \/ UNCHANGED vars
  BY <1>5, ConfirmActs, FleetActs DEF PushOrNot, Restart, vars
<1>6. CASE LifeAny \/ PushPending
  BY <1>6, LifeActs
<1> QED BY <1>1, <1>2, <1>3, <1>4, <1>5, <1>6 DEF Next

\* How a park comes to stop its fleet behind a wake route.
LEMMA ParkMoves ==
  ASSUME TypeOK, [Next]_vars, NEW p \in Parkers, pc'[p] = "stop"
  PROVE  /\ app'[p] = app[p] /\ view'[p] = view[p]
         /\ \/ pc[p] = "stop" /\ ~ParkMark(p)
            \/ UNCHANGED row /\ edge' = [a \in Apps |-> RouteOf(row[a])]
<1>0. p \in Tasks /\ p # Tick /\ p \notin Wakers /\ p \notin Deployers
  BY TasksDistinct DEF Tasks
<1>a. ~ParkMark(p)
  BY <1>0, MoveTo DEF ParkMark
<1>1. CASE TickStep
  BY <1>0, <1>1, <1>a, TickActs DEF Others
<1>2. CASE ParkAny
  <2>1. PICK q \in Parkers : ParkStep(q) \/ \E a \in Apps : ParkLock(q, a)
    BY <1>2 DEF ParkAny
  <2>2. CASE q # p
    BY <1>0, <1>a, <2>1, <2>2, ParkActs DEF Others
  <2>3. CASE q = p
    <3>1. \A a \in Apps : ~ParkLock(p, a)
      BY <1>0, MoveTo DEF ParkLock
    <3>2. ~ParkStop(p) /\ ~ParkDone(p)
      BY <1>0, MoveTo DEF ParkStop, ParkDone
    <3>3. ParkPush(p)
      BY <1>a, <2>1, <2>3, <3>1, <3>2 DEF ParkStep
    <3>4. ~Goto(p, "blind") /\ ~Leave(p, "idle")
      BY <1>0 DEF Goto, Leave, TypeOK, TasksOK
    <3> QED BY <3>3, <3>4 DEF ParkPush, PushAccepted
  <2> QED BY <2>2, <2>3
<1>3. CASE WakeAny
  BY <1>0, <1>3, <1>a, WakeActs DEF WakeAny, Others
<1>4. CASE DeployAny
  BY <1>0, <1>4, <1>a, DeployActs DEF DeployAny, Others
<1>5. CASE ConfirmStep \/ LifeAny \/ PushPending \/ FleetAny
  BY <1>5, <1>a, ConfirmActs, LifeActs, FleetActs DEF Still
<1>6. CASE Restart
  BY <1>0, <1>6 DEF Restart
<1> QED BY <1>a, <1>1, <1>2, <1>3, <1>4, <1>5, <1>6 DEF Next, vars

\* The route stays off a fleet that a park is about to stop.
LEMMA ParkedStep ==
  TypeOK /\ LockInv /\ ParkedBehindWakeRoute /\ [Next]_vars => ParkedBehindWakeRoute'
<1> SUFFICES ASSUME TypeOK, LockInv, ParkedBehindWakeRoute, [Next]_vars,
                    NEW p \in Parkers, pc'[p] = "stop", Mine(p)', IsAsleep(row[app[p]])'
             PROVE  edge'[app'[p]] # "proxy"
  BY DEF ParkedBehindWakeRoute
<1>0. p \in Tasks /\ p \in Parkers \cup Wakers /\ app[p] \in Apps
  BY IdType DEF Tasks
<1>1. /\ app'[p] = app[p] /\ view'[p] = view[p]
      /\ \/ pc[p] = "stop" /\ ~ParkMark(p)
         \/ UNCHANGED row /\ edge' = [a \in Apps |-> RouteOf(row[a])]
  BY ParkMoves
<1>2. \A a \in Apps : IsAsleep(row[a]) => RouteOf(row[a]) # "proxy"
  BY DEF RouteOf
<1>3. CASE UNCHANGED row /\ edge' = [a \in Apps |-> RouteOf(row[a])]
  BY <1>0, <1>1, <1>2, <1>3
<1>4. CASE pc[p] = "stop" /\ ~ParkMark(p)
  <2>1. Mine(p) /\ IsAsleep(row[app[p]])
    <3>1. CASE SleepersKept
      BY <1>0, <1>1, <3>1 DEF SleepersKept, IsAsleep, IsStopped, Mine, Live
    <3>2. ASSUME NEW q \in Parkers, ParkMark(q) PROVE Mine(p) /\ IsAsleep(row[app[p]])
      <4>1. RowsKept
        BY <3>2, ParkKeeps DEF ParkAny, ParkStep
      <4>2. Mine(p) /\ InTransition(p) /\ q # p
        BY <1>0, <1>1, <1>4, <3>2, <4>1 DEF RowsKept, Kept, Mine, Live, InTransition
      <4>3. row'[app[p]] = row[app[p]]
        BY <1>0, <3>2, <4>2, ParkMarksOwn
      <4> QED BY <1>1, <4>2, <4>3
    <3> QED BY <3>1, <3>2, OnlyParksPark
  <2>2. edge[app[p]] # "proxy"
    BY <1>4, <2>1 DEF ParkedBehindWakeRoute
  <2> QED BY <1>0, <1>1, <1>2, <2>1, <2>2, EveryPush DEF PushOrNot
<1> QED BY <1>1, <1>3, <1>4

-----------------------------------------------------------------------------
(* The theorems.                                                           *)

\* The invariant holds of the initial states.
LEMMA InitInv == Init => IInv
<1> SUFFICES ASSUME Init PROVE IInv
  OBVIOUS
<1>0. TypeOK /\ LifeInv
  BY InitType
<1>1. \A t \in Tasks : pc[t] = "idle"
  BY DEF Init
<1>2. Parkers \subseteq Tasks /\ Wakers \subseteq Tasks /\ Deployers \subseteq Tasks
  BY DEF Tasks
<1>3. LockInv
  BY <1>1, <1>2 DEF Init, LockInv, InTransition
<1>4. SlotInv
  BY <1>1, <1>2, FS_EmptySet, BoundsAssumption DEF Init, SlotInv
<1>5. ClaimInv
  BY <1>1, <1>2, TasksDistinct DEF Init, ClaimInv, InDeploy
<1>6. PrefixInv
  <2>1. \A a \in Apps : ~row[a].exists => ~row[a].sha
    <3>1. \A r \in {NoRow(0), FreshRow(1), RunningRow, AsleepRow} : ~r.exists => ~r.sha
      <4>1. ~NoRow(0).sha /\ FreshRow(1).exists
        BY DEF NoRow, FreshRow
      <4>2. RunningRow.exists
        BY DEF FreshRow, RunningRow
      <4>3. AsleepRow.exists
        BY DEF FreshRow, RunningRow, AsleepRow
      <4> QED BY <4>1, <4>2, <4>3
    <3> QED BY <3>1 DEF Init
  <2> QED BY <2>1 DEF Init, PrefixInv
<1>7. DeployerRowLive /\ WokenStaysAwake /\ ParkedBehindWakeRoute
  BY <1>1, <1>2 DEF DeployerRowLive, WokenStaysAwake, ParkedBehindWakeRoute, InDeploy, InTransition
<1> QED BY <1>0, <1>3, <1>4, <1>5, <1>6, <1>7 DEF IInv

\* Every part of the invariant is preserved by every step: the whole of it
\* holds in every reachable state.
THEOREM Invariance == Spec => []IInv
<1>1. IInv /\ [Next]_vars => IInv'
  BY TypeStep, LifeInvStep, LockInvStep, SlotInvStep, ClaimInvStep, PrefixStep, RowLiveStep,
     WokenStep, ParkedStep DEF IInv
<1> QED BY <1>1, InitInv, PTL DEF Spec

\* Parks and wakes of one app exclude each other (sleep.rs): both would hold
\* its lock.
THEOREM Exclusion == Spec => []TransitionExclusion
<1>1. IInv => TransitionExclusion
  BY DEF IInv, LockInv, TransitionExclusion
<1> QED BY <1>1, Invariance, PTL

\* No lock, cold-start permit or claim is held by a task that is over, however
\* it ended: done, refused, bailed out or cancelled.
THEOREM NoLeak == Spec => []NothingLeaked
<1>1. IInv => NothingLeaked
  BY DEF IInv, LockInv, SlotInv, ClaimInv, NothingLeaked
<1> QED BY <1>1, Invariance, PTL

\* A fleet is stopped behind a wake route, never under a proxied visitor.
THEOREM ParkOrder == Spec => []ParkedBehindWakeRoute
<1>1. IInv => ParkedBehindWakeRoute
  BY DEF IInv
<1> QED BY <1>1, Invariance, PTL

\* No park slips in between a wake's flag and the request it holds.
THEOREM WakeHolds == Spec => []WokenStaysAwake
<1>1. IInv => WokenStaysAwake
  BY DEF IInv
<1> QED BY <1>1, Invariance, PTL

\* Concurrent cold starts of held requests never exceed the permits.
THEOREM PermitsBound == Spec => []ColdStartsBounded
<1>1. IInv => ColdStartsBounded
  <2> SUFFICES ASSUME IInv PROVE ColdStartsBounded
    OBVIOUS
  <2> DEFINE S == {w \in Wakers : pc[w] \in {"clear", "route"}}
  <2>1. S \subseteq slotted /\ slotted \subseteq Wakers /\ Cardinality(slotted) <= WakeConcurrency
    BY DEF IInv, SlotInv, TypeOK, HoldersOK
  <2>2. IsFiniteSet(slotted)
    BY <2>1, WakersFinite, FS_Subset
  <2>3. IsFiniteSet(S) /\ Cardinality(S) <= Cardinality(slotted)
    BY <2>1, <2>2, FS_Subset
  <2>4. Cardinality(S) \in Nat /\ Cardinality(slotted) \in Nat
    BY <2>2, <2>3, FS_CardinalityType
  <2> HIDE DEF S
  <2>5. Cardinality(S) <= WakeConcurrency
    BY <2>1, <2>3, <2>4, BoundsAssumption
  <2> QED BY <2>5 DEF ColdStartsBounded, S
<1> QED BY <1>1, Invariance, PTL

\* A deploy past its row check never works on a deleted or re-created app.
THEOREM DeploysOnLiveRows == Spec => []DeployerRowLive
<1>1. IInv => DeployerRowLive
  BY DEF IInv
<1> QED BY <1>1, Invariance, PTL

\* A deleted app's bucket is empty, and stays so until a create: no deploy in
\* flight publishes into it after the purge.
THEOREM PurgeHolds == Spec => []PurgedStaysEmpty
<1>1. IInv => PurgedStaysEmpty
  BY DEF IInv, PrefixInv, PurgedStaysEmpty
<1> QED BY <1>1, Invariance, PTL

\* While an app is stopped no background task writes it a running status, from
\* whatever stale read it works.
THEOREM StopHolds == Spec => StopWins
<1> DEFINE A == \A a \in Apps :
                  row[a].exists /\ IsStopped(row[a]) /\ row'[a].exists /\ IsStopped(row'[a])
                     => row'[a].status \in {row[a].status, "stopped", "sleeping"}
<1>1. IInv /\ [Next]_vars => A
  <2> SUFFICES ASSUME IInv, [Next]_vars PROVE A
    OBVIOUS
  <2>0. TypeOK /\ LifeInv /\ row \in [Apps -> Rows]
    BY DEF IInv, TypeOK, TablesOK
  <2>a. RowsKept => A
    BY DEF RowsKept, Kept
  <2>1. CASE TickStep \/ ParkAny \/ WakeAny \/ ConfirmStep \/ DeployAny
    BY <2>0, <2>1, <2>a, TickKeeps, ParkKeeps, WakeKeeps, ConfirmKeeps, DeployKeeps
  <2>2. CASE FleetAny \/ Restart \/ PushPending \/ UNCHANGED vars
    <3>1. UNCHANGED row
      BY <2>2, FleetActs DEF Restart, PushPending, vars
    <3> QED BY <2>a, <3>1, SameRowsKeep
  <2>3. CASE LifeAny
    <3>1. ASSUME NEW a \in Apps, DeleteClaim(a) \/ DeleteWipe(a) PROVE A
      BY <2>0, <2>a, <3>1, WritesKeep, SameRowsKeep DEF DeleteClaim, DeleteWipe
    <3>2. ASSUME NEW a \in Apps, NEW d \in {"running", "stopped"}, OwnerPatch(a, d) PROVE A
      BY <2>0, <3>2 DEF OwnerPatch, PatchDesired, Rows
    <3>3. ASSUME NEW a \in Apps, DeleteMark(a) PROVE A
      BY <2>0, <3>3 DEF DeleteMark, PatchDesired, Rows
    <3>4. ASSUME NEW a \in Apps, DeleteRow(a) PROVE A
      BY <2>0, <3>4 DEF DeleteRow, NoRow
    <3>5. ASSUME NEW a \in Apps, CreateInsert(a) PROVE A
      BY <2>0, <3>5 DEF CreateInsert, LifeInv
    <3>6. ASSUME NEW a \in Apps,
                 DeleteStart(a) \/ DeletePurge(a) \/ DeleteLast(a) \/ CreateStart(a)
                 \/ CreateWipe(a)
          PROVE  A
      BY <2>a, <3>6, SameRowsKeep DEF DeleteStart, DeletePurge, DeleteLast, CreateStart, CreateWipe
    <3> QED BY <2>3, <3>1, <3>2, <3>3, <3>4, <3>5, <3>6 DEF LifeAny, LifeStep
  <2> QED BY <2>1, <2>2, <2>3 DEF Next
<1> QED BY <1>1, Invariance, PTL DEF Spec, StopWins
=============================================================================
