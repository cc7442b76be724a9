----------------------------- MODULE AppImport -----------------------------
(***************************************************************************)
(* Creating an app from a GitHub repository: the background import         *)
(* (host/import.rs), the app row it moves (service/apps.rs create and      *)
(* retry_import, db/apps.rs finish_app_import), and what runs beside it:   *)
(* pushes to the same repository, their deploys, a rename, a delete, a     *)
(* second retry, a restart of the runner.                                  *)
(*                                                                         *)
(* A clone is its size so far and the upstream version it carries; `main`  *)
(* of a slug's mirror is the upstream version it started from and the      *)
(* users' pushes on top.  URLs, refs and paths are validated before        *)
(* anything is created and are left out, and so is the squash, which only  *)
(* changes the history the published tree has.                             *)
(***************************************************************************)
EXTENDS Integers, FiniteSets

CONSTANTS Slugs, First,      \* slugs, and the one the app is created under
          Tasks, Requests,   \* import tasks and retry calls
          Cap, MaxSize,      \* import cap and the largest upstream, in units
          MaxPushes, MaxUp, MaxOps, MaxFaults

VARIABLES aApp,     \* [here, slug, status, imported]
          aMain,    \* slug -> its main: [up, size, mine]
          aStage,   \* slug -> what refs/noite/import names, 0 for nothing
          aTask,    \* import tasks
          aFlight,  \* IN_FLIGHT holds the app
          aReq,     \* retry calls: "idle" | "checked"
          aUp,      \* upstream's version
          aTip,     \* a tip is queued: "none" | "queued" | "deploying"
          aPushed,  \* pushes acknowledged to their users
          aLeft

vars == <<aApp, aMain, aStage, aTask, aFlight, aReq, aUp, aTip, aPushed, aLeft>>

NoMain == [up |-> 0, size |-> 0, mine |-> {}]
NoTask == [step |-> "idle", slug |-> First, size |-> 0, up |-> 0, expect |-> NoMain]
Mains == [up : 0..MaxUp, size : 0..MaxSize, mine : SUBSET (1..MaxPushes)]
AppRows == [here : BOOLEAN, slug : Slugs, imported : BOOLEAN,
            status : {"none", "importing", "provisioned", "error", "building", "running"}]
Imports == [step : {"idle", "clone", "stage", "pick", "drop", "read", "publish", "ok",
                    "failed", "leave"},
            slug : Slugs, size : 0..MaxSize, up : 0..MaxUp, expect : Mains]
Lefts == [ops : 0..MaxOps, faults : 0..MaxFaults]

(* What the bounds must satisfy: upstream has a first version. *)
Bounds ==
    /\ First \in Slugs
    /\ Cap \in Nat /\ MaxSize \in Nat /\ MaxPushes \in Nat /\ MaxUp \in Nat \ {0}
    /\ MaxOps \in Nat /\ MaxFaults \in Nat

TypeOK ==
    /\ aApp \in AppRows
    /\ aMain \in [Slugs -> Mains] /\ aStage \in [Slugs -> 0..MaxUp]
    /\ aTask \in [Tasks -> Imports]
    /\ aFlight \in BOOLEAN /\ aReq \in [Requests -> {"idle", "checked"}]
    /\ aUp \in 1..MaxUp /\ aTip \in {"none", "queued", "deploying"}
    /\ aPushed \subseteq 1..MaxPushes
    /\ aLeft \in Lefts

Init ==
    /\ aApp = [here |-> FALSE, slug |-> First, imported |-> FALSE, status |-> "none"]
    /\ aMain = [s \in Slugs |-> NoMain] /\ aStage = [s \in Slugs |-> 0]
    /\ aTask = [t \in Tasks |-> NoTask] /\ aFlight = FALSE
    /\ aReq = [q \in Requests |-> "idle"]
    /\ aUp = 1 /\ aTip = "none" /\ aPushed = {}
    /\ aLeft = [ops |-> MaxOps, faults |-> MaxFaults]

Op == aLeft.ops > 0 /\ aLeft' = [aLeft EXCEPT !.ops = @ - 1]
Spent == aLeft.faults > 0 /\ aLeft' = [aLeft EXCEPT !.faults = @ - 1]
Go(t, s) == aTask' = [aTask EXCEPT ![t].step = s]

-----------------------------------------------------------------------------
(* The app row.                                                             *)

(* import::spawn: the task works on the slug the row had at that moment. *)
Spawned(t, slug) == [aTask EXCEPT ![t] = [NoTask EXCEPT !.step = "clone", !.slug = slug]]

Create(t) ==
    /\ ~aApp.here /\ aApp.status = "none" /\ aTask[t] = NoTask
    /\ aApp' = [aApp EXCEPT !.here = TRUE, !.status = "importing", !.imported = TRUE]
    /\ aTask' = Spawned(t, First) /\ aFlight' = TRUE
    /\ UNCHANGED <<aMain, aStage, aReq, aUp, aTip, aPushed, aLeft>>

(* retry_import: a row that says importing is refused only while a task of  *)
(* this process is at it.                                                   *)
RetryCheck(q) ==
    /\ aReq[q] = "idle" /\ aApp.here /\ aApp.imported /\ Op
    /\ ~(aApp.status = "importing" /\ aFlight)
    /\ aReq' = [aReq EXCEPT ![q] = "checked"]
    /\ UNCHANGED <<aApp, aMain, aStage, aTask, aFlight, aUp, aTip, aPushed>>

Retry(q, t) ==
    /\ aReq[q] = "checked" /\ aTask[t] = NoTask
    /\ aReq' = [aReq EXCEPT ![q] = "idle"]
    /\ IF aApp.here
       THEN /\ aApp' = [aApp EXCEPT !.status = "importing"]
            /\ aTask' = Spawned(t, aApp.slug) /\ aFlight' = TRUE
       ELSE UNCHANGED <<aApp, aTask, aFlight>>
    /\ UNCHANGED <<aMain, aStage, aUp, aTip, aPushed, aLeft>>

(* A rename moves the mirror with the slug; it holds the app's claim and    *)
(* the push guards, which an import only takes to publish.                  *)
Rename(s) ==
    /\ aApp.here /\ s # aApp.slug /\ aTip # "deploying" /\ Op
    /\ aApp' = [aApp EXCEPT !.slug = s]
    /\ aMain' = [aMain EXCEPT ![s] = aMain[aApp.slug], ![aApp.slug] = NoMain]
    /\ aStage' = [aStage EXCEPT ![s] = aStage[aApp.slug], ![aApp.slug] = 0]
    /\ UNCHANGED <<aTask, aFlight, aReq, aUp, aTip, aPushed>>

Delete ==
    /\ aApp.here /\ aTip # "deploying" /\ Op
    /\ aApp' = [aApp EXCEPT !.here = FALSE] /\ aTip' = "none" /\ aPushed' = {}
    /\ aMain' = [aMain EXCEPT ![aApp.slug] = NoMain]
    /\ aStage' = [aStage EXCEPT ![aApp.slug] = 0]
    /\ UNCHANGED <<aTask, aFlight, aReq, aUp>>

-----------------------------------------------------------------------------
(* The clone: one child under a size cap and a deadline.                    *)

CloneGrows(t) ==
    /\ aTask[t].step = "clone" /\ aTask[t].size < MaxSize
    /\ aTask' = [aTask EXCEPT ![t].size = @ + 1]
    /\ UNCHANGED <<aApp, aMain, aStage, aFlight, aReq, aUp, aTip, aPushed, aLeft>>

(* run_grouped's poll: over the cap, or past the deadline, the group dies. *)
CloneKilled(t) ==
    /\ aTask[t].step = "clone" /\ (aTask[t].size > Cap \/ aLeft.faults > 0)
    /\ aLeft' = [aLeft EXCEPT !.faults = IF aTask[t].size > Cap THEN @ ELSE @ - 1]
    /\ Go(t, "failed")
    /\ UNCHANGED <<aApp, aMain, aStage, aFlight, aReq, aUp, aTip, aPushed>>

(* The child ends by itself: its size is measured once more. *)
ExitTrusted(t) == "stage"
ExitOutcome(t) == IF aTask[t].size > Cap THEN "failed" ELSE "stage"
CloneExits(t) ==
    /\ aTask[t].step = "clone" /\ aTask[t].size > 0
    /\ aTask' = [aTask EXCEPT ![t] = [@ EXCEPT !.step = ExitOutcome(t), !.up = aUp]]
    /\ UNCHANGED <<aApp, aMain, aStage, aFlight, aReq, aUp, aTip, aPushed, aLeft>>

-----------------------------------------------------------------------------
(* Into the mirror.  The staging ref is one per repository.                 *)

Stage(t) ==
    /\ aTask[t].step = "stage"
    /\ aStage' = [aStage EXCEPT ![aTask[t].slug] = aTask[t].up]
    /\ Go(t, "pick")
    /\ UNCHANGED <<aApp, aMain, aFlight, aReq, aUp, aTip, aPushed, aLeft>>

(* rev_parse(IMPORT_REF): another task of the app may have staged over this  *)
(* one, or have dropped the ref.                                            *)
Pick(t) ==
    /\ aTask[t].step = "pick"
    /\ LET staged == aStage[aTask[t].slug] IN
       aTask' = [aTask EXCEPT ![t] = [@ EXCEPT !.step = IF staged = 0 THEN "failed" ELSE "drop",
                                              !.up = staged]]
    /\ UNCHANGED <<aApp, aMain, aStage, aFlight, aReq, aUp, aTip, aPushed, aLeft>>

DropRef(t) ==
    /\ aTask[t].step = "drop"
    /\ aStage' = [aStage EXCEPT ![aTask[t].slug] = 0] /\ Go(t, "read")
    /\ UNCHANGED <<aApp, aMain, aFlight, aReq, aUp, aTip, aPushed, aLeft>>

(* `current`: main as it stands now, read without the push guard. *)
ReadMain(t) ==
    /\ aTask[t].step = "read"
    /\ aTask' = [aTask EXCEPT ![t] = [@ EXCEPT !.step = "publish",
                                              !.expect = aMain[aTask[t].slug]]]
    /\ UNCHANGED <<aApp, aMain, aStage, aFlight, aReq, aUp, aTip, aPushed, aLeft>>

(* publish_ref under the push guard: the ref must still be what was read.    *)
(* A landed ref queues its tip; the app's row is not looked at.             *)
Publish(t) ==
    /\ aTask[t].step = "publish"
    /\ IF aMain[aTask[t].slug] = aTask[t].expect
       THEN /\ aMain' = [aMain EXCEPT ![aTask[t].slug] =
                  [up |-> aTask[t].up, size |-> aTask[t].size, mine |-> {}]]
            /\ aTip' = IF aTip = "none" THEN "queued" ELSE aTip
            /\ Go(t, "ok")
       ELSE Go(t, "failed") /\ UNCHANGED <<aMain, aTip>>
    /\ UNCHANGED <<aApp, aStage, aFlight, aReq, aUp, aPushed, aLeft>>

(* Any of the git commands above can fail: the staging ref stays behind. *)
Fails(t) ==
    /\ aTask[t].step \in {"stage", "pick", "drop", "read", "publish"} /\ Spent
    /\ Go(t, "failed")
    /\ UNCHANGED <<aApp, aMain, aStage, aFlight, aReq, aUp, aTip, aPushed>>

(* finish_app_import: guarded on the row still saying importing. *)
FinishAnyway(status) == [aApp EXCEPT !.status = status]
FinishImport(status) ==
    IF aApp.here /\ aApp.status = "importing" THEN [aApp EXCEPT !.status = status] ELSE aApp
Finish(t) ==
    /\ aTask[t].step \in {"ok", "failed"}
    /\ aApp' = FinishImport(IF aTask[t].step = "ok" THEN "provisioned" ELSE "error")
    /\ Go(t, "leave")
    /\ UNCHANGED <<aMain, aStage, aFlight, aReq, aUp, aTip, aPushed, aLeft>>

Leave(t) ==
    /\ aTask[t].step = "leave"
    /\ aTask' = [aTask EXCEPT ![t] = NoTask] /\ aFlight' = FALSE
    /\ UNCHANGED <<aApp, aMain, aStage, aReq, aUp, aTip, aPushed, aLeft>>

-----------------------------------------------------------------------------
(* What runs beside it.                                                     *)

(* A push of the user's own work onto the app's main, acknowledged. *)
Push ==
    /\ aApp.here /\ Cardinality(aPushed) < MaxPushes
    /\ LET n == Cardinality(aPushed) + 1 IN
       /\ aMain' = [aMain EXCEPT ![aApp.slug].mine = @ \cup {n}]
       /\ aPushed' = aPushed \cup {n}
    /\ aTip' = IF aTip = "none" THEN "queued" ELSE aTip
    /\ UNCHANGED <<aApp, aStage, aTask, aFlight, aReq, aUp, aLeft>>

DeployStart ==
    /\ aApp.here /\ aTip = "queued" /\ aTip' = "deploying"
    /\ aApp' = [aApp EXCEPT !.status = "building"]
    /\ UNCHANGED <<aMain, aStage, aTask, aFlight, aReq, aUp, aPushed, aLeft>>

DeployEnd ==
    /\ aTip = "deploying" /\ aTip' = "none"
    /\ aApp' = [aApp EXCEPT !.status = "running"]
    /\ UNCHANGED <<aMain, aStage, aTask, aFlight, aReq, aUp, aPushed, aLeft>>

UpstreamMoves ==
    /\ aUp < MaxUp /\ aUp' = aUp + 1
    /\ UNCHANGED <<aApp, aMain, aStage, aTask, aFlight, aReq, aTip, aPushed, aLeft>>

(* The runner restarts: tasks, calls and IN_FLIGHT are memory, the row and   *)
(* the repositories are not; the tip sweep brings the tip back.             *)
Crash ==
    /\ Spent /\ aApp.status # "none"
    /\ aTask' = [t \in Tasks |-> NoTask] /\ aReq' = [q \in Requests |-> "idle"]
    /\ aFlight' = FALSE /\ aTip' = IF aTip = "deploying" THEN "queued" ELSE aTip
    /\ UNCHANGED <<aApp, aMain, aStage, aUp, aPushed>>

Step(t) ==
    \/ Create(t) \/ CloneGrows(t) \/ CloneKilled(t) \/ CloneExits(t)
    \/ Stage(t) \/ Pick(t) \/ DropRef(t) \/ ReadMain(t) \/ Publish(t)
    \/ Fails(t) \/ Finish(t) \/ Leave(t)

Next ==
    \/ \E t \in Tasks : Step(t)
    \/ \E q \in Requests : RetryCheck(q) \/ \E t \in Tasks : Retry(q, t)
    \/ \E s \in Slugs : Rename(s)
    \/ Delete \/ Push \/ DeployStart \/ DeployEnd \/ UpstreamMoves \/ Crash

Spec == Init /\ [][Next]_vars

-----------------------------------------------------------------------------
(* Nothing larger than the import cap is ever published, whichever of the    *)
(* poll and the end of the clone comes first (run_grouped).                 *)
PublishedWithinCap == \A s \in Slugs : aMain[s].size <= Cap

(* Why: past its exit a clone was measured, and it does not grow after it. *)
MeasuredInv ==
    /\ PublishedWithinCap
    /\ \A t \in Tasks : aTask[t].step \in {"stage", "pick", "drop", "read", "publish"} =>
                          aTask[t].size <= Cap

(* An import that ends leaves a status a deploy has written alone: from      *)
(* building the app only goes to running, whatever the import's outcome     *)
(* (finish_app_import's guard), unless the owner retries the import.        *)
DeployStatusStands ==
    [][ (aApp.here /\ aApp.status = "building" /\ aApp'.status # "building")
        => aApp'.status = "running" \/ (\E q \in Requests : aReq[q] = "checked" /\ aReq'[q] = "idle")
           \/ aApp'.status = "none" ]_vars

(* "a push that raced the import (and already started a deploy) is never    *)
(* clobbered" (host/import.rs, run): an acknowledged push stays on main.    *)
PushDuringImportKept == aApp.here => aPushed \subseteq aMain[aApp.slug].mine
=============================================================================
