----------------------------- MODULE VoidDeploy -----------------------------
(***************************************************************************)
(* The last half of a Void app's deploy: stage every script of the         *)
(* generation, run the D1 migrations through the staged worker (or, when   *)
(* there is no fleet to invoke it on, after activation), activate the      *)
(* generation with one pointer write, store the cohost hashes, adopt it    *)
(* and route it.  host/deploy.rs drives, host/void_cohost.rs stages and    *)
(* activates, host/void_migrate.rs speaks the migration protocol.          *)
(*                                                                         *)
(* An app version is the number of migrations its tree carries (celld's    *)
(* versions are content-addressed); a cohosted script's version is its     *)
(* rendered content.  The worker and celld are external: they do what the  *)
(* code in void_migrate.rs and void_cohost.rs provides for.                *)
(***************************************************************************)
EXTENDS Integers, Sequences, FiniteSets

CONSTANTS
    Cohosted,    \* the runner-owned scripts, in CohostedScript::order
    Contents,    \* what a render of one of them can be
    MaxLevel,    \* BOUND: migrations a pushed tree can carry
    MaxDeploys,  \* BOUND: deploys of the app
    MaxFaults    \* BOUND: lost answers, infra failures, crashes

None == "none"
Scripts == {Cohosted[i] : i \in DOMAIN Cohosted}
Levels == 0 .. MaxLevel

VARIABLES
    vRow,     \* the app's row: was a version ever marked live
    vHash,    \* void_cohost_hash: the stored content hash per script
    vPtr,     \* the fleet pointer in the bucket: app version, cohosted versions
    vServing, \* the app version the running fleet adopted, -1 when it is down
    vApplied, \* migrations applied to the fleet's D1
    vExec,    \* the worker's migration run: whose deploy, its level, its state
    vDep,     \* the deploy in flight
    vLeft     \* deploys and faults left

vars == <<vRow, vHash, vPtr, vServing, vApplied, vExec, vDep, vLeft>>

Pcs == {"idle", "stage", "target", "prior", "begin", "probe", "post", "reconcile", "auth",
        "nov2", "legacy", "activate", "hashes", "gate", "route"}

(* The deploy's locals: the tree's level, the renders, which script is     *)
(* next, the scripts staged, whether the migrations run through the staged *)
(* worker, whether they are done, the tries left in the current loop.      *)
Idle == [pc |-> "idle", n |-> 0, level |-> 0, render |-> [s \in Scripts |-> None], at |-> 1,
         gen |-> {}, staged |-> FALSE, migrated |-> FALSE, tries |-> 0]

Renders == [Scripts -> Contents \cup {None}]
Pointers == [app : Levels \cup {-1}, co : Renders]
Execs == [n : 0 .. MaxDeploys, level : Levels, st : {"idle", "running", "ok", "failed"}]
Deploys == [pc : Pcs, n : 0 .. MaxDeploys, level : Levels, render : Renders, at : 1 .. Len(Cohosted) + 1,
            gen : SUBSET Scripts, staged : BOOLEAN, migrated : BOOLEAN, tries : 0 .. 3]
Lefts == [deploys : 0 .. MaxDeploys, faults : 0 .. MaxFaults]

(* What the constants must satisfy.                                        *)
Bounds == Cohosted \in Seq(Scripts) /\ MaxLevel \in Nat /\ MaxDeploys \in Nat /\ MaxFaults \in Nat

TypeOK ==
    /\ vRow \in BOOLEAN /\ vHash \in Renders /\ vPtr \in Pointers
    /\ vServing \in Levels \cup {-1} /\ vApplied \in Levels
    /\ vExec \in Execs /\ vDep \in Deploys /\ vLeft \in Lefts

Init ==
    /\ vRow = FALSE
    /\ vHash = [s \in Scripts |-> None]
    /\ vPtr = [app |-> -1, co |-> [s \in Scripts |-> None]]
    /\ vServing = -1
    /\ vApplied = 0
    /\ vExec = [n |-> 0, level |-> 0, st |-> "idle"]
    /\ vDep = Idle
    /\ vLeft = [deploys |-> MaxDeploys, faults |-> MaxFaults]

To(pc) == vDep' = [vDep EXCEPT !.pc = pc]
Fault == vLeft.faults > 0 /\ vLeft' = [vLeft EXCEPT !.faults = @ - 1]
At(pc) == vDep.pc = pc

-----------------------------------------------------------------------------
(* Staging.                                                                *)

(* A deploy of a tree with some number of migrations: its cohosted scripts *)
(* are rendered first.                                                     *)
Start ==
    /\ At("idle") /\ vLeft.deploys > 0
    /\ vLeft' = [vLeft EXCEPT !.deploys = @ - 1]
    /\ \E level \in Levels, render \in [Scripts -> Contents] :
           vDep' = [Idle EXCEPT !.pc = "stage", !.n = MaxDeploys - vLeft.deploys + 1,
                                !.level = level, !.render = render]
    /\ UNCHANGED <<vRow, vHash, vPtr, vServing, vApplied, vExec>>

(* content_hash digests sources, rendered config and secrets and leaves    *)
(* out the per-deploy paths: equal hashes are equal contents.              *)
ContentHash(content) == content

(* stage_cohosted for one script: skipped when the stored hash is the      *)
(* rendered content's, else staged (celld_stage; an infra failure that the *)
(* one retry recovers is a success).                                       *)
StageCohosted ==
    /\ At("stage") /\ vDep.at <= Len(Cohosted)
    /\ LET s == Cohosted[vDep.at]
           skip == vHash[s] = ContentHash(vDep.render[s])
       IN vDep' = [vDep EXCEPT !.at = @ + 1, !.gen = IF skip THEN @ ELSE @ \cup {s}]
    /\ UNCHANGED <<vRow, vHash, vPtr, vServing, vApplied, vExec, vLeft>>

(* The app is staged last; nothing has moved the pointer so far.           *)
StageApp ==
    /\ At("stage") /\ vDep.at > Len(Cohosted)
    /\ To("target")
    /\ UNCHANGED <<vRow, vHash, vPtr, vServing, vApplied, vExec, vLeft>>

(* load_deploy_target, then the choice of when to migrate: a redeploy asks *)
(* for its prior fleet first, a first deploy activates at once.            *)
LoadTarget ==
    /\ At("target")
    /\ To(IF vRow THEN "prior" ELSE "activate")
    /\ UNCHANGED <<vRow, vHash, vPtr, vServing, vApplied, vExec, vLeft>>

(* ensure_prior_fleet_healthy: started when it was down, then answering.   *)
(* A fleet that cannot come up leaves the migrations for after activation. *)
EnsurePriorFleetHealthy ==
    /\ At("prior") /\ vPtr.app >= 0
    /\ vServing' = IF vServing < 0 THEN vPtr.app ELSE vServing
    /\ vDep' = [vDep EXCEPT !.pc = "begin", !.staged = TRUE]
    /\ UNCHANGED <<vRow, vHash, vPtr, vApplied, vExec, vLeft>>

PriorUnreachable ==
    /\ At("prior") /\ Fault
    /\ vServing' = -1
    /\ To("activate")
    /\ UNCHANGED <<vRow, vHash, vPtr, vApplied, vExec>>

-----------------------------------------------------------------------------
(* The migration protocol (drive_migration_protocol).  An exchange ends in *)
(* a transport failure, an answer past the cap, an asset stub, an answer   *)
(* that is not JSON, or the worker's own answer.                           *)

(* The migrations are done: activate them, or route what is active.        *)
Migrated == vDep' = [vDep EXCEPT !.migrated = TRUE, !.pc = IF vDep.staged THEN "activate" ELSE "route"]

(* The deploy fails; its row is closed by deploy_app.                      *)
Failed == vDep' = Idle

(* What an exchange with the worker can come back with, over HTTP or      *)
(* through celld invoke: no answer, one past the cap, an asset stub, an    *)
(* error status, a body that is not JSON (a cut stream reads as empty), or *)
(* the worker's JSON.                                                      *)
Answers == {"transport", "toolarge", "stub", "status", "garbage", "json"}

(* collect_migrations: refused for a symlink, a path that escapes or a     *)
(* cap, else the tree's own list.                                          *)
CollectMigrations ==
    \/ vDep' = [vDep EXCEPT !.pc = "probe", !.tries = 3] /\ UNCHANGED vLeft
    \/ Fault /\ Failed

(* begin_migrate: the tree's migrations and the fleet's token.             *)
BeginMigrate == At("begin") /\ CollectMigrations

(* Through the staged worker, invoked on the fleet that serves the old     *)
(* generation ...                                                          *)
MigrateVoidAppStaged ==
    /\ vDep.staged
    /\ BeginMigrate
    /\ UNCHANGED <<vRow, vHash, vPtr, vServing, vApplied, vExec>>

(* ... or through the new one's port: a fleet without a port is fine for a *)
(* tree without migrations.                                                *)
MigrateVoidApp ==
    /\ ~vDep.staged
    /\ \/ BeginMigrate
       \/ At("begin") /\ Fault /\ IF vDep.level = 0 THEN Migrated ELSE Failed
    /\ UNCHANGED <<vRow, vHash, vPtr, vServing, vApplied, vExec>>

(* capabilities: protocol 2 only from a well-formed 2xx answer.            *)
Capabilities(answer) ==
    CASE answer \in {"transport", "toolarge"} -> answer
      [] answer = "json" -> "v2"
      [] OTHER -> "none"

(* The probe: three tries for a transport failure; an answer past the cap  *)
(* fails the deploy, as does a worker whose build is not the pushed tree.  *)
Probe ==
    /\ At("probe")
    /\ \E answer \in Answers :
        CASE Capabilities(answer) = "v2" -> (To("post") /\ UNCHANGED vLeft) \/ (Fault /\ Failed)
          [] Capabilities(answer) = "none" -> To("nov2") /\ UNCHANGED vLeft
          [] Capabilities(answer) = "toolarge" -> Fault /\ Failed
          [] OTHER -> Fault /\ IF vDep.tries > 1 THEN vDep' = [vDep EXCEPT !.tries = @ - 1] ELSE Failed
    /\ UNCHANGED <<vRow, vHash, vPtr, vServing, vApplied, vExec>>

(* An answer without protocol 2: a config that cannot be read back, or     *)
(* that names another database than D1, fails the deploy before a tree     *)
(* without migrations is let through.                                      *)
NoV2 ==
    /\ At("nov2")
    /\ \/ Fault /\ Failed
       \/ /\ IF vDep.level = 0 THEN Migrated ELSE vDep' = [vDep EXCEPT !.pc = "legacy", !.tries = 3]
          /\ UNCHANGED vLeft
    /\ UNCHANGED <<vRow, vHash, vPtr, vServing, vApplied, vExec>>

(* What a POST does to the worker: it runs the bundled migrations to an    *)
(* end, or is still running them when the client gives up.                 *)
Deliver(st) ==
    /\ vExec' = [n |-> vDep.n, level |-> vDep.level, st |-> st]
    /\ vApplied' = IF st = "ok" /\ vDep.level > vApplied THEN vDep.level ELSE vApplied

(* Mutant: a lost answer posts the migrations again.                       *)
MigrateAppRetries ==
    /\ At("post")
    /\ \/ (\E st \in {"ok", "failed"} : Deliver(st) /\ IF st = "ok" THEN To("auth") ELSE Failed) /\ UNCHANGED vLeft
       \/ Fault /\ Deliver("running") /\ UNCHANGED vDep
    /\ UNCHANGED <<vRow, vHash, vPtr, vServing>>

(* migrate_app: a parsed answer is final; an answer that cannot be read is *)
(* reconciled twice, a lost one once: the POST is never sent again.        *)
MigrateApp ==
    /\ At("post")
    /\ \/ /\ \E st \in {"ok", "failed"} :
              /\ Deliver(st)
              /\ IF st = "ok" THEN To("auth") ELSE Failed
          /\ UNCHANGED vLeft
       \/ /\ Fault
          /\ \E st \in {"ok", "failed"} : Deliver(st)
          /\ vDep' = [vDep EXCEPT !.pc = "reconcile", !.tries = 2]
       \/ /\ Fault
          /\ (Deliver("running") \/ UNCHANGED <<vExec, vApplied>>)
          /\ vDep' = [vDep EXCEPT !.pc = "reconcile", !.tries = 1]
    /\ UNCHANGED <<vRow, vHash, vPtr, vServing>>

(* Mutant: an attempt that is not known to have failed counts as applied.  *)
NotKnownFailed == vExec.st # "failed"

(* The attempt the reconcile asks about: none, another deploy's, ours.     *)
OursSucceeded == vExec.n = vDep.n /\ vExec.st = "ok"

(* reconcile_request: the worker's record of the attempt decides; an       *)
(* unreadable answer is a failure; a lost one is asked again while         *)
(* reconcile_twice has a try left.                                         *)
Reconcile ==
    /\ At("reconcile")
    /\ \/ (IF OursSucceeded THEN To("auth") ELSE Failed) /\ UNCHANGED vLeft
       \/ Fault /\ Failed
       \/ Fault /\ IF vDep.tries > 1 THEN vDep' = [vDep EXCEPT !.tries = @ - 1] ELSE Failed
    /\ UNCHANGED <<vRow, vHash, vPtr, vServing, vApplied, vExec>>

(* migrate_auth, for a worker that offers the endpoint: anything but a 2xx *)
(* with ok fails the deploy.                                               *)
MigrateAuth ==
    /\ At("auth")
    /\ \/ Migrated /\ UNCHANGED vLeft
       \/ Fault /\ Failed
    /\ UNCHANGED <<vRow, vHash, vPtr, vServing, vApplied, vExec>>

(* migrate_legacy: an asset stub or an unreadable 2xx is posted again,     *)
(* twice at most; a lost answer is not.                                    *)
MigrateLegacy ==
    /\ At("legacy")
    /\ \/ /\ \E st \in {"ok", "failed"} :
              /\ Deliver(st)
              /\ IF st = "ok" THEN Migrated ELSE Failed
          /\ UNCHANGED vLeft
       \/ /\ Fault
          /\ (UNCHANGED <<vExec, vApplied>> \/ \E st \in {"ok", "failed"} : Deliver(st))
          /\ IF vDep.tries > 1 THEN vDep' = [vDep EXCEPT !.tries = @ - 1] ELSE Failed
       \/ /\ Fault
          /\ (UNCHANGED <<vExec, vApplied>> \/ Deliver("running"))
          /\ Failed
    /\ UNCHANGED <<vRow, vHash, vPtr, vServing>>

(* External: a run the client has given up on comes to its end.            *)
WorkerEnds ==
    /\ vExec.st = "running"
    /\ \E st \in {"ok", "failed"} :
           /\ vExec' = [vExec EXCEPT !.st = st]
           /\ vApplied' = IF st = "ok" /\ vExec.level > vApplied THEN vExec.level ELSE vApplied
    /\ UNCHANGED <<vRow, vHash, vPtr, vServing, vDep, vLeft>>

-----------------------------------------------------------------------------
(* Activation.                                                             *)

(* celld activate: one compare-and-swap names the staged scripts, the ones *)
(* it does not name keep their version.                                    *)
Pointed == [app |-> vDep.level,
            co |-> [s \in Scripts |-> IF s \in vDep.gen THEN vDep.render[s] ELSE vPtr.co[s]]]

CelldActivate ==
    /\ At("activate")
    /\ vPtr' = Pointed
    /\ vDep' = [vDep EXCEPT !.pc = "hashes", !.at = 1]
    /\ UNCHANGED <<vRow, vHash, vServing, vApplied, vExec, vLeft>>

(* Both tries of the activate report a failure; the write may have landed. *)
CelldActivateFails ==
    /\ At("activate") /\ Fault
    /\ vPtr' \in {vPtr, Pointed}
    /\ Failed
    /\ UNCHANGED <<vRow, vHash, vServing, vApplied, vExec>>

(* activate_staged stores the hash of one staged script after another.     *)
SetCohostHash ==
    /\ At("hashes") /\ vDep.at <= Len(Cohosted)
    /\ LET s == Cohosted[vDep.at]
       IN vHash' = IF s \in vDep.gen THEN [vHash EXCEPT ![s] = ContentHash(vDep.render[s])] ELSE vHash
    /\ vDep' = [vDep EXCEPT !.at = @ + 1]
    /\ UNCHANGED <<vRow, vPtr, vServing, vApplied, vExec, vLeft>>

(* ensure_fleet and the reload adopt what the pointer names.               *)
Adopt ==
    /\ At("hashes") /\ vDep.at > Len(Cohosted)
    /\ vServing' = vPtr.app
    /\ To("gate")
    /\ UNCHANGED <<vRow, vHash, vPtr, vApplied, vExec, vLeft>>

(* The health gate, and the migrations that did not run before it.         *)
HealthGate ==
    /\ At("gate") /\ vServing >= 0
    /\ vDep' = [vDep EXCEPT !.pc = IF vDep.migrated THEN "route" ELSE "begin", !.staged = FALSE]
    /\ UNCHANGED <<vRow, vHash, vPtr, vServing, vApplied, vExec, vLeft>>

(* The fleet was stopped before its gate: the deploy is recorded and the   *)
(* migrations are left to the next one.                                    *)
StoppedEarly ==
    /\ At("gate") /\ vServing < 0
    /\ To("route")
    /\ UNCHANGED <<vRow, vHash, vPtr, vServing, vApplied, vExec, vLeft>>

RouteLive ==
    /\ At("route")
    /\ vRow' = TRUE
    /\ vDep' = Idle
    /\ UNCHANGED <<vHash, vPtr, vServing, vApplied, vExec, vLeft>>

-----------------------------------------------------------------------------
(* A step fails (a tenant error, a second infra failure, a removed row, a  *)
(* gate that times out), or the runner dies and the boot closes the row.   *)
StepFails ==
    /\ vDep.pc \in Pcs \ {"idle"} /\ Fault
    /\ Failed
    /\ UNCHANGED <<vRow, vHash, vPtr, vServing, vApplied, vExec>>

(* The owner stops the fleet, or it is put to sleep or reconciled up again. *)
FleetStops ==
    /\ vServing >= 0 /\ Fault
    /\ vServing' = -1
    /\ UNCHANGED <<vRow, vHash, vPtr, vApplied, vExec, vDep>>

FleetStarts ==
    /\ vServing < 0 /\ vRow /\ vPtr.app >= 0
    /\ vServing' = vPtr.app
    /\ UNCHANGED <<vRow, vHash, vPtr, vApplied, vExec, vDep, vLeft>>

Next ==
    \/ Start \/ StageCohosted \/ StageApp \/ LoadTarget \/ EnsurePriorFleetHealthy
    \/ PriorUnreachable \/ MigrateVoidAppStaged \/ MigrateVoidApp \/ Probe \/ NoV2 \/ MigrateApp \/ Reconcile \/ MigrateAuth \/ MigrateLegacy
    \/ WorkerEnds \/ CelldActivate \/ CelldActivateFails \/ SetCohostHash \/ Adopt
    \/ HealthGate \/ StoppedEarly \/ RouteLive \/ StepFails \/ FleetStops \/ FleetStarts

Spec == Init /\ [][Next]_vars

-----------------------------------------------------------------------------
(* What is about to be activated through the staged worker, and what is    *)
(* about to be routed as migrated, has its migrations in the database,     *)
(* whichever answers were lost and whichever runs outlived their client    *)
(* (deploy.rs 1288-1294: "a migrate failure fails the deploy here - the    *)
(* old version keeps serving, nothing activates").                         *)
MigratedBeforeTraffic ==
    (At("activate") /\ vDep.staged) \/ (At("route") /\ vDep.migrated) => vApplied >= vDep.level

(* A deploy never has a POST to send while an earlier one of its own may   *)
(* still be running in the worker: the attempt is looked up instead.       *)
NoBlindRetry ==
    vDep.pc \in {"post", "legacy"} => ~(vExec.n = vDep.n /\ vExec.st = "running")

(* Why: the worker's run with this deploy's number is this deploy's, and   *)
(* the run that went well is in the database; what was staged goes on to   *)
(* its activation only as migrated.                                        *)
Begun == MaxDeploys - vLeft.deploys
AppliedInv ==
    /\ vDep.n <= Begun /\ vExec.n <= Begun /\ (vDep.pc # "idle" => vDep.n > 0)
    /\ vDep.pc # "idle" /\ vExec.n = vDep.n => vExec.level = vDep.level
    /\ vExec.st = "ok" => vApplied >= vExec.level
    /\ vDep.pc = "auth" \/ vDep.migrated => vApplied >= vDep.level
    /\ vDep.staged => vDep.migrated \/ vDep.pc \in {"begin", "probe", "post", "reconcile", "auth", "nov2", "legacy"}

(* Why: until a deploy posts, no run has its number.                       *)
Unposted == {"stage", "target", "prior", "begin", "probe", "nov2", "post"}
PostedInv ==
    /\ NoBlindRetry
    /\ vDep.pc \in Unposted \/ (vDep.pc \in {"activate", "hashes", "gate"} /\ ~vDep.migrated) => vExec.n # vDep.n

(* activate_staged's comment: "so a stored hash always names activated     *)
(* content".  Between deploys the stored hash, which decides whether the   *)
(* next deploy stages the script at all, is the content the pointer names. *)
StoredHashNamesActivated ==
    At("idle") => \A s \in Scripts : vHash[s] # None => vHash[s] = ContentHash(vPtr.co[s])
=============================================================================
