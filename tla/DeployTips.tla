----------------------------- MODULE DeployTips -----------------------------
(***************************************************************************)
(* How a moved ref becomes a deploy (host/tips.rs, host/loop_.rs,          *)
(* service/deploys.rs, host/deploy.rs).  A push sends a notification the   *)
(* reconcile tick drains; a sweep of the bucket is the fallback.  Both     *)
(* hand the tip to a task that must take the app's claim; a rollback or a  *)
(* redeploy comes with a row of its own and waits for the claim.           *)
(*                                                                         *)
(* One app: its production ("main") and one preview environment ("env"),   *)
(* which share the claim.  A sha is a number, newer is larger.  The six    *)
(* minutes of DEPLOY_STUCK_MS and DEPLOY_IN_FLIGHT_MS are the flag "aged"  *)
(* of a row.                                                               *)
(***************************************************************************)
EXTENDS Integers, Sequences, FiniteSets

CONSTANTS
    Tasks,         \* BOUND: deploy tasks alive at once
    MaxSha,        \* BOUND: pushes
    MaxEvents      \* BOUND: rollbacks, redeploys, failed builds, failed listings, restarts, stops

Targets == {"main", "env"}

VARIABLES
    tTip,      \* per target, the newest bundle under its ref (0: none)
    tLive,     \* per target, last_deploy_sha
    tGood,     \* shas with a successful production row
    tWanted,   \* per target, desired_state = running
    tQueue,    \* the tip channel
    tClaim,    \* the task that holds the app's claim, or "none"
    tTask,     \* the deploy tasks
    tLeft,     \* per target, the in-flight row a dead process left behind
    tLoop,     \* the reconcile loop: where it is and what it read
    tHeld,     \* history: the sha of the last finished rollback since a push
    tLeftover  \* what is left of the bounds

vars == <<tTip, tLive, tGood, tWanted, tQueue, tClaim, tTask, tLeft, tLoop, tHeld, tLeftover>>

Shas == 0 .. MaxSha

Free == [at |-> "free", t |-> "main", sha |-> 0, kind |-> "tip", row |-> "none", aged |-> FALSE]

TaskRecords ==
    [at : {"free", "spawned", "waiting", "claimed", "building", "live"}, t : Targets, sha : Shas,
     kind : {"tip", "explicit"}, row : {"none", "building", "failed"}, aged : BOOLEAN]

Idle == [at |-> "idle", claimed |-> FALSE, seen |-> 0, on |-> FALSE]

-----------------------------------------------------------------------------
(* Rows.                                                                   *)

(* app_has_in_flight, env_has_in_flight: a young building or deploying row. *)
InFlight(t) ==
    \/ \E k \in Tasks : tTask[k].t = t /\ tTask[k].row = "building" /\ ~tTask[k].aged
    \/ tLeft[t] = "young"

(* fail_stuck_deploys: rows not moved for six minutes are failed, unless   *)
(* the app was claimed when the tick began.                                *)
FailStuck ==
    IF tClaim # "none"
    THEN UNCHANGED <<tTask, tLeft>>
    ELSE /\ tTask' = [k \in Tasks |-> IF tTask[k].row = "building" /\ tTask[k].aged
                                      THEN [tTask[k] EXCEPT !.row = "failed"]
                                      ELSE tTask[k]]
         /\ tLeft' = [t \in Targets |-> IF tLeft[t] = "aged" THEN "none" ELSE tLeft[t]]

(* Six minutes pass without a write to a row.                              *)
Age ==
    /\ \/ \E k \in Tasks : /\ tTask[k].row = "building" /\ ~tTask[k].aged
                           /\ tTask' = [tTask EXCEPT ![k].aged = TRUE]
                           /\ UNCHANGED tLeft
       \/ \E t \in Targets : /\ tLeft[t] = "young"
                             /\ tLeft' = [tLeft EXCEPT ![t] = "aged"]
                             /\ UNCHANGED tTask
    /\ UNCHANGED <<tTip, tLive, tGood, tWanted, tQueue, tClaim, tLoop, tHeld, tLeftover>>

-----------------------------------------------------------------------------
(* Tips.                                                                   *)

(* A push or web commit wrote a new bundle; "told" is false for a bundle   *)
(* written behind the runner's back.                                       *)
Push(t, told) ==
    /\ tLeftover.pushes > 0
    /\ LET sha == MaxSha - tLeftover.pushes + 1 IN
           /\ tTip' = [tTip EXCEPT ![t] = sha]
           /\ tQueue' = IF told THEN Append(tQueue, [t |-> t, sha |-> sha]) ELSE tQueue
    /\ tHeld' = IF t = "main" THEN 0 ELSE tHeld
    /\ tLeftover' = [tLeftover EXCEPT !.pushes = @ - 1]
    /\ UNCHANGED <<tLive, tGood, tWanted, tClaim, tTask, tLeft, tLoop>>

(* spawn_tip_deploy and deploy_tip: the tip on a task of its own.          *)
SpawnTip(t, sha) ==
    \E k \in Tasks :
        /\ tTask[k].at = "free"
        /\ tTask' = [tTask EXCEPT ![k] = [Free EXCEPT !.at = "spawned", !.t = t, !.sha = sha]]

(* An environment of a stopped app is not deployed either.                 *)
Runs(t) == tWanted["main"] /\ tWanted[t]

(* The start of reconcile_once.                                            *)
TickStart ==
    /\ tLoop.at = "idle"
    /\ FailStuck
    /\ tLoop' = [Idle EXCEPT !.at = "drain", !.claimed = (tClaim # "none")]
    /\ UNCHANGED <<tTip, tLive, tGood, tWanted, tQueue, tClaim, tHeld, tLeftover>>

(* drain_tip: a tip that is stale or meets a build in flight is dropped.   *)
DrainTip ==
    /\ tLoop.at = "drain" /\ tQueue # << >>
    /\ LET n == Head(tQueue) IN
           IF /\ Runs(n.t)
              /\ tLive[n.t] # n.sha
              /\ ~tLoop.claimed
              /\ ~InFlight(n.t)
           THEN SpawnTip(n.t, n.sha)
           ELSE UNCHANGED tTask
    /\ tQueue' = Tail(tQueue)
    /\ UNCHANGED <<tTip, tLive, tGood, tWanted, tClaim, tLeft, tLoop, tHeld, tLeftover>>

(* The tick goes on to its lists; without a due sweep it ends there.       *)
TickList(due) ==
    /\ tLoop.at = "drain" /\ tQueue = << >>
    /\ tLoop' = IF due
                THEN [tLoop EXCEPT !.at = "main", !.seen = tLive["main"], !.on = tWanted["main"]]
                ELSE Idle
    /\ UNCHANGED <<tTip, tLive, tGood, tWanted, tQueue, tClaim, tTask, tLeft, tHeld, tLeftover>>

(* The sweep's own test, on the row the tick listed.                       *)
Due(t, seen, on) ==
    /\ on
    /\ ~InFlight(t)
    /\ ~tLoop.claimed
    /\ tTip[t] # 0 /\ tTip[t] # seen

(* The fallback sweep of production, then of the environment, whose row is *)
(* listed after production's.  A failed listing is logged and skipped.     *)
Sweep(fails) ==
    /\ tLoop.at \in Targets
    /\ fails => tLeftover.events > 0
    /\ IF ~fails /\ Due(tLoop.at, tLoop.seen, tLoop.on)
       THEN SpawnTip(tLoop.at, tTip[tLoop.at])
       ELSE UNCHANGED tTask
    /\ tLoop' = IF tLoop.at = "main"
                THEN [tLoop EXCEPT !.at = "env", !.seen = tLive["env"], !.on = tLoop.on /\ tWanted["env"]]
                ELSE Idle
    /\ tLeftover' = IF fails THEN [tLeftover EXCEPT !.events = @ - 1] ELSE tLeftover
    /\ UNCHANGED <<tTip, tLive, tGood, tWanted, tQueue, tClaim, tLeft, tHeld>>

-----------------------------------------------------------------------------
(* Deploys someone watches.                                                *)

(* prepare_rollback (a sha with a successful production row) and the       *)
(* redeploy of an environment at its head: the row exists before the task. *)
Explicit(t, sha) ==
    /\ tLeftover.events > 0
    /\ IF t = "main" THEN sha \in tGood ELSE sha = tTip["env"] /\ sha # 0
    /\ \E k \in Tasks :
           /\ tTask[k].at = "free"
           /\ tTask' = [tTask EXCEPT ![k] = [at |-> "waiting", t |-> t, sha |-> sha, kind |-> "explicit",
                                             row |-> "building", aged |-> FALSE]]
    /\ tLeftover' = [tLeftover EXCEPT !.events = @ - 1]
    /\ UNCHANGED <<tTip, tLive, tGood, tWanted, tQueue, tClaim, tLeft, tLoop, tHeld>>

-----------------------------------------------------------------------------
(* deploy_app.                                                             *)

(* The claim, or none: an unwatched deploy skips, a watched one waits six  *)
(* minutes and then closes its row.                                        *)
TakeClaim(k) ==
    /\ tTask[k].at \in {"spawned", "waiting"}
    /\ tClaim = "none"
    /\ tClaim' = k
    /\ tTask' = [tTask EXCEPT ![k].at = "claimed"]
    /\ UNCHANGED <<tTip, tLive, tGood, tWanted, tQueue, tLeft, tLoop, tHeld, tLeftover>>

SkipInFlight(k) ==
    /\ tClaim # "none"
    /\ \/ tTask[k].at = "spawned"
       \/ tTask[k].at = "waiting" /\ tTask[k].aged
    /\ tTask' = [tTask EXCEPT ![k] = Free]
    /\ UNCHANGED <<tTip, tLive, tGood, tWanted, tQueue, tClaim, tLeft, tLoop, tHeld, tLeftover>>

(* Mutant: an early return leaves the app claimed.                         *)
ReleaseOnSuccess(k, ok) == tClaim' = IF ok THEN "none" ELSE tClaim

(* AppClaim::drop: the claim goes with the task, however it ends.          *)
Release(k, ok) == tClaim' = "none"

(* deploy_inner re-reads the live sha under the claim: a tip that is       *)
(* already live ends there, anything else gets its building row.           *)
Dedupe(k) ==
    /\ tTask[k].at = "claimed"
    /\ IF tTask[k].kind = "tip" /\ tLive[tTask[k].t] = tTask[k].sha
       THEN tTask' = [tTask EXCEPT ![k] = Free] /\ Release(k, FALSE)
       ELSE /\ tTask' = [tTask EXCEPT ![k].at = "building", ![k].row = "building", ![k].aged = FALSE]
            /\ UNCHANGED tClaim
    /\ UNCHANGED <<tTip, tLive, tGood, tWanted, tQueue, tLeft, tLoop, tHeld, tLeftover>>

(* Progress::fail: the row is failed.                                      *)
BuildFails(k) ==
    /\ tTask[k].at = "building"
    /\ tLeftover.events > 0
    /\ tTask' = [tTask EXCEPT ![k] = Free]
    /\ Release(k, FALSE)
    /\ tLeftover' = [tLeftover EXCEPT !.events = @ - 1]
    /\ UNCHANGED <<tTip, tLive, tGood, tWanted, tQueue, tLeft, tLoop, tHeld>>

(* mark_deploy_live, before the row reads success.                         *)
GoLive(k) ==
    /\ tTask[k].at = "building"
    /\ tLive' = [tLive EXCEPT ![tTask[k].t] = tTask[k].sha]
    /\ tTask' = [tTask EXCEPT ![k].at = "live", ![k].aged = FALSE]
    /\ UNCHANGED <<tTip, tGood, tWanted, tQueue, tClaim, tLeft, tLoop, tHeld, tLeftover>>

(* The success row; a success re-applies the live sha.                     *)
Succeed(k) ==
    /\ tTask[k].at = "live"
    /\ LET t == tTask[k].t
           sha == tTask[k].sha IN
           /\ tLive' = [tLive EXCEPT ![t] = sha]
           /\ tGood' = IF t = "main" THEN tGood \cup {sha} ELSE tGood
           /\ tHeld' = IF t = "main" /\ tTask[k].kind = "explicit" /\ tTip["main"] > sha THEN sha ELSE tHeld
    /\ tTask' = [tTask EXCEPT ![k] = Free]
    /\ Release(k, TRUE)
    /\ UNCHANGED <<tTip, tWanted, tQueue, tLeft, tLoop, tLeftover>>

-----------------------------------------------------------------------------
(* Stop, resume and restart.                                               *)

SetDesired(t) ==
    /\ tWanted[t] => tLeftover.events > 0
    /\ tWanted' = [tWanted EXCEPT ![t] = ~@]
    /\ tLeftover' = IF tWanted[t] THEN [tLeftover EXCEPT !.events = @ - 1] ELSE tLeftover
    /\ UNCHANGED <<tTip, tLive, tGood, tQueue, tClaim, tTask, tLeft, tLoop, tHeld>>

(* The process dies: the channel, the claims and the tasks with it; the    *)
(* rows they were writing stay in flight.  Boot runs the stuck sweep.      *)
Restart ==
    /\ tLeftover.events > 0
    /\ tQueue' = << >>
    /\ tClaim' = "none"
    /\ tTask' = [k \in Tasks |-> Free]
    /\ tLeft' = [t \in Targets |->
                    IF \E k \in Tasks : tTask[k].t = t /\ tTask[k].row = "building" /\ ~tTask[k].aged
                    THEN "young"
                    ELSE IF tLeft[t] = "aged" THEN "none" ELSE tLeft[t]]
    /\ tLoop' = Idle
    /\ tLeftover' = [tLeftover EXCEPT !.events = @ - 1]
    /\ UNCHANGED <<tTip, tLive, tGood, tWanted, tHeld>>

-----------------------------------------------------------------------------
Init ==
    /\ tTip = [t \in Targets |-> 0]
    /\ tLive = [t \in Targets |-> 0]
    /\ tGood = {}
    /\ tWanted = [t \in Targets |-> TRUE]
    /\ tQueue = << >>
    /\ tClaim = "none"
    /\ tTask = [k \in Tasks |-> Free]
    /\ tLeft = [t \in Targets |-> "none"]
    /\ tLoop = Idle
    /\ tHeld = 0
    /\ tLeftover = [pushes |-> MaxSha, events |-> MaxEvents]

TaskStep(k) == TakeClaim(k) \/ SkipInFlight(k) \/ Dedupe(k) \/ GoLive(k) \/ Succeed(k)

Next ==
    \/ \E t \in Targets, told \in BOOLEAN : Push(t, told)
    \/ \E t \in Targets, sha \in Shas : Explicit(t, sha)
    \/ TickStart
    \/ DrainTip
    \/ \E due \in BOOLEAN : TickList(due)
    \/ \E fails \in BOOLEAN : Sweep(fails)
    \/ \E k \in Tasks : TaskStep(k)
    \/ \E k \in Tasks : BuildFails(k)
    \/ \E t \in Targets : SetDesired(t)
    \/ Age
    \/ Restart

(* The loop ticks for ever and its sweep falls due again and again; every  *)
(* task the runtime holds goes on; time passes.                            *)
Fairness ==
    /\ WF_vars(TickStart)
    /\ WF_vars(DrainTip)
    /\ SF_vars(TickList(TRUE))
    /\ WF_vars(Sweep(FALSE))
    /\ \A k \in Tasks : WF_vars(TaskStep(k))
    /\ WF_vars(Age)

Spec == Init /\ [][Next]_vars /\ Fairness

-----------------------------------------------------------------------------
TypeOK ==
    /\ tTip \in [Targets -> Shas] /\ tLive \in [Targets -> Shas] /\ tGood \subseteq Shas
    /\ tWanted \in [Targets -> BOOLEAN]
    /\ tQueue \in Seq([t : Targets, sha : Shas])
    /\ tClaim \in Tasks \cup {"none"}
    /\ tTask \in [Tasks -> TaskRecords]
    /\ tLeft \in [Targets -> {"none", "young", "aged"}]
    /\ tLoop \in [at : {"idle", "drain"} \cup Targets, claimed : BOOLEAN, seen : Shas, on : BOOLEAN]
    /\ tHeld \in Shas
    /\ tLeftover \in [pushes : Shas, events : 0 .. MaxEvents]

(* However notifications are dropped by a busy app, builds fail, the       *)
(* runner restarts with a row in flight or an older tip lands on a newer   *)
(* one, each target that is wanted ends up at its ref's tip and stays.     *)
TipSettles == \A t \in Targets : <>[](Runs(t) => tLive[t] = tTip[t])

(* What the rollback test says of a finished rollback: the earlier         *)
(* revision serves again, until someone pushes.                            *)
RollbackHolds == tHeld # 0 => tLive["main"] = tHeld
=============================================================================
