----------------------------- MODULE AppRename -----------------------------
(***************************************************************************)
(* Changing an app's slug (host/rename.rs, service/apps.rs rename): stop    *)
(* the fleet, move the local directories, move the bucket prefixes object   *)
(* by object, update the row, stop again, sweep what arrived late.  The     *)
(* reconcile loop is not held off meanwhile: a pass that read the row       *)
(* before the update may respawn the fleet of the old slug at any time.     *)
(*                                                                         *)
(* The three prefixes (git, fleets, envs) and the seven directory pairs     *)
(* move alike: one of each stands for them.  An object's content is the     *)
(* number of the write that made it, 0 for an object that is not there.     *)
(* The claim on the app and the push guards are held throughout, so no      *)
(* deploy and no push takes part; a name-only rename moves nothing.         *)
(***************************************************************************)
EXTENDS Integers, FiniteSets

CONSTANTS Objects,                          \* object keys of a prefix
          MaxWrites, MaxRenames, MaxPasses, MaxFaults

Slugs == {"old", "new"}

VARIABLES yRow,    \* the slug the app's row carries
          yData,   \* slug -> object -> write under the slug's prefix
          yDir,    \* slug -> its local directory: "none" | "empty" | "full"
          yFleet,  \* slugs with a live fleet
          yPass,   \* the slug the loop's pass in progress read, or "none"
          yMove,   \* the rename in progress: [step, objs, failed]
          yLate,   \* an old-slug fleet was up after the second stop
          yWrites, \* writes the fleets have made
          yLeft

vars == <<yRow, yData, yDir, yFleet, yPass, yMove, yLate, yWrites, yLeft>>

(* objs: where each listed object is in its move *)
Unlisted == [o \in Objects |-> "none"]
NoMove == [step |-> "idle", objs |-> Unlisted, failed |-> FALSE]

Steps == {"idle", "stop", "dirs", "list", "move", "row", "restop", "relist",
          "remove", "done", "failed"}
Moves == [step : Steps, objs : [Objects -> {"none", "todo", "copied", "moved"}],
          failed : BOOLEAN]
Lefts == [renames : 0..MaxRenames, passes : 0..MaxPasses, faults : 0..MaxFaults]
Bounds == MaxWrites \in Nat /\ MaxRenames \in Nat /\ MaxPasses \in Nat /\ MaxFaults \in Nat

TypeOK ==
    /\ yRow \in Slugs /\ yPass \in Slugs \cup {"none"} /\ yFleet \subseteq Slugs
    /\ yData \in [Slugs -> [Objects -> 0..MaxWrites + 1]]
    /\ yDir \in [Slugs -> {"none", "empty", "full"}]
    /\ yMove \in Moves
    /\ yLate \in BOOLEAN /\ yWrites \in 0..MaxWrites
    /\ yLeft \in Lefts

(* The app runs under its first slug and has stored every object once. *)
Init ==
    /\ yRow = "old" /\ yPass = "none" /\ yFleet = {"old"}
    /\ yData = [s \in Slugs |-> [o \in Objects |-> IF s = "old" THEN MaxWrites + 1 ELSE 0]]
    /\ yDir = [s \in Slugs |-> IF s = "old" THEN "full" ELSE "none"]
    /\ yMove = NoMove /\ yLate = FALSE /\ yWrites = 0
    /\ yLeft = [renames |-> MaxRenames, passes |-> MaxPasses, faults |-> MaxFaults]

Spent == yLeft.faults > 0 /\ yLeft' = [yLeft EXCEPT !.faults = @ - 1]
Go(step) == yMove' = [yMove EXCEPT !.step = step]
Fail == yMove' = [NoMove EXCEPT !.step = "failed"]

-----------------------------------------------------------------------------
(* The loop and the fleets.                                                 *)

PassReads ==
    /\ yPass = "none" /\ yLeft.passes > 0
    /\ yLeft' = [yLeft EXCEPT !.passes = @ - 1] /\ yPass' = yRow
    /\ UNCHANGED <<yRow, yData, yDir, yFleet, yMove, yLate, yWrites>>

(* ensure_fleet on the row as it was read; the orphan sweep of the same pass *)
(* stops every other slug's fleet.                                          *)
PassActs ==
    /\ yPass # "none" /\ yPass' = "none"
    /\ yFleet' = {yPass}
    /\ yDir' = IF yDir[yPass] = "none" THEN [yDir EXCEPT ![yPass] = "empty"] ELSE yDir
    /\ yLate' = (yLate \/ (yPass = "old" /\ yMove.step \in {"relist", "remove", "done"}))
    /\ UNCHANGED <<yRow, yData, yMove, yWrites, yLeft>>

FleetWrites(s, o) ==
    /\ s \in yFleet /\ yWrites < MaxWrites
    /\ yWrites' = yWrites + 1
    /\ yData' = [yData EXCEPT ![s][o] = yWrites + 1]
    /\ yDir' = [yDir EXCEPT ![s] = "full"]
    /\ UNCHANGED <<yRow, yFleet, yPass, yMove, yLate, yLeft>>

-----------------------------------------------------------------------------
(* The rename, old to new.                                                  *)

(* rename_inner: one slug change at a time (CREATE_LOCK), detached from its  *)
(* caller, and one that is already applied moves nothing.                   *)
Accepted == yMove.step \in {"idle", "failed"} /\ yRow = "old"

(* rename_app, under the app's claim and both push guards.  A retry after a  *)
(* failure starts from the beginning.                                       *)
Begin ==
    /\ Accepted /\ yLeft.renames > 0
    /\ yLeft' = [yLeft EXCEPT !.renames = @ - 1]
    /\ yMove' = [NoMove EXCEPT !.step = "stop"]
    /\ UNCHANGED <<yRow, yData, yDir, yFleet, yPass, yLate, yWrites>>

StopOld ==
    /\ yMove.step = "stop" /\ Go("dirs")
    /\ yFleet' = yFleet \ {"old"}
    /\ UNCHANGED <<yRow, yData, yDir, yPass, yLate, yWrites, yLeft>>

(* move_dir: an absent source is done, an empty target makes way, a target  *)
(* with anything in it stops the rename.                                    *)
MoveDir ==
    /\ yMove.step = "dirs"
    /\ CASE yDir["old"] = "none" -> Go("list") /\ UNCHANGED yDir
         [] yDir["old"] # "none" /\ yDir["new"] # "full" ->
              Go("list") /\ yDir' = [yDir EXCEPT !["new"] = yDir["old"], !["old"] = "none"]
         [] OTHER -> Fail /\ UNCHANGED yDir
    /\ UNCHANGED <<yRow, yData, yFleet, yPass, yLate, yWrites, yLeft>>

(* s3_list_prefix and parse_listing_keys, for the move and for the sweep.    *)
(* A listing that fails or does not parse fails the rename (R-06).          *)
Listed == [o \in Objects |-> IF yData["old"][o] # 0 THEN "todo" ELSE "none"]
UnreadAsEmpty == [NoMove EXCEPT !.step = IF yMove.step = "list" THEN "move" ELSE "remove"]
Unread == [NoMove EXCEPT !.step = "failed"]
ListOld ==
    /\ yMove.step \in {"list", "relist"}
    /\ \/ /\ yMove' = [step |-> IF yMove.step = "list" THEN "move" ELSE "remove",
                       objs |-> Listed, failed |-> FALSE]
          /\ UNCHANGED yLeft
       \/ Spent /\ yMove' = Unread
    /\ UNCHANGED <<yRow, yData, yDir, yFleet, yPass, yLate, yWrites>>

(* Eight objects at a time, each copied before its source is deleted.        *)
Moving == yMove.step \in {"move", "remove"}
DeleteFirst(o) ==
    /\ Moving /\ yMove.objs[o] = "todo" /\ UNCHANGED yLeft
    /\ yMove' = [yMove EXCEPT !.objs[o] = "copied"]
    /\ yData' = [yData EXCEPT !["old"][o] = 0]
    /\ UNCHANGED <<yRow, yDir, yFleet, yPass, yLate, yWrites>>
CopyKey(o) ==
    /\ Moving /\ yMove.objs[o] = "todo"
    /\ \/ /\ yData' = [yData EXCEPT !["new"][o] = yData["old"][o]]
          /\ yMove' = [yMove EXCEPT !.objs[o] = "copied"] /\ UNCHANGED yLeft
       \/ /\ Spent /\ yMove' = [yMove EXCEPT !.objs[o] = "moved", !.failed = TRUE]
          /\ UNCHANGED yData
    /\ UNCHANGED <<yRow, yDir, yFleet, yPass, yLate, yWrites>>

DeleteKey(o) ==
    /\ Moving /\ yMove.objs[o] = "copied"
    /\ \/ /\ yData' = [yData EXCEPT !["old"][o] = 0]
          /\ yMove' = [yMove EXCEPT !.objs[o] = "moved"] /\ UNCHANGED yLeft
       \/ /\ Spent /\ yMove' = [yMove EXCEPT !.objs[o] = "moved", !.failed = TRUE]
          /\ UNCHANGED yData
    /\ UNCHANGED <<yRow, yDir, yFleet, yPass, yLate, yWrites>>

(* Every key was tried; one error among them is the move's error. *)
MoveEnds ==
    /\ Moving /\ \A o \in Objects : yMove.objs[o] \in {"none", "moved"}
    /\ yMove' = [NoMove EXCEPT !.step =
         IF yMove.failed THEN "failed" ELSE IF yMove.step = "move" THEN "row" ELSE "done"]
    /\ UNCHANGED <<yRow, yData, yDir, yFleet, yPass, yLate, yWrites, yLeft>>

(* The environments' buckets and the row follow the data. *)
UpdateRow ==
    /\ yMove.step = "row"
    /\ \/ yRow' = "new" /\ Go("restop") /\ UNCHANGED yLeft
       \/ Spent /\ Fail /\ UNCHANGED yRow
    /\ UNCHANGED <<yData, yDir, yFleet, yPass, yLate, yWrites>>

StopAgain ==
    /\ yMove.step = "restop" /\ Go("relist")
    /\ yFleet' = yFleet \ {"old"}
    /\ UNCHANGED <<yRow, yData, yDir, yPass, yLate, yWrites, yLeft>>

(* The runner dies with the fleets it supervises. *)
Crash ==
    /\ Spent /\ yMove.step # "idle"
    /\ yMove' = NoMove /\ yFleet' = {} /\ yPass' = "none"
    /\ UNCHANGED <<yRow, yData, yDir, yLate, yWrites>>

Next ==
    \/ PassReads \/ PassActs \/ \E s \in Slugs, o \in Objects : FleetWrites(s, o)
    \/ Begin \/ StopOld \/ MoveDir \/ ListOld
    \/ \E o \in Objects : CopyKey(o) \/ DeleteKey(o)
    \/ MoveEnds \/ UpdateRow \/ StopAgain \/ Crash

Spec == Init /\ [][Next]_vars

-----------------------------------------------------------------------------
(* "a crash leaves the union of both prefixes (never a loss)"               *)
(* (move_s3_prefix): whatever fails or dies, every stored object is still   *)
(* under one of the two prefixes.                                           *)
UnionKept == \A o \in Objects : \E s \in Slugs : yData[s][o] # 0

(* A rename that reports success has left nothing under the old prefix,      *)
(* unless a pass that held the old row brought the fleet back after the     *)
(* second stop: an error anywhere in a move is the rename's error (R-06).   *)
MovedOrRefused ==
    yMove.step = "done" /\ ~yLate => \A o \in Objects : yData["old"][o] = 0

(* Why these hold.  An object leaves the old prefix only when its copy is   *)
(* under the new one, and a key that is queued was there when it was listed. *)
MoveInv ==
    \A o \in Objects :
        /\ yMove.objs[o] = "todo" => yData["old"][o] # 0
        /\ yMove.objs[o] = "copied" => yData["new"][o] # 0
        /\ yData["old"][o] # 0 \/ yData["new"][o] # 0

(* The sweep runs after the second stop: while no old-slug fleet came back,  *)
(* what it did not list, or is done with, stays absent from the old prefix. *)
SweepInv ==
    ~yLate =>
        /\ yMove.step \in {"relist", "remove", "done"} => "old" \notin yFleet
        /\ yMove.step = "remove" /\ ~yMove.failed =>
             \A o \in Objects : yMove.objs[o] \in {"none", "moved"} => yData["old"][o] = 0
        /\ MovedOrRefused

(* "kill it and re-sweep both prefixes so late writes land under the new     *)
(* slug instead of orphaning under the old one" (rename_slugged).           *)
NothingOrphaned ==
    yMove.step = "done" => \A o \in Objects : yData["old"][o] = 0
=============================================================================
