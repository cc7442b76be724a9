---------------------------- MODULE BootUpgrade ----------------------------
(***************************************************************************)
(* One install across images: what a boot does to the runner database, to  *)
(* the telemetry file next to it and to the control UI in the bucket       *)
(* before it serves, and how the supervised control node is stopped        *)
(* (schema_version.rs, db/mod.rs, db/metrics.rs, host/control.rs,          *)
(* host/children.rs, main.rs).  A crash may fall between any two steps;    *)
(* the next boot may be another image or the same one with other settings. *)
(*                                                                         *)
(* A schema version is a number and the shape of a database the set of     *)
(* versions whose change it carries.  The ten telemetry tables are two:    *)
(* "stat" stands for those whose primary key gains the environment, "log"  *)
(* for those without one.  A control revision is an image and a settings   *)
(* value; the bundle's bytes are left out.                                 *)
(***************************************************************************)
EXTENDS Integers, Sequences, FiniteSets

CONSTANTS Schema,    \* the schema version each image understands
          Kind,      \* what the step to each version is
          Confs,     \* settings the control worker's vars are made of
          MaxBoots, MaxFaults

VARIABLES kBoot,   \* [step, image, conf, table, changed, tries]
          kDb,     \* [stamp, shape, replays]: the main database
          kSnap,   \* its last snapshot in the bucket
          kMet,    \* the telemetry tables of the attached file
          kCtl,    \* [bundle, marker, owed]: the control prefix and ui/revision
          kSup,    \* the supervised control child and its stop
          kLeft    \* boots and faults still allowed

vars == <<kBoot, kDb, kSnap, kMet, kCtl, kSup, kLeft>>

Images == DOMAIN Schema
Tables == <<"stat", "log">>
Rebuilt == {"stat"}
Off == [step |-> "off", image |-> 1, conf |-> CHOOSE c \in Confs : TRUE,
        table |-> 1, changed |-> FALSE, tries |-> 0]
NoRev == <<0, Off.conf>>
Latest == Schema[kBoot.image]
Steps == {"off", "attach", "schema", "column", "rebuild", "drop", "index",
          "token", "compare", "deploy", "store", "served"}
Idle == [pc |-> "none", alive |-> FALSE, pid |-> FALSE, read |-> FALSE,
         stop |-> FALSE, stopper |-> "none"]

Empty == [stamp |-> 0, shape |-> {}, replays |-> 0]
Unstamped == [stamp |-> 0, shape |-> {1}, replays |-> 0]
OldTable == [env |-> FALSE, pk |-> FALSE, idx |-> "old"]
NewTable == [env |-> TRUE, pk |-> TRUE, idx |-> "new"]
NoTable == [env |-> FALSE, pk |-> FALSE, idx |-> "gone"]
Every(t) == [n \in {"stat", "log"} |-> t]

Boots == [step : Steps, image : Images, conf : Confs, table : 1..2, changed : BOOLEAN,
          tries : 0..5]
Bases == [stamp : 0..Len(Kind), shape : SUBSET (1..Len(Kind)), replays : 0..2]
TableRows == [env : BOOLEAN, pk : BOOLEAN, idx : {"gone", "none", "old", "new"}]
Revisions == (0..Len(Schema)) \X Confs
Controls == [bundle : Revisions, marker : Revisions, owed : BOOLEAN]
Sups == [pc : {"none", "check", "spawn", "wait", "sleep", "done"},
         alive : BOOLEAN, pid : BOOLEAN, read : BOOLEAN, stop : BOOLEAN,
         stopper : {"none", "asked", "waiting", "returned"}]
Lefts == [boots : 0..MaxBoots, faults : 0..MaxFaults]

(* What MIGRATIONS and the images satisfy: a version is numbered from the   *)
(* baseline on, an image understands one of them, and one step moves data.  *)
Bounds ==
    /\ Kind \in Seq({"base", "table", "indexed", "data", "column"}) /\ Kind # << >>
    /\ \A v, w \in DOMAIN Kind : Kind[v] = "data" /\ Kind[w] = "data" => v = w
    /\ Schema \in Seq(1..Len(Kind)) /\ Schema # << >>
    /\ Confs # {}
    /\ MaxBoots \in Nat /\ MaxFaults \in Nat

TypeOK ==
    /\ kBoot \in Boots
    /\ kDb \in Bases /\ kSnap \in Bases
    /\ kMet \in [{"stat", "log"} -> TableRows]
    /\ kCtl \in Controls
    /\ kSup \in Sups
    /\ kLeft \in Lefts

Init ==
    /\ kBoot = Off /\ kDb = Empty /\ kSnap = Empty /\ kMet = Every(NoTable)
    /\ kCtl = [bundle |-> NoRev, marker |-> NoRev, owed |-> FALSE]
    /\ kSup = Idle
    /\ kLeft = [boots |-> MaxBoots, faults |-> MaxFaults]

To(s) == kBoot' = [kBoot EXCEPT !.step = s]
Fault == kLeft' = [kLeft EXCEPT !.faults = @ - 1]
(* An error `main` returns ends the process: nothing of the boot is kept but *)
(* what was committed.                                                       *)
Refuse == kBoot' = Off

-----------------------------------------------------------------------------
(* The volume and the container.                                            *)

(* A volume from before versioning: tables, no stamp, the old telemetry file. *)
OldVolume ==
    /\ kBoot.step = "off" /\ kDb = Empty /\ kLeft.boots = MaxBoots
    /\ kDb' = Unstamped /\ kMet' = Every(OldTable)
    /\ UNCHANGED <<kBoot, kSnap, kCtl, kSup, kLeft>>

Start(i, c) ==
    /\ kBoot.step = "off" /\ kLeft.boots > 0
    /\ kBoot' = [Off EXCEPT !.step = "attach", !.image = i, !.conf = c]
    /\ kSup' = Idle
    /\ kLeft' = [kLeft EXCEPT !.boots = @ - 1]
    /\ UNCHANGED <<kDb, kSnap, kMet, kCtl>>

(* The process dies: its children are killed with it. *)
Crash ==
    /\ kBoot.step # "off" /\ kLeft.faults > 0
    /\ kBoot' = Off /\ kSup' = Idle /\ Fault
    /\ kCtl' = [kCtl EXCEPT !.owed = @ \/ (kBoot.step = "store")]
    /\ UNCHANGED <<kDb, kSnap, kMet>>

(* The volume is lost: the next boot restores the snapshot, without telemetry. *)
LoseVolume ==
    /\ kBoot.step = "off" /\ kLeft.faults > 0 /\ kLeft.boots < MaxBoots
    /\ kDb' = kSnap /\ kMet' = Every(NoTable) /\ Fault
    /\ UNCHANGED <<kBoot, kSnap, kCtl, kSup>>

-----------------------------------------------------------------------------
(* db::connect.                                                             *)

(* attach_metrics: CREATE IF NOT EXISTS of every table and index; an index  *)
(* name that is already there is left alone whatever its columns.           *)
AttachMetrics ==
    /\ kBoot.step = "attach"
    /\ IF \E t \in DOMAIN kMet : kMet[t].idx = "none" /\ ~kMet[t].env
       THEN Refuse /\ UNCHANGED kMet
       ELSE /\ To("schema")
            /\ kMet' = [t \in DOMAIN kMet |->
                           CASE kMet[t].idx = "gone" -> NewTable
                             [] kMet[t].idx = "none" -> [kMet[t] EXCEPT !.idx = "new"]
                             [] OTHER -> kMet[t]]
    /\ UNCHANGED <<kDb, kSnap, kCtl, kSup, kLeft>>

(* plan: the migrations above the stored version, none for a fresh database; *)
(* a populated database without a stamp is the baseline.                     *)
Plan(db, latest) ==
    LET from == IF db.stamp = 0 THEN (IF db.shape # {} THEN 1 ELSE latest)
                ELSE db.stamp
    IN from + 1 .. latest

(* What schema.sql adds: every table of its version, and the columns of the *)
(* tables it creates.                                                       *)
SchemaSql(shape, latest) ==
    IF shape = {} THEN {v \in 1..latest : Kind[v] # "data"}
    ELSE shape \cup {v \in 1..latest : Kind[v] = "table"}
(* A column step fails on a column that is there; an index of schema.sql    *)
(* fails on a column that is not.                                           *)
Breaks(shape, steps, latest) ==
    \/ \E v \in steps : Kind[v] \in {"column", "indexed"} /\ v \in shape
    \/ \E v \in 1..latest : Kind[v] = "indexed" /\ v \notin SchemaSql(shape \cup steps, latest)

ApplySchema ==
    /\ kBoot.step = "schema"
    /\ LET steps == Plan(kDb, Latest) IN
       IF kDb.stamp > Latest \/ Breaks(kDb.shape, steps, Latest)
       THEN Refuse /\ UNCHANGED kDb
       ELSE /\ To("column")
            /\ kDb' = [stamp |-> Latest,
                       shape |-> SchemaSql(kDb.shape \cup steps, Latest),
                       replays |-> kDb.replays
                                     + Cardinality({v \in steps : Kind[v] = "data"})]
    /\ UNCHANGED <<kSnap, kMet, kCtl, kSup, kLeft>>

(* ensure_environment_telemetry, table by table: the column, the rebuild    *)
(* under the new key (one transaction, which drops the table's index), the  *)
(* old index, the new one.                                                  *)
AddColumn ==
    LET t == Tables[kBoot.table] IN
    /\ kBoot.step = "column"
    /\ kBoot' = [kBoot EXCEPT !.step = "rebuild", !.changed = ~kMet[t].env]
    /\ kMet' = [kMet EXCEPT ![t].env = TRUE]
    /\ UNCHANGED <<kDb, kSnap, kCtl, kSup, kLeft>>

NeedsRebuildIfAdded(t) == t \in Rebuilt /\ kBoot.changed
NeedsRebuild(t) == t \in Rebuilt /\ ~kMet[t].pk
Rebuild ==
    LET t == Tables[kBoot.table] IN
    /\ kBoot.step = "rebuild"
    /\ IF NeedsRebuild(t)
       THEN /\ kMet' = [kMet EXCEPT ![t] = [@ EXCEPT !.pk = TRUE, !.idx = "none"]]
            /\ kBoot' = [kBoot EXCEPT !.step = "drop", !.changed = TRUE]
       ELSE To("drop") /\ UNCHANGED kMet
    /\ UNCHANGED <<kDb, kSnap, kCtl, kSup, kLeft>>

DropIndex ==
    LET t == Tables[kBoot.table] IN
    /\ kBoot.step = "drop"
    /\ kMet' = IF kBoot.changed THEN [kMet EXCEPT ![t].idx = "none"] ELSE kMet
    /\ To("index")
    /\ UNCHANGED <<kDb, kSnap, kCtl, kSup, kLeft>>

MakeIndex ==
    LET t == Tables[kBoot.table] IN
    /\ kBoot.step = "index"
    /\ kMet' = IF kMet[t].idx = "none" THEN [kMet EXCEPT ![t].idx = "new"] ELSE kMet
    /\ kBoot' = IF kBoot.table < Len(Tables)
                THEN [kBoot EXCEPT !.step = "column", !.table = @ + 1]
                ELSE [kBoot EXCEPT !.step = "token"]
    /\ UNCHANGED <<kDb, kSnap, kCtl, kSup, kLeft>>

-----------------------------------------------------------------------------
(* The control fleet.                                                       *)

(* Three attempts at the operator token; without one it does not run. *)
ControlToken ==
    /\ kBoot.step = "token"
    /\ \/ To("compare") /\ UNCHANGED kLeft
       \/ kLeft.faults > 0 /\ To("served") /\ Fault
    /\ UNCHANGED <<kDb, kSnap, kMet, kCtl, kSup>>

Revision == <<kBoot.image, kBoot.conf>>

CompareStoresFirst ==
    /\ kBoot.step = "compare"
    /\ IF kCtl.marker = Revision
       THEN To("served") /\ kSup' = [Idle EXCEPT !.pc = "check"] /\ UNCHANGED kCtl
       ELSE To("deploy") /\ kCtl' = [kCtl EXCEPT !.marker = Revision] /\ UNCHANGED kSup
    /\ UNCHANGED <<kDb, kSnap, kMet, kLeft>>
(* fetch_marker: an unreadable marker reads as none. *)
CompareMarker ==
    /\ kBoot.step = "compare"
    /\ \/ /\ kCtl.marker = Revision
          /\ To("served") /\ kSup' = [Idle EXCEPT !.pc = "check"] /\ UNCHANGED kLeft
       \/ kCtl.marker # Revision /\ To("deploy") /\ UNCHANGED <<kSup, kLeft>>
       \/ kLeft.faults > 0 /\ To("deploy") /\ Fault /\ UNCHANGED kSup
    /\ UNCHANGED <<kDb, kSnap, kMet, kCtl>>

(* celld deploy, up to five times.  One that times out may have landed; a   *)
(* deploy that failed for good is a warning and the fleet starts anyway.    *)
DeployControl ==
    /\ kBoot.step = "deploy"
    /\ \/ /\ To("store") /\ UNCHANGED <<kSup, kLeft>>
          /\ kCtl' = [kCtl EXCEPT !.bundle = Revision]
       \/ /\ kLeft.faults > 0 /\ Fault
          /\ kBoot' = IF kBoot.tries < 4 THEN [kBoot EXCEPT !.tries = @ + 1]
                      ELSE [kBoot EXCEPT !.step = "served"]
          /\ kSup' = IF kBoot.tries < 4 THEN kSup ELSE [Idle EXCEPT !.pc = "check"]
          /\ \/ UNCHANGED kCtl
             \/ kCtl' = [kCtl EXCEPT !.bundle = Revision, !.owed = TRUE]
    /\ UNCHANGED <<kDb, kSnap, kMet>>

StoreMarker ==
    /\ kBoot.step = "store"
    /\ To("served") /\ kSup' = [Idle EXCEPT !.pc = "check"]
    /\ \/ kCtl' = [kCtl EXCEPT !.marker = Revision, !.owed = FALSE] /\ UNCHANGED kLeft
       \/ kLeft.faults > 0 /\ Fault /\ kCtl' = [kCtl EXCEPT !.owed = TRUE]
    /\ UNCHANGED <<kDb, kSnap, kMet>>

-----------------------------------------------------------------------------
(* children::Supervised: the task that keeps the child running.  It looks   *)
(* at the stop flag, spawns, mirrors the pid, waits, and backs off.         *)

SupCheck ==
    /\ kSup.pc = "check"
    /\ kSup' = [kSup EXCEPT !.pc = IF kSup.stop THEN "done" ELSE "spawn"]
    /\ UNCHANGED <<kBoot, kDb, kSnap, kMet, kCtl, kLeft>>

SupSpawn ==
    /\ kSup.pc = "spawn"
    /\ \/ kSup' = [kSup EXCEPT !.pc = "wait", !.alive = TRUE, !.pid = TRUE] /\ UNCHANGED kLeft
       \/ kLeft.faults > 0 /\ Fault /\ kSup' = [kSup EXCEPT !.pc = "sleep"]
    /\ UNCHANGED <<kBoot, kDb, kSnap, kMet, kCtl>>

(* The child exits: by itself, or on the SIGTERM it was sent. *)
ChildExit ==
    /\ kSup.alive
    /\ \/ kSup.read /\ UNCHANGED kLeft
       \/ kLeft.faults > 0 /\ Fault
    /\ kSup' = [kSup EXCEPT !.alive = FALSE]
    /\ UNCHANGED <<kBoot, kDb, kSnap, kMet, kCtl>>

SupWaited ==
    /\ kSup.pc = "wait" /\ ~kSup.alive
    /\ kSup' = [kSup EXCEPT !.pid = FALSE, !.pc = IF kSup.stop THEN "done" ELSE "sleep"]
    /\ UNCHANGED <<kBoot, kDb, kSnap, kMet, kCtl, kLeft>>

SupSlept ==
    /\ kSup.pc = "sleep"
    /\ kSup' = [kSup EXCEPT !.pc = "check"]
    /\ UNCHANGED <<kBoot, kDb, kSnap, kMet, kCtl, kLeft>>

(* stop: the flag, then the pid of that moment, SIGTERM if there is one. *)
AskStop ==
    /\ kBoot.step = "served" /\ kSup.stopper = "none"
    /\ kSup' = [kSup EXCEPT !.stop = TRUE, !.stopper = "asked"]
    /\ UNCHANGED <<kBoot, kDb, kSnap, kMet, kCtl, kLeft>>

SendTerm ==
    /\ kSup.stopper = "asked"
    /\ kSup' = [kSup EXCEPT !.read = kSup.pid, !.stopper = "waiting"]
    /\ UNCHANGED <<kBoot, kDb, kSnap, kMet, kCtl, kLeft>>

StopFinished ==
    /\ kSup.stopper = "waiting" /\ kSup.pc \in {"done", "none"}
    /\ kSup' = [kSup EXCEPT !.stopper = "returned"]
    /\ UNCHANGED <<kBoot, kDb, kSnap, kMet, kCtl, kLeft>>

(* The budget runs out: SIGKILL to the pid as it is now.  A spawn has no    *)
(* await in it and is over long before.                                     *)
KillFirstPid == kSup' = [kSup EXCEPT !.alive = @ /\ ~kSup.read, !.stopper = "returned"]
KillAtBudget == kSup' = [kSup EXCEPT !.alive = @ /\ ~kSup.pid, !.stopper = "returned"]
StopBudget ==
    /\ kSup.stopper = "waiting" /\ kSup.pc \notin {"done", "none", "spawn"}
    /\ KillAtBudget
    /\ UNCHANGED <<kBoot, kDb, kSnap, kMet, kCtl, kLeft>>

(* After the children, the final snapshot; then the process ends. *)
Shutdown ==
    /\ kBoot.step = "served" /\ kSup.stopper = "returned"
    /\ kBoot' = Off /\ kSup' = Idle /\ kSnap' = kDb
    /\ UNCHANGED <<kDb, kMet, kCtl, kLeft>>

Next ==
    \/ OldVolume \/ Crash \/ LoseVolume
    \/ \E i \in Images, c \in Confs : Start(i, c)
    \/ AttachMetrics \/ ApplySchema \/ AddColumn \/ Rebuild \/ DropIndex \/ MakeIndex
    \/ ControlToken \/ CompareMarker \/ DeployControl \/ StoreMarker
    \/ SupCheck \/ SupSpawn \/ ChildExit \/ SupWaited \/ SupSlept
    \/ AskStop \/ SendTerm \/ StopFinished \/ StopBudget \/ Shutdown

Spec == Init /\ [][Next]_vars

-----------------------------------------------------------------------------
(* A runner past db::connect works on the shape its code expects, whichever *)
(* volume, image or snapshot it started from and wherever earlier boots     *)
(* were killed: the stamp and the columns of its own version, the one-time  *)
(* data step run at most once, and every telemetry table keyed by           *)
(* environment (the upserts name that key) with an index.                   *)
ServedShape ==
    kBoot.step \in {"token", "compare", "deploy", "store", "served"} =>
        /\ kDb.stamp = Latest
        /\ {v \in 1..Latest : Kind[v] # "data"} \subseteq kDb.shape
        /\ kDb.shape \subseteq 1..Latest
        /\ kDb.replays <= 1
        /\ \A t \in DOMAIN kMet : kMet[t].env /\ kMet[t].idx \in {"old", "new"}
        /\ \A t \in Rebuilt : kMet[t].pk

(* Why the main database has its shape: it is fresh, from before versioning, *)
(* or carries every change up to its stamp and none above, its snapshot     *)
(* too, and a data step that ran is one below the stamp.                    *)
Sound(db) ==
    \/ db = Empty
    \/ db = Unstamped
    \/ /\ db.stamp > 0
       /\ {v \in 1..db.stamp : Kind[v] # "data"} \subseteq db.shape
       /\ db.shape \subseteq 1..db.stamp
       /\ db.replays <= 1
       /\ db.replays > 0 => \E v \in 1..db.stamp : Kind[v] = "data"
ShapeInv ==
    /\ Sound(kDb) /\ Sound(kSnap)
    /\ kBoot.step \notin {"off", "attach", "schema"} => kDb.stamp = Latest

(* Why the telemetry file has it: after attach_metrics every table has an   *)
(* index but the one the upgrade is at, and those it is past are upgraded.  *)
Upgraded(t) == kMet[t].env /\ (t \in Rebuilt => kMet[t].pk)
Indexed(t) == kMet[t].idx \in {"old", "new"}
Upgrading == {"column", "rebuild", "drop", "index"}
TableInv ==
    /\ kBoot.step \in {"schema"} \cup Upgrading =>
           \A k \in 1..2 : /\ k # kBoot.table \/ kBoot.step \in {"schema", "column"} => Indexed(Tables[k])
                           /\ kBoot.step \in Upgrading /\ k < kBoot.table => Upgraded(Tables[k])
    /\ kBoot.step \in {"attach", "schema"} => kBoot.table = 1
    /\ kBoot.step \in {"rebuild", "drop", "index"} =>
           /\ kMet[Tables[kBoot.table]].env /\ kMet[Tables[kBoot.table]].idx # "gone"
           /\ kBoot.step # "rebuild" => Upgraded(Tables[kBoot.table])
    /\ kBoot.step \in {"token", "compare", "deploy", "store", "served"} =>
           \A k \in 1..2 : Indexed(Tables[k]) /\ Upgraded(Tables[k])

(* The control node runs the bundle and the vars of the image that started  *)
(* it when its revision gate skipped the deploy, unless an earlier deploy   *)
(* landed without its marker (a failed upload, a kill in between, or a      *)
(* deploy reported as failed).                                              *)
GateServesRevision ==
    kSup.pc # "none" /\ kCtl.marker = Revision /\ ~kCtl.owed => kCtl.bundle = Revision

(* Why: the marker lags behind the bundle only while a deploy stores it, or  *)
(* is owed.                                                                 *)
GateInv ==
    /\ kBoot.step = "store" => kCtl.bundle = Revision
    /\ kBoot.step # "store" /\ ~kCtl.owed => kCtl.bundle = kCtl.marker

(* Once `stop` of the supervised child has returned, the child is gone: the *)
(* final snapshot and the exit come after it.                               *)
StoppedMeansGone == kSup.stopper = "returned" => ~kSup.alive

(* Why: a live child is the one whose pid is mirrored, and after the stop   *)
(* flag nothing spawns but what had passed its check.                       *)
StopInv ==
    /\ StoppedMeansGone
    /\ kSup.alive => kSup.pc = "wait" /\ kSup.pid
    /\ kSup.stopper # "none" => kSup.stop
    /\ kSup.stopper = "returned" => kSup.pc # "spawn"

(* What the gate promises without that exception ("Deploy the baked bundle  *)
(* when revision differs"): the fleet runs its own revision.                *)
ControlRunsItsRevision ==
    kSup.pc # "none" /\ kCtl.marker = Revision => kCtl.bundle = Revision

(* The upgrade extends the indexes too ("extend the PKs and indexes to      *)
(* include it"): no served table keeps an index of the old shape.           *)
IndexesFollowShape ==
    kBoot.step = "served" => \A t \in DOMAIN kMet : kMet[t].idx = "new"
=============================================================================
