---------------------------- MODULE Containment ----------------------------
(***************************************************************************)
(* Per-fleet cgroups (host/cgroups.rs), the part of ensure_spawned that    *)
(* puts a fleet in its leaf and decides what its exit meant                *)
(* (host/supervisor.rs), and the leaf of a build step (host/exec.rs).      *)
(*                                                                         *)
(* A limit is applied or it is not; its value is not modelled.  A leaf     *)
(* counts the kernel's OOM kills in it; the counter starts at zero with    *)
(* the directory.  Time is a counter.  The lock that keeps a stop and a    *)
(* spawn of one fleet apart is FleetLifecycle's: a stop comes between      *)
(* spawns here.                                                            *)
(***************************************************************************)
EXTENDS Naturals, FiniteSets

CONSTANTS
    Fleets,     \* fleet keys
    Attempts,   \* DRAIN_ATTEMPTS
    Base,       \* the first respawn hold of a chain, in clock steps
    CrashCap,   \* CRASH_BACKOFF_CAP
    OomCap,     \* OOM_BACKOFF_CAP_SECS
    Stable,     \* uptime after which a chain starts afresh (both chains: 300 s)
    Window,     \* OOM_EVENT_WINDOW_SECS
    MaxTime,    \* BOUND: clock
    MaxKills,   \* BOUND: deaths and kernel kills
    MaxFaults   \* BOUND: refused writes, squatters, failed spawns

VARIABLES
    zSetup,   \* setup: where it is, the attempts made, whether a squatter is in the own cgroup
    zOk,      \* CGROUPS_OK
    zAnchor,  \* CGROUP_ANCHOR is set
    zLeaf,    \* fleet -> its leaf: there, limits applied, OOM kills counted
    zRun,     \* fleet -> its process tree: where it lives, what its env said, kills since it moved in
    zMap,     \* fleets in the ProcMap
    zStep,    \* fleet -> where ensure_spawned is
    zOom,     \* fleet -> OOM_FLEETS entry
    zGate,    \* fleet -> CRASH_GATES entry
    zNote,    \* fleet -> the hold of its last OOM note, and whether the kernel did kill
    zBuild,   \* the build step in its leaf
    zNow, zLeft

vars == <<zSetup, zOk, zAnchor, zLeaf, zRun, zMap, zStep, zOom, zGate, zNote, zBuild, zNow, zLeft>>

Absent == 99  \* no Instant, no baseline
NoRun == [at |-> "none", told |-> FALSE, killed |-> FALSE, since |-> 0]
NoLeaf == [there |-> FALSE, capped |-> FALSE, kills |-> 0]
NoOom == [on |-> FALSE, baseline |-> Absent, spawned |-> 0, chain |-> 0, event |-> Absent, hold |-> Absent]
NoGate == [chain |-> 0, ready |-> Absent, spawned |-> Absent]

Fault == zLeft.faults > 0 /\ zLeft' = [zLeft EXCEPT !.faults = @ - 1]
Kernel == zLeft.kills > 0 /\ zLeft' = [zLeft EXCEPT !.kills = @ - 1]

-----------------------------------------------------------------------------
(* Boot: drain the runner's own cgroup into a leaf and enable the          *)
(* controllers; a process that lands in between makes the enable EBUSY.    *)

SetupVars == <<zSetup, zOk, zAnchor>>
FleetVars == <<zLeaf, zRun, zMap, zStep, zOom, zGate, zNote, zBuild>>

(* note_limit_failed: one-way, until the next boot. *)
Trip == zOk' = FALSE

Degrade ==
    /\ zSetup' = [zSetup EXCEPT !.pc = "done"]
    /\ UNCHANGED <<zOk, zAnchor>>

Retry ==
    /\ zSetup' = IF zSetup.tries + 1 = Attempts THEN [zSetup EXCEPT !.pc = "done"]
                 ELSE [zSetup EXCEPT !.pc = "drain", !.tries = @ + 1]
    /\ UNCHANGED <<zOk, zAnchor>>

(* The mount stays read-only after one remount. *)
ReadOnly == Fault /\ Degrade

Probe ==
    /\ zSetup.pc = "probe"
    /\ \/ ReadOnly
       \/ zSetup' = [zSetup EXCEPT !.pc = "drain"] /\ UNCHANGED <<zOk, zAnchor, zLeft>>
    /\ UNCHANGED <<FleetVars, zNow>>

(* docker exec joins the container's cgroup: a healthcheck, for a moment. *)
Squat ==
    /\ zSetup.pc \in {"drain", "look", "enable"} /\ ~zSetup.squat
    /\ Fault
    /\ zSetup' = [zSetup EXCEPT !.squat = TRUE]
    /\ UNCHANGED <<zOk, zAnchor, FleetVars, zNow>>

Drain ==
    /\ zSetup.pc = "drain"
    /\ zSetup' = [zSetup EXCEPT !.pc = "look", !.squat = FALSE]
    /\ UNCHANGED <<zOk, zAnchor, FleetVars, zNow, zLeft>>

Drained ==
    /\ zSetup.pc = "look"
    /\ IF zSetup.squat THEN Retry
       ELSE zSetup' = [zSetup EXCEPT !.pc = "enable"] /\ UNCHANGED <<zOk, zAnchor>>
    /\ UNCHANGED <<FleetVars, zNow, zLeft>>

Enable ==
    /\ zSetup.pc = "enable"
    /\ \/ zSetup.squat /\ Retry /\ UNCHANGED zLeft
       \/ ~zSetup.squat /\ Fault /\ Degrade
       \/ /\ ~zSetup.squat
          /\ zSetup' = [zSetup EXCEPT !.pc = "done"]
          /\ zOk' = TRUE /\ zAnchor' = TRUE
          /\ UNCHANGED zLeft
    /\ UNCHANGED <<FleetVars, zNow>>

-----------------------------------------------------------------------------
(* The two respawn holds.                                                  *)

Backoff(chain, cap) == IF Base * 2 ^ (chain - 1) < cap THEN Base * 2 ^ (chain - 1) ELSE cap

OomReady(f) == zOom[f].hold = Absent \/ zNow >= zOom[f].hold
CrashReady(f) == zGate[f].ready = Absent \/ zNow >= zGate[f].ready

(* note_crash *)
CrashNoted(g) ==
    LET chain == 1 + IF g.spawned # Absent /\ zNow - g.spawned >= Stable THEN 0 ELSE g.chain
    IN  [g EXCEPT !.chain = chain, !.ready = zNow + Backoff(chain, CrashCap)]

(* oom_note_kill *)
KillNoted(o) ==
    LET chain == IF zNow - o.spawned < Stable THEN o.chain + 1 ELSE 1
        due == o.event = Absent \/ zNow - o.event >= Window
    IN  [o EXCEPT !.baseline = Absent, !.chain = chain,
                  !.hold = zNow + Backoff(chain, OomCap),
                  !.event = IF due THEN zNow ELSE @]

(* A variant that keeps the baseline it has. *)
BaselinedOnce(o, kills) ==
    [o EXCEPT !.on = TRUE, !.spawned = zNow, !.hold = Absent,
              !.baseline = IF @ = Absent THEN 0 ELSE @]
(* note_spawned: the kill count the next exit is compared with. *)
Baselined(o, kills) == [o EXCEPT !.on = TRUE, !.baseline = kills, !.spawned = zNow, !.hold = Absent]

(* collect_possible_oom *)
WasOom(f) ==
    /\ zAnchor /\ zLeaf[f].there
    /\ zOom[f].baseline # Absent /\ zLeaf[f].kills > zOom[f].baseline

-----------------------------------------------------------------------------
(* ensure_spawned.                                                         *)

Ready(f) == zSetup.pc = "done" /\ zStep[f] = "idle" /\ OomReady(f) /\ CrashReady(f)

(* An exited child is reaped; only an OOM kill goes on to respawn at once. *)
Reap(f) ==
    /\ Ready(f) /\ f \in zMap /\ zRun[f].at = "none"
    /\ zMap' = zMap \ {f}
    /\ IF WasOom(f)
       THEN /\ zOom' = [zOom EXCEPT ![f] = KillNoted([@ EXCEPT !.hold = Absent])]
            /\ zGate' = [zGate EXCEPT ![f] = NoGate]
            /\ zNote' = [zNote EXCEPT ![f] = [until |-> KillNoted(zOom[f]).hold, true |-> zRun[f].killed]]
            /\ zStep' = [zStep EXCEPT ![f] = "leaf"]
       ELSE /\ zOom' = [zOom EXCEPT ![f].baseline = Absent, ![f].hold = Absent]
            /\ zGate' = [zGate EXCEPT ![f] = CrashNoted(@)]
            /\ UNCHANGED <<zNote, zStep>>
    /\ UNCHANGED <<SetupVars, zLeaf, zRun, zBuild, zNow, zLeft>>

Start(f) ==
    /\ Ready(f) /\ f \notin zMap
    /\ zOom' = [zOom EXCEPT ![f].hold = Absent]
    /\ zStep' = [zStep EXCEPT ![f] = "leaf"]
    /\ UNCHANGED <<SetupVars, zLeaf, zRun, zMap, zGate, zNote, zBuild, zNow, zLeft>>

(* ensure_fleet_cgroup: no anchor and a refused limit both mean the shared *)
(* cgroup; a refused limit trips the status, a refused directory does not. *)
Leaf(f) ==
    /\ zStep[f] = "leaf"
    /\ \/ /\ zAnchor
          /\ zLeaf' = [zLeaf EXCEPT ![f].there = TRUE, ![f].capped = TRUE]
          /\ zStep' = [zStep EXCEPT ![f] = "spawnIn"]
          /\ UNCHANGED <<zOk, zLeft>>
       \/ /\ zAnchor /\ Fault
          /\ zLeaf' = [zLeaf EXCEPT ![f].there = TRUE, ![f].capped = FALSE]
          /\ Trip
          /\ zStep' = [zStep EXCEPT ![f] = "spawnOut"]
       \/ /\ zAnchor /\ ~zLeaf[f].there /\ Fault
          /\ zStep' = [zStep EXCEPT ![f] = "spawnOut"]
          /\ UNCHANGED <<zLeaf, zOk>>
       \/ /\ ~zAnchor
          /\ zStep' = [zStep EXCEPT ![f] = "spawnOut"]
          /\ UNCHANGED <<zLeaf, zOk, zLeft>>
    /\ UNCHANGED <<zSetup, zAnchor, zRun, zMap, zOom, zGate, zNote, zBuild, zNow>>

(* The child starts in the runner's cgroup, told whether a leaf is its. *)
Spawn(f) ==
    /\ zStep[f] \in {"spawnIn", "spawnOut"}
    /\ \/ /\ Fault
          /\ zStep' = [zStep EXCEPT ![f] = "idle"]
          /\ UNCHANGED <<zRun, zMap, zGate>>
       \/ /\ zRun' = [zRun EXCEPT ![f] = [at |-> "shared", told |-> zStep[f] = "spawnIn",
                                           killed |-> FALSE, since |-> zNow]]
          /\ IF zStep[f] = "spawnIn"
             THEN zStep' = [zStep EXCEPT ![f] = "move"] /\ UNCHANGED <<zMap, zGate>>
             ELSE /\ zStep' = [zStep EXCEPT ![f] = "idle"]
                  /\ zMap' = zMap \cup {f}
                  /\ zGate' = [zGate EXCEPT ![f].spawned = zNow]
          /\ UNCHANGED zLeft
    /\ UNCHANGED <<SetupVars, zLeaf, zOom, zNote, zBuild, zNow>>

Enter(f) ==
    /\ zRun' = [zRun EXCEPT ![f].at = "leaf"]
    /\ zOom' = [zOom EXCEPT ![f] = Baselined(@, zLeaf[f].kills)]
    /\ zMap' = zMap \cup {f}
    /\ zGate' = [zGate EXCEPT ![f].spawned = zNow]

(* A variant that inserts the child it could not move. *)
RefusedAnyway(f) ==
    /\ Trip
    /\ zMap' = zMap \cup {f}
    /\ zGate' = [zGate EXCEPT ![f].spawned = zNow]
    /\ UNCHANGED <<zRun, zOom>>

(* move_fleet_into_group when the kernel refuses a live pid. *)
Refused(f) ==
    /\ Trip
    /\ zRun' = [zRun EXCEPT ![f] = NoRun]
    /\ UNCHANGED <<zMap, zGate, zOom>>

Move(f) ==
    /\ zStep[f] = "move"
    /\ zStep' = [zStep EXCEPT ![f] = "idle"]
    /\ \/ zRun[f].at = "shared" /\ Enter(f) /\ UNCHANGED <<zOk, zLeft>>
       \/ zRun[f].at = "shared" /\ Fault /\ Refused(f)
       \/ zRun[f].at = "none" /\ UNCHANGED <<zRun, zOom, zMap, zGate, zOk, zLeft>>  \* Gone
    /\ UNCHANGED <<zSetup, zAnchor, zLeaf, zNote, zBuild, zNow>>

(* stop_fleet: without a process in the map the leaf and the OOM entry     *)
(* stay as they are.                                                       *)
Stop(f) ==
    /\ zStep[f] = "idle" /\ zSetup.pc = "done"
    /\ zGate[f] # NoGate \/ f \in zMap
    /\ zGate' = [zGate EXCEPT ![f] = NoGate]
    /\ IF f \in zMap
       THEN /\ zMap' = zMap \ {f}
            /\ zRun' = [zRun EXCEPT ![f] = NoRun]
            /\ \/ zLeaf' = [zLeaf EXCEPT ![f] = NoLeaf]
               \/ UNCHANGED zLeaf  \* a member outlived the kill
            /\ zOom' = [zOom EXCEPT ![f] = NoOom]
            /\ zNote' = [zNote EXCEPT ![f].until = Absent]
       ELSE UNCHANGED <<zMap, zRun, zLeaf, zOom, zNote>>
    /\ UNCHANGED <<SetupVars, zStep, zBuild, zNow, zLeft>>

-----------------------------------------------------------------------------
(* The kernel and the clock.                                               *)

Exits(f) ==
    /\ zRun[f].at # "none"
    /\ Kernel
    /\ zRun' = [zRun EXCEPT ![f].at = "none"]
    /\ UNCHANGED <<SetupVars, zLeaf, zMap, zStep, zOom, zGate, zNote, zBuild, zNow>>

(* Without memory.oom.group a kill may take a worker and leave the leader. *)
OomKill(f) ==
    /\ zRun[f].at = "leaf" /\ zLeaf[f].capped
    /\ Kernel
    /\ zLeaf' = [zLeaf EXCEPT ![f].kills = @ + 1]
    /\ \E at \in {"none", "leaf"} : zRun' = [zRun EXCEPT ![f].at = at, ![f].killed = TRUE]
    /\ UNCHANGED <<SetupVars, zMap, zStep, zOom, zGate, zNote, zBuild, zNow>>

Tick ==
    /\ zSetup.pc = "done" /\ zNow < MaxTime
    /\ zNow' = zNow + 1
    /\ UNCHANGED <<SetupVars, FleetVars, zLeft>>

-----------------------------------------------------------------------------
(* A build step in the leaf of its deploy key: it enters before exec or    *)
(* does not run, and a kill counted meanwhile is this step's.              *)

BuildStart ==
    /\ zSetup.pc = "done" /\ zBuild.pc = "idle"
    /\ \/ zBuild' = [zBuild EXCEPT !.pc = "step", !.capped = zAnchor, !.before = zBuild.kills, !.killed = FALSE] /\ UNCHANGED zLeft
       \/ zAnchor /\ Fault /\ zBuild' = [zBuild EXCEPT !.verdict = "refused"]
    /\ UNCHANGED <<SetupVars, zLeaf, zRun, zMap, zStep, zOom, zGate, zNote, zNow>>

BuildKilled ==
    /\ zBuild.pc = "step" /\ zBuild.capped /\ ~zBuild.killed
    /\ Kernel
    /\ zBuild' = [zBuild EXCEPT !.kills = @ + 1, !.killed = TRUE]
    /\ UNCHANGED <<SetupVars, zLeaf, zRun, zMap, zStep, zOom, zGate, zNote, zNow>>

BuildEnd ==
    /\ zBuild.pc = "step"
    /\ zBuild' = [zBuild EXCEPT !.pc = "idle",
                                !.verdict = IF zBuild.capped /\ zBuild.kills > zBuild.before THEN "budget" ELSE "exit"]
    /\ UNCHANGED <<SetupVars, zLeaf, zRun, zMap, zStep, zOom, zGate, zNote, zNow, zLeft>>

-----------------------------------------------------------------------------
Init ==
    /\ zSetup = [pc |-> "probe", tries |-> 0, squat |-> FALSE]
    /\ zOk = FALSE /\ zAnchor = FALSE
    /\ zLeaf = [f \in Fleets |-> NoLeaf]
    /\ zRun = [f \in Fleets |-> NoRun]
    /\ zMap = {}
    /\ zStep = [f \in Fleets |-> "idle"]
    /\ zOom = [f \in Fleets |-> NoOom]
    /\ zGate = [f \in Fleets |-> NoGate]
    /\ zNote = [f \in Fleets |-> [until |-> Absent, true |-> TRUE]]
    /\ zBuild = [pc |-> "idle", capped |-> FALSE, kills |-> 0, before |-> 0, killed |-> FALSE, verdict |-> "none"]
    /\ zNow = 0
    /\ zLeft = [kills |-> MaxKills, faults |-> MaxFaults]

Next ==
    \/ Probe \/ Squat \/ Drain \/ Drained \/ Enable
    \/ \E f \in Fleets :
         \/ Reap(f) \/ Start(f) \/ Leaf(f) \/ Spawn(f) \/ Move(f) \/ Stop(f)
         \/ Exits(f) \/ OomKill(f)
    \/ BuildStart \/ BuildKilled \/ BuildEnd \/ Tick

Spec == Init /\ [][Next]_vars

-----------------------------------------------------------------------------
TypeOK ==
    /\ zSetup.pc \in {"probe", "drain", "look", "enable", "done"} /\ zSetup.tries \in 0..Attempts
    /\ zMap \subseteq Fleets
    /\ \A f \in Fleets : zRun[f].at \in {"none", "shared", "leaf"}
                         /\ zStep[f] \in {"idle", "leaf", "spawnIn", "spawnOut", "move"}
    /\ zBuild.verdict \in {"none", "refused", "budget", "exit"}

(* The states behind those types, without the holds' values.              *)
Setups == [pc : {"probe", "drain", "look", "enable", "done"}, tries : 0..Attempts - 1,
           squat : BOOLEAN]
Runs == [at : {"none", "shared", "leaf"}, told : BOOLEAN, killed : BOOLEAN, since : Nat]
Leaves == [there : BOOLEAN, capped : BOOLEAN, kills : Nat]
Steps == {"idle", "leaf", "spawnIn", "spawnOut", "move"}
Bounds == Attempts \in Nat \ {0} /\ MaxTime \in Nat /\ MaxKills \in Nat /\ MaxFaults \in Nat
StateOK ==
    /\ zSetup \in Setups
    /\ zLeaf \in [Fleets -> Leaves] /\ zRun \in [Fleets -> Runs]
    /\ zMap \subseteq Fleets /\ zStep \in [Fleets -> Steps]
    /\ DOMAIN zOom = Fleets /\ \A f \in Fleets : DOMAIN zOom[f] = DOMAIN NoOom
    /\ DOMAIN zNote = Fleets /\ \A f \in Fleets : DOMAIN zNote[f] = {"until", "true"}
    /\ DOMAIN zBuild = {"pc", "capped", "kills", "before", "killed", "verdict"}
    /\ zBuild.verdict \in {"none", "refused", "budget", "exit"}
    /\ zNow \in Nat

(* A live fleet in the process map whose environment said its memory scope *)
(* is its own leaf is in that leaf, under its limits, whatever was refused *)
(* or died on the way (supervisor.rs move_fleet_into_group).               *)
ToldIsContained ==
    \A f \in zMap : zRun[f].at # "none" /\ zRun[f].told => zRun[f].at = "leaf" /\ zLeaf[f].capped

(* A restart is put down to memory, with the event the tenant reads, only  *)
(* when the kernel killed in that fleet's leaf since that fleet's own      *)
(* process moved in, never for a kill of an earlier one the leaf still     *)
(* counts (cgroups.rs note_spawned, oom_kills_since_spawn).                *)
OomNotesTrue == \A f \in Fleets : zNote[f].true

(* Why: a spawn under way has no process in the map, and its leaf is under  *)
(* its limits from the moment the spawn was promised one until it is in.   *)
LeafInv ==
    /\ \A f \in Fleets : zStep[f] # "idle" => f \notin zMap
    /\ \A f \in Fleets : zStep[f] \in {"spawnIn", "move"} => zLeaf[f].capped
    /\ ToldIsContained

(* And a baseline belongs to the process in the map: a count above it is    *)
(* that process's own kill.                                                *)
KillInv ==
    /\ \A f \in Fleets \ zMap : zOom[f].baseline = Absent
    /\ \A f \in zMap : zOom[f].baseline # Absent /\ zLeaf[f].kills > zOom[f].baseline => zRun[f].killed
    /\ OomNotesTrue

(* "A fleet backing off after consecutive OOM kills is not respawned until *)
(* its hold passes" (supervisor.rs ensure_spawned): no process of the      *)
(* fleet starts before the hold of its last noted kill.                    *)
OomHoldsRespawn ==
    \A f \in Fleets : zRun[f].at # "none" /\ zNote[f].until # Absent => zRun[f].since >= zNote[f].until

(* A fleet runs outside its leaf only when the status says so: "an         *)
(* explicit, surfaced status ... never a silent no-op" (cgroups.rs).       *)
UncappedIsTold ==
    \A f \in zMap : zRun[f].at = "shared" => ~zOk
=============================================================================
