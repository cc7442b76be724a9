---------------------------- MODULE RunnerState ----------------------------
(***************************************************************************)
(* The runner's SQLite database held in the bucket (host/state.rs): the    *)
(* boot that restores it and claims the bucket, the task that notices      *)
(* writes and uploads snapshots, the admin and shutdown snapshots beside   *)
(* it, and several runners on one bucket, as during a replacement.         *)
(*                                                                         *)
(* A database is the set of writes it holds; a hash of its bytes tells two *)
(* databases apart exactly when they hold different writes.  A PUT takes   *)
(* effect in one step.  The timers of the upload schedule are left out.    *)
(***************************************************************************)
EXTENDS Naturals

CONSTANTS
    Runners,      \* hosts, each with a volume of its own
    Nobody,       \* no runner
    MaxWrites,    \* bound: database writes
    MaxBoots,     \* bound: boots
    MaxFaults,    \* bound: failed requests and lost volumes
    MaxCancels    \* bound: admin requests whose client goes away

ASSUME RunnersAssumption == Nobody \notin Runners

ASSUME StateBounds ==
    MaxWrites \in Nat /\ MaxBoots \in Nat /\ MaxFaults \in Nat /\ MaxCancels \in Nat

VARIABLES
    vol,       \* NOITE_DB on each runner's volume
    state,     \* runner/state/noite.sqlite.zst
    by,        \* who wrote it (not recorded there)
    meta,      \* runner/state/noite.sqlite.meta.json
    owner,     \* runner/state/owner.json: the instance that claimed last
    phase,     \* where each runner's process is
    inst,      \* the runner's instance id
    own,       \* StateSync.owner: FALSE once it has seen another's claim
    dirty,     \* StateSync.dirty
    gen,       \* StateSync.generation
    hash,      \* StateSync.last_hash
    seen,      \* the data_version the sync task read last
    held,      \* StateSync.snapshot_lock
    at,        \* where each caller of snapshot_now is
    shot,      \* the VACUUM output it works on
    written, boots, faults, cancels    \* how often each has happened

store   == <<state, by, meta, owner>>
memory  == <<own, dirty, gen, hash, seen, held, at, shot>>
spent   == <<written, boots, faults, cancels>>
vars    == <<vol, store, phase, inst, memory, spent>>

Writes  == 1 .. MaxWrites
Files   == [there: BOOLEAN, has: SUBSET Writes]
Missing == [there |-> FALSE, has |-> {}]
File(s) == [there |-> TRUE, has |-> s]
Metas   == [there: BOOLEAN, gen: Nat, has: SUBSET Writes]

Callers == {"tick", "admin", "final"}
Snaps   == Runners \X Callers
Phases  == {"down", "restore", "meta", "owner", "connect", "up", "stopping"}
Labels  == {"idle", "queued", "check", "vacuum", "upload", "meta", "done"}
Me(r)   == <<r, inst[r]>>
Running(r) == phase[r] \in {"up", "stopping"}

Fault == faults < MaxFaults /\ faults' = faults + 1

-----------------------------------------------------------------------------
(* Boot: restore_if_missing, claim, connect.                               *)

Goto(r, p) == phase' = [phase EXCEPT ![r] = p]

\* A new process: StateSync::new, with a fresh instance id.
Boot(r) ==
    /\ phase[r] = "down" /\ boots < MaxBoots
    /\ boots' = boots + 1
    /\ inst' = [inst EXCEPT ![r] = @ + 1]
    /\ Goto(r, "restore")
    /\ UNCHANGED <<vol, store, memory, written, faults, cancels>>

\* Mutant: any failed download reads as "no snapshot".
RestoreOrFresh(r) ==
    /\ phase[r] = "restore"
    /\ \/ /\ vol' = IF vol[r].there THEN vol ELSE [vol EXCEPT ![r] = state]
          /\ UNCHANGED faults
       \/ ~vol[r].there /\ Fault /\ UNCHANGED vol
    /\ Goto(r, "meta")
    /\ UNCHANGED <<store, inst, memory, written, boots, cancels>>

\* A local file wins; a missing snapshot starts fresh, any other error fails
\* the boot.
Restore(r) ==
    /\ phase[r] = "restore"
    /\ \/ /\ vol' = IF vol[r].there THEN vol ELSE [vol EXCEPT ![r] = state]
          /\ Goto(r, "meta") /\ UNCHANGED faults
       \/ ~vol[r].there /\ Fault /\ Goto(r, "down") /\ UNCHANGED vol
    /\ UNCHANGED <<store, inst, memory, written, boots, cancels>>

\* The claim continues the stored generation and seeds the identical-skip.
\* main only warns when it fails and boots on without it.
ClaimMeta(r) ==
    /\ phase[r] = "meta"
    /\ \/ /\ Goto(r, "owner")
          /\ gen' = [gen EXCEPT ![r] = meta.gen]
          /\ hash' = [hash EXCEPT ![r] = [there |-> meta.there, has |-> meta.has]]
          /\ UNCHANGED faults
       \/ Fault /\ Goto(r, "connect") /\ UNCHANGED <<gen, hash>>
    /\ UNCHANGED <<vol, store, inst, own, dirty, seen, held, at, shot, written, boots, cancels>>

\* Mutant: the claim names the host and not its instance.
ClaimOwnerHost(r) ==
    /\ phase[r] = "owner"
    /\ owner' = r
    /\ Goto(r, "connect")
    /\ UNCHANGED <<vol, state, by, meta, inst, memory, spent>>

\* A failed PUT may still have landed.
ClaimOwner(r) ==
    /\ phase[r] = "owner"
    /\ \/ owner' = Me(r) /\ UNCHANGED faults
       \/ Fault /\ owner' \in {owner, Me(r)}
    /\ Goto(r, "connect")
    /\ UNCHANGED <<vol, state, by, meta, inst, memory, written, boots, cancels>>

Connect(r) ==
    /\ phase[r] = "connect"
    /\ vol' = IF vol[r].there THEN vol ELSE [vol EXCEPT ![r] = File({})]
    /\ Goto(r, "up")
    /\ UNCHANGED <<store, inst, memory, spent>>

BootStep(r) == Restore(r) \/ ClaimMeta(r) \/ ClaimOwner(r) \/ Connect(r)

-----------------------------------------------------------------------------
(* Noticing writes.                                                        *)

\* A committed write.  An API call also marks the state dirty when it answers;
\* the rest (boot, deploys, the reconcile loop) is left to the poller.
DbWrite(r, api) ==
    /\ Running(r) /\ (api => phase[r] = "up") /\ written < MaxWrites
    /\ written' = written + 1
    /\ vol' = [vol EXCEPT ![r].has = @ \cup {written + 1}]
    /\ dirty' = [dirty EXCEPT ![r] = @ \/ api]
    /\ UNCHANGED <<store, phase, inst, own, gen, hash, seen, held, at, shot, boots, faults, cancels>>

\* One pass of the sync task.  The first reading of data_version only sets
\* the mark.  A dirty state is uploaded once the debounce and the minimum
\* interval are over.
Poll(r, due) ==
    /\ Running(r) /\ at[<<r, "tick">>] = "idle"
    /\ seen' = [seen EXCEPT ![r] = vol[r]]
    /\ dirty' = [dirty EXCEPT ![r] = @ \/ (seen[r].there /\ seen[r] # vol[r])]
    /\ at' = IF due /\ dirty'[r] THEN [at EXCEPT ![<<r, "tick">>] = "queued"] ELSE at
    /\ UNCHANGED <<vol, store, phase, inst, own, gen, hash, held, shot, spent>>

-----------------------------------------------------------------------------
(* snapshot_now, for each of its callers.                                  *)

Move(r, c, l) == at' = [at EXCEPT ![<<r, c>>] = l]

SnapFrame == UNCHANGED <<vol, phase, inst, seen, written, boots>>

\* The caller returns: the lock guard drops.
SnapEnd(r, c) ==
    /\ Move(r, c, IF c = "final" THEN "done" ELSE "idle")
    /\ held' = [held EXCEPT ![r] = "none"]
    /\ shot' = [shot EXCEPT ![<<r, c>>] = {}]

\* Mutant: an error leaves the state clean.
SnapFailClean(r, c) == UNCHANGED dirty /\ SnapEnd(r, c)

\* An error marks the state dirty again.
SnapFail(r, c) == dirty' = [dirty EXCEPT ![r] = TRUE] /\ SnapEnd(r, c)

AdminSnapshot(r) ==
    /\ phase[r] = "up" /\ at[<<r, "admin">>] = "idle"
    /\ Move(r, "admin", "queued")
    /\ UNCHANGED <<store, own, dirty, gen, hash, held, shot, faults, cancels>> /\ SnapFrame

\* Mutant: callers do not wait for each other.
LockFreely(r) == TRUE

LockFree(r) == held[r] = "none"

SnapLock(r, c) ==
    /\ at[<<r, c>>] = "queued" /\ LockFree(r)
    /\ held' = [held EXCEPT ![r] = c]
    /\ Move(r, c, "check")
    /\ UNCHANGED <<store, own, dirty, gen, hash, shot, faults, cancels>> /\ SnapFrame

\* still_owner: an unreadable or missing claim counts as ours.  The dirty
\* flag is cleared before the copy is taken.
SnapCheck(r, c) ==
    /\ at[<<r, c>>] = "check"
    /\ \/ /\ owner[1] = Nobody \/ owner = Me(r)
          /\ dirty' = [dirty EXCEPT ![r] = FALSE]
          /\ Move(r, c, "vacuum") /\ UNCHANGED <<own, held, shot, faults>>
       \/ /\ owner[1] # Nobody /\ owner # Me(r)
          /\ own' = [own EXCEPT ![r] = FALSE]
          /\ SnapEnd(r, c) /\ UNCHANGED <<dirty, faults>>
       \/ /\ Fault
          /\ dirty' = [dirty EXCEPT ![r] = FALSE]
          /\ Move(r, c, "vacuum") /\ UNCHANGED <<own, held, shot>>
    /\ UNCHANGED <<store, gen, hash, cancels>> /\ SnapFrame

\* VACUUM INTO, then skip what the last upload already holds.
SnapVacuum(r, c) ==
    /\ at[<<r, c>>] = "vacuum"
    /\ \/ /\ hash[r] # vol[r]
          /\ shot' = [shot EXCEPT ![<<r, c>>] = vol[r].has]
          /\ Move(r, c, "upload") /\ UNCHANGED <<dirty, held, faults>>
       \/ hash[r] = vol[r] /\ SnapEnd(r, c) /\ UNCHANGED <<dirty, faults>>
       \/ Fault /\ SnapFail(r, c)
    /\ UNCHANGED <<store, own, gen, hash, cancels>> /\ SnapFrame

\* Mutant: the hash is recorded with the state object, before its meta.
SnapUploadHashed(r, c) ==
    /\ at[<<r, c>>] = "upload"
    /\ hash' = [hash EXCEPT ![r] = File(shot[<<r, c>>])]
    /\ \/ /\ state' = File(shot[<<r, c>>]) /\ by' = r
          /\ Move(r, c, "meta") /\ UNCHANGED <<dirty, held, shot, faults>>
       \/ Fault /\ SnapFail(r, c) /\ UNCHANGED <<state, by>>
    /\ UNCHANGED <<meta, owner, own, gen, cancels>> /\ SnapFrame

\* A failed PUT may still have landed.
SnapUpload(r, c) ==
    /\ at[<<r, c>>] = "upload"
    /\ \/ /\ state' = File(shot[<<r, c>>]) /\ by' = r
          /\ Move(r, c, "meta") /\ UNCHANGED <<dirty, held, shot, faults>>
       \/ /\ Fault /\ SnapFail(r, c)
          /\ \/ state' = File(shot[<<r, c>>]) /\ by' = r
             \/ UNCHANGED <<state, by>>
    /\ UNCHANGED <<meta, owner, own, gen, hash, cancels>> /\ SnapFrame

Fresh(r, c) == [there |-> TRUE, gen |-> gen[r] + 1, has |-> shot[<<r, c>>]]

\* The hash is recorded only once state and meta both landed.
SnapMeta(r, c) ==
    /\ at[<<r, c>>] = "meta"
    /\ gen' = [gen EXCEPT ![r] = @ + 1]
    /\ \/ /\ meta' = Fresh(r, c)
          /\ hash' = [hash EXCEPT ![r] = File(shot[<<r, c>>])]
          /\ SnapEnd(r, c) /\ UNCHANGED <<dirty, faults>>
       \/ /\ Fault /\ SnapFail(r, c)
          /\ meta' \in {meta, Fresh(r, c)} /\ UNCHANGED hash
    /\ UNCHANGED <<state, by, owner, own, cancels>> /\ SnapFrame

\* A caller that goes away at a PUT may leave it done.
Abandoned(r, c) ==
    \/ UNCHANGED <<state, by, meta>>
    \/ /\ at[<<r, c>>] = "upload"
       /\ state' = File(shot[<<r, c>>]) /\ by' = r /\ UNCHANGED meta
    \/ /\ at[<<r, c>>] = "meta"
       /\ meta' = Fresh(r, c) /\ UNCHANGED <<state, by>>

\* The client of the admin snapshot goes away and its handler is dropped.
AdminCancel(r) ==
    /\ at[<<r, "admin">>] # "idle" /\ cancels < MaxCancels
    /\ cancels' = cancels + 1
    /\ Move(r, "admin", "idle")
    /\ shot' = [shot EXCEPT ![<<r, "admin">>] = {}]
    /\ held' = [held EXCEPT ![r] = IF @ = "admin" THEN "none" ELSE @]
    /\ Abandoned(r, "admin")
    /\ UNCHANGED <<owner, own, dirty, gen, hash, faults>> /\ SnapFrame

SnapStep(r, c) ==
    SnapCheck(r, c) \/ SnapVacuum(r, c) \/ SnapUpload(r, c) \/ SnapMeta(r, c)

-----------------------------------------------------------------------------
(* The end of a process.                                                   *)

Halt(r) ==
    /\ Goto(r, "down")
    /\ own' = [own EXCEPT ![r] = TRUE]
    /\ dirty' = [dirty EXCEPT ![r] = FALSE]
    /\ gen' = [gen EXCEPT ![r] = 0]
    /\ hash' = [hash EXCEPT ![r] = Missing]
    /\ seen' = [seen EXCEPT ![r] = Missing]
    /\ held' = [held EXCEPT ![r] = "none"]
    /\ at' = [s \in Snaps |-> IF s[1] = r THEN "idle" ELSE at[s]]
    /\ shot' = [s \in Snaps |-> IF s[1] = r THEN {} ELSE shot[s]]

\* SIGTERM: the API stops and its requests drain, the fleets stop, and the
\* last snapshot is taken.
Shutdown(r) ==
    /\ phase[r] = "up" /\ at[<<r, "admin">>] = "idle"
    /\ Goto(r, "stopping")
    /\ Move(r, "final", "queued")
    /\ UNCHANGED <<vol, store, inst, own, dirty, gen, hash, seen, held, shot, spent>>

Exit(r) ==
    /\ at[<<r, "final">>] = "done"
    /\ Halt(r)
    /\ UNCHANGED <<vol, store, inst, spent>>

Crash(r) ==
    /\ phase[r] # "down"
    /\ Halt(r)
    /\ \E c \in Callers : Abandoned(r, c)
    /\ owner' \in {owner} \cup (IF phase[r] = "owner" THEN {Me(r)} ELSE {})
    /\ UNCHANGED <<vol, inst, spent>>

\* The volume is a cache.
LoseVolume(r) ==
    /\ phase[r] = "down" /\ vol[r].there /\ Fault
    /\ vol' = [vol EXCEPT ![r] = Missing]
    /\ UNCHANGED <<store, phase, inst, memory, written, boots, cancels>>

-----------------------------------------------------------------------------
Init ==
    /\ vol = [r \in Runners |-> Missing]
    /\ state = Missing /\ by = Nobody
    /\ meta = [there |-> FALSE, gen |-> 0, has |-> {}]
    /\ owner = <<Nobody, 0>>
    /\ phase = [r \in Runners |-> "down"]
    /\ inst = [r \in Runners |-> 0]
    /\ own = [r \in Runners |-> TRUE]
    /\ dirty = [r \in Runners |-> FALSE]
    /\ gen = [r \in Runners |-> 0]
    /\ hash = [r \in Runners |-> Missing]
    /\ seen = [r \in Runners |-> Missing]
    /\ held = [r \in Runners |-> "none"]
    /\ at = [s \in Snaps |-> "idle"]
    /\ shot = [s \in Snaps |-> {}]
    /\ written = 0 /\ boots = 0 /\ faults = 0 /\ cancels = 0

RunnerStep(r) ==
    \/ Boot(r) \/ BootStep(r) \/ AdminSnapshot(r) \/ AdminCancel(r)
    \/ Shutdown(r) \/ Exit(r) \/ Crash(r) \/ LoseVolume(r)
    \/ \E b \in BOOLEAN : DbWrite(r, b) \/ Poll(r, b)
    \/ \E c \in Callers : SnapLock(r, c) \/ SnapStep(r, c)

Next == \E r \in Runners : RunnerStep(r)

Spec == Init /\ [][Next]_vars

(***************************************************************************)
(* Fairness.  Every request has a timeout, the snapshot lock is a FIFO     *)
(* mutex, and the schedule lets a dirty state through once its intervals   *)
(* are over.  Boots, writes, admin calls, crashes and shutdowns are the    *)
(* environment's.                                                          *)
(***************************************************************************)
Fairness ==
    \A r \in Runners :
        /\ WF_vars(BootStep(r))
        /\ WF_vars(Poll(r, TRUE))
        /\ WF_vars(Exit(r))
        /\ \A c \in Callers : WF_vars(SnapStep(r, c)) /\ SF_vars(SnapLock(r, c))

FairSpec == Spec /\ Fairness

-----------------------------------------------------------------------------
(* Properties.                                                             *)

\* Type invariant.
TypeOK ==
    /\ vol \in [Runners -> Files]
    /\ state \in Files /\ by \in Runners \cup {Nobody}
    /\ meta \in Metas
    /\ owner \in (Runners \cup {Nobody}) \X Nat
    /\ phase \in [Runners -> Phases] /\ inst \in [Runners -> Nat]
    /\ own \in [Runners -> BOOLEAN]
    /\ dirty \in [Runners -> BOOLEAN] /\ gen \in [Runners -> Nat]
    /\ hash \in [Runners -> Files] /\ seen \in [Runners -> Files]
    /\ held \in [Runners -> Callers \cup {"none"}]
    /\ at \in [Snaps -> Labels] /\ shot \in [Snaps -> SUBSET Writes]
    /\ written \in 0 .. MaxWrites
    /\ boots \in Nat /\ faults \in Nat /\ cancels \in Nat

\* A runner never replaces its own snapshot by one that holds less: not when
\* its volume was lost and the download failed (the boot fails instead), and
\* not when the sync task, the admin endpoint and the shutdown snapshot
\* overlap (R-08, snapshot_lock).
SnapshotKeeps == [][by = by' => state.has \subseteq state'.has]_vars

\* A snapshot is skipped as identical only if the bucket holds it, although
\* uploads fail half way and the hash is seeded from a meta object that a
\* crash may have left behind its state.
SkipSound ==
    \A r \in Runners :
        hash[r].there /\ hash[r] = vol[r] /\ by = r => state = vol[r]

\* What a claimed runner knows to be unsaved ends up in the bucket, whatever
\* uploads fail on the way, unless it stops, another runner takes over, or
\* the client of an admin's snapshot goes away in the middle of it.
ClaimedSettles ==
    \A r \in Runners, w \in Writes :
        phase[r] = "up" /\ owner = Me(r) /\ dirty[r] /\ w \in vol[r].has
            ~> w \in state.has \/ phase[r] # "up" \/ owner # Me(r) \/ cancels > 0

\* Claimed by main.rs ("snapshots keep trying") and by claim ("a transport
\* error refuses the boot") and refuted: a runner whose claim failed at boot
\* finds its predecessor in owner.json and never uploads again.
DirtySettles ==
    \A r \in Runners, w \in Writes :
        phase[r] = "up" /\ dirty[r] /\ w \in vol[r].has
            ~> w \in state.has \/ phase[r] # "up"
=============================================================================
