---------------------------- MODULE Credentials ----------------------------
(***************************************************************************)
(* Prefix-scoped bucket keys: minting on spawn, revocation on delete and   *)
(* rename, the retry sweep and the orphan sweep of the loop                *)
(* (host/credentials.rs, host/credentials_minio.rs,                        *)
(* host/credentials_aws.rs, db/credentials.rs, and the ends of             *)
(* service/apps.rs delete and host/rename.rs).                             *)
(*                                                                         *)
(* A key is [id, handle, prefix, store].  MinIO and RustFS mint a random   *)
(* access key and use it as the handle; AWS uses the IAM user name, which  *)
(* is a function of the prefix (PrefixHandles).  Ciphertexts and policies  *)
(* are not modelled: a row is readable until RUNNER_TOKEN rotates.         *)
(***************************************************************************)
EXTENDS Integers, FiniteSets

CONSTANTS
    Apps,           \* app ids
    Slugs,          \* slugs: a slug names its prefix fleets/<slug>/
    Stores,         \* stores the runner may be configured for; the first run uses "s1"
    Tasks,          \* BOUND: spawns and release commands asking for a key at once
    PrefixHandles,  \* the provider derives the handle from the prefix (aws)
    MaxKeys,        \* BOUND: keys ever minted
    MaxFaults,      \* BOUND: failing store calls and cut cleanups
    MaxOps,         \* BOUND: creates, renames and deletes
    MaxRestarts     \* BOUND: runner restarts

VARIABLES
    cApp,      \* the slug of each app's row; "none" before and "gone" after
    cRows,     \* scoped_credential: per scope (app id) its row or NoRow
    cKeys,     \* the keys that work, at the stores
    cMade,     \* keys minted so far
    cLock,     \* holder of MUTATE, or "none"
    cTask,     \* ensure calls
    cSweep,    \* sweep calls: the loop's and the one revoke_app makes
    cCleanup,  \* apps deleted or renamed whose keys revoke_app has not marked yet
    cStore,    \* the configured store
    cLeft      \* what is left of MaxFaults, MaxOps and MaxRestarts

vars == <<cApp, cRows, cKeys, cMade, cLock, cTask, cSweep, cCleanup, cStore, cLeft>>

NoRow == [state |-> "none", key |-> 0, handle |-> <<"none", 0>>, prefix |-> "none", store |-> "none", readable |-> FALSE]
NoTask == [at |-> "free", app |-> "none", prefix |-> "none", key |-> 0]
NoSweep == [at |-> "idle", rows |-> {}, handles |-> {}]

Sweepers == {"loop", "request"}
Owned(slug) == \E a \in Apps : cApp[a] = slug
Exists(a) == cApp[a] \in Slugs

(* A random access key, or the IAM user named after the prefix.            *)
HandleOf(id, prefix) == IF PrefixHandles THEN <<prefix, 0>> ELSE <<"random", id>>

Of(state) == {a \in Apps : cRows[a].state = state}
Named(rows) == {rows[a].handle : a \in {b \in Apps : rows[b].state # "none"}}

(* list_managed: the keys that carry this install's tag (one per store).   *)
Ours(k) == k.store = cStore
Managed == {k.handle : k \in {j \in cKeys : Ours(j)}}

(* provider.revoke: every key under the handle; one that is gone already   *)
(* is a success.                                                           *)
At(handle) == {k \in cKeys : k.handle = handle /\ Ours(k)}
Revoked(handle) == cKeys \ At(handle)

(* CreateUser on a name that exists: our own user is cleared first.        *)
Cleared(handle) == Revoked(handle)

Faulty == cLeft.faults > 0
Fault == cLeft' = [cLeft EXCEPT !.faults = @ - 1]
Op == /\ cLeft.ops > 0
      /\ cLeft' = [cLeft EXCEPT !.ops = @ - 1]

(* delete_scoped_credential: by handle.                                    *)
WithoutHandle(rows, handle) == [a \in Apps |-> IF rows[a].handle = handle THEN NoRow ELSE rows[a]]

(* mark_app_scoped_credentials_revoking, for the app's one scope.          *)
Marked(rows, a) == [rows EXCEPT ![a] = [@ EXCEPT !.state = IF rows[a].state = "live" THEN "revoking" ELSE rows[a].state]]

-----------------------------------------------------------------------------
(* The apps.                                                               *)

Create(a, slug) ==
    /\ Op
    /\ cApp[a] = "none"
    /\ ~Owned(slug)
    /\ cApp' = [cApp EXCEPT ![a] = slug]
    /\ UNCHANGED <<cRows, cKeys, cMade, cLock, cTask, cSweep, cCleanup, cStore>>

(* delete: the row goes and the slug is released; revoke_app follows in    *)
(* the best-effort cleanup.                                                *)
Delete(a) ==
    /\ Op
    /\ Exists(a)
    /\ cApp' = [cApp EXCEPT ![a] = "gone"]
    /\ cCleanup' = cCleanup \cup {a}
    /\ UNCHANGED <<cRows, cKeys, cMade, cLock, cTask, cSweep, cStore>>

(* rename: the row moves to the new slug, then revoke_app.                 *)
Rename(a, slug) ==
    /\ Op
    /\ Exists(a)
    /\ ~Owned(slug)
    /\ cApp' = [cApp EXCEPT ![a] = slug]
    /\ cCleanup' = cCleanup \cup {a}
    /\ UNCHANGED <<cRows, cKeys, cMade, cLock, cTask, cSweep, cStore>>

(* revoke_app: the rows are marked without MUTATE, then a sweep starts.    *)
RevokeApp(a) ==
    /\ a \in cCleanup
    /\ cSweep["request"].at = "idle"
    /\ cCleanup' = cCleanup \ {a}
    /\ cRows' = Marked(cRows, a)
    /\ cSweep' = [cSweep EXCEPT !["request"] = [@ EXCEPT !.at = "list"]]
    /\ UNCHANGED <<cApp, cKeys, cMade, cLock, cTask, cStore, cLeft>>

(* DELETE_CLEANUP_WITHIN passes in the route push: nothing was marked.     *)
CleanupTimesOut(a) ==
    /\ a \in cCleanup
    /\ cApp[a] = "gone"
    /\ Faulty
    /\ Fault
    /\ cCleanup' = cCleanup \ {a}
    /\ UNCHANGED <<cApp, cRows, cKeys, cMade, cLock, cTask, cSweep, cStore>>

-----------------------------------------------------------------------------
(* ensure: a spawn or a release command asks for its scope's key.          *)

EnsureBegin(t, a) ==
    /\ cTask[t].at = "free"
    /\ Exists(a)
    /\ cMade + Cardinality({u \in Tasks : cTask[u].at # "free"}) < MaxKeys
    /\ cTask' = [cTask EXCEPT ![t] = [at |-> "wait", app |-> a, prefix |-> cApp[a], key |-> 0]]
    /\ UNCHANGED <<cApp, cRows, cKeys, cMade, cLock, cSweep, cCleanup, cStore, cLeft>>

(* Mutant: the guard of MUTATE outlives the call.                          *)
DoneHolding(t) == /\ cTask' = [cTask EXCEPT ![t] = NoTask]
                  /\ UNCHANGED cLock

(* The call returns and drops its guard of MUTATE.                         *)
Done(t) == /\ cTask' = [cTask EXCEPT ![t] = NoTask]
           /\ cLock' = "none"

(* Under MUTATE: a live row that fits and decrypts is the answer; one that *)
(* does not is superseded.                                                 *)
EnsureLookup(t) ==
    /\ cTask[t].at = "wait"
    /\ cLock = "none"
    /\ LET row == cRows[cTask[t].app] IN
       IF row.state = "live" /\ row.prefix = cTask[t].prefix /\ row.store = cStore /\ row.readable
       THEN /\ cTask' = [cTask EXCEPT ![t] = NoTask]
            /\ UNCHANGED <<cRows, cLock>>
       ELSE /\ cRows' = Marked(cRows, cTask[t].app)
            /\ cLock' = t
            /\ cTask' = [cTask EXCEPT ![t] = [@ EXCEPT !.at = "clear"]]
    /\ UNCHANGED <<cApp, cKeys, cMade, cSweep, cCleanup, cStore, cLeft>>

Pending(t) == {a \in Of("revoking") : cRows[a].prefix = cTask[t].prefix /\ cRows[a].store = cStore}

(* Every revoking key of the prefix goes first; a refusal ends the call.   *)
EnsureClear(t) ==
    /\ cTask[t].at = "clear"
    /\ IF Pending(t) = {}
       THEN /\ cTask' = [cTask EXCEPT ![t] = [@ EXCEPT !.at = "mint"]]
            /\ UNCHANGED <<cRows, cKeys, cLock, cLeft>>
       ELSE \/ \E a \in Pending(t) :
                   /\ cKeys' = Revoked(cRows[a].handle)
                   /\ cRows' = WithoutHandle(cRows, cRows[a].handle)
                   /\ UNCHANGED <<cLock, cTask, cLeft>>
            \/ /\ Faulty
               /\ Fault
               /\ Done(t)
               /\ UNCHANGED <<cRows, cKeys>>
    /\ UNCHANGED <<cApp, cMade, cSweep, cCleanup, cStore>>

(* provider.mint: the user, its policy, its key; an IAM user of that name  *)
(* is cleared first.  A failing mint may leave a working key behind: the   *)
(* last call's answer was lost.                                            *)
EnsureMint(t) ==
    /\ cTask[t].at = "mint"
    /\ LET id == cMade + 1
           handle == HandleOf(id, cTask[t].prefix)
           key == [id |-> id, handle |-> handle, prefix |-> cTask[t].prefix, store |-> cStore] IN
       \/ /\ cKeys' = Cleared(handle) \cup {key}
          /\ cMade' = id
          /\ cTask' = [cTask EXCEPT ![t] = [@ EXCEPT !.at = "insert", !.key = id]]
          /\ UNCHANGED <<cLock, cLeft>>
       \/ /\ Faulty
          /\ Fault
          /\ cKeys' \in {Cleared(handle), Cleared(handle) \cup {key}}
          /\ cMade' = id
          /\ Done(t)
    /\ UNCHANGED <<cApp, cRows, cSweep, cCleanup, cStore>>

(* insert_scoped_credential: the scope is the primary key, so a revoking   *)
(* row of the scope's former prefix refuses it, and the minted key is      *)
(* revoked again (which may fail).                                         *)
EnsureInsert(t) ==
    /\ cTask[t].at = "insert"
    /\ LET a == cTask[t].app
           handle == HandleOf(cTask[t].key, cTask[t].prefix) IN
       IF cRows[a].state = "none"
       THEN /\ cRows' = [cRows EXCEPT ![a] = [state |-> "live", key |-> cTask[t].key, handle |-> handle,
                                              prefix |-> cTask[t].prefix, store |-> cStore, readable |-> TRUE]]
            /\ UNCHANGED <<cKeys, cLeft>>
       ELSE /\ \/ /\ cKeys' = Revoked(handle)
                  /\ UNCHANGED cLeft
               \/ /\ Faulty
                  /\ Fault
                  /\ UNCHANGED cKeys
            /\ UNCHANGED cRows
    /\ Done(t)
    /\ UNCHANGED <<cApp, cMade, cSweep, cCleanup, cStore>>

-----------------------------------------------------------------------------
(* sweep: the revoking rows are listed before MUTATE is taken.             *)

(* Mutant: the loop makes no orphan pass.                                  *)
NoOrphanPass(s) == "idle"
AfterSweep(s) == IF s = "loop" THEN "orphans" ELSE "idle"

SweepList(s) ==
    /\ cSweep[s].at = IF s = "loop" THEN "idle" ELSE "list"
    /\ cSweep' = [cSweep EXCEPT ![s] = [@ EXCEPT !.rows = {cRows[a] : a \in Of("revoking")},
                                                 !.at = IF Of("revoking") = {} THEN AfterSweep(s) ELSE "wait"]]
    /\ UNCHANGED <<cApp, cRows, cKeys, cMade, cLock, cTask, cCleanup, cStore, cLeft>>

SweepLock(s) ==
    /\ cSweep[s].at = "wait"
    /\ cLock = "none"
    /\ cLock' = s
    /\ cSweep' = [cSweep EXCEPT ![s] = [@ EXCEPT !.at = "sweep"]]
    /\ UNCHANGED <<cApp, cRows, cKeys, cMade, cTask, cCleanup, cStore, cLeft>>

(* One row: another store's is dropped; ours is revoked and deleted, or    *)
(* stays marked.                                                           *)
SweepRow(s, row) ==
    /\ cSweep[s].at = "sweep"
    /\ row \in cSweep[s].rows
    /\ cSweep' = [cSweep EXCEPT ![s] = [@ EXCEPT !.rows = cSweep[s].rows \ {row}]]
    /\ IF row.store # cStore
       THEN /\ cRows' = WithoutHandle(cRows, row.handle)
            /\ UNCHANGED <<cKeys, cLeft>>
       ELSE \/ /\ cKeys' = Revoked(row.handle)
               /\ cRows' = WithoutHandle(cRows, row.handle)
               /\ UNCHANGED cLeft
            \/ /\ Faulty
               /\ Fault
               /\ UNCHANGED <<cRows, cKeys>>
    /\ UNCHANGED <<cApp, cMade, cLock, cTask, cCleanup, cStore>>

SweepEnd(s) ==
    /\ cSweep[s].at = "sweep"
    /\ cSweep[s].rows = {}
    /\ cLock' = "none"
    /\ cSweep' = [cSweep EXCEPT ![s] = [@ EXCEPT !.at = AfterSweep(s)]]
    /\ UNCHANGED <<cApp, cRows, cKeys, cMade, cTask, cCleanup, cStore, cLeft>>

(* orphan_sweep: the store is listed (a failing listing ends the pass) and *)
(* the rows are read, without MUTATE.                                      *)
OrphanList ==
    /\ cSweep["loop"].at = "orphans"
    /\ \/ LET listed == Managed \ Named(cRows) IN
          /\ cSweep' = [cSweep EXCEPT !["loop"] = [at |-> IF listed = {} THEN "idle" ELSE "candidates",
                                                   rows |-> {}, handles |-> listed]]
          /\ UNCHANGED cLeft
       \/ /\ Faulty
          /\ Fault
          /\ cSweep' = [cSweep EXCEPT !["loop"] = NoSweep]
    /\ UNCHANGED <<cApp, cRows, cKeys, cMade, cLock, cTask, cCleanup, cStore>>

(* Mutant: the candidate is not looked up again under MUTATE.              *)
StillCandidate(handle) == TRUE
Orphaned(handle) == handle \notin Named(cRows)

(* One candidate under MUTATE: a row that names it now keeps it.           *)
OrphanTake(handle) ==
    /\ cSweep["loop"].at = "candidates"
    /\ handle \in cSweep["loop"].handles
    /\ cLock = "none"
    /\ LET left == cSweep["loop"].handles \ {handle} IN
       cSweep' = [cSweep EXCEPT !["loop"] = [@ EXCEPT !.handles = left, !.at = IF left = {} THEN "idle" ELSE "candidates"]]
    /\ IF Orphaned(handle)
       THEN \/ /\ cKeys' = Revoked(handle)
               /\ UNCHANGED cLeft
            \/ /\ Faulty
               /\ Fault
               /\ UNCHANGED cKeys
       ELSE UNCHANGED <<cKeys, cLeft>>
    /\ UNCHANGED <<cApp, cRows, cMade, cLock, cTask, cCleanup, cStore>>

-----------------------------------------------------------------------------
(* The runner restarts, perhaps with another store or RUNNER_TOKEN.  On a  *)
(* new host the database is the snapshot: rows inserted since are lost     *)
(* (a row deleted since, which would come back, is not modelled).  Calls   *)
(* and cleanups in progress are gone.                                      *)
Restart ==
    /\ cLeft.restarts > 0
    /\ cLeft' = [cLeft EXCEPT !.restarts = @ - 1]
    /\ \E rotated \in BOOLEAN, lost \in SUBSET Of("live") :
           cRows' = [a \in Apps |-> IF a \in lost THEN NoRow ELSE [cRows[a] EXCEPT !.readable = @ /\ ~rotated]]
    /\ cStore' \in Stores
    /\ cLock' = "none"
    /\ cTask' = [t \in Tasks |-> NoTask]
    /\ cSweep' = [s \in Sweepers |-> NoSweep]
    /\ cCleanup' = {}
    /\ UNCHANGED <<cApp, cKeys, cMade>>

-----------------------------------------------------------------------------
Init ==
    /\ cApp = [a \in Apps |-> "none"]
    /\ cRows = [a \in Apps |-> NoRow]
    /\ cKeys = {}
    /\ cMade = 0
    /\ cLock = "none"
    /\ cTask = [t \in Tasks |-> NoTask]
    /\ cSweep = [s \in Sweepers |-> NoSweep]
    /\ cCleanup = {}
    /\ cStore = "s1"
    /\ cLeft = [faults |-> MaxFaults, ops |-> MaxOps, restarts |-> MaxRestarts]

Step ==
    \/ \E t \in Tasks : EnsureLookup(t) \/ EnsureClear(t) \/ EnsureMint(t) \/ EnsureInsert(t)
    \/ \E s \in Sweepers : SweepList(s) \/ SweepLock(s) \/ SweepEnd(s)
    \/ \E s \in Sweepers : \E row \in cSweep[s].rows : SweepRow(s, row)
    \/ OrphanList
    \/ \E h \in cSweep["loop"].handles : OrphanTake(h)

Next ==
    \/ \E a \in Apps, slug \in Slugs : Create(a, slug) \/ Rename(a, slug)
    \/ \E a \in Apps : Delete(a) \/ RevokeApp(a) \/ CleanupTimesOut(a)
    \/ \E t \in Tasks, a \in Apps : EnsureBegin(t, a)
    \/ Step
    \/ Restart

(* The loop ticks for ever, a call that holds MUTATE runs to its end, and  *)
(* MUTATE is a fair (FIFO) lock.                                           *)
Fairness ==
    /\ \A t \in Tasks : WF_vars(EnsureClear(t) \/ EnsureMint(t) \/ EnsureInsert(t))
    /\ \A s \in Sweepers : WF_vars(SweepEnd(s) \/ \E row \in cSweep[s].rows : SweepRow(s, row))
    /\ WF_vars(SweepList("loop") \/ OrphanList)
    /\ SF_vars(SweepLock("loop"))
    /\ SF_vars(\E h \in cSweep["loop"].handles : OrphanTake(h))

Spec == Init /\ [][Next]_vars /\ Fairness

-----------------------------------------------------------------------------
Keys == [id : 1 .. MaxKeys, handle : (Slugs \X {0}) \cup ({"random"} \X (1 .. MaxKeys)), prefix : Slugs, store : Stores]

(* Rows, keys, calls and sweeps are well formed, and only a call that is   *)
(* past its lookup or a sweep past its listing holds MUTATE.               *)
TypeOK ==
    /\ cApp \in [Apps -> Slugs \cup {"none", "gone"}]
    /\ \A a \in Apps : /\ cRows[a].state \in {"none", "live", "revoking"}
                       /\ cRows[a].state # "none" => cRows[a].prefix \in Slugs /\ cRows[a].key \in 1 .. MaxKeys
    /\ cKeys \subseteq Keys
    /\ cMade \in 0 .. MaxKeys
    /\ \A t \in Tasks : cTask[t].at \in {"free", "wait", "clear", "mint", "insert"}
    /\ \A t \in Tasks : cLock = t <=> cTask[t].at \in {"clear", "mint", "insert"}
    /\ \A s \in Sweepers : cLock = s <=> cSweep[s].at = "sweep"

(* A key that a live row names is never revoked at the store: not by a     *)
(* sweep working from rows it listed before it waited for MUTATE, and not  *)
(* by the orphan sweep, whose listing may hold a key minted meanwhile      *)
(* (credentials.rs sweep and orphan_sweep; random handles).                *)
KeepsLive ==
    \A a \in Apps :
        (cRows[a].state = "live" /\ cRows'[a] = cRows[a])
        => \A k \in cKeys : k.id = cRows[a].key => k \in cKeys'
LiveKeysStay == [][KeepsLive]_vars

(* Why: a handle stands for one key and one row at most, the key in the    *)
(* hands of a call that has MUTATE is in no row yet, and MUTATE has one    *)
(* holder.                                                                 *)
Bounds == "s1" \in Stores /\ Tasks \cap (Sweepers \cup {"none"}) = {}
Handles == {<<"none", 0>>} \cup ((Slugs \cup {"none"}) \X {0}) \cup ({"random"} \X Nat)
Rows == [state : {"none", "live", "revoking"}, key : Nat, handle : Handles, prefix : Slugs \cup {"none"},
         store : Stores \cup {"none"}, readable : BOOLEAN]
Calls == [at : {"free", "wait", "clear", "mint", "insert"}, app : Apps \cup {"none"}, prefix : Slugs \cup {"none"}, key : Nat]
Sweeps == [at : {"idle", "list", "wait", "sweep", "orphans", "candidates"}, rows : SUBSET Rows, handles : SUBSET Handles]
StateOK ==
    /\ cApp \in [Apps -> Slugs \cup {"none", "gone"}] /\ cRows \in [Apps -> Rows] /\ cMade \in Nat
    /\ cTask \in [Tasks -> Calls] /\ cSweep \in [Sweepers -> Sweeps] /\ cStore \in Stores
HandleInv ==
    /\ \A k \in cKeys : k.id \in 1 .. cMade /\ k.handle = <<"random", k.id>>
    /\ \A a \in Apps : cRows[a].state # "none" => cRows[a].key \in 1 .. cMade /\ cRows[a].handle = <<"random", cRows[a].key>>
    /\ \A t \in Tasks : cTask[t].at = "insert" =>
           cTask[t].key \in 1 .. cMade /\ \A a \in Apps : cRows[a].state # "none" => cRows[a].key # cTask[t].key
LockInv ==
    /\ \A t \in Tasks : cTask[t].at \in {"clear", "mint", "insert"} => cLock = t /\ cTask[t].app \in Apps
    /\ \A t \in Tasks : cTask[t].at = "wait" => cTask[t].app \in Apps
    /\ \A s \in Sweepers : cSweep[s].at = "sweep" => cLock = s

(* Once faults and restarts are over, every key of the configured store is *)
(* named by a live row: what was marked is revoked by the retry sweep, and *)
(* a key without a row (a lost answer, a failed insert, a database rolled  *)
(* back to its snapshot) by the orphan sweep.                              *)
KeysSettle ==
    \A id \in 1 .. MaxKeys :
        []<>(\A k \in cKeys : (k.id = id /\ k.store = cStore) => \E a \in Apps : cRows[a].key = id /\ cRows[a].state = "live")

(* The comment in ensure: a key that still reaches the prefix is gone      *)
(* before a new owner gets the prefix.                                     *)
OneOwnerPerPrefix ==
    \A a, b \in Apps :
        ~ /\ a # b
          /\ cRows[a].state = "live" /\ cRows[b].state = "live"
          /\ \E k, l \in cKeys : /\ k.id = cRows[a].key /\ l.id = cRows[b].key
                                 /\ k.prefix = l.prefix /\ k.store = l.store
=============================================================================
