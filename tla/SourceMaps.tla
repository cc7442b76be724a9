----------------------------- MODULE SourceMaps -----------------------------
(***************************************************************************)
(* Source maps of one fleet: what a deploy stores under maps/<sha>/ and    *)
(* prunes (store_deploy_maps, prune_old_maps), and the byte-bounded cache  *)
(* the error reads go through (SourceMapCache), whose lock is never held   *)
(* over a fetch (host/sourcemaps.rs; its caller in host/deploy.rs and its  *)
(* reader, service/errors.rs get).                                         *)
(*                                                                         *)
(* A map is its name ("worker", "client"), a manifest the set of maps it   *)
(* names, and a weight a small number.  Tokens, paths, chaining and the    *)
(* per-file caps are left out; a map the caps refuse is one nobody stored. *)
(***************************************************************************)
EXTENDS Integers, Sequences, FiniteSets, SequencesExt, FiniteSetsExt

CONSTANTS
    Shas,        \* commits
    Readers,     \* concurrent errors.get calls
    Deployed,    \* the commits deployed before the model begins, oldest first
    KeepShas,    \* KEEP_DEPLOY_SHAS
    Cap,         \* MAX_CACHED_BYTES
    TTL,         \* NEGATIVE_MANIFEST_TTL
    MaxDeploys,  \* BOUND: deploys
    MaxTime,     \* BOUND: clock ticks
    MaxReads,    \* BOUND: reads
    MaxFaults    \* BOUND: failing store calls and crashes

VARIABLES
    uRows,    \* deploy rows, oldest first
    uBucket,  \* maps/<sha>/: the maps there, and the manifest
    uDep,     \* the deploy that is storing (the app claim admits one)
    uCache,   \* CacheInner
    uRead,    \* the readers
    uNow,     \* the clock
    uLeft     \* what is left of the bounds

vars == <<uRows, uBucket, uDep, uCache, uRead, uNow, uLeft>>

Maps == {"worker", "client"}
NoManifest == {"absent"}
Empty == [maps |-> {}, manifest |-> NoManifest]
NoDep == [at |-> "none"]
NoRead == [at |-> "idle"]

Faulty == uLeft.faults > 0
Fault == uLeft' = [uLeft EXCEPT !.faults = @ - 1]

-----------------------------------------------------------------------------
(* The cache.  A key is <<sha, rel>>, with "manifest" for the manifest.    *)

MaxWeight == 2
Weight(k, v) == IF v = NoManifest THEN 1 ELSE IF k[2] = "manifest" THEN 1 ELSE MaxWeight
NewCache == [bytes |-> 0, order |-> <<>>, entries |-> <<>>]
Without(f, ks) == Restrict(f, DOMAIN f \ ks)
NotBelowZero(n) == IF n < 0 THEN 0 ELSE n

(* retain: the slots of the other keys, in their order.                    *)
Retained(order, k) ==
    LET kept[n \in 0 .. Len(order)] ==
            IF n = 0 THEN << >>
            ELSE IF order[n] = k THEN kept[n - 1] ELSE Append(kept[n - 1], order[n])
    IN  kept[Len(order)]

(* forget: the entry, its bytes and its slot.                              *)
Forget(c, k) ==
    IF k \notin DOMAIN c.entries THEN c
    ELSE [bytes |-> NotBelowZero(c.bytes - c.entries[k].weight),
          order |-> Retained(c.order, k),
          entries |-> Without(c.entries, {k})]

(* The bytes of some entries: what their weights add up to, counted by the *)
(* unit.                                                                   *)
Weights(c, keys) == Cardinality({u \in keys \X (1 .. MaxWeight) : u[2] <= c.entries[u[1]].weight})

(* evict_until_fit pops the oldest slot until `extra` bytes fit, and with  *)
(* it the entry it still has.                                              *)
Oldest(c, n) == {c.order[i] : i \in 1 .. n}
BytesAfter(c, n) == NotBelowZero(c.bytes - Weights(c, Oldest(c, n) \cap DOMAIN c.entries))

EvictUntilFit(c, extra) ==
    LET Fits(n) == BytesAfter(c, n) + extra <= Cap \/ n = Len(c.order)
        pops == CHOOSE n \in 0 .. Len(c.order) : Fits(n) /\ \A m \in 0 .. n - 1 : ~Fits(m)
    IN  [bytes |-> BytesAfter(c, pops),
         order |-> SubSeq(c.order, pops + 1, Len(c.order)),
         entries |-> Without(c.entries, Oldest(c, pops))]

(* insert_manifest, insert_map.                                            *)
Insert(cache, k, v) ==
    LET c == EvictUntilFit(Forget(cache, k), Weight(k, v)) IN
    [bytes |-> c.bytes + Weight(k, v),
     order |-> Append(c.order, k),
     entries |-> [x \in DOMAIN c.entries \cup {k} |->
                     IF x = k THEN [val |-> v, weight |-> Weight(k, v), since |-> uNow]
                     ELSE c.entries[x]]]

(* cached_manifest drops a negative entry past its time.                   *)
Expired(k) ==
    /\ k[2] = "manifest"
    /\ uCache.entries[k].val = NoManifest
    /\ uNow - uCache.entries[k].since > TTL

-----------------------------------------------------------------------------
(* errors.get: the manifest of the event's sha, then the maps it names.    *)

(* The lookup under the lock: a hit answers, an expired negative goes.     *)
Lookup(r, k, then) ==
    LET hit == k \in DOMAIN uCache.entries /\ ~Expired(k) IN
    /\ uCache' = IF k \in DOMAIN uCache.entries /\ Expired(k) THEN Forget(uCache, k) ELSE uCache
    /\ uRead' = [uRead EXCEPT ![r] =
           IF hit THEN then[uCache.entries[k].val]
           ELSE [at |-> "fetch", key |-> k]]

Values == {NoManifest} \cup SUBSET Maps
AfterManifest(sha) ==
    [v \in Values |-> IF v \in {NoManifest, {}} THEN NoRead ELSE [at |-> "maps", sha |-> sha, rels |-> v]]
AfterMap == [v \in Values |-> NoRead]

ReadManifest(r, s) ==
    /\ uRead[r].at = "idle"
    /\ uLeft.reads > 0
    /\ uLeft' = [uLeft EXCEPT !.reads = @ - 1]
    /\ Lookup(r, <<s, "manifest">>, AfterManifest(s))
    /\ UNCHANGED <<uRows, uBucket, uDep, uNow>>

ReadMap(r) ==
    /\ uRead[r].at = "maps"
    /\ \E rel \in uRead[r].rels : Lookup(r, <<uRead[r].sha, rel>>, AfterMap)
    /\ UNCHANGED <<uRows, uBucket, uDep, uNow, uLeft>>

(* fetch_manifest, fetch_map: what the bucket holds now; a failing store   *)
(* is Transient and leaves the cache alone.                                *)
Fetched(k) ==
    LET b == uBucket[k[1]] IN
    IF k[2] = "manifest" THEN b.manifest
    ELSE IF k[2] \in b.maps THEN {k[2]} ELSE NoManifest

Fetch(r) ==
    /\ uRead[r].at = "fetch"
    /\ uRead' = [uRead EXCEPT ![r] = [at |-> "insert", key |-> uRead[r].key, val |-> Fetched(uRead[r].key)]]
    /\ UNCHANGED <<uRows, uBucket, uDep, uCache, uNow, uLeft>>

FetchFails(r) ==
    /\ uRead[r].at = "fetch"
    /\ Faulty /\ Fault
    /\ uRead' = [uRead EXCEPT ![r] = NoRead]
    /\ UNCHANGED <<uRows, uBucket, uDep, uCache, uNow>>

InsertFetched(r) ==
    /\ uRead[r].at = "insert"
    /\ LET k == uRead[r].key
           v == uRead[r].val IN
       /\ uCache' = Insert(uCache, k, v)
       /\ uRead' = [uRead EXCEPT ![r] =
              IF k[2] = "manifest" THEN AfterManifest(k[1])[v] ELSE NoRead]
    /\ UNCHANGED <<uRows, uBucket, uDep, uNow, uLeft>>

-----------------------------------------------------------------------------
(* The end of a deploy: it serves already; the row still says deploying.   *)

Begin(s) ==
    /\ uDep = NoDep
    /\ uLeft.deploys > 0
    /\ uLeft' = [uLeft EXCEPT !.deploys = @ - 1]
    /\ uRows' = Append(uRows, [sha |-> s, status |-> "deploying"])
    /\ \E has \in BOOLEAN :
           uDep' = [at |-> IF has THEN "worker" ELSE "client", sha |-> s, manifest |-> {}, victims |-> {}]
    /\ UNCHANGED <<uBucket, uCache, uRead, uNow>>

(* The build, the migration or the health gate fails.                      *)
Fails ==
    /\ uDep # NoDep /\ uDep.at \in {"worker", "client"}
    /\ uDep.manifest = {}
    /\ Faulty /\ Fault
    /\ uRows' = [uRows EXCEPT ![Len(uRows)] = [@ EXCEPT !.status = "failed"]]
    /\ uDep' = NoDep
    /\ UNCHANGED <<uBucket, uCache, uRead, uNow>>

Put(map, next) ==
    /\ uBucket' = [uBucket EXCEPT ![uDep.sha] = [@ EXCEPT !.maps = uBucket[uDep.sha].maps \cup {map}]]
    /\ uDep' = [uDep EXCEPT !.at = next, !.manifest = uDep.manifest \cup {map}]

(* Any error of the store is a line of the log: the deploy is a success.   *)
Succeed ==
    /\ uRows' = [uRows EXCEPT ![Len(uRows)] = [@ EXCEPT !.status = "success"]]
    /\ uDep' = NoDep

PutWorker ==
    /\ uDep.at = "worker"
    /\ \/ Put("worker", "client") /\ UNCHANGED <<uRows, uLeft>>
       \/ Faulty /\ Fault /\ Succeed /\ UNCHANGED uBucket
    /\ UNCHANGED <<uCache, uRead, uNow>>

(* A client map that cannot be put is skipped.                             *)
PutClient ==
    /\ uDep.at = "client"
    /\ \/ Put("client", "manifest") /\ UNCHANGED uLeft
       \/ Faulty /\ Fault /\ uDep' = [uDep EXCEPT !.at = "manifest"] /\ UNCHANGED uBucket
    /\ UNCHANGED <<uRows, uCache, uRead, uNow>>

PutManifest ==
    /\ uDep.at = "manifest"
    /\ \/ /\ uBucket' = [uBucket EXCEPT ![uDep.sha] = [@ EXCEPT !.manifest = uDep.manifest]]
          /\ uDep' = [uDep EXCEPT !.at = "prune"]
          /\ UNCHANGED <<uRows, uLeft>>
       \/ Faulty /\ Fault /\ Succeed /\ UNCHANGED uBucket
    /\ UNCHANGED <<uCache, uRead, uNow>>

(* keep_shas: this deploy's, and each success, newest first, that finds at *)
(* most KeepShas commits kept.                                             *)
Succeeded(rows) == {i \in DOMAIN rows : rows[i].status = "success"}
Newer(rows, i) == {rows[j].sha : j \in {k \in Succeeded(rows) : k > i}}
KeepSuccesses(rows, current) ==
    {rows[i].sha : i \in {k \in Succeeded(rows) : Cardinality(Newer(rows, k)) <= KeepShas}}
Keep(rows, current) ==
    {current} \cup
    {rows[i].sha : i \in {k \in Succeeded(rows) : Cardinality({current} \cup Newer(rows, k)) <= KeepShas}}

(* prune_old_maps: without the history or the listing nothing is pruned.   *)
Listed == {s \in Shas : uBucket[s] # Empty}
PruneList ==
    /\ uDep.at = "prune"
    /\ \/ /\ uDep' = [uDep EXCEPT !.at = "remove", !.victims = Listed \ Keep(uRows, uDep.sha)]
          /\ UNCHANGED <<uRows, uLeft>>
       \/ Faulty /\ Fault /\ Succeed
    /\ UNCHANGED <<uBucket, uCache, uRead, uNow>>

(* s3_rm_prefix of one victim; a failure leaves part of the directory.     *)
PruneOne ==
    /\ uDep.at = "remove"
    /\ \E s \in uDep.victims :
       /\ uDep' = [uDep EXCEPT !.victims = @ \ {s}]
       /\ \/ uBucket' = [uBucket EXCEPT ![s] = Empty] /\ UNCHANGED uLeft
          \/ /\ Faulty /\ Fault
             /\ \E rest \in SUBSET uBucket[s].maps : uBucket' = [uBucket EXCEPT ![s] = [@ EXCEPT !.maps = rest]]
    /\ UNCHANGED <<uRows, uCache, uRead, uNow>>

Finish ==
    /\ uDep.at = "remove"
    /\ uDep.victims = {}
    /\ Succeed
    /\ UNCHANGED <<uBucket, uCache, uRead, uNow, uLeft>>

(* The runner dies: the cache is memory, boot fails the open row.          *)
Crash ==
    /\ Faulty /\ Fault
    /\ uRows' = IF uDep = NoDep THEN uRows ELSE [uRows EXCEPT ![Len(uRows)] = [@ EXCEPT !.status = "failed"]]
    /\ uDep' = NoDep
    /\ uCache' = NewCache
    /\ uRead' = [r \in Readers |-> NoRead]
    /\ UNCHANGED <<uBucket, uNow>>

Tick ==
    /\ uNow < MaxTime
    /\ uNow' = uNow + 1
    /\ UNCHANGED <<uRows, uBucket, uDep, uCache, uRead, uLeft>>

-----------------------------------------------------------------------------
Init ==
    /\ uRows = [i \in DOMAIN Deployed |-> [sha |-> Deployed[i], status |-> "success"]]
    /\ uBucket = [s \in Shas |-> IF s \in ToSet(Deployed) THEN [maps |-> {"worker"}, manifest |-> {"worker"}] ELSE Empty]
    /\ uDep = NoDep
    /\ uCache = NewCache
    /\ uRead = [r \in Readers |-> NoRead]
    /\ uNow = 0
    /\ uLeft = [deploys |-> MaxDeploys, reads |-> MaxReads, faults |-> MaxFaults]

Next ==
    \/ \E s \in Shas : Begin(s)
    \/ \E r \in Readers :
           \/ \E s \in Shas : ReadManifest(r, s)
           \/ ReadMap(r)
           \/ Fetch(r)
           \/ FetchFails(r)
           \/ InsertFetched(r)
    \/ Fails
    \/ PutWorker
    \/ PutClient
    \/ PutManifest
    \/ PruneList
    \/ PruneOne
    \/ Finish
    \/ Crash
    \/ Tick

Spec == Init /\ [][Next]_vars

-----------------------------------------------------------------------------
TypeOK ==
    /\ \A i \in DOMAIN uRows : uRows[i].sha \in Shas /\ uRows[i].status \in {"deploying", "success", "failed"}
    /\ \A s \in Shas : uBucket[s].maps \subseteq Maps /\ uBucket[s].manifest \in Values
    /\ uDep.at \in {"none", "worker", "client", "manifest", "prune", "remove"}
    /\ \A r \in Readers : uRead[r].at \in {"idle", "fetch", "insert", "maps"}
    /\ uNow \in 0 .. MaxTime

(* The cache's accounts are right whatever two readers that missed         *)
(* together inserted, and in whatever order entries expired and were       *)
(* evicted.  Every cached key holds exactly one slot in the eviction order *)
(* and no slot is without an entry: a stale slot would evict a fresh entry *)
(* early, an entry without one would never leave.  The bytes counted are   *)
(* those of the entries, and within MAX_CACHED_BYTES (forget, insert_map,  *)
(* insert_manifest, evict_until_fit).                                      *)
OneSlotEach(c) ==
    /\ \A i, j \in DOMAIN c.order : c.order[i] = c.order[j] => i = j
    /\ ToSet(c.order) = DOMAIN c.entries
BytesCounted(c) == c.bytes = Weights(c, DOMAIN c.entries)
CacheAccounted == OneSlotEach(uCache) /\ BytesCounted(uCache) /\ uCache.bytes <= Cap

(* A prune never touches the maps of the deploy that is finishing, nor     *)
(* those of the newest KEEP_DEPLOY_SHAS commits that were deployed: they   *)
(* cannot be rebuilt (keep_shas, prune_old_maps).                          *)
Recent(rows) ==
    {rows[i].sha : i \in {k \in Succeeded(rows) : Cardinality({rows[k].sha} \cup Newer(rows, k)) <= KeepShas}}
KeepsRecent ==
    \A s \in Shas :
        (uBucket[s].manifest # NoManifest /\ (s \in Recent(uRows) \/ (uDep # NoDep /\ s = uDep.sha)))
        => /\ uBucket'[s].manifest # NoManifest
           /\ uBucket[s].maps \subseteq uBucket'[s].maps
RecentMapsStay == [][KeepsRecent]_vars

(* Why: what a prune is about to remove was computed from the rows as they *)
(* still are.                                                              *)
Bounds ==
    /\ KeepShas \in Nat /\ MaxTime \in Nat /\ Deployed \in Seq(Shas)
    /\ Cap \in Nat /\ Cap >= MaxWeight
RowSet == [sha : Shas, status : {"deploying", "success", "failed"}]
Stored == [maps : SUBSET Maps, manifest : Values]
Deps == [at : {"worker", "client", "manifest", "prune", "remove"}, sha : Shas, manifest : SUBSET Maps, victims : SUBSET Shas]
StateOK ==
    /\ uRows \in Seq(RowSet) /\ uBucket \in [Shas -> Stored] /\ uDep \in Deps \cup {NoDep}
    /\ uDep # NoDep => Len(uRows) > 0
VictimInv == uDep # NoDep => uDep.victims \cap Keep(uRows, uDep.sha) = {}

(* Why a reader is always at one of its steps: what is cached under a key  *)
(* is a value of it.                                                       *)
Keys == Shas \X (Maps \cup {"manifest"})
Reads ==
    {NoRead} \cup [at : {"maps"}, sha : Shas, rels : SUBSET Maps]
             \cup [at : {"fetch"}, key : Keys] \cup [at : {"insert"}, key : Keys, val : Values]
CacheOK(c) ==
    /\ c.order \in Seq(Keys) /\ OneSlotEach(c) /\ BytesCounted(c)
    /\ \A k \in DOMAIN c.entries : c.entries[k].val \in Values /\ c.entries[k].weight \in 1 .. MaxWeight
CacheInv == CacheOK(uCache) /\ uCache.bytes <= Cap
ReadInv == uRead \in [Readers -> Reads] /\ uNow \in 0 .. MaxTime
=============================================================================
