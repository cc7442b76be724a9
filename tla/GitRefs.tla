------------------------------ MODULE GitRefs ------------------------------
(***************************************************************************)
(* Git hosting of one slug: the bare mirror git works on, the tip bundles  *)
(* and the manifest in the bucket, and the requests that go through them   *)
(* (host/git_http.rs, host/git_manifest.rs, host/git_policy.rs and the     *)
(* ref moves of host/forge.rs).                                            *)
(*                                                                         *)
(* A commit is a number, 0 no commit; a bundle's key is its ref and        *)
(* commit, so a manifest entry is the commit alone.  Four requests:        *)
(* "push" receive_pack, "publish" publish_refname, "read" read_mirror,     *)
(* "fetch" info_refs and upload_pack.                                      *)
(***************************************************************************)
EXTENDS Integers, FiniteSets

CONSTANTS
    Refs,       \* the ref names; "main" is the protected one
    Requests,   \* request slots: what can be under way at once
    MaxSha,     \* BOUND: commits
    MaxFaults,  \* BOUND: store failures and restarts
    MaxBegins   \* BOUND: requests begun

Shas == 0 .. MaxSha
NoRefs == [r \in Refs |-> 0]
NoManifest == [seq |-> 0, refs |-> NoRefs]
Free == "free"

VARIABLES
    gMirror,   \* the bare mirror: its HEAD exists, its refs
    gBundles,  \* tip bundles stored, as <<ref, commit>>
    gManifest, \* MANIFEST.json; seq 0 when there is none
    gApplied,  \* applied_seq of the slug, -1 when unset
    gGuard,    \* who holds the slug's push_guard
    gReq,      \* the requests
    gAck,      \* the commit of each ref whose push was answered, and no other begun since
    gLeft      \* commits, faults and requests left

vars == <<gMirror, gBundles, gManifest, gApplied, gGuard, gReq, gAck, gLeft>>

Writers == {"push", "publish"}
Pcs == {"idle", "guard", "bare", "hydrate", "coldread", "coldsync", "check", "recheck", "sync",
        "move", "upload", "manifest", "flip", "prune"}

(* A request's locals: its command (ref, commit, 0 to delete), whether the *)
(* mirror existed when it looked, the listing it hydrates from, the        *)
(* manifest it read, the refs before and after git ran.                    *)
Quiet == [pc |-> "idle", op |-> "read", ref |-> "main", new |-> 0, existed |-> TRUE, list |-> NoRefs,
          man |-> NoManifest, before |-> NoRefs, after |-> NoRefs]

TypeOK ==
    /\ gMirror \in [head : BOOLEAN, refs : [Refs -> Shas]]
    /\ gBundles \subseteq Refs \X (1 .. MaxSha)
    /\ gManifest \in [seq : Nat, refs : [Refs -> Shas]]
    /\ gApplied \in Nat \cup {-1}
    /\ gGuard \in Requests \cup {Free}
    /\ \A q \in Requests :
           /\ gReq[q].pc \in Pcs /\ gReq[q].op \in Writers \cup {"read", "fetch"}
           /\ gReq[q].ref \in Refs /\ gReq[q].new \in Shas /\ gReq[q].existed \in BOOLEAN
           /\ gReq[q].man.seq \in Nat
           /\ \A f \in {gReq[q].list, gReq[q].before, gReq[q].after, gReq[q].man.refs} : f \in [Refs -> Shas]
    /\ gAck \in [Refs -> Shas]
    /\ gLeft \in [sha : Shas, faults : 0 .. MaxFaults, begins : 0 .. MaxBegins]

Init ==
    /\ gMirror = [head |-> TRUE, refs |-> NoRefs]
    /\ gBundles = {} /\ gManifest = NoManifest /\ gApplied = -1
    /\ gGuard = Free
    /\ gReq = [q \in Requests |-> Quiet]
    /\ gAck = NoRefs
    /\ gLeft = [sha |-> MaxSha, faults |-> MaxFaults, begins |-> MaxBegins]

At(q, pc) == gReq[q].pc = pc
Go(q, pc) == gReq' = [gReq EXCEPT ![q] = [@ EXCEPT !.pc = pc]]
Done(q) == gReq' = [gReq EXCEPT ![q] = Quiet] /\ gGuard' = IF gGuard = q THEN Free ELSE gGuard
Fault == gLeft.faults > 0 /\ gLeft' = [gLeft EXCEPT !.faults = @ - 1]

-----------------------------------------------------------------------------
(* Policy.                                                                 *)

(* authorize: the UI's answer about the key.  Only a success that says ok  *)
(* and names a known role admits; for an unknown slug a push asks the UI   *)
(* to create the app and needs the row to be there afterwards.             *)
Replies == [status : {"ok", "denied", "unreachable"}, ok : BOOLEAN, role : {"view", "push", "admin", "unknown"},
            row : BOOLEAN]
Authorized(reply) == reply.status = "ok" /\ reply.ok /\ reply.role # "unknown" /\ reply.row

(* check_push_policy, check_branch_protection, updates_needing_ff: what a  *)
(* role may ask for.                                                       *)
PushAllowed(role, ref, delete, ff, requirePr) ==
    \/ role = "admin"
    \/ role = "push" /\ ~delete /\ ff /\ ~(requirePr /\ ref = "main")

(* A push whose head parses, whose key the UI accepts and whose commands   *)
(* the policy allows waits for the slug's guard; every other is answered   *)
(* and changes nothing.                                                    *)
BeginWrite(q) ==
    /\ At(q, "idle") /\ gLeft.begins > 0
    /\ \E op \in Writers, reply \in {x \in Replies : Authorized(x)}, ref \in Refs, ff \in BOOLEAN, requirePr \in BOOLEAN, delete \in BOOLEAN :
           /\ op = "push" => PushAllowed(reply.role, ref, delete, ff, requirePr)
           /\ ~delete => gLeft.sha > 0
           /\ gReq' = [gReq EXCEPT ![q] = [Quiet EXCEPT !.pc = "guard", !.op = op, !.ref = ref,
                                            !.new = IF delete THEN 0 ELSE MaxSha - gLeft.sha + 1]]
           /\ gLeft' = [gLeft EXCEPT !.begins = @ - 1, !.sha = IF delete THEN gLeft.sha ELSE gLeft.sha - 1]
    /\ UNCHANGED <<gMirror, gBundles, gManifest, gApplied, gGuard, gAck>>

(* read_mirror looks whether the mirror exists first; info_refs and        *)
(* upload_pack go straight to ensure_bare.  Neither holds the guard.       *)
BeginRead(q) ==
    /\ At(q, "idle") /\ gLeft.begins > 0
    /\ \E op \in {"read", "fetch"} :
           gReq' = [gReq EXCEPT ![q] = [Quiet EXCEPT !.pc = "bare", !.op = op,
                                         !.existed = IF op = "read" THEN gMirror.head ELSE TRUE]]
    /\ gLeft' = [gLeft EXCEPT !.begins = @ - 1]
    /\ UNCHANGED <<gMirror, gBundles, gManifest, gApplied, gGuard, gAck>>

(* push_guard, taken.  A writer goes on with the mirror, a reader that     *)
(* decided to sync with the re-check; a reader of a cold mirror resets     *)
(* applied_seq under the guard.                                            *)
TakeGuard(q) ==
    /\ At(q, "guard") /\ gGuard = Free
    /\ gGuard' = q
    /\ gReq' = [gReq EXCEPT ![q] = [@ EXCEPT !.pc = IF gReq[q].op \in Writers THEN "bare" ELSE "recheck",
                                            !.existed = IF gReq[q].op = "publish" THEN gMirror.head ELSE gReq[q].existed]]
    /\ gApplied' = IF gReq[q].op = "read" /\ ~gReq[q].existed THEN 0 ELSE gApplied
    /\ UNCHANGED <<gMirror, gBundles, gManifest, gAck, gLeft>>

-----------------------------------------------------------------------------
(* ensure_bare.                                                            *)

(* What a request does once its mirror is there.                           *)
AfterBare(q) ==
    CASE gReq[q].op = "push" -> "move"
      [] gReq[q].op = "publish" -> "recheck"
      [] gReq[q].op = "read" /\ ~gReq[q].existed -> "guard"
      [] OTHER -> "check"

(* A mirror with a HEAD is used as it is, else it is created, HEAD first.  *)
EnsureBare(q) ==
    /\ At(q, "bare")
    /\ IF gMirror.head
       THEN Go(q, AfterBare(q)) /\ UNCHANGED gMirror
       ELSE Go(q, "hydrate") /\ gMirror' = [head |-> TRUE, refs |-> NoRefs]
    /\ UNCHANGED <<gBundles, gManifest, gApplied, gGuard, gAck, gLeft>>

(* hydrate_from_s3 lists the bundles and keeps the latest of each ref: of  *)
(* several left behind, stored within one tick of LastModified, any.       *)
HydrateList(q) ==
    /\ At(q, "hydrate") /\ gReq[q].list = NoRefs
    /\ \E best \in [Refs -> Shas] :
           /\ \A r \in Refs : IF \E s \in Shas : <<r, s>> \in gBundles
                              THEN <<r, best[r]>> \in gBundles ELSE best[r] = 0
           /\ gReq' = [gReq EXCEPT ![q] = [@ EXCEPT !.list = best, !.pc = IF best = NoRefs THEN "coldread" ELSE "hydrate"]]
    /\ UNCHANGED <<gMirror, gBundles, gManifest, gApplied, gGuard, gAck, gLeft>>

(* One listed bundle is fetched by force; one that is gone, or a store     *)
(* that fails, fails the request, the mirror staying as far as it got.     *)
HydrateRef(q) ==
    /\ At(q, "hydrate")
    /\ \E r \in Refs :
           /\ gReq[q].list[r] # 0
           /\ IF <<r, gReq[q].list[r]>> \in gBundles
              THEN /\ gMirror' = [gMirror EXCEPT !.refs = [gMirror.refs EXCEPT ![r] = gReq[q].list[r]]]
                   /\ LET rest == [gReq[q].list EXCEPT ![r] = 0]
                      IN gReq' = [gReq EXCEPT ![q] = [@ EXCEPT !.list = rest,
                                                               !.pc = IF rest = NoRefs THEN "coldread" ELSE "hydrate"]]
                   /\ UNCHANGED gGuard
              ELSE Done(q) /\ UNCHANGED gMirror
    /\ UNCHANGED <<gBundles, gManifest, gApplied, gAck, gLeft>>

(* sync_manifest_cfg: the manifest is read, then applied; warn-only.       *)
ColdRead(q) ==
    /\ At(q, "coldread")
    /\ \/ gReq' = [gReq EXCEPT ![q] = [@ EXCEPT !.man = gManifest, !.pc = "coldsync"]] /\ UNCHANGED gLeft
       \/ Fault /\ Go(q, AfterBare(q))
    /\ UNCHANGED <<gMirror, gBundles, gManifest, gApplied, gGuard, gAck>>

(* sync_to_manifest: moved refs fetched, dropped ones deleted; a bundle    *)
(* that is gone stops it where it is.                                      *)
Fetchable(man) == \A r \in Refs : man.refs[r] \notin {0, gMirror.refs[r]} => <<r, man.refs[r]>> \in gBundles
SyncToManifest(man) ==
    IF man.seq > 0 /\ Fetchable(man) THEN gMirror' = [gMirror EXCEPT !.refs = man.refs] ELSE UNCHANGED gMirror

(* refresh_bare fetches what moved and deletes nothing.                    *)
RefreshBare(man) ==
    gMirror' = IF Fetchable(man)
               THEN [gMirror EXCEPT !.refs = [r \in Refs |-> IF man.refs[r] # 0 THEN man.refs[r] ELSE gMirror.refs[r]]]
               ELSE gMirror

ColdSync(q) ==
    /\ At(q, "coldsync")
    /\ SyncToManifest(gReq[q].man)
    /\ gReq' = [gReq EXCEPT ![q] = [@ EXCEPT !.man = NoManifest, !.pc = AfterBare(q)]]
    /\ UNCHANGED <<gBundles, gManifest, gApplied, gGuard, gAck, gLeft>>

-----------------------------------------------------------------------------
(* The double-checked sync (apply_manifest, refresh_from_manifest).        *)

(* pending_manifest: nothing when applied_seq covers it.                   *)
Pending == gManifest.seq > 0 /\ gManifest.seq > gApplied

(* The unlocked look: serve local, or go for the guard.                    *)
CheckUnlocked(q) ==
    /\ At(q, "check")
    /\ IF Pending THEN gReq' = [gReq EXCEPT ![q] = [@ EXCEPT !.man = gManifest, !.pc = "guard"]] /\ UNCHANGED gGuard
       ELSE Done(q)
    /\ UNCHANGED <<gMirror, gBundles, gManifest, gApplied, gAck, gLeft>>

(* What follows a sync: a reader is done, publish_refname moves its ref.   *)
Synced(q) == IF gReq[q].op = "publish" THEN Go(q, "move") /\ UNCHANGED gGuard ELSE Done(q)

(* Mutant: the manifest read before the guard is applied under it.         *)
TrustUnlockedRead(q) ==
    /\ At(q, "recheck")
    /\ gReq' = [gReq EXCEPT ![q].man = IF gReq[q].man.seq > 0 THEN @ ELSE gManifest, ![q].pc = "sync"]
    /\ UNCHANGED <<gMirror, gBundles, gManifest, gApplied, gGuard, gAck, gLeft>>

(* Under the guard the manifest is read and checked again.                 *)
Recheck(q) ==
    /\ At(q, "recheck")
    /\ IF Pending THEN gReq' = [gReq EXCEPT ![q] = [@ EXCEPT !.man = gManifest, !.pc = "sync"]] /\ UNCHANGED gGuard
       ELSE Synced(q)
    /\ UNCHANGED <<gMirror, gBundles, gManifest, gApplied, gAck, gLeft>>

(* The sync itself, and applied_seq moved forward when it went through.    *)
SyncGuarded(q) ==
    /\ At(q, "sync")
    /\ IF gReq[q].op = "fetch" THEN RefreshBare(gReq[q].man) ELSE SyncToManifest(gReq[q].man)
    /\ gApplied' = IF Fetchable(gReq[q].man) /\ gReq[q].man.seq > gApplied THEN gReq[q].man.seq ELSE gApplied
    /\ Synced(q)
    /\ UNCHANGED <<gBundles, gManifest, gAck, gLeft>>

-----------------------------------------------------------------------------
(* receive_pack's git run, publish_refname's cas_update, after_receive.    *)

Moved(q) ==
    /\ gMirror' = [gMirror EXCEPT !.refs = [gMirror.refs EXCEPT ![gReq[q].ref] = gReq[q].new]]
    /\ gReq' = [gReq EXCEPT ![q] = [@ EXCEPT !.pc = "upload", !.before = gMirror.refs,
                                            !.after = [gMirror.refs EXCEPT ![gReq[q].ref] = gReq[q].new]]]
    /\ gAck' = [gAck EXCEPT ![gReq[q].ref] = 0]
    /\ UNCHANGED gGuard

(* git moves the ref, or refuses because its old value is not the one the  *)
(* client named: the push goes on with nothing changed.                    *)
MoveRef(q) ==
    /\ At(q, "move") /\ gReq[q].op = "push"
    /\ \/ Moved(q)
       \/ /\ gReq' = [gReq EXCEPT ![q] = [@ EXCEPT !.pc = "upload", !.before = gMirror.refs, !.after = gMirror.refs]]
          /\ UNCHANGED <<gMirror, gAck, gGuard>>
    /\ UNCHANGED <<gBundles, gManifest, gApplied, gLeft>>

(* publish_refname's compare-and-set: refused, the publish ends.           *)
CasUpdate(q) ==
    /\ At(q, "move") /\ gReq[q].op = "publish"
    /\ \/ Moved(q)
       \/ Done(q) /\ UNCHANGED <<gMirror, gAck>>
    /\ UNCHANGED <<gBundles, gManifest, gApplied, gLeft>>

Changed(q) == {r \in Refs : gReq[q].after[r] # 0 /\ gReq[q].after[r] # gReq[q].before[r]}
Deleted(q) == {r \in Refs : gReq[q].after[r] = 0 /\ gReq[q].before[r] # 0}

(* write_ref_bundle, set_ref's way back, and what a prune may drop.        *)
TipBundles(q, refs) == {<<r, gReq[q].after[r]>> : r \in refs}
PutBack(q) == [r \in Refs |-> IF r \in Changed(q) \cup Deleted(q) THEN gReq[q].before[r] ELSE gMirror.refs[r]]
Superseded(q) ==
    {b \in gBundles : b[1] \in Deleted(q) \/ (b[1] \in Changed(q) /\ b[2] # gReq[q].after[b[1]])}

(* A bundle per changed ref.  A failed upload ends the request and puts    *)
(* back the refs uploaded before it: not the one that failed.              *)
Upload(q) ==
    /\ At(q, "upload")
    /\ \/ /\ gBundles' = gBundles \cup TipBundles(q, Changed(q))
          /\ Go(q, "manifest") /\ UNCHANGED <<gGuard, gLeft>>
       \/ Fault /\ Changed(q) # {} /\ Done(q) /\ UNCHANGED gBundles
    /\ UNCHANGED <<gMirror, gManifest, gApplied, gAck>>

(* Mutant: the superseded bundles go before the manifest flips.            *)
PruneEarly(q) ==
    /\ At(q, "manifest")
    /\ gReq' = [gReq EXCEPT ![q].pc = "flip", ![q].man = [seq |-> gManifest.seq + 1, refs |-> gReq[q].after]]
    /\ gBundles' = {b \in gBundles : b[1] \in Changed(q) => b[2] = gReq[q].after[b[1]]}
    /\ UNCHANGED <<gMirror, gManifest, gApplied, gGuard, gAck, gLeft>>

(* The complete post-push manifest: entries the mirror still has, the      *)
(* changed refs, and a bundle cut for a ref the old one does not carry.    *)
(* A manifest that cannot be read, or a bundle that cannot be cut, ends    *)
(* the request as it stands.                                               *)
BuildManifest(q) ==
    /\ At(q, "manifest")
    /\ \/ /\ gReq' = [gReq EXCEPT ![q] = [@ EXCEPT !.pc = "flip",
                                                  !.man = [seq |-> gManifest.seq + 1, refs |-> gReq[q].after]]]
          /\ gBundles' = gBundles \cup TipBundles(q, {r \in Refs : gReq[q].after[r] \notin {0, gManifest.refs[r]}})
          /\ UNCHANGED <<gGuard, gLeft>>
       \/ Fault /\ Done(q) /\ UNCHANGED gBundles
    /\ UNCHANGED <<gMirror, gManifest, gApplied, gAck>>

(* The one manifest write; when it reports a failure the moved refs are    *)
(* put back, whether or not it landed.                                     *)
Flip(q) ==
    /\ At(q, "flip")
    /\ \/ /\ gManifest' = gReq[q].man
          /\ gApplied' = IF gReq[q].man.seq > gApplied THEN gReq[q].man.seq ELSE gApplied
          /\ gAck' = [r \in Refs |-> IF r \in Changed(q) THEN gReq[q].after[r] ELSE gAck[r]]
          /\ Go(q, "prune") /\ UNCHANGED <<gMirror, gGuard, gLeft>>
       \/ /\ Fault /\ gManifest' \in {gManifest, gReq[q].man}
          /\ gMirror' = [gMirror EXCEPT !.refs = PutBack(q)]
          /\ Done(q) /\ UNCHANGED <<gApplied, gAck>>
    /\ UNCHANGED gBundles

(* prune_old_bundles and delete_ref_prefix, best effort; then the tips go  *)
(* out and the request is answered.                                        *)
Prune(q) ==
    /\ At(q, "prune")
    /\ \/ gBundles' = gBundles \ Superseded(q) /\ UNCHANGED gLeft
       \/ Fault /\ UNCHANGED gBundles
    /\ Done(q)
    /\ UNCHANGED <<gMirror, gManifest, gApplied, gAck>>

-----------------------------------------------------------------------------
(* The runner restarts: requests and markers are gone, and the disk with   *)
(* them where it is ephemeral.                                             *)
Restart ==
    /\ Fault
    /\ gReq' = [q \in Requests |-> Quiet] /\ gGuard' = Free /\ gApplied' = -1
    /\ gMirror' \in {gMirror, [head |-> FALSE, refs |-> NoRefs]}
    /\ UNCHANGED <<gBundles, gManifest, gAck>>

(* A purge holds the guard across the prefix, the mirror and the marker.   *)
Purge ==
    /\ gGuard = Free /\ Fault
    /\ gMirror' = [head |-> FALSE, refs |-> NoRefs] /\ gBundles' = {} /\ gManifest' = NoManifest
    /\ gApplied' = -1 /\ gAck' = NoRefs
    /\ UNCHANGED <<gGuard, gReq>>

RequestStep(q) ==
    \/ BeginWrite(q) \/ BeginRead(q) \/ TakeGuard(q) \/ EnsureBare(q) \/ HydrateList(q) \/ HydrateRef(q)
    \/ ColdRead(q) \/ ColdSync(q) \/ CheckUnlocked(q) \/ Recheck(q) \/ SyncGuarded(q)
    \/ MoveRef(q) \/ CasUpdate(q) \/ Upload(q) \/ BuildManifest(q) \/ Flip(q) \/ Prune(q)

Next == Restart \/ Purge \/ \E q \in Requests : RequestStep(q)

Spec == Init /\ [][Next]_vars

-----------------------------------------------------------------------------
(* What the guard is for.  A request past it holds it, so the manifest a   *)
(* sync is about to apply is the stored one, the one about to be written   *)
(* follows the stored one, and a prune knows what is stored.               *)
Bounds == MaxSha \in Nat /\ MaxFaults \in Nat /\ MaxBegins \in Nat /\ "main" \in Refs /\ Free \notin Requests
Manifests == [seq : Nat, refs : [Refs -> Shas]]
Reqs == [pc : Pcs, op : Writers \cup {"read", "fetch"}, ref : Refs, new : Shas, existed : BOOLEAN, list : [Refs -> Shas],
         man : Manifests, before : [Refs -> Shas], after : [Refs -> Shas]]
Guarded(req) ==
    \/ req.pc \in {"recheck", "sync", "move", "upload", "manifest", "flip", "prune"}
    \/ req.pc \in {"bare", "hydrate", "coldread", "coldsync"} /\ req.op \in Writers
StateOK ==
    /\ gMirror \in [head : BOOLEAN, refs : [Refs -> Shas]] /\ gManifest \in Manifests
    /\ gReq \in [Requests -> Reqs] /\ gLeft.sha \in Shas
Knows(req, man, bundles) ==
    /\ req.pc = "sync" => req.man = man
    /\ req.pc = "flip" => req.man.refs = req.after /\ \A r \in Refs : req.after[r] # 0 => <<r, req.after[r]>> \in bundles
    /\ req.pc = "prune" => man.refs = req.after
GuardInv == \A q \in Requests : Guarded(gReq[q]) => gGuard = q /\ Knows(gReq[q], gManifest, gBundles)

(* Every bundle the manifest names is in the store, across failed pushes,  *)
(* prunes, deletes and restarts: a cold mirror can always be rebuilt       *)
(* (git_manifest.rs 4-7: bundles first, then the manifest once).           *)
ManifestBundlesExist ==
    \A r \in Refs : gManifest.refs[r] # 0 => <<r, gManifest.refs[r]>> \in gBundles

(* A reader's guarded sync never takes a ref out of the mirror that the    *)
(* stored manifest names, nor moves it off that commit: a refs read that   *)
(* overlaps a push cannot apply the manifest from before its flip          *)
(* (forge.rs 194-198).                                                     *)
KeepsRefs ==
    \A q \in Requests :
        At(q, "sync") /\ gReq'[q] # gReq[q] /\ gMirror'.head =>
            \A r \in Refs : gMirror.refs[r] = gManifest.refs[r] => gMirror'.refs[r] = gMirror.refs[r]
ReadersKeepRefs == [][KeepsRefs]_vars

(* ensure_bare's comment: "the manifest wins before anyone reads or writes *)
(* through this mirror".  A ref whose push was answered stays in the       *)
(* manifest, at that commit, until git moves that ref again.               *)
AcknowledgedKept == \A r \in Refs : gAck[r] # 0 => gManifest.refs[r] = gAck[r]
=============================================================================
