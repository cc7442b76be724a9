----------------------------- MODULE S3Client -----------------------------
(***************************************************************************)
(* The runner's S3 client (host/s3.rs) against a store other callers and    *)
(* the fleets write at the same time: retried listings, downloads and       *)
(* uploads, single and batched deletes, the recursive delete a purge uses   *)
(* (host/purge.rs clear_s3_prefix), the copy a rename uses, and the bucket  *)
(* check at boot.                                                           *)
(*                                                                         *)
(* Keys are numbers in listing order and an object is the number of the     *)
(* write that made it, 0 when there is none.  Signing, URIs, XML and the    *)
(* byte counts are left out; a body is BodyLen pieces of one write.  A call  *)
(* keeps the keys it was named, and how many names or pieces it was sent.   *)
(***************************************************************************)
EXTENDS Integers, Sequences, FiniteSets, FiniteSetsExt

CONSTANTS NumKeys, PageSize, BodyLen,
          Attempts,                        \* S3_MAX_ATTEMPTS
          Waits,                           \* polls ensure_buckets makes
          MaxWrites, MaxCalls, MaxFaults

Keys == 1..NumKeys
Whole(v) == [i \in 1..BodyLen |-> v]

VARIABLES lStore,   \* key -> write, the bucket's content
          lBucket,  \* the bucket exists
          lCall,    \* the call in progress
          lKept,    \* keys that were there all through the call
          lEver,    \* keys that were there at some time in the call
          lFresh,   \* keys written since the call's last listing page
          lFile,    \* the pieces in the download's local file
          lWrites, lLeft

vars == <<lStore, lBucket, lCall, lKept, lEver, lFresh, lFile, lWrites, lLeft>>

Present == {k \in Keys : lStore[k] # 0}
Empty == [op |-> "none", step |-> "idle", key |-> 1, body |-> 0, failed |-> 0,
          token |-> 0, got |-> {}, count |-> 0]

TypeOK ==
    /\ lStore \in [Keys -> 0..MaxWrites + 1] /\ lBucket \in BOOLEAN
    /\ lCall.op \in {"none", "list", "rm", "get", "put", "copy", "delete", "ensure"}
    /\ lCall.step \in {"idle", "page", "batch", "get", "body", "put", "delete",
                       "wait", "create", "head", "config", "ok", "err"}
    /\ lCall.failed \in 0..(IF lCall.op = "ensure" THEN Waits ELSE Attempts) - 1 /\ lCall.token \in 0..NumKeys
    /\ lCall.key \in Keys /\ lCall.body \in 0..MaxWrites + 1
    /\ lKept \subseteq Keys /\ lEver \subseteq Keys /\ lFresh \subseteq Keys
    /\ lWrites \in 0..MaxWrites
    /\ lLeft \in [calls : 0..MaxCalls, faults : 0..MaxFaults]

(* Every key but the last is stored; the bucket is a fresh install's. *)
Init ==
    /\ lStore = [k \in Keys |-> IF k = NumKeys THEN 0 ELSE MaxWrites + 1]
    /\ lBucket = FALSE /\ lCall = [Empty EXCEPT !.op = "ensure", !.step = "wait"]
    /\ lKept = {} /\ lEver = {} /\ lFresh = {} /\ lFile = <<>> /\ lWrites = 0
    /\ lLeft = [calls |-> MaxCalls, faults |-> MaxFaults]

Spent == lLeft.faults > 0 /\ lLeft' = [lLeft EXCEPT !.faults = @ - 1]
At(step) == lCall.step = step
Idle == lCall.step \in {"idle", "ok", "err"}
Go(step) == lCall' = [lCall EXCEPT !.step = step]

-----------------------------------------------------------------------------
(* Other callers of the store.                                              *)

OtherWrites(k) ==
    /\ lBucket /\ lWrites < MaxWrites /\ lWrites' = lWrites + 1
    /\ lStore' = [lStore EXCEPT ![k] = lWrites + 1]
    /\ lEver' = lEver \cup {k} /\ lFresh' = lFresh \cup {k}
    /\ UNCHANGED <<lBucket, lCall, lKept, lFile, lLeft>>

OtherErases(k) ==
    /\ lStore[k] # 0 /\ lWrites < MaxWrites /\ lWrites' = lWrites + 1
    /\ lStore' = [lStore EXCEPT ![k] = 0] /\ lKept' = lKept \ {k}
    /\ UNCHANGED <<lBucket, lCall, lEver, lFresh, lFile, lLeft>>

-----------------------------------------------------------------------------
(* with_s3_retry and classify_status.                                       *)

(* Where an attempt starts over: a listing from its first page, a download   *)
(* with an empty file, an upload from the start of its source.              *)
Restarted == [lCall EXCEPT !.failed = @ + 1, !.token = 0, !.got = {}, !.count = 0]
RestartStep == IF At("body") THEN "get" ELSE lCall.step

(* Mutant: the comparison lets one attempt too many through. *)
ExhaustedLate == lCall.failed >= Attempts
Exhausted == lCall.failed + 1 >= Attempts

(* A 5xx, a SlowDown, a request that never arrived, a body cut short. *)
Retryable ==
    /\ lCall.step \in {"page", "get", "body", "put"} /\ Spent
    /\ lCall' = IF Exhausted
                THEN [lCall EXCEPT !.step = "err"]
                ELSE [Restarted EXCEPT !.step = RestartStep]
    /\ UNCHANGED <<lStore, lBucket, lKept, lEver, lFresh, lFile, lWrites>>

(* A 4xx, a full disk, an answer that does not parse. *)
Final ==
    /\ lCall.step \in {"page", "get", "body", "put", "delete", "batch"} /\ Spent
    /\ Go("err")
    /\ UNCHANGED <<lStore, lBucket, lKept, lEver, lFresh, lFile, lWrites>>

-----------------------------------------------------------------------------
(* The calls.                                                               *)

Call(op, step, k) ==
    /\ Idle /\ lBucket /\ lLeft.calls > 0
    /\ lLeft' = [lLeft EXCEPT !.calls = @ - 1]
    /\ lCall' = [Empty EXCEPT !.op = op, !.step = step, !.key = k,
                              !.body = IF op = "put" THEN MaxWrites + 1 ELSE 0]
    /\ lKept' = Present /\ lEver' = Present /\ lFresh' = {} /\ lFile' = <<>>
    /\ UNCHANGED <<lStore, lBucket, lWrites>>

Begin ==
    \/ Call("list", "page", 1) \/ Call("rm", "page", 1)
    \/ \E k \in Keys : \/ Call("get", "get", k) \/ Call("copy", "get", k)
                       \/ Call("put", "put", k) \/ Call("delete", "delete", k)

(* list_page: the keys after the token, and the token that continues them:  *)
(* 0 when the store says there is no more.                                  *)
After(present, token) == {k \in present : k > token}
Page(present, token) ==
    {k \in After(present, token) : Cardinality({j \in After(present, token) : j < k}) < PageSize}
NextToken(present, token, page) == IF After(present, token) \subseteq page THEN 0 ELSE Max(page)

(* list_once: pages are merged until one carries no token.                  *)
ListPage ==
    /\ lCall.op = "list" /\ At("page")
    /\ LET page == Page(Present, lCall.token)
           next == NextToken(Present, lCall.token, page) IN
       lCall' = [lCall EXCEPT !.got = @ \cup page, !.count = @ + Cardinality(page), !.token = next,
                              !.step = IF next = 0 THEN "ok" ELSE "page"]
    /\ UNCHANGED <<lStore, lBucket, lKept, lEver, lFresh, lFile, lWrites, lLeft>>

(* s3_rm_prefix: the first page is deleted until there is none. *)
RmDone(page) == page = {}
RmPage ==
    /\ lCall.op = "rm" /\ At("page")
    /\ LET page == Page(Present, 0) IN
       lCall' = [lCall EXCEPT !.got = page, !.failed = 0, !.step = IF RmDone(page) THEN "ok" ELSE "batch"]
    /\ lFresh' = {}
    /\ UNCHANGED <<lStore, lBucket, lKept, lEver, lFile, lWrites, lLeft>>

(* s3_delete_keys: an error entry for one key, or an answer that is lost,    *)
(* fails the call, whatever the store has deleted by then.                  *)
Erased(keys) == [k \in Keys |-> IF k \in keys THEN 0 ELSE lStore[k]]
DeleteBatch ==
    /\ At("batch")
    /\ LET batch == lCall.got IN
       \/ lStore' = Erased(batch) /\ lKept' = lKept \ batch /\ Go("page") /\ UNCHANGED lLeft
       \/ /\ Spent /\ Go("err")
          /\ \E some \in SUBSET batch : lStore' = Erased(some) /\ lKept' = lKept \ some
    /\ UNCHANGED <<lBucket, lEver, lFresh, lFile, lWrites>>

(* s3_delete_key: a missing key is a success.  Not retried. *)
DeleteOne ==
    /\ At("delete")
    /\ \/ Go("ok") /\ UNCHANGED lLeft
       \/ Go("err") /\ Spent
    /\ lStore' = Erased({lCall.key}) /\ lKept' = lKept \ {lCall.key}
    /\ UNCHANGED <<lBucket, lEver, lFresh, lFile, lWrites>>

(* get_once: a missing key is final; the file is created per attempt. *)
NewFile == <<>>
GetObject ==
    /\ At("get")
    /\ IF lStore[lCall.key] = 0 THEN Go("err") /\ UNCHANGED lFile
       ELSE /\ lCall' = [lCall EXCEPT !.step = "body", !.body = lStore[lCall.key]]
            /\ lFile' = NewFile
    /\ UNCHANGED <<lStore, lBucket, lKept, lEver, lFresh, lWrites, lLeft>>

(* Pieces arrive until the body ends; a copy then uploads what it has. *)
GetBody ==
    /\ At("body") /\ lFile' = Append(lFile, lCall.body)
    /\ lCall' = [lCall EXCEPT
         !.count = @ + 1,
         !.failed = IF lCall.count + 1 = BodyLen /\ lCall.op = "copy" THEN 0 ELSE @,
         !.step = CASE lCall.count + 1 < BodyLen -> "body"
                    [] lCall.op = "get" -> "ok"
                    [] OTHER -> "put"]
    /\ UNCHANGED <<lStore, lBucket, lKept, lEver, lFresh, lWrites, lLeft>>

(* put_once: the object lands whole; its answer may be lost, and the retry   *)
(* sends the same file again.  A copy goes to the key after its source.     *)
Target == IF lCall.op = "copy" THEN (lCall.key % NumKeys) + 1 ELSE lCall.key
PutObject ==
    /\ At("put")
    /\ lStore' = [lStore EXCEPT ![Target] = lCall.body]
    /\ lEver' = lEver \cup {Target} /\ lFresh' = lFresh \cup {Target}
    /\ \/ Go("ok") /\ UNCHANGED lLeft
       \/ /\ Spent
          /\ lCall' = IF Exhausted THEN [lCall EXCEPT !.step = "err"]
                      ELSE [lCall EXCEPT !.failed = @ + 1]
    /\ UNCHANGED <<lBucket, lKept, lFile, lWrites>>

-----------------------------------------------------------------------------
(* ensure_buckets: any answer below 500 is an endpoint that is up; creating  *)
(* the bucket and configuring it may fail, the HEAD after it may not.       *)
EndpointUp ==
    /\ At("wait")
    /\ \/ Go("create") /\ UNCHANGED lLeft
       \/ /\ Spent
          /\ lCall' = IF lCall.failed + 1 >= Waits THEN [lCall EXCEPT !.step = "err"]
                      ELSE [lCall EXCEPT !.failed = @ + 1]
    /\ UNCHANGED <<lStore, lBucket, lKept, lEver, lFresh, lFile, lWrites>>

CreateBucket ==
    /\ At("create") /\ Go("head")
    /\ \/ lBucket' = TRUE /\ UNCHANGED lLeft
       \/ Spent /\ UNCHANGED lBucket
    /\ UNCHANGED <<lStore, lKept, lEver, lFresh, lFile, lWrites>>

HeadBucket ==
    /\ At("head")
    /\ \/ Go(IF lBucket THEN "config" ELSE "err") /\ UNCHANGED lLeft
       \/ Spent /\ Go("err")
    /\ UNCHANGED <<lStore, lBucket, lKept, lEver, lFresh, lFile, lWrites>>

ConfigureBucket ==
    /\ At("config") /\ Go("ok")
    /\ UNCHANGED <<lStore, lBucket, lKept, lEver, lFresh, lFile, lWrites, lLeft>>

(* A boot that failed is tried again by the container's restart. *)
BootAgain ==
    /\ lCall.op = "ensure" /\ At("err")
    /\ lCall' = [Empty EXCEPT !.op = "ensure", !.step = "wait"]
    /\ UNCHANGED <<lStore, lBucket, lKept, lEver, lFresh, lFile, lWrites, lLeft>>

Next ==
    \/ \E k \in Keys : OtherWrites(k) \/ OtherErases(k)
    \/ Retryable \/ Final \/ Begin
    \/ ListPage \/ RmPage \/ DeleteBatch \/ DeleteOne \/ GetObject \/ GetBody \/ PutObject
    \/ EndpointUp \/ CreateBucket \/ HeadBucket \/ ConfigureBucket \/ BootAgain

Spec == Init /\ [][Next]_vars

-----------------------------------------------------------------------------
Done(op) == lCall.op = op /\ At("ok")

(* A listing that succeeds names every key that was there all through the    *)
(* call, none that never was, and none twice, though it is made of pages    *)
(* and may have been started again (s3_list_raw): a purge, a rename and a   *)
(* manifest read act on it as the whole truth.                              *)
ListComplete ==
    Done("list") =>
        /\ lKept \subseteq lCall.got /\ lCall.got \subseteq lEver
        /\ Cardinality(lCall.got) = lCall.count

(* Why: up to its token a listing has every key that stayed, and every key   *)
(* it has was there.                                                        *)
Bounds ==
    /\ NumKeys \in Nat \ {0} /\ PageSize \in Nat \ {0} /\ Attempts \in Nat \ {0} /\ Waits \in Nat \ {0}
    /\ MaxWrites \in Nat /\ MaxCalls \in Nat /\ MaxFaults \in Nat
Calls == [op : {"none", "list", "rm", "get", "put", "copy", "delete", "ensure"},
          step : {"idle", "page", "batch", "get", "body", "put", "delete", "wait", "create", "head", "config",
                  "ok", "err"},
          key : Keys, body : Int, failed : Int, token : 0..NumKeys, got : SUBSET Keys, count : Int]
StateOK ==
    /\ lStore \in [Keys -> Int] /\ lCall \in Calls /\ lWrites \in Nat
    /\ lCall.op = "list" => lCall.step \in {"page", "ok", "err"}
    /\ lCall.op = "rm" => lCall.step \in {"page", "batch", "ok", "err"}
ListInv ==
    lCall.op = "list" =>
        /\ Present \subseteq lEver /\ lKept \subseteq Present
        /\ lCall.step # "err" =>
               /\ lCall.got \subseteq lEver /\ Cardinality(lCall.got) = lCall.count
               /\ At("ok") => lKept \subseteq lCall.got
        /\ At("page") =>
               /\ \A k \in lCall.got : k <= lCall.token
               /\ \A k \in lKept : k <= lCall.token => k \in lCall.got

(* Why the attempts are counted against their own bound: the steps of the     *)
(* bucket check are those of no other call.                                 *)
EnsureSteps == {"wait", "create", "head", "config"}
EnsureInv ==
    /\ lCall.op = "ensure" => lCall.step \in EnsureSteps \cup {"ok", "err"}
    /\ lCall.step \in EnsureSteps => lCall.op = "ensure"

(* A recursive delete that succeeds left nothing but what was written after  *)
(* its last, empty page (s3_rm_prefix).                                     *)
RmEmptied == Done("rm") => Present \subseteq lFresh

(* What a download leaves in its file is one whole object, never the pieces  *)
(* of two attempts (get_once).                                              *)
FileWhole == Done("get") => lFile = Whole(lCall.body)
=============================================================================
