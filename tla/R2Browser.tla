----------------------------- MODULE R2Browser -----------------------------
(***************************************************************************)
(* The R2 bucket browser (host/storage/r2.rs, api/storage.rs): a folder is *)
(* listed a page at a time with a delimiter and a cursor, an object is     *)
(* read as a head and then a get, an upload is spooled to a file and then  *)
(* put, a delete names up to a hundred keys.  The bucket belongs to the    *)
(* app's worker, which writes any key in between; `celld r2`, which owns   *)
(* the listing's order and its cursor, is external.                        *)
(*                                                                         *)
(* A key is the sequence of its segments between slashes: "a/b" is         *)
(* <<"a", "b">>, the folder marker "a/" <<"a", "">>, "a//b"                *)
(* <<"a", "", "b">>.  A listed prefix, which ends in a slash, is the       *)
(* sequence of the segments before it; the root is << >>.                  *)
(***************************************************************************)
EXTENDS Integers, Sequences, SequencesExt, FiniteSets, Functions

CONSTANTS
    Keys,        \* the keys anyone writes, in the store's order
    PageLimit,   \* entries of one listing page, after the clamp
    RawCap,      \* the size a raw download stops at
    Sizes,       \* sizes of objects
    Types,       \* content types
    MaxWrites,   \* BOUND: writes and deletes of the app's worker
    MaxRequests  \* BOUND: uploads, deletes and downloads through the runner

VARIABLES
    hObjects,    \* the bucket: key -> size and content type
    hWalk,       \* a visitor opening every folder: prefixes to list, rows seen
    hSteady,     \* keys present since the walk began
    hSpool,      \* the upload being spooled or put, its file
    hRead,       \* the download between its head and its get
    hLeft        \* what is left of the bounds

vars == <<hObjects, hWalk, hSteady, hSpool, hRead, hLeft>>

Universe == ToSet(Keys)
Records == [size : Sizes, type : Types]
None == [step |-> "none"]

-----------------------------------------------------------------------------
(* r2_key_ok and r2_prefix_ok: no leading slash, no ".." segment (lengths  *)
(* and control characters are left out).                                   *)
KeyOk(k) == k # << >> /\ k[1] # "" /\ \A i \in DOMAIN k : k[i] # ".."
PrefixOk(p) == p = << >> \/ KeyOk(p)

Marker(k) == Last(k) = ""

(* One entry of a delimited listing: a key of the folder itself, or the    *)
(* prefix that rolls up everything below it.                               *)
Rolled(prefix, k) ==
    LET n == Len(prefix) + 1 IN
    [file |-> Len(k) = n, path |-> SubSeq(k, 1, n)]

Below(prefix, k) == Len(k) > Len(prefix) /\ IsPrefix(prefix, k)

(* Where an entry ends in the store's order: after the last key it stands  *)
(* for.                                                                    *)
EndOf(prefix, e) ==
    CHOOSE i \in DOMAIN Keys :
        /\ Below(prefix, Keys[i]) /\ Rolled(prefix, Keys[i]) = e
        /\ \A j \in DOMAIN Keys : Below(prefix, Keys[j]) /\ Rolled(prefix, Keys[j]) = e => j <= i

(* `celld r2 list --page`, external: the first PageLimit entries past the  *)
(* cursor, and the cursor to go on from.                                   *)
Entries(prefix, cursor) ==
    {e \in {Rolled(prefix, k) : k \in {x \in DOMAIN hObjects : Below(prefix, x)}} :
        EndOf(prefix, e) > cursor}

CelldPage(prefix, cursor) ==
    LET all == Entries(prefix, cursor)
        page == {e \in all : Cardinality({f \in all : EndOf(prefix, f) < EndOf(prefix, e)}) < PageLimit}
    IN [entries |-> page, truncated |-> page # all,
        cursor |-> CHOOSE i \in {0} \cup {EndOf(prefix, e) : e \in page} :
                      \A e \in page : EndOf(prefix, e) <= i]

(* Mutant: a page is the last one when it shows fewer rows than asked for. *)
NextCursorShort(page, shown) ==
    IF Cardinality(shown) < PageLimit THEN {} ELSE {page.cursor}

(* shape_page: the marker of the folder is dropped from the rows; the      *)
(* cursor is handed on whenever the page was truncated.                    *)
ShownRows(page) == {e \in page.entries : ~(e.file /\ Marker(e.path))}
NextCursor(page, shown) == IF page.truncated THEN {page.cursor} ELSE {}

-----------------------------------------------------------------------------
TypeOK ==
    /\ DOMAIN hObjects \subseteq Universe
    /\ \A k \in DOMAIN hObjects : hObjects[k] \in Records
    /\ hSteady \subseteq DOMAIN hObjects
    /\ hWalk.step \in {"none", "walking"} /\ hSpool.step \in {"none", "spooled"}
    /\ hRead.step \in {"none", "headed", "served"}

Init ==
    /\ hObjects = << >>
    /\ hWalk = [step |-> "none", todo |-> {}, seen |-> {}]
    /\ hSteady = {}
    /\ hSpool = None /\ hRead = None
    /\ hLeft = [writes |-> MaxWrites, requests |-> MaxRequests]

Spent(what) == hLeft[what] > 0 /\ hLeft' = [hLeft EXCEPT ![what] = @ - 1]

Put(k, rec) == hObjects' = [x \in DOMAIN hObjects \cup {k} |-> IF x = k THEN rec ELSE hObjects[x]]
Removed(ks) ==
    /\ hObjects' = Restrict(hObjects, DOMAIN hObjects \ ks)
    /\ hSteady' = hSteady \ ks

(* The worker's own put() and delete(), external.                          *)
WorkerPut(k, rec) ==
    /\ Spent("writes") /\ Put(k, rec)
    /\ UNCHANGED <<hWalk, hSteady, hSpool, hRead>>

WorkerDelete(k) ==
    /\ Spent("writes") /\ k \in DOMAIN hObjects /\ Removed({k})
    /\ UNCHANGED <<hWalk, hSpool, hRead>>

(* The visitor opens the root.                                             *)
Open ==
    /\ hWalk.step = "none"
    /\ hWalk' = [step |-> "walking", todo |-> {[prefix |-> << >>, cursor |-> 0]}, seen |-> {}]
    /\ hSteady' = DOMAIN hObjects
    /\ UNCHANGED <<hObjects, hSpool, hRead, hLeft>>

(* r2_list: a prefix that is refused shows nothing; a page's folders are   *)
(* opened next, and its cursor followed.                                   *)
List(item) ==
    /\ item \in hWalk.todo
    /\ IF ~PrefixOk(item.prefix) THEN hWalk' = [hWalk EXCEPT !.todo = @ \ {item}]
       ELSE LET page == CelldPage(item.prefix, item.cursor)
                shown == ShownRows(page)
            IN hWalk' = [hWalk EXCEPT
                 !.todo = (@ \ {item})
                    \cup {[prefix |-> e.path, cursor |-> 0] : e \in {x \in shown : ~x.file}}
                    \cup {[prefix |-> item.prefix, cursor |-> c] : c \in NextCursor(page, shown)},
                 !.seen = @ \cup {e.path : e \in {x \in shown : x.file}}]
    /\ UNCHANGED <<hObjects, hSteady, hSpool, hRead, hLeft>>

(* app_r2_put: the key and type are checked, the body is spooled; past the *)
(* cap, or when the stream breaks, the file is removed and nothing is put. *)
Spool(k, rec) ==
    /\ hSpool = None /\ Spent("requests") /\ KeyOk(k)
    /\ hSpool' = [step |-> "spooled", key |-> k, rec |-> rec]
    /\ UNCHANGED <<hObjects, hWalk, hSteady, hRead>>

SpoolRefused ==
    /\ hSpool.step = "spooled"
    /\ hSpool' = None
    /\ UNCHANGED <<hObjects, hWalk, hSteady, hRead, hLeft>>

(* r2_put from the spooled file, which is removed either way.              *)
UploadPut ==
    /\ hSpool.step = "spooled" /\ hSpool.rec.size <= RawCap
    /\ Put(hSpool.key, hSpool.rec)
    /\ hSpool' = None
    /\ UNCHANGED <<hWalk, hSteady, hRead, hLeft>>

(* r2_delete_many: every key checked first, one celld call.                *)
DeleteMany(ks) ==
    /\ Spent("requests") /\ \A k \in ks : KeyOk(k)
    /\ Removed(ks)
    /\ UNCHANGED <<hWalk, hSpool, hRead>>

(* r2_raw and r2_get: the head gives size and type, the get the bytes.     *)
HeadObject(k, raw) ==
    /\ hRead.step \in {"none", "served"} /\ Spent("requests")
    /\ KeyOk(k)
    /\ hRead' = IF k \in DOMAIN hObjects /\ (raw => hObjects[k].size <= RawCap)
                THEN [step |-> "headed", key |-> k, head |-> hObjects[k]] ELSE None
    /\ UNCHANGED <<hObjects, hWalk, hSteady, hSpool>>

GetObject ==
    /\ hRead.step = "headed"
    /\ hRead' = IF hRead.key \in DOMAIN hObjects
                THEN [step |-> "served", head |-> hRead.head, bytes |-> hObjects[hRead.key]]
                ELSE None
    /\ UNCHANGED <<hObjects, hWalk, hSteady, hSpool, hLeft>>

Next ==
    \/ \E k \in Universe, rec \in Records : WorkerPut(k, rec) \/ Spool(k, rec)
    \/ \E k \in Universe : WorkerDelete(k)
    \/ Open
    \/ \E item \in hWalk.todo : List(item)
    \/ SpoolRefused \/ UploadPut
    \/ \E ks \in SUBSET DOMAIN hObjects \ {{}} : DeleteMany(ks)
    \/ \E k \in Universe, raw \in BOOLEAN : HeadObject(k, raw)
    \/ GetObject

Spec == Init /\ [][Next]_vars
-----------------------------------------------------------------------------
(* A visitor who opened every folder and every page has seen every object  *)
(* that was there all along, whatever was written and deleted meanwhile: a *)
(* page's cursor goes on after a page whose rows were all dropped, and a   *)
(* folder with an empty name opens like any other.  (Keys that begin with  *)
(* a slash or hold ".." are refused as prefixes.)                          *)
BrowseReachesEveryKey ==
    hWalk.step = "walking" /\ hWalk.todo = {} =>
        \A k \in hSteady : KeyOk(k) /\ ~Marker(k) => k \in hWalk.seen

(* Why: such a key has been seen, or a page that is still to be opened will *)
(* show it, or the folder it is in.                                        *)
Bounds == Keys \in Seq(Seq(STRING)) /\ PageLimit \in Nat
Items == [prefix : Seq(STRING), cursor : Nat]
Ahead(item, k) ==
    /\ PrefixOk(item.prefix) /\ Below(item.prefix, k)
    /\ EndOf(item.prefix, Rolled(item.prefix, k)) > item.cursor
StateOK ==
    /\ DOMAIN hObjects \subseteq Universe /\ hSteady \subseteq DOMAIN hObjects
    /\ hWalk \in [step : {"none", "walking"}, todo : SUBSET Items, seen : SUBSET Seq(STRING)]
    /\ hSpool.step = "spooled" => hSpool.key \in Universe
WalkInv ==
    hWalk.step = "walking" =>
        \A k \in hSteady : KeyOk(k) /\ ~Marker(k) => k \in hWalk.seen \/ \E item \in hWalk.todo : Ahead(item, k)

(* Why the records of the bucket keep their type: an upload that was        *)
(* spooled carries one.                                                     *)
SpoolInv == hSpool \in {None} \cup [step : {"spooled"}, key : Universe, rec : Records]

(* shape_page says a folder with an empty name still browses: so would an  *)
(* object whose key begins with a slash, which the root lists as the       *)
(* folder "(empty)".                                                       *)
EmptySegmentBrowses ==
    hWalk.step = "walking" /\ hWalk.todo = {} =>
        \A k \in hSteady : (\A i \in DOMAIN k : k[i] # "..") /\ Last(k) # "" => k \in hWalk.seen
=============================================================================
