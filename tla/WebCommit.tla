----------------------------- MODULE WebCommit -----------------------------
(***************************************************************************)
(* The tree of a browser commit (host/web_commit.rs): its validation, and  *)
(* build_commit's three passes over the parent's tree: moves, writes,      *)
(* deletes.  A tree maps each path to a blob, 0 where it has none.         *)
(***************************************************************************)
EXTENDS Integers, FiniteSets

CONSTANTS
    Paths,     \* file paths that validate_web_path accepts
    MaxMoves   \* BOUND: moves of a commit

Written == 9   \* the blob of a written file; the parent's blobs are 1, 2, ...

VARIABLES
    wParent,   \* the parent's tree
    wChange,   \* the request: files written, moves <<from, to>>, deletes
    wIndex,    \* the scratch index
    wStep      \* "idle", "asked", "moved", "written", "committed", "refused"

vars == <<wParent, wChange, wIndex, wStep>>

Trees == {t \in [Paths -> 0 .. Cardinality(Paths)] :
              \A p, q \in Paths : p # q /\ t[p] = t[q] => t[p] = 0}
NoChange == [files |-> {}, moves |-> {}, deletes |-> {}]
Froms(c) == {m[1] : m \in c.moves}
Tos(c) == {m[2] : m \in c.moves}

(* validate_moves: no move onto itself, no path moved twice or a target    *)
(* twice, no moved path also deleted or written.                           *)
ValidMoves(c) ==
    /\ \A m \in c.moves : m[1] # m[2] /\ m[1] \notin c.deletes \cup c.files
    /\ Cardinality(Froms(c)) = Cardinality(c.moves) /\ Cardinality(Tos(c)) = Cardinality(c.moves)

(* commit_into: something to do, nothing both written and deleted.         *)
Valid(c) == c # NoChange /\ c.files \cap c.deletes = {} /\ ValidMoves(c)

(* build_commit on the parent's tree: a moved path is a blob there, and a  *)
(* target is free or vacated by this commit; a deleted path is a blob.     *)
Vacated(c, p) == p \in c.deletes \/ p \in Froms(c)
Movable(c) == \A m \in c.moves : wParent[m[1]] # 0 /\ (Vacated(c, m[2]) \/ wParent[m[2]] = 0)

Init == wParent = [p \in Paths |-> 0] /\ wIndex = wParent /\ wChange = NoChange /\ wStep = "idle"

Ask ==
    /\ wStep = "idle"
    /\ wParent' \in Trees
    /\ \E f \in SUBSET Paths, d \in SUBSET Paths, mv \in SUBSET (Paths \X Paths) :
           Cardinality(mv) <= MaxMoves /\ wChange' = [files |-> f, moves |-> mv, deletes |-> d]
    /\ wIndex' = wParent'
    /\ wStep' = IF Valid(wChange') THEN "asked" ELSE "refused"

(* Mutant: each move is applied to the index on its own.                   *)
MovesOneByOne ==
    /\ wStep = "asked" /\ Movable(wChange)
    /\ wIndex' = [p \in Paths |-> IF p \in Froms(wChange) THEN 0
                                  ELSE IF p \in Tos(wChange) THEN wParent[(CHOOSE m \in wChange.moves : m[2] = p)[1]]
                                  ELSE wIndex[p]]
    /\ wStep' = "moved"
    /\ UNCHANGED <<wParent, wChange>>

(* All removals, then all additions, the blobs read from the parent.       *)
Moves ==
    /\ wStep = "asked" /\ Movable(wChange)
    /\ wIndex' = [p \in Paths |-> IF p \in Tos(wChange) THEN wParent[(CHOOSE m \in wChange.moves : m[2] = p)[1]]
                                  ELSE IF p \in Froms(wChange) THEN 0
                                  ELSE wIndex[p]]
    /\ wStep' = "moved"
    /\ UNCHANGED <<wParent, wChange>>

Writes ==
    /\ wStep = "moved"
    /\ wIndex' = [p \in Paths |-> IF p \in wChange.files THEN Written ELSE wIndex[p]]
    /\ wStep' = "written"
    /\ UNCHANGED <<wParent, wChange>>

(* Deletes last; each must be a blob of the parent's tree.                 *)
Deletes ==
    /\ wStep = "written" /\ \A p \in wChange.deletes : wParent[p] # 0
    /\ wIndex' = [p \in Paths |-> IF p \in wChange.deletes THEN 0 ELSE wIndex[p]]
    /\ wStep' = "committed"
    /\ UNCHANGED <<wParent, wChange>>

Refuse ==
    /\ \/ wStep = "asked" /\ ~Movable(wChange)
       \/ wStep = "written" /\ \E p \in wChange.deletes : wParent[p] = 0
    /\ wStep' = "refused"
    /\ UNCHANGED <<wParent, wChange, wIndex>>

Next == Ask \/ Moves \/ Writes \/ Deletes \/ Refuse

Spec == Init /\ [][Next]_vars

Bounds == IsFiniteSet(Paths)
TypeOK ==
    /\ wParent \in [Paths -> 0 .. Cardinality(Paths)]
    /\ wIndex \in [Paths -> 0 .. Cardinality(Paths) \cup {Written}]
    /\ wChange.files \cup wChange.deletes \subseteq Paths /\ wChange.moves \subseteq Paths \X Paths
    /\ wStep \in {"idle", "asked", "moved", "written", "committed", "refused"}

-----------------------------------------------------------------------------
(* What a commit is asked to be, path by path: what is written there, else *)
(* what moves there, else what was there unless it moved away or goes.     *)
Asked(p) ==
    CASE p \in wChange.files -> Written
      [] p \in Tos(wChange) \ wChange.files -> wParent[(CHOOSE m \in wChange.moves : m[2] = p)[1]]
      [] p \in (Froms(wChange) \cup wChange.deletes) \ (Tos(wChange) \cup wChange.files) -> 0
      [] OTHER -> wParent[p]

(* A commit that goes through is the tree it was asked to be, swaps and    *)
(* chains of moves, and moves onto written files included, wherever no     *)
(* move lands on a deleted path.                                           *)
CommitsWhatWasAsked ==
    wStep = "committed" /\ Tos(wChange) \cap wChange.deletes = {} => \A p \in Paths : wIndex[p] = Asked(p)

(* Why: the index after each pass.                                         *)
Moved(p) ==
    IF p \in Tos(wChange) THEN wParent[(CHOOSE m \in wChange.moves : m[2] = p)[1]]
    ELSE IF p \in Froms(wChange) THEN 0 ELSE wParent[p]
PassInv ==
    /\ wStep \in {"asked", "moved", "written", "committed"} => Valid(wChange)
    /\ \A p \in Paths :
           /\ wStep = "asked" => wIndex[p] = wParent[p]
           /\ wStep = "moved" => wIndex[p] = Moved(p)
           /\ wStep = "written" => wIndex[p] = IF p \in wChange.files THEN Written ELSE Moved(p)
    /\ CommitsWhatWasAsked

(* build_commit: "A `to` may only overwrite a path this commit already     *)
(* vacates: another move's `from`, or a delete."  A blob moved onto a path *)
(* the commit deletes is in the committed tree.                            *)
MovedBlobsLand ==
    wStep = "committed" => \A m \in wChange.moves : m[2] \notin wChange.files => wIndex[m[2]] = wParent[m[1]]
=============================================================================
