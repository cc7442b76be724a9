-------------------------- MODULE PlatformProofs --------------------------
(* What the components of MCPlatform promise, for every value of their      *)
(* constants: renames, limits and build users, containment, notices, errors,*)
(* events, the access log and custom domains. A component's lemmas come     *)
(* first, then its inductive invariant for the platform, then its theorems. *)
EXTENDS MCPlatform, TLAPS, FiniteSetTheorems, WellFoundedInduction

(* A set of naturals that is not empty has a least element. *)
LEMMA NatMin == ASSUME NEW S \in SUBSET Nat, S # {} PROVE \E u \in S : \A w \in S : u <= w
  <1>1. PICK x \in S : \A y \in S : ~(<<y, x>> \in OpToRel(<, Nat))
    BY NatLessThanWellFounded, WFMin, Zenon
  <1>2. ASSUME NEW w \in S PROVE x <= w
    <2>1. ~(<<w, x>> \in OpToRel(<, Nat)) BY <1>1, Zenon
    <2>2. ~(w < x) BY <2>1 DEF OpToRel
    <2> QED BY <2>2
  <1> QED BY <1>2

(* A family of subsets of a finite set has a minimal member. *)
LEMMA FinMin == ASSUME NEW V, IsFiniteSet(V), NEW B \in SUBSET SUBSET V, B # {}
                PROVE \E S \in B : \A U \in B : ~(U \subseteq S /\ U # S)
  <1>1. IsWellFoundedOn(StrictSubsetOrdering(V), SUBSET V)
    BY FS_StrictSubsetOrderingWellFounded, FS_FiniteSubsetsOfFinite
  <1>2. PICK S \in B : \A U \in B : ~(<<U, S>> \in StrictSubsetOrdering(V))
    BY <1>1, WFMin
  <1> QED BY <1>2 DEF StrictSubsetOrdering

(* A strict order on a finite set has a maximal element in every part. *)
LEMMA Maximal ==
  ASSUME NEW V, IsFiniteSet(V), NEW R,
         \A x \in V : <<x, x>> \notin R,
         \A x, y, z \in V : <<x, y>> \in R /\ <<y, z>> \in R => <<x, z>> \in R,
         NEW T \in SUBSET V, T # {}
  PROVE  \E m \in T : \A w \in T : <<m, w>> \notin R
  <1> DEFINE Has(S) == \E m \in S : \A w \in S : <<m, w>> \notin R
             B == {S \in SUBSET V : S # {} /\ ~Has(S)}
  <1> SUFFICES B = {} OBVIOUS
  <1>1. SUFFICES ASSUME B # {} PROVE FALSE OBVIOUS
  <1>a. B \in SUBSET SUBSET V OBVIOUS
  <1>b. \A S : S \in B <=> S \in SUBSET V /\ S # {} /\ ~Has(S) OBVIOUS
  <1> HIDE DEF B
  <1>2. PICK S \in B : \A U \in B : ~(U \subseteq S /\ U # S) BY <1>1, <1>a, FinMin
  <1>3. PICK x \in S : TRUE BY <1>b
  <1>4. S \ {x} \notin B BY <1>2, <1>3
  <1>5. CASE S = {x} BY <1>5, <1>b
  <1>6. CASE Has(S \ {x})
    <2>1. PICK m \in S \ {x} : \A w \in S \ {x} : <<m, w>> \notin R BY <1>6
    <2>2. CASE <<m, x>> \in R
      <3>1. \A w \in S : <<x, w>> \notin R BY <2>1, <2>2, <1>b
      <3> QED BY <3>1, <1>3, <1>b
    <2>3. CASE <<m, x>> \notin R
      <3>1. \A w \in S : <<m, w>> \notin R BY <2>1, <2>3
      <3> QED BY <3>1, <2>1, <1>b
    <2> QED BY <2>2, <2>3
  <1> QED BY <1>4, <1>5, <1>6, <1>b, ZenonT(40)


-----------------------------------------------------------------------------
(* Renames (AppRename). *)
USE DEF Ren!Steps

(* The record of a rename that has not begun. *)
LEMMA RenNoMoveL == Ren!NoMove \in Ren!Moves /\ Ren!NoMove.objs = Ren!Unlisted /\
                    Ren!NoMove.step = "idle" /\ Ren!NoMove.failed = FALSE
  BY DEF Ren!NoMove, Ren!Unlisted, Ren!Moves, Ren!Steps

(* Going on to another step keeps what the rename knows. *)
LEMMA RenStepL == ASSUME NEW m \in Ren!Moves, NEW s \in Ren!Steps
               PROVE LET n == [m EXCEPT !.step = s] IN
                 n \in Ren!Moves /\ n.step = s /\ n.objs = m.objs /\ n.failed = m.failed
  BY DEF Ren!Moves

(* What recording one object's fate does to the record of the rename. *)
LEMMA RenObjL ==
  ASSUME NEW m \in Ren!Moves, NEW o \in Actors, NEW v \in {"none", "todo", "copied", "moved"}
               PROVE /\ LET n == [m EXCEPT !.objs[o] = v] IN
                          n \in Ren!Moves /\ n.step = m.step /\ n.objs = [m.objs EXCEPT ![o] = v] /\
                          n.failed = m.failed
                     /\ LET n == [m EXCEPT !.objs[o] = v, !.failed = TRUE] IN
                          n \in Ren!Moves /\ n.step = m.step /\ n.objs = [m.objs EXCEPT ![o] = v] /\
                          n.failed = TRUE
  BY DEF Ren!Moves

(* A fault is paid for. *)
LEMMA RenSpentL ==
  ASSUME RenMaxFaults \in Nat, yLeft \in Ren!Lefts, Ren!Spent
  PROVE  yLeft' \in Ren!Lefts
  BY DEF Ren!Lefts, Ren!Spent

(* The invariant holds at first. *)
LEMMA RenInitL == ASSUME Ren!Bounds, Ren!Init PROVE Ren!TypeOK /\ Ren!MoveInv /\ Ren!SweepInv
  <1>1. yMove \in Ren!Moves BY RenNoMoveL DEF Ren!Init
  <1>2. yLeft \in Ren!Lefts BY DEF Ren!Init, Ren!Lefts, Ren!Bounds
  <1>6. yData \in [Ren!Slugs -> [Actors -> 0..RenMaxWrites + 1]] BY DEF Ren!Init, Ren!Bounds
  <1>7. yDir \in [Ren!Slugs -> {"none", "empty", "full"}] BY DEF Ren!Init
  <1>8. /\ yRow \in Ren!Slugs /\ yPass \in Ren!Slugs \cup {"none"} /\ yFleet \subseteq Ren!Slugs
        /\ yLate \in BOOLEAN /\ yWrites \in 0..RenMaxWrites
    <2>1. yLate \in BOOLEAN BY DEF Ren!Init
    <2>2. yWrites \in 0..RenMaxWrites BY DEF Ren!Init, Ren!Bounds
    <2> QED BY <2>1, <2>2 DEF Ren!Init, Ren!Slugs
  <1>3. Ren!TypeOK BY <1>1, <1>2, <1>6, <1>7, <1>8 DEF Ren!TypeOK
  <1>4. Ren!MoveInv BY RenNoMoveL DEF Ren!Init, Ren!MoveInv, Ren!Slugs, Ren!Bounds, Ren!Unlisted
  <1>5. Ren!SweepInv BY RenNoMoveL DEF Ren!Init, Ren!SweepInv, Ren!MovedOrRefused
  <1> QED BY <1>3, <1>4, <1>5

(* Every step keeps the types. *)
LEMMA RenTypeStep == ASSUME Ren!Bounds, Ren!TypeOK, [Ren!Next]_renVars PROVE Ren!TypeOK'
  <1>a. yMove \in Ren!Moves /\ yLeft \in Ren!Lefts /\ RenMaxFaults \in Nat /\ RenMaxPasses \in Nat /\
        RenMaxRenames \in Nat
    BY DEF Ren!Moves, Ren!Lefts, Ren!Bounds, Ren!TypeOK
  <1>b. yMove' \in Ren!Moves /\ yLeft' \in Ren!Lefts
    <2>1. CASE Ren!PassReads BY <1>a, <2>1 DEF Ren!PassReads, Ren!Lefts
    <2>2. CASE Ren!PassActs BY <1>a, <2>2 DEF Ren!PassActs
    <2>3. ASSUME NEW s \in Ren!Slugs, NEW o \in Actors, Ren!FleetWrites(s, o)
          PROVE  yMove' \in Ren!Moves /\ yLeft' \in Ren!Lefts
      BY <1>a, <2>3 DEF Ren!FleetWrites
    <2>4. CASE Ren!Begin
      <3>1. yMove' \in Ren!Moves BY <2>4, RenNoMoveL, RenStepL DEF Ren!Begin
      <3>2. yLeft' \in Ren!Lefts BY <2>4, <1>a DEF Ren!Begin, Ren!Lefts
      <3> QED BY <3>1, <3>2
    <2>5. CASE Ren!StopOld BY <1>a, <2>5, RenStepL DEF Ren!StopOld, Ren!Go
    <2>6. CASE Ren!MoveDir
      <3>1. Ren!Go("list") \/ Ren!Fail BY <2>6 DEF Ren!MoveDir
      <3>2. CASE Ren!Go("list") BY <3>2, <1>a, RenStepL, <2>6 DEF Ren!Go, Ren!MoveDir
      <3>3. CASE Ren!Fail BY <3>3, <1>a, RenStepL, RenNoMoveL, <2>6 DEF Ren!Fail, Ren!MoveDir
      <3> QED BY <3>1, <3>2, <3>3
    <2>7. CASE Ren!ListOld
      <3>1. [step |-> IF yMove.step = "list" THEN "move" ELSE "remove", objs |-> Ren!Listed, failed |-> FALSE] \in Ren!Moves
        BY DEF Ren!Moves, Ren!Listed
      <3>2. Ren!Unread \in Ren!Moves BY RenNoMoveL, RenStepL DEF Ren!Unread
      <3> QED BY <2>7, <1>a, <3>1, <3>2, RenSpentL DEF Ren!ListOld
    <2>8. ASSUME NEW o \in Actors, Ren!CopyKey(o)
          PROVE  yMove' \in Ren!Moves /\ yLeft' \in Ren!Lefts
      <3>1. [yMove EXCEPT !.objs[o] = "copied"] \in Ren!Moves BY <1>a DEF Ren!Moves
      <3>2. [yMove EXCEPT !.objs[o] = "moved", !.failed = TRUE] \in Ren!Moves
        BY <1>a DEF Ren!Moves
      <3>3. yMove' \in Ren!Moves BY <2>8, <3>1, <3>2 DEF Ren!CopyKey
      <3>4. yLeft' \in Ren!Lefts BY <2>8, <1>a, RenSpentL DEF Ren!CopyKey
      <3> QED BY <3>3, <3>4
    <2>9. ASSUME NEW o \in Actors, Ren!DeleteKey(o)
          PROVE  yMove' \in Ren!Moves /\ yLeft' \in Ren!Lefts
      <3>1. [yMove EXCEPT !.objs[o] = "moved"] \in Ren!Moves BY <1>a DEF Ren!Moves
      <3>2. [yMove EXCEPT !.objs[o] = "moved", !.failed = TRUE] \in Ren!Moves
        BY <1>a DEF Ren!Moves
      <3>3. yMove' \in Ren!Moves BY <2>9, <3>1, <3>2 DEF Ren!DeleteKey
      <3>4. yLeft' \in Ren!Lefts BY <2>9, <1>a, RenSpentL DEF Ren!DeleteKey
      <3> QED BY <3>3, <3>4
    <2>10. CASE Ren!MoveEnds BY <1>a, <2>10, RenNoMoveL, RenStepL DEF Ren!MoveEnds
    <2>11. CASE Ren!UpdateRow
      <3>1. CASE Ren!Go("restop")
        BY <3>1, <1>a, RenStepL, <2>11, RenSpentL DEF Ren!Go, Ren!UpdateRow
      <3>3. CASE Ren!Fail
        BY <3>3, <1>a, RenStepL, RenNoMoveL, <2>11, RenSpentL DEF Ren!Fail, Ren!UpdateRow
      <3> QED BY <2>11, <3>1, <3>3 DEF Ren!UpdateRow
    <2>12. CASE Ren!StopAgain BY <1>a, <2>12, RenStepL DEF Ren!StopAgain, Ren!Go
    <2>13. CASE Ren!Crash BY <1>a, <2>13, RenNoMoveL, RenSpentL DEF Ren!Crash
    <2>14. CASE UNCHANGED renVars BY <1>a, <2>14 DEF renVars
    <2> QED BY <2>1, <2>2, <2>3, <2>4, <2>5, <2>6, <2>7, <2>8, <2>9, <2>10, <2>11, <2>12, <2>13,
               <2>14 DEF Ren!Next
  <1> USE DEF Ren!Bounds, Ren!TypeOK
  <1>c. /\ yRow' \in Ren!Slugs /\ yPass' \in Ren!Slugs \cup {"none"} /\ yFleet' \subseteq Ren!Slugs
        /\ yData' \in [Ren!Slugs -> [Actors -> 0..RenMaxWrites + 1]]
        /\ yDir' \in [Ren!Slugs -> {"none", "empty", "full"}]
        /\ yLate' \in BOOLEAN /\ yWrites' \in 0..RenMaxWrites
    <2>1. CASE Ren!PassReads BY <2>1 DEF Ren!PassReads
    <2>2. CASE Ren!PassActs BY <2>2 DEF Ren!PassActs, Ren!Slugs
    <2>3. ASSUME NEW s \in Ren!Slugs, NEW o \in Actors, Ren!FleetWrites(s, o) PROVE <1>c!:
      BY <2>3 DEF Ren!FleetWrites
    <2>4. CASE Ren!Begin BY <2>4 DEF Ren!Begin
    <2>5. CASE Ren!StopOld BY <2>5 DEF Ren!StopOld
    <2>6. CASE Ren!MoveDir BY <2>6 DEF Ren!MoveDir, Ren!Slugs
    <2>7. CASE Ren!ListOld BY <2>7 DEF Ren!ListOld
    <2>8. ASSUME NEW o \in Actors, Ren!CopyKey(o) PROVE <1>c!:
      BY <2>8 DEF Ren!CopyKey, Ren!Slugs
    <2>9. ASSUME NEW o \in Actors, Ren!DeleteKey(o) PROVE <1>c!:
      BY <2>9 DEF Ren!DeleteKey, Ren!Slugs
    <2>10. CASE Ren!MoveEnds BY <2>10 DEF Ren!MoveEnds
    <2>11. CASE Ren!UpdateRow BY <2>11 DEF Ren!UpdateRow, Ren!Slugs
    <2>12. CASE Ren!StopAgain BY <2>12 DEF Ren!StopAgain
    <2>13. CASE Ren!Crash BY <2>13 DEF Ren!Crash
    <2>14. CASE UNCHANGED renVars BY <2>14 DEF renVars
    <2> QED BY <2>1, <2>2, <2>3, <2>4, <2>5, <2>6, <2>7, <2>8, <2>9, <2>10, <2>11, <2>12, <2>13,
               <2>14 DEF Ren!Next
  <1> QED BY <1>b, <1>c

(* Every step keeps what the listing and the two sweeps are known to have seen. *)
LEMMA RenInvStep ==
  ASSUME Ren!Bounds, Ren!TypeOK, Ren!MoveInv, Ren!SweepInv, [Ren!Next]_renVars
  PROVE  Ren!MoveInv' /\ Ren!SweepInv'
  <1> USE DEF Ren!MoveInv, Ren!SweepInv, Ren!MovedOrRefused
  <1>a. yMove \in Ren!Moves /\ yData \in [Ren!Slugs -> [Actors -> 0..RenMaxWrites + 1]] /\
        yWrites \in Nat
    BY DEF Ren!TypeOK, Ren!Moves, Ren!Bounds
  <1>1. CASE Ren!PassReads BY <1>1 DEF Ren!PassReads
  <1>2. CASE Ren!PassActs BY <1>2 DEF Ren!PassActs, Ren!Slugs
  <1>3. ASSUME NEW s \in Ren!Slugs, NEW o \in Actors, Ren!FleetWrites(s, o)
        PROVE  Ren!MoveInv' /\ Ren!SweepInv'
    BY <1>3, <1>a DEF Ren!FleetWrites, Ren!Slugs
  <1>4. CASE Ren!Begin BY <1>4, RenNoMoveL, RenStepL DEF Ren!Begin, Ren!Unlisted
  <1>5. CASE Ren!StopOld BY <1>5, <1>a, RenStepL DEF Ren!StopOld, Ren!Go
  <1>6. CASE Ren!MoveDir
    <2>1. Ren!Go("list") \/ Ren!Fail BY <1>6 DEF Ren!MoveDir
    <2>2. CASE Ren!Go("list") BY <2>2, <1>a, RenStepL, <1>6 DEF Ren!Go, Ren!MoveDir
    <2>3. CASE Ren!Fail
      BY <2>3, RenStepL, RenNoMoveL, <1>6 DEF Ren!Fail, Ren!MoveDir, Ren!Unlisted
    <2> QED BY <2>1, <2>2, <2>3
  <1>7. CASE Ren!ListOld
    <2>1. CASE yMove' = Ren!Unread
      BY <2>1, <1>7, RenNoMoveL, RenStepL DEF Ren!ListOld, Ren!Unread, Ren!Unlisted
    <2>2. CASE yMove' = [step |-> IF yMove.step = "list" THEN "move" ELSE "remove", objs |-> Ren!Listed, failed |-> FALSE]
      BY <2>2, <1>7 DEF Ren!ListOld, Ren!Listed
    <2> QED BY <1>7, <2>1, <2>2 DEF Ren!ListOld
  <1>8. ASSUME NEW o \in Actors, Ren!CopyKey(o) PROVE Ren!MoveInv' /\ Ren!SweepInv'
    <2>1. \A p \in Actors : yData'["old"][p] = yData["old"][p]
      BY <1>8, <1>a DEF Ren!CopyKey, Ren!Slugs
    <2>2. CASE /\ yData' = [yData EXCEPT !["new"][o] = yData["old"][o]]
               /\ yMove' = [yMove EXCEPT !.objs[o] = "copied"]
      <3>1. yMove'.step = yMove.step /\ yMove'.failed = yMove.failed /\
            yMove'.objs = [yMove.objs EXCEPT ![o] = "copied"]
        BY <2>2, <1>a, RenObjL
      <3>2. \A p \in Actors : yData'["new"][p] = IF p = o THEN yData["old"][o] ELSE yData["new"][p]
        BY <2>2, <1>a DEF Ren!Slugs
      <3>3. yMove.objs \in [Actors -> {"none", "todo", "copied", "moved"}] BY <1>a DEF Ren!Moves
      <3>4. Ren!MoveInv' BY <3>1, <3>2, <3>3, <2>1, <1>8 DEF Ren!CopyKey
      <3>5. Ren!SweepInv' BY <3>1, <3>3, <2>1, <1>8 DEF Ren!CopyKey, Ren!Moving
      <3> QED BY <3>4, <3>5
    <2>3. CASE /\ yData' = yData
               /\ yMove' = [yMove EXCEPT !.objs[o] = "moved", !.failed = TRUE]
      <3>1. yMove'.step = yMove.step /\ yMove'.failed = TRUE /\
            yMove'.objs = [yMove.objs EXCEPT ![o] = "moved"]
        BY <2>3, <1>a, RenObjL
      <3>3. yMove.objs \in [Actors -> {"none", "todo", "copied", "moved"}] BY <1>a DEF Ren!Moves
      <3>4. Ren!MoveInv' BY <3>1, <3>3, <2>3, <1>8 DEF Ren!CopyKey
      <3>5. Ren!SweepInv' BY <3>1, <3>3, <2>3, <1>8 DEF Ren!CopyKey, Ren!Moving
      <3> QED BY <3>4, <3>5
    <2> QED BY <1>8, <2>2, <2>3 DEF Ren!CopyKey
  <1>9. ASSUME NEW o \in Actors, Ren!DeleteKey(o) PROVE Ren!MoveInv' /\ Ren!SweepInv'
    <2>1. \A p \in Actors : yData'["new"][p] = yData["new"][p]
      BY <1>9, <1>a DEF Ren!DeleteKey, Ren!Slugs
    <2>0. yMove.objs \in [Actors -> {"none", "todo", "copied", "moved"}] BY <1>a DEF Ren!Moves
    <2>2. CASE /\ yData' = [yData EXCEPT !["old"][o] = 0]
               /\ yMove' = [yMove EXCEPT !.objs[o] = "moved"]
      <3>1. yMove'.step = yMove.step /\ yMove'.failed = yMove.failed /\
            yMove'.objs = [yMove.objs EXCEPT ![o] = "moved"]
        BY <2>2, <1>a, RenObjL
      <3>2. \A p \in Actors : yData'["old"][p] = IF p = o THEN 0 ELSE yData["old"][p]
        BY <2>2, <1>a DEF Ren!Slugs
      <3>4. Ren!MoveInv' BY <3>1, <3>2, <2>0, <2>1, <1>9 DEF Ren!DeleteKey
      <3>5. Ren!SweepInv' BY <3>1, <3>2, <2>0, <2>1, <1>9 DEF Ren!DeleteKey, Ren!Moving
      <3> QED BY <3>4, <3>5
    <2>3. CASE /\ yData' = yData
               /\ yMove' = [yMove EXCEPT !.objs[o] = "moved", !.failed = TRUE]
      <3>1. yMove'.step = yMove.step /\ yMove'.failed = TRUE /\
            yMove'.objs = [yMove.objs EXCEPT ![o] = "moved"]
        BY <2>3, <1>a, RenObjL
      <3>4. Ren!MoveInv' BY <3>1, <2>0, <2>3, <1>9 DEF Ren!DeleteKey
      <3>5. Ren!SweepInv' BY <3>1, <2>0, <2>3, <1>9 DEF Ren!DeleteKey, Ren!Moving
      <3> QED BY <3>4, <3>5
    <2> QED BY <1>9, <2>2, <2>3 DEF Ren!DeleteKey
  <1>10. CASE Ren!MoveEnds
    BY <1>10, RenNoMoveL, RenStepL DEF Ren!MoveEnds, Ren!Unlisted, Ren!Moving
  <1>11. CASE Ren!UpdateRow
    <2>2. CASE Ren!Go("restop") BY <2>2, <1>a, RenStepL, <1>11 DEF Ren!Go, Ren!UpdateRow
    <2>3. CASE Ren!Fail
      BY <2>3, RenStepL, RenNoMoveL, <1>11 DEF Ren!Fail, Ren!UpdateRow, Ren!Unlisted
    <2> QED BY <1>11, <2>2, <2>3 DEF Ren!UpdateRow
  <1>12. CASE Ren!StopAgain BY <1>12, <1>a, RenStepL DEF Ren!StopAgain, Ren!Go
  <1>13. CASE Ren!Crash BY <1>13, RenNoMoveL DEF Ren!Crash, Ren!Unlisted
  <1>14. CASE UNCHANGED renVars BY <1>14 DEF renVars
  <1> QED BY <1>1, <1>2, <1>3, <1>4, <1>5, <1>6, <1>7, <1>8, <1>9, <1>10, <1>11, <1>12, <1>13,
             <1>14 DEF Ren!Next

(* A step of the platform is a step of the rename or leaves it alone. *)
LEMMA RenNext == [Next]_allVars => [Ren!Next]_renVars
  BY DEF Next, allVars, EnvStep, TelStep, SbxStep, CgStep, ErrStep, DomStep, InstStep,
         NoteStep, RenStep, EvStep, LogStep

(* The inductive invariant of renames. *)
LEMMA RenInductive == Spec => [](Ren!TypeOK /\ Ren!MoveInv /\ Ren!SweepInv)
  <1> DEFINE Inv == Ren!TypeOK /\ Ren!MoveInv /\ Ren!SweepInv
  <1>1. Init => Inv BY RenBounds, RenInitL DEF Init
  <1>2. Inv /\ [Next]_allVars => Inv' BY RenBounds, RenNext, RenTypeStep, RenInvStep
  <1> QED BY <1>1, <1>2, PTL DEF Spec

(* A rename that ends well left nothing under the old prefix and one that   *)
(* did not is refused, whatever fails, dies or is written meanwhile, as     *)
(* long as no pass brought the old fleet back (rename.rs rename_slugged,    *)
(* move_s3_prefix).                                                         *)
THEOREM RenamesMoveOrRefuse == Spec => []MovedOrRefused
  <1>1. Ren!SweepInv => MovedOrRefused BY DEF Ren!SweepInv, Ren!MovedOrRefused, MovedOrRefused
  <1> QED BY <1>1, RenInductive, PTL

(* No step of a rename, and no fault or crash in the middle of one, loses   *)
(* an object: it is under the old prefix or under the new one               *)
(* (rename.rs move_s3_prefix: copy, then delete).                           *)
THEOREM RenamesLoseNothing == Spec => []Ren!UnionKept
  <1>1. Ren!MoveInv => Ren!UnionKept BY DEF Ren!MoveInv, Ren!UnionKept, Ren!Slugs
  <1> QED BY <1>1, RenInductive, PTL

HIDE DEF Ren!Steps

-----------------------------------------------------------------------------
(* Limits and build users (InstallConfig). *)
(* Division rounds down. *)
LEMMA InstDivBound ==
  ASSUME NEW n \in Nat, NEW d \in Nat \ {0}
  PROVE  n \div d \in Nat /\ d * (n \div d) <= n
  OBVIOUS

(* The fields of a configuration that is being tried. *)
LEMMA InstRaw ==
  ASSUME NEW e \in Inst!Environments
  PROVE /\ e.memory \in Nat /\ e.ceiling \in Nat /\ e.slots \in Nat /\ e.build \in Nat
        /\ e.base \in Nat /\ e.fleet \in Nat
        /\ e.box.total \in Nat /\ e.box.cores \in Nat
  BY DEF Inst!Environments

(* A parsed setting is a number. *)
LEMMA InstNumL == ASSUME NEW r \in Nat, NEW d \in Nat PROVE Inst!Num(r, d) \in Nat
  BY DEF Inst!Num

(* The default of builds at once is a number. *)
LEMMA InstAtOnceL == ASSUME NEW c \in Nat PROVE Inst!AtOnceDefault(c) \in Nat
  BY DEF Inst!AtOnceDefault

(* The reserve kept for the residents is a number. *)
LEMMA InstReserveL == ASSUME NEW t \in Nat PROVE Inst!Reserve(t) \in Nat
  BY InstDivBound DEF Inst!Reserve, Inst!Larger

(* The memory of one build, times the builds at once, fits under the reserve. *)
LEMMA InstBuildMemL ==
  ASSUME NEW t \in Nat, NEW s \in Nat
  PROVE /\ Inst!BuildMemoryDefault(t, s) \in Nat
        /\ t # 0 /\ s # 0 /\ 512 * s <= t - Inst!Reserve(t) => s * Inst!BuildMemoryDefault(t, s) <= t - Inst!Reserve(t)
  <1> DEFINE most == Inst!Larger(0, t - Inst!Reserve(t))
             d == Inst!Larger(s, 1)
             q == most \div d
  <1>1. most \in Nat BY InstReserveL DEF Inst!Larger
  <1>2. d \in Nat \ {0} BY DEF Inst!Larger
  <1>3. q \in Nat /\ d * q <= most BY <1>1, <1>2, InstDivBound
  <1> HIDE DEF q
  <1>4. Inst!BuildMemoryDefault(t, s) = IF t = 0 THEN 1024 ELSE Inst!Clamped(q, 512, 4096)
    BY DEF Inst!BuildMemoryDefault, q
  <1>5. Inst!Clamped(q, 512, 4096) \in Nat /\
        (Inst!Clamped(q, 512, 4096) = 512 \/ Inst!Clamped(q, 512, 4096) <= q)
    BY <1>3 DEF Inst!Clamped, Inst!Larger, Inst!Smaller
  <1>6. ASSUME t # 0, s # 0, 512 * s <= t - Inst!Reserve(t)
        PROVE  s * Inst!BuildMemoryDefault(t, s) <= t - Inst!Reserve(t)
    <2> DEFINE c == Inst!Clamped(q, 512, 4096)
    <2> HIDE DEF c
    <2>0. c \in Nat /\ (c = 512 \/ c <= q) /\ Inst!BuildMemoryDefault(t, s) = c
      BY <1>4, <1>5, <1>6 DEF c
    <2>1. d = s BY <1>6 DEF Inst!Larger
    <2>2. most = t - Inst!Reserve(t) BY <1>6, InstReserveL DEF Inst!Larger
    <2> HIDE DEF most, d
    <2>3. CASE c = 512 BY <2>3, <2>0, <1>6, InstReserveL
    <2>4. CASE c <= q
      <3>1. s * c <= s * q BY <2>4, <2>0, <1>3
      <3> QED BY <3>1, <2>0, <2>1, <2>2, <1>1, <1>3, InstReserveL
    <2> QED BY <2>0, <2>3, <2>4
  <1> QED BY <1>4, <1>5, <1>6

(* What a configuration that boots guarantees. *)
LEMMA InstConfL ==
  ASSUME Inst!Bounds, NEW c \in Inst!Confs
  PROVE /\ c.up = TRUE
        /\ c.budget.memory \in Nat /\ c.budget.ceiling \in Nat
        /\ c.tenancy = "multi" => c.budget.memory >= Inst!Floor /\ c.budget.ceiling >= Inst!Floor
        /\ c.users.base \in Nat /\ c.users.range \in Nat
        /\ c.box.total # 0 =>
             (c.budget.derived /\ 512 * c.budget.slots <= c.box.total - Inst!Reserve(c.box.total)
              => c.budget.slots * c.budget.build <= c.box.total - Inst!Reserve(c.box.total))
  <1>1. PICK e \in Inst!Bootable : c = Inst!FromEnv(e) BY DEF Inst!Confs
  <1>2. e \in Inst!Environments /\ Inst!Valid(e) BY DEF Inst!Bootable, Inst!Bounds
  <1> DEFINE b == Inst!Budgets(e)
             slots == Inst!Num(e.slots, Inst!AtOnceDefault(e.box.cores))
  <1>3. /\ c.up = TRUE /\ c.budget = b /\ c.box = e.box /\ c.users = Inst!Users(e)
        /\ c.tenancy = Inst!Tenancy(e)
    BY <1>1 DEF Inst!FromEnv
  <1>4. slots \in Nat BY <1>2, InstRaw, InstNumL, InstAtOnceL
  <1>5. /\ b.memory = Inst!Num(e.memory, 512)
        /\ b.ceiling = Inst!Num(e.ceiling, Inst!Num(e.memory, 512))
        /\ b.slots = slots /\ b.derived = (e.build = Inst!Unset)
        /\ b.build = Inst!Num(e.build, Inst!BuildMemoryDefault(e.box.total, slots))
    BY DEF Inst!Budgets, b, slots
  <1> HIDE DEF b, slots
  <1>a. /\ e.memory \in Nat /\ e.ceiling \in Nat /\ e.base \in Nat /\ e.box.total \in Nat
    BY <1>2, InstRaw
  <1>b. Inst!Num(e.memory, 512) \in Nat BY <1>a DEF Inst!Num
  <1>c. Inst!Num(e.ceiling, Inst!Num(e.memory, 512)) \in Nat BY <1>a, <1>b, InstNumL, ZenonT(40)
  <1>6. b.memory \in Nat /\ b.ceiling \in Nat BY <1>5, <1>b, <1>c
  <1>7. Inst!MemoryOk(c) /\ Inst!ResidentsOk(b) BY <1>1, <1>2, <1>3 DEF Inst!Valid
  <1>8. c.tenancy = "multi" => c.budget.memory >= Inst!Floor /\ c.budget.ceiling >= Inst!Floor
    BY <1>7, <1>3, <1>6 DEF Inst!MemoryOk, Inst!Floor
  <1>9. c.users.base \in Nat /\ c.users.range \in Nat
    <2>1. Inst!Num(e.base, Inst!DefaultBase) \in Nat BY <1>a DEF Inst!Num, Inst!DefaultBase
    <2>2. Inst!Users(e).base = Inst!Num(e.base, Inst!DefaultBase) /\ Inst!Users(e).range = InstUidRange
      BY DEF Inst!Users
    <2> QED BY <1>3, <2>1, <2>2 DEF Inst!Bounds
  <1>10. ASSUME c.box.total # 0, c.budget.derived,
                512 * c.budget.slots <= c.box.total - Inst!Reserve(c.box.total)
         PROVE c.budget.slots * c.budget.build <= c.box.total - Inst!Reserve(c.box.total)
    <2>1. slots # 0 BY <1>7, <1>5 DEF Inst!ResidentsOk
    <2>2. b.build = Inst!BuildMemoryDefault(e.box.total, slots)
      BY <1>10, <1>3, <1>5 DEF Inst!Num
    <2>3. c.budget.slots = slots /\ c.box.total = e.box.total BY <1>3, <1>5
    <2>4. 512 * slots <= e.box.total - Inst!Reserve(e.box.total) BY <1>10, <2>3
    <2>5. slots * Inst!BuildMemoryDefault(e.box.total, slots) <= e.box.total - Inst!Reserve(e.box.total)
      BY <2>1, <2>3, <2>4, <1>10, <1>4, <1>a, InstBuildMemL
    <2> QED BY <2>2, <2>3, <2>5, <1>3
  <1> QED BY <1>3, <1>6, <1>8, <1>9, <1>10

(* A new row is live. *)
LEMMA InstRowL == /\ Inst!Fresh \in Inst!LiveRows /\ Inst!Fresh.live /\ ~Inst!Gone.live
                  /\ Inst!Fresh.cap = Inst!NoOverride /\ Inst!Fresh.uid = Inst!NoUid
  BY DEF Inst!Fresh, Inst!Gone, Inst!LiveRows, Inst!NoUid

(* The fields of a live row. *)
LEMMA InstLiveL ==
  ASSUME NEW w \in Inst!LiveRows
  PROVE  w.live /\ w.uid \in Nat /\ w.cap \in InstOverrides \cup {Inst!NoOverride}
  BY DEF Inst!LiveRows

(* The cap of a row is a number. *)
LEMMA InstCapL == ASSUME Inst!Bounds, NEW w \in Inst!LiveRows PROVE w.cap \in Nat
  <1>1. w.cap \in InstOverrides \/ w.cap = 0 BY InstLiveL DEF Inst!NoOverride
  <1>2. InstOverrides \subseteq Nat BY DEF Inst!Bounds
  <1>3. CASE w.cap \in InstOverrides BY <1>2, <1>3
  <1>4. CASE w.cap = 0 BY <1>4
  <1> QED BY <1>1, <1>3, <1>4

(* The record of a build that picked its uid. *)
LEMMA InstStepL == ASSUME NEW u \in Nat, NEW st \in {"picked", "running"}
               PROVE [step |-> st, uid |-> u] \in Inst!Steps
  BY DEF Inst!Steps

(* The record of a build that asks. *)
LEMMA InstStepsL == /\ [step |-> "asked"] \in Inst!Steps /\ Inst!NoBuild \notin Inst!Steps
                    /\ \A w \in Inst!Steps : w.step = "asked" \/ w.uid \in Nat
  BY DEF Inst!Steps, Inst!NoBuild

(* An install that is down is not up. *)
LEMMA InstDownL == ~Inst!Down.up
  BY DEF Inst!Down

(* The types hold at first. *)
LEMMA InstTypeInit == ASSUME Inst!Bounds, Inst!Init PROVE Inst!StateOK
  BY DEF Inst!Bounds, Inst!Init, Inst!StateOK

(* Operations are paid for. *)
LEMMA InstLeftL == ASSUME Inst!Bounds, iLeft \in [boots : 0..InstMaxBoots, ops : 0..InstMaxOps],
                      Inst!Spent("boots") \/ Inst!Spent("ops")
               PROVE iLeft' \in [boots : 0..InstMaxBoots, ops : 0..InstMaxOps]
  BY DEF Inst!Spent, Inst!Bounds

(* The uid that is picked is free and lies in the range. *)
LEMMA InstPickL ==
  ASSUME Inst!Bounds, Inst!StateOK, Inst!Up, iConf.users.base # Inst!NoUid, Inst!Free # {}
               PROVE (CHOOSE u \in Inst!Free : \A w \in Inst!Free : u <= w) \in Nat \ {Inst!NoUid}
  <1>1. iConf \in Inst!Confs BY InstDownL DEF Inst!Up, Inst!StateOK
  <1>2. iConf.users.base \in Nat /\ iConf.users.range \in Nat BY <1>1, InstConfL
  <1>3. Inst!Free \in SUBSET (Nat \ {Inst!NoUid}) BY <1>2 DEF Inst!Free, Inst!NoUid
  <1>4. \E u \in Inst!Free : \A w \in Inst!Free : u <= w BY <1>3, NatMin
  <1> QED BY <1>3, <1>4

(* Every step keeps the types. *)
LEMMA InstTypeStep == ASSUME Inst!Bounds, Inst!StateOK, [Inst!Next]_instVars PROVE Inst!StateOK'
  <1> USE DEF Inst!StateOK
  <1>1. ASSUME NEW e \in Inst!Bootable, NEW nft \in BOOLEAN, Inst!Boot(e, nft)
        PROVE  Inst!StateOK'
    BY <1>1, InstLeftL DEF Inst!Boot, Inst!Confs
  <1>2. CASE Inst!Stop BY <1>2 DEF Inst!Stop
  <1>3. ASSUME NEW a \in Actors, Inst!Create(a) PROVE Inst!StateOK'
    BY <1>3, InstRowL, InstLeftL DEF Inst!Create
  <1>4. ASSUME NEW a \in Actors, Inst!Delete(a) PROVE Inst!StateOK'
    BY <1>4, InstLeftL DEF Inst!Delete
  <1>5. ASSUME NEW a \in Actors, Inst!Spawn(a) PROVE Inst!StateOK'
    <2>1. iConf \in Inst!Confs BY <1>5, InstDownL DEF Inst!Spawn, Inst!Up
    <2>2. iConf.budget.memory \in Nat /\ iConf.budget.ceiling \in Nat BY <2>1, InstConfL
    <2>3. iRows[a] \in Inst!LiveRows BY <1>5, InstRowL DEF Inst!Spawn
    <2>4. iRows[a].cap \in Nat BY <2>3, InstCapL
    <2>5. Inst!ClampMemory(iRows[a].cap) \in Nat
      BY <2>2, <2>4 DEF Inst!ClampMemory, Inst!Smaller
    <2> QED BY <1>5, <2>5 DEF Inst!Spawn
  <1>6. ASSUME NEW a \in Actors, Inst!BuildAsked(a) PROVE Inst!StateOK'
    BY <1>6, InstLeftL, InstStepsL DEF Inst!BuildAsked
  <1>7. ASSUME NEW a \in Actors, Inst!BuildUid(a) PROVE Inst!StateOK'
    <2>1. iBuild[a] # Inst!NoBuild BY <1>7 DEF Inst!BuildUid, Inst!NoBuild
    <2>2. iRows[a] \in Inst!LiveRows BY <2>1, InstRowL
    <2>3. iRows[a].uid \in Nat /\ Inst!NoUid \in Nat BY <2>2, InstLiveL DEF Inst!NoUid
    <2>4. \/ Inst!Running(a, Inst!NoUid) \/ Inst!Running(a, iRows[a].uid) \/ iBuild' = [iBuild EXCEPT ![a] = Inst!NoBuild]
          \/ \E u \in Nat : iBuild' = [iBuild EXCEPT ![a] = [step |-> "picked", uid |-> u]]
      BY <1>7, InstPickL DEF Inst!BuildUid
    <2>5. \E w \in Inst!Steps \cup {Inst!NoBuild} : iBuild' = [iBuild EXCEPT ![a] = w]
      BY <2>4, <2>3, InstStepL DEF Inst!Running
    <2> QED BY <1>7, <2>1, <2>5 DEF Inst!BuildUid
  <1>8. ASSUME NEW a \in Actors, Inst!ClaimUid(a) PROVE Inst!StateOK'
    <2>1. iBuild[a] # Inst!NoBuild /\ iBuild[a] \in Inst!Steps /\ iBuild[a].uid \in Nat
      BY <1>8, InstStepsL DEF Inst!ClaimUid, Inst!NoBuild
    <2>2. iRows[a] \in Inst!LiveRows BY <2>1, InstRowL
    <2>3. [iRows[a] EXCEPT !.uid = iBuild[a].uid] \in Inst!LiveRows
      BY <2>1, <2>2 DEF Inst!LiveRows
    <2>4. [step |-> "running", uid |-> iBuild[a].uid] \in Inst!Steps BY <2>1, InstStepL
    <2>5. CASE iBuild[a].uid \in Inst!UsedUids BY <1>8, <2>1, <2>5, InstStepsL DEF Inst!ClaimUid
    <2>6. CASE iBuild[a].uid \notin Inst!UsedUids
      <3>1. iRows' = [iRows EXCEPT ![a] = [iRows[a] EXCEPT !.uid = iBuild[a].uid]]
        BY <1>8, <2>6 DEF Inst!ClaimUid
      <3> QED BY <1>8, <2>6, <2>3, <2>4, <3>1, InstLiveL DEF Inst!ClaimUid, Inst!Running
    <2> QED BY <2>5, <2>6
  <1>9. ASSUME NEW a \in Actors, Inst!BuildEnds(a) PROVE Inst!StateOK'
    BY <1>9 DEF Inst!BuildEnds
  <1>10. ASSUME NEW a \in Actors, NEW v \in InstOverrides \cup {Inst!NoOverride},
                Inst!SetLimit(a, v)
         PROVE  Inst!StateOK'
    <2>2. iRows[a] \in Inst!LiveRows BY <1>10, InstRowL DEF Inst!SetLimit
    <2>3. [iRows[a] EXCEPT !.cap = v] \in Inst!LiveRows BY <2>2 DEF Inst!LiveRows
    <2>4. iRows' = [iRows EXCEPT ![a] = [iRows[a] EXCEPT !.cap = v]] BY <1>10 DEF Inst!SetLimit
    <2> QED BY <1>10, <2>3, <2>4, InstLiveL, InstLeftL DEF Inst!SetLimit
  <1>11. CASE UNCHANGED instVars BY <1>11 DEF instVars
  <1> QED BY <1>1, <1>2, <1>3, <1>4, <1>5, <1>6, <1>7, <1>8, <1>9, <1>10, <1>11 DEF Inst!Next

(* The invariant holds at first. *)
LEMMA InstInvInit == ASSUME Inst!Init PROVE Inst!LimitInv /\ Inst!UidInv
  BY DEF Inst!Init, Inst!LimitInv, Inst!UidInv, Inst!FleetsCapped, Inst!Up, Inst!Down,
         Inst!Gone, Inst!NoBuild

(* Every step keeps the running fleets under the ceiling in force. *)
LEMMA InstLimitStep ==
  ASSUME Inst!Bounds, Inst!StateOK, Inst!LimitInv, [Inst!Next]_instVars
  PROVE  Inst!LimitInv'
  <1> USE DEF Inst!LimitInv, Inst!FleetsCapped, Inst!Up
  <1>1. ASSUME NEW e \in Inst!Bootable, NEW nft \in BOOLEAN, Inst!Boot(e, nft)
        PROVE  Inst!LimitInv'
    BY <1>1 DEF Inst!Boot
  <1>2. CASE Inst!Stop BY <1>2, InstDownL DEF Inst!Stop
  <1>3. ASSUME NEW a \in Actors, Inst!Create(a) PROVE Inst!LimitInv'
    BY <1>3, InstRowL DEF Inst!Create, Inst!StateOK
  <1>4. ASSUME NEW a \in Actors, Inst!Delete(a) PROVE Inst!LimitInv'
    BY <1>4, InstRowL DEF Inst!Delete, Inst!StateOK
  <1>5. ASSUME NEW a \in Actors, Inst!Spawn(a) PROVE Inst!LimitInv'
    <2>1. iConf \in Inst!Confs BY <1>5, InstDownL DEF Inst!Spawn, Inst!StateOK
    <2>2. /\ iConf.budget.memory \in Nat /\ iConf.budget.ceiling \in Nat
          /\ iConf.tenancy = "multi" => iConf.budget.memory >= Inst!Floor /\ iConf.budget.ceiling >= Inst!Floor
      BY <2>1, InstConfL
    <2>3. iRows[a] \in Inst!LiveRows BY <1>5, InstRowL DEF Inst!Spawn, Inst!StateOK
    <2>4. iRows[a].cap \in Nat BY <2>3, InstCapL
    <2>5. iConf.tenancy = "multi" => Inst!ClampMemory(iRows[a].cap) >= Inst!Floor /\ Inst!ClampMemory(iRows[a].cap) <= iConf.budget.ceiling
      BY <1>5, <2>2, <2>4 DEF Inst!ClampMemory, Inst!Smaller, Inst!Floor, Inst!Spawn
    <2> QED BY <1>5, <2>5 DEF Inst!Spawn, Inst!StateOK
  <1>6. ASSUME NEW a \in Actors, Inst!BuildAsked(a)
        PROVE  Inst!LimitInv' BY <1>6 DEF Inst!BuildAsked
  <1>7. ASSUME NEW a \in Actors, Inst!BuildUid(a) PROVE Inst!LimitInv' BY <1>7 DEF Inst!BuildUid
  <1>8. ASSUME NEW a \in Actors, Inst!ClaimUid(a) PROVE Inst!LimitInv'
    <2>1. \A b \in Actors : iRows'[b].live = iRows[b].live /\ iRows'[b].cap = iRows[b].cap
      <3>1. iBuild[a] # Inst!NoBuild BY <1>8 DEF Inst!ClaimUid, Inst!NoBuild
      <3>2. iRows[a] \in Inst!LiveRows BY <3>1, InstRowL DEF Inst!StateOK
      <3>3. PICK u : iRows' = [iRows EXCEPT ![a] = [iRows[a] EXCEPT !.uid = u]] \/ iRows' = iRows
        BY <1>8 DEF Inst!ClaimUid
      <3>4. [iRows[a] EXCEPT !.uid = u].live = iRows[a].live /\
            [iRows[a] EXCEPT !.uid = u].cap = iRows[a].cap
        BY <3>2 DEF Inst!LiveRows
      <3> QED BY <3>3, <3>4 DEF Inst!StateOK
    <2> QED BY <1>8, <2>1 DEF Inst!ClaimUid
  <1>9. ASSUME NEW a \in Actors, Inst!BuildEnds(a)
        PROVE  Inst!LimitInv' BY <1>9 DEF Inst!BuildEnds
  <1>10. ASSUME NEW a \in Actors, NEW v \in InstOverrides \cup {Inst!NoOverride},
                Inst!SetLimit(a, v)
         PROVE  Inst!LimitInv'
    <2>1. v = Inst!NoOverride \/ v >= Inst!Floor BY <1>10 DEF Inst!SetLimit, Inst!OverrideOk
    <2>2. \A b \in Actors : iRows'[b].live = iRows[b].live /\ iRows'[b].cap = IF b = a THEN v ELSE iRows[b].cap
      BY <1>10, InstRowL, InstLiveL DEF Inst!SetLimit, Inst!StateOK
    <2> QED BY <1>10, <2>1, <2>2 DEF Inst!SetLimit
  <1>11. CASE UNCHANGED instVars BY <1>11 DEF instVars
  <1> QED BY <1>1, <1>2, <1>3, <1>4, <1>5, <1>6, <1>7, <1>8, <1>9, <1>10, <1>11 DEF Inst!Next

(* Every step keeps the builds' uids apart. *)
LEMMA InstUidStep ==
  ASSUME Inst!Bounds, Inst!StateOK, Inst!UidInv, [Inst!Next]_instVars
  PROVE  Inst!UidInv'
  <1> USE DEF Inst!UidInv, Inst!Up
  <1>1. ASSUME NEW e \in Inst!Bootable, NEW nft \in BOOLEAN, Inst!Boot(e, nft)
        PROVE  Inst!UidInv'
    BY <1>1 DEF Inst!Boot, Inst!NoBuild
  <1>2. CASE Inst!Stop BY <1>2, InstDownL DEF Inst!Stop, Inst!NoBuild, Inst!Down
  <1>3. ASSUME NEW a \in Actors, Inst!Create(a) PROVE Inst!UidInv'
    BY <1>3, InstRowL DEF Inst!Create, Inst!StateOK, Inst!NoBuild
  <1>4. ASSUME NEW a \in Actors, Inst!Delete(a) PROVE Inst!UidInv'
    BY <1>4, InstRowL DEF Inst!Delete, Inst!StateOK, Inst!NoBuild
  <1>5. ASSUME NEW a \in Actors, Inst!Spawn(a) PROVE Inst!UidInv' BY <1>5 DEF Inst!Spawn
  <1>6. ASSUME NEW a \in Actors, Inst!BuildAsked(a)
        PROVE  Inst!UidInv' BY <1>6 DEF Inst!BuildAsked, Inst!StateOK, Inst!NoBuild
  <1>7. ASSUME NEW a \in Actors, Inst!BuildUid(a) PROVE Inst!UidInv'
    <2>0. iBuild[a] # Inst!NoBuild BY <1>7 DEF Inst!BuildUid, Inst!NoBuild
    <2>4. \/ Inst!Running(a, Inst!NoUid) /\ iConf.users.base = Inst!NoUid
          \/ Inst!Running(a, iRows[a].uid) /\ iRows[a].uid # Inst!NoUid
          \/ iBuild' = [iBuild EXCEPT ![a] = Inst!NoBuild]
          \/ \E u \in Nat \ {Inst!NoUid} : iBuild' = [iBuild EXCEPT ![a] = [step |-> "picked", uid |-> u]]
      BY <1>7, InstPickL DEF Inst!BuildUid
    <2>1. CASE Inst!Running(a, Inst!NoUid) /\ iConf.users.base = Inst!NoUid
      BY <1>7, <2>0, <2>1 DEF Inst!BuildUid, Inst!Running, Inst!StateOK
    <2>2. CASE Inst!Running(a, iRows[a].uid) /\ iRows[a].uid # Inst!NoUid
      BY <1>7, <2>0, <2>2 DEF Inst!BuildUid, Inst!Running, Inst!StateOK
    <2>3. CASE iBuild' = [iBuild EXCEPT ![a] = Inst!NoBuild]
      BY <1>7, <2>0, <2>3 DEF Inst!BuildUid, Inst!StateOK, Inst!NoBuild
    <2>5. ASSUME NEW u \in Nat \ {Inst!NoUid},
                 iBuild' = [iBuild EXCEPT ![a] = [step |-> "picked", uid |-> u]]
          PROVE  Inst!UidInv'
      BY <1>7, <2>0, <2>5 DEF Inst!BuildUid, Inst!StateOK
    <2> QED BY <2>1, <2>2, <2>3, <2>4, <2>5
  <1>8. ASSUME NEW a \in Actors, Inst!ClaimUid(a) PROVE Inst!UidInv'
    <2>0. iBuild[a] # Inst!NoBuild /\ iBuild[a].uid # Inst!NoUid
      BY <1>8 DEF Inst!ClaimUid, Inst!NoBuild
    <2>1. CASE iBuild[a].uid \in Inst!UsedUids
      BY <1>8, <2>0, <2>1 DEF Inst!ClaimUid, Inst!StateOK
    <2>2. CASE iBuild[a].uid \notin Inst!UsedUids
      <3>1. \A b \in Actors : iRows'[b].live = iRows[b].live /\ iRows'[b].uid = IF b = a THEN iBuild[a].uid ELSE iRows[b].uid
        <4>1. iRows[a] \in Inst!LiveRows BY <2>0, InstRowL DEF Inst!StateOK
        <4>2. iRows' = [iRows EXCEPT ![a] = [iRows[a] EXCEPT !.uid = iBuild[a].uid]]
          BY <1>8, <2>2 DEF Inst!ClaimUid
        <4>3. [iRows[a] EXCEPT !.uid = iBuild[a].uid].live = iRows[a].live
              /\ [iRows[a] EXCEPT !.uid = iBuild[a].uid].uid = iBuild[a].uid
          BY <4>1 DEF Inst!LiveRows
        <4> QED BY <4>2, <4>3 DEF Inst!StateOK
      <3>2. \A b \in Actors : iRows[b].live => iRows[b].uid # iBuild[a].uid
        BY <2>0, <2>2 DEF Inst!UsedUids
      <3>3. \A b \in Actors : iBuild'[b] = IF b = a THEN [step |-> "running", uid |-> iBuild[a].uid] ELSE iBuild[b]
        BY <1>8, <2>2 DEF Inst!ClaimUid, Inst!Running, Inst!StateOK
      <3> QED BY <1>8, <2>0, <3>1, <3>2, <3>3 DEF Inst!ClaimUid, Inst!StateOK
    <2> QED BY <2>1, <2>2
  <1>9. ASSUME NEW a \in Actors, Inst!BuildEnds(a)
        PROVE  Inst!UidInv' BY <1>9 DEF Inst!BuildEnds, Inst!StateOK, Inst!NoBuild
  <1>10. ASSUME NEW a \in Actors, NEW v \in InstOverrides \cup {Inst!NoOverride},
                Inst!SetLimit(a, v)
         PROVE  Inst!UidInv'
    <2>2. \A b \in Actors : iRows'[b].live = iRows[b].live /\ iRows'[b].uid = iRows[b].uid
      BY <1>10, InstRowL, InstLiveL DEF Inst!SetLimit, Inst!StateOK
    <2> QED BY <1>10, <2>2 DEF Inst!SetLimit
  <1>11. CASE UNCHANGED instVars BY <1>11 DEF instVars
  <1> QED BY <1>1, <1>2, <1>3, <1>4, <1>5, <1>6, <1>7, <1>8, <1>9, <1>10, <1>11 DEF Inst!Next

(* A configuration in force makes its builds fit. *)
LEMMA InstFits == ASSUME Inst!Bounds, Inst!StateOK PROVE Inst!BuildsFit
  BY InstConfL, InstDownL DEF Inst!StateOK, Inst!BuildsFit, Inst!Up

(* The invariant keeps builds apart. *)
LEMMA InstApart == ASSUME Inst!Bounds, Inst!StateOK, Inst!UidInv PROVE Inst!BuildsApart
  BY DEF Inst!StateOK, Inst!UidInv, Inst!BuildsApart, Inst!Builds, Inst!NoBuild

(* The inductive types imply the checked ones. *)
LEMMA InstTypes == ASSUME Inst!Bounds, Inst!StateOK PROVE Inst!TypeOK
  <1>1. iConf.up => iConf.budget.memory \in Nat /\ iConf.budget.ceiling \in Nat
    BY InstConfL, InstDownL DEF Inst!StateOK
  <1>2. \A a \in Actors : iRows[a].live => iRows[a].cap \in InstOverrides \cup {Inst!NoOverride}
    BY InstRowL, InstLiveL DEF Inst!StateOK
  <1>3. \A a \in Actors : iBuild[a].step \in {"none", "asked", "picked", "running"}
    BY DEF Inst!StateOK, Inst!Steps, Inst!NoBuild
  <1>4. \A k \in DOMAIN iLeft : iLeft[k] >= 0 BY DEF Inst!StateOK, Inst!Bounds
  <1> QED BY <1>1, <1>2, <1>3, <1>4 DEF Inst!StateOK, Inst!TypeOK

(* A step of the platform is a step of the install or leaves it alone. *)
LEMMA InstNext == [Next]_allVars => [Inst!Next]_instVars
  BY DEF Next, allVars, EnvStep, TelStep, SbxStep, CgStep, ErrStep, DomStep, InstStep,
         NoteStep, RenStep, EvStep, LogStep

(* The inductive invariant of the install's limits and build users. *)
LEMMA InstInductive == Spec => [](Inst!StateOK /\ Inst!LimitInv /\ Inst!UidInv)
  <1> DEFINE Inv == Inst!StateOK /\ Inst!LimitInv /\ Inst!UidInv
  <1>1. Init => Inv BY InstBounds, InstTypeInit, InstInvInit DEF Init
  <1>2. Inv /\ [Next]_allVars => Inv'
    BY InstBounds, InstNext, InstTypeStep, InstLimitStep, InstUidStep
  <1> QED BY <1>1, <1>2, PTL DEF Spec

(* Builds of two apps never run as one user, and in multi none runs as the  *)
(* runner, though two deploys may pick the same free uid before either      *)
(* stores it (config.rs, deploy.rs ensure_build_uid).                       *)
THEOREM BuildsStayApart == Spec => []Inst!BuildsApart
  <1>1. Inst!StateOK /\ Inst!LimitInv /\ Inst!UidInv => Inst!BuildsApart
    BY InstBounds, InstApart
  <1> QED BY <1>1, InstInductive, PTL


-----------------------------------------------------------------------------
(* Containment (Containment). *)
(* The records at rest. *)
LEMMA CgNoneL == /\ Cg!NoRun \in Cg!Runs /\ Cg!NoRun.at = "none" /\ Cg!NoLeaf \in Cg!Leaves
                 /\ Cg!NoOom.baseline = Cg!Absent
                 /\ DOMAIN Cg!NoOom = {"on", "baseline", "spawned", "chain", "event", "hold"}
  BY DEF Cg!NoRun, Cg!Runs, Cg!NoLeaf, Cg!Leaves, Cg!NoOom

(* The types hold at first. *)
LEMMA CgTypeInit == ASSUME Cg!Bounds, Cg!Init PROVE Cg!StateOK
  <1> USE DEF Cg!Init, Cg!Bounds
  <1>1. zSetup \in Cg!Setups BY DEF Cg!Setups
  <1>2. zLeaf \in [CgFleets -> Cg!Leaves] /\ zRun \in [CgFleets -> Cg!Runs] BY CgNoneL
  <1>3. zMap \subseteq CgFleets /\ zStep \in [CgFleets -> Cg!Steps] BY DEF Cg!Steps
  <1>4. DOMAIN zOom = CgFleets /\ \A f \in CgFleets : DOMAIN zOom[f] = DOMAIN Cg!NoOom OBVIOUS
  <1>5. DOMAIN zNote = CgFleets /\ \A f \in CgFleets : DOMAIN zNote[f] = {"until", "true"} OBVIOUS
  <1>6. /\ DOMAIN zBuild = {"pc", "capped", "kills", "before", "killed", "verdict"}
        /\ zBuild.verdict \in {"none", "refused", "budget", "exit"}
    OBVIOUS
  <1> QED BY <1>1, <1>2, <1>3, <1>4, <1>5, <1>6 DEF Cg!StateOK

(* The invariant holds at first. *)
LEMMA CgInvInit == ASSUME Cg!Init PROVE Cg!LeafInv /\ Cg!KillInv
  BY CgNoneL DEF Cg!Init, Cg!LeafInv, Cg!KillInv, Cg!ToldIsContained, Cg!OomNotesTrue

(* What setting the hierarchy up leaves behind. *)
LEMMA CgSetupStep ==
  ASSUME Cg!Bounds, Cg!StateOK, Cg!Probe \/ Cg!Squat \/ Cg!Drain \/ Cg!Drained \/ Cg!Enable
  PROVE /\ zSetup' \in Cg!Setups
        /\ UNCHANGED <<Cg!FleetVars, zNow>>
  <1>1. /\ UNCHANGED <<Cg!FleetVars, zNow>>
        /\ \/ zSetup' = [zSetup EXCEPT !.pc = "done"] \/ zSetup' = [zSetup EXCEPT !.pc = "drain"]
           \/ zSetup' = [zSetup EXCEPT !.pc = "enable"] \/ zSetup' = [zSetup EXCEPT !.squat = TRUE]
           \/ zSetup' = [zSetup EXCEPT !.pc = "look", !.squat = FALSE]
           \/ /\ zSetup.tries + 1 # CgAttempts
              /\ zSetup' = [zSetup EXCEPT !.pc = "drain", !.tries = @ + 1]
    BY DEF Cg!Probe, Cg!Squat, Cg!Drain, Cg!Drained, Cg!Enable, Cg!ReadOnly, Cg!Degrade,
           Cg!Retry
  <1>2. zSetup \in Cg!Setups BY DEF Cg!StateOK
  <1>3. [zSetup EXCEPT !.pc = "done"] \in Cg!Setups /\ [zSetup EXCEPT !.pc = "drain"] \in Cg!Setups
    BY <1>2 DEF Cg!Setups
  <1>4. [zSetup EXCEPT !.pc = "enable"] \in Cg!Setups /\ [zSetup EXCEPT !.squat = TRUE] \in Cg!Setups
    BY <1>2 DEF Cg!Setups
  <1>5. [zSetup EXCEPT !.pc = "look", !.squat = FALSE] \in Cg!Setups
    BY <1>2 DEF Cg!Setups
  <1>6. zSetup.tries + 1 # CgAttempts => [zSetup EXCEPT !.pc = "drain", !.tries = @ + 1] \in Cg!Setups
    <2>1. zSetup.tries \in 0..CgAttempts - 1 BY <1>2 DEF Cg!Setups
    <2>2. zSetup.tries + 1 # CgAttempts => zSetup.tries + 1 \in 0..CgAttempts - 1
      BY <2>1 DEF Cg!Bounds
    <2>3. ASSUME NEW n \in 0..CgAttempts - 1
          PROVE  [zSetup EXCEPT !.pc = "drain", !.tries = n] \in Cg!Setups
      BY <1>2 DEF Cg!Setups
    <2> QED BY <2>2, <2>3
  <1> QED BY <1>1, <1>3, <1>4, <1>5, <1>6

(* Noting a kill keeps the shape of a fleet's memory record. *)
LEMMA CgNotedL == ASSUME NEW o, DOMAIN o = DOMAIN Cg!NoOom
                PROVE Cg!KillNoted(o).baseline = Cg!Absent /\ DOMAIN Cg!KillNoted(o) = DOMAIN Cg!NoOom
  BY CgNoneL DEF Cg!KillNoted

(* What reaping a process keeps. *)
LEMMA CgReapL ==
  ASSUME Cg!StateOK, NEW f \in CgFleets, Cg!Reap(f)
  PROVE /\ zMap' = zMap \ {f} /\ f \in zMap /\ zStep[f] = "idle"
        /\ zStep' \in {zStep, [zStep EXCEPT ![f] = "leaf"]}
        /\ DOMAIN zOom' = CgFleets /\ \A g \in CgFleets : DOMAIN zOom'[g] = DOMAIN Cg!NoOom
        /\ zOom'[f].baseline = Cg!Absent /\ \A g \in CgFleets \ {f} : zOom'[g] = zOom[g]
        /\ DOMAIN zNote' = CgFleets /\ \A g \in CgFleets : DOMAIN zNote'[g] = {"until", "true"}
        /\ \A g \in CgFleets : zNote'[g] = zNote[g] \/ (g = f /\ Cg!WasOom(f) /\ (zRun[f].killed => zNote'[g].true))
        /\ UNCHANGED <<zSetup, zLeaf, zRun, zBuild, zNow>>
  <1> USE DEF Cg!StateOK
  <1>1. CASE Cg!WasOom(f)
    <2>0. DOMAIN [zOom[f] EXCEPT !.hold = Cg!Absent] = DOMAIN Cg!NoOom OBVIOUS
    <2>1. PICK o : zOom' = [zOom EXCEPT ![f] = o] /\ o.baseline = Cg!Absent /\ DOMAIN o = DOMAIN Cg!NoOom
      BY <1>1, <2>0, CgNotedL DEF Cg!Reap
    <2>2. PICK u : zNote' = [zNote EXCEPT ![f] = [until |-> u, true |-> zRun[f].killed]]
      BY <1>1 DEF Cg!Reap
    <2>3. /\ zMap' = zMap \ {f} /\ f \in zMap /\ zStep[f] = "idle"
          /\ zStep' = [zStep EXCEPT ![f] = "leaf"]
          /\ UNCHANGED <<zSetup, zLeaf, zRun, zBuild, zNow>>
      BY <1>1 DEF Cg!Reap, Cg!Ready, Cg!SetupVars
    <2>4. /\ DOMAIN zOom' = CgFleets /\ \A g \in CgFleets : DOMAIN zOom'[g] = DOMAIN Cg!NoOom
          /\ zOom'[f].baseline = Cg!Absent /\ \A g \in CgFleets \ {f} : zOom'[g] = zOom[g]
      BY <2>1
    <2>5. DOMAIN zNote' = CgFleets /\ \A g \in CgFleets \ {f} : zNote'[g] = zNote[g] BY <2>2
    <2>6. zNote'[f] = [until |-> u, true |-> zRun[f].killed] BY <2>2
    <2>7. DOMAIN zNote'[f] = {"until", "true"} /\ (zRun[f].killed => zNote'[f].true) BY <2>6
    <2> QED BY <1>1, <2>3, <2>4, <2>5, <2>7
  <1>2. CASE ~Cg!WasOom(f)
    <2>1. zOom' = [zOom EXCEPT ![f].baseline = Cg!Absent, ![f].hold = Cg!Absent]
      BY <1>2 DEF Cg!Reap
    <2>2. \A g \in CgFleets : DOMAIN zOom'[g] = DOMAIN Cg!NoOom BY <2>1, CgNoneL
    <2>3. zOom'[f].baseline = Cg!Absent BY <2>1, CgNoneL
    <2>4. \A g \in CgFleets \ {f} : zOom'[g] = zOom[g] BY <2>1
    <2>5. /\ zMap' = zMap \ {f} /\ f \in zMap /\ zStep[f] = "idle" /\ zStep' = zStep /\ zNote' = zNote
          /\ UNCHANGED <<zSetup, zLeaf, zRun, zBuild, zNow>>
      BY <1>2 DEF Cg!Reap, Cg!Ready, Cg!SetupVars
    <2> QED BY <1>2, <2>1, <2>2, <2>3, <2>4, <2>5
  <1> QED BY <1>1, <1>2

(* What creating and sizing a leaf does. *)
LEMMA CgLeafL ==
  ASSUME Cg!StateOK, NEW f \in CgFleets, Cg!Leaf(f)
  PROVE /\ zStep[f] = "leaf" /\ zLeaf' \in [CgFleets -> Cg!Leaves]
        /\ \E st \in {"spawnIn", "spawnOut"} :
              zStep' = [zStep EXCEPT ![f] = st] /\ (st = "spawnIn" => zLeaf'[f].capped)
        /\ \A g \in CgFleets : zLeaf'[g].kills = zLeaf[g].kills /\ (g # f => zLeaf'[g] = zLeaf[g])
        /\ UNCHANGED <<zSetup, zRun, zMap, zOom, zNote, zBuild, zNow>>
  <1>1. \/ UNCHANGED zLeaf /\ zStep' = [zStep EXCEPT ![f] = "spawnOut"]
        \/ \E w \in Cg!Leaves : /\ zLeaf' = [zLeaf EXCEPT ![f] = w] /\ w.kills = zLeaf[f].kills
                              /\ \/ zStep' = [zStep EXCEPT ![f] = "spawnOut"]
                                 \/ zStep' = [zStep EXCEPT ![f] = "spawnIn"] /\ w.capped
    <2>1. zLeaf[f] \in Cg!Leaves /\ zLeaf \in [CgFleets -> Cg!Leaves] BY DEF Cg!StateOK
    <2>2. ASSUME NEW c \in BOOLEAN
          PROVE  LET w == [zLeaf[f] EXCEPT !.there = TRUE, !.capped = c] IN
            /\ w \in Cg!Leaves /\ w.kills = zLeaf[f].kills /\ w.capped = c
            /\ [zLeaf EXCEPT ![f].there = TRUE, ![f].capped = c] = [zLeaf EXCEPT ![f] = w]
      BY <2>1 DEF Cg!Leaves
    <2>3. CASE UNCHANGED zLeaf /\ zStep' = [zStep EXCEPT ![f] = "spawnOut"] BY <2>3
    <2>4. CASE /\ zLeaf' = [zLeaf EXCEPT ![f].there = TRUE, ![f].capped = TRUE]
               /\ zStep' = [zStep EXCEPT ![f] = "spawnIn"]
      BY <2>4, <2>2
    <2>5. CASE /\ zLeaf' = [zLeaf EXCEPT ![f].there = TRUE, ![f].capped = FALSE]
               /\ zStep' = [zStep EXCEPT ![f] = "spawnOut"]
      BY <2>5, <2>2
    <2> QED BY <2>3, <2>4, <2>5 DEF Cg!Leaf
  <1> QED BY <1>1 DEF Cg!Leaf, Cg!StateOK

(* What a spawn does. *)
LEMMA CgSpawnL ==
  ASSUME Cg!StateOK, NEW f \in CgFleets, Cg!Spawn(f)
  PROVE /\ zStep[f] \in {"spawnIn", "spawnOut"}
        /\ UNCHANGED <<zSetup, zLeaf, zOom, zNote, zBuild, zNow>>
        /\ \/ zStep' = [zStep EXCEPT ![f] = "idle"] /\ UNCHANGED <<zRun, zMap>>
           \/ \E w \in Cg!Runs :
                /\ zRun' = [zRun EXCEPT ![f] = w] /\ w.told = (zStep[f] = "spawnIn")
                /\ IF zStep[f] = "spawnIn" THEN zStep' = [zStep EXCEPT ![f] = "move"] /\ zMap' = zMap
                   ELSE zStep' = [zStep EXCEPT ![f] = "idle"] /\ zMap' = zMap \cup {f}
  <1>1. [at |-> "shared", told |-> zStep[f] = "spawnIn", killed |-> FALSE, since |-> zNow] \in Cg!Runs
    BY DEF Cg!StateOK, Cg!Runs
  <1> QED BY <1>1 DEF Cg!Spawn, Cg!SetupVars

(* What moving the process into its leaf does. *)
LEMMA CgMoveL ==
  ASSUME Cg!StateOK, NEW f \in CgFleets, Cg!Move(f)
  PROVE /\ zStep[f] = "move" /\ zStep' = [zStep EXCEPT ![f] = "idle"]
        /\ UNCHANGED <<zSetup, zLeaf, zNote, zBuild, zNow>>
        /\ \/ UNCHANGED <<zOom, zMap>> /\ zRun' \in {zRun, [zRun EXCEPT ![f] = Cg!NoRun]}
           \/ \E w \in Cg!Runs : \E o :
                /\ zMap' = zMap \cup {f} /\ zRun' = [zRun EXCEPT ![f] = w] /\ w.at = "leaf"
                /\ zOom' = [zOom EXCEPT ![f] = o] /\ o.baseline = zLeaf[f].kills
                /\ DOMAIN o = DOMAIN Cg!NoOom
  <1>1. CASE Cg!Enter(f)
    <2>1. zRun[f] \in Cg!Runs BY DEF Cg!StateOK
    <2>2. zRun' = [zRun EXCEPT ![f] = [zRun[f] EXCEPT !.at = "leaf"]] BY <1>1 DEF Cg!Enter
    <2>3. [zRun[f] EXCEPT !.at = "leaf"] \in Cg!Runs /\ [zRun[f] EXCEPT !.at = "leaf"].at = "leaf"
      BY <2>1 DEF Cg!Runs
    <2>4. zOom' = [zOom EXCEPT ![f] = Cg!Baselined(zOom[f], zLeaf[f].kills)]
      BY <1>1 DEF Cg!Enter
    <2>5. LET o == Cg!Baselined(zOom[f], zLeaf[f].kills) IN o.baseline = zLeaf[f].kills /\ DOMAIN o = DOMAIN Cg!NoOom
      BY CgNoneL DEF Cg!Baselined, Cg!StateOK
    <2> QED BY <1>1, <2>2, <2>3, <2>4, <2>5 DEF Cg!Move, Cg!Enter
  <1>2. CASE ~Cg!Enter(f) BY <1>2 DEF Cg!Move, Cg!Refused
  <1> QED BY <1>1, <1>2

(* What a kill of the kernel does. *)
LEMMA CgKillL ==
  ASSUME Cg!StateOK, NEW f \in CgFleets, Cg!OomKill(f)
  PROVE /\ UNCHANGED <<zSetup, zMap, zStep, zOom, zNote, zBuild, zNow>>
        /\ \E w \in Cg!Leaves : zLeaf' = [zLeaf EXCEPT ![f] = w] /\ w.capped = zLeaf[f].capped
        /\ \E w \in Cg!Runs : zRun' = [zRun EXCEPT ![f] = w] /\ w.told = zRun[f].told /\ w.killed
                            /\ w.at \in {"none", "leaf"}
        /\ zLeaf[f].capped
  <1>1. zRun[f] \in Cg!Runs /\ zLeaf[f] \in Cg!Leaves BY DEF Cg!StateOK
  <1>2. zLeaf' = [zLeaf EXCEPT ![f] = [zLeaf[f] EXCEPT !.kills = @ + 1]] BY DEF Cg!OomKill
  <1>3. LET w == [zLeaf[f] EXCEPT !.kills = @ + 1] IN w \in Cg!Leaves /\ w.capped = zLeaf[f].capped
    BY <1>1 DEF Cg!Leaves
  <1>4. PICK at \in {"none", "leaf"} : zRun' = [zRun EXCEPT ![f].at = at, ![f].killed = TRUE]
    BY DEF Cg!OomKill
  <1>5. zRun' = [zRun EXCEPT ![f] = [zRun[f] EXCEPT !.at = at, !.killed = TRUE]]
    BY <1>4, <1>1 DEF Cg!StateOK
  <1>6. LET w == [zRun[f] EXCEPT !.at = at, !.killed = TRUE] IN
        w \in Cg!Runs /\ w.told = zRun[f].told /\ w.killed /\ w.at = at
    BY <1>1 DEF Cg!Runs
  <1> QED BY <1>2, <1>3, <1>5, <1>6 DEF Cg!OomKill, Cg!SetupVars

(* Every step keeps the types. *)
LEMMA CgTypeStep == ASSUME Cg!Bounds, Cg!StateOK, [Cg!Next]_cgVars PROVE Cg!StateOK'
  <1> USE DEF Cg!StateOK
  <1>1. CASE Cg!Probe \/ Cg!Squat \/ Cg!Drain \/ Cg!Drained \/ Cg!Enable
    BY <1>1, CgSetupStep DEF Cg!FleetVars
  <1>2. ASSUME NEW f \in CgFleets, Cg!Reap(f) PROVE Cg!StateOK'
    BY <1>2, CgReapL DEF Cg!Steps
  <1>3. ASSUME NEW f \in CgFleets, Cg!Start(f) PROVE Cg!StateOK'
    BY <1>3 DEF Cg!Start, Cg!SetupVars, Cg!Steps
  <1>4. ASSUME NEW f \in CgFleets, Cg!Leaf(f) PROVE Cg!StateOK'
    BY <1>4, CgLeafL DEF Cg!Steps
  <1>5. ASSUME NEW f \in CgFleets, Cg!Spawn(f) PROVE Cg!StateOK'
    BY <1>5, CgSpawnL DEF Cg!Steps
  <1>6. ASSUME NEW f \in CgFleets, Cg!Move(f) PROVE Cg!StateOK'
    BY <1>6, CgMoveL, CgNoneL DEF Cg!Steps
  <1>7. ASSUME NEW f \in CgFleets, Cg!Stop(f) PROVE Cg!StateOK'
    BY <1>7, CgNoneL DEF Cg!Stop, Cg!SetupVars
  <1>8. ASSUME NEW f \in CgFleets, Cg!Exits(f) PROVE Cg!StateOK'
    BY <1>8 DEF Cg!Exits, Cg!SetupVars, Cg!Runs
  <1>9. ASSUME NEW f \in CgFleets, Cg!OomKill(f) PROVE Cg!StateOK'
    BY <1>9, CgKillL
  <1>10. CASE Cg!BuildStart \/ Cg!BuildKilled \/ Cg!BuildEnd
    BY <1>10 DEF Cg!BuildStart, Cg!BuildKilled, Cg!BuildEnd, Cg!SetupVars
  <1>11. CASE Cg!Tick BY <1>11 DEF Cg!Tick, Cg!SetupVars, Cg!FleetVars
  <1>12. CASE UNCHANGED cgVars BY <1>12 DEF cgVars
  <1> QED BY <1>1, <1>2, <1>3, <1>4, <1>5, <1>6, <1>7, <1>8, <1>9, <1>10, <1>11, <1>12
             DEF Cg!Next

(* Every step keeps processes in their leaves and baselines below the kills. *)
LEMMA CgInvStep ==
  ASSUME Cg!Bounds, Cg!StateOK, Cg!LeafInv, Cg!KillInv, [Cg!Next]_cgVars
  PROVE  Cg!LeafInv' /\ Cg!KillInv'
  <1> USE DEF Cg!LeafInv, Cg!KillInv, Cg!ToldIsContained, Cg!OomNotesTrue
  <1>1. CASE Cg!Probe \/ Cg!Squat \/ Cg!Drain \/ Cg!Drained \/ Cg!Enable
    BY <1>1, CgSetupStep DEF Cg!FleetVars
  <1>2. ASSUME NEW f \in CgFleets, Cg!Reap(f) PROVE Cg!LeafInv' /\ Cg!KillInv'
    BY <1>2, CgReapL DEF Cg!StateOK, Cg!WasOom
  <1>3. ASSUME NEW f \in CgFleets, Cg!Start(f) PROVE Cg!LeafInv' /\ Cg!KillInv'
    BY <1>3 DEF Cg!Start, Cg!SetupVars, Cg!StateOK
  <1>4. ASSUME NEW f \in CgFleets, Cg!Leaf(f) PROVE Cg!LeafInv' /\ Cg!KillInv'
    <2>1. PICK st \in {"spawnIn", "spawnOut"} : zStep' = [zStep EXCEPT ![f] = st] /\ (st = "spawnIn" => zLeaf'[f].capped)
      BY <1>4, CgLeafL
    <2>2. /\ zStep[f] = "leaf" /\ UNCHANGED <<zRun, zMap, zOom, zNote>>
          /\ \A g \in CgFleets : zLeaf'[g].kills = zLeaf[g].kills /\ (g # f => zLeaf'[g] = zLeaf[g])
      BY <1>4, CgLeafL
    <2>3. f \notin zMap /\ zMap \subseteq CgFleets /\ zStep \in [CgFleets -> Cg!Steps]
      BY <2>2 DEF Cg!StateOK
    <2>4. Cg!LeafInv' BY <2>1, <2>2, <2>3
    <2>5. Cg!KillInv' BY <2>2, <2>3
    <2> QED BY <2>4, <2>5
  <1>5. ASSUME NEW f \in CgFleets, Cg!Spawn(f) PROVE Cg!LeafInv' /\ Cg!KillInv'
    <2>0. zStep[f] \in {"spawnIn", "spawnOut"} /\ UNCHANGED <<zLeaf, zOom, zNote>> /\ f \notin zMap
      BY <1>5, CgSpawnL
    <2>1. CASE zStep' = [zStep EXCEPT ![f] = "idle"] /\ UNCHANGED <<zRun, zMap>>
      BY <2>0, <2>1 DEF Cg!StateOK
    <2>2. ASSUME NEW w \in Cg!Runs, zRun' = [zRun EXCEPT ![f] = w],
                 w.told = (zStep[f] = "spawnIn"), 
                 IF zStep[f] = "spawnIn" THEN zStep' = [zStep EXCEPT ![f] = "move"] /\ zMap' = zMap
                 ELSE zStep' = [zStep EXCEPT ![f] = "idle"] /\ zMap' = zMap \cup {f}
          PROVE Cg!LeafInv' /\ Cg!KillInv'
      <3>1. CASE zStep[f] = "spawnIn" BY <2>0, <2>2, <3>1 DEF Cg!StateOK
      <3>2. CASE zStep[f] # "spawnIn"
        <4>1. ~w.told /\ zStep' = [zStep EXCEPT ![f] = "idle"] /\ zMap' = zMap \cup {f}
          BY <2>2, <3>2
        <4>2. Cg!LeafInv' BY <2>0, <2>2, <4>1 DEF Cg!StateOK
        <4>3. Cg!KillInv' BY <2>0, <2>2, <4>1 DEF Cg!StateOK
        <4> QED BY <4>2, <4>3
      <3> QED BY <3>1, <3>2
    <2> QED BY <1>5, <2>1, <2>2, CgSpawnL
  <1>6. ASSUME NEW f \in CgFleets, Cg!Move(f) PROVE Cg!LeafInv' /\ Cg!KillInv'
    <2>0. zStep[f] = "move" /\ zStep' = [zStep EXCEPT ![f] = "idle"] /\ UNCHANGED <<zLeaf, zNote>>
      BY <1>6, CgMoveL
    <2>1. /\ f \notin zMap /\ zMap \subseteq CgFleets /\ zStep \in [CgFleets -> Cg!Steps]
          /\ zRun \in [CgFleets -> Cg!Runs]
          /\ zLeaf[f].kills \in Nat /\ zLeaf[f].capped /\ DOMAIN zOom = CgFleets
      BY <2>0 DEF Cg!StateOK, Cg!Leaves
    <2>2. CASE UNCHANGED <<zOom, zMap>> /\ zRun' \in {zRun, [zRun EXCEPT ![f] = Cg!NoRun]}
      <3>1. \A g \in zMap : zRun'[g] = zRun[g] BY <2>1, <2>2
      <3>2. Cg!LeafInv' BY <2>0, <2>1, <2>2, <3>1
      <3>3. Cg!KillInv' BY <2>0, <2>1, <2>2, <3>1
      <3> QED BY <3>2, <3>3
    <2>3. ASSUME NEW w \in Cg!Runs, NEW o, zMap' = zMap \cup {f},
                 zRun' = [zRun EXCEPT ![f] = w], w.at = "leaf", 
                 zOom' = [zOom EXCEPT ![f] = o], o.baseline = zLeaf[f].kills
          PROVE Cg!LeafInv' /\ Cg!KillInv'
      <3>1. zRun'[f] = w /\ zOom'[f] = o /\ \A g \in CgFleets \ {f} : zRun'[g] = zRun[g] /\ zOom'[g] = zOom[g]
        BY <2>1, <2>3
      <3>2. Cg!LeafInv' BY <2>0, <2>1, <2>3, <3>1
      <3>3. Cg!KillInv' BY <2>0, <2>1, <2>3, <3>1
      <3> QED BY <3>2, <3>3
    <2> QED BY <1>6, <2>2, <2>3, CgMoveL
  <1>7. ASSUME NEW f \in CgFleets, Cg!Stop(f) PROVE Cg!LeafInv' /\ Cg!KillInv'
    BY <1>7, CgNoneL DEF Cg!Stop, Cg!SetupVars, Cg!StateOK
  <1>8. ASSUME NEW f \in CgFleets, Cg!Exits(f) PROVE Cg!LeafInv' /\ Cg!KillInv'
    BY <1>8 DEF Cg!Exits, Cg!SetupVars, Cg!Runs, Cg!StateOK
  <1>9. ASSUME NEW f \in CgFleets, Cg!OomKill(f) PROVE Cg!LeafInv' /\ Cg!KillInv'
    BY <1>9, CgKillL, SMTT(20) DEF Cg!StateOK
  <1>10. CASE Cg!BuildStart \/ Cg!BuildKilled \/ Cg!BuildEnd
    BY <1>10 DEF Cg!BuildStart, Cg!BuildKilled, Cg!BuildEnd, Cg!SetupVars
  <1>11. CASE Cg!Tick BY <1>11 DEF Cg!Tick, Cg!SetupVars, Cg!FleetVars
  <1>12. CASE UNCHANGED cgVars BY <1>12 DEF cgVars
  <1> QED BY <1>1, <1>2, <1>3, <1>4, <1>5, <1>6, <1>7, <1>8, <1>9, <1>10, <1>11, <1>12
             DEF Cg!Next

(* A state the invariant allows is of the module's types. *)
LEMMA CgTypes == ASSUME Cg!Bounds, Cg!StateOK PROVE Cg!TypeOK
  <1>1. zSetup.pc \in {"probe", "drain", "look", "enable", "done"} /\ zSetup.tries \in 0..CgAttempts
    BY DEF Cg!StateOK, Cg!Setups, Cg!Bounds
  <1>2. ASSUME NEW f \in CgFleets
        PROVE  zRun[f].at \in {"none", "shared", "leaf"} /\
               zStep[f] \in {"idle", "leaf", "spawnIn", "spawnOut", "move"}
    BY DEF Cg!StateOK, Cg!Runs, Cg!Steps
  <1> QED BY <1>1, <1>2 DEF Cg!StateOK, Cg!TypeOK

(* A step of the platform is a step of containment or leaves it alone. *)
LEMMA CgNext == [Next]_allVars => [Cg!Next]_cgVars
  BY DEF Next, allVars, EnvStep, TelStep, SbxStep, CgStep, ErrStep, DomStep, InstStep,
         NoteStep, RenStep, EvStep, LogStep

(* The inductive invariant of containment. *)
LEMMA CgInductive == Spec => [](Cg!StateOK /\ Cg!LeafInv /\ Cg!KillInv)
  <1> DEFINE Inv == Cg!StateOK /\ Cg!LeafInv /\ Cg!KillInv
  <1>1. Init => Inv BY CgBounds, CgTypeInit, CgInvInit DEF Init
  <1>2. Inv /\ [Next]_allVars => Inv' BY CgBounds, CgNext, CgTypeStep, CgInvStep
  <1> QED BY <1>1, <1>2, PTL DEF Spec

(* A restart is put down to memory only when the kernel killed in the leaf  *)
(* of that very process (cgroups.rs note_spawned, oom_kills_since_spawn).   *)
THEOREM OomNotesAreTrue == Spec => []Cg!OomNotesTrue
  <1>1. Cg!KillInv => Cg!OomNotesTrue BY DEF Cg!KillInv
  <1> QED BY <1>1, CgInductive, PTL



(* Caps hold for every configuration that the runner accepts: no fleet runs *)
(* above the ceiling in force, the builds that run at once leave the        *)
(* residents their reserve (config.rs), and a fleet told of a cap runs      *)
(* inside its leaf, whatever write fails (cgroups.rs).                      *)
THEOREM CapsAreKept == Spec => []CapsHold
  <1>1. Inst!StateOK /\ Inst!LimitInv => Inst!FleetsCapped /\ Inst!BuildsFit
    BY InstBounds, InstFits DEF Inst!LimitInv
  <1>2. Cg!LeafInv => Cg!ToldIsContained BY DEF Cg!LeafInv
  <1>3. Inst!StateOK /\ Inst!LimitInv /\ Cg!LeafInv => CapsHold BY <1>1, <1>2 DEF CapsHold
  <1> QED BY <1>3, InstInductive, CgInductive, PTL

-----------------------------------------------------------------------------
(* Notices (InstanceNotices). *)
(* The instance's finite sets are the finite sets. *)
LEMMA NoteFinL == \A S : Note!IsFiniteSet(S) <=> IsFiniteSet(S)
  BY DEF Note!IsFiniteSet, IsFiniteSet

(* The order of the parts of a pre-release is strict. *)
LEMMA NotePartL == ASSUME NEW a \in Note!Parts, NEW b \in Note!Parts, NEW c \in Note!Parts
               PROVE ~Note!PartLess(a, a) /\
                     (Note!PartLess(a, b) /\ Note!PartLess(b, c) => Note!PartLess(a, c))
  BY DEF Note!PartLess, Note!Parts

(* No pre-release is before itself. *)
LEMMA NotePreIrr == ASSUME NEW a \in Seq(Note!Parts) PROVE ~Note!PreLess(a, a)
  <1>1. \A i \in DOMAIN a : a[i] \in Note!Parts OBVIOUS
  <1>2. ~(Len(a) < Len(a)) OBVIOUS
  <1> QED BY <1>1, <1>2, NotePartL DEF Note!PreLess

(* The order of pre-releases is transitive: the first part that differs decides. *)
LEMMA NotePreTrans ==
  ASSUME NEW a \in Seq(Note!Parts), NEW b \in Seq(Note!Parts), NEW c \in Seq(Note!Parts), Note!PreLess(a, b), Note!PreLess(b, c)
  PROVE Note!PreLess(a, c)
  <1>0. /\ DOMAIN a = 1..Len(a) /\ Len(a) \in Nat /\ DOMAIN b = 1..Len(b) /\ Len(b) \in Nat
        /\ DOMAIN c = 1..Len(c) /\ Len(c) \in Nat
        /\ (\A i \in DOMAIN a : a[i] \in Note!Parts) /\ (\A i \in DOMAIN b : b[i] \in Note!Parts)
        /\ (\A i \in DOMAIN c : c[i] \in Note!Parts)
    OBVIOUS
  <1> DEFINE Dif(x, y, i) == i \in DOMAIN x \cap DOMAIN y /\ Note!PartLess(x[i], y[i]) /\ \A j \in 1..(i - 1) : x[j] = y[j]
             Pre(x, y) == Len(x) < Len(y) /\ \A j \in DOMAIN x : x[j] = y[j]
  <1>1. ASSUME NEW i, Dif(a, b, i), NEW k, Dif(b, c, k) PROVE Note!PreLess(a, c)
    <2>0. i \in Nat /\ k \in Nat BY <1>0, <1>1
    <2>1. CASE i < k
      <3>1. Dif(a, c, i) BY <1>0, <1>1, <2>0, <2>1
      <3> QED BY <3>1 DEF Note!PreLess
    <2>2. CASE i = k
      <3>1. Dif(a, c, i) BY <1>0, <1>1, <2>0, <2>2, NotePartL
      <3> QED BY <3>1 DEF Note!PreLess
    <2>3. CASE k < i
      <3>1. Dif(a, c, k) BY <1>0, <1>1, <2>0, <2>3
      <3> QED BY <3>1 DEF Note!PreLess
    <2> QED BY <2>0, <2>1, <2>2, <2>3
  <1>2. ASSUME NEW i, Dif(a, b, i), Pre(b, c) PROVE Note!PreLess(a, c)
    <2>1. Dif(a, c, i) BY <1>0, <1>2
    <2> QED BY <2>1 DEF Note!PreLess
  <1>3. ASSUME Pre(a, b), NEW k, Dif(b, c, k) PROVE Note!PreLess(a, c)
    <2>0. k \in Nat BY <1>0, <1>3
    <2>1. CASE k <= Len(a)
      <3>1. Dif(a, c, k) BY <1>0, <1>3, <2>0, <2>1
      <3> QED BY <3>1 DEF Note!PreLess
    <2>2. CASE Len(a) < k
      <3>1. Pre(a, c) BY <1>0, <1>3, <2>0, <2>2
      <3> QED BY <3>1 DEF Note!PreLess
    <2> QED BY <1>0, <2>0, <2>1, <2>2
  <1>4. ASSUME Pre(a, b), Pre(b, c) PROVE Note!PreLess(a, c)
    <2>1. Pre(a, c) BY <1>0, <1>4
    <2> QED BY <2>1 DEF Note!PreLess
  <1>5. (\E i : Dif(a, b, i)) \/ Pre(a, b) BY DEF Note!PreLess
  <1>6. (\E i : Dif(b, c, i)) \/ Pre(b, c) BY DEF Note!PreLess
  <1> QED BY <1>1, <1>2, <1>3, <1>4, <1>5, <1>6

(* No version is before itself. *)
LEMMA NoteLessIrr == ASSUME NEW v \in Note!Semver PROVE ~Note!Less(v, v)
  <1>1. v.core \in Nat /\ v.pre \in Seq(Note!Parts) BY DEF Note!Semver
  <1> QED BY <1>1, NotePreIrr DEF Note!Less

(* The order of versions is transitive. *)
LEMMA NoteLessTrans ==
  ASSUME NEW u \in Note!Semver, NEW v \in Note!Semver, NEW w \in Note!Semver, Note!Less(u, v),
         Note!Less(v, w)
                   PROVE Note!Less(u, w)
  <1>1. /\ u.core \in Nat /\ v.core \in Nat /\ w.core \in Nat
        /\ u.pre \in Seq(Note!Parts) /\ v.pre \in Seq(Note!Parts) /\ w.pre \in Seq(Note!Parts)
    BY DEF Note!Semver
  <1>2. u.core <= v.core /\ v.core <= w.core BY <1>1 DEF Note!Less
  <1>3. CASE u.core < w.core BY <1>3 DEF Note!Less
  <1>4. CASE u.core = v.core /\ v.core = w.core
    <2>1. u.pre # <<>> /\ v.pre # <<>> /\ Note!PreLess(u.pre, v.pre) /\
          (w.pre = <<>> \/ Note!PreLess(v.pre, w.pre))
      BY <1>1, <1>4 DEF Note!Less
    <2>2. w.pre = <<>> \/ Note!PreLess(u.pre, w.pre) BY <2>1, <1>1, NotePreTrans
    <2> QED BY <2>1, <2>2, <1>4 DEF Note!Less
  <1> QED BY <1>1, <1>2, <1>3, <1>4

(* A finite set of versions has a newest. *)
LEMMA NoteNewest ==
  ASSUME Note!Bounds, NEW T \in SUBSET NoteVersions, T # {}
  PROVE  (\E m \in T : \A w \in T : ~Note!Less(m, w)) /\ (\E m \in T : \A w \in T : ~Note!Less(w, m))
  <1> DEFINE R == {p \in NoteVersions \X NoteVersions : Note!Less(p[1], p[2])}
             Q == {p \in NoteVersions \X NoteVersions : Note!Less(p[2], p[1])}
  <1>0. \A x, y \in NoteVersions : (<<x, y>> \in R <=> Note!Less(x, y)) /\ (<<x, y>> \in Q <=> Note!Less(y, x)) OBVIOUS
  <1>1. NoteVersions \subseteq Note!Semver /\ IsFiniteSet(NoteVersions)
    BY NoteFinL DEF Note!Bounds
  <1> HIDE DEF R, Q
  <1>2. \A x \in NoteVersions : <<x, x>> \notin R /\ <<x, x>> \notin Q
    BY <1>0, <1>1, NoteLessIrr
  <1>3. \A x, y, z \in NoteVersions : <<x, y>> \in R /\ <<y, z>> \in R => <<x, z>> \in R
    BY <1>0, <1>1, NoteLessTrans
  <1>4. \A x, y, z \in NoteVersions : <<x, y>> \in Q /\ <<y, z>> \in Q => <<x, z>> \in Q
    BY <1>0, <1>1, NoteLessTrans
  <1>5. \E m \in T : \A w \in T : <<m, w>> \notin R BY <1>1, <1>2, <1>3, Maximal
  <1>6. \E m \in T : \A w \in T : <<m, w>> \notin Q BY <1>1, <1>2, <1>4, Maximal
  <1> QED BY <1>0, <1>5, <1>6

(* The version the check selects is one of the feed's that it may offer. *)
LEMMA NoteSelected ==
  ASSUME Note!Bounds, NEW cur, NEW list \in SUBSET NoteVersions
  PROVE  \/ Note!SelectUpdate(cur, list) = Note!Nothing
         \/ /\ Note!SelectUpdate(cur, list) \in list
            /\ Note!Qualifies(cur, Note!SelectUpdate(cur, list))
            /\ \A w \in list : Note!Qualifies(cur, w) => ~Note!Less(Note!SelectUpdate(cur, list), w)
  <1> DEFINE good == {v \in list : Note!Qualifies(cur, v)}
  <1>1. CASE good = {} BY <1>1 DEF Note!SelectUpdate
  <1>2. CASE good # {}
    <2>1. \E m \in good : \A w \in good : ~Note!Less(m, w) BY <1>2, NoteNewest
    <2>2. Note!SelectUpdate(cur, list) = CHOOSE v \in good : \A w \in good : ~Note!Less(v, w)
      BY <1>2 DEF Note!SelectUpdate
    <2> QED BY <2>1, <2>2
  <1> QED BY <1>1, <1>2

(* The types hold at first. *)
LEMMA NoteTypeInit == ASSUME Note!Bounds, Note!Init PROVE Note!TypeOK
  <1>1. oImage \in NoteVersions BY NoteNewest DEF Note!Init, Note!Bounds
  <1>2. oRows \in Note!Rows BY DEF Note!Init, Note!Bounds, Note!Rows, Note!Settings, Note!Never
  <1>3. oCall \in [Note!Calls -> Note!CallStates]
    BY DEF Note!Init, Note!CallStates, Note!NoCall, Note!Bounds
  <1>4. oLate \in [{"beat", "upd"} -> Nat] BY DEF Note!Init
  <1>5. oLeft \in Note!Lefts BY DEF Note!Init, Note!Lefts, Note!Bounds
  <1>6. oNow \in 1..NoteMaxTime /\ oFeed \in [NoteVersions -> {"absent", "pre", "promoted"}]
    BY DEF Note!Init, Note!Bounds
  <1> QED BY <1>1, <1>2, <1>3, <1>4, <1>5, <1>6 DEF Note!TypeOK

(* The records of calls. *)
LEMMA NoteCallL ==
  ASSUME Note!Bounds, Note!TypeOK, NEW c \in Note!Calls
  PROVE  /\ \A d \in Note!Calls : oCall[d] \in Note!CallStates
         /\ Note!NoCall \in Note!CallStates /\ Note!NoCall.step = "idle"
         /\ Note!Done(c) => oCall' \in [Note!Calls -> Note!CallStates]
         /\ \A s \in {"idle", "decided", "record", "result"} : Note!At(c, s) => oCall' \in [Note!Calls -> Note!CallStates]
         /\ [Note!NoCall EXCEPT !.step = "decided", !.at = oNow] \in Note!CallStates
  <1>1. oCall \in [Note!Calls -> Note!CallStates] /\ oNow \in 0..NoteMaxTime
    BY DEF Note!TypeOK, Note!Bounds
  <1>2. Note!NoCall \in Note!CallStates /\ Note!NoCall.step = "idle"
    BY DEF Note!CallStates, Note!NoCall, Note!Bounds
  <1>3. Note!Done(c) => oCall' \in [Note!Calls -> Note!CallStates] BY <1>1, <1>2 DEF Note!Done
  <1>4. ASSUME NEW s \in {"idle", "decided", "record", "result"}, Note!At(c, s)
        PROVE  oCall' \in [Note!Calls -> Note!CallStates]
    <2>1. [oCall[c] EXCEPT !.step = s] \in Note!CallStates BY <1>1 DEF Note!CallStates
    <2>2. oCall' = [oCall EXCEPT ![c] = [oCall[c] EXCEPT !.step = s]] BY <1>4 DEF Note!At
    <2> QED BY <1>1, <2>1, <2>2
  <1>5. [Note!NoCall EXCEPT !.step = "decided", !.at = oNow] \in Note!CallStates
    BY <1>1, <1>2 DEF Note!CallStates
  <1> QED BY <1>1, <1>2, <1>3, <1>4, <1>5

(* A fault is paid for. *)
LEMMA NoteFaultL ==
  ASSUME Note!Bounds, Note!TypeOK, Note!Spent, Note!Fault
  PROVE  oLeft' \in Note!Lefts
  BY DEF Note!TypeOK, Note!Lefts, Note!Spent, Note!Fault, Note!Bounds

(* A call that leaves late is counted. *)
LEMMA NoteLateL ==
  ASSUME Note!TypeOK, NEW c \in Note!Calls, Note!Left(c)
  PROVE  oLate' \in [{"beat", "upd"} -> Nat]
  BY DEF Note!TypeOK, Note!Left, Note!Row

(* Every step keeps the types. *)
LEMMA NoteTypeStep == ASSUME Note!Bounds, Note!TypeOK, [Note!Next]_noteVars PROVE Note!TypeOK'
  <1>0. /\ oNow \in 1..NoteMaxTime /\ oImage \in NoteVersions \cup {Note!Dev} /\ oRows \in Note!Rows
        /\ oFeed \in [NoteVersions -> {"absent", "pre", "promoted"}]
        /\ oCall \in [Note!Calls -> Note!CallStates]
        /\ oLate \in [{"beat", "upd"} -> Nat] /\ oLeft \in Note!Lefts
    BY DEF Note!TypeOK
  <1>1. CASE Note!Tick BY <1>1, <1>0 DEF Note!Tick, Note!TypeOK, Note!Bounds
  <1>2. ASSUME NEW v \in NoteVersions, NEW s \in {"absent", "pre", "promoted"},
               Note!Publish(v, s)
        PROVE  Note!TypeOK'
    <2>1. oLeft' \in Note!Lefts BY <1>2, <1>0 DEF Note!Publish, Note!Lefts, Note!Bounds
    <2> QED BY <1>2, <1>0, <2>1 DEF Note!Publish, Note!TypeOK
  <1>3. ASSUME NEW c \in Note!Calls, Note!Decide(c) PROVE Note!TypeOK'
    BY <1>3, <1>0, NoteCallL DEF Note!Decide, Note!TypeOK
  <1>4. ASSUME NEW c \in Note!Calls, Note!Fetch(c) PROVE Note!TypeOK'
    <2>1. oCall' \in [Note!Calls -> Note!CallStates]
      <3>1. CASE Note!Done(c) BY <3>1, NoteCallL
      <3>2. CASE oCall' = [oCall EXCEPT ![c].step = "record", ![c].list = {v \in NoteVersions : oFeed[v] = "promoted"}]
        <4>1. oCall' = [oCall EXCEPT ![c] = [oCall[c] EXCEPT !.step = "record", !.list = {v \in NoteVersions : oFeed[v] = "promoted"}]]
          BY <3>2, <1>0
        <4>2. [oCall[c] EXCEPT !.step = "record", !.list = {v \in NoteVersions : oFeed[v] = "promoted"}] \in Note!CallStates
          BY <1>0 DEF Note!CallStates
        <4> QED BY <4>1, <4>2, <1>0
      <3> QED BY <1>4, <3>1, <3>2 DEF Note!Fetch
    <2>2. oLeft' \in Note!Lefts BY <1>4, <1>0, NoteFaultL DEF Note!Fetch
    <2>3. oLate' \in [{"beat", "upd"} -> Nat] BY <1>4, NoteLateL DEF Note!Fetch
    <2> QED BY <1>4, <1>0, <2>1, <2>2, <2>3 DEF Note!Fetch, Note!TypeOK
  <1>5. ASSUME NEW c \in Note!Calls, Note!StampCheck(c) PROVE Note!TypeOK'
    <2>1. oCall' \in [Note!Calls -> Note!CallStates] BY <1>5, NoteCallL DEF Note!StampCheck
    <2>2. oLeft' \in Note!Lefts BY <1>5, <1>0, NoteFaultL DEF Note!StampCheck
    <2>3. [oRows EXCEPT !.updAt = oCall[c].at] \in Note!Rows
      BY <1>0 DEF Note!Rows, Note!CallStates
    <2>4. oRows' \in Note!Rows BY <1>5, <1>0, <2>3 DEF Note!StampCheck
    <2> QED BY <1>5, <1>0, <2>1, <2>2, <2>4 DEF Note!StampCheck, Note!TypeOK
  <1>6. ASSUME NEW c \in Note!Calls, Note!CacheResult(c) PROVE Note!TypeOK'
    <2>1. oCall' \in [Note!Calls -> Note!CallStates] BY <1>6, NoteCallL DEF Note!CacheResult
    <2>2. oLeft' \in Note!Lefts BY <1>6, <1>0, NoteFaultL DEF Note!CacheResult
    <2>3. oCall[c].list \in SUBSET NoteVersions BY <1>0 DEF Note!CallStates
    <2>4. Note!SelectUpdate(oImage, oCall[c].list) \in NoteVersions \cup {Note!Nothing}
      BY <2>3, NoteSelected
    <2>5. [oRows EXCEPT !.result = Note!SelectUpdate(oImage, oCall[c].list)] \in Note!Rows
      BY <1>0, <2>4 DEF Note!Rows
    <2>6. oRows' \in Note!Rows BY <1>6, <1>0, <2>5 DEF Note!CacheResult
    <2> QED BY <1>6, <1>0, <2>1, <2>2, <2>6 DEF Note!CacheResult, Note!TypeOK
  <1>7. CASE Note!SendBeat
    <2>0. "beat" \in Note!Calls BY DEF Note!Calls
    <2>1. oCall' \in [Note!Calls -> Note!CallStates] BY <1>7, <2>0, NoteCallL DEF Note!SendBeat
    <2>2. oLeft' \in Note!Lefts BY <1>7, <1>0, NoteFaultL DEF Note!SendBeat
    <2>3. oLate' \in [{"beat", "upd"} -> Nat] BY <1>7, <2>0, NoteLateL DEF Note!SendBeat
    <2> QED BY <1>7, <1>0, <2>1, <2>2, <2>3 DEF Note!SendBeat, Note!TypeOK
  <1>8. CASE Note!RecordSent
    <2>0. "beat" \in Note!Calls BY DEF Note!Calls
    <2>1. oCall' \in [Note!Calls -> Note!CallStates]
      BY <1>8, <2>0, NoteCallL DEF Note!RecordSent
    <2>2. oLeft' \in Note!Lefts BY <1>8, <1>0, NoteFaultL DEF Note!RecordSent
    <2>3. [oRows EXCEPT !.beatAt = oCall["beat"].at] \in Note!Rows
      BY <1>0, <2>0 DEF Note!Rows, Note!CallStates
    <2>4. oRows' \in Note!Rows BY <1>8, <1>0, <2>3 DEF Note!RecordSent
    <2> QED BY <1>8, <1>0, <2>1, <2>2, <2>4 DEF Note!RecordSent, Note!TypeOK
  <1>9. ASSUME NEW on \in BOOLEAN, Note!SetTelemetry(on) PROVE Note!TypeOK'
    <2>1. oLeft' \in Note!Lefts BY <1>9, <1>0 DEF Note!SetTelemetry, Note!Lefts, Note!Bounds
    <2>2. ASSUME NEW b \in Note!Settings
          PROVE  [oRows EXCEPT !.beat = b] \in Note!Rows BY <1>0 DEF Note!Rows
    <2>3. oRows' \in Note!Rows BY <1>9, <2>2 DEF Note!SetTelemetry, Note!Settings
    <2>4. oLate' \in [{"beat", "upd"} -> Nat] BY <1>9, <1>0 DEF Note!SetTelemetry
    <2> QED BY <1>9, <1>0, <2>1, <2>3, <2>4 DEF Note!SetTelemetry, Note!TypeOK
  <1>10. ASSUME NEW on \in BOOLEAN, Note!SetUpdateCheck(on) PROVE Note!TypeOK'
    <2>0. "enable" \in Note!Calls BY DEF Note!Calls
    <2>1. oLeft' \in Note!Lefts BY <1>10, <1>0 DEF Note!SetUpdateCheck, Note!Lefts, Note!Bounds
    <2>2. ASSUME NEW b \in Note!Settings
          PROVE  [oRows EXCEPT !.upd = b] \in Note!Rows BY <1>0 DEF Note!Rows
    <2>3. oRows' \in Note!Rows BY <1>10, <2>2 DEF Note!SetUpdateCheck, Note!Settings
    <2>4. oLate' \in [{"beat", "upd"} -> Nat] BY <1>10, <1>0 DEF Note!SetUpdateCheck
    <2>5. oCall' \in [Note!Calls -> Note!CallStates]
      BY <1>10, <1>0, <2>0, NoteCallL DEF Note!SetUpdateCheck, Note!EnableCheck
    <2> QED BY <1>10, <1>0, <2>1, <2>3, <2>4, <2>5 DEF Note!SetUpdateCheck, Note!TypeOK
  <1>11. ASSUME NEW v \in NoteVersions \cup {Note!Dev}, Note!Reboot(v) PROVE Note!TypeOK'
    <2>0. "enable" \in Note!Calls BY DEF Note!Calls
    <2>1. oLeft' \in Note!Lefts BY <1>11, <1>0 DEF Note!Reboot, Note!Lefts, Note!Bounds
    <2>2. oCall' \in [Note!Calls -> Note!CallStates] BY <1>11, <2>0, NoteCallL DEF Note!Reboot
    <2> QED BY <1>11, <1>0, <2>1, <2>2 DEF Note!Reboot, Note!TypeOK
  <1>12. CASE UNCHANGED noteVars BY <1>12, <1>0 DEF noteVars, Note!TypeOK
  <1> QED BY <1>1, <1>2, <1>3, <1>4, <1>5, <1>6, <1>7, <1>8, <1>9, <1>10, <1>11, <1>12
             DEF Note!Next

(* What the panel announces is newer than what runs. *)
LEMMA NoteNewer == ASSUME Note!Bounds, Note!TypeOK PROVE Note!NoticeIsNewer
  <1>1. oRows.result \in NoteVersions \cup {Note!Nothing} BY DEF Note!TypeOK, Note!Rows
  <1> DEFINE shown == Note!StatusLatest(oImage, oRows)
  <1>2. ASSUME shown # Note!Nothing PROVE Note!Qualifies(oImage, shown)
    <2>1. oRows.result # Note!Nothing BY <1>2 DEF Note!StatusLatest
    <2>2. {oRows.result} \in SUBSET NoteVersions BY <1>1, <2>1
    <2>3. shown = Note!SelectUpdate(oImage, {oRows.result}) BY <2>1 DEF Note!StatusLatest
    <2> QED BY <1>2, <2>2, <2>3, NoteSelected
  <1> QED BY <1>2 DEF Note!Qualifies, Note!NoticeIsNewer

(* The invariant holds at first. *)
LEMMA NoteOptOutInit == ASSUME Note!Init PROVE Note!OptOutInv
  BY DEF Note!Init, Note!OptOutInv, Note!Decided, Note!NoCall, Note!Calls

(* Every step keeps the late calls within those decided before the opt-out. *)
LEMMA NoteOptOutStep ==
  ASSUME Note!Bounds, Note!TypeOK, Note!OptOutInv, [Note!Next]_noteVars
  PROVE  Note!OptOutInv'
  <1>0. /\ oRows \in Note!Rows /\ oCall \in [Note!Calls -> Note!CallStates]
        /\ oLate \in [{"beat", "upd"} -> Nat]
        /\ "beat" \in Note!Calls /\ "tick" \in Note!Calls /\ "enable" \in Note!Calls
        /\ Note!NoCall.step = "idle"
    BY NoteCallL DEF Note!TypeOK, Note!Calls
  <1>1. CASE Note!Tick BY <1>1 DEF Note!Tick, Note!OptOutInv, Note!Decided
  <1>2. ASSUME NEW v \in NoteVersions, NEW s \in {"absent", "pre", "promoted"},
               Note!Publish(v, s)
        PROVE  Note!OptOutInv'
    BY <1>2 DEF Note!Publish, Note!OptOutInv, Note!Decided
  <1>3. ASSUME NEW c \in Note!Calls, Note!Decide(c) PROVE Note!OptOutInv'
    <2>1. CASE c = "beat"
      BY <1>0, <1>3, <2>1 DEF Note!Decide, Note!Due, Note!BeatDue, Note!OptOutInv, Note!Decided
    <2>2. CASE c = "tick"
      BY <1>0, <1>3, <2>2 DEF Note!Decide, Note!Due, Note!CheckDue, Note!OptOutInv, Note!Decided
    <2> QED BY <1>3, <2>1, <2>2 DEF Note!Decide
  <1>4. ASSUME NEW c \in Note!Calls, Note!Fetch(c) PROVE Note!OptOutInv'
    <2>0. c \in {"tick", "enable"} BY <1>4 DEF Note!Fetch, Note!Calls
    <2>1. \A d \in Note!Calls : oCall'[d].step = (IF d = c THEN oCall'[c].step ELSE oCall[d].step)
          /\ oCall'[c].step \in {"idle", "record"}
      BY <1>0, <1>4 DEF Note!Fetch, Note!Done, Note!CallStates
    <2>2. oLate' = [oLate EXCEPT !["upd"] = IF oRows.upd = "0" THEN @ + 1 ELSE @] /\ oRows' = oRows
      BY <1>4, <2>0 DEF Note!Fetch, Note!Left, Note!Row, Note!Off
    <2>3. oCall[c].step = "decided" BY <1>4 DEF Note!Fetch
    <2> QED BY <1>0, <2>0, <2>1, <2>2, <2>3 DEF Note!OptOutInv, Note!Decided
  <1>5. ASSUME NEW c \in Note!Calls, Note!StampCheck(c) PROVE Note!OptOutInv'
    <2>1. \A d \in Note!Calls : d # c => oCall'[d] = oCall[d]
      BY <1>0, <1>5 DEF Note!StampCheck, Note!Done, Note!At
    <2>2. oCall'[c].step \in {"idle", "result"}
      BY <1>0, <1>5 DEF Note!StampCheck, Note!Done, Note!At, Note!CallStates
    <2>3. oRows'.beat = oRows.beat /\ oRows'.upd = oRows.upd /\ oLate' = oLate
      BY <1>0, <1>5 DEF Note!StampCheck, Note!Rows
    <2> QED BY <1>0, <2>1, <2>2, <2>3 DEF Note!OptOutInv, Note!Decided
  <1>6. ASSUME NEW c \in Note!Calls, Note!CacheResult(c) PROVE Note!OptOutInv'
    <2>1. \A d \in Note!Calls : d # c => oCall'[d] = oCall[d]
      BY <1>0, <1>6 DEF Note!CacheResult, Note!Done
    <2>2. oCall'[c].step = "idle" BY <1>0, <1>6 DEF Note!CacheResult, Note!Done
    <2>3. oRows'.beat = oRows.beat /\ oRows'.upd = oRows.upd /\ oLate' = oLate
      BY <1>0, <1>6 DEF Note!CacheResult, Note!Rows
    <2> QED BY <1>0, <2>1, <2>2, <2>3 DEF Note!OptOutInv, Note!Decided
  <1>7. CASE Note!SendBeat
    <2>1. oCall'["tick"] = oCall["tick"] /\ oCall'["enable"] = oCall["enable"] /\
          oCall'["beat"].step \in {"idle", "record"}
      BY <1>0, <1>7 DEF Note!SendBeat, Note!Done, Note!At, Note!CallStates
    <2>2. oLate' = [oLate EXCEPT !["beat"] = IF oRows.beat = "0" THEN @ + 1 ELSE @] /\ oRows' = oRows
      BY <1>7 DEF Note!SendBeat, Note!Left, Note!Row, Note!Off
    <2>3. oCall["beat"].step = "decided" BY <1>7 DEF Note!SendBeat
    <2> QED BY <1>0, <2>1, <2>2, <2>3 DEF Note!OptOutInv, Note!Decided
  <1>8. CASE Note!RecordSent
    <2>1. oCall'["tick"] = oCall["tick"] /\ oCall'["enable"] = oCall["enable"] /\
          oCall'["beat"].step = "idle"
      BY <1>0, <1>8 DEF Note!RecordSent, Note!Done
    <2>2. oRows'.beat = oRows.beat /\ oRows'.upd = oRows.upd /\ oLate' = oLate
      BY <1>0, <1>8 DEF Note!RecordSent, Note!Rows
    <2> QED BY <1>0, <2>1, <2>2 DEF Note!OptOutInv, Note!Decided
  <1>9. ASSUME NEW on \in BOOLEAN, Note!SetTelemetry(on) PROVE Note!OptOutInv'
    <2>1. oRows'.upd = oRows.upd /\ oCall' = oCall /\ oLate'["beat"] = 0 /\ oLate'["upd"] = oLate["upd"]
      BY <1>0, <1>9 DEF Note!SetTelemetry, Note!Rows
    <2> QED BY <2>1 DEF Note!OptOutInv, Note!Decided
  <1>10. ASSUME NEW on \in BOOLEAN, Note!SetUpdateCheck(on) PROVE Note!OptOutInv'
    <2>1. oRows'.beat = oRows.beat /\ oCall'["beat"] = oCall["beat"] /\ oLate'["upd"] = 0 /\
          oLate'["beat"] = oLate["beat"]
      BY <1>0, <1>10 DEF Note!SetUpdateCheck, Note!EnableCheck, Note!Rows
    <2> QED BY <2>1 DEF Note!OptOutInv, Note!Decided
  <1>11. ASSUME NEW v \in NoteVersions \cup {Note!Dev}, Note!Reboot(v) PROVE Note!OptOutInv'
    BY <1>0, <1>11 DEF Note!Reboot, Note!OptOutInv, Note!Decided
  <1>12. CASE UNCHANGED noteVars BY <1>12 DEF noteVars, Note!OptOutInv, Note!Decided
  <1> QED BY <1>1, <1>2, <1>3, <1>4, <1>5, <1>6, <1>7, <1>8, <1>9, <1>10, <1>11, <1>12
             DEF Note!Next

(* The invariant bounds what leaves after an opt-out. *)
LEMMA NoteQuiet == ASSUME Note!TypeOK, Note!OptOutInv PROVE Note!QuietAfterOptOut
  <1>1. oLate["beat"] \in Nat /\ oLate["upd"] \in Nat BY DEF Note!TypeOK
  <1> QED BY <1>1 DEF Note!OptOutInv, Note!QuietAfterOptOut, Note!Decided

(* A step of the platform is a step of the notices or leaves them alone. *)
LEMMA NoteNext == [Next]_allVars => [Note!Next]_noteVars
  BY DEF Next, allVars, EnvStep, TelStep, SbxStep, CgStep, ErrStep, DomStep, InstStep,
         NoteStep, RenStep, EvStep, LogStep

(* The inductive invariant of the notices. *)
LEMMA NoteInductive == Spec => [](Note!TypeOK /\ Note!OptOutInv)
  <1> DEFINE Inv == Note!TypeOK /\ Note!OptOutInv
  <1>1. Init => Inv BY NoteBounds, NoteTypeInit, NoteOptOutInit DEF Init
  <1>2. Inv /\ [Next]_allVars => Inv' BY NoteBounds, NoteNext, NoteTypeStep, NoteOptOutStep
  <1> QED BY <1>1, <1>2, PTL DEF Spec

(* The panel announces only versions that semver orders after the running   *)
(* one, and a pre-release only to a pre-release (update_check.rs            *)
(* select_latest, status): for every finite set of versions.                *)
THEOREM NoticesAreNewer == Spec => []NoticeIsNewer
  <1>1. Note!TypeOK => NoticeIsNewer BY NoteBounds, NoteNewer DEF NoticeIsNewer
  <1> QED BY <1>1, NoteInductive, PTL

(* Once an owner has opted out, only calls decided before it still leave:   *)
(* one heartbeat, two update checks (telemetry.rs, update_check.rs).        *)
THEOREM OptOutIsKept == Spec => []Note!QuietAfterOptOut
  <1>1. Note!TypeOK /\ Note!OptOutInv => Note!QuietAfterOptOut BY NoteQuiet
  <1> QED BY <1>1, NoteInductive, PTL


-----------------------------------------------------------------------------
(* Errors (ErrorTracking). *)
(* The instance's cardinality is the cardinality. *)
LEMMA ErrCardL == \A S : Err!Cardinality(S) = Cardinality(S)
  BY DEF Err!Cardinality, Cardinality

(* The instance's finite sets are the finite sets. *)
LEMMA ErrFinL == \A S : Err!IsFiniteSet(S) <=> IsFiniteSet(S)
  BY DEF Err!IsFiniteSet, IsFiniteSet

(* The latest time of a finite set of occurrences. *)
LEMMA ErrLatestL ==
  ASSUME Err!Bounds, Err!ClockOK, NEW S \in SUBSET Err!Traces, S # {}
  PROVE  Err!Latest(S) \in S
  <1>1. PICK n \in 0..ErrMaxTraces : rReq \in [1..n -> Err!Requests] BY DEF Err!ClockOK
  <1>2. n \in Nat /\ Err!Traces = 1..n /\ \A i \in 1..n : rReq[i].ts \in Nat
    BY <1>1 DEF Err!Traces, Err!Requests, Err!Bounds
  <1> DEFINE Before(i, j) == rReq[i].ts < rReq[j].ts \/ (rReq[i].ts = rReq[j].ts /\ i < j)
             V == 1..n
             R == {p \in V \X V : Before(p[1], p[2])}
  <1>3. \A i, j \in V : <<i, j>> \in R <=> Before(i, j) OBVIOUS
  <1>4. IsFiniteSet(V) /\ S \in SUBSET V
    <2>1. 1 \in Int /\ n \in Int BY <1>2
    <2>2. IsFiniteSet(1..n) BY <2>1, FS_Interval
    <2> QED BY <1>2, <2>2
  <1>5. \A i \in V : ~Before(i, i) BY <1>2
  <1>6. \A i, j, k \in V : Before(i, j) /\ Before(j, k) => Before(i, k) BY <1>2
  <1>7. \A i, j \in V : ~Before(i, j) => rReq[i].ts > rReq[j].ts \/ (rReq[i].ts = rReq[j].ts /\ i >= j)
    BY <1>2
  <1> HIDE DEF R, V, Before
  <1>8. \A i \in V : <<i, i>> \notin R BY <1>3, <1>5
  <1>9. \A i, j, k \in V : <<i, j>> \in R /\ <<j, k>> \in R => <<i, k>> \in R BY <1>3, <1>6
  <1>10. PICK m \in S : \A w \in S : <<m, w>> \notin R BY <1>4, <1>8, <1>9, Maximal
  <1>11. \A j \in S : ~Before(m, j) BY <1>3, <1>4, <1>10
  <1>12. \A j \in S : rReq[m].ts > rReq[j].ts \/ (rReq[m].ts = rReq[j].ts /\ m >= j)
    BY <1>4, <1>7, <1>11
  <1> QED BY <1>12 DEF Err!Latest

(* The rows of an hour name known traces. *)
LEMMA ErrRowsL ==
  ASSUME Err!Bounds, Err!ClockOK, NEW h
  PROVE  \A row \in Err!Rows(h) : row.trace \in Err!Traces
  <1>1. \A how : Err!In(h, how) \in SUBSET Err!Traces BY DEF Err!In
  <1>2. Err!In(h, "span") # {} => Err!Latest(Err!In(h, "span")) \in Err!Traces
    BY <1>1, ErrLatestL
  <1> QED BY <1>1, <1>2 DEF Err!Rows

(* The invariant holds at first. *)
LEMMA ErrInit0 == ASSUME Err!Bounds, Err!Init PROVE Err!ClockOK /\ Err!FoldInv
  <1>1. \E n \in 0..ErrMaxTraces : rReq \in [1..n -> Err!Requests]
    <2>1. rReq \in [1..0 -> Err!Requests] BY DEF Err!Init
    <2>2. 0 \in 0..ErrMaxTraces BY DEF Err!Bounds
    <2> QED BY <2>1, <2>2
  <1>2. Err!ClockOK BY <1>1 DEF Err!Init, Err!ClockOK, Err!Idle, Err!NoIssue
  <1>3. Err!FoldInv BY DEF Err!Init, Err!FoldInv, Err!NoIssue
  <1> QED BY <1>2, <1>3

(* What folding an event into its issue does to the issue. *)
LEMMA ErrFoldedL ==
  ASSUME Err!ClockOK, Err!FoldInv, NEW ts \in Nat, NEW tr, NEW from, NEW n, NEW req, Err!RecordOne(ts, tr, from, n, req)
  PROVE  /\ rFired' \in Nat /\ Err!FoldInv' /\ DOMAIN rIssue' = DOMAIN Err!NoIssue /\ rIssue'.at \in Nat
         /\ rIssue'.status \in {"open", "resolved", "ignored"}
  <1> USE DEF Err!ClockOK
  <1>0. DOMAIN Err!NoIssue = {"on", "status", "at", "regressed", "last", "count"}
    BY DEF Err!NoIssue
  <1>1. rFired' \in Nat /\ rFired' = (IF ts > rFired THEN ts ELSE rFired) BY DEF Err!RecordOne
  <1>2. rIssue' = Err!Folded(rIssue, ts, n) BY DEF Err!RecordOne
  <1>3. CASE ~rIssue.on
    <2>1. rIssue' = [Err!NoIssue EXCEPT !.on = TRUE, !.last = ts, !.count = n]
      BY <1>2, <1>3 DEF Err!Folded
    <2>2. DOMAIN rIssue' = DOMAIN Err!NoIssue /\ rIssue'.at = 0 /\ rIssue'.status = "open" /\
          rIssue'.on /\ ~rIssue'.regressed
      BY <2>1 DEF Err!NoIssue
    <2> QED BY <2>2, <1>1 DEF Err!FoldInv
  <1>4. CASE rIssue.on /\ Err!Reopens(rIssue, ts)
    <2>1. DOMAIN rIssue' = DOMAIN Err!NoIssue /\ rIssue'.at = ts /\ rIssue'.status = "open" /\
          rIssue'.on
      BY <1>0, <1>2, <1>4 DEF Err!Folded
    <2> QED BY <2>1, <1>1 DEF Err!FoldInv
  <1>5. CASE rIssue.on /\ ~Err!Reopens(rIssue, ts)
    <2>1. /\ DOMAIN rIssue' = DOMAIN Err!NoIssue /\ rIssue'.at = rIssue.at
          /\ rIssue'.status = rIssue.status /\ rIssue'.on
          /\ rIssue'.regressed => rIssue.regressed
      BY <1>0, <1>2, <1>5 DEF Err!Folded
    <2>2. rIssue.status = "resolved" => ts <= rIssue.at BY <1>5 DEF Err!Reopens
    <2> QED BY <2>1, <2>2, <1>1 DEF Err!FoldInv
  <1> QED BY <1>3, <1>4, <1>5

(* What refreshing an issue from its hours does. *)
LEMMA ErrRefreshedL ==
  ASSUME Err!ClockOK, Err!FoldInv, rIssue' = Err!Refreshed, rFired' = rFired
  PROVE  /\ Err!FoldInv' /\ DOMAIN rIssue' = DOMAIN Err!NoIssue /\ rIssue'.at \in Nat
         /\ rIssue'.status \in {"open", "resolved", "ignored"}
  <1>1. /\ DOMAIN rIssue' = DOMAIN Err!NoIssue /\ rIssue'.at = rIssue.at
        /\ rIssue'.status = rIssue.status
        /\ rIssue'.regressed = rIssue.regressed /\ rIssue'.on = rIssue.on
    BY DEF Err!Refreshed, Err!ClockOK, Err!NoIssue
  <1> QED BY <1>1 DEF Err!FoldInv, Err!ClockOK

(* A request that ends changes nothing else. *)
LEMMA ErrReqL ==
  ASSUME NEW n \in Nat, rReq \in [1..n -> Err!Requests], NEW i \in Err!Traces
  PROVE  /\ [rReq EXCEPT ![i].landed = TRUE] \in [1..n -> Err!Requests]
         /\ \A l \in {"no", "written", "tailed", "skipped"} : [rReq EXCEPT ![i].line = l] \in [1..n -> Err!Requests]
  <1>1. i \in 1..n /\ rReq[i] \in Err!Requests BY DEF Err!Traces
  <1>2. [rReq[i] EXCEPT !.landed = TRUE] \in Err!Requests BY <1>1 DEF Err!Requests
  <1>3. \A l \in {"no", "written", "tailed", "skipped"} : [rReq[i] EXCEPT !.line = l] \in Err!Requests
    BY <1>1 DEF Err!Requests
  <1> QED BY <1>1, <1>2, <1>3

(* Every step keeps the clock and the folds. *)
LEMMA ErrStep0 ==
  ASSUME Err!Bounds, Err!ClockOK, Err!FoldInv, [Err!Next]_errVars
  PROVE  Err!ClockOK' /\ Err!FoldInv'
  <1>0. PICK n \in 0..ErrMaxTraces : rReq \in [1..n -> Err!Requests] BY DEF Err!ClockOK
  <1>a. Err!Traces = 1..n /\ n \in Nat BY <1>0 DEF Err!Traces, Err!Bounds
  <1>b. DOMAIN Err!Idle = {"pc", "hour", "rows", "n"} /\ Err!Idle.rows = {} BY DEF Err!Idle
  <1>1. ASSUME NEW how \in {"span", "log"}, Err!Fails(how) PROVE Err!ClockOK' /\ Err!FoldInv'
    <2>1. Cardinality(Err!Traces) = n BY <1>a, FS_Interval
    <2>2. rReq' \in [1..n + 1 -> Err!Requests]
      <3>1. [ts |-> rNow, how |-> how, landed |-> FALSE, line |-> "no"] \in Err!Requests
        BY DEF Err!Requests, Err!ClockOK
      <3>2. rReq' = [i \in 1..n + 1 |-> IF i \in 1..n THEN rReq[i]
                       ELSE [ts |-> rNow, how |-> how, landed |-> FALSE, line |-> "no"]]
        <4>1. rReq' = [i \in 1..Cardinality(Err!Traces) + 1 |->
                          IF i \in Err!Traces THEN rReq[i]
                          ELSE [ts |-> rNow, how |-> how, landed |-> FALSE, line |-> "no"]]
                            BY <1>1, ErrCardL DEF Err!Fails
        <4> QED BY <4>1, <2>1, <1>a
      <3> QED BY <3>1, <3>2, <1>0
    <2>3. Err!Traces' = 1..n + 1 BY <2>2 DEF Err!Traces
    <2>4. \E k \in 0..ErrMaxTraces : rReq' \in [1..k -> Err!Requests]
      <3>1. Cardinality(Err!Traces) < ErrMaxTraces BY <1>1, ErrCardL DEF Err!Fails
      <3>2. n + 1 \in 0..ErrMaxTraces BY <1>a, <2>1, <3>1 DEF Err!Bounds
      <3> QED BY <2>2, <3>2
    <2>5. UNCHANGED <<rIssue, rPass, rFired, rNow>> BY <1>1 DEF Err!Fails, Err!World
    <2>6. \A t \in Err!Traces : t \in Err!Traces' BY <1>a, <2>3
    <2>7. Err!ClockOK' BY <2>4, <2>5, <2>6 DEF Err!ClockOK
    <2>8. Err!FoldInv' BY <2>5 DEF Err!FoldInv
    <2> QED BY <2>7, <2>8
  <1>2. ASSUME NEW i \in Err!Traces,
               Err!Lands(i) \/ Err!Logged(i) \/ Err!TailLine(i) \/ Err!Evict(i)
        PROVE  Err!ClockOK' /\ Err!FoldInv'
    <2>1. rReq' \in [1..n -> Err!Requests]
      <3>1. CASE Err!Lands(i) BY <1>0, <1>a, <3>1, ErrReqL DEF Err!Lands
      <3>2. CASE Err!Logged(i) BY <1>0, <1>a, <3>2, ErrReqL DEF Err!Logged
      <3>3. CASE Err!TailLine(i) BY <1>0, <1>a, <3>3, ErrReqL DEF Err!TailLine
      <3>4. CASE Err!Evict(i) BY <1>0, <3>4 DEF Err!Evict
      <3> QED BY <1>2, <3>1, <3>2, <3>3, <3>4
    <2>2. Err!Traces' = Err!Traces BY <1>a, <2>1 DEF Err!Traces
    <2>3. UNCHANGED <<rIssue, rPass, rFired, rNow>>
      BY <1>2 DEF Err!Lands, Err!Logged, Err!TailLine, Err!Evict, Err!World
    <2> QED BY <2>1, <2>2, <2>3 DEF Err!ClockOK, Err!FoldInv
  <1>3. CASE Err!BurstSkipped
    <2>1. rReq' \in [1..n -> Err!Requests]
      <3>1. \A i \in 1..n : [rReq[i] EXCEPT !.line = "skipped"] \in Err!Requests
        BY <1>0 DEF Err!Requests
      <3> QED BY <1>0, <1>3, <1>a, <3>1 DEF Err!BurstSkipped
    <2>2. Err!Traces' = Err!Traces BY <1>a, <2>1 DEF Err!Traces
    <2> QED BY <1>3, <2>1, <2>2 DEF Err!ClockOK, Err!FoldInv, Err!BurstSkipped
  <1>4. CASE Err!Restart
    <2>1. Err!Traces' = Err!Traces BY <1>4 DEF Err!Restart, Err!Traces
    <2> QED BY <1>4, <2>1, <1>b DEF Err!Restart, Err!ClockOK, Err!FoldInv
  <1>5. CASE Err!Tick
    <2>1. Err!Traces' = Err!Traces BY <1>5 DEF Err!Tick, Err!Traces
    <2> QED BY <1>5, <2>1 DEF Err!Tick, Err!World, Err!ClockOK, Err!FoldInv
  <1>6. ASSUME NEW h \in Err!Hours, Err!PassReads(h) PROVE Err!ClockOK' /\ Err!FoldInv'
    <2>1. Err!Traces' = Err!Traces BY <1>6 DEF Err!PassReads, Err!Traces
    <2>2. rPass'.rows = Err!Rows(h) /\ DOMAIN rPass' = DOMAIN Err!Idle
      BY <1>6, <1>b DEF Err!PassReads
    <2> QED BY <1>6, <2>1, <2>2, ErrRowsL DEF Err!PassReads, Err!ClockOK, Err!FoldInv
  <1>7. ASSUME NEW row \in rPass.rows, Err!PassRecords(row) PROVE Err!ClockOK' /\ Err!FoldInv'
    <2>1. Err!Traces' = Err!Traces /\ rReq' = rReq /\ rNow' = rNow
      BY <1>7 DEF Err!PassRecords, Err!Traces
    <2>2. rReq[row.trace].ts \in Nat BY <1>0, <1>a DEF Err!ClockOK, Err!Requests
    <2>3. DOMAIN rPass' = DOMAIN Err!Idle /\ rPass'.rows \subseteq rPass.rows
      BY <1>7, <1>b DEF Err!PassRecords, Err!ClockOK
    <2>4. Err!RecordOne(rReq[row.trace].ts, row.trace, "telemetry", row.n, row.trace \in rIndex)
      BY <1>7 DEF Err!PassRecords
    <2> QED BY <2>1, <2>2, <2>3, <2>4, ErrFoldedL DEF Err!ClockOK
  <1>8. CASE Err!PassSetsHour
    <2>1. Err!Traces' = Err!Traces BY <1>8 DEF Err!PassSetsHour, Err!Traces
    <2>2. DOMAIN rPass' = DOMAIN Err!Idle /\ rPass'.rows = rPass.rows
      BY <1>8, <1>b DEF Err!PassSetsHour, Err!ClockOK
    <2> QED BY <1>8, <2>1, <2>2 DEF Err!PassSetsHour, Err!ClockOK, Err!FoldInv
  <1>9. CASE Err!PassRefreshes
    <2>1. Err!Traces' = Err!Traces BY <1>9 DEF Err!PassRefreshes, Err!Traces
    <2> QED BY <1>9, <1>b, <2>1, ErrRefreshedL DEF Err!PassRefreshes, Err!ClockOK
  <1>10. CASE Err!PassFails
    <2>1. Err!Traces' = Err!Traces BY <1>10 DEF Err!PassFails, Err!Traces
    <2> QED BY <1>10, <1>b, <2>1 DEF Err!PassFails, Err!ClockOK, Err!FoldInv
  <1>11. ASSUME NEW ts \in 1..rNow, Err!SdkRecords(ts) PROVE Err!ClockOK' /\ Err!FoldInv'
    <2>1. Err!Traces' = Err!Traces /\ UNCHANGED <<rReq, rPass, rNow>>
      BY <1>11 DEF Err!SdkRecords, Err!Traces
    <2>2. ts \in Nat BY DEF Err!ClockOK
    <2>3. Err!RecordOne(ts, 0, "sdk", 1, TRUE) BY <1>11 DEF Err!SdkRecords
    <2> QED BY <2>1, <2>2, <2>3, ErrFoldedL DEF Err!ClockOK
  <1>12. CASE Err!SdkSetsHour
    <2>1. Err!Traces' = Err!Traces BY <1>12 DEF Err!SdkSetsHour, Err!Traces
    <2> QED BY <1>12, <2>1 DEF Err!SdkSetsHour, Err!ClockOK, Err!FoldInv
  <1>13. CASE Err!SdkAnswers
    <2>1. Err!Traces' = Err!Traces BY <1>13 DEF Err!SdkAnswers, Err!Traces
    <2> QED BY <1>13, <2>1, ErrRefreshedL DEF Err!SdkAnswers, Err!ClockOK
  <1>14. ASSUME NEW s \in {"open", "resolved", "ignored"}, Err!SetStatus(s)
         PROVE  Err!ClockOK' /\ Err!FoldInv'
    <2>1. Err!Traces' = Err!Traces /\ UNCHANGED <<rReq, rPass, rNow>>
      BY <1>14 DEF Err!SetStatus, Err!Traces
    <2>2. /\ rIssue'.status = s /\ ~rIssue'.regressed /\ rIssue'.at = rNow /\ rIssue'.on /\ rFired' = 0
          /\ DOMAIN rIssue' = DOMAIN Err!NoIssue
      BY <1>14 DEF Err!SetStatus, Err!ClockOK, Err!NoIssue
    <2> QED BY <2>1, <2>2 DEF Err!ClockOK, Err!FoldInv
  <1>15. ASSUME NEW cut \in 1..Err!Hour(rNow), Err!Retain(cut)
         PROVE  Err!ClockOK' /\ Err!FoldInv'
    <2>1. Err!Traces' = Err!Traces /\ UNCHANGED <<rReq, rPass, rNow>>
      BY <1>15 DEF Err!Retain, Err!Traces
    <2>2. \/ UNCHANGED <<rIssue, rFired>>
          \/ rIssue' = Err!NoIssue /\ rFired' = 0
      BY <1>15 DEF Err!Retain
    <2>3. Err!NoIssue.status = "open" /\ ~Err!NoIssue.regressed /\ ~Err!NoIssue.on /\ Err!NoIssue.at = 0
      BY DEF Err!NoIssue
    <2> QED BY <2>1, <2>2, <2>3 DEF Err!ClockOK, Err!FoldInv
  <1>16. CASE UNCHANGED errVars
    <2>1. Err!Traces' = Err!Traces BY <1>16 DEF errVars, Err!Traces
    <2> QED BY <1>16, <2>1 DEF errVars, Err!ClockOK, Err!FoldInv
  <1> QED BY <1>1, <1>2, <1>3, <1>4, <1>5, <1>6, <1>7, <1>8, <1>9, <1>10, <1>11, <1>12, <1>13,
             <1>14, <1>15, <1>16 DEF Err!Next

(* A finite set of numbers that is not empty has a greatest one. *)
LEMMA ErrGreatestL ==
  ASSUME NEW V \in SUBSET Nat, IsFiniteSet(V), V # {}
  PROVE  \E m \in V : \A w \in V : m >= w
  <1> DEFINE R == {p \in V \X V : p[1] < p[2]}
  <1>1. \A i, j \in V : <<i, j>> \in R <=> i < j OBVIOUS
  <1> HIDE DEF R
  <1>2. \A i \in V : <<i, i>> \notin R BY <1>1
  <1>3. \A i, j, k \in V : <<i, j>> \in R /\ <<j, k>> \in R => <<i, k>> \in R BY <1>1
  <1>4. \A T \in SUBSET V : T # {} => \E m \in T : \A w \in T : <<m, w>> \notin R
    BY <1>2, <1>3, Maximal
  <1>5. PICK m \in V : \A w \in V : <<m, w>> \notin R BY <1>4
  <1>6. \A w \in V : ~(m < w) BY <1>1, <1>5
  <1>7. m \in Nat /\ \A w \in V : w \in Nat OBVIOUS
  <1>8. \A w \in V : m >= w BY <1>6, <1>7
  <1> QED BY <1>8

(* Max of such a set is its greatest number. *)
LEMMA ErrMaxL ==
  ASSUME NEW S \in SUBSET Nat, IsFiniteSet(S)
  PROVE  Err!Max(S \cup {0}) \in Nat
  <1> DEFINE V == S \cup {0}
  <1>1. IsFiniteSet(V) BY FS_AddElement
  <1>2. V \in SUBSET Nat /\ V # {} OBVIOUS
  <1> HIDE DEF V
  <1>3. PICK m \in V : \A w \in V : m >= w BY <1>1, <1>2, ErrGreatestL
  <1>4. Err!Max(V) \in V BY <1>3 DEF Err!Max
  <1> QED BY <1>2, <1>4 DEF V

(* The oldest row of a finite set is one of its rows. *)
LEMMA ErrOldestL ==
  ASSUME NEW es \in SUBSET Err!Occurrences, es # {}
  PROVE  Err!Oldest(es) \in es
  <1> DEFINE T == {e.ts : e \in es}
  <1>1. T \in SUBSET Nat /\ T # {} BY DEF Err!Occurrences
  <1>2. PICK u \in T : \A w \in T : u <= w BY <1>1, NatMin
  <1> DEFINE I == {e.id : e \in {d \in es : d.ts = u}}
  <1>3. I \in SUBSET Nat /\ I # {} BY DEF Err!Occurrences
  <1>4. PICK v \in I : \A w \in I : v <= w BY <1>3, NatMin
  <1>5. PICK e \in es : e.ts = u /\ e.id = v OBVIOUS
  <1>6. ASSUME NEW d \in es PROVE e.ts < d.ts \/ (e.ts = d.ts /\ e.id <= d.id)
    <2>1. u \in Nat /\ d.ts \in Nat /\ u <= d.ts BY <1>1, <1>2
    <2>2. d.ts = u => v <= d.id BY <1>4
    <2> QED BY <1>5, <2>1, <2>2
  <1> QED BY <1>5, <1>6 DEF Err!Oldest

(* What a trim keeps: no more rows than the limit, all of them the old ones or the new one. *)
LEMMA ErrNewestL ==
  ASSUME Err!Bounds, NEW es \in SUBSET Err!Occurrences, IsFiniteSet(es), Cardinality(es) <= ErrKeep,
         NEW e \in Err!Occurrences
  PROVE  LET new == Err!Newest(es \cup {e})
         IN  new \subseteq es \cup {e} /\ IsFiniteSet(new) /\ Cardinality(new) <= ErrKeep
  <1> DEFINE all == es \cup {e}
  <1>1. IsFiniteSet(all) /\ Cardinality(all) \in Nat /\ Cardinality(es) \in Nat
        /\ Cardinality(all) <= Cardinality(es) + 1
    <2>1. IsFiniteSet(all) BY FS_AddElement
    <2>2. Cardinality(all) = (IF e \in es THEN Cardinality(es) ELSE Cardinality(es) + 1)
      BY FS_AddElement
    <2> QED BY <2>1, <2>2, FS_CardinalityType
  <1>2. CASE Cardinality(all) <= ErrKeep
    <2>1. Err!Newest(all) = all BY <1>2, ErrCardL DEF Err!Newest
    <2> QED BY <1>1, <1>2, <2>1
  <1>3. CASE ~(Cardinality(all) <= ErrKeep)
    <2>1. Err!Newest(all) = all \ {Err!Oldest(all)} BY <1>3, ErrCardL DEF Err!Newest
    <2>2. Err!Oldest(all) \in all BY ErrOldestL
    <2>3. PICK o \in all : o = Err!Oldest(all) BY <2>2
    <2> HIDE DEF all
    <2>4. IsFiniteSet(all \ {o}) /\ Cardinality(all \ {o}) = Cardinality(all) - 1
      BY <1>1, <2>3, FS_RemoveElement
    <2>5. Cardinality(all) - 1 <= ErrKeep BY <1>1 DEF Err!Bounds
    <2>6. Err!Newest(all) \subseteq all /\ IsFiniteSet(Err!Newest(all)) /\
          Cardinality(Err!Newest(all)) <= ErrKeep
      BY <2>1, <2>3, <2>4, <2>5
    <2> QED BY <2>6 DEF all
  <1> QED BY <1>2, <1>3

(* The fields of a stored occurrence. *)
LEMMA ErrRecordL ==
  ASSUME Err!Bounds, Err!TypeOK, NEW ts \in Nat, NEW tr \in Nat, NEW from \in {"telemetry", "sdk"}, NEW n,
         NEW req \in BOOLEAN, Err!RecordOne(ts, tr, from, n, req)
  PROVE  /\ rEvents' \subseteq Err!Occurrences /\ Err!Kept'
         /\ \A e \in rEvents' : e \in rEvents \/ (e.trace = tr /\ e.from = from /\ e.req = req)
  <1>0. rEvents \subseteq Err!Occurrences /\ IsFiniteSet(rEvents) /\ Cardinality(rEvents) <= ErrKeep
    BY ErrCardL, ErrFinL DEF Err!TypeOK, Err!RowsOK, Err!Kept
  <1>1. CASE Err!Stored(ts, tr)
    <2>1. rEvents' = rEvents BY <1>1 DEF Err!RecordOne
    <2> QED BY <1>0, <2>1, ErrCardL, ErrFinL DEF Err!Kept
  <1>2. CASE ~Err!Stored(ts, tr)
    <2> DEFINE e == [id |-> Err!NextId, ts |-> ts, trace |-> tr, from |-> from, req |-> req]
    <2>1. Err!NextId \in Nat
      <3>1. {d.id : d \in rEvents} \in SUBSET Nat BY <1>0 DEF Err!Occurrences
      <3>2. IsFiniteSet({d.id : d \in rEvents})
        <4> DEFINE f == [d \in rEvents |-> d.id]
                   D == {d.id : d \in rEvents}
        <4>1. f \in Surjection(rEvents, D) BY DEF Surjection
        <4> QED BY <1>0, <4>1, FS_Surjection
      <3>3. Err!Max({d.id : d \in rEvents} \cup {0}) \in Nat BY <3>1, <3>2, ErrMaxL
      <3> QED BY <3>3 DEF Err!NextId
    <2>2. e \in Err!Occurrences BY <2>1 DEF Err!Occurrences
    <2>3. rEvents' = Err!Newest(rEvents \cup {e}) BY <1>2 DEF Err!RecordOne
    <2>4. e.trace = tr /\ e.from = from /\ e.req = req OBVIOUS
    <2> HIDE DEF e
    <2>5. rEvents' \subseteq rEvents \cup {e} /\ IsFiniteSet(rEvents') /\
          Cardinality(rEvents') <= ErrKeep
      BY <1>0, <2>2, <2>3, ErrNewestL
    <2> QED BY <1>0, <2>2, <2>4, <2>5, ErrCardL, ErrFinL DEF Err!Kept
  <1> QED BY <1>1, <1>2

(* The rows hold their invariant at first. *)
LEMMA ErrInitL == ASSUME Err!Bounds, Err!Init PROVE Err!TypeOK /\ Err!FoldInv /\ Err!JoinInv
  <1>1. Err!RowsOK BY DEF Err!Init, Err!RowsOK, Err!Idle
  <1>2. Err!Kept
    <2>1. IsFiniteSet({}) /\ Cardinality({}) = 0 BY FS_EmptySet
    <2>2. rEvents = {} BY DEF Err!Init
    <2> QED BY <2>1, <2>2, ErrCardL, ErrFinL DEF Err!Kept, Err!Bounds
  <1>3. Err!JoinInv BY DEF Err!Init, Err!JoinInv, Err!Traces
  <1> QED BY <1>1, <1>2, <1>3, ErrInit0 DEF Err!TypeOK

(* What reads only the rows stays when they do. *)
LEMMA ErrSameRows ==
  ASSUME Err!Bounds, Err!TypeOK, Err!JoinInv, Err!Traces' = Err!Traces, \A i \in Err!Traces : rReq'[i].line = rReq[i].line,
         rEvents' \subseteq rEvents, UNCHANGED <<rIndex, rPend, rLost>>,
         rPass'.pc \in {"idle", "record", "refresh"},
         DOMAIN rSdk' = DOMAIN Err!Idle, rSdk'.pc \in {"idle", "hour", "refresh"}
  PROVE  Err!RowsOK' /\ Err!Kept' /\ Err!JoinInv'
  <1>1. Err!RowsOK' BY DEF Err!TypeOK, Err!RowsOK
  <1>2. Err!Kept'
    <2>1. IsFiniteSet(rEvents) /\ Cardinality(rEvents) <= ErrKeep
      BY ErrCardL, ErrFinL DEF Err!TypeOK, Err!Kept
    <2>2. IsFiniteSet(rEvents') /\ Cardinality(rEvents') <= Cardinality(rEvents)
      BY <2>1, FS_Subset
    <2>3. Cardinality(rEvents') \in Nat /\ Cardinality(rEvents) \in Nat
      BY <2>1, <2>2, FS_CardinalityType
    <2>4. Cardinality(rEvents') <= ErrKeep BY <2>1, <2>2, <2>3 DEF Err!Bounds
    <2> QED BY <2>2, <2>4, ErrCardL, ErrFinL DEF Err!Kept
  <1>3. Err!JoinInv'
    <2>1. \A i \in Err!Traces' : rReq'[i].line = "tailed" /\ i \notin rLost' => i \in rIndex'
      BY DEF Err!JoinInv
    <2>2. ASSUME NEW e \in rEvents', e.from = "telemetry", ~e.req, e.trace \notin rLost'
          PROVE  e.trace \in rPend' /\ rReq'[e.trace].line # "tailed"
      <3>1. e.trace \in Err!Traces BY <2>2 DEF Err!TypeOK, Err!RowsOK
      <3> QED BY <2>2, <3>1 DEF Err!JoinInv
    <2> QED BY <2>1, <2>2 DEF Err!JoinInv
  <1> QED BY <1>1, <1>2, <1>3

(* What storing an occurrence does to the rows. *)
LEMMA ErrStoredL ==
  ASSUME Err!Bounds, Err!TypeOK, Err!JoinInv, NEW ts \in Nat, NEW tr \in Nat, NEW from \in {"telemetry", "sdk"}, NEW n,
         NEW req \in BOOLEAN, Err!RecordOne(ts, tr, from, n, req), UNCHANGED <<rReq, rIndex, rLost>>,
         from = "telemetry" => tr \in Err!Traces /\ (req <=> tr \in rIndex)
                               /\ rPend' = (IF req THEN rPend ELSE rPend \cup {tr}),
         from = "sdk" => rPend' = rPend,
         rPass'.pc \in {"idle", "record", "refresh"},
         DOMAIN rSdk' = DOMAIN Err!Idle, rSdk'.pc \in {"idle", "hour", "refresh"}
  PROVE  Err!RowsOK' /\ Err!Kept' /\ Err!JoinInv'
  <1>0. /\ rEvents' \subseteq Err!Occurrences /\ Err!Kept'
        /\ \A e \in rEvents' : e \in rEvents \/ (e.trace = tr /\ e.from = from /\ e.req = req)
    BY ErrRecordL
  <1>1. Err!Traces' = Err!Traces BY DEF Err!Traces
  <1>2. rPend' \subseteq Err!Traces /\ rPend \subseteq rPend' BY DEF Err!TypeOK, Err!RowsOK
  <1>3. Err!RowsOK'
    <2>1. ASSUME NEW e \in rEvents', e.from = "telemetry" PROVE e.trace \in Err!Traces'
      BY <1>0, <1>1, <2>1 DEF Err!TypeOK, Err!RowsOK
    <2> QED BY <1>0, <1>1, <1>2, <2>1 DEF Err!TypeOK, Err!RowsOK
  <1>4. Err!JoinInv'
    <2>1. \A i \in Err!Traces' : rReq'[i].line = "tailed" /\ i \notin rLost' => i \in rIndex'
      BY <1>1 DEF Err!JoinInv
    <2>2. ASSUME NEW e \in rEvents', e.from = "telemetry", ~e.req, e.trace \notin rLost'
          PROVE  e.trace \in rPend' /\ rReq'[e.trace].line # "tailed"
      <3>1. CASE e \in rEvents BY <1>2, <2>2, <3>1 DEF Err!JoinInv
      <3>2. CASE e.trace = tr /\ e.from = from /\ e.req = req
        <4>1. tr \notin rIndex /\ tr \in rPend' /\ tr \in Err!Traces BY <2>2, <3>2
        <4> QED BY <2>2, <3>2, <4>1 DEF Err!JoinInv
      <3> QED BY <1>0, <3>1, <3>2
    <2> QED BY <2>1, <2>2 DEF Err!JoinInv
  <1> QED BY <1>0, <1>3, <1>4

(* What backfilling the traces does to the rows. *)
LEMMA ErrBackfilledL ==
  ASSUME Err!TypeOK, NEW i
  PROVE  /\ Err!Backfilled(i) \subseteq Err!Occurrences
         /\ IsFiniteSet(Err!Backfilled(i)) /\ Cardinality(Err!Backfilled(i)) <= Cardinality(rEvents)
         /\ \A e \in Err!Backfilled(i) : \E d \in rEvents :
               /\ e.trace = d.trace /\ e.from = d.from
               /\ e = d \/ e.req
               /\ d.trace = i /\ d.from = "telemetry" => e.req
  <1>0. rEvents \subseteq Err!Occurrences /\ IsFiniteSet(rEvents)
    BY ErrCardL, ErrFinL DEF Err!TypeOK, Err!RowsOK, Err!Kept
  <1> DEFINE g(e) == IF e.trace = i /\ e.from = "telemetry" THEN [e EXCEPT !.req = TRUE] ELSE e
             f == [e \in rEvents |-> g(e)]
  <1>1. Err!Backfilled(i) = {g(e) : e \in rEvents} BY DEF Err!Backfilled
  <1>2. ASSUME NEW d \in rEvents
        PROVE  /\ g(d) \in Err!Occurrences /\ g(d).trace = d.trace /\ g(d).from = d.from
               /\ g(d) = d \/ g(d).req
               /\ d.trace = i /\ d.from = "telemetry" => g(d).req
    <2>1. d \in Err!Occurrences BY <1>0
    <2>2. CASE d.trace = i /\ d.from = "telemetry"
      <3>1. g(d) = [d EXCEPT !.req = TRUE] BY <2>2
      <3>2. g(d) \in Err!Occurrences /\ g(d).trace = d.trace /\ g(d).from = d.from /\ g(d).req = TRUE
        BY <2>1, <3>1 DEF Err!Occurrences
      <3> QED BY <3>2
    <2>3. CASE ~(d.trace = i /\ d.from = "telemetry")
      <3>1. g(d) = d BY <2>3
      <3> QED BY <2>1, <2>3, <3>1
    <2> QED BY <2>2, <2>3
  <1>3. IsFiniteSet(Err!Backfilled(i)) /\ Cardinality(Err!Backfilled(i)) <= Cardinality(rEvents)
    <2>1. f \in Surjection(rEvents, Err!Backfilled(i)) BY <1>1 DEF Surjection
    <2> QED BY <1>0, <2>1, FS_Surjection
  <1> HIDE DEF g
  <1> QED BY <1>1, <1>2, <1>3

(* What a line of the log does to the rows and the join. *)
LEMMA ErrTailLineL ==
  ASSUME Err!Bounds, Err!TypeOK, Err!JoinInv, NEW i \in Err!Traces, Err!TailLine(i)
  PROVE  Err!RowsOK' /\ Err!Kept' /\ Err!JoinInv'
  <1>0. PICK n \in 0..ErrMaxTraces : rReq \in [1..n -> Err!Requests]
    BY DEF Err!TypeOK, Err!ClockOK
  <1>1. /\ Err!Traces = 1..n /\ Err!Traces' = Err!Traces /\ rReq'[i].line = "tailed"
        /\ \A j \in Err!Traces \ {i} : rReq'[j] = rReq[j]
    <2>1. Err!Traces = 1..n BY <1>0 DEF Err!Traces
    <2>2. rReq' = [rReq EXCEPT ![i].line = "tailed"] BY DEF Err!TailLine
    <2>3. rReq[i] \in Err!Requests BY <1>0, <2>1
    <2>4. rReq'[i].line = "tailed" BY <1>0, <2>1, <2>2, <2>3 DEF Err!Requests
    <2> QED BY <1>0, <2>1, <2>2, <2>4 DEF Err!Traces
  <1>2. /\ rPend' = rPend \ {i} /\ rIndex' = rIndex \cup {i} /\ UNCHANGED <<rPass, rSdk, rLost>>
        /\ rEvents' = IF i \in rPend THEN Err!Backfilled(i) ELSE rEvents
    BY DEF Err!TailLine
  <1>3. rEvents' \subseteq Err!Occurrences /\ Err!Kept'
    <2>1. IsFiniteSet(rEvents) /\ Cardinality(rEvents) <= ErrKeep /\ rEvents \subseteq Err!Occurrences
      BY ErrCardL, ErrFinL DEF Err!TypeOK, Err!RowsOK, Err!Kept
    <2>2. /\ rEvents' \subseteq Err!Occurrences /\ IsFiniteSet(rEvents')
          /\ Cardinality(rEvents') <= Cardinality(rEvents)
      <3>0. Cardinality(rEvents) \in Nat BY <2>1, FS_CardinalityType
      <3>1. CASE i \in rPend BY <1>2, <3>1, ErrBackfilledL
      <3>2. CASE i \notin rPend BY <1>2, <2>1, <3>0, <3>2
      <3> QED BY <3>1, <3>2
    <2>3. Cardinality(rEvents') \in Nat /\ Cardinality(rEvents) \in Nat
      BY <2>1, <2>2, FS_CardinalityType
    <2>4. Cardinality(rEvents') <= ErrKeep BY <2>1, <2>2, <2>3 DEF Err!Bounds
    <2> QED BY <2>2, <2>4, ErrCardL, ErrFinL DEF Err!Kept
  <1>4. ASSUME NEW e \in rEvents'
        PROVE  \E d \in rEvents : /\ e.trace = d.trace /\ e.from = d.from
                                  /\ e = d \/ e.req
                                  /\ i \in rPend /\ d.trace = i /\ d.from = "telemetry" => e.req
    <2>1. CASE i \in rPend
      <3>1. e \in Err!Backfilled(i) BY <1>2, <2>1
      <3> QED BY <2>1, <3>1, ErrBackfilledL
    <2>2. CASE i \notin rPend BY <1>2, <2>2
    <2> QED BY <2>1, <2>2
  <1>5. ASSUME NEW e \in rEvents', e.from = "telemetry" PROVE e.trace \in Err!Traces'
    BY <1>1, <1>4, <1>5 DEF Err!TypeOK, Err!RowsOK
  <1>6. Err!RowsOK' BY <1>1, <1>2, <1>3, <1>5 DEF Err!TypeOK, Err!RowsOK
  <1>7. Err!JoinInv'
    <2>1. ASSUME NEW j \in Err!Traces', rReq'[j].line = "tailed", j \notin rLost'
          PROVE  j \in rIndex'
      BY <1>1, <1>2, <2>1 DEF Err!JoinInv
    <2>2. ASSUME NEW e \in rEvents', e.from = "telemetry", ~e.req, e.trace \notin rLost'
          PROVE  e.trace \in rPend' /\ rReq'[e.trace].line # "tailed"
      <3>1. e \in rEvents /\ ~(i \in rPend /\ e.trace = i) BY <1>4, <2>2
      <3>2. e.trace \in rPend /\ rReq[e.trace].line # "tailed"
        BY <1>2, <2>2, <3>1 DEF Err!JoinInv
      <3>3. e.trace # i /\ e.trace \in Err!Traces BY <3>1, <3>2 DEF Err!TypeOK, Err!RowsOK
      <3> QED BY <1>1, <1>2, <3>2, <3>3
    <2> QED BY <2>1, <2>2 DEF Err!JoinInv
  <1> QED BY <1>3, <1>6, <1>7

(* Every step keeps the rows and the join. *)
LEMMA ErrStepL ==
  ASSUME Err!Bounds, Err!TypeOK, Err!FoldInv, Err!JoinInv, [Err!Next]_errVars
  PROVE  Err!TypeOK' /\ Err!FoldInv' /\ Err!JoinInv'
  <1> DEFINE Rest == Err!RowsOK' /\ Err!Kept' /\ Err!JoinInv'
  <1>0. Err!ClockOK' /\ Err!FoldInv' BY ErrStep0 DEF Err!TypeOK
  <1> SUFFICES Rest BY <1>0 DEF Err!TypeOK
  <1>n. PICK n \in 0..ErrMaxTraces : rReq \in [1..n -> Err!Requests]
    BY DEF Err!TypeOK, Err!ClockOK
  <1>a. Err!Traces = 1..n /\ n \in Nat BY <1>n DEF Err!Traces, Err!Bounds
  <1>p. /\ rPass.pc \in {"idle", "record", "refresh"} /\ DOMAIN rPass = DOMAIN Err!Idle
        /\ DOMAIN rSdk = DOMAIN Err!Idle /\ rSdk.pc \in {"idle", "hour", "refresh"}
    BY DEF Err!TypeOK, Err!ClockOK, Err!RowsOK
  <1>d. DOMAIN Err!Idle = {"pc", "hour", "rows", "n"} /\ Err!Idle.pc = "idle" BY DEF Err!Idle
  <1>1. ASSUME NEW how \in {"span", "log"}, Err!Fails(how) PROVE Rest
    <2>1. UNCHANGED <<rIndex, rPend, rEvents, rPass, rSdk, rLost>>
      BY <1>1 DEF Err!Fails, Err!World
    <2>2. Cardinality(Err!Traces) = n BY <1>a, FS_Interval
    <2>3. /\ Err!Traces' = 1..n + 1
          /\ \A i \in 1..n : rReq'[i] = rReq[i]
          /\ rReq'[n + 1].line = "no"
      <3>1. rReq' = [i \in 1..n + 1 |-> IF i \in 1..n THEN rReq[i]
                       ELSE [ts |-> rNow, how |-> how, landed |-> FALSE, line |-> "no"]]
        <4>1. rReq' = [i \in 1..Cardinality(Err!Traces) + 1 |->
                          IF i \in Err!Traces THEN rReq[i]
                          ELSE [ts |-> rNow, how |-> how, landed |-> FALSE, line |-> "no"]]
                            BY <1>1, ErrCardL DEF Err!Fails
        <4> QED BY <4>1, <2>2, <1>a
      <3>2. n + 1 \in 1..n + 1 /\ n + 1 \notin 1..n /\ \A i \in 1..n : i \in 1..n + 1 BY <1>a
      <3> QED BY <3>1, <3>2 DEF Err!Traces
    <2>4. \A i \in Err!Traces' : i \in Err!Traces \/ i = n + 1 BY <1>a, <2>3
    <2>5. Err!Traces \subseteq Err!Traces' BY <1>a, <2>3
    <2>6. Err!RowsOK' BY <2>1, <2>5 DEF Err!TypeOK, Err!RowsOK
    <2>7. Err!Kept' BY <2>1, ErrCardL, ErrFinL DEF Err!TypeOK, Err!Kept
    <2>8. Err!JoinInv'
      <3>1. ASSUME NEW i \in Err!Traces', rReq'[i].line = "tailed", i \notin rLost'
            PROVE  i \in rIndex'
        BY <1>a, <2>1, <2>3, <2>4, <3>1 DEF Err!JoinInv
      <3>2. ASSUME NEW e \in rEvents', e.from = "telemetry", ~e.req, e.trace \notin rLost'
            PROVE  e.trace \in rPend' /\ rReq'[e.trace].line # "tailed"
        BY <1>a, <2>1, <2>3, <3>2 DEF Err!JoinInv, Err!TypeOK, Err!RowsOK
      <3> QED BY <3>1, <3>2 DEF Err!JoinInv
    <2> QED BY <2>6, <2>7, <2>8
  <1>2. ASSUME NEW i \in Err!Traces, Err!Lands(i) \/ Err!Logged(i) PROVE Rest
    <2>1. UNCHANGED <<rIndex, rPend, rEvents, rPass, rSdk, rLost>>
      BY <1>2 DEF Err!Lands, Err!Logged, Err!World
    <2>2. i \in 1..n /\ rReq[i] \in Err!Requests BY <1>n, <1>a
    <2>3. CASE Err!Lands(i)
      <3>1. rReq' = [rReq EXCEPT ![i].landed = TRUE] BY <2>3 DEF Err!Lands
      <3>2. Err!Traces' = Err!Traces /\ \A j \in Err!Traces : rReq'[j].line = rReq[j].line
        BY <1>n, <1>a, <2>2, <3>1 DEF Err!Traces, Err!Requests
      <3> QED BY <1>p, <2>1, <3>2, ErrSameRows
    <2>4. CASE Err!Logged(i)
      <3>1. rReq' = [rReq EXCEPT ![i].line = "written"] /\ rReq[i].line = "no"
        BY <2>4 DEF Err!Logged
      <3>2. Err!Traces' = Err!Traces BY <1>n, <3>1 DEF Err!Traces
      <3>3. \A j \in Err!Traces : rReq'[j].line = "tailed" <=> rReq[j].line = "tailed"
        BY <1>n, <1>a, <2>2, <3>1 DEF Err!Requests
      <3>4. Err!RowsOK' /\ Err!Kept'
        BY <2>1, <3>2, ErrCardL, ErrFinL DEF Err!TypeOK, Err!RowsOK, Err!Kept
      <3>5. Err!JoinInv'
        <4>1. \A j \in Err!Traces' : rReq'[j].line = "tailed" /\ j \notin rLost' => j \in rIndex'
          BY <2>1, <3>2, <3>3 DEF Err!JoinInv
        <4>2. ASSUME NEW e \in rEvents', e.from = "telemetry", ~e.req, e.trace \notin rLost'
              PROVE  e.trace \in rPend' /\ rReq'[e.trace].line # "tailed"
          BY <2>1, <3>3, <4>2 DEF Err!JoinInv, Err!TypeOK, Err!RowsOK
        <4> QED BY <4>1, <4>2 DEF Err!JoinInv
      <3> QED BY <3>4, <3>5
    <2> QED BY <1>2, <2>3, <2>4
  <1>3. ASSUME NEW i \in Err!Traces, Err!TailLine(i) PROVE Rest BY <1>3, ErrTailLineL
  <1>4. ASSUME NEW i \in Err!Traces, Err!Evict(i) PROVE Rest
    <2>1. /\ rIndex' = rIndex \ {i} /\ rPend' = rPend \ {i} /\ rLost' = rLost \cup {i}
          /\ UNCHANGED <<rReq, rEvents, rPass, rSdk>>
      BY <1>4 DEF Err!Evict
    <2>2. Err!Traces' = Err!Traces BY <2>1 DEF Err!Traces
    <2>3. Err!RowsOK' /\ Err!Kept'
      BY <2>1, <2>2, ErrCardL, ErrFinL DEF Err!TypeOK, Err!RowsOK, Err!Kept
    <2>4. Err!JoinInv' BY <2>1, <2>2 DEF Err!JoinInv
    <2> QED BY <2>3, <2>4
  <1>5. CASE Err!BurstSkipped
    <2>1. UNCHANGED <<rIndex, rPend, rEvents, rPass, rSdk, rLost>> BY <1>5 DEF Err!BurstSkipped
    <2>2. rReq' = [i \in Err!Traces |-> IF rReq[i].line = "written" THEN [rReq[i] EXCEPT !.line = "skipped"] ELSE rReq[i]]
      BY <1>5 DEF Err!BurstSkipped
    <2>3. Err!Traces' = Err!Traces BY <2>2 DEF Err!Traces
    <2>4. \A j \in Err!Traces : rReq'[j].line = "tailed" <=> rReq[j].line = "tailed"
      BY <1>n, <1>a, <2>2 DEF Err!Requests
    <2>5. Err!RowsOK' /\ Err!Kept'
      BY <2>1, <2>3, ErrCardL, ErrFinL DEF Err!TypeOK, Err!RowsOK, Err!Kept
    <2>6. Err!JoinInv'
      <3>1. \A j \in Err!Traces' : rReq'[j].line = "tailed" /\ j \notin rLost' => j \in rIndex'
        BY <2>1, <2>3, <2>4 DEF Err!JoinInv
      <3>2. ASSUME NEW e \in rEvents', e.from = "telemetry", ~e.req, e.trace \notin rLost'
            PROVE  e.trace \in rPend' /\ rReq'[e.trace].line # "tailed"
        BY <2>1, <2>4, <3>2 DEF Err!JoinInv, Err!TypeOK, Err!RowsOK
      <3> QED BY <3>1, <3>2 DEF Err!JoinInv
    <2> QED BY <2>5, <2>6
  <1>6. CASE Err!Restart
    <2>1. /\ rIndex' = {} /\ rPend' = {} /\ rLost' = Err!Traces /\ rPass' = Err!Idle /\ rSdk' = Err!Idle
          /\ UNCHANGED <<rReq, rEvents>>
      BY <1>6 DEF Err!Restart
    <2>2. Err!Traces' = Err!Traces BY <2>1 DEF Err!Traces
    <2>3. Err!RowsOK' /\ Err!Kept'
      BY <1>d, <2>1, <2>2, ErrCardL, ErrFinL DEF Err!TypeOK, Err!RowsOK, Err!Kept
    <2>4. Err!JoinInv'
      <3>1. \A e \in rEvents' : e.from = "telemetry" => e.trace \in rLost'
        BY <2>1 DEF Err!TypeOK, Err!RowsOK
      <3> QED BY <2>1, <2>2, <3>1 DEF Err!JoinInv
    <2> QED BY <2>3, <2>4
  <1>7. CASE Err!Tick
    <2>1. UNCHANGED <<rReq, rIndex, rPend, rEvents, rPass, rSdk, rLost>>
      BY <1>7 DEF Err!Tick, Err!World
    <2> QED BY <1>p, <2>1, ErrSameRows DEF Err!Traces
  <1>8. ASSUME NEW h \in Err!Hours, Err!PassReads(h) PROVE Rest
    <2>1. UNCHANGED <<rReq, rIndex, rPend, rEvents, rSdk, rLost>> /\ rPass'.pc = "record"
      BY <1>8 DEF Err!PassReads
    <2> QED BY <1>p, <2>1, ErrSameRows DEF Err!Traces
  <1>9. ASSUME NEW row \in rPass.rows, Err!PassRecords(row) PROVE Rest
    <2>1. /\ Err!RecordOne(rReq[row.trace].ts, row.trace, "telemetry", row.n, row.trace \in rIndex)
          /\ rPend' = IF row.trace \in rIndex THEN rPend ELSE rPend \cup {row.trace}
          /\ UNCHANGED <<rReq, rIndex, rSdk, rLost>>
      BY <1>9 DEF Err!PassRecords
    <2>2. rPass'.pc = rPass.pc BY <1>9, <1>p, <1>d DEF Err!PassRecords
    <2>3. row.trace \in Err!Traces BY DEF Err!TypeOK, Err!ClockOK
    <2>4. row.trace \in Nat /\ rReq[row.trace].ts \in Nat BY <1>n, <1>a, <2>3 DEF Err!Requests
    <2>5. PICK req \in BOOLEAN : req = (row.trace \in rIndex)
      <3>1. (row.trace \in rIndex) \in BOOLEAN OBVIOUS
      <3> QED BY <3>1, Zenon
    <2>6. Err!RecordOne(rReq[row.trace].ts, row.trace, "telemetry", row.n, req) BY <2>1, <2>5
    <2>7. rPend' = (IF req THEN rPend ELSE rPend \cup {row.trace}) BY <2>1, <2>5
    <2> QED BY <1>p, <2>1, <2>2, <2>3, <2>4, <2>5, <2>6, <2>7, ErrStoredL
  <1>10. CASE Err!PassSetsHour
    <2>1. UNCHANGED <<rReq, rIndex, rPend, rEvents, rSdk, rLost>> BY <1>10 DEF Err!PassSetsHour
    <2>2. rPass'.pc = "refresh" BY <1>10, <1>p, <1>d DEF Err!PassSetsHour
    <2> QED BY <1>p, <2>1, <2>2, ErrSameRows DEF Err!Traces
  <1>11. CASE Err!PassRefreshes \/ Err!PassFails
    <2>1. UNCHANGED <<rReq, rIndex, rPend, rEvents, rSdk, rLost>> /\ rPass' = Err!Idle
      BY <1>11 DEF Err!PassRefreshes, Err!PassFails
    <2> QED BY <1>p, <1>d, <2>1, ErrSameRows DEF Err!Traces
  <1>12. ASSUME NEW ts \in 1..rNow, Err!SdkRecords(ts) PROVE Rest
    <2>1. /\ Err!RecordOne(ts, 0, "sdk", 1, TRUE) /\ rSdk'.pc = "hour" /\ DOMAIN rSdk' = DOMAIN Err!Idle
          /\ UNCHANGED <<rReq, rIndex, rPend, rPass, rLost>>
      BY <1>12, <1>d DEF Err!SdkRecords
    <2>2. ts \in Nat /\ 0 \in Nat BY DEF Err!TypeOK, Err!ClockOK
    <2> QED BY <1>p, <2>1, <2>2, ErrStoredL
  <1>13. CASE Err!SdkSetsHour
    <2>1. UNCHANGED <<rReq, rIndex, rPend, rEvents, rPass, rLost>> BY <1>13 DEF Err!SdkSetsHour
    <2>2. rSdk'.pc = "refresh" /\ DOMAIN rSdk' = DOMAIN Err!Idle
      BY <1>13, <1>p, <1>d DEF Err!SdkSetsHour
    <2> QED BY <1>p, <2>1, <2>2, ErrSameRows DEF Err!Traces
  <1>14. CASE Err!SdkAnswers
    <2>1. UNCHANGED <<rReq, rIndex, rPend, rEvents, rPass, rLost>> /\ rSdk' = Err!Idle
      BY <1>14 DEF Err!SdkAnswers
    <2> QED BY <1>p, <1>d, <2>1, ErrSameRows DEF Err!Traces
  <1>15. ASSUME NEW s \in {"open", "resolved", "ignored"}, Err!SetStatus(s) PROVE Rest
    <2>1. UNCHANGED <<rReq, rIndex, rPend, rEvents, rPass, rSdk, rLost>>
      BY <1>15 DEF Err!SetStatus
    <2> QED BY <1>p, <2>1, ErrSameRows DEF Err!Traces
  <1>16. ASSUME NEW cut \in 1..Err!Hour(rNow), Err!Retain(cut) PROVE Rest
    <2>1. UNCHANGED <<rReq, rIndex, rPend, rPass, rSdk, rLost>> /\ rEvents' \subseteq rEvents
      BY <1>16 DEF Err!Retain
    <2> QED BY <1>p, <2>1, ErrSameRows DEF Err!Traces
  <1>17. CASE UNCHANGED errVars
    <2>1. UNCHANGED <<rReq, rIndex, rPend, rEvents, rPass, rSdk, rLost>> BY <1>17 DEF errVars
    <2> QED BY <1>p, <2>1, ErrSameRows DEF Err!Traces
  <1> HIDE DEF Rest
  <1> QED BY <1>1, <1>2, <1>3, <1>4, <1>5, <1>6, <1>7, <1>8, <1>9, <1>10, <1>11, <1>12, <1>13,
             <1>14, <1>15, <1>16, <1>17
          DEF Err!Next

(* The invariant makes the requests of an issue the ones its traces name. *)
LEMMA ErrJoinL == Err!TypeOK /\ Err!JoinInv => Err!RequestsJoin
  BY DEF Err!TypeOK, Err!RowsOK, Err!Occurrences, Err!JoinInv, Err!RequestsJoin

(* The invariant makes resolved issues quiet. *)
LEMMA ErrQuietL == Err!FoldInv => Err!ResolvedMeansQuiet
  BY DEF Err!FoldInv, Err!ResolvedMeansQuiet

(* A step of the platform is a step of error tracking or leaves it alone. *)
LEMMA ErrNext == [Next]_allVars => [Err!Next]_errVars
  BY DEF Next, allVars, EnvStep, TelStep, SbxStep, CgStep, ErrStep, DomStep, InstStep,
         NoteStep, RenStep, EvStep, LogStep

(* The inductive invariant of error tracking. *)
LEMMA ErrInductive == Spec => [](Err!TypeOK /\ Err!FoldInv /\ Err!JoinInv)
  <1> DEFINE Inv == Err!TypeOK /\ Err!FoldInv /\ Err!JoinInv
  <1>1. Init => Inv BY ErrBounds, ErrInitL DEF Init
  <1>2. Inv /\ [Next]_allVars => Inv' BY ErrBounds, ErrNext, ErrStepL
  <1> QED BY <1>1, <1>2, PTL DEF Spec

(* An issue that reads resolved has not occurred since it was resolved, and *)
(* a regression reopens it, over ingests that fold events late, retention   *)
(* passes and restarts (db/errors.rs); and an occurrence whose access line  *)
(* was tailed shows its request, whichever of the two came first, unless    *)
(* the index lost the trace (errors.rs, accesslog.rs).                      *)
THEOREM ErrorsTellTrue == Spec => []ErrorsTold
  <1>1. Err!TypeOK /\ Err!FoldInv /\ Err!JoinInv => ErrorsTold
    BY ErrQuietL, ErrJoinL DEF ErrorsTold
  <1> QED BY <1>1, ErrInductive, PTL


-----------------------------------------------------------------------------
(* Events of an app (AppEvents). *)
(* An empty row, an absent profile and an idle call have their types. *)
LEMMA EvZero ==
  ASSUME Ev!Bounds
  PROVE  /\ 0 \in Ev!I64 /\ Ev!NoInsight \in Ev!Insights /\ Ev!NoProfile \in Ev!Profiles
         /\ Ev!Nobody \in [EvProps -> 0..EvMaxCalls] /\ Ev!NoCall \in Ev!CallStates
         /\ Ev!NoCall.op = "none" /\ Ev!NoInsight.null
  <1>1. 0 \in Ev!I64 /\ 0 \in 0..EvMaxCalls BY DEF Ev!Bounds, Ev!I64
  <1>2. Ev!NoInsight \in Ev!Insights /\ Ev!NoInsight.null BY <1>1 DEF Ev!NoInsight, Ev!Insights
  <1>3. Ev!Nobody \in [EvProps -> 0..EvMaxCalls] BY <1>1 DEF Ev!Nobody
  <1>4. Ev!NoProfile \in Ev!Profiles BY <1>3 DEF Ev!NoProfile, Ev!Profiles
  <1>5. (CHOOSE k \in EvProps : TRUE) \in EvProps BY DEF Ev!Bounds
  <1>6. Ev!NoCall \in Ev!CallStates /\ Ev!NoCall.op = "none"
    BY <1>2, <1>4, <1>5 DEF Ev!NoCall, Ev!CallStates, Ev!IncCalls
  <1> QED BY <1>1, <1>2, <1>3, <1>4, <1>6

(* What a driver shows of a sum is a 64-bit number. *)
LEMMA EvShownL == ASSUME Ev!Bounds, NEW n \in Int PROVE Ev!Shown(n) \in Ev!I64
  BY DEF Ev!Bounds, Ev!Shown, Ev!I64

(* Initially nothing is counted and no call is under way. *)
LEMMA EvInitL == ASSUME Ev!Bounds, Ev!Init PROVE Ev!TypeOK /\ Ev!SerialInv
  <1>0. EvMaxCalls \in 0..EvMaxCalls /\ 0 \in 0..EvMaxCalls BY DEF Ev!Bounds
  <1>1. Ev!TypeOK
    <2>1. fLog \in 0..EvMaxCalls /\ fLeft \in 0..EvMaxCalls /\ fDue \in Int BY <1>0 DEF Ev!Init
    <2>2. fInsight \in Ev!Insights /\ fProfile \in Ev!Profiles /\ fWanted \in [EvProps -> 0..EvMaxCalls]
      BY EvZero DEF Ev!Init
    <2>3. fCall \in [Actors -> Ev!CallStates] BY EvZero DEF Ev!Init
    <2>4. fHere \in BOOLEAN /\ fOverlap \in BOOLEAN BY DEF Ev!Init
    <2> QED BY <2>1, <2>2, <2>3, <2>4 DEF Ev!TypeOK
  <1>2. Ev!SerialWritesCount
    BY DEF Ev!Init, Ev!SerialWritesCount, Ev!Current, Ev!NoInsight, Ev!NoProfile
  <1>3. Ev!ReadsCurrent BY EvZero DEF Ev!Init, Ev!ReadsCurrent
  <1>4. fLog + fLeft <= EvMaxCalls BY DEF Ev!Init, Ev!Bounds
  <1> QED BY <1>1, <1>2, <1>3, <1>4, EvZero DEF Ev!SerialInv, Ev!Init

(* An accepted call uses up one of the calls left. *)
LEMMA EvCall ==
  ASSUME Ev!Bounds, Ev!TypeOK, Ev!Accepted
  PROVE  fHere /\ fLeft' \in 0..EvMaxCalls /\ fLeft' = fLeft - 1
  BY DEF Ev!Bounds, Ev!TypeOK, Ev!Accepted

(* Logging an event keeps the invariant. *)
LEMMA EvLogEventL ==
  ASSUME Ev!Bounds, Ev!TypeOK, Ev!SerialInv, Ev!LogEvent
  PROVE  Ev!TypeOK' /\ Ev!SerialInv'
  <1>1. fLog \in 0..EvMaxCalls /\ fLeft \in 0..EvMaxCalls /\ EvMaxCalls \in Nat
    BY DEF Ev!TypeOK, Ev!Bounds
  <1>2. fLog' = fLog + 1 /\ fLeft' = fLeft - 1 /\ fLeft > 0
    BY DEF Ev!LogEvent, Ev!Inserted, Ev!Accepted
  <1>3. fLog' \in 0..EvMaxCalls /\ fLeft' \in 0..EvMaxCalls /\ fLog' + fLeft' <= EvMaxCalls
    BY <1>1, <1>2 DEF Ev!SerialInv
  <1>4. Ev!TypeOK' BY <1>3 DEF Ev!TypeOK, Ev!LogEvent
  <1> QED BY <1>3, <1>4
             DEF Ev!SerialInv, Ev!LogEvent, Ev!SerialWritesCount, Ev!ReadsCurrent, Ev!Current

(* Setting an insight keeps the invariant. *)
LEMMA EvSetInsightL ==
  ASSUME Ev!Bounds, Ev!TypeOK, Ev!SerialInv, NEW null \in BOOLEAN, NEW n \in EvValues, Ev!SetInsight(null, n)
  PROVE  Ev!TypeOK' /\ Ev!SerialInv'
  <1>1. fLog \in 0..EvMaxCalls /\ fLeft \in 0..EvMaxCalls /\ EvMaxCalls \in Nat
    BY DEF Ev!TypeOK, Ev!Bounds
  <1>2. fLeft' \in 0..EvMaxCalls /\ fLeft' = fLeft - 1 BY EvCall DEF Ev!SetInsight
  <1>3. n \in Ev!I64 /\ n \in Int BY DEF Ev!Bounds, Ev!I64
  <1>4. /\ fInsight' \in Ev!Insights /\ fInsight'.here
        /\ fInsight'.null = null /\ fInsight'.num = n
    BY <1>3 DEF Ev!SetInsight, Ev!Upserted, Ev!Insights
  <1>5. fDue' = (IF null THEN 0 ELSE n) /\ fDue' \in Int BY <1>3 DEF Ev!SetInsight
  <1>6. fOverlap' \in BOOLEAN BY DEF Ev!SetInsight, Ev!TypeOK
  <1>7. Ev!TypeOK' BY <1>2, <1>4, <1>5, <1>6 DEF Ev!TypeOK, Ev!SetInsight
  <1>8. Ev!SerialWritesCount'
    BY <1>4, <1>5 DEF Ev!SetInsight, Ev!SerialInv, Ev!SerialWritesCount, Ev!Current
  <1>9. Ev!ReadsCurrent' BY DEF Ev!SetInsight, Ev!SerialInv, Ev!ReadsCurrent, Ev!Accepted
  <1>10. fLog' + fLeft' <= EvMaxCalls BY <1>1, <1>2 DEF Ev!SetInsight, Ev!SerialInv
  <1> QED BY <1>4, <1>7, <1>8, <1>9, <1>10 DEF Ev!SerialInv

(* A call that begins with a fresh read keeps the invariant. *)
LEMMA EvReads ==
  ASSUME Ev!Bounds, Ev!TypeOK, Ev!SerialInv, NEW c \in Actors, NEW r \in Ev!CallStates,
         Ev!Accepted, fCall' = [fCall EXCEPT ![c] = r],
         r.op = "inc" => r.row = fInsight, r.op = "identify" => r.prev = fProfile,
         UNCHANGED <<fHere, fLog, fInsight, fProfile, fDue, fWanted, fOverlap>>
  PROVE  Ev!TypeOK' /\ Ev!SerialInv'
  <1>1. fLog \in 0..EvMaxCalls /\ fLeft \in 0..EvMaxCalls /\ EvMaxCalls \in Nat
    BY DEF Ev!TypeOK, Ev!Bounds
  <1>2. fLeft' \in 0..EvMaxCalls /\ fLeft' = fLeft - 1 BY EvCall
  <1>3. fCall \in [Actors -> Ev!CallStates] BY DEF Ev!TypeOK
  <1>4. Ev!TypeOK' BY <1>2, <1>3 DEF Ev!TypeOK
  <1>5. Ev!ReadsCurrent'
    <2>1. ASSUME ~fOverlap, fHere, NEW d \in Actors
          PROVE  /\ fCall'[d].op = "inc" => fCall'[d].row = fInsight
                 /\ fCall'[d].op = "identify" => fCall'[d].prev = fProfile
      <3>1. CASE d = c BY <1>3, <3>1
      <3>2. CASE d # c
        <4>1. fCall'[d] = fCall[d] BY <1>3, <3>2
        <4>2. Ev!ReadsCurrent BY DEF Ev!SerialInv
        <4> QED BY <2>1, <4>1, <4>2, Zenon DEF Ev!ReadsCurrent
      <3> QED BY <3>1, <3>2
    <2> QED BY <2>1 DEF Ev!ReadsCurrent
  <1>6. fLog' + fLeft' <= EvMaxCalls BY <1>1, <1>2 DEF Ev!SerialInv
  <1> QED BY <1>4, <1>5, <1>6 DEF Ev!SerialInv, Ev!SerialWritesCount, Ev!Current

(* Reading for an increment keeps the invariant. *)
LEMMA EvIncReadL ==
  ASSUME Ev!Bounds, Ev!TypeOK, Ev!SerialInv, NEW c \in Actors, NEW d \in EvDeltas, Ev!IncRead(c, d)
  PROVE  Ev!TypeOK' /\ Ev!SerialInv'
  <1> DEFINE r == [Ev!NoCall EXCEPT !.op = "inc", !.delta = d, !.row = fInsight]
  <1>1. d \in Int BY DEF Ev!Bounds
  <1>2. Ev!NoCall \in Ev!CallStates /\ fInsight \in Ev!Insights BY EvZero DEF Ev!TypeOK
  <1>3. r \in Ev!CallStates /\ r.op = "inc" /\ r.row = fInsight
    BY <1>1, <1>2 DEF Ev!CallStates, Ev!IncCalls, Ev!IdentifyCalls
  <1> QED BY <1>3, EvReads DEF Ev!IncRead

(* Reading a profile keeps the invariant. *)
LEMMA EvIdentifyReadL ==
  ASSUME Ev!Bounds, Ev!TypeOK, Ev!SerialInv, NEW c \in Actors, NEW k \in EvProps, Ev!IdentifyRead(c, k)
  PROVE  Ev!TypeOK' /\ Ev!SerialInv'
  <1> DEFINE r == [Ev!NoCall EXCEPT !.op = "identify", !.key = k, !.delta = fLeft, !.prev = fProfile]
  <1>1. fLeft \in 0..EvMaxCalls BY DEF Ev!TypeOK
  <1>2. Ev!NoCall \in Ev!CallStates /\ fProfile \in Ev!Profiles BY EvZero DEF Ev!TypeOK
  <1>3. r \in Ev!CallStates /\ r.op = "identify" /\ r.prev = fProfile
    BY <1>1, <1>2 DEF Ev!CallStates, Ev!IncCalls, Ev!IdentifyCalls
  <1> QED BY <1>3, EvReads DEF Ev!IdentifyRead

(* Writing an increment keeps the invariant: a serial one adds to what it read. *)
LEMMA EvIncWriteL ==
  ASSUME Ev!Bounds, Ev!TypeOK, Ev!SerialInv, NEW c \in Actors, Ev!IncWrite(c)
  PROVE  Ev!TypeOK' /\ Ev!SerialInv'
  <1> DEFINE next == Ev!Incremented(fCall[c].row, fCall[c].delta)
  <1>1. /\ fCall \in [Actors -> Ev!CallStates] /\ fCall[c] \in Ev!CallStates
        /\ fInsight \in Ev!Insights /\ fDue \in Int
    BY DEF Ev!TypeOK
  <1>2. fCall[c].row \in Ev!Insights /\ fCall[c].delta \in Int
    BY <1>1 DEF Ev!CallStates, Ev!IncCalls, Ev!IdentifyCalls
  <1>3. next \in Int BY <1>2 DEF Ev!Incremented, Ev!Insights
  <1>4. fCall' = [fCall EXCEPT ![c] = Ev!NoCall] /\ fCall' \in [Actors -> Ev!CallStates]
    BY <1>1, EvZero DEF Ev!IncWrite
  <1>5. CASE fHere
    <2>1. /\ fInsight' = [here |-> TRUE, null |-> FALSE, num |-> next, text |-> Ev!Shown(next)]
          /\ fDue' = fDue + fCall[c].delta
          /\ fOverlap' = (fOverlap \/ Ev!Others(c, "inc"))
          /\ UNCHANGED <<fHere, fLog, fProfile, fWanted, fLeft>>
      BY <1>5 DEF Ev!IncWrite
    <2>2. fInsight' \in Ev!Insights /\ fInsight'.here /\ ~fInsight'.null /\ fInsight'.num = next
      BY <1>3, <2>1, EvShownL DEF Ev!Insights
    <2>3. fDue' \in Int /\ fOverlap' \in BOOLEAN BY <1>1, <1>2, <2>1 DEF Ev!TypeOK
    <2>4. Ev!TypeOK' BY <1>4, <2>1, <2>2, <2>3 DEF Ev!TypeOK
    <2>5. ASSUME ~fOverlap' PROVE Ev!Current' = fDue' /\ fProfile'.props = fWanted'
      <3>1. ~fOverlap BY <2>1, <2>5
      <3>a. Ev!ReadsCurrent /\ fCall[c].op = "inc" BY DEF Ev!SerialInv, Ev!IncWrite
      <3>2. fCall[c].row = fInsight BY <1>5, <3>1, <3>a, Zenon DEF Ev!ReadsCurrent
      <3>3. Ev!Current = fDue /\ fProfile.props = fWanted
        BY <3>1 DEF Ev!SerialInv, Ev!SerialWritesCount
      <3>4. fInsight.here \/ fInsight.null BY DEF Ev!SerialInv
      <3>5. next = Ev!Current + fCall[c].delta
        BY <1>1, <1>2, <3>2, <3>4 DEF Ev!Incremented, Ev!Current, Ev!Insights
      <3> QED BY <2>1, <2>2, <3>3, <3>5 DEF Ev!Current
    <2>6. ASSUME ~fOverlap', NEW d \in Actors
          PROVE  /\ fCall'[d].op # "inc"
                 /\ fCall'[d].op = "identify" => fCall'[d].prev = fProfile'
      <3>1. ~fOverlap /\ ~Ev!Others(c, "inc") BY <2>1, <2>6
      <3>2. CASE d = c BY <1>1, <1>4, <3>2, EvZero
      <3>3. CASE d # c
        <4>1. fCall'[d] = fCall[d] BY <1>1, <1>4, <3>3
        <4>2. fCall[d].op # "inc" BY <3>1, <3>3 DEF Ev!Others
        <4>3. Ev!ReadsCurrent BY DEF Ev!SerialInv
        <4>4. /\ fCall[d].op = "inc" => fCall[d].row = fInsight
              /\ fCall[d].op = "identify" => fCall[d].prev = fProfile
          BY <1>5, <3>1, <4>3, Zenon DEF Ev!ReadsCurrent
        <4> QED BY <2>1, <4>1, <4>2, <4>4
      <3> QED BY <3>2, <3>3
    <2>7. Ev!SerialWritesCount' /\ Ev!ReadsCurrent'
      BY <2>5, <2>6 DEF Ev!SerialWritesCount, Ev!ReadsCurrent
    <2> QED BY <2>1, <2>2, <2>4, <2>7 DEF Ev!SerialInv
  <1>6. CASE ~fHere
    <2>1. UNCHANGED <<fHere, fLog, fInsight, fProfile, fDue, fWanted, fOverlap, fLeft>>
      BY <1>6 DEF Ev!IncWrite
    <2>2. Ev!TypeOK' BY <1>4, <2>1 DEF Ev!TypeOK
    <2>3. Ev!ReadsCurrent' BY <1>6, <2>1 DEF Ev!ReadsCurrent
    <2> QED BY <2>1, <2>2, <2>3 DEF Ev!SerialInv, Ev!SerialWritesCount, Ev!Current
  <1> QED BY <1>5, <1>6

(* Writing a profile keeps the invariant. *)
LEMMA EvIdentifyWriteL ==
  ASSUME Ev!Bounds, Ev!TypeOK, Ev!SerialInv, NEW c \in Actors, Ev!IdentifyWrite(c)
  PROVE  Ev!TypeOK' /\ Ev!SerialInv'
  <1>1. /\ fCall \in [Actors -> Ev!CallStates] /\ fCall[c] \in Ev!CallStates
        /\ fWanted \in [EvProps -> 0..EvMaxCalls]
    BY DEF Ev!TypeOK
  <1>2. fCall[c].prev \in Ev!Profiles /\ fCall[c].key \in EvProps /\ fCall[c].delta \in 0..EvMaxCalls
    BY <1>1 DEF Ev!CallStates, Ev!IncCalls, Ev!IdentifyCalls, Ev!IdentifyWrite
  <1>3. fCall[c].prev.props \in [EvProps -> 0..EvMaxCalls] BY <1>2 DEF Ev!Profiles
  <1>4. fCall' = [fCall EXCEPT ![c] = Ev!NoCall] /\ fCall' \in [Actors -> Ev!CallStates]
    BY <1>1, EvZero DEF Ev!IdentifyWrite
  <1>5. CASE fHere
    <2>1. /\ fProfile' = [here |-> TRUE,
                          props |-> Ev!Merged(fCall[c].prev, fCall[c].key, fCall[c].delta)]
          /\ fWanted' = [fWanted EXCEPT ![fCall[c].key] = fCall[c].delta]
          /\ fOverlap' = (fOverlap \/ Ev!Others(c, "identify"))
          /\ UNCHANGED <<fHere, fLog, fInsight, fDue, fLeft>>
      BY <1>5 DEF Ev!IdentifyWrite
    <2>2. /\ fProfile'.props = [fCall[c].prev.props EXCEPT ![fCall[c].key] = fCall[c].delta]
          /\ fProfile' \in Ev!Profiles
      BY <1>2, <1>3, <2>1 DEF Ev!Merged, Ev!Profiles
    <2>3. fWanted' \in [EvProps -> 0..EvMaxCalls] /\ fOverlap' \in BOOLEAN
      BY <1>1, <1>2, <2>1 DEF Ev!TypeOK
    <2>4. Ev!TypeOK' BY <1>4, <2>1, <2>2, <2>3 DEF Ev!TypeOK
    <2>5. ASSUME ~fOverlap' PROVE Ev!Current' = fDue' /\ fProfile'.props = fWanted'
      <3>1. ~fOverlap BY <2>1, <2>5
      <3>a. Ev!ReadsCurrent /\ fCall[c].op = "identify" BY DEF Ev!SerialInv, Ev!IdentifyWrite
      <3>2. fCall[c].prev = fProfile BY <1>5, <3>1, <3>a, Zenon DEF Ev!ReadsCurrent
      <3>3. Ev!Current = fDue /\ fProfile.props = fWanted
        BY <3>1 DEF Ev!SerialInv, Ev!SerialWritesCount
      <3> QED BY <2>1, <2>2, <3>2, <3>3 DEF Ev!Current
    <2>6. ASSUME ~fOverlap', NEW d \in Actors
          PROVE  /\ fCall'[d].op # "identify"
                 /\ fCall'[d].op = "inc" => fCall'[d].row = fInsight'
      <3>1. ~fOverlap /\ ~Ev!Others(c, "identify") BY <2>1, <2>6
      <3>2. CASE d = c BY <1>1, <1>4, <3>2, EvZero
      <3>3. CASE d # c
        <4>1. fCall'[d] = fCall[d] BY <1>1, <1>4, <3>3
        <4>2. fCall[d].op # "identify" BY <3>1, <3>3 DEF Ev!Others
        <4>3. Ev!ReadsCurrent BY DEF Ev!SerialInv
        <4>4. /\ fCall[d].op = "inc" => fCall[d].row = fInsight
              /\ fCall[d].op = "identify" => fCall[d].prev = fProfile
          BY <1>5, <3>1, <4>3, Zenon DEF Ev!ReadsCurrent
        <4> QED BY <2>1, <4>1, <4>2, <4>4
      <3> QED BY <3>2, <3>3
    <2>7. Ev!SerialWritesCount' /\ Ev!ReadsCurrent'
      BY <2>5, <2>6 DEF Ev!SerialWritesCount, Ev!ReadsCurrent
    <2> QED BY <2>1, <2>4, <2>7 DEF Ev!SerialInv
  <1>6. CASE ~fHere
    <2>1. UNCHANGED <<fHere, fLog, fInsight, fProfile, fDue, fWanted, fOverlap, fLeft>>
      BY <1>6 DEF Ev!IdentifyWrite
    <2>2. Ev!TypeOK' BY <1>4, <2>1 DEF Ev!TypeOK
    <2>3. Ev!ReadsCurrent' BY <1>6, <2>1 DEF Ev!ReadsCurrent
    <2> QED BY <2>1, <2>2, <2>3 DEF Ev!SerialInv, Ev!SerialWritesCount, Ev!Current
  <1> QED BY <1>5, <1>6

(* Deleting the app keeps the invariant. *)
LEMMA EvAppDeletedL ==
  ASSUME Ev!Bounds, Ev!TypeOK, Ev!SerialInv, Ev!AppDeleted
  PROVE  Ev!TypeOK' /\ Ev!SerialInv'
  <1>1. fLeft \in 0..EvMaxCalls /\ EvMaxCalls \in Nat BY DEF Ev!TypeOK, Ev!Bounds
  <1>2. fLog' \in 0..EvMaxCalls /\ fLog' + fLeft' <= EvMaxCalls BY <1>1 DEF Ev!AppDeleted
  <1>3. Ev!TypeOK'
    <2>1. /\ fInsight' \in Ev!Insights /\ fProfile' \in Ev!Profiles
          /\ fWanted' \in [EvProps -> 0..EvMaxCalls] /\ fDue' \in Int /\ fHere' \in BOOLEAN
      <3>1. fInsight' = Ev!NoInsight /\ fProfile' = Ev!NoProfile /\ fWanted' = Ev!Nobody /\ fDue' = 0 /\
            fHere' = FALSE
        BY DEF Ev!AppDeleted
      <3>2. fDue' \in Int BY <3>1
      <3>6. fHere' \in BOOLEAN BY <3>1, Zenon
      <3>3. fInsight' \in Ev!Insights BY <3>1, EvZero
      <3>4. fProfile' \in Ev!Profiles BY <3>1, EvZero
      <3>5. fWanted' \in [EvProps -> 0..EvMaxCalls] BY <3>1, EvZero
      <3> QED BY <3>2, <3>3, <3>4, <3>5, <3>6
    <2> QED BY <1>2, <2>1 DEF Ev!AppDeleted, Ev!TypeOK
  <1>4. Ev!SerialWritesCount'
    BY DEF Ev!AppDeleted, Ev!SerialWritesCount, Ev!Current, Ev!NoInsight, Ev!NoProfile
  <1>5. Ev!ReadsCurrent' BY DEF Ev!AppDeleted, Ev!ReadsCurrent
  <1> QED BY <1>2, <1>3, <1>4, <1>5, EvZero DEF Ev!SerialInv, Ev!AppDeleted

(* Every step keeps the invariant. *)
LEMMA EvStepL ==
  ASSUME Ev!Bounds, Ev!TypeOK, Ev!SerialInv, [Ev!Next]_evVars
  PROVE  Ev!TypeOK' /\ Ev!SerialInv'
  <1>1. CASE Ev!LogEvent BY <1>1, EvLogEventL
  <1>2. CASE Ev!AppDeleted BY <1>2, EvAppDeletedL
  <1>3. ASSUME NEW null \in BOOLEAN, NEW n \in EvValues, Ev!SetInsight(null, n)
        PROVE  Ev!TypeOK' /\ Ev!SerialInv'
    BY <1>3, EvSetInsightL
  <1>4. ASSUME NEW c \in Actors, NEW d \in EvDeltas, Ev!IncRead(c, d)
        PROVE  Ev!TypeOK' /\ Ev!SerialInv'
    BY <1>4, EvIncReadL
  <1>5. ASSUME NEW c \in Actors, NEW k \in EvProps, Ev!IdentifyRead(c, k)
        PROVE  Ev!TypeOK' /\ Ev!SerialInv'
    BY <1>5, EvIdentifyReadL
  <1>6. ASSUME NEW c \in Actors, Ev!IncWrite(c)
        PROVE  Ev!TypeOK' /\ Ev!SerialInv' BY <1>6, EvIncWriteL
  <1>7. ASSUME NEW c \in Actors, Ev!IdentifyWrite(c)
        PROVE  Ev!TypeOK' /\ Ev!SerialInv' BY <1>7, EvIdentifyWriteL
  <1>8. CASE UNCHANGED evVars
    BY <1>8
       DEF evVars, Ev!TypeOK, Ev!SerialInv, Ev!SerialWritesCount, Ev!ReadsCurrent, Ev!Current
  <1> QED BY <1>1, <1>2, <1>3, <1>4, <1>5, <1>6, <1>7, <1>8 DEF Ev!Next

(* A step of the platform is a step of the events or leaves them alone. *)
LEMMA EvNext == [Next]_allVars => [Ev!Next]_evVars
  BY DEF Next, allVars, EnvStep, TelStep, SbxStep, CgStep, ErrStep, DomStep, InstStep,
         NoteStep, RenStep, EvStep, LogStep

(* The inductive invariant of an app's events. *)
LEMMA EvInductive == Spec => [](Ev!TypeOK /\ Ev!SerialInv)
  <1> DEFINE Inv == Ev!TypeOK /\ Ev!SerialInv
  <1>1. Init => Inv BY EvBounds, EvInitL DEF Init
  <1>2. Inv /\ [Next]_allVars => Inv' BY EvBounds, EvNext, EvStepL
  <1> QED BY <1>1, <1>2, PTL DEF Spec


-----------------------------------------------------------------------------
(* The access log (AccessLog). *)
(* Every number is even or odd. *)
LEMMA LogParity == ASSUME NEW i \in Nat PROVE \E j \in Nat : i = 2 * j \/ i = 2 * j + 1
  <1>1. i \div 2 \in Nat /\ (i = 2 * (i \div 2) \/ i = 2 * (i \div 2) + 1) OBVIOUS
  <1> QED BY <1>1

(* Sums and differences of even offsets are even. *)
LEMMA LogEvenL == /\ Log!Even(0) /\ Log!Even(2)
                  /\ \A a, b \in Nat : Log!Even(a) /\ Log!Even(b) => Log!Even(a + b)
                  /\ \A a, b \in Nat : Log!Even(a) /\ Log!Even(b) /\ a <= b => Log!Even(b - a)
  <1>1. Log!Even(0) /\ Log!Even(2)
    <2>1. 0 \in 0..0 /\ 0 = 2 * 0 /\ 1 \in 0..2 /\ 2 = 2 * 1 OBVIOUS
    <2> QED BY <2>1 DEF Log!Even
  <1>2. ASSUME NEW a \in Nat, NEW b \in Nat, Log!Even(a), Log!Even(b) PROVE Log!Even(a + b)
    <2>1. PICK k \in 0..a : a = 2 * k BY <1>2 DEF Log!Even
    <2>2. PICK m \in 0..b : b = 2 * m BY <1>2 DEF Log!Even
    <2>3. k + m \in 0..(a + b) /\ a + b = 2 * (k + m) BY <2>1, <2>2
    <2> QED BY <2>3 DEF Log!Even
  <1>3. ASSUME NEW a \in Nat, NEW b \in Nat, Log!Even(a), Log!Even(b), a <= b
        PROVE  Log!Even(b - a)
    <2>1. PICK k \in 0..a : a = 2 * k BY <1>3 DEF Log!Even
    <2>2. PICK m \in 0..b : b = 2 * m BY <1>3 DEF Log!Even
    <2>3. m - k \in 0..(b - a) /\ b - a = 2 * (m - k) BY <1>3, <2>1, <2>2
    <2> QED BY <2>3 DEF Log!Even
  <1> QED BY <1>1, <1>2, <1>3

(* The bytes of a file from an offset on. *)
LEMMA LogSuffixL ==
  ASSUME NEW S, NEW s \in Seq(S), NEW a \in Nat, a <= Len(s)
  PROVE  /\ SubSeq(s, a + 1, Len(s)) \in Seq(S) /\ Len(SubSeq(s, a + 1, Len(s))) = Len(s) - a
         /\ \A i \in 1..(Len(s) - a) : SubSeq(s, a + 1, Len(s))[i] = s[a + i]
  <1>1. Len(s) \in Nat /\ \A i \in 1..Len(s) : s[i] \in S OBVIOUS
  <1>2. \A i \in (a + 1)..Len(s) : s[i] \in S BY <1>1
  <1>3. Len(SubSeq(s, a + 1, Len(s))) = Len(s) - a BY <1>1
  <1>4. \A i \in 1..(Len(s) - a) : SubSeq(s, a + 1, Len(s))[i] = s[a + i] BY <1>1
  <1>5. SubSeq(s, a + 1, Len(s)) \in Seq(S) BY <1>1, <1>2
  <1> QED BY <1>3, <1>4, <1>5

(* The types of the fields of the log and of a tick. *)
LEMMA LogBasics ==
  ASSUME Log!Bounds, Log!TypeOK
  PROVE  /\ qLog.cells \in Seq(0..LogMaxLines) /\ Len(qLog.cells) \in Nat /\ qLog.ino \in Nat
         /\ qSaved.ino \in Nat /\ qSaved.off \in Nat
         /\ qTick.rest \in Seq(0..LogMaxLines) /\ Len(qTick.rest) \in Nat /\ Log!Stands \in Nat
         /\ qTick.off \in Nat /\ qTick.used \in Nat /\ qTick.len \in Nat /\ qTick.ino \in Nat
         /\ qWritten \in Nat /\ qFails \in Nat /\ LogMaxLines \in Nat /\ LogMaxFaults \in Nat
         /\ qLeft.faults \in Nat /\ qLeft.rotations \in Nat /\ LogMaxRotations \in Nat
         /\ Log!Lines \subseteq Nat /\ qCount \in [Log!Lines -> Nat] /\ LogCatchUp \in Nat
         /\ LogTruncateAt \in Nat
  <1>1. LogMaxLines \in Nat /\ LogMaxFaults \in Nat /\ LogMaxRotations \in Nat /\ LogCatchUp \in Nat /\
        LogTruncateAt \in Nat
    BY DEF Log!Bounds
  <1>2. \A i : i \in Log!Inodes \cup Log!Cells \cup Log!Lines => i \in Nat
    BY <1>1 DEF Log!Cells, Log!Lines, Log!Inodes
  <1>3. qLog.cells \in Seq(0..LogMaxLines) /\ Len(qLog.cells) \in Nat /\ qLog.ino \in Nat
    BY <1>2 DEF Log!TypeOK
  <1>4. qSaved.ino \in Nat /\ qSaved.off \in Nat BY <1>2 DEF Log!TypeOK
  <1>5. /\ qTick.rest \in Seq(0..LogMaxLines) /\ Len(qTick.rest) \in Nat
        /\ qTick.off \in Nat /\ qTick.used \in Nat /\ qTick.len \in Nat /\ qTick.ino \in Nat
    BY <1>2 DEF Log!TypeOK, Log!Ticks
  <1>6. qWritten \in Nat /\ qFails \in Nat /\ qCount \in [Log!Lines -> Nat]
    BY <1>1 DEF Log!TypeOK
  <1>7. qLeft.faults \in Nat /\ qLeft.rotations \in Nat BY <1>1 DEF Log!TypeOK
  <1>8. Log!Stands \in Nat BY <1>5 DEF Log!Stands
  <1> QED BY <1>1, <1>2, <1>3, <1>4, <1>5, <1>6, <1>7, <1>8

(* The lines read from an even offset are the ones the edge wrote after it. *)
LEMMA LogAheadIs ==
  ASSUME Log!Bounds, Log!TypeOK, Log!LogShape, NEW off \in Nat, Log!Even(off), off <= Len(qLog.cells)
  PROVE  Log!LinesIn(SubSeq(qLog.cells, off + 1, Len(qLog.cells))) = Log!Ahead(off)
  <1> DEFINE cells == qLog.cells  s == SubSeq(cells, off + 1, Len(cells))
  <1>1. PICK n \in 0..qWritten :
          /\ Len(cells) = 2 * n
          /\ \A j \in 1..n : cells[2 * j - 1] = qWritten - n + j /\ cells[2 * j] = Log!NL
    BY DEF Log!LogShape
  <1>2. PICK m \in 0..off : off = 2 * m BY DEF Log!Even
  <1>3. qWritten \in 0..LogMaxLines /\ LogMaxLines \in Nat BY DEF Log!TypeOK, Log!Bounds
  <1>4. n \in Nat /\ m \in Nat /\ m <= n BY <1>1, <1>2, <1>3
  <1>a. cells \in Seq(0..LogMaxLines) BY LogBasics
  <1>5. Len(s) = 2 * n - 2 * m /\ \A i \in 1..Len(s) : s[i] = cells[2 * m + i]
    BY <1>1, <1>2, <1>4, <1>a
  <1>b. \A i : i \in Log!Ahead(off) <=> i \in 1..LogMaxLines /\ i <= qWritten /\ i > qWritten - n + m
    BY <1>1, <1>2, <1>3, <1>4 DEF Log!Ahead, Log!Behind, Log!Lines
  <1> HIDE DEF cells, s
  <1>6. ASSUME NEW i \in 1..Len(s), s[i] # Log!NL PROVE s[i] \in Log!Ahead(off)
    <2>0. i \in Nat BY <1>4, <1>5
    <2>1. PICK j \in Nat : i = 2 * j \/ i = 2 * j + 1 BY <2>0, LogParity
    <2>2. CASE i = 2 * j
      <3>1. m + j \in 1..n BY <1>4, <1>5, <2>2
      <3>2. cells[2 * (m + j)] = Log!NL BY <1>1, <3>1
      <3>3. 2 * (m + j) = 2 * m + i BY <2>2, <1>4
      <3> QED BY <1>5, <1>6, <3>2, <3>3
    <2>3. CASE i = 2 * j + 1
      <3>1. m + j + 1 \in 1..n BY <1>4, <1>5, <2>3
      <3>2. cells[2 * (m + j + 1) - 1] = qWritten - n + (m + j + 1) BY <1>1, <3>1
      <3>3. 2 * (m + j + 1) - 1 = 2 * m + i BY <2>3, <1>4
      <3>4. s[i] = qWritten - n + (m + j + 1) BY <1>5, <3>2, <3>3
      <3> QED BY <1>1, <1>3, <1>4, <1>b, <3>1, <3>4
    <2> QED BY <2>1, <2>2, <2>3
  <1>7. ASSUME NEW x \in Log!Ahead(off) PROVE \E i \in 1..Len(s) : s[i] = x /\ x # Log!NL
    <2> DEFINE j == x - qWritten + n
    <2>1. x \in Nat /\ x # 0 /\ j \in 1..n /\ j > m BY <1>1, <1>3, <1>4, <1>b, <1>7
    <2>2. cells[2 * j - 1] = qWritten - n + j BY <1>1, <2>1
    <2>3. qWritten - n + j = x BY <1>3, <1>4, <2>1
    <2>4. 2 * j - 1 - 2 * m \in 1..Len(s) BY <1>4, <1>5, <2>1
    <2>5. 2 * m + (2 * j - 1 - 2 * m) = 2 * j - 1 BY <1>4, <2>1
    <2>6. s[2 * j - 1 - 2 * m] = x BY <1>5, <2>2, <2>3, <2>4, <2>5
    <2> QED BY <2>1, <2>4, <2>6 DEF Log!NL
  <1>8. Log!LinesIn(s) = {s[i] : i \in 1..Len(s)} \ {Log!NL} BY DEF Log!LinesIn
  <1>9. \A x : x \in Log!LinesIn(s) <=> x \in Log!Ahead(off) BY <1>6, <1>7, <1>8
  <1> QED BY <1>9 DEF s, cells

(* A read from the start finds every line of the file. *)
LEMMA LogAllAhead ==
  ASSUME Log!Bounds, Log!TypeOK, Log!LogShape PROVE Log!LinesIn(qLog.cells) = Log!Ahead(0)
  <1>1. qLog.cells \in Seq(0..LogMaxLines) BY LogBasics
  <1>2. SubSeq(qLog.cells, 0 + 1, Len(qLog.cells)) = qLog.cells BY <1>1
  <1>3. Log!LinesIn(SubSeq(qLog.cells, 0 + 1, Len(qLog.cells))) = Log!Ahead(0)
    <2>1. 0 \in Nat /\ 0 <= Len(qLog.cells) BY LogBasics
    <2> QED BY <2>1, LogAheadIs, LogEvenL
  <1> QED BY <1>2, <1>3

(* A later offset has fewer lines ahead of it. *)
LEMMA LogFewer ==
  ASSUME Log!Bounds, Log!TypeOK, NEW a \in Nat, NEW b \in Nat, a <= b
  PROVE  Log!Ahead(b) \subseteq Log!Ahead(a) /\ Log!Ahead(a) \subseteq Log!Lines
         /\ (b >= Len(qLog.cells) => Log!Ahead(b) = {})
  <1> DEFINE n == Len(qLog.cells)
  <1>1. n \in Nat /\ qWritten \in Nat /\ Log!Lines \subseteq Nat BY LogBasics
  <1>2. \A i : i \in Log!Ahead(a) <=> i \in Log!Lines /\ i <= qWritten /\ 2 * i > 2 * qWritten - n + a
    BY DEF Log!Ahead, Log!Behind
  <1>3. \A i : i \in Log!Ahead(b) <=> i \in Log!Lines /\ i <= qWritten /\ 2 * i > 2 * qWritten - n + b
    BY DEF Log!Ahead, Log!Behind
  <1> HIDE DEF n
  <1>4. ASSUME NEW i \in Log!Ahead(b) PROVE i \in Log!Ahead(a) /\ ~(b >= n)
    <2>1. i \in Log!Lines /\ i \in Nat /\ i <= qWritten /\ 2 * i > 2 * qWritten - n + b
      BY <1>1, <1>3
    <2>2. 2 * i > 2 * qWritten - n + a /\ ~(b >= n) BY <1>1, <2>1
    <2> QED BY <1>2, <2>1, <2>2
  <1>5. b >= n => Log!Ahead(b) = {} BY <1>4
  <1> QED BY <1>2, <1>4, <1>5 DEF n

(* The offset that the next tick starts at lies in the file, between two lines. *)
LEMMA LogResumeL ==
  ASSUME Log!Bounds, Log!TypeOK, Log!LinesInv
  PROVE  Log!Resume \in Nat /\ Log!Even(Log!Resume) /\ Log!Resume <= Len(qLog.cells)
  <1>1. Len(qLog.cells) \in Nat /\ qSaved.off \in Nat BY LogBasics
  <1>2. Log!Even(qSaved.off) /\ Log!Even(0) BY LogEvenL DEF Log!LinesInv, Log!SavedShape
  <1> QED BY <1>1, <1>2 DEF Log!Resume

(* The invariant says that no line is lost and how often one can be counted again. *)
LEMMA LogOnce == ASSUME Log!Bounds, Log!TypeOK, Log!LinesInv PROVE Log!LinesCountedOnce
  <1>1. \A i \in LogTenants : qCount[i] <= 1 + qFails
    BY DEF Log!Bounds, Log!LinesInv, Log!NotYet, Log!AtMost
  <1>2. Log!LinesIn(SubSeq(qLog.cells, Log!Resume + 1, Len(qLog.cells))) = Log!Ahead(Log!Resume)
    BY LogResumeL, LogAheadIs DEF Log!LinesInv
  <1>3. qTick.step = "idle" => Log!Missing(Log!Ahead(Log!Resume))
    BY DEF Log!LinesInv, Log!Accounted
  <1> QED BY <1>1, <1>2, <1>3 DEF Log!LinesCountedOnce, Log!Missing

(* A tick that is not running has its type. *)
LEMMA LogNoTickL == ASSUME Log!Bounds PROVE Log!NoTick \in Log!Ticks /\ Log!NoTick.step = "idle"
  <1>1. 0 \in Log!Inodes /\ 0 \in Log!Cells /\ "idle" \in Log!Steps
    BY DEF Log!Bounds, Log!Inodes, Log!Cells, Log!Steps
  <1> QED BY <1>1 DEF Log!NoTick, Log!Ticks

(* Initially the log is empty and no line is counted. *)
LEMMA LogInitL == ASSUME Log!Bounds, Log!Init PROVE Log!TypeOK /\ Log!LinesInv
  <1>0. /\ LogMaxLines \in Nat /\ LogMaxRotations \in Nat /\ LogMaxFaults \in Nat
        /\ LogTenants \subseteq Log!Lines
        /\ Log!Lines \subseteq Nat \ {0}
    BY DEF Log!Bounds, Log!Lines
  <1>1. /\ qLog = [ino |-> 1, cells |-> <<>>] /\ qSaved = [ino |-> 0, off |-> 0]
        /\ qTick = Log!NoTick /\ qCount = [i \in Log!Lines |-> 0]
        /\ qSkipped = {} /\ qRaced = {} /\ qWritten = 0 /\ qFails = 0
        /\ qLeft = [rotations |-> LogMaxRotations, faults |-> LogMaxFaults]
    BY DEF Log!Init
  <1>2. Log!TypeOK
    <2>1. qLog \in [ino : Log!Inodes \ {0}, cells : Seq(0..LogMaxLines)]
      BY <1>0, <1>1 DEF Log!Inodes
    <2>2. qSaved \in [ino : Log!Inodes, off : Log!Cells] BY <1>0, <1>1 DEF Log!Inodes, Log!Cells
    <2>3. qTick \in Log!Ticks BY <1>1, LogNoTickL
    <2>4. qCount \in [Log!Lines -> Nat] /\ qSkipped \subseteq Log!Lines /\ qRaced \subseteq Log!Lines
          /\ qWritten \in 0..LogMaxLines /\ qFails \in 0..LogMaxFaults
      BY <1>0, <1>1
    <2>5. qLeft \in [rotations : 0..LogMaxRotations, faults : 0..LogMaxFaults] BY <1>0, <1>1
    <2> QED BY <2>1, <2>2, <2>3, <2>4, <2>5 DEF Log!TypeOK
  <1>3. qTick.step = "idle" /\ qLog.cells = <<>> /\ Len(qLog.cells) = 0 BY <1>1 DEF Log!NoTick
  <1>4. Log!LogShape
    <2>1. 0 \in 0..qWritten /\ Len(qLog.cells) = 2 * 0 /\ \A j \in 1..0 : FALSE BY <1>1, <1>3
    <2> QED BY <2>1 DEF Log!LogShape
  <1>5. Log!SavedShape BY <1>1, <1>3, LogEvenL DEF Log!SavedShape
  <1>6. Log!TickShape BY <1>3 DEF Log!TickShape
  <1>7. Log!NotYet /\ Log!Accounted
    <2>1. Log!Ahead(Log!Resume) = {} BY <1>0, <1>1, <1>3 DEF Log!Ahead
    <2>2. Log!AtMost(Log!Lines, 1 + qFails) /\ \A i \in Log!Lines : i > qWritten => qCount[i] = 0
      BY <1>1 DEF Log!AtMost
    <2>3. Log!Missing(Log!Ahead(Log!Resume)) BY <1>0, <1>1 DEF Log!Missing
    <2> QED BY <1>3, <2>1, <2>2, <2>3 DEF Log!NotYet, Log!Accounted, Log!AtMost
  <1>8. qFails + qLeft.faults <= LogMaxFaults /\ qLog.ino + qLeft.rotations <= LogMaxRotations + 1
    BY <1>0, <1>1
  <1> QED BY <1>2, <1>4, <1>5, <1>6, <1>7, <1>8 DEF Log!LinesInv

(* A failure is paid for, and is on record. *)
LEMMA LogFailsL ==
  ASSUME Log!Bounds, Log!TypeOK, Log!LinesInv, Log!Fails
  PROVE  /\ qLeft' \in [rotations : 0..LogMaxRotations, faults : 0..LogMaxFaults]
         /\ qFails' \in 0..LogMaxFaults
         /\ qFails' = qFails + 1 /\ qFails' + qLeft'.faults <= LogMaxFaults
         /\ qLeft'.rotations = qLeft.rotations
  <1>1. qLeft \in [rotations : 0..LogMaxRotations, faults : 0..LogMaxFaults] BY DEF Log!TypeOK
  <1>2. qLeft.faults \in Nat /\ qLeft.rotations \in Nat /\ LogMaxFaults \in Nat /\ qFails \in Nat
    BY LogBasics
  <1>3. /\ qLeft.faults > 0 /\ qLeft' = [qLeft EXCEPT !.faults = qLeft.faults - 1]
        /\ qFails' = qFails + 1 /\ qFails + qLeft.faults <= LogMaxFaults
    BY DEF Log!Fails, Log!LinesInv
  <1>4. qLeft.faults - 1 \in 0..LogMaxFaults /\ qFails + 1 \in 0..LogMaxFaults
    BY <1>1, <1>2, <1>3
  <1>5. qLeft'.faults = qLeft.faults - 1 /\ qLeft'.rotations = qLeft.rotations BY <1>1, <1>3
  <1>6. qLeft' \in [rotations : 0..LogMaxRotations, faults : 0..LogMaxFaults]
    BY <1>1, <1>3, <1>4
  <1> QED BY <1>2, <1>3, <1>4, <1>5, <1>6

(* What lies ahead depends on the log alone. *)
LEMMA LogStill ==
  ASSUME UNCHANGED <<qLog, qWritten>>
  PROVE  (Log!LogShape <=> Log!LogShape') /\ (\A off : Log!Ahead(off)' = Log!Ahead(off))
  BY DEF Log!LogShape, Log!Ahead, Log!Behind, Log!Lines

(* Where the next tick resumes depends on the log and on the saved offset. *)
LEMMA LogResumeStill ==
  ASSUME UNCHANGED <<qLog, qWritten, qSaved>>
  PROVE  Log!Resume' = Log!Resume /\ Log!Ahead(Log!Resume)' = Log!Ahead(Log!Resume)
  BY DEF Log!Resume, Log!Ahead, Log!Behind, Log!Lines

(* A failure only raises the allowance for lines counted again. *)
LEMMA LogWorse ==
  ASSUME Log!Bounds, Log!TypeOK, Log!LinesInv, NEW S \in SUBSET Log!Lines, qFails' = qFails + 1, qCount' = qCount
  PROVE  \A i \in S : qCount'[i] <= qFails'
  <1>1. qFails \in Nat /\ qCount \in [Log!Lines -> Nat] BY LogBasics
  <1>2. \A i \in S : qCount[i] <= 1 + qFails BY DEF Log!LinesInv, Log!NotYet, Log!AtMost
  <1> QED BY <1>1, <1>2

(* A tick that is given up at a failure keeps the invariant. *)
LEMMA LogGiveUp ==
  ASSUME Log!Bounds, Log!TypeOK, Log!LinesInv, Log!Fails, qTick' = Log!NoTick,
         UNCHANGED <<qLog, qSaved, qCount, qRaced, qWritten>>,
         \/ qSkipped' = qSkipped /\ qTick.step # "zero"
         \/ qSkipped' = Log!Lines
  PROVE  Log!TypeOK' /\ Log!LinesInv'
  <1>1. Log!NoTick \in Log!Ticks /\ qTick'.step = "idle" BY LogNoTickL
  <1>2. Log!TypeOK' BY <1>1, LogFailsL DEF Log!TypeOK
  <1>3. Log!LogShape' BY LogStill DEF Log!LinesInv
  <1>4. Log!SavedShape'
    <2>1. Log!SavedShape BY DEF Log!LinesInv
    <2> QED BY <2>1, <1>1 DEF Log!SavedShape
  <1>5. Log!TickShape' BY <1>1 DEF Log!TickShape
  <1>6. Log!NotYet'
    <2>1. Log!Resume \in Nat /\ Log!Ahead(Log!Resume)' = Log!Ahead(Log!Resume)
      BY LogResumeL, LogResumeStill
    <2>2. Log!Ahead(Log!Resume) \in SUBSET Log!Lines BY DEF Log!Ahead
    <2>3. qFails' = qFails + 1 BY DEF Log!Fails
    <2>4. Log!AtMost(Log!Ahead(Log!Resume), qFails)'
      BY <2>1, <2>2, <2>3, LogWorse DEF Log!AtMost
    <2>5. Log!AtMost(Log!Lines, qFails)' BY <2>3, LogWorse DEF Log!AtMost, Log!Lines
    <2>a. qFails \in Nat /\ qCount \in [Log!Lines -> Nat] BY LogBasics
    <2>6. qFails' \in Nat /\ qCount' \in [Log!Lines -> Nat] BY <2>3, <2>a
    <2>7. \A i \in Log!Lines : qCount'[i] <= 1 + qFails' BY <2>5, <2>6 DEF Log!AtMost, Log!Lines
    <2>8. Log!AtMost(Log!Lines, 1 + qFails)' BY <2>7 DEF Log!AtMost, Log!Lines
    <2>9. \A i \in Log!Lines : i > qWritten => qCount[i] = 0 BY DEF Log!LinesInv, Log!NotYet
    <2> QED BY <1>1, <2>4, <2>8, <2>9 DEF Log!NotYet, Log!Lines
  <1>7. Log!Accounted'
    <2>1. Log!Ahead(Log!Resume)' = Log!Ahead(Log!Resume) BY LogResumeStill
    <2>2. Log!Missing(Log!Ahead(Log!Resume))'
      <3>1. CASE qSkipped' = qSkipped /\ qTick.step # "zero"
        <4>1. Log!Missing(Log!Ahead(Log!Resume)) BY <3>1 DEF Log!LinesInv, Log!Accounted
        <4> QED BY <2>1, <3>1, <4>1 DEF Log!Missing
      <3>2. CASE qSkipped' = Log!Lines BY <3>2 DEF Log!Missing, Log!Bounds
      <3> QED BY <3>1, <3>2
    <2> QED BY <1>1, <2>2 DEF Log!Accounted
  <1>8. /\ qFails' + qLeft'.faults <= LogMaxFaults
        /\ qLog'.ino + qLeft'.rotations <= LogMaxRotations + 1
    BY LogFailsL DEF Log!LinesInv
  <1> QED BY <1>2, <1>3, <1>4, <1>5, <1>6, <1>7, <1>8 DEF Log!LinesInv

(* A count that is not written keeps the invariant. *)
LEMMA LogAddFailsL ==
  ASSUME Log!Bounds, Log!TypeOK, Log!LinesInv, Log!AddFails
  PROVE  Log!TypeOK' /\ Log!LinesInv'
  BY LogGiveUp DEF Log!AddFails

(* A crash keeps the invariant. *)
LEMMA LogCrashL ==
  ASSUME Log!Bounds, Log!TypeOK, Log!LinesInv, Log!Crash
  PROVE  Log!TypeOK' /\ Log!LinesInv'
  BY LogGiveUp DEF Log!Crash

(* Looking at the file keeps the invariant. *)
LEMMA LogStatL ==
  ASSUME Log!Bounds, Log!TypeOK, Log!LinesInv, Log!Stat
  PROVE  Log!TypeOK' /\ Log!LinesInv'
  <1> DEFINE len == Len(qLog.cells)  burst == len - Log!Resume > LogCatchUp
             off == IF burst THEN len ELSE Log!Resume
  <1>1. /\ qTick' = [Log!NoTick EXCEPT !.step = "read", !.ino = qLog.ino, !.len = len, !.off = off]
        /\ qSkipped' = IF burst THEN qSkipped \cup Log!LinesIn(SubSeq(qLog.cells, Log!Resume + 1, len))
                       ELSE qSkipped
        /\ UNCHANGED <<qLog, qSaved, qCount, qRaced, qWritten, qFails, qLeft>>
        /\ qTick.step = "idle"
    BY DEF Log!Stat
  <1>2. /\ len \in Nat /\ Log!Even(len) /\ len \in Log!Cells
    <2>1. PICK n \in 0..qWritten : len = 2 * n BY DEF Log!LinesInv, Log!LogShape
    <2>2. qWritten \in 0..LogMaxLines /\ LogMaxLines \in Nat BY DEF Log!TypeOK, Log!Bounds
    <2>3. n \in 0..len /\ len \in Log!Cells BY <2>1, <2>2 DEF Log!Cells
    <2> QED BY <2>1, <2>3, LogBasics DEF Log!Even
  <1>3. Log!Resume \in Nat /\ Log!Even(Log!Resume) /\ Log!Resume <= len BY LogResumeL
  <1>4. off \in Nat /\ Log!Even(off) /\ off <= len /\ Log!Resume <= off /\ off \in Log!Cells
    <2>1. LogMaxLines \in Nat BY DEF Log!Bounds
    <2>2. CASE burst BY <1>2, <1>3, <2>2
    <2>3. CASE ~burst
      <3>1. off = Log!Resume BY <2>3
      <3> HIDE DEF off, burst, len
      <3> QED BY <1>2, <1>3, <2>1, <3>1 DEF Log!Cells
    <2> QED BY <2>2, <2>3
  <1>5. Log!LinesIn(SubSeq(qLog.cells, Log!Resume + 1, len)) = Log!Ahead(Log!Resume)
    BY <1>3, LogAheadIs DEF Log!LinesInv
  <1> HIDE DEF len, off, burst
  <1>6. /\ qTick'.step = "read" /\ qTick'.ino = qLog.ino /\ qTick'.len = len /\ qTick'.off = off
        /\ qTick'.used = 0 /\ qTick' \in Log!Ticks
    <2>1. Log!NoTick \in Log!Ticks /\ Log!NoTick.used = 0 BY LogNoTickL DEF Log!NoTick
    <2>2. qLog.ino \in Log!Inodes /\ "read" \in Log!Steps BY DEF Log!TypeOK, Log!Steps
    <2> QED BY <1>1, <1>2, <1>4, <2>1, <2>2 DEF Log!Ticks
  <1>7. Log!TypeOK'
    <2>1. Log!Ahead(Log!Resume) \subseteq Log!Lines BY DEF Log!Ahead
    <2>2. qSkipped' \subseteq Log!Lines BY <1>1, <1>5, <2>1 DEF Log!TypeOK
    <2> QED BY <1>1, <1>6, <2>2 DEF Log!TypeOK
  <1>8. Log!LogShape' BY <1>1, LogStill DEF Log!LinesInv
  <1>9. Log!SavedShape'
    <2>1. Log!SavedShape BY DEF Log!LinesInv
    <2>2. qSkipped = Log!Lines => qSkipped' = Log!Lines BY <1>1, <1>7 DEF Log!TypeOK
    <2> QED BY <1>1, <1>6, <2>1, <2>2 DEF Log!SavedShape
  <1>10. Log!Stands' = off BY <1>4, <1>6 DEF Log!Stands
  <1>11. Log!TickShape' BY <1>1, <1>2, <1>4, <1>6, <1>10, LogEvenL DEF Log!TickShape, len
  <1>12. Log!Ahead(Log!Stands)' = Log!Ahead(off) /\ Log!Ahead(off) \subseteq Log!Ahead(Log!Resume)
    BY <1>1, <1>3, <1>4, <1>10, LogFewer DEF Log!Ahead, Log!Behind, Log!Lines
  <1>13. Log!NotYet'
    <2>1. Log!AtMost(Log!Ahead(Log!Resume), qFails) BY <1>1 DEF Log!LinesInv, Log!NotYet
    <2>2. Log!AtMost(Log!Ahead(Log!Stands), qFails)' BY <1>1, <1>12, <2>1 DEF Log!AtMost
    <2>3. Log!AtMost(Log!Lines, 1 + qFails)'
      BY <1>1 DEF Log!LinesInv, Log!NotYet, Log!AtMost, Log!Lines
    <2>4. \A i \in Log!Lines : i > qWritten => qCount[i] = 0 BY DEF Log!LinesInv, Log!NotYet
    <2> QED BY <1>1, <1>6, <2>2, <2>3, <2>4 DEF Log!NotYet, Log!Lines
  <1>14. Log!Accounted'
    <2>1. Log!Missing(Log!Ahead(Log!Resume)) BY <1>1 DEF Log!LinesInv, Log!Accounted
    <2>2. Log!Missing(Log!Ahead(Log!Resume))' BY <1>1, <2>1, LogResumeStill DEF Log!Missing
    <2>3. Log!Missing(Log!Ahead(Log!Stands))'
      <3>1. CASE burst BY <1>1, <1>5, <3>1, <2>1 DEF Log!Missing
      <3>2. CASE ~burst BY <1>1, <1>12, <3>2, <2>1 DEF Log!Missing, off
      <3> QED BY <3>1, <3>2
    <2> QED BY <1>6, <2>2, <2>3 DEF Log!Accounted
  <1>15. qFails' + qLeft'.faults <= LogMaxFaults /\ qLog'.ino + qLeft'.rotations <= LogMaxRotations + 1
    BY <1>1 DEF Log!LinesInv
  <1> QED BY <1>7, <1>8, <1>9, <1>11, <1>13, <1>14, <1>15 DEF Log!LinesInv

(* Reading a slice of the file keeps the invariant. *)
LEMMA LogReadL ==
  ASSUME Log!Bounds, Log!TypeOK, Log!LinesInv, Log!Read
  PROVE  Log!TypeOK' /\ Log!LinesInv'
  <1> DEFINE len == Len(qLog.cells)  rest == SubSeq(qLog.cells, qTick.off + 1, len)
  <1>1. /\ qTick' = [qTick EXCEPT !.step = "count", !.rest = rest] /\ qTick.step = "read"
        /\ UNCHANGED <<qLog, qSaved, qCount, qSkipped, qRaced, qWritten, qFails, qLeft>>
    BY DEF Log!Read
  <1>2. /\ Log!Even(qTick.off) /\ Log!Even(qTick.used) /\ Log!Stands <= len /\ qTick.len <= len
        /\ qTick.used = 0 /\ qTick.ino = qLog.ino
    BY <1>1 DEF Log!LinesInv, Log!TickShape
  <1>3. /\ qTick.off \in Nat /\ qTick.used \in Nat /\ len \in Nat /\ qLog.cells \in Seq(0..LogMaxLines)
        /\ qTick.len \in Nat
    BY LogBasics
  <1>4. Log!Stands = qTick.off /\ qTick.off <= len BY <1>2, <1>3 DEF Log!Stands
  <1>5. /\ rest \in Seq(0..LogMaxLines) /\ Len(rest) = len - qTick.off
        /\ \A i \in 1..Len(rest) : rest[i] = qLog.cells[qTick.off + i]
    <2>1. qTick.off \in Nat /\ qTick.off <= len /\ qLog.cells \in Seq(0..LogMaxLines)
      BY <1>3, <1>4
    <2>2. /\ rest \in Seq(0..LogMaxLines) /\ Len(rest) = len - qTick.off
          /\ \A i \in 1..(len - qTick.off) : rest[i] = qLog.cells[qTick.off + i]
      BY <2>1, LogSuffixL, ZenonT(30)
    <2> HIDE DEF rest, len
    <2> QED BY <2>2
  <1>6. Log!Even(len)
    <2>1. PICK n \in 0..qWritten : len = 2 * n BY DEF Log!LinesInv, Log!LogShape
    <2>2. n \in 0..len BY <1>3, <2>1, LogBasics
    <2> QED BY <2>1, <2>2 DEF Log!Even
  <1>7. Log!Even(Len(rest)) BY <1>2, <1>3, <1>4, <1>5, <1>6, LogEvenL
  <1>a. \A i \in 1..Len(qLog.cells) : qLog.cells[i] = qLog'.cells[i] BY <1>1
  <1> HIDE DEF rest
  <1>8. /\ qTick'.step = "count" /\ qTick'.rest = rest /\ qTick'.off = qTick.off /\ qTick' \in Log!Ticks
        /\ qTick'.used = qTick.used /\ qTick'.len = qTick.len /\ qTick'.ino = qTick.ino
    BY <1>1, <1>5 DEF Log!TypeOK, Log!Ticks, Log!Steps
  <1>9. Log!TypeOK' BY <1>1, <1>8 DEF Log!TypeOK
  <1>10. Log!LogShape' BY <1>1, LogStill DEF Log!LinesInv
  <1>11. Log!SavedShape' BY <1>1, <1>8 DEF Log!LinesInv, Log!SavedShape
  <1>12. Log!Stands' = Log!Stands BY <1>8 DEF Log!Stands
  <1>13. Log!TickShape'
    <2>1. qLog' = qLog BY <1>1
    <2>2. /\ Log!Stands' <= Len(qLog'.cells) /\ qTick'.len <= Len(qLog'.cells) /\ qTick'.ino = qLog'.ino
          /\ Log!Even(qTick'.off) /\ Log!Even(qTick'.used) /\ Log!Even(Len(qTick'.rest))
      BY <1>2, <1>7, <1>8, <1>12, <2>1
    <2>3. Log!Stands' + Len(qTick'.rest) = len BY <1>3, <1>4, <1>5, <1>8, <1>12
    <2>4. \A i \in 1..Len(qTick'.rest) : qTick'.rest[i] = qLog'.cells[Log!Stands' + i]
      BY <1>4, <1>5, <1>8, <1>12, <2>1
    <2>5. Log!Stands' + Len(qTick'.rest) <= Len(qLog'.cells) /\
          qTick'.len <= Log!Stands' + Len(qTick'.rest)
      BY <1>2, <1>3, <1>8, <2>1, <2>3
    <2> QED BY <1>8, <2>2, <2>4, <2>5 DEF Log!TickShape
  <1>14. Log!Ahead(Log!Stands)' = Log!Ahead(Log!Stands) /\
         Log!Ahead(Log!Resume)' = Log!Ahead(Log!Resume)
    BY <1>1, <1>12, LogResumeStill DEF Log!Ahead, Log!Behind, Log!Lines
  <1>15. Log!NotYet' BY <1>1, <1>8, <1>14 DEF Log!LinesInv, Log!NotYet, Log!AtMost, Log!Lines
  <1>16. Log!Accounted' BY <1>1, <1>8, <1>14 DEF Log!LinesInv, Log!Accounted, Log!Missing
  <1>17. qFails' + qLeft'.faults <= LogMaxFaults /\ qLog'.ino + qLeft'.rotations <= LogMaxRotations + 1
    BY <1>1 DEF Log!LinesInv
  <1> QED BY <1>9, <1>10, <1>11, <1>13, <1>15, <1>16, <1>17 DEF Log!LinesInv

(* The line at hand is the first of those ahead of where the tick stands. *)
LEMMA LogLineAhead ==
  ASSUME Log!Bounds, Log!TypeOK, Log!LinesInv, qTick.step = "count", qTick.rest # <<>>
  PROVE  /\ qTick.rest[1] \in Log!Ahead(Log!Stands) /\ Len(qTick.rest) >= 2
         /\ Log!Ahead(Log!Stands + 2) = Log!Ahead(Log!Stands) \ {qTick.rest[1]}
  <1> DEFINE len == Len(qLog.cells)
  <1>1. PICK n \in 0..qWritten :
          /\ len = 2 * n
          /\ \A j \in 1..n : qLog.cells[2 * j - 1] = qWritten - n + j /\ qLog.cells[2 * j] = Log!NL
    BY DEF Log!LinesInv, Log!LogShape
  <1>2. /\ Log!Even(qTick.off) /\ Log!Even(qTick.used) /\ Log!Even(Len(qTick.rest))
        /\ Log!Stands + Len(qTick.rest) <= len
        /\ \A i \in 1..Len(qTick.rest) : qTick.rest[i] = qLog.cells[Log!Stands + i]
    BY DEF Log!LinesInv, Log!TickShape
  <1>3. Log!Even(Log!Stands) /\ Log!Stands \in Nat
    <2>1. qTick.off \in Nat /\ qTick.used \in Nat BY LogBasics
    <2>2. Log!Even(qTick.off + qTick.used) BY <1>2, <2>1, LogEvenL
    <2> QED BY <2>1, <2>2 DEF Log!Stands
  <1>4. PICK m \in 0..Log!Stands : Log!Stands = 2 * m BY <1>3 DEF Log!Even
  <1>5. qTick.rest \in Seq(0..LogMaxLines) /\ Len(qTick.rest) \in Nat /\ Len(qTick.rest) # 0
    BY LogBasics, SMTT(20)
  <1>6. PICK k \in 0..Len(qTick.rest) : Len(qTick.rest) = 2 * k BY <1>2 DEF Log!Even
  <1>7. Len(qTick.rest) >= 2 BY <1>5, <1>6
  <1>8. qWritten \in 0..LogMaxLines /\ LogMaxLines \in Nat /\ n \in Nat /\ m \in Nat /\ m + 1 \in 1..n
    <2>1. qWritten \in 0..LogMaxLines /\ LogMaxLines \in Nat BY DEF Log!TypeOK, Log!Bounds
    <2>2. n \in Nat /\ m \in Nat BY <1>1, <1>3, <1>4, <2>1
    <2>3. ASSUME NEW a \in Nat, a >= 2, 2 * m + a <= 2 * n PROVE m + 1 \in 1..n BY <2>2, <2>3
    <2>4. 2 * m + Len(qTick.rest) <= 2 * n BY <1>1, <1>2, <1>4
    <2> QED BY <1>5, <1>7, <2>1, <2>2, <2>3, <2>4
  <1>9. qTick.rest[1] = qLog.cells[Log!Stands + 1] BY <1>2, <1>5, <1>7
  <1>10. qLog.cells[2 * (m + 1) - 1] = qWritten - n + (m + 1) BY <1>1, <1>8
  <1>11. Log!Stands + 1 = 2 * (m + 1) - 1 BY <1>4, <1>8
  <1> DEFINE x == qTick.rest[1]
  <1>12. x = qWritten - n + m + 1 BY <1>8, <1>9, <1>10, <1>11
  <1>13. \A i : i \in Log!Ahead(Log!Stands) <=> i \in 1..LogMaxLines /\ i <= qWritten /\ i > qWritten - n + m
    BY <1>1, <1>4, <1>8 DEF Log!Ahead, Log!Behind, Log!Lines
  <1>14. \A i : i \in Log!Ahead(Log!Stands + 2) <=> i \in 1..LogMaxLines /\ i <= qWritten /\ i > qWritten - n + m + 1
    BY <1>1, <1>4, <1>8 DEF Log!Ahead, Log!Behind, Log!Lines
  <1> HIDE DEF x
  <1>15. x \in Log!Ahead(Log!Stands) BY <1>1, <1>8, <1>12, <1>13
  <1>16. \A i : i \in Log!Ahead(Log!Stands + 2) <=> i \in Log!Ahead(Log!Stands) /\ i # x
    BY <1>8, <1>12, <1>13, <1>14
  <1> QED BY <1>7, <1>15, <1>16 DEF x

(* Counting a line keeps the invariant. *)
LEMMA LogCountLineL ==
  ASSUME Log!Bounds, Log!TypeOK, Log!LinesInv, Log!CountLine
  PROVE  Log!TypeOK' /\ Log!LinesInv'
  <1> DEFINE x == qTick.rest[1]  rest == SubSeq(qTick.rest, 3, Len(qTick.rest))
  <1>0. qTick.step = "count" /\ qTick.rest # <<>> BY DEF Log!CountLine
  <1>1. x \in Log!Ahead(Log!Stands) /\ Len(qTick.rest) >= 2 /\
        Log!Ahead(Log!Stands + 2) = Log!Ahead(Log!Stands) \ {x}
    BY <1>0, LogLineAhead
  <1>2. x \in Log!Lines /\ x \in Nat /\ x # Log!NL /\ x <= qWritten
    BY <1>1 DEF Log!Ahead, Log!Lines, Log!NL
  <1>3. /\ qTick' = [qTick EXCEPT !.rest = rest, !.used = qTick.used + 2]
        /\ qCount' = IF x \in LogTenants THEN [qCount EXCEPT ![x] = qCount[x] + 1] ELSE qCount
        /\ UNCHANGED <<qLog, qSaved, qSkipped, qRaced, qWritten, qFails, qLeft>>
    BY <1>2 DEF Log!CountLine, Log!Added, Log!Attributed, Log!LineAndNewline
  <1>4. /\ Log!Even(qTick.off) /\ Log!Even(qTick.used) /\ Log!Even(Len(qTick.rest))
        /\ Log!Stands + Len(qTick.rest) <= Len(qLog.cells) /\ qTick.len <= Log!Stands + Len(qTick.rest)
        /\ \A i \in 1..Len(qTick.rest) : qTick.rest[i] = qLog.cells[Log!Stands + i]
        /\ qTick.ino = qLog.ino /\ qTick.len <= Len(qLog.cells)
    BY <1>0 DEF Log!LinesInv, Log!TickShape
  <1>5. /\ qTick.off \in Nat /\ qTick.used \in Nat /\ Len(qLog.cells) \in Nat /\ Log!Stands \in Nat
        /\ qTick.rest \in Seq(0..LogMaxLines) /\ Len(qTick.rest) \in Nat /\ qTick.len \in Nat
        /\ qFails \in Nat /\ qCount \in [Log!Lines -> Nat]
    BY LogBasics
  <1>6. /\ rest \in Seq(0..LogMaxLines) /\ Len(rest) = Len(qTick.rest) - 2
        /\ \A i \in 1..Len(rest) : rest[i] = qTick.rest[i + 2]
    <2>1. 2 \in Nat /\ 2 <= Len(qTick.rest) /\ 2 + 1 = 3 BY <1>1, <1>5
    <2>2. \A i \in Nat : 2 + i = i + 2 OBVIOUS
    <2>3. /\ SubSeq(qTick.rest, 2 + 1, Len(qTick.rest)) \in Seq(0..LogMaxLines)
          /\ Len(SubSeq(qTick.rest, 2 + 1, Len(qTick.rest))) = Len(qTick.rest) - 2
          /\ \A i \in 1..(Len(qTick.rest) - 2) :
                SubSeq(qTick.rest, 2 + 1, Len(qTick.rest))[i] = qTick.rest[2 + i]
      BY <1>5, <2>1, LogSuffixL, ZenonT(40)
    <2> QED BY <2>1, <2>2, <2>3
  <1>7. qTick.used + 2 \in Log!Cells
    <2>1. Len(qLog.cells) \in Log!Cells
      <3>1. PICK n \in 0..qWritten : Len(qLog.cells) = 2 * n BY DEF Log!LinesInv, Log!LogShape
      <3>2. qWritten \in 0..LogMaxLines /\ LogMaxLines \in Nat BY DEF Log!TypeOK, Log!Bounds
      <3> QED BY <3>1, <3>2 DEF Log!Cells
    <2>2. qTick.used + 2 <= Len(qLog.cells) BY <1>1, <1>4, <1>5, SMTT(20) DEF Log!Stands
    <2>3. LogMaxLines \in Nat BY DEF Log!Bounds
    <2> QED BY <1>5, <2>1, <2>2, <2>3 DEF Log!Cells
  <1> HIDE DEF rest, x
  <1>8. /\ qTick'.step = "count" /\ qTick'.rest = rest /\ qTick'.off = qTick.off /\ qTick' \in Log!Ticks
        /\ qTick'.used = qTick.used + 2 /\ qTick'.len = qTick.len /\ qTick'.ino = qTick.ino
    BY <1>0, <1>3, <1>6, <1>7 DEF Log!TypeOK, Log!Ticks
  <1>9. qCount' \in [Log!Lines -> Nat] /\ (\A i \in Log!Lines : i # x => qCount'[i] = qCount[i])
        /\ qCount'[x] = (IF x \in LogTenants THEN qCount[x] + 1 ELSE qCount[x])
    BY <1>2, <1>3, <1>5
  <1>10. Log!TypeOK' BY <1>3, <1>8, <1>9 DEF Log!TypeOK
  <1>11. Log!LogShape' BY <1>3, LogStill DEF Log!LinesInv
  <1>12. Log!SavedShape' BY <1>3, <1>0, <1>8 DEF Log!LinesInv, Log!SavedShape
  <1>13. Log!Stands' = Log!Stands + 2 BY <1>5, <1>8 DEF Log!Stands
  <1>14. Log!TickShape'
    <2>1. qLog' = qLog BY <1>3
    <2>2. Log!Even(qTick'.off) /\ Log!Even(qTick'.used) /\ Log!Even(Len(qTick'.rest))
      <3>1. Log!Even(qTick.used + 2) BY <1>4, <1>5, LogEvenL
      <3>2. 2 \in Nat /\ 2 <= Len(qTick.rest) BY <1>1, <1>5
      <3>3. Log!Even(Len(qTick.rest) - 2) BY <1>4, <1>5, <3>2, LogEvenL
      <3> QED BY <1>4, <1>6, <1>8, <3>1, <3>3
    <2>3. /\ Log!Stands' + Len(qTick'.rest) = Log!Stands + Len(qTick.rest)
          /\ Log!Stands' <= Log!Stands' + Len(qTick'.rest)
      <3>1. ASSUME NEW a \in Nat, NEW b \in Nat, b >= 2
            PROVE  (a + 2) + (b - 2) = a + b /\ a + 2 <= (a + 2) + (b - 2)
        BY <3>1
      <3>2. Len(qTick'.rest) = Len(qTick.rest) - 2 BY <1>6, <1>8
      <3> QED BY <1>1, <1>5, <1>13, <3>1, <3>2
    <2>4. /\ Log!Stands' <= Len(qLog'.cells) /\ qTick'.len <= Len(qLog'.cells) /\ qTick'.ino = qLog'.ino
          /\ Log!Stands' + Len(qTick'.rest) <= Len(qLog'.cells)
          /\ qTick'.len <= Log!Stands' + Len(qTick'.rest)
      BY <1>4, <1>5, <1>8, <1>13, <2>1, <2>3
    <2>5. ASSUME NEW i \in 1..Len(qTick'.rest)
          PROVE  qTick'.rest[i] = qLog'.cells[Log!Stands' + i]
      <3>1. i + 2 \in 1..Len(qTick.rest) /\ Log!Stands + (i + 2) = Log!Stands' + i
        BY <1>1, <1>5, <1>6, <1>8, <1>13
      <3>2. rest[i] = qTick.rest[i + 2] BY <1>6, <1>8
      <3> QED BY <1>4, <1>8, <2>1, <3>1, <3>2
    <2> QED BY <1>8, <2>2, <2>4, <2>5 DEF Log!TickShape
  <1>15. Log!Ahead(Log!Stands)' = Log!Ahead(Log!Stands) \ {x} /\
         Log!Ahead(Log!Resume)' = Log!Ahead(Log!Resume)
    <2>1. Log!Ahead(Log!Stands)' = Log!Ahead(Log!Stands + 2)
      BY <1>3, <1>13 DEF Log!Ahead, Log!Behind, Log!Lines
    <2> QED BY <1>1, <1>3, <2>1, LogResumeStill
  <1>16. Log!NotYet'
    <2>1. Log!AtMost(Log!Ahead(Log!Stands), qFails) /\ Log!AtMost(Log!Lines, 1 + qFails)
          /\ \A i \in Log!Lines : i > qWritten => qCount[i] = 0
      BY <1>0 DEF Log!LinesInv, Log!NotYet
    <2>2. Log!Ahead(Log!Stands) \subseteq Log!Lines BY DEF Log!Ahead
    <2>3. Log!AtMost(Log!Ahead(Log!Stands), qFails)'
      BY <1>3, <1>9, <1>15, <2>1, <2>2 DEF Log!AtMost
    <2>4. ASSUME NEW i \in Log!Lines PROVE qCount'[i] <= 1 + qFails
      <3>1. CASE i = x
        <4>1. qCount[x] <= qFails /\ qCount[x] \in Nat BY <1>1, <1>2, <1>5, <2>1 DEF Log!AtMost
        <4> QED BY <1>5, <1>9, <3>1, <4>1
      <3>2. CASE i # x BY <1>9, <2>1, <3>2 DEF Log!AtMost
      <3> QED BY <3>1, <3>2
    <2>5. Log!AtMost(Log!Lines, 1 + qFails)' BY <1>3, <2>4 DEF Log!AtMost, Log!Lines
    <2>6. \A i \in Log!Lines : i > qWritten' => qCount'[i] = 0
      <3>1. ~(x > qWritten) /\ qWritten \in Nat BY <1>2, LogBasics
      <3> QED BY <1>3, <1>9, <2>1, <3>1
    <2> QED BY <1>8, <2>3, <2>5, <2>6 DEF Log!NotYet, Log!Lines
  <1>17. Log!Accounted'
    <2>1. Log!Missing(Log!Ahead(Log!Resume)) /\ Log!Missing(Log!Ahead(Log!Stands))
      BY <1>0 DEF Log!LinesInv, Log!Accounted
    <2>2. ASSUME NEW i \in LogTenants, i <= qWritten', qCount'[i] = 0
          PROVE  i # x /\ qCount[i] = 0 /\ i <= qWritten
      <3>1. i \in Log!Lines BY DEF Log!Bounds
      <3>2. i # x
        <4>1. qCount[x] + 1 # 0 BY <1>2, <1>5
        <4> QED BY <1>9, <2>2, <4>1
      <3> QED BY <1>3, <1>9, <2>2, <3>1, <3>2
    <2>3. Log!Missing(Log!Ahead(Log!Resume))' BY <1>3, <1>15, <2>1, <2>2 DEF Log!Missing
    <2>4. Log!Missing(Log!Ahead(Log!Stands))' BY <1>3, <1>15, <2>1, <2>2 DEF Log!Missing
    <2> QED BY <1>8, <2>3, <2>4 DEF Log!Accounted
  <1>18. qFails' + qLeft'.faults <= LogMaxFaults /\ qLog'.ino + qLeft'.rotations <= LogMaxRotations + 1
    BY <1>3 DEF Log!LinesInv
  <1> QED BY <1>10, <1>11, <1>12, <1>14, <1>16, <1>17, <1>18 DEF Log!LinesInv

(* Saving the offset keeps the invariant. *)
LEMMA LogSaveOffsetL ==
  ASSUME Log!Bounds, Log!TypeOK, Log!LinesInv, Log!SaveOffset
  PROVE  Log!TypeOK' /\ Log!LinesInv'
  <1>0. /\ qTick.step = "count" /\ qTick.rest = <<>> /\ Len(qTick.rest) = 0
        /\ qTick' = (IF qTick.len > LogTruncateAt THEN [qTick EXCEPT !.step = "check"] ELSE Log!NoTick)
        /\ UNCHANGED <<qLog, qCount, qSkipped, qRaced, qWritten>>
    BY DEF Log!SaveOffset
  <1>1. /\ qTick.off \in Nat /\ qTick.used \in Nat /\ Len(qLog.cells) \in Nat /\ Log!Stands \in Nat
        /\ qTick.len \in Nat /\ qFails \in Nat /\ qCount \in [Log!Lines -> Nat] /\ qLog.ino \in Nat
        /\ qSaved.ino \in Nat /\ qSaved.off \in Nat
    BY LogBasics
  <1>2. /\ Log!Even(qTick.off) /\ Log!Even(qTick.used) /\ Log!Stands <= Len(qLog.cells)
        /\ qTick.len <= Log!Stands
        /\ qTick.ino = qLog.ino /\ qTick.len <= Len(qLog.cells)
    BY <1>0, <1>1 DEF Log!LinesInv, Log!TickShape
  <1>3. Log!Even(Log!Stands)
    <2>1. Log!Even(qTick.off + qTick.used) BY <1>1, <1>2, LogEvenL
    <2> QED BY <2>1 DEF Log!Stands
  <1>4. Log!Stands \in Log!Cells
    <2>1. PICK n \in 0..qWritten : Len(qLog.cells) = 2 * n BY DEF Log!LinesInv, Log!LogShape
    <2>2. qWritten \in 0..LogMaxLines /\ LogMaxLines \in Nat BY DEF Log!TypeOK, Log!Bounds
    <2> QED BY <1>1, <1>2, <2>1, <2>2 DEF Log!Cells
  <1>5. qTick' \in Log!Ticks /\ qTick'.step \in {"idle", "check"}
    BY <1>0, LogNoTickL DEF Log!TypeOK, Log!Ticks, Log!Steps
  <1>6. qTick'.step = "check" => /\ qTick'.off = qTick.off /\ qTick'.used = qTick.used /\ Log!Stands' = Log!Stands
                                 /\ qTick'.len = qTick.len /\ qTick'.ino = qTick.ino
    BY <1>0, LogNoTickL DEF Log!TypeOK, Log!Ticks, Log!Stands
  <1>7. Log!LogShape' BY <1>0, LogStill DEF Log!LinesInv
  <1>8. Log!TickShape'
    <2>1. qTick'.step = "check" =>
            /\ Log!Even(qTick'.off) /\ Log!Even(qTick'.used) /\ Log!Stands' <= Len(qLog'.cells)
            /\ qTick'.len <= Len(qLog'.cells) /\ qTick'.len <= Log!Stands' /\ qTick'.ino = qLog'.ino
      BY <1>0, <1>2, <1>6
    <2> QED BY <1>5, <2>1 DEF Log!TickShape
  <1>9. /\ Log!AtMost(Log!Lines, 1 + qFails) /\ Log!AtMost(Log!Ahead(Log!Stands), qFails)
        /\ \A i \in Log!Lines : i > qWritten => qCount[i] = 0
    BY <1>0 DEF Log!LinesInv, Log!NotYet
  <1>10. Log!Missing(Log!Ahead(Log!Resume)) /\ Log!Missing(Log!Ahead(Log!Stands))
    BY <1>0 DEF Log!LinesInv, Log!Accounted
  <1>11. qTick'.step = "check" => Log!Missing(Log!Ahead(Log!Stands))'
    <2>1. qTick'.step = "check" => Log!Ahead(Log!Stands)' = Log!Ahead(Log!Stands)
      BY <1>0, <1>6 DEF Log!Ahead, Log!Behind, Log!Lines
    <2> QED BY <1>0, <1>10, <2>1 DEF Log!Missing
  <1>12. CASE /\ qSaved' = [ino |-> qTick.ino, off |-> qTick.off + qTick.used]
              /\ UNCHANGED <<qFails, qLeft>>
    <2>1. qSaved' = [ino |-> qLog.ino, off |-> Log!Stands] BY <1>2, <1>12 DEF Log!Stands
    <2>2. qSaved'.ino = qLog.ino /\ qSaved'.off = Log!Stands BY <2>1
    <2>3. Log!TypeOK'
      <3>1. qLog.ino \in Log!Inodes BY DEF Log!TypeOK
      <3>2. qSaved' \in [ino : Log!Inodes, off : Log!Cells] BY <1>4, <2>1, <3>1
      <3> QED BY <1>0, <1>5, <1>12, <3>2 DEF Log!TypeOK
    <2>4. Log!SavedShape'
      <3>1. qLog.ino + qLeft.rotations <= LogMaxRotations + 1 /\ ~(Log!Stands > Len(qLog.cells))
        BY <1>1, <1>2 DEF Log!LinesInv
      <3>2. qLog.ino # 0 BY DEF Log!TypeOK
      <3> QED BY <1>0, <1>1, <1>3, <2>2, <3>1, <3>2 DEF Log!SavedShape
    <2>5. Log!Resume' = Log!Stands
      BY <1>0, <1>1, <1>2, <2>2 DEF Log!Resume
    <2>6. Log!Ahead(Log!Resume)' = Log!Ahead(Log!Stands)
      BY <1>0, <2>5 DEF Log!Ahead, Log!Behind, Log!Lines
    <2>7. Log!NotYet'
      <3>1. Log!AtMost(Log!Ahead(Log!Resume), qFails)' BY <1>0, <1>9, <1>12, <2>6 DEF Log!AtMost
      <3>2. Log!AtMost(Log!Lines, 1 + qFails)' BY <1>0, <1>9, <1>12 DEF Log!AtMost, Log!Lines
      <3> QED BY <1>0, <1>5, <1>9, <3>1, <3>2 DEF Log!NotYet, Log!Lines
    <2>8. Log!Missing(Log!Ahead(Log!Resume))' BY <1>0, <1>10, <2>6 DEF Log!Missing
    <2>9. Log!Accounted' BY <1>5, <1>11, <2>8 DEF Log!Accounted
    <2>10. qFails' + qLeft'.faults <= LogMaxFaults /\
           qLog'.ino + qLeft'.rotations <= LogMaxRotations + 1
      BY <1>0, <1>12 DEF Log!LinesInv
    <2> QED BY <1>7, <1>8, <2>3, <2>4, <2>7, <2>9, <2>10 DEF Log!LinesInv
  <1>13. CASE Log!Fails /\ UNCHANGED qSaved
    <2>1. qFails' = qFails + 1 BY <1>13, LogFailsL
    <2>2. Log!TypeOK' BY <1>0, <1>5, <1>13, LogFailsL DEF Log!TypeOK
    <2>3. Log!SavedShape' BY <1>0, <1>5, <1>13 DEF Log!LinesInv, Log!SavedShape
    <2>4. Log!Ahead(Log!Resume)' = Log!Ahead(Log!Resume) /\ Log!Ahead(Log!Resume) \in SUBSET Log!Lines
      BY <1>0, <1>13, LogResumeStill DEF Log!Ahead
    <2>5. Log!NotYet'
      <3>1. Log!AtMost(Log!Ahead(Log!Resume), qFails)'
        BY <1>0, <2>1, <2>4, LogWorse DEF Log!AtMost
      <3>2. \A i \in Log!Lines : qCount'[i] <= qFails' BY <1>0, <2>1, LogWorse
      <3>3. \A i \in Log!Lines : qCount'[i] <= 1 + qFails' BY <1>0, <1>1, <2>1, <3>2
      <3>4. Log!AtMost(Log!Lines, 1 + qFails)' BY <3>3 DEF Log!AtMost, Log!Lines
      <3> QED BY <1>0, <1>5, <1>9, <3>1, <3>4 DEF Log!NotYet, Log!Lines
    <2>6. Log!Missing(Log!Ahead(Log!Resume))' BY <1>0, <1>10, <2>4 DEF Log!Missing
    <2>7. Log!Accounted' BY <1>5, <1>11, <2>6 DEF Log!Accounted
    <2>8. qFails' + qLeft'.faults <= LogMaxFaults /\ qLog'.ino + qLeft'.rotations <= LogMaxRotations + 1
      BY <1>0, <1>13, LogFailsL DEF Log!LinesInv
    <2> QED BY <1>7, <1>8, <2>2, <2>3, <2>5, <2>7, <2>8 DEF Log!LinesInv
  <1> QED BY <1>12, <1>13 DEF Log!SaveOffset

(* Nothing lies ahead in an empty file. *)
LEMMA LogGone ==
  ASSUME Log!Bounds, qWritten' \in Nat, Len(qLog'.cells) = 0
  PROVE  Log!Ahead(0)' = {}
  <1>1. \A i \in Log!Lines : i \in Nat BY DEF Log!Lines, Log!Bounds
  <1>2. \A i \in Log!Lines : ~(i <= qWritten' /\ 2 * i > 2 * qWritten' - 0 + 0) BY <1>1
  <1> QED BY <1>2 DEF Log!Ahead, Log!Behind, Log!Lines

(* A line that the edge appends lies ahead of every offset. *)
LEMMA LogGrown ==
  ASSUME Log!Bounds, Log!TypeOK, qWritten' = qWritten + 1, qWritten < LogMaxLines,
         Len(qLog'.cells) = Len(qLog.cells) + 2, NEW off \in Nat, off <= Len(qLog.cells)
  PROVE  Log!Ahead(off)' = Log!Ahead(off) \cup {qWritten + 1}
  <1> DEFINE n == Len(qLog.cells)  w == qWritten
  <1>1. n \in Nat /\ w \in Nat /\ LogMaxLines \in Nat BY LogBasics
  <1>2. \A i : i \in Log!Ahead(off) <=> i \in 1..LogMaxLines /\ i <= w /\ 2 * i > 2 * w - n + off
    BY DEF Log!Ahead, Log!Behind, Log!Lines
  <1>3. \A i : i \in Log!Ahead(off)' <=> i \in 1..LogMaxLines /\ i <= w + 1 /\ 2 * i > 2 * (w + 1) - (n + 2) + off
    BY DEF Log!Ahead, Log!Behind, Log!Lines
  <1>a. w < LogMaxLines /\ off <= n OBVIOUS
  <1> HIDE DEF n, w
  <1>4. \A i \in 1..LogMaxLines : (i <= w + 1 /\ 2 * i > 2 * (w + 1) - (n + 2) + off)
                              <=> (i <= w /\ 2 * i > 2 * w - n + off) \/ i = w + 1
    BY <1>1, <1>a
  <1>5. w + 1 \in 1..LogMaxLines BY <1>1, <1>a
  <1>6. \A i : i \in Log!Ahead(off)' <=> i \in Log!Ahead(off) \/ i = w + 1
    BY <1>2, <1>3, <1>4, <1>5
  <1> QED BY <1>6 DEF w

(* Deciding whether to truncate keeps the invariant. *)
LEMMA LogCheckSizeL ==
  ASSUME Log!Bounds, Log!TypeOK, Log!LinesInv, Log!CheckSize
  PROVE  Log!TypeOK' /\ Log!LinesInv'
  <1>0. /\ qTick.step = "check"
        /\ qTick' = (IF Log!SizeStands THEN [qTick EXCEPT !.step = "empty"] ELSE Log!NoTick)
        /\ UNCHANGED <<qLog, qSaved, qCount, qSkipped, qRaced, qWritten, qFails, qLeft>>
    BY DEF Log!CheckSize
  <1>1. qTick' \in Log!Ticks /\ qTick'.step \in {"idle", "empty"}
    BY <1>0, LogNoTickL DEF Log!TypeOK, Log!Ticks, Log!Steps
  <1>2. qTick'.step = "empty" => Log!SizeStands /\ qTick'.ino = qTick.ino
    BY <1>0, LogNoTickL DEF Log!TypeOK, Log!Ticks
  <1>3. Log!TypeOK' BY <1>0, <1>1 DEF Log!TypeOK
  <1>4. Log!LogShape' BY <1>0, LogStill DEF Log!LinesInv
  <1>5. Log!SavedShape' BY <1>0, <1>1 DEF Log!LinesInv, Log!SavedShape
  <1>6. Log!TickShape' BY <1>0, <1>1, <1>2 DEF Log!LinesInv, Log!TickShape
  <1>7. Log!Ahead(Log!Resume)' = Log!Ahead(Log!Resume) BY <1>0, LogResumeStill
  <1>8. Log!NotYet' BY <1>0, <1>1, <1>7 DEF Log!LinesInv, Log!NotYet, Log!AtMost, Log!Lines
  <1>9. Log!Accounted'
    <2>1. Log!Missing(Log!Ahead(Log!Resume)) /\ Log!Missing(Log!Ahead(Log!Stands)) /\
          qTick.len <= Log!Stands
      BY <1>0 DEF Log!LinesInv, Log!Accounted, Log!TickShape
    <2>2. Log!Missing(Log!Ahead(Log!Resume))' BY <1>0, <1>7, <2>1 DEF Log!Missing
    <2>3. ASSUME Log!SizeStands PROVE Log!Missing({})'
      <3>1. Log!Stands \in Nat /\ Len(qLog.cells) \in Nat BY LogBasics
      <3>2. Log!Stands >= Len(qLog.cells) BY <2>1, <2>3, <3>1 DEF Log!SizeStands
      <3>3. Log!Ahead(Log!Stands) = {} BY <3>1, <3>2, LogFewer
      <3> QED BY <1>0, <2>1, <3>3 DEF Log!Missing
    <2> QED BY <1>1, <1>2, <2>2, <2>3 DEF Log!Accounted
  <1>10. qFails' + qLeft'.faults <= LogMaxFaults /\ qLog'.ino + qLeft'.rotations <= LogMaxRotations + 1
    BY <1>0 DEF Log!LinesInv
  <1> QED BY <1>3, <1>4, <1>5, <1>6, <1>8, <1>9, <1>10 DEF Log!LinesInv

(* Truncating the file keeps the invariant. *)
LEMMA LogTruncateL ==
  ASSUME Log!Bounds, Log!TypeOK, Log!LinesInv, Log!Truncate
  PROVE  Log!TypeOK' /\ Log!LinesInv'
  <1>0. /\ qTick.step = "empty" /\ qTick' = [qTick EXCEPT !.step = "zero"]
        /\ qLog' = [qLog EXCEPT !.cells = <<>>]
        /\ UNCHANGED <<qSaved, qCount, qSkipped, qRaced, qWritten, qFails, qLeft>>
    BY DEF Log!Truncate, Log!Go
  <1>1. qTick' \in Log!Ticks /\ qTick'.step = "zero" /\ qTick'.ino = qTick.ino
    BY <1>0 DEF Log!TypeOK, Log!Ticks, Log!Steps
  <1>2. /\ qLog' \in [ino : Log!Inodes \ {0}, cells : Seq(0..LogMaxLines)]
        /\ qLog'.ino = qLog.ino /\ qLog'.cells = <<>> /\ Len(qLog'.cells) = 0
    <2>1. qLog \in [ino : Log!Inodes \ {0}, cells : Seq(0..LogMaxLines)] BY DEF Log!TypeOK
    <2>2. <<>> \in Seq(0..LogMaxLines) /\ Len(<<>>) = 0 OBVIOUS
    <2>3. qLog'.ino = qLog.ino /\ qLog'.cells = <<>> BY <1>0, <2>1
    <2>4. qLog' \in [ino : Log!Inodes \ {0}, cells : Seq(0..LogMaxLines)] BY <1>0, <2>1, <2>2
    <2> QED BY <2>2, <2>3, <2>4
  <1>3. Log!TypeOK' BY <1>0, <1>1, <1>2 DEF Log!TypeOK
  <1>4. Log!LogShape'
    <2>1. qWritten \in Nat BY LogBasics
    <2>2. 0 \in 0..qWritten' /\ Len(qLog'.cells) = 2 * 0 /\ \A j \in 1..0 : FALSE
      BY <1>0, <1>2, <2>1
    <2> QED BY <2>2 DEF Log!LogShape
  <1>5. Log!SavedShape' BY <1>0, <1>1, <1>2 DEF Log!LinesInv, Log!SavedShape
  <1>6. Log!TickShape' BY <1>0, <1>1, <1>2 DEF Log!LinesInv, Log!TickShape
  <1>7. Log!Ahead(0)' = {}
    <2>1. qWritten' \in Nat BY <1>0, LogBasics
    <2> QED BY <1>2, <2>1, LogGone
  <1>8. Log!NotYet' BY <1>0, <1>1, <1>7 DEF Log!LinesInv, Log!NotYet, Log!AtMost, Log!Lines
  <1>9. Log!Accounted'
    <2>1. Log!Missing({}) BY <1>0 DEF Log!LinesInv, Log!Accounted
    <2>2. Log!Missing(Log!Ahead(0))' BY <1>0, <1>7, <2>1 DEF Log!Missing
    <2> QED BY <1>1, <2>2 DEF Log!Accounted
  <1>10. qFails' + qLeft'.faults <= LogMaxFaults /\ qLog'.ino + qLeft'.rotations <= LogMaxRotations + 1
    BY <1>0, <1>2 DEF Log!LinesInv
  <1> QED BY <1>3, <1>4, <1>5, <1>6, <1>8, <1>9, <1>10 DEF Log!LinesInv

(* Saving offset zero keeps the invariant. *)
LEMMA LogSaveZeroL ==
  ASSUME Log!Bounds, Log!TypeOK, Log!LinesInv, Log!SaveZero
  PROVE  Log!TypeOK' /\ Log!LinesInv'
  <1>0. /\ qTick.step = "zero" /\ qTick' = Log!NoTick /\ qSaved' = [ino |-> qTick.ino, off |-> 0]
        /\ UNCHANGED <<qLog, qCount, qSkipped, qRaced, qWritten, qFails, qLeft>>
        /\ qTick.ino = qLog.ino
    BY DEF Log!SaveZero, Log!LinesInv, Log!TickShape
  <1>1. qTick' \in Log!Ticks /\ qTick'.step = "idle" BY <1>0, LogNoTickL
  <1>2. /\ qSaved' \in [ino : Log!Inodes, off : Log!Cells] /\ qSaved'.ino = qLog.ino /\ qSaved'.off = 0
    BY <1>0 DEF Log!TypeOK, Log!Cells, Log!Bounds
  <1>3. Log!TypeOK' BY <1>0, <1>1, <1>2 DEF Log!TypeOK
  <1>4. Log!LogShape' BY <1>0, LogStill DEF Log!LinesInv
  <1>a. Len(qLog.cells) \in Nat /\ qLog.ino \in Nat BY LogBasics
  <1>5. Log!SavedShape'
    <2>1. ~(0 > Len(qLog.cells)) /\ qLog.ino <= qLog.ino BY <1>a
    <2> QED BY <1>0, <1>2, <2>1, LogEvenL DEF Log!SavedShape
  <1>6. Log!TickShape' BY <1>1 DEF Log!TickShape
  <1>7. Log!Resume' = 0 BY <1>0, <1>2, <1>a DEF Log!Resume
  <1>8. Log!Ahead(Log!Resume)' = Log!Ahead(0) BY <1>0, <1>7 DEF Log!Ahead, Log!Behind, Log!Lines
  <1>9. Log!NotYet' BY <1>0, <1>1, <1>8 DEF Log!LinesInv, Log!NotYet, Log!AtMost, Log!Lines
  <1>10. Log!Accounted'
    <2>1. Log!Missing(Log!Ahead(0)) BY <1>0 DEF Log!LinesInv, Log!Accounted
    <2>2. Log!Missing(Log!Ahead(Log!Resume))' BY <1>0, <1>8, <2>1 DEF Log!Missing
    <2> QED BY <1>1, <2>2 DEF Log!Accounted
  <1>11. qFails' + qLeft'.faults <= LogMaxFaults /\ qLog'.ino + qLeft'.rotations <= LogMaxRotations + 1
    BY <1>0 DEF Log!LinesInv
  <1> QED BY <1>3, <1>4, <1>5, <1>6, <1>9, <1>10, <1>11 DEF Log!LinesInv

(* A log that is replaced by a new file keeps the invariant. *)
LEMMA LogLogReplacedL ==
  ASSUME Log!Bounds, Log!TypeOK, Log!LinesInv, Log!LogReplaced
  PROVE  Log!TypeOK' /\ Log!LinesInv'
  <1>0. /\ qLeft.rotations > 0 /\ qTick.step = "idle"
        /\ qLeft' = [qLeft EXCEPT !.rotations = qLeft.rotations - 1]
        /\ qSkipped' = qSkipped \cup Log!LinesIn(qLog.cells)
        /\ qLog' = [ino |-> qLog.ino + 1, cells |-> <<>>]
        /\ UNCHANGED <<qSaved, qTick, qCount, qRaced, qWritten, qFails>>
    BY DEF Log!LogReplaced
  <1>1. /\ qLog.ino \in Nat /\ qLeft.rotations \in Nat /\ LogMaxRotations \in Nat /\ qWritten \in Nat
        /\ qSaved.ino \in Nat /\ qSaved.off \in Nat /\ qLeft.faults \in Nat
    BY LogBasics
  <1>2. qLeft' \in [rotations : 0..LogMaxRotations, faults : 0..LogMaxFaults]
        /\ qLeft'.rotations = qLeft.rotations - 1 /\ qLeft'.faults = qLeft.faults
    BY <1>0, <1>1 DEF Log!TypeOK
  <1>3. qLog.ino + qLeft.rotations <= LogMaxRotations + 1 /\ qLog.ino # 0
    BY DEF Log!LinesInv, Log!TypeOK
  <1>4. /\ qLog' \in [ino : Log!Inodes \ {0}, cells : Seq(0..LogMaxLines)]
        /\ qLog'.ino = qLog.ino + 1 /\ qLog'.cells = <<>> /\ Len(qLog'.cells) = 0
        /\ qLog'.ino + qLeft'.rotations <= LogMaxRotations + 1
    BY <1>0, <1>1, <1>2, <1>3, SMTT(20) DEF Log!Inodes
  <1>5. Log!LinesIn(qLog.cells) = Log!Ahead(0) BY LogAllAhead DEF Log!LinesInv
  <1>6. Log!TypeOK'
    <2>1. Log!Ahead(0) \subseteq Log!Lines BY DEF Log!Ahead
    <2>2. qSkipped' \subseteq Log!Lines BY <1>0, <1>5, <2>1 DEF Log!TypeOK
    <2> QED BY <1>0, <1>2, <1>4, <2>2 DEF Log!TypeOK
  <1>7. Log!LogShape'
    <2>1. 0 \in 0..qWritten' /\ Len(qLog'.cells) = 2 * 0 /\ \A j \in 1..0 : FALSE
      BY <1>0, <1>1, <1>4
    <2> QED BY <2>1 DEF Log!LogShape
  <1>8. qSaved.ino <= qLog.ino /\ (qSaved.ino = 0 => qSaved.off = 0) /\ Log!Even(qSaved.off)
    BY DEF Log!LinesInv, Log!SavedShape
  <1>9. qSaved'.ino # qLog'.ino /\ qSaved'.ino <= qLog'.ino BY <1>0, <1>1, <1>4, <1>8
  <1>10. Log!SavedShape' BY <1>0, <1>8, <1>9 DEF Log!SavedShape
  <1>11. Log!TickShape' BY <1>0 DEF Log!TickShape
  <1>12. Log!Resume' = 0 BY <1>0, <1>8, <1>9 DEF Log!Resume
  <1>13. Log!Ahead(Log!Resume)' = {}
    <2>1. Log!Ahead(0)' = {} BY <1>0, <1>1, <1>4, LogGone
    <2> QED BY <1>12, <2>1 DEF Log!Ahead, Log!Behind
  <1>14. Log!NotYet' BY <1>0, <1>13 DEF Log!LinesInv, Log!NotYet, Log!AtMost, Log!Lines
  <1>15. Log!Accounted'
    <2>1. Log!Missing(Log!Ahead(Log!Resume)) BY <1>0 DEF Log!LinesInv, Log!Accounted
    <2>2. Log!Ahead(Log!Resume) \subseteq Log!Ahead(0)
      <3>1. Log!Resume \in Nat /\ 0 \in Nat /\ 0 <= Log!Resume BY LogResumeL
      <3> QED BY <3>1, LogFewer
    <2>3. Log!Missing(Log!Ahead(Log!Resume))' BY <1>0, <1>5, <2>1, <2>2 DEF Log!Missing
    <2> QED BY <1>0, <2>3 DEF Log!Accounted
  <1>16. qFails' + qLeft'.faults <= LogMaxFaults BY <1>0, <1>2 DEF Log!LinesInv
  <1> QED BY <1>4, <1>6, <1>7, <1>10, <1>11, <1>14, <1>15, <1>16 DEF Log!LinesInv

(* A line of the edge keeps the invariant. *)
LEMMA LogEdgeAppendsL ==
  ASSUME Log!Bounds, Log!TypeOK, Log!LinesInv, Log!EdgeAppends
  PROVE  Log!TypeOK' /\ Log!LinesInv'
  <1> DEFINE x == qWritten + 1  cells == qLog.cells
  <1>0. /\ qWritten < LogMaxLines /\ qWritten' = x
        /\ qLog' = [qLog EXCEPT !.cells = cells \o <<x, Log!NL>>]
        /\ qRaced' = (IF qTick.step = "empty" THEN qRaced \cup {x} ELSE qRaced)
        /\ UNCHANGED <<qSaved, qTick, qCount, qSkipped, qFails, qLeft>>
    BY DEF Log!EdgeAppends
  <1>1. /\ qWritten \in Nat /\ LogMaxLines \in Nat /\ cells \in Seq(0..LogMaxLines)
        /\ Len(cells) \in Nat
        /\ Log!Stands \in Nat /\ Len(qTick.rest) \in Nat /\ qTick.len \in Nat /\ qFails \in Nat
        /\ qCount \in [Log!Lines -> Nat] /\ qSaved.off \in Nat
    BY LogBasics
  <1>2. x \in Nat /\ x \in Log!Lines /\ x \in 0..LogMaxLines /\ Log!NL \in 0..LogMaxLines
    BY <1>0, <1>1 DEF Log!Lines, Log!NL
  <1>3. <<x, Log!NL>> \in Seq(0..LogMaxLines) /\ Len(<<x, Log!NL>>) = 2 BY <1>2
  <1>4. /\ qLog'.ino = qLog.ino /\ qLog'.cells = cells \o <<x, Log!NL>>
        /\ Len(qLog'.cells) = Len(cells) + 2
        /\ qLog' \in [ino : Log!Inodes \ {0}, cells : Seq(0..LogMaxLines)]
        /\ \A i \in 1..Len(cells) : qLog'.cells[i] = cells[i]
        /\ qLog'.cells[Len(cells) + 1] = x /\ qLog'.cells[Len(cells) + 2] = Log!NL
    <2>1. cells \o <<x, Log!NL>> \in Seq(0..LogMaxLines) /\ Len(cells \o <<x, Log!NL>>) = Len(cells) + 2
      BY <1>1, <1>3
    <2>2. \A i \in 1..Len(cells) : (cells \o <<x, Log!NL>>)[i] = cells[i] BY <1>1, <1>3
    <2>3. (cells \o <<x, Log!NL>>)[Len(cells) + 1] = x /\
          (cells \o <<x, Log!NL>>)[Len(cells) + 2] = Log!NL
      BY <1>1, <1>3
    <2>4. qLog'.ino = qLog.ino /\ qLog'.cells = cells \o <<x, Log!NL>> BY <1>0 DEF Log!TypeOK
    <2>5. qLog' \in [ino : Log!Inodes \ {0}, cells : Seq(0..LogMaxLines)]
      BY <1>0, <2>1 DEF Log!TypeOK
    <2> QED BY <2>1, <2>2, <2>3, <2>4, <2>5
  <1> HIDE DEF cells
  <1>5. Log!TypeOK'
    <2>1. qRaced' \subseteq Log!Lines BY <1>0, <1>2 DEF Log!TypeOK
    <2>2. qWritten' \in 0..LogMaxLines BY <1>0, <1>2
    <2> QED BY <1>0, <1>4, <2>1, <2>2 DEF Log!TypeOK
  <1>6. Log!LogShape'
    <2>1. PICK n \in 0..qWritten :
            /\ Len(cells) = 2 * n
            /\ \A j \in 1..n : cells[2 * j - 1] = qWritten - n + j /\ cells[2 * j] = Log!NL
      BY DEF Log!LinesInv, Log!LogShape, cells
    <2>a. n \in Nat /\ n <= qWritten /\ qWritten' = qWritten + 1 BY <1>0, <1>1, <2>1
    <2>b. Len(qLog'.cells) = 2 * n + 2 BY <1>4, <2>1
    <2>2. n \in Nat /\ n + 1 \in 0..qWritten' /\ Len(qLog'.cells) = 2 * (n + 1)
      BY <1>1, <2>a, <2>b
    <2>3. ASSUME NEW j \in 1..(n + 1)
          PROVE  qLog'.cells[2 * j - 1] = qWritten' - (n + 1) + j /\ qLog'.cells[2 * j] = Log!NL
      <3>1. CASE j = n + 1
        <4>1. 2 * j - 1 = Len(cells) + 1 /\ 2 * j = Len(cells) + 2 /\ qWritten' - (n + 1) + j = x
          <5>1. 2 * j - 1 = 2 * n + 1 /\ 2 * j = 2 * n + 2 BY <2>a, <3>1
          <5>2. qWritten' - (n + 1) + j = qWritten + 1 BY <1>1, <2>a, <3>1
          <5> QED BY <2>1, <5>1, <5>2
        <4> QED BY <1>4, <4>1
      <3>2. CASE j # n + 1
        <4>1. /\ j \in 1..n /\ 2 * j - 1 \in 1..Len(cells) /\ 2 * j \in 1..Len(cells)
              /\ qWritten' - (n + 1) + j = qWritten - n + j
          <5>1. j \in 1..n /\ 2 * j - 1 \in 1..(2 * n) /\ 2 * j \in 1..(2 * n) BY <2>a, <3>2
          <5>2. qWritten' - (n + 1) + j = qWritten - n + j BY <1>1, <2>a, <5>1
          <5> QED BY <2>1, <5>1, <5>2
        <4> QED BY <1>4, <2>1, <4>1
      <3> QED BY <3>1, <3>2
    <2> QED BY <2>2, <2>3 DEF Log!LogShape
  <1>7. Log!SavedShape'
    <2>1. Log!SavedShape BY DEF Log!LinesInv
    <2>2. qSaved.off > Len(qLog'.cells) => qSaved.off > Len(qLog.cells) BY <1>1, <1>4 DEF cells
    <2> QED BY <1>0, <1>4, <2>1, <2>2 DEF Log!SavedShape
  <1>8. Log!Stands' = Log!Stands BY <1>0 DEF Log!Stands
  <1>9. Log!TickShape'
    <2>1. Log!TickShape BY DEF Log!LinesInv
    <2>2. Len(cells) = Len(qLog.cells) BY DEF cells
    <2>3. qTick.step # "idle" => qTick'.ino = qLog'.ino BY <1>0, <1>4, <2>1 DEF Log!TickShape
    <2>4. qTick.step \in {"read", "count", "check"} =>
            /\ Log!Even(qTick'.off) /\ Log!Even(qTick'.used)
            /\ Log!Stands' <= Len(qLog'.cells) /\ qTick'.len <= Len(qLog'.cells)
      <3>1. qTick.step \in {"read", "count", "check"} =>
              Log!Stands <= Len(cells) /\ qTick.len <= Len(cells) /\ Log!Even(qTick.off) /\
              Log!Even(qTick.used)
        BY <2>1, <2>2 DEF Log!TickShape
      <3> QED BY <1>0, <1>1, <1>4, <1>8, <3>1
    <2>5. ASSUME qTick.step = "count"
          PROVE  /\ Log!Even(Len(qTick'.rest)) /\ Log!Stands' + Len(qTick'.rest) <= Len(qLog'.cells)
                 /\ \A i \in 1..Len(qTick'.rest) : qTick'.rest[i] = qLog'.cells[Log!Stands' + i]
                 /\ qTick'.len <= Log!Stands' + Len(qTick'.rest)
      <3>1. /\ Log!Even(Len(qTick.rest)) /\ Log!Stands + Len(qTick.rest) <= Len(cells)
            /\ \A i \in 1..Len(qTick.rest) : qTick.rest[i] = cells[Log!Stands + i]
            /\ qTick.len <= Log!Stands + Len(qTick.rest)
        BY <2>1, <2>5 DEF Log!TickShape, cells
      <3>2. \A i \in 1..Len(qTick.rest) : Log!Stands + i \in 1..Len(cells) BY <1>1, <3>1
      <3>3. Log!Stands + Len(qTick.rest) <= Len(qLog'.cells) BY <1>1, <1>4, <3>1
      <3> QED BY <1>0, <1>4, <1>8, <3>1, <3>2, <3>3
    <2>6. qTick.step \in {"read", "check"} =>
            (qTick.step = "read" => qTick'.used = 0) /\
            (qTick.step = "check" => qTick'.len <= Log!Stands')
      BY <1>0, <1>8, <2>1 DEF Log!TickShape
    <2> QED BY <1>0, <2>3, <2>4, <2>5, <2>6 DEF Log!TickShape
  <1>10. \A off \in Nat : off <= Len(cells) => Log!Ahead(off)' = Log!Ahead(off) \cup {x}
    BY <1>0, <1>4, LogGrown DEF cells
  <1>11. qCount[x] = 0
    <2>1. x > qWritten BY <1>1
    <2> QED BY <1>2, <2>1 DEF Log!LinesInv, Log!NotYet
  <1>12. Log!Resume \in Nat /\ Log!Resume <= Len(cells) BY LogResumeL DEF cells
  <1>13. ASSUME qTick.step # "zero"
         PROVE  Log!Resume' = Log!Resume \/ (qSkipped = Log!Lines /\ Log!Resume = 0 /\ Log!Resume' \in Nat)
    <2>1. Log!SavedShape BY DEF Log!LinesInv
    <2>2. CASE qSaved.off > Len(cells)
      <3>1. CASE qSaved.ino = qLog.ino
        <4>1. qSkipped = Log!Lines BY <1>13, <2>1, <2>2, <3>1 DEF Log!SavedShape, cells
        <4>2. Log!Resume = 0 /\ Log!Resume' \in Nat BY <1>0, <1>1, <2>2 DEF Log!Resume, cells
        <4> QED BY <4>1, <4>2
      <3>2. CASE qSaved.ino # qLog.ino
        <4>1. qSaved.ino # 0 BY <1>1, <2>1, <2>2 DEF Log!SavedShape
        <4> QED BY <1>0, <1>4, <3>2, <4>1 DEF Log!Resume
      <3> QED BY <3>1, <3>2
    <2>3. CASE ~(qSaved.off > Len(cells))
      <3>1. ~(qSaved.off > Len(qLog'.cells)) BY <1>1, <1>4, <2>3
      <3> QED BY <1>0, <1>4, <2>3, <3>1 DEF Log!Resume, cells
    <2> QED BY <2>2, <2>3
  <1> HIDE DEF x
  <1>14. ASSUME qTick.step # "zero"
         PROVE  Log!Ahead(Log!Resume)' \subseteq Log!Ahead(Log!Resume) \cup {x}
    <2>1. CASE Log!Resume' = Log!Resume
      <3>1. Log!Ahead(Log!Resume)' = Log!Ahead(Log!Resume) \cup {x}
        <4>1. PICK r \in Nat : r = Log!Resume /\ r <= Len(cells) BY <1>12
        <4>2. Log!Ahead(r)' = Log!Ahead(r) \cup {x} BY <1>10, <4>1
        <4>3. Log!Ahead(Log!Resume)' = Log!Ahead(r)' BY <2>1, <4>1 DEF Log!Ahead, Log!Behind
        <4> QED BY <4>1, <4>2, <4>3
      <3> QED BY <3>1
    <2>2. CASE Log!Resume = 0 /\ Log!Resume' \in Nat
      <3>1. Log!Ahead(0)' = Log!Ahead(0) \cup {x} BY <1>1, <1>10
      <3>2. ASSUME NEW i \in Log!Lines, 2 * i > 2 * qWritten' - Len(qLog'.cells) + Log!Resume'
            PROVE  2 * i > 2 * qWritten' - Len(qLog'.cells) + 0
        <4>1. i \in Nat /\ qWritten' \in Nat /\ Len(qLog'.cells) \in Nat /\ Log!Resume' \in Nat
          <5>1. i \in Nat BY <1>1 DEF Log!Lines
          <5>2. qWritten' \in Nat BY <1>0, <1>2
          <5>3. Len(qLog'.cells) \in Nat BY <1>1, <1>4
          <5> QED BY <2>2, <5>1, <5>2, <5>3
        <4> QED BY <3>2, <4>1
      <3>3. Log!Ahead(Log!Resume)' \subseteq Log!Ahead(0)'
        BY <3>2 DEF Log!Ahead, Log!Behind, Log!Lines
      <3> QED BY <2>2, <3>1, <3>3
    <2> QED BY <1>13, <1>14, <2>1, <2>2
  <1>15. ASSUME qTick.step \in {"read", "count", "check"}
         PROVE  Log!Ahead(Log!Stands)' = Log!Ahead(Log!Stands) \cup {x}
    <2>1. Log!Stands <= Len(cells) BY <1>15 DEF Log!LinesInv, Log!TickShape, cells
    <2>2. PICK r \in Nat : r = Log!Stands /\ r <= Len(cells) BY <1>1, <2>1
    <2>3. Log!Ahead(r)' = Log!Ahead(r) \cup {x} BY <1>10, <2>2
    <2>4. Log!Ahead(Log!Stands)' = Log!Ahead(r)' BY <1>8, <2>2 DEF Log!Ahead, Log!Behind
    <2> QED BY <2>2, <2>3, <2>4
  <1>16. Log!Ahead(0)' = Log!Ahead(0) \cup {x} BY <1>1, <1>10
  <1>17. Log!NotYet'
    <2>0. Log!NotYet BY DEF Log!LinesInv
    <2>1. qCount[x] <= qFails BY <1>1, <1>11
    <2>2. qTick.step \in {"idle", "check", "empty"} => Log!AtMost(Log!Ahead(Log!Resume), qFails)'
      BY <1>0, <1>14, <2>0, <2>1 DEF Log!NotYet, Log!AtMost
    <2>3. qTick.step \in {"read", "count"} => Log!AtMost(Log!Ahead(Log!Stands), qFails)'
      BY <1>0, <1>15, <2>0, <2>1 DEF Log!NotYet, Log!AtMost
    <2>4. qTick.step = "zero" => Log!AtMost(Log!Ahead(0), qFails)'
      BY <1>0, <1>16, <2>0, <2>1 DEF Log!NotYet, Log!AtMost
    <2>5. \A i \in Log!Lines : i > qWritten' => qCount'[i] = 0
      <3>1. \A i \in Log!Lines : i \in Nat /\ (i > qWritten' => i > qWritten)
        BY <1>0, <1>1, <1>2 DEF Log!Lines, x
      <3> QED BY <1>0, <2>0, <3>1 DEF Log!NotYet
    <2>6. Log!AtMost(Log!Lines, 1 + qFails)' BY <1>0, <2>0 DEF Log!NotYet, Log!AtMost, Log!Lines
    <2> QED BY <1>0, <2>2, <2>3, <2>4, <2>5, <2>6 DEF Log!NotYet, Log!Lines
  <1>18. Log!Accounted'
    <2>0. Log!Accounted BY DEF Log!LinesInv
    <2>1. ASSUME NEW i \in LogTenants, i <= qWritten', i # x PROVE i <= qWritten
      <3>1. i \in Nat BY DEF Log!Bounds, Log!Lines
      <3> QED BY <1>0, <1>1, <2>1, <3>1 DEF x
    <2>2. qRaced \subseteq qRaced' /\ (qTick.step = "empty" => x \in qRaced') BY <1>0
    <2>3. ASSUME NEW S, NEW T, Log!Missing(S),
                 S \cup {x} \subseteq T \/ (qTick.step = "empty" /\ S \subseteq T), 
                 NEW i \in LogTenants, i <= qWritten', qCount'[i] = 0
          PROVE  i \in qSkipped' \cup qRaced' \cup T
      BY <1>0, <2>1, <2>2, <2>3 DEF Log!Missing
    <2>4. qTick.step # "zero" => Log!Missing(Log!Ahead(Log!Resume))'
      <3>1. ASSUME qTick.step # "zero", qSkipped = Log!Lines
            PROVE  Log!Missing(Log!Ahead(Log!Resume))'
        BY <1>0, <3>1 DEF Log!Missing, Log!Bounds
      <3>2. ASSUME qTick.step # "zero", Log!Resume' = Log!Resume
            PROVE  Log!Missing(Log!Ahead(Log!Resume))'
        <4>1. PICK r \in Nat : r = Log!Resume /\ r <= Len(cells) BY <1>12
        <4>2. Log!Ahead(r)' = Log!Ahead(r) \cup {x} BY <1>10, <4>1
        <4>3. Log!Ahead(Log!Resume)' = Log!Ahead(r)' BY <3>2, <4>1 DEF Log!Ahead, Log!Behind
        <4>4. Log!Missing(Log!Ahead(Log!Resume)) BY <2>0, <3>2 DEF Log!Accounted
        <4>5. Log!Ahead(Log!Resume) \cup {x} \subseteq Log!Ahead(Log!Resume)'
          BY <4>1, <4>2, <4>3
        <4> QED BY <2>3, <4>4, <4>5 DEF Log!Missing
      <3> QED BY <1>13, <3>1, <3>2
    <2>5. qTick.step \in {"read", "count", "check"} => Log!Missing(Log!Ahead(Log!Stands))'
      <3>1. qTick.step \in {"read", "count", "check"} => Log!Missing(Log!Ahead(Log!Stands))
        BY <2>0 DEF Log!Accounted
      <3> QED BY <1>15, <2>3, <3>1 DEF Log!Missing
    <2>6. qTick.step = "empty" => Log!Missing({})'
      <3>1. qTick.step = "empty" => Log!Missing({}) BY <2>0 DEF Log!Accounted
      <3> QED BY <2>3, <3>1 DEF Log!Missing
    <2>7. qTick.step = "zero" => Log!Missing(Log!Ahead(0))'
      <3>1. qTick.step = "zero" => Log!Missing(Log!Ahead(0)) BY <2>0 DEF Log!Accounted
      <3> QED BY <1>16, <2>3, <3>1 DEF Log!Missing
    <2> QED BY <1>0, <2>4, <2>5, <2>6, <2>7 DEF Log!Accounted
  <1>19. qFails' + qLeft'.faults <= LogMaxFaults /\ qLog'.ino + qLeft'.rotations <= LogMaxRotations + 1
    BY <1>0, <1>4 DEF Log!LinesInv
  <1> QED BY <1>5, <1>6, <1>7, <1>9, <1>17, <1>18, <1>19 DEF Log!LinesInv

(* Every step keeps the invariant. *)
LEMMA LogStepL ==
  ASSUME Log!Bounds, Log!TypeOK, Log!LinesInv, [Log!Next]_logVars
  PROVE  Log!TypeOK' /\ Log!LinesInv'
  <1>1. CASE UNCHANGED logVars
    <2>1. UNCHANGED <<qLog, qSaved, qTick, qCount, qSkipped, qRaced, qWritten, qFails, qLeft>>
      BY <1>1 DEF logVars
    <2>2. Log!TypeOK' BY <2>1 DEF Log!TypeOK
    <2>3. Log!LogShape' /\ Log!Resume' = Log!Resume /\ Log!Ahead(Log!Resume)' = Log!Ahead(Log!Resume)
      BY <2>1, LogStill, LogResumeStill DEF Log!LinesInv
    <2>4. Log!Stands' = Log!Stands BY <2>1 DEF Log!Stands
    <2>5. Log!Ahead(Log!Stands)' = Log!Ahead(Log!Stands) /\ Log!Ahead(0)' = Log!Ahead(0)
      BY <2>1, <2>4 DEF Log!Ahead, Log!Behind, Log!Lines
    <2>6. Log!SavedShape' /\ Log!TickShape'
      BY <2>1, <2>4 DEF Log!LinesInv, Log!SavedShape, Log!TickShape
    <2>7. Log!NotYet' BY <2>1, <2>3, <2>5 DEF Log!LinesInv, Log!NotYet, Log!AtMost, Log!Lines
    <2>8. Log!Accounted' BY <2>1, <2>3, <2>5 DEF Log!LinesInv, Log!Accounted, Log!Missing
    <2> QED BY <2>1, <2>2, <2>3, <2>6, <2>7, <2>8 DEF Log!LinesInv
  <1> QED BY <1>1, LogEdgeAppendsL, LogLogReplacedL, LogStatL, LogReadL, LogCountLineL,
             LogAddFailsL, LogSaveOffsetL, 
          LogCheckSizeL, LogTruncateL, LogSaveZeroL, LogCrashL DEF Log!Next

(* A step of the platform is a step of the access log or leaves it alone. *)
LEMMA LogNext == [Next]_allVars => [Log!Next]_logVars
  BY DEF Next, allVars, EnvStep, TelStep, SbxStep, CgStep, ErrStep, DomStep, InstStep,
         NoteStep, RenStep, EvStep, LogStep

(* The inductive invariant of the access log. *)
LEMMA LogInductive == Spec => [](Log!TypeOK /\ Log!LinesInv)
  <1> DEFINE Inv == Log!TypeOK /\ Log!LinesInv
  <1>1. Init => Inv BY LogBounds, LogInitL DEF Init
  <1>2. Inv /\ [Next]_allVars => Inv' BY LogBounds, LogNext, LogStepL
  <1> QED BY <1>1, <1>2, PTL DEF Spec


-----------------------------------------------------------------------------
(* Custom domains (Domains). *)
(* The record of a call that begins. *)
LEMMA DomCallL == /\ Dom!Idle.at = "idle"
                  /\ \A r \in Dom!Adding : r.at \in {"owner", "claim", "insert"} /\ r.app \in DomApps /\ r.host \in DomAsked
                  /\ \A r \in Dom!Verifying : /\ r.at \in {"rival", "lookup", "flip"} /\ r.app \in DomApps /\ r.host \in DomAsked
                                              /\ r.token \in 1 .. DomMaxClaims
                  /\ \A r \in Dom!Claimed : /\ r.app \in DomApps /\ r.host \in DomAsked /\ r.status \in {"pending", "verified"}
                                            /\ r.token \in 1 .. DomMaxClaims
  BY DEF Dom!Idle, Dom!Adding, Dom!Verifying, Dom!Claimed

(* Going on to another step keeps what the call read. *)
LEMMA DomStepL == ASSUME Dom!TypeOK, NEW q \in Actors
  PROVE /\ nReq[q].at \in {"owner", "claim", "insert"} => nReq[q] \in Dom!Adding
        /\ nReq[q].at \in {"rival", "lookup", "flip"} => nReq[q] \in Dom!Verifying
  <1>1. nReq[q] \in {Dom!Idle} \cup Dom!Adding \cup Dom!Verifying BY DEF Dom!TypeOK
  <1> QED BY <1>1, DomCallL

(* Who holds a claim: a row, or a call that has read one and not yet answered. *)
LEMMA DomHoldL == \A x : x \in Dom!Holders <=> x \in nRows \/ \E q \in Actors : x = nReq[q] /\ nReq[q].at \in {"rival", "lookup", "flip"}
  BY DEF Dom!Holders

(* Operations are paid for. *)
LEMMA DomLeftL == ASSUME Dom!Bounds, nLeft \in Dom!Lefts
  PROVE /\ nLeft.calls > 0 /\ Dom!Call => nLeft' \in Dom!Lefts /\ nLeft'.claims = nLeft.claims
        /\ Dom!Edit => nLeft' \in Dom!Lefts /\ nLeft'.claims = nLeft.claims
        /\ nLeft.claims > 0 => /\ [nLeft EXCEPT !.claims = @ - 1] \in Dom!Lefts
                               /\ [nLeft EXCEPT !.claims = @ - 1].claims = nLeft.claims - 1
                               /\ nLeft.claims \in 1 .. DomMaxClaims
  BY DEF Dom!Bounds, Dom!Lefts, Dom!Call, Dom!Edit

(* The invariant holds at first. *)
LEMMA DomInitL == ASSUME Dom!Bounds, Dom!Init PROVE Dom!TypeOK /\ Dom!TokenInv
  <1>1. nReq \in [Actors -> {Dom!Idle} \cup Dom!Adding \cup Dom!Verifying] BY DEF Dom!Init
  <1>2. nLeft \in Dom!Lefts BY DEF Dom!Init, Dom!Lefts, Dom!Bounds
  <1>3. nApp \in [DomApps -> Dom!States] /\ nEnv \in [DomApps -> Dom!EnvStates]
    BY DEF Dom!Init, Dom!States, Dom!Ports, Dom!EnvStates
  <1>4. Dom!TypeOK BY <1>1, <1>2, <1>3 DEF Dom!TypeOK, Dom!Init
  <1>5. \A q \in Actors : nReq[q].at = "idle" BY DomCallL DEF Dom!Init
  <1>6. Dom!Holders = {} BY <1>5, DomHoldL DEF Dom!Init
  <1>7. Dom!TokenInv BY <1>5, <1>6 DEF Dom!Init, Dom!TokenInv, Dom!VerifiedWasProven
  <1> QED BY <1>4, <1>7

(* Every step keeps the types. *)
LEMMA DomTypeStep == ASSUME Dom!Bounds, Dom!TypeOK, [Dom!Next]_domVars PROVE Dom!TypeOK'
  <1> DEFINE Req == {Dom!Idle} \cup Dom!Adding \cup Dom!Verifying
             AppT == nApp' \in [DomApps -> Dom!States]
             EnvT == nEnv' \in [DomApps -> Dom!EnvStates]
             RowsT == nRows' \subseteq Dom!Claimed
             DnsT == nDns' \in [DomAsked -> SUBSET (1 .. DomMaxClaims)]
             ReqT == nReq' \in [Actors -> Req]
             LeftT == nLeft' \in Dom!Lefts
             Goal == AppT /\ EnvT /\ RowsT /\ DnsT /\ ReqT /\ LeftT
  <1>q. Goal => Dom!TypeOK' BY DEF Dom!TypeOK
  <1>t. /\ nApp \in [DomApps -> Dom!States] /\ nEnv \in [DomApps -> Dom!EnvStates]
        /\ nRows \subseteq Dom!Claimed
        /\ nDns \in [DomAsked -> SUBSET (1 .. DomMaxClaims)] /\ nReq \in [Actors -> Req]
        /\ nLeft \in Dom!Lefts
    BY DEF Dom!TypeOK
  <1>i. Dom!Idle \in Req OBVIOUS
  <1>a. \A r \in Dom!Adding : r \in Req OBVIOUS
  <1>v. \A r \in Dom!Verifying : r \in Req OBVIOUS
  <1> HIDE DEF Req
  <1>s. ASSUME NEW q \in Actors, NEW r \in Req, Dom!Step(q, r)
        PROVE  ReqT BY <1>s, <1>t DEF Dom!Step
  <1>1. ASSUME NEW q \in Actors, NEW a \in DomApps, NEW h \in DomAsked, Dom!AddBegin(q, a, h)
        PROVE  Goal
    <2>1. [at |-> "owner", app |-> a, host |-> h] \in Dom!Adding BY DEF Dom!Adding
    <2>2. ReqT BY <1>1, <2>1, <1>s, <1>i, <1>a DEF Dom!AddBegin
    <2> QED BY <1>1, <2>2, <1>t, DomLeftL DEF Dom!AddBegin
  <1>2. ASSUME NEW q \in Actors, Dom!AddOwner(q) PROVE Goal
    <2>1. [nReq[q] EXCEPT !.at = "claim"] \in Dom!Adding
      BY <1>2, DomStepL DEF Dom!AddOwner, Dom!Adding
    <2>2. ReqT BY <1>2, <2>1, <1>s, <1>i, <1>a DEF Dom!AddOwner
    <2> QED BY <1>2, <2>2, <1>t DEF Dom!AddOwner
  <1>3. ASSUME NEW q \in Actors, Dom!AddClaim(q) PROVE Goal
    <2>1. [nReq[q] EXCEPT !.at = "insert"] \in Dom!Adding
      BY <1>3, DomStepL DEF Dom!AddClaim, Dom!Adding
    <2>2. ReqT BY <1>3, <2>1, <1>s, <1>i, <1>a DEF Dom!AddClaim
    <2> QED BY <1>3, <2>2, <1>t DEF Dom!AddClaim
  <1>4. ASSUME NEW q \in Actors, Dom!AddInsert(q) PROVE Goal
    <2>1. nReq[q] \in Dom!Adding /\ nLeft.claims > 0 BY <1>4, DomStepL DEF Dom!AddInsert
    <2>2. [app |-> nReq[q].app, host |-> nReq[q].host, status |-> Dom!NewStatus, token |-> nLeft.claims] \in Dom!Claimed
      BY <2>1, <1>t, DomCallL, DomLeftL DEF Dom!Claimed, Dom!NewStatus
    <2>3. RowsT BY <1>4, <2>2, <1>t DEF Dom!AddInsert
    <2>4. LeftT BY <1>4, <2>1, <1>t, DomLeftL DEF Dom!AddInsert
    <2>5. ReqT BY <1>4, <1>s, <1>i DEF Dom!AddInsert
    <2> QED BY <1>4, <2>3, <2>4, <2>5, <1>t DEF Dom!AddInsert
  <1>5. ASSUME NEW q \in Actors, NEW a \in DomApps, NEW h \in DomAsked, Dom!VerifyBegin(q, a, h)
        PROVE  Goal
    <2>1. \A r \in nRows : [at |-> "rival", app |-> a, host |-> h, token |-> r.token] \in Dom!Verifying
      BY <1>t, DomCallL DEF Dom!Verifying
    <2>2. ReqT BY <1>5, <2>1, <1>s, <1>i, <1>v DEF Dom!VerifyBegin, Dom!Claims
    <2> QED BY <1>5, <2>2, <1>t, DomLeftL DEF Dom!VerifyBegin
  <1>6. ASSUME NEW q \in Actors, Dom!VerifyOwner(q) PROVE Goal
    <2>1. [nReq[q] EXCEPT !.at = "lookup"] \in Dom!Verifying
      BY <1>6, DomStepL DEF Dom!VerifyOwner, Dom!Verifying
    <2>2. ReqT BY <1>6, <2>1, <1>s, <1>i, <1>v DEF Dom!VerifyOwner
    <2> QED BY <1>6, <2>2, <1>t DEF Dom!VerifyOwner
  <1>7. ASSUME NEW q \in Actors, Dom!VerifyLookup(q) PROVE Goal
    <2>1. [nReq[q] EXCEPT !.at = "flip"] \in Dom!Verifying
      BY <1>7, DomStepL DEF Dom!VerifyLookup, Dom!Verifying
    <2>2. ReqT BY <1>7, <2>1, <1>s, <1>i, <1>v DEF Dom!VerifyLookup
    <2> QED BY <1>7, <2>2, <1>t DEF Dom!VerifyLookup
  <1>8. ASSUME NEW q \in Actors, Dom!VerifyFlip(q) PROVE Goal
    <2>1. \A r \in nRows : [r EXCEPT !.status = "verified"] \in Dom!Claimed
      BY <1>t DEF Dom!Claimed
    <2>2. RowsT BY <1>8, <2>1, <1>t DEF Dom!VerifyFlip, Dom!Claims
    <2>3. ReqT BY <1>8, <1>s, <1>i DEF Dom!VerifyFlip
    <2> QED BY <1>8, <2>2, <2>3, <1>t DEF Dom!VerifyFlip
  <1>9. ASSUME NEW a \in DomApps, NEW h \in DomAsked, Dom!RemoveClaim(a, h) PROVE Goal
    BY <1>9, <1>t, DomLeftL DEF Dom!RemoveClaim
  <1>10. ASSUME NEW a \in DomApps, NEW s \in Dom!States, Dom!AppChanges(a, s) PROVE Goal
    BY <1>10, <1>t, DomLeftL DEF Dom!AppChanges
  <1>11. ASSUME NEW a \in DomApps, NEW s \in Dom!EnvStates, Dom!EnvChanges(a, s) PROVE Goal
    BY <1>11, <1>t, DomLeftL DEF Dom!EnvChanges
  <1>12. ASSUME NEW r \in nRows, Dom!Publish(r) PROVE Goal
    <2>1. r.token \in 1..DomMaxClaims BY <1>t, DomCallL
    <2>2. DnsT BY <2>1, <1>12, <1>t DEF Dom!Publish
    <2> QED BY <1>12, <2>2, <1>t, DomLeftL DEF Dom!Publish
  <1>13. CASE UNCHANGED domVars
    <2>1. Goal BY <1>13, <1>t DEF domVars
    <2> QED BY <2>1, <1>q
  <1> HIDE DEF Goal
  <1> QED BY <1>q, <1>1, <1>2, <1>3, <1>4, <1>5, <1>6, <1>7, <1>8, <1>9, <1>10, <1>11, <1>12,
             <1>13 DEF Dom!Next

(* Every step keeps tokens published and verified names with one holder. *)
LEMMA DomTokenStep ==
  ASSUME Dom!Bounds, Dom!TypeOK, Dom!TokenInv, [Dom!Next]_domVars
  PROVE  Dom!TokenInv'
  <1> DEFINE Spent == \A x \in Dom!Holders : x.token > nLeft.claims
             Own == \A x, y \in Dom!Holders : x.token = y.token => x.app = y.app /\ x.host = y.host
             Told == \A h \in DomAsked : \A t \in nDns[h] :
                       t > nLeft.claims /\ \A x \in Dom!Holders : x.token = t /\ x.host = h => <<x.app, h>> \in nPublished
             Flips == \A q \in Actors : nReq[q].at = "flip" => <<nReq[q].app, nReq[q].host>> \in nPublished
             Known == Spent /\ Own /\ Told
             Old(x) == \E y \in Dom!Holders : x.token = y.token /\ x.app = y.app /\ x.host = y.host
             SameRows == UNCHANGED <<nRows, nPublished>>
             Drops(q) == nReq' = [nReq EXCEPT ![q] = Dom!Idle]
  <1>i. Known /\ Flips /\ Dom!VerifiedWasProven BY DEF Dom!TokenInv
  <1>j. Known' /\ Flips' /\ Dom!VerifiedWasProven' => Dom!TokenInv' BY DEF Dom!TokenInv
  <1>t. /\ nRows \subseteq Dom!Claimed
        /\ nReq \in [Actors -> {Dom!Idle} \cup Dom!Adding \cup Dom!Verifying] /\ nLeft \in Dom!Lefts
        /\ nDns \in [DomAsked -> SUBSET (1 .. DomMaxClaims)]
    BY DEF Dom!TypeOK
  <1>k. ASSUME \A x \in Dom!Holders' : Old(x), nLeft'.claims = nLeft.claims,
               UNCHANGED <<nDns, nPublished>>
        PROVE  Known'
    <2>1. Spent' BY <1>k, <1>i
    <2>2. Own' BY <1>k, <1>i
    <2>3. Told' BY <1>k, <1>i
    <2> QED BY <2>1, <2>2, <2>3
  <1>v. SameRows => Dom!VerifiedWasProven'
    BY <1>i DEF Dom!VerifiedWasProven, Dom!VerifiedRival, Dom!Rivals
  <1>o. \A x \in Dom!Holders : Old(x) OBVIOUS
  <1>h. \A x : x \in Dom!Holders' <=> x \in nRows' \/ \E q \in Actors : x = nReq'[q] /\ nReq'[q].at \in {"rival", "lookup", "flip"}
    BY DEF Dom!Holders
  <1>l. \A x : x \in Dom!Holders <=> x \in nRows \/ \E q \in Actors : x = nReq[q] /\ nReq[q].at \in {"rival", "lookup", "flip"}
    BY DomHoldL
  <1>c. Dom!Idle.at = "idle" BY DomCallL
  <1> HIDE DEF Spent, Own, Told, Flips, Known, Old
  \* A call that goes on as r: r holds what some claim held, and flips only if told to.
  <1>s. ASSUME NEW q \in Actors, NEW r, nReq' = [nReq EXCEPT ![q] = r], SameRows,
               UNCHANGED nDns, 
               nLeft'.claims = nLeft.claims,
               r.at \in {"rival", "lookup", "flip"} => Old(r),
               r.at = "flip" => <<r.app, r.host>> \in nPublished
        PROVE Dom!TokenInv'
    <2>1. nReq'[q] = r /\ \A p \in Actors \ {q} : nReq'[p] = nReq[p] BY <1>s, <1>t
    <2>2. \A x \in Dom!Holders' : Old(x) BY <1>s, <2>1, <1>h, <1>l, <1>o
    <2>3. Flips' BY <2>1, <1>s, <1>i DEF Flips
    <2> QED BY <1>s, <2>2, <2>3, <1>k, <1>v, <1>j
  <1>1. ASSUME NEW q \in Actors, NEW a \in DomApps, NEW h \in DomAsked, Dom!AddBegin(q, a, h)
        PROVE  Dom!TokenInv'
    <2> DEFINE r == [at |-> "owner", app |-> a, host |-> h]
    <2>1. r.at = "owner" OBVIOUS
    <2>2. nReq' = [nReq EXCEPT ![q] = r] \/ Drops(q) BY <1>1 DEF Dom!AddBegin, Dom!Step
    <2>3. SameRows /\ UNCHANGED nDns /\ nLeft'.claims = nLeft.claims
      BY <1>1, <1>t, DomLeftL DEF Dom!AddBegin
    <2> HIDE DEF r
    <2> QED BY <2>1, <2>2, <2>3, <1>s, <1>c
  <1>2. ASSUME NEW q \in Actors, Dom!AddOwner(q) \/ Dom!AddClaim(q) PROVE Dom!TokenInv'
    <2> DEFINE r(at) == [nReq[q] EXCEPT !.at = at]
    <2>1. \A at : r(at).at = at BY <1>2, DomStepL DEF Dom!AddOwner, Dom!AddClaim, Dom!Adding
    <2>2. Drops(q) \/ \E at \in {"claim", "insert"} : nReq' = [nReq EXCEPT ![q] = r(at)]
      BY <1>2 DEF Dom!AddOwner, Dom!AddClaim, Dom!Step
    <2>3. SameRows /\ UNCHANGED <<nDns, nLeft>> BY <1>2 DEF Dom!AddOwner, Dom!AddClaim
    <2> HIDE DEF r
    <2> QED BY <2>1, <2>2, <2>3, <1>s, <1>c
  <1>3. ASSUME NEW q \in Actors, Dom!AddInsert(q) PROVE Dom!TokenInv'
    <2>1. nReq[q] \in Dom!Adding /\ nLeft.claims > 0 /\ Drops(q) /\ UNCHANGED <<nDns, nPublished>>
      BY <1>3, DomStepL DEF Dom!AddInsert, Dom!Step
    <2> DEFINE a == nReq[q].app
               h == nReq[q].host
               n == [app |-> a, host |-> h, status |-> Dom!NewStatus, token |-> nLeft.claims]
    <2>2. n.app = a /\ n.host = h /\ n.token = nLeft.claims /\ n.status = Dom!NewStatus OBVIOUS
    <2>3. nLeft'.claims = nLeft.claims - 1 BY <1>3, <2>1, <1>t, DomLeftL DEF Dom!AddInsert
    <2>c. nLeft.claims \in 1 .. DomMaxClaims BY <2>1, <1>t, DomLeftL
    <2>4. nRows' = IF Dom!UniqueViolation(a, h, Dom!NewStatus) THEN nRows ELSE nRows \cup {n}
      BY <1>3 DEF Dom!AddInsert
    <2> HIDE DEF n
    <2>5. nReq'[q] = Dom!Idle /\ \A p \in Actors \ {q} : nReq'[p] = nReq[p] BY <2>1, <1>t
    <2>6. \A x \in Dom!Holders' : x \in Dom!Holders \/ x = n BY <2>4, <2>5, <1>h, <1>l, <1>c
    <2>t. \A x \in Dom!Holders : x.token \in 1 .. DomMaxClaims
      BY <1>l, <1>t, DomCallL
    <2>7. Spent' BY <2>6, <2>2, <2>3, <2>t, <2>c, <1>i DEF Known, Spent
    <2>8. Own' BY <2>6, <2>2, <2>t, <2>c, <1>i DEF Known, Spent, Own
    <2>9. Told'
      <3>1. \A k \in DomAsked : \A t \in nDns[k] : t \in 1 .. DomMaxClaims /\ t > nLeft.claims
        BY <1>t, <1>i DEF Known, Told
      <3> QED BY <3>1, <2>1, <2>6, <2>2, <2>3, <2>c, <1>i DEF Known, Told
    <2>10. Flips' BY <2>5, <2>1, <1>c, <1>i DEF Flips
    <2>11. Dom!VerifiedWasProven'
      <3>1. CASE nRows' = nRows BY <3>1, <2>1, <1>v
      <3>2. CASE ~Dom!UniqueViolation(a, h, Dom!NewStatus)
        <4>1. nRows' = nRows \cup {n} BY <3>2, <2>4
        <4>2. n.status = "verified" => DomSingle /\ \A r \in nRows : r.host = h => r.status # "verified"
          BY <3>2, <2>2 DEF Dom!UniqueViolation, Dom!NewStatus
        <4> QED BY <4>1, <4>2, <2>1, <2>2, <1>i
                   DEF Dom!VerifiedWasProven, Dom!VerifiedRival, Dom!Rivals
      <3> QED BY <3>1, <3>2, <2>4
    <2> QED BY <2>7, <2>8, <2>9, <2>10, <2>11, <1>j DEF Known
  <1>4. ASSUME NEW q \in Actors, NEW a \in DomApps, NEW h \in DomAsked, Dom!VerifyBegin(q, a, h)
        PROVE  Dom!TokenInv'
    <2>1. SameRows /\ UNCHANGED nDns /\ nLeft'.claims = nLeft.claims
      BY <1>4, <1>t, DomLeftL DEF Dom!VerifyBegin
    <2>2. CASE Drops(q) BY <2>1, <2>2, <1>s, <1>c
    <2>3. ASSUME NEW r \in Dom!Claims(a, h),
                 Dom!Step(q, [at |-> "rival", app |-> a, host |-> h, token |-> r.token])
          PROVE Dom!TokenInv'
      <3> DEFINE n == [at |-> "rival", app |-> a, host |-> h, token |-> r.token]
      <3>1. n.at = "rival" /\ n.app = r.app /\ n.host = r.host /\ n.token = r.token /\ r \in nRows
        BY DEF Dom!Claims
      <3>2. nReq' = [nReq EXCEPT ![q] = n] BY <2>3 DEF Dom!Step
      <3> HIDE DEF n
      <3>3. Old(n) BY <3>1, <1>l DEF Old
      <3> QED BY <3>1, <3>2, <3>3, <2>1, <1>s
    <2> QED BY <1>4, <2>2, <2>3 DEF Dom!VerifyBegin, Dom!Step
  <1>5. ASSUME NEW q \in Actors, Dom!VerifyOwner(q) \/ Dom!VerifyLookup(q) PROVE Dom!TokenInv'
    <2> DEFINE r(at) == [nReq[q] EXCEPT !.at = at]
    <2>0. nReq[q] \in Dom!Verifying /\ nReq[q].at \in {"rival", "lookup"}
      BY <1>5, DomStepL DEF Dom!VerifyOwner, Dom!VerifyLookup
    <2>1. \A at : /\ r(at).at = at /\ r(at).app = nReq[q].app /\ r(at).host = nReq[q].host
                  /\ r(at).token = nReq[q].token
      BY <2>0 DEF Dom!Verifying
    <2>2. \/ Drops(q) \/ nReq' = [nReq EXCEPT ![q] = r("lookup")]
          \/ nReq' = [nReq EXCEPT ![q] = r("flip")] /\ Dom!Proven(nReq[q], nDns[nReq[q].host])
      BY <1>5 DEF Dom!VerifyOwner, Dom!VerifyLookup, Dom!Step
    <2>3. SameRows /\ UNCHANGED <<nDns, nLeft>> BY <1>5 DEF Dom!VerifyOwner, Dom!VerifyLookup
    <2>4. nReq[q] \in Dom!Holders BY <2>0, <1>l
    <2>5. Dom!Proven(nReq[q], nDns[nReq[q].host]) => <<nReq[q].app, nReq[q].host>> \in nPublished
      BY <2>0, <2>4, <1>i, DomCallL DEF Dom!Proven, Known, Told
    <2> HIDE DEF r
    <2>6. \A at : Old(r(at)) BY <2>1, <2>4 DEF Old
    <2> QED BY <2>1, <2>2, <2>3, <2>5, <2>6, <1>s, <1>c
  <1>6. ASSUME NEW q \in Actors, Dom!VerifyFlip(q) PROVE Dom!TokenInv'
    <2> DEFINE a == nReq[q].app
               h == nReq[q].host
               mine == {r \in Dom!Claims(a, h) : r.status = "pending"}
               lost == \E r \in nRows : r.host = h /\ r.status = "verified"
               f(r) == [r EXCEPT !.status = "verified"]
    <2>1. /\ nReq[q].at = "flip" /\ Drops(q) /\ UNCHANGED <<nDns, nPublished, nLeft>>
          /\ nRows' = IF mine = {} \/ lost THEN nRows
                      ELSE {r \in nRows : r.host # h \/ r.status = "verified"} \cup {f(r) : r \in mine}
      BY <1>6 DEF Dom!VerifyFlip, Dom!Step
    <2>2. nReq'[q] = Dom!Idle /\ \A p \in Actors \ {q} : nReq'[p] = nReq[p] BY <2>1, <1>t
    <2>3. \A r \in nRows : f(r).app = r.app /\ f(r).host = r.host /\ f(r).token = r.token /\ f(r).status = "verified"
      BY <1>t DEF Dom!Claimed
    <2>m. \A r \in mine : r \in nRows /\ r.app = a /\ r.host = h BY DEF Dom!Claims
    <2>p. <<a, h>> \in nPublished BY <2>1, <1>i DEF Flips
    <2> HIDE DEF mine, f, a, h
    <2>4. \A x \in nRows' : x \in nRows \/ \E r \in nRows : x = f(r) BY <2>1, <2>m
    <2>5. \A x \in Dom!Holders' : Old(x)
      <3>1. \A x \in nRows' : Old(x) BY <2>3, <2>4, <1>l DEF Old
      <3>2. \A p \in Actors : nReq'[p].at \in {"rival", "lookup", "flip"} => Old(nReq'[p])
        BY <2>2, <1>c, <1>l, <1>o
      <3> QED BY <3>1, <3>2, <1>h
    <2>6. Flips' BY <2>2, <2>1, <1>c, <1>i DEF Flips
    <2>7. Dom!VerifiedWasProven'
      <3>1. CASE nRows' = nRows BY <3>1, <2>1, <1>v
      <3>2. CASE ~lost /\
                 nRows' = {r \in nRows : r.host # h \/ r.status = "verified"} \cup {f(r) : r \in mine}
        <4>1. \A x \in nRows' : \/ x \in nRows /\ x.host # h
                                \/ x.app = a /\ x.host = h
          BY <3>2, <2>m, <2>3
        <4>2. ASSUME NEW x \in nRows', x.status = "verified"
              PROVE (~DomSingle => <<x.app, x.host>> \in nPublished) /\ \A y \in nRows' : y.host = x.host /\ y.status = "verified" => y.app = x.app
          <5>1. CASE x.app = a /\ x.host = h BY <5>1, <4>1, <2>p
          <5>2. CASE x \in nRows /\ x.host # h
            BY <5>2, <4>1, <4>2, <1>i DEF Dom!VerifiedWasProven, Dom!VerifiedRival, Dom!Rivals
          <5> QED BY <5>1, <5>2, <4>1
        <4> QED BY <4>2, <2>1 DEF Dom!VerifiedWasProven, Dom!VerifiedRival, Dom!Rivals
      <3> QED BY <3>1, <3>2, <2>1
    <2> QED BY <2>1, <2>5, <2>6, <2>7, <1>k, <1>j
  <1>7. ASSUME NEW a \in DomApps, NEW h \in DomAsked, Dom!RemoveClaim(a, h) PROVE Dom!TokenInv'
    <2>1. nRows' \subseteq nRows /\ UNCHANGED <<nDns, nPublished, nReq>> /\ nLeft'.claims = nLeft.claims
      BY <1>7, <1>t, DomLeftL DEF Dom!RemoveClaim
    <2>2. \A x \in Dom!Holders' : Old(x) BY <2>1, <1>h, <1>l, <1>o
    <2>3. Flips' BY <2>1, <1>i DEF Flips
    <2>4. Dom!VerifiedWasProven'
      BY <2>1, <1>i DEF Dom!VerifiedWasProven, Dom!VerifiedRival, Dom!Rivals
    <2> QED BY <2>1, <2>2, <2>3, <2>4, <1>k, <1>j
  <1>8. ASSUME UNCHANGED <<nRows, nDns, nPublished, nReq>>, nLeft'.claims = nLeft.claims
        PROVE  Dom!TokenInv'
    <2>2. \A x \in Dom!Holders' : Old(x) BY <1>8, <1>h, <1>l, <1>o
    <2>3. Flips' BY <1>8, <1>i DEF Flips
    <2> QED BY <1>8, <2>2, <2>3, <1>k, <1>v, <1>j
  <1>9. ASSUME NEW a \in DomApps, NEW s, Dom!AppChanges(a, s) \/ Dom!EnvChanges(a, s)
        PROVE  Dom!TokenInv'
    BY <1>9, <1>8, <1>t, DomLeftL DEF Dom!AppChanges, Dom!EnvChanges
  <1>10. ASSUME NEW r \in nRows, Dom!Publish(r) PROVE Dom!TokenInv'
    <2>1. /\ nDns' = [nDns EXCEPT ![r.host] = {r.token}]
          /\ nPublished' = nPublished \cup {<<r.app, r.host>>}
          /\ UNCHANGED <<nRows, nReq>> /\ nLeft'.claims = nLeft.claims
      BY <1>10, <1>t, DomLeftL DEF Dom!Publish
    <2>2. \A x : x \in Dom!Holders' <=> x \in Dom!Holders BY <2>1, <1>h, <1>l
    <2>3. Spent' BY <2>1, <2>2, <1>i DEF Known, Spent
    <2>4. Own' BY <2>2, <1>i DEF Known, Own
    <2>5. r \in Dom!Holders /\ r.host \in DomAsked BY <1>l, <1>t, DomCallL
    <2>6. ASSUME NEW k \in DomAsked, NEW t \in nDns'[k]
          PROVE t > nLeft'.claims /\ \A x \in Dom!Holders' : x.token = t /\ x.host = k => <<x.app, k>> \in nPublished'
      <3>1. CASE k = r.host
        <4>1. t = r.token BY <3>1, <2>1, <1>t
        <4> QED BY <4>1, <3>1, <2>1, <2>2, <2>5, <1>i DEF Known, Spent, Own
      <3>2. CASE k # r.host
        <4>1. t \in nDns[k] BY <3>2, <2>1, <1>t
        <4> QED BY <4>1, <2>1, <2>2, <1>i DEF Known, Told
      <3> QED BY <3>1, <3>2
    <2>7. Told' BY <2>6 DEF Told
    <2>8. Flips' BY <2>1, <1>i DEF Flips
    <2>9. Dom!VerifiedWasProven'
      BY <2>1, <1>i DEF Dom!VerifiedWasProven, Dom!VerifiedRival, Dom!Rivals
    <2> QED BY <2>3, <2>4, <2>7, <2>8, <2>9, <1>j DEF Known
  <1>11. CASE UNCHANGED domVars BY <1>11, <1>8 DEF domVars
  <1> QED BY <1>1, <1>2, <1>3, <1>4, <1>5, <1>6, <1>7, <1>9, <1>10, <1>11 DEF Dom!Next

(* The bases of tenants are names, the configured domain among them. *)
LEMMA DomBaseL == ASSUME Dom!Bounds
  PROVE /\ Dom!TenantBases \in Seq(Seq(Dom!Labels)) /\ Dom!Base \in Seq(Dom!Labels) /\ Len(Dom!Base) = 1
        /\ Dom!ToSet(Dom!TenantBases) \subseteq Seq(Dom!Labels)
        /\ Dom!Base \in Dom!ToSet(Dom!TenantBases)
        /\ Dom!ToSet(DomExtra) \subseteq Dom!ToSet(Dom!TenantBases)
        /\ \A b : b \in Dom!ToSet(Dom!TenantBases) <=> \E i \in DOMAIN Dom!TenantBases : b = Dom!TenantBases[i]
        /\ DOMAIN Dom!TenantBases \subseteq Nat
  <1>1. Dom!Base \in Seq(Dom!Labels) /\ Len(Dom!Base) = 1
    <2>1. "base" \in Dom!Labels BY DEF Dom!Labels
    <2>2. ASSUME NEW s \in Dom!Labels PROVE <<s>> \in Seq(Dom!Labels) /\ Len(<<s>>) = 1 OBVIOUS
    <2> QED BY <2>1, <2>2, Zenon DEF Dom!Base
  <1>2. <<Dom!Base>> \in Seq(Seq(Dom!Labels)) /\ DomExtra \in Seq(Seq(Dom!Labels))
    BY <1>1 DEF Dom!Bounds
  <1>3. Dom!TenantBases \in Seq(Seq(Dom!Labels)) /\ DOMAIN Dom!TenantBases = 1 .. 1 + Len(DomExtra) /\
        Len(DomExtra) \in Nat
    BY <1>2 DEF Dom!TenantBases
  <1>4. \A b : b \in Dom!ToSet(Dom!TenantBases) <=> \E i \in DOMAIN Dom!TenantBases : b = Dom!TenantBases[i]
    BY DEF Dom!ToSet
  <1>5. Dom!TenantBases[1] = Dom!Base /\ \A i \in 1 .. Len(DomExtra) : Dom!TenantBases[1 + i] = DomExtra[i]
    BY <1>2 DEF Dom!TenantBases
  <1>6. \A i \in DOMAIN Dom!TenantBases : Dom!TenantBases[i] \in Seq(Dom!Labels) BY <1>3
  <1>7. Dom!ToSet(DomExtra) \subseteq Dom!ToSet(Dom!TenantBases)
    <2>1. DOMAIN DomExtra = 1 .. Len(DomExtra) BY <1>2
    <2>2. ASSUME NEW i \in 1 .. Len(DomExtra) PROVE DomExtra[i] \in Dom!ToSet(Dom!TenantBases)
      <3>1. 1 + i \in DOMAIN Dom!TenantBases /\ Dom!TenantBases[1 + i] = DomExtra[i]
        BY <1>3, <1>5
      <3> QED BY <3>1, <1>4, Zenon
    <2> QED BY <2>1, <2>2 DEF Dom!ToSet
  <1> QED BY <1>1, <1>3, <1>4, <1>5, <1>6, <1>7

(* A name is below another when it is longer and ends like it. *)
LEMMA DomSuffixL == ASSUME NEW h \in Seq(Dom!Labels), NEW b \in Seq(Dom!Labels)
  PROVE Dom!Below(h, b) <=> Len(h) > Len(b) /\ \A k \in 1 .. Len(b) : h[Len(h) - Len(b) + k] = b[k]
  <1>1. CASE Len(h) > Len(b)
    <2> DEFINE s == SubSeq(h, Len(h) - Len(b) + 1, Len(h))
    <2>0. Len(h) \in Nat /\ Len(b) \in Nat OBVIOUS
    <2>1. s \in Seq(Dom!Labels) /\ Len(s) = Len(b) /\ \A k \in 1 .. Len(b) : s[k] = h[Len(h) - Len(b) + k]
      BY <1>1, <2>0
    <2>2. s = b <=> \A k \in 1 .. Len(b) : s[k] = b[k]
      <3>1. ASSUME \A k \in 1 .. Len(b) : s[k] = b[k] PROVE s = b
        <4>1. s = [k \in 1 .. Len(s) |-> s[k]] /\ b = [k \in 1 .. Len(b) |-> b[k]] BY <2>1
        <4> HIDE DEF s
        <4> QED BY <4>1, <3>1, <2>1
      <3> QED BY <3>1
    <2> HIDE DEF s
    <2>3. Dom!Below(h, b) <=> s = b BY <1>1 DEF Dom!Below, s
    <2> QED BY <1>1, <2>1, <2>2, <2>3
  <1>2. CASE ~(Len(h) > Len(b)) BY <1>2 DEF Dom!Below
  <1> QED BY <1>1, <1>2

(* Labels in front of a base give a name below it, and are what is left of it. *)
LEMMA DomJoinL ==
  ASSUME NEW parts \in Seq(Dom!Labels), Len(parts) > 0, NEW base \in Seq(Dom!Labels)
  PROVE LET h == parts \o base IN
        /\ h \in Seq(Dom!Labels) /\ Len(h) = Len(parts) + Len(base) /\ h[1] = parts[1]
        /\ Dom!Below(h, base) /\ Dom!Rest(h, base) = parts
  <1> DEFINE h == parts \o base
  <1>1. /\ h \in Seq(Dom!Labels) /\ Len(h) = Len(parts) + Len(base) /\ Len(parts) \in Nat
        /\ Len(base) \in Nat
        /\ \A k \in 1 .. Len(parts) : h[k] = parts[k]
        /\ \A k \in 1 .. Len(base) : h[Len(parts) + k] = base[k]
    OBVIOUS
  <1> HIDE DEF h
  <1>2. Dom!Below(h, base)
    <2>1. \A k \in 1 .. Len(base) : Len(h) - Len(base) + k = Len(parts) + k BY <1>1
    <2>2. Len(h) > Len(base) /\ \A k \in 1 .. Len(base) : h[Len(h) - Len(base) + k] = base[k]
      BY <1>1, <2>1
    <2> QED BY <1>1, <2>2, DomSuffixL
  <1>3. Dom!Rest(h, base) = parts
    <2>1. Dom!Rest(h, base) = SubSeq(h, 1, Len(parts)) BY <1>1 DEF Dom!Rest
    <2> DEFINE s == SubSeq(h, 1, Len(parts))
    <2>2. s \in Seq(Dom!Labels) /\ Len(s) = Len(parts) /\ \A k \in 1 .. Len(parts) : s[k] = h[k]
      BY <1>1
    <2>3. s = [k \in 1 .. Len(s) |-> s[k]] /\ parts = [k \in 1 .. Len(parts) |-> parts[k]]
      BY <2>2
    <2> HIDE DEF s
    <2>4. s = parts BY <2>2, <2>3, <1>1
    <2> QED BY <2>1, <2>4 DEF s
  <1> QED BY <1>1, <1>2, <1>3 DEF h

(* With bases apart, a name is below at most one of them. *)
LEMMA DomOneBase == ASSUME Dom!Bounds, Dom!NamesApart, NEW h \in Seq(Dom!Labels),
                        NEW b \in Dom!ToSet(Dom!TenantBases), NEW c \in Dom!ToSet(Dom!TenantBases), Dom!Below(h, b), Dom!Below(h, c)
  PROVE b = c
  <1>1. b \in Seq(Dom!Labels) /\ c \in Seq(Dom!Labels) /\ Len(b) \in Nat /\ Len(c) \in Nat /\
        Len(h) \in Nat
    BY DomBaseL
  <1>2. /\ Len(h) > Len(b) /\ \A k \in 1 .. Len(b) : h[Len(h) - Len(b) + k] = b[k]
        /\ Len(h) > Len(c) /\ \A k \in 1 .. Len(c) : h[Len(h) - Len(c) + k] = c[k]
    BY <1>1, DomSuffixL
  <1>3. ASSUME NEW x \in Seq(Dom!Labels), NEW y \in Seq(Dom!Labels), Len(x) > Len(y),
               \A k \in 1 .. Len(x) : h[Len(h) - Len(x) + k] = x[k],
               \A k \in 1 .. Len(y) : h[Len(h) - Len(y) + k] = y[k]
        PROVE Dom!Below(x, y)
    <2>1. ASSUME NEW k \in 1 .. Len(y) PROVE x[Len(x) - Len(y) + k] = y[k]
      <3>1. Len(x) - Len(y) + k \in 1 .. Len(x) BY <1>3
      <3>2. x[Len(x) - Len(y) + k] = h[Len(h) - Len(x) + (Len(x) - Len(y) + k)] BY <3>1, <1>3
      <3>3. Len(h) - Len(x) + (Len(x) - Len(y) + k) = Len(h) - Len(y) + k BY <1>1
      <3> QED BY <3>2, <3>3, <1>3
    <2> QED BY <2>1, <1>3, DomSuffixL
  <1>4. ~(Len(b) > Len(c)) BY <1>1, <1>2, <1>3 DEF Dom!NamesApart
  <1>5. ~(Len(c) > Len(b)) BY <1>1, <1>2, <1>3 DEF Dom!NamesApart
  <1>6. Len(b) = Len(c) BY <1>1, <1>4, <1>5
  <1>7. \A k \in 1 .. Len(b) : b[k] = c[k] BY <1>2, <1>6
  <1>8. b = [k \in 1 .. Len(b) |-> b[k]] /\ c = [k \in 1 .. Len(c) |-> c[k]] BY <1>1
  <1> QED BY <1>6, <1>7, <1>8

(* What a name made of labels and a base is below, and what is left of it. *)
LEMMA DomHitL ==
  ASSUME Dom!Bounds, Dom!NamesApart, NEW parts \in Seq(Dom!Labels), Len(parts) > 0,
         NEW base \in Dom!ToSet(Dom!TenantBases)
  PROVE LET h == parts \o base IN
        /\ h \in Seq(Dom!Labels) /\ h[1] = parts[1] /\ Dom!Rest(h, base) = parts
        /\ \A i \in DOMAIN Dom!TenantBases : Dom!Below(h, Dom!TenantBases[i]) <=> Dom!TenantBases[i] = base
        /\ \E i \in DOMAIN Dom!TenantBases : Dom!TenantBases[i] = base
        /\ h \notin Dom!ToSet(Dom!TenantBases)
  <1> DEFINE h == parts \o base
  <1>1. base \in Seq(Dom!Labels) BY DomBaseL
  <1>2. h \in Seq(Dom!Labels) /\ h[1] = parts[1] /\ Dom!Below(h, base) /\ Dom!Rest(h, base) = parts
    BY <1>1, DomJoinL
  <1> HIDE DEF h
  <1>3. ASSUME NEW i \in DOMAIN Dom!TenantBases
        PROVE  Dom!Below(h, Dom!TenantBases[i]) <=> Dom!TenantBases[i] = base
    <2>1. Dom!TenantBases[i] \in Dom!ToSet(Dom!TenantBases) BY DomBaseL, Zenon
    <2> QED BY <2>1, <1>2, DomOneBase
  <1>4. \E i \in DOMAIN Dom!TenantBases : Dom!TenantBases[i] = base BY DomBaseL, Zenon
  <1>5. h \notin Dom!ToSet(Dom!TenantBases) BY <1>2 DEF Dom!NamesApart
  <1> QED BY <1>2, <1>3, <1>4, <1>5 DEF h

(* The first base that matches is one that matches. *)
LEMMA DomLeastL == ASSUME Dom!Bounds, NEW hits \in SUBSET DOMAIN Dom!TenantBases, hits # {}
  PROVE (CHOOSE i \in hits : \A j \in hits : i <= j) \in hits
  <1>1. hits \in SUBSET Nat BY DomBaseL
  <1>2. \E i \in hits : \A j \in hits : i <= j BY <1>1, NatMin
  <1> QED BY <1>2, Zenon

(* parse_edge_slug reads the label in front of a base, the platform's own excepted. *)
LEMMA DomEdgeL ==
  ASSUME Dom!Bounds, Dom!NamesApart, NEW parts \in Seq(Dom!Labels), Len(parts) > 0,
         NEW base \in Dom!ToSet(Dom!TenantBases)
  PROVE Dom!ParseEdgeSlug(parts \o base) =
          IF Len(parts) = 1 /\ parts[1] \notin {DomControl, "api", "git"} THEN parts[1] ELSE Dom!None
  <1> DEFINE h == parts \o base
             hits == {i \in DOMAIN Dom!TenantBases : Dom!Below(h, Dom!TenantBases[i])}
             i == CHOOSE x \in hits : \A j \in hits : x <= j
  <1>1. /\ Dom!Rest(h, base) = parts /\ h \notin Dom!ToSet(Dom!TenantBases)
        /\ \A k \in DOMAIN Dom!TenantBases : Dom!Below(h, Dom!TenantBases[k]) <=> Dom!TenantBases[k] = base
        /\ \E k \in DOMAIN Dom!TenantBases : Dom!TenantBases[k] = base
    BY DomHitL
  <1> HIDE DEF h
  <1>2. hits # {} /\ hits \in SUBSET DOMAIN Dom!TenantBases BY <1>1
  <1>3. i \in hits BY <1>2, DomLeastL
  <1>4. Dom!TenantBases[i] = base BY <1>1, <1>3
  <1>5. Dom!ParseEdgeSlug(h) =
          IF h \in Dom!ToSet(Dom!TenantBases) \/ hits = {} \/ Len(Dom!Rest(h, Dom!TenantBases[i])) # 1 THEN Dom!None
          ELSE IF Dom!Rest(h, Dom!TenantBases[i])[1] \in {DomControl, "api", "git"} THEN Dom!None
          ELSE Dom!Rest(h, Dom!TenantBases[i])[1]
    BY DEF Dom!ParseEdgeSlug
  <1> HIDE DEF hits, i
  <1> QED BY <1>1, <1>2, <1>4, <1>5 DEF h

(* parse_env_host reads the labels in front of the one base. *)
LEMMA DomEnvL ==
  ASSUME Dom!Bounds, Dom!NamesApart, NEW parts \in Seq(Dom!Labels), Len(parts) > 0,
         NEW base \in Dom!ToSet(Dom!TenantBases)
  PROVE Dom!ParseEnvHost(parts \o base) = Dom!EnvRest(parts)
  <1> DEFINE h == parts \o base
             hits == {i \in DOMAIN Dom!TenantBases : Dom!Below(h, Dom!TenantBases[i]) /\ Dom!EnvRest(Dom!Rest(h, Dom!TenantBases[i])) # Dom!None}
             i == CHOOSE x \in hits : \A j \in hits : x <= j
  <1>1. /\ Dom!Rest(h, base) = parts
        /\ \A k \in DOMAIN Dom!TenantBases : Dom!Below(h, Dom!TenantBases[k]) <=> Dom!TenantBases[k] = base
        /\ \E k \in DOMAIN Dom!TenantBases : Dom!TenantBases[k] = base
    BY DomHitL
  <1> HIDE DEF h
  <1>2. hits \in SUBSET DOMAIN Dom!TenantBases /\ (hits = {} <=> Dom!EnvRest(parts) = Dom!None)
    BY <1>1
  <1>3. hits # {} => i \in hits BY <1>2, DomLeastL
  <1>4. hits # {} => Dom!TenantBases[i] = base BY <1>1, <1>3
  <1>5. Dom!ParseEnvHost(h) = IF hits = {} THEN Dom!None ELSE Dom!EnvRest(Dom!Rest(h, Dom!TenantBases[i]))
    BY DEF Dom!ParseEnvHost, Dom!FirstBase
  <1> HIDE DEF hits, i
  <1> QED BY <1>1, <1>2, <1>4, <1>5 DEF h

(* parse_preview_slug reads the labels in front of the one base. *)
LEMMA DomPreviewL ==
  ASSUME Dom!Bounds, Dom!NamesApart, NEW parts \in Seq(Dom!Labels), Len(parts) > 0,
         NEW base \in Dom!ToSet(Dom!TenantBases)
  PROVE Dom!ParsePreviewSlug(parts \o base) = Dom!PreviewRest(parts)
  <1> DEFINE h == parts \o base
             hits == {i \in DOMAIN Dom!TenantBases : Dom!Below(h, Dom!TenantBases[i]) /\ Dom!PreviewRest(Dom!Rest(h, Dom!TenantBases[i])) # Dom!None}
             i == CHOOSE x \in hits : \A j \in hits : x <= j
  <1>1. /\ Dom!Rest(h, base) = parts
        /\ \A k \in DOMAIN Dom!TenantBases : Dom!Below(h, Dom!TenantBases[k]) <=> Dom!TenantBases[k] = base
        /\ \E k \in DOMAIN Dom!TenantBases : Dom!TenantBases[k] = base
    BY DomHitL
  <1> HIDE DEF h
  <1>2. hits \in SUBSET DOMAIN Dom!TenantBases /\ (hits = {} <=> Dom!PreviewRest(parts) = Dom!None)
    BY <1>1
  <1>3. hits # {} => i \in hits BY <1>2, DomLeastL
  <1>4. hits # {} => Dom!TenantBases[i] = base BY <1>1, <1>3
  <1>5. Dom!ParsePreviewSlug(h) = IF hits = {} THEN Dom!None ELSE Dom!PreviewRest(Dom!Rest(h, Dom!TenantBases[i]))
    BY DEF Dom!ParsePreviewSlug, Dom!FirstBase
  <1> HIDE DEF hits, i
  <1> QED BY <1>1, <1>2, <1>4, <1>5 DEF h

(* A name that is not the platform's is read by none of the parsers. *)
LEMMA DomForeignL == ASSUME Dom!Bounds, NEW h, ~Dom!PlatformHost(h)
  PROVE Dom!ParseEdgeSlug(h) = Dom!None /\ Dom!ParseEnvHost(h) = Dom!None /\
        Dom!ParsePreviewSlug(h) = Dom!None
  <1>1. \A i \in DOMAIN Dom!TenantBases : ~Dom!Below(h, Dom!TenantBases[i])
    BY DomBaseL, Zenon DEF Dom!PlatformHost
  <1>2. Dom!ParseEdgeSlug(h) = Dom!None BY <1>1 DEF Dom!ParseEdgeSlug
  <1>3. Dom!ParseEnvHost(h) = Dom!None BY <1>1 DEF Dom!ParseEnvHost, Dom!FirstBase
  <1>4. Dom!ParsePreviewSlug(h) = Dom!None BY <1>1 DEF Dom!ParsePreviewSlug, Dom!FirstBase
  <1> QED BY <1>2, <1>3, <1>4

(* At first there is no claim. *)
LEMMA DomHostInit == Dom!Init => Dom!HostInv
  BY DomCallL DEF Dom!Init, Dom!HostInv

(* Every step keeps claims off the platform's names. *)
LEMMA DomHostStep == ASSUME Dom!TypeOK, Dom!HostInv, [Dom!Next]_domVars PROVE Dom!HostInv'
  <1> DEFINE Rows == \A r \in nRows : ~Dom!PlatformHost(r.host)
             Ours(r) == r.at \in {"owner", "claim", "insert"} => ~Dom!PlatformHost(r.host)
             Calls == \A q \in Actors : Ours(nReq[q])
  <1>i. Rows /\ Calls BY DEF Dom!HostInv
  <1>j. Rows' /\ Calls' => Dom!HostInv' BY DEF Dom!HostInv
  <1>t. DOMAIN nReq = Actors BY DEF Dom!TypeOK
  <1>s. ASSUME NEW q \in Actors, NEW r, nReq' = [nReq EXCEPT ![q] = r], Ours(r) PROVE Calls'
    <2>1. nReq'[q] = r /\ \A p \in Actors \ {q} : nReq'[p] = nReq[p] BY <1>s, <1>t
    <2> QED BY <2>1, <1>s, <1>i
  <1>c. Ours(Dom!Idle) BY DomCallL
  <1>1. ASSUME NEW q \in Actors, NEW a \in DomApps, NEW h \in DomAsked, Dom!AddBegin(q, a, h)
        PROVE  Dom!HostInv'
    <2> DEFINE r == [at |-> "owner", app |-> a, host |-> h]
    <2>1. ~Dom!PlatformHost(h) => Ours(r) OBVIOUS
    <2>2. nReq' = [nReq EXCEPT ![q] = IF Dom!PlatformHost(h) THEN Dom!Idle ELSE r] /\ UNCHANGED nRows
      BY <1>1 DEF Dom!AddBegin, Dom!Step
    <2> HIDE DEF r, Ours, Calls
    <2>3. Calls' BY <2>1, <2>2, <1>s, <1>c
    <2> QED BY <2>2, <2>3, <1>i, <1>j
  <1>2. ASSUME NEW q \in Actors, Dom!AddOwner(q) \/ Dom!AddClaim(q) PROVE Dom!HostInv'
    <2> DEFINE r(at) == [nReq[q] EXCEPT !.at = at]
    <2>1. nReq[q] \in Dom!Adding /\ nReq[q].at \in {"owner", "claim"}
      <3>1. nReq[q] \in {Dom!Idle} \cup Dom!Adding \cup Dom!Verifying BY DEF Dom!TypeOK
      <3> QED BY <1>2, <3>1, DomCallL DEF Dom!AddOwner, Dom!AddClaim
    <2>2. ASSUME NEW at PROVE Ours(r(at))
      <3>1. r(at).host = nReq[q].host BY <2>1 DEF Dom!Adding
      <3>2. ~Dom!PlatformHost(nReq[q].host) BY <2>1, <1>i
      <3> QED BY <3>1, <3>2
    <2>3. UNCHANGED nRows /\
          (nReq' = [nReq EXCEPT ![q] = Dom!Idle] \/ \E at : nReq' = [nReq EXCEPT ![q] = r(at)])
      BY <1>2 DEF Dom!AddOwner, Dom!AddClaim, Dom!Step
    <2> HIDE DEF r, Ours, Calls
    <2>4. Calls' BY <2>2, <2>3, <1>s, <1>c
    <2> QED BY <2>3, <2>4, <1>i, <1>j
  <1>3. ASSUME NEW q \in Actors, Dom!AddInsert(q) PROVE Dom!HostInv'
    <2>1. ~Dom!PlatformHost(nReq[q].host) BY <1>3, <1>i DEF Dom!AddInsert
    <2>2. \A r \in nRows' : r \in nRows \/ r.host = nReq[q].host BY <1>3 DEF Dom!AddInsert
    <2>3. nReq' = [nReq EXCEPT ![q] = Dom!Idle] BY <1>3 DEF Dom!AddInsert, Dom!Step
    <2>4. Rows' BY <2>1, <2>2, <1>i
    <2> HIDE DEF Ours, Calls
    <2>5. Calls' BY <2>3, <1>s, <1>c
    <2> QED BY <2>4, <2>5, <1>j
  <1>4. ASSUME NEW q \in Actors, NEW a \in DomApps, NEW h \in DomAsked, Dom!VerifyBegin(q, a, h)
        PROVE  Dom!HostInv'
    <2>1. ASSUME NEW t PROVE Ours([at |-> "rival", app |-> a, host |-> h, token |-> t]) OBVIOUS
    <2>2. UNCHANGED nRows /\ \/ nReq' = [nReq EXCEPT ![q] = Dom!Idle]
                             \/ \E t : nReq' = [nReq EXCEPT ![q] = [at |-> "rival", app |-> a, host |-> h, token |-> t]]
      BY <1>4 DEF Dom!VerifyBegin, Dom!Step
    <2> HIDE DEF Ours, Calls
    <2>3. Calls' BY <2>1, <2>2, <1>s, <1>c
    <2> QED BY <2>2, <2>3, <1>i, <1>j
  <1>5. ASSUME NEW q \in Actors, Dom!VerifyOwner(q) \/ Dom!VerifyLookup(q) PROVE Dom!HostInv'
    <2> DEFINE r(at) == [nReq[q] EXCEPT !.at = at]
    <2>1. nReq[q] \in Dom!Verifying
      <3>1. nReq[q] \in {Dom!Idle} \cup Dom!Adding \cup Dom!Verifying BY DEF Dom!TypeOK
      <3> QED BY <1>5, <3>1, DomCallL DEF Dom!VerifyOwner, Dom!VerifyLookup
    <2>2. ASSUME NEW at \in {"lookup", "flip"} PROVE Ours(r(at))
      <3>1. r(at).at = at BY <2>1 DEF Dom!Verifying
      <3> QED BY <3>1
    <2>3. UNCHANGED nRows /\
          (nReq' = [nReq EXCEPT ![q] = Dom!Idle] \/ \E at \in {"lookup", "flip"} : nReq' = [nReq EXCEPT ![q] = r(at)])
      BY <1>5 DEF Dom!VerifyOwner, Dom!VerifyLookup, Dom!Step
    <2> HIDE DEF r, Ours, Calls
    <2>4. Calls' BY <2>2, <2>3, <1>s, <1>c
    <2> QED BY <2>3, <2>4, <1>i, <1>j
  <1>6. ASSUME NEW q \in Actors, Dom!VerifyFlip(q) PROVE Dom!HostInv'
    <2>1. nRows \subseteq Dom!Claimed BY DEF Dom!TypeOK
    <2>2. \A r \in nRows : [r EXCEPT !.status = "verified"].host = r.host
      BY <2>1 DEF Dom!Claimed
    <2>3. \A r \in nRows' : r \in nRows \/ \E m \in nRows : r.host = m.host
      BY <1>6, <2>2 DEF Dom!VerifyFlip, Dom!Claims
    <2>4. Rows' BY <2>3, <1>i
    <2>5. nReq' = [nReq EXCEPT ![q] = Dom!Idle] BY <1>6 DEF Dom!VerifyFlip, Dom!Step
    <2> HIDE DEF Ours, Calls
    <2>6. Calls' BY <2>5, <1>s, <1>c
    <2> QED BY <2>4, <2>6, <1>j
  <1>7. ASSUME NEW a \in DomApps, NEW h \in DomAsked, Dom!RemoveClaim(a, h) PROVE Dom!HostInv'
    BY <1>7, <1>i, <1>j DEF Dom!RemoveClaim
  <1>8. ASSUME UNCHANGED <<nRows, nReq>> PROVE Dom!HostInv' BY <1>8, <1>i, <1>j
  <1>9. ASSUME NEW a \in DomApps, NEW s, Dom!AppChanges(a, s) \/ Dom!EnvChanges(a, s)
        PROVE  Dom!HostInv'
    BY <1>9, <1>8 DEF Dom!AppChanges, Dom!EnvChanges
  <1>10. ASSUME NEW r \in nRows, Dom!Publish(r)
         PROVE  Dom!HostInv' BY <1>10, <1>8 DEF Dom!Publish
  <1>11. CASE UNCHANGED domVars BY <1>11, <1>8 DEF domVars
  <1> QED BY <1>1, <1>2, <1>3, <1>4, <1>5, <1>6, <1>7, <1>9, <1>10, <1>11 DEF Dom!Next

(* A slug is one app's, and neither reserved nor the control host's label. *)
LEMMA DomSlugL == ASSUME Dom!Bounds, Dom!NamesApart, NEW a \in DomApps
  PROVE /\ DomSlugs[a] \in Dom!Labels /\ DomSlugs[a] # Dom!None
        /\ DomSlugs[a] \notin {DomControl, "api", "git"}
        /\ Dom!AppBySlug(DomSlugs[a]) = {a}
  BY DEF Dom!Bounds, Dom!NamesApart, Dom!Labels, Dom!AppBySlug, Dom!ReservedSlugs

(* All readers take a tenant host for its app. *)
LEMMA DomTenantL ==
  ASSUME Dom!Bounds, Dom!NamesApart, NEW a \in DomApps, NEW h \in Dom!HostsOf(<<DomSlugs[a]>>)
  PROVE /\ Dom!ParseEdgeSlug(h) = DomSlugs[a] /\ Dom!ParseEnvHost(h) = Dom!None
        /\ Dom!ParsePreviewSlug(h) = Dom!None
        /\ Dom!AppForHost(h) = {a}
  <1> DEFINE parts == <<DomSlugs[a]>>
  <1>1. PICK base \in Dom!ToSet(Dom!TenantBases) : h = parts \o base BY DEF Dom!HostsOf
  <1>2. parts \in Seq(Dom!Labels) /\ Len(parts) = 1 /\ parts[1] = DomSlugs[a] BY DomSlugL
  <1> HIDE DEF parts
  <1>3. Dom!ParseEdgeSlug(h) = DomSlugs[a] BY <1>1, <1>2, DomEdgeL, DomSlugL
  <1>g. Len(parts) > 0 BY <1>2
  <1>4. Dom!ParseEnvHost(h) = Dom!EnvRest(parts) /\ Dom!ParsePreviewSlug(h) = Dom!PreviewRest(parts)
    <2>1. Dom!ParseEnvHost(parts \o base) = Dom!EnvRest(parts) BY <1>2, <1>g, DomEnvL
    <2>2. Dom!ParsePreviewSlug(parts \o base) = Dom!PreviewRest(parts)
      BY <1>2, <1>g, DomPreviewL
    <2> QED BY <2>1, <2>2, <1>1
  <1>5. Dom!EnvRest(parts) = Dom!None /\ Dom!PreviewRest(parts) = Dom!None
    BY <1>2 DEF Dom!EnvRest, Dom!PreviewRest
  <1>6. Dom!AppForHost(h) = {a} BY <1>3, DomSlugL DEF Dom!AppForHost
  <1> QED BY <1>3, <1>4, <1>5, <1>6

(* All readers take an environment's host for its environment. *)
LEMMA DomEnvHostL ==
  ASSUME Dom!Bounds, Dom!NamesApart, NEW a \in DomApps, NEW h \in Dom!EnvHosts(a),
         nEnv[a] # "none"
  PROVE /\ Dom!ParseEnvHost(h) = DomSlugs[a] /\ Dom!ParseEnvHost(h) # Dom!None
        /\ Dom!ParsePreviewSlug(h) = Dom!None
        /\ Dom!EnvironmentRoute(DomSlugs[a], Dom!LabelOf(h)) = {a}
  <1> DEFINE parts == <<Dom!EnvLabel, DomSlugs[a]>>
  <1>1. PICK base \in Dom!ToSet(Dom!TenantBases) : h = parts \o base
    BY DEF Dom!HostsOf, Dom!EnvHosts
  <1>2. parts \in Seq(Dom!Labels) /\ Len(parts) = 2 /\ parts[1] = Dom!EnvLabel /\ parts[2] = DomSlugs[a]
    <2>1. Dom!EnvLabel \in Dom!Labels BY DEF Dom!Labels
    <2> QED BY <2>1, DomSlugL
  <1> HIDE DEF parts
  <1>3. h[1] = Dom!EnvLabel
    <2>1. Len(parts) > 0 BY <1>2
    <2>2. (parts \o base)[1] = parts[1] BY <2>1, <1>2, DomHitL
    <2> QED BY <2>2, <1>1, <1>2
  <1>g. Len(parts) > 0 BY <1>2
  <1>4. Dom!ParseEnvHost(h) = Dom!EnvRest(parts) /\ Dom!ParsePreviewSlug(h) = Dom!PreviewRest(parts)
    <2>1. Dom!ParseEnvHost(parts \o base) = Dom!EnvRest(parts) BY <1>2, <1>g, DomEnvL
    <2>2. Dom!ParsePreviewSlug(parts \o base) = Dom!PreviewRest(parts)
      BY <1>2, <1>g, DomPreviewL
    <2> QED BY <2>1, <2>2, <1>1
  <1>5. Dom!EnvRest(parts) = DomSlugs[a] /\ Dom!PreviewRest(parts) = Dom!None
    BY <1>2 DEF Dom!EnvRest, Dom!PreviewRest, Dom!EnvLabel, Dom!ReservedLabels, Dom!PreviewLabel
  <1>6. Dom!EnvironmentRoute(DomSlugs[a], Dom!LabelOf(h)) = {a}
    BY <1>3, DomSlugL DEF Dom!EnvironmentRoute, Dom!LabelOf
  <1> QED BY <1>4, <1>5, <1>6, DomSlugL

(* The preview parser finds the app of a preview host. *)
LEMMA DomPreviewHostL ==
  ASSUME Dom!Bounds, Dom!NamesApart, NEW a \in DomApps,
         NEW h \in Dom!HostsOf(<<Dom!PreviewLabel, "preview", DomSlugs[a]>>)
  PROVE Dom!ParsePreviewSlug(h) = DomSlugs[a]
  <1> DEFINE parts == <<Dom!PreviewLabel, "preview", DomSlugs[a]>>
  <1>1. PICK base \in Dom!ToSet(Dom!TenantBases) : h = parts \o base BY DEF Dom!HostsOf
  <1>2. parts \in Seq(Dom!Labels) /\ Len(parts) = 3 /\ parts[1] = Dom!PreviewLabel /\
        parts[2] = "preview" /\ parts[3] = DomSlugs[a]
    <2>1. Dom!PreviewLabel \in Dom!Labels /\ "preview" \in Dom!Labels BY DEF Dom!Labels
    <2> QED BY <2>1, DomSlugL
  <1> HIDE DEF parts
  <1>3. Dom!ParsePreviewSlug(h) = Dom!PreviewRest(parts)
    <2>1. Len(parts) > 0 BY <1>2
    <2>2. Dom!ParsePreviewSlug(parts \o base) = Dom!PreviewRest(parts)
      BY <1>2, <2>1, DomPreviewL
    <2> QED BY <2>2, <1>1
  <1> QED BY <1>2, <1>3 DEF Dom!PreviewRest

(* A control host is the platform's, and no host of an app, environment or preview. *)
LEMMA DomControlL == ASSUME Dom!Bounds, Dom!NamesApart, NEW h \in Dom!ControlHosts
  PROVE /\ Dom!PlatformHost(h)
        /\ \A a \in DomApps : h \notin Dom!HostsOf(<<DomSlugs[a]>>) /\ h \notin Dom!EnvHosts(a) /\ h \notin Dom!HostsOf(<<Dom!PreviewLabel, "preview", DomSlugs[a]>>)
  <1>1. h \in Dom!ToSet(Dom!TenantBases) \/ h = <<DomControl>> \o Dom!Base
    BY DomBaseL DEF Dom!ControlHosts
  <1>2. <<DomControl>> \in Seq(Dom!Labels) /\ Len(<<DomControl>>) = 1
    <2>1. DomControl \in Dom!Labels BY DEF Dom!Labels
    <2> QED BY <2>1
  <1>3. h = <<DomControl>> \o Dom!Base => Dom!Below(h, Dom!Base) /\ Dom!Rest(h, Dom!Base) = <<DomControl>>
    <2> DEFINE c == <<DomControl>>
    <2>1. c \in Seq(Dom!Labels) /\ Len(c) > 0 BY <1>2
    <2>2. Dom!Base \in Seq(Dom!Labels) BY DomBaseL
    <2> HIDE DEF c
    <2>3. Dom!Below(c \o Dom!Base, Dom!Base) /\ Dom!Rest(c \o Dom!Base, Dom!Base) = c
      BY <2>1, <2>2, DomJoinL
    <2> QED BY <2>3 DEF c
  <1>4. Dom!PlatformHost(h) BY <1>1, <1>3, DomBaseL DEF Dom!PlatformHost
  <1>5. ASSUME NEW parts \in Seq(Dom!Labels), Len(parts) > 0, h \in Dom!HostsOf(parts)
        PROVE  parts = <<DomControl>>
    <2>1. PICK base \in Dom!ToSet(Dom!TenantBases) : h = parts \o base BY <1>5 DEF Dom!HostsOf
    <2>2. /\ Dom!Rest(h, base) = parts /\ h \notin Dom!ToSet(Dom!TenantBases) /\ h \in Seq(Dom!Labels)
          /\ \A i \in DOMAIN Dom!TenantBases : Dom!Below(h, Dom!TenantBases[i]) <=> Dom!TenantBases[i] = base
      BY <1>5, <2>1, DomHitL
    <2>3. Dom!Base = base BY <1>1, <1>3, <2>2, DomBaseL
    <2> QED BY <1>1, <1>3, <2>2, <2>3
  <1>6. ASSUME NEW a \in DomApps
        PROVE h \notin Dom!HostsOf(<<DomSlugs[a]>>) /\ h \notin Dom!EnvHosts(a) /\
              h \notin Dom!HostsOf(<<Dom!PreviewLabel, "preview", DomSlugs[a]>>)
    <2>1. DomSlugs[a] \in Dom!Labels /\ DomSlugs[a] # DomControl BY DomSlugL
    <2>2. Dom!EnvLabel \in Dom!Labels /\ Dom!PreviewLabel \in Dom!Labels /\ "preview" \in Dom!Labels
      BY DEF Dom!Labels
    <2>3. /\ <<DomSlugs[a]>> \in Seq(Dom!Labels) /\ Len(<<DomSlugs[a]>>) = 1
          /\ <<DomSlugs[a]>> # <<DomControl>>
          /\ <<Dom!EnvLabel, DomSlugs[a]>> \in Seq(Dom!Labels) /\ Len(<<Dom!EnvLabel, DomSlugs[a]>>) = 2
          /\ <<Dom!PreviewLabel, "preview", DomSlugs[a]>> \in Seq(Dom!Labels)
          /\ Len(<<Dom!PreviewLabel, "preview", DomSlugs[a]>>) = 3
      BY <2>1, <2>2
    <2> DEFINE s == <<DomSlugs[a]>>  e == <<Dom!EnvLabel, DomSlugs[a]>>  p == <<Dom!PreviewLabel, "preview", DomSlugs[a]>>
    <2>7. /\ s \in Seq(Dom!Labels) /\ Len(s) > 0 /\ s # <<DomControl>>
          /\ e \in Seq(Dom!Labels) /\ Len(e) > 0 /\ e # <<DomControl>>
          /\ p \in Seq(Dom!Labels) /\ Len(p) > 0 /\ p # <<DomControl>>
      BY <2>3, <1>2
    <2> HIDE DEF s, e, p
    <2>4. h \notin Dom!HostsOf(s) BY <2>7, <1>5
    <2>5. h \notin Dom!HostsOf(e) BY <2>7, <1>5
    <2>6. h \notin Dom!HostsOf(p) BY <2>7, <1>5
    <2> QED BY <2>4, <2>5, <2>6 DEF Dom!EnvHosts, s, e, p
  <1> QED BY <1>4, <1>6

(* All readers take a verified custom name for its one app. *)
LEMMA DomCustomL ==
  ASSUME Dom!Bounds, Dom!TypeOK, Dom!HostInv, Dom!VerifiedWasProven, NEW r \in nRows,
         r.status = "verified"
  PROVE /\ Dom!ParseEdgeSlug(r.host) = Dom!None /\ Dom!ParseEnvHost(r.host) = Dom!None
        /\ Dom!ParsePreviewSlug(r.host) = Dom!None
        /\ Dom!AppForHost(r.host) = {r.app} /\ r.app \in DomApps
  <1>1. ~Dom!PlatformHost(r.host) BY DEF Dom!HostInv
  <1>2. Dom!ParseEdgeSlug(r.host) = Dom!None /\ Dom!ParseEnvHost(r.host) = Dom!None /\
        Dom!ParsePreviewSlug(r.host) = Dom!None
    BY <1>1, DomForeignL
  <1>3. \A x \in nRows : x.status = "verified" /\ x.host = r.host => x.app = r.app
    BY DEF Dom!VerifiedWasProven, Dom!VerifiedRival, Dom!Rivals
  <1>4. Dom!AppByDomain(r.host) = {r.app} BY <1>3 DEF Dom!AppByDomain
  <1>5. r.app \in DomApps BY DomCallL DEF Dom!TypeOK
  <1> QED BY <1>2, <1>4, <1>5 DEF Dom!AppForHost

(* What each part of the table routes, and for whom. *)
LEMMA DomRoutesL ==
        /\ \A h \in DOMAIN Dom!TenantRoutes : \E a \in DomApps :
              /\ Dom!Serves(a) /\ h \in Dom!HostsOf(<<DomSlugs[a]>>)
              /\ Dom!TenantRoutes[h] = Dom!FleetRoute("tenant", <<"app", a>>, nApp[a] = "asleep")
        /\ \A h \in DOMAIN Dom!CustomRoutes : \E r \in nRows :
              /\ r.status = "verified" /\ Dom!Serves(r.app) /\ r.host = h
              /\ Dom!CustomRoutes[h] = Dom!FleetRoute("custom", <<"app", r.app>>, nApp[r.app] = "asleep")
        /\ \A h \in DOMAIN Dom!EnvRoutes : \E a \in DomApps :
              /\ nEnv[a] # "none" /\ h \in Dom!EnvHosts(a)
              /\ Dom!EnvRoutes[h] = IF Dom!EnvLive(a) THEN Dom!FleetRoute("env", <<"env", a>>, nEnv[a] = "asleep")
                               ELSE [kind |-> "env-parked"]
        /\ \A h \in DOMAIN Dom!PreviewRoutes : /\ Dom!PreviewRoutes[h] = [kind |-> "preview"]
                                               /\ \E a \in DomApps : h \in Dom!HostsOf(<<Dom!PreviewLabel, "preview", DomSlugs[a]>>)
        /\ \A h \in DOMAIN Dom!PlatformRoutes : Dom!PlatformRoutes[h] = Dom!ControlRoute
        /\ Dom!ControlHosts \subseteq DOMAIN Dom!PlatformRoutes
  <1>1. ASSUME NEW h \in DOMAIN Dom!TenantRoutes PROVE \E a \in DomApps :
              /\ Dom!Serves(a) /\ h \in Dom!HostsOf(<<DomSlugs[a]>>)
              /\ Dom!TenantRoutes[h] = Dom!FleetRoute("tenant", <<"app", a>>, nApp[a] = "asleep")
    <2> DEFINE served == {x \in DomApps : Dom!Serves(x)}
               a == CHOOSE x \in served : h \in Dom!HostsOf(<<DomSlugs[x]>>)
    <2>1. \E x \in served : h \in Dom!HostsOf(<<DomSlugs[x]>>) BY <1>1 DEF Dom!TenantRoutes
    <2>2. a \in served /\ h \in Dom!HostsOf(<<DomSlugs[a]>>) BY <2>1, Zenon
    <2>3. Dom!TenantRoutes[h] = Dom!FleetRoute("tenant", <<"app", a>>, nApp[a] = "asleep")
      BY <1>1 DEF Dom!TenantRoutes
    <2> QED BY <2>2, <2>3
  <1>2. ASSUME NEW h \in DOMAIN Dom!CustomRoutes PROVE \E r \in nRows :
              /\ r.status = "verified" /\ Dom!Serves(r.app) /\ r.host = h
              /\ Dom!CustomRoutes[h] = Dom!FleetRoute("custom", <<"app", r.app>>, nApp[r.app] = "asleep")
    <2> DEFINE rows == {x \in nRows : x.status = "verified" /\ Dom!Serves(x.app)}
               r == CHOOSE x \in rows : x.host = h
    <2>1. \E x \in rows : x.host = h BY <1>2 DEF Dom!CustomRoutes
    <2>2. r \in rows /\ r.host = h BY <2>1, Zenon
    <2>3. Dom!CustomRoutes[h] = Dom!FleetRoute("custom", <<"app", r.app>>, nApp[r.app] = "asleep")
      BY <1>2 DEF Dom!CustomRoutes
    <2> QED BY <2>2, <2>3
  <1>3. ASSUME NEW h \in DOMAIN Dom!EnvRoutes PROVE \E a \in DomApps :
              /\ nEnv[a] # "none" /\ h \in Dom!EnvHosts(a)
              /\ Dom!EnvRoutes[h] = IF Dom!EnvLive(a) THEN Dom!FleetRoute("env", <<"env", a>>, nEnv[a] = "asleep")
                               ELSE [kind |-> "env-parked"]
    <2> DEFINE owners == {x \in DomApps : nEnv[x] # "none"}
               a == CHOOSE x \in owners : h \in Dom!EnvHosts(x)
    <2>1. \E x \in owners : h \in Dom!EnvHosts(x) BY <1>3 DEF Dom!EnvRoutes
    <2>2. a \in owners /\ h \in Dom!EnvHosts(a) BY <2>1, Zenon
    <2>3. Dom!EnvRoutes[h] = IF Dom!EnvLive(a) THEN Dom!FleetRoute("env", <<"env", a>>, nEnv[a] = "asleep") ELSE [kind |-> "env-parked"]
      BY <1>3 DEF Dom!EnvRoutes
    <2> QED BY <2>2, <2>3
  <1>4. ASSUME NEW h \in DOMAIN Dom!PreviewRoutes
        PROVE Dom!PreviewRoutes[h] = [kind |-> "preview"] /\ \E a \in DomApps : h \in Dom!HostsOf(<<Dom!PreviewLabel, "preview", DomSlugs[a]>>)
    BY <1>4 DEF Dom!PreviewRoutes
  <1>5. \A h \in DOMAIN Dom!PlatformRoutes : Dom!PlatformRoutes[h] = Dom!ControlRoute
    BY DEF Dom!PlatformRoutes
  <1>6. Dom!ControlHosts \subseteq DOMAIN Dom!PlatformRoutes BY DEF Dom!PlatformRoutes
  <1> QED BY <1>1, <1>2, <1>3, <1>4, <1>5, <1>6

(* A later insert replaces an earlier one. *)
LEMMA DomOverL == ASSUME NEW f, NEW g
  PROVE DOMAIN Dom!Over(f, g) = DOMAIN f \cup DOMAIN g /\ \A h \in DOMAIN Dom!Over(f, g) : Dom!Over(f, g)[h] = IF h \in DOMAIN g THEN g[h] ELSE f[h]
  BY DEF Dom!Over

(* Which part of the table a host's route comes from. *)
LEMMA DomTableL ==
        /\ DOMAIN Dom!BuildTable = DOMAIN Dom!PlatformRoutes \cup DOMAIN Dom!TenantRoutes \cup DOMAIN Dom!CustomRoutes \cup DOMAIN Dom!PreviewRoutes \cup DOMAIN Dom!EnvRoutes
        /\ \A h \in DOMAIN Dom!BuildTable : Dom!BuildTable[h] =
              IF h \in DOMAIN Dom!EnvRoutes THEN Dom!EnvRoutes[h]
              ELSE IF h \in DOMAIN Dom!PreviewRoutes THEN Dom!PreviewRoutes[h]
              ELSE IF h \in DOMAIN Dom!CustomRoutes THEN Dom!CustomRoutes[h]
              ELSE IF h \in DOMAIN Dom!TenantRoutes THEN Dom!TenantRoutes[h] ELSE Dom!PlatformRoutes[h]
  <1> DEFINE t1 == Dom!Over(Dom!PlatformRoutes, Dom!TenantRoutes)
             t2 == Dom!Over(t1, Dom!CustomRoutes)
             t3 == Dom!Over(t2, Dom!PreviewRoutes)
             t4 == Dom!Over(t3, Dom!EnvRoutes)
  <1>0. Dom!BuildTable = t4 BY DEF Dom!BuildTable
  <1>1. DOMAIN t1 = DOMAIN Dom!PlatformRoutes \cup DOMAIN Dom!TenantRoutes /\
        \A h \in DOMAIN t1 : t1[h] = IF h \in DOMAIN Dom!TenantRoutes THEN Dom!TenantRoutes[h] ELSE Dom!PlatformRoutes[h]
          BY DomOverL, Zenon
  <1> HIDE DEF t1
  <1>2. DOMAIN t2 = DOMAIN t1 \cup DOMAIN Dom!CustomRoutes /\
        \A h \in DOMAIN t2 : t2[h] = IF h \in DOMAIN Dom!CustomRoutes THEN Dom!CustomRoutes[h] ELSE t1[h]
          BY DomOverL, Zenon
  <1> HIDE DEF t2
  <1>3. DOMAIN t3 = DOMAIN t2 \cup DOMAIN Dom!PreviewRoutes /\
        \A h \in DOMAIN t3 : t3[h] = IF h \in DOMAIN Dom!PreviewRoutes THEN Dom!PreviewRoutes[h] ELSE t2[h]
          BY DomOverL, Zenon
  <1> HIDE DEF t3
  <1>4. DOMAIN t4 = DOMAIN t3 \cup DOMAIN Dom!EnvRoutes /\
        \A h \in DOMAIN t4 : t4[h] = IF h \in DOMAIN Dom!EnvRoutes THEN Dom!EnvRoutes[h] ELSE t3[h]
          BY DomOverL, Zenon
  <1> HIDE DEF t4
  <1> QED BY <1>0, <1>1, <1>2, <1>3, <1>4

(* The readers agree about an environment's host. *)
LEMMA DomEnvCase ==
  ASSUME Dom!Bounds, Dom!NamesApart, Dom!TypeOK, NEW a \in DomApps, NEW h \in Dom!EnvHosts(a),
         nEnv[a] # "none", NEW r, 
                        r = IF Dom!EnvLive(a) THEN Dom!FleetRoute("env", <<"env", a>>, nEnv[a] = "asleep") ELSE [kind |-> "env-parked"]
  PROVE /\ Dom!TlsAsk(h)
        /\ r.kind \in {"tenant", "custom", "env"} => Dom!WakeTarget(h) = {r.fleet}
        /\ r.kind = "env-parked" => Dom!FallbackPage(h) \in {"paused", "not deployed"}
  <1>1. /\ Dom!ParseEnvHost(h) = DomSlugs[a] /\ Dom!ParseEnvHost(h) # Dom!None
        /\ Dom!ParsePreviewSlug(h) = Dom!None
        /\ Dom!EnvironmentRoute(DomSlugs[a], Dom!LabelOf(h)) = {a}
    BY DomEnvHostL
  <1>2. Dom!TlsAsk(h) BY <1>1 DEF Dom!TlsAsk
  <1>3. Dom!WakeTarget(h) = {<<"env", a>>} BY <1>1 DEF Dom!WakeTarget
  <1>4. Dom!FallbackPage(h) = Dom!PageOf(nEnv[a])
    <2>1. (CHOOSE x \in {a} : TRUE) = a OBVIOUS
    <2> QED BY <1>1, <2>1 DEF Dom!FallbackPage
  <1>5. nEnv[a] \in Dom!EnvStates BY DEF Dom!TypeOK
  <1>6. CASE Dom!EnvLive(a)
    <2>1. r.kind = "env" /\ r.fleet = <<"env", a>> BY <1>6 DEF Dom!FleetRoute
    <2> QED BY <1>2, <1>3, <2>1
  <1>7. CASE ~Dom!EnvLive(a)
    <2>1. r.kind = "env-parked" BY <1>7
    <2>2. nEnv[a] \in {"parked", "stopped"} BY <1>5, <1>7 DEF Dom!EnvStates, Dom!EnvLive
    <2>3. Dom!PageOf(nEnv[a]) \in {"paused", "not deployed"} BY <2>2 DEF Dom!PageOf
    <2> QED BY <1>2, <1>4, <2>1, <2>3
  <1> QED BY <1>6, <1>7

(* The readers agree with the table about every host. *)
LEMMA DomReadersL ==
  ASSUME Dom!Bounds, Dom!NamesApart, Dom!TypeOK, Dom!HostInv, Dom!VerifiedWasProven
  PROVE  Dom!ReadersAgree
  <1> DEFINE Good(h, r) ==
               /\ r.kind # "control" => Dom!TlsAsk(h) \/ r.kind = "env-parked"
               /\ r.kind \in {"tenant", "custom", "env"} => Dom!WakeTarget(h) = {r.fleet}
               /\ r.kind = "env-parked" => Dom!FallbackPage(h) \in {"paused", "not deployed"}
  <1>1. ASSUME NEW h \in DOMAIN Dom!EnvRoutes PROVE Good(h, Dom!EnvRoutes[h])
    <2>1. PICK a \in DomApps : /\ nEnv[a] # "none" /\ h \in Dom!EnvHosts(a)
                               /\ Dom!EnvRoutes[h] = IF Dom!EnvLive(a) THEN Dom!FleetRoute("env", <<"env", a>>, nEnv[a] = "asleep")
                                                 ELSE [kind |-> "env-parked"]
      BY DomRoutesL
    <2> QED BY <2>1, DomEnvCase
  <1>2. ASSUME NEW h \in DOMAIN Dom!PreviewRoutes PROVE Good(h, Dom!PreviewRoutes[h])
    <2>1. Dom!PreviewRoutes[h] = [kind |-> "preview"] BY DomRoutesL
    <2>2. PICK a \in DomApps : h \in Dom!HostsOf(<<Dom!PreviewLabel, "preview", DomSlugs[a]>>)
      BY DomRoutesL
    <2>3. Dom!ParsePreviewSlug(h) # Dom!None /\ Dom!AppBySlug(Dom!ParsePreviewSlug(h)) # {}
      BY <2>2, DomPreviewHostL, DomSlugL
    <2>4. Dom!TlsAsk(h) BY <2>3 DEF Dom!TlsAsk
    <2>5. Dom!PreviewRoutes[h].kind = "preview" BY <2>1
    <2> QED BY <2>4, <2>5
  <1>3. ASSUME NEW h \in DOMAIN Dom!CustomRoutes PROVE Good(h, Dom!CustomRoutes[h])
    <2>1. PICK r \in nRows : /\ r.status = "verified" /\ Dom!Serves(r.app) /\ r.host = h
                             /\ Dom!CustomRoutes[h] = Dom!FleetRoute("custom", <<"app", r.app>>, nApp[r.app] = "asleep")
      BY DomRoutesL
    <2>2. /\ Dom!ParseEdgeSlug(h) = Dom!None /\ Dom!ParseEnvHost(h) = Dom!None
          /\ Dom!ParsePreviewSlug(h) = Dom!None
          /\ Dom!AppForHost(h) = {r.app}
      BY <2>1, DomCustomL
    <2>3. Dom!WakeTarget(h) = {<<"app", r.app>>} BY <2>2 DEF Dom!WakeTarget
    <2>4. Dom!TlsAsk(h) BY <2>1, <2>2 DEF Dom!TlsAsk, Dom!Serves, Dom!ReservedSlugs, Dom!None
    <2>5. Dom!CustomRoutes[h].kind = "custom" /\ Dom!CustomRoutes[h].fleet = <<"app", r.app>>
      BY <2>1 DEF Dom!FleetRoute
    <2> QED BY <2>3, <2>4, <2>5
  <1>4. ASSUME NEW h \in DOMAIN Dom!TenantRoutes PROVE Good(h, Dom!TenantRoutes[h])
    <2>1. PICK a \in DomApps : /\ Dom!Serves(a) /\ h \in Dom!HostsOf(<<DomSlugs[a]>>)
                               /\ Dom!TenantRoutes[h] = Dom!FleetRoute("tenant", <<"app", a>>, nApp[a] = "asleep")
      BY DomRoutesL
    <2>2. /\ Dom!ParseEdgeSlug(h) = DomSlugs[a] /\ Dom!ParseEnvHost(h) = Dom!None
          /\ Dom!ParsePreviewSlug(h) = Dom!None
          /\ Dom!AppForHost(h) = {a}
      BY <2>1, DomTenantL
    <2>3. Dom!WakeTarget(h) = {<<"app", a>>} BY <2>2 DEF Dom!WakeTarget
    <2>4. Dom!TlsAsk(h) BY <2>1, <2>2 DEF Dom!TlsAsk, Dom!Serves, Dom!Bounds
    <2>5. Dom!TenantRoutes[h].kind = "tenant" /\ Dom!TenantRoutes[h].fleet = <<"app", a>>
      BY <2>1 DEF Dom!FleetRoute
    <2> QED BY <2>3, <2>4, <2>5
  <1>5. ASSUME NEW h \in DOMAIN Dom!PlatformRoutes PROVE Good(h, Dom!PlatformRoutes[h])
    <2>1. Dom!PlatformRoutes[h].kind = "control" BY DomRoutesL DEF Dom!ControlRoute
    <2> QED BY <2>1
  <1>6. ASSUME NEW h \in Dom!ControlHosts PROVE Dom!BuildTable[h] = Dom!ControlRoute
    <2>1. h \in DOMAIN Dom!PlatformRoutes /\ Dom!PlatformRoutes[h] = Dom!ControlRoute
      BY DomRoutesL
    <2>2. h \notin DOMAIN Dom!EnvRoutes /\ h \notin DOMAIN Dom!PreviewRoutes /\
          h \notin DOMAIN Dom!TenantRoutes
      BY DomRoutesL, DomControlL
    <2>3. h \notin DOMAIN Dom!CustomRoutes
      <3>1. Dom!PlatformHost(h) BY DomControlL
      <3> QED BY <3>1, DomRoutesL DEF Dom!HostInv
    <2>4. h \in DOMAIN Dom!BuildTable BY <2>1, DomTableL
    <2> QED BY <2>1, <2>2, <2>3, <2>4, DomTableL
  <1>7. ASSUME NEW a \in DomApps, ~Dom!Serves(a), NEW h \in Dom!HostsOf(<<DomSlugs[a]>>)
        PROVE Dom!FallbackPage(h) \in {"paused", "not deployed"}
    <2>1. Dom!ParseEnvHost(h) = Dom!None /\ Dom!AppForHost(h) = {a} BY DomTenantL
    <2>2. (CHOOSE x \in {a} : TRUE) = a OBVIOUS
    <2>3. Dom!FallbackPage(h) = Dom!PageOf(nApp[a]) BY <2>1, <2>2 DEF Dom!FallbackPage
    <2>4. nApp[a] \in {"stopped", "undeployed"}
      <3>1. nApp[a] \in Dom!States BY DEF Dom!TypeOK
      <3> QED BY <3>1, <1>7 DEF Dom!States, Dom!Ports, Dom!Serves
    <2> QED BY <2>3, <2>4 DEF Dom!PageOf
  <1> HIDE DEF Good
  <1>8. ASSUME NEW h \in DOMAIN Dom!BuildTable PROVE Good(h, Dom!BuildTable[h])
    BY <1>1, <1>2, <1>3, <1>4, <1>5, DomTableL
  <1> QED BY <1>6, <1>7, <1>8 DEF Dom!ReadersAgree, Good

(* A step of the platform is a step of the domains or leaves them alone. *)
LEMMA DomNext == [Next]_allVars => [Dom!Next]_domVars
  BY DEF Next, allVars, EnvStep, TelStep, SbxStep, CgStep, ErrStep, DomStep, InstStep,
         NoteStep, RenStep, EvStep, LogStep

(* The inductive invariant of the domains. *)
LEMMA DomInductive == Spec => [](Dom!TypeOK /\ Dom!TokenInv /\ Dom!HostInv)
  <1> DEFINE Inv == Dom!TypeOK /\ Dom!TokenInv /\ Dom!HostInv
  <1>1. Init => Inv BY DomBounds, DomInitL, DomHostInit DEF Init
  <1>2. Inv /\ [Next]_allVars => Inv'
    BY DomBounds, DomNext, DomTypeStep, DomTokenStep, DomHostStep
  <1> QED BY <1>1, <1>2, PTL DEF Spec

(* In multi tenancy a verified claim had its own app's token published in   *)
(* the name's DNS, and no two apps hold a verified claim of one name,       *)
(* whatever is removed, claimed again or verified while a call waits on the *)
(* lookup (service/domains.rs verify, db/apps.rs verify_domain).            *)
THEOREM DomainsAreProven == Spec => []Dom!VerifiedWasProven
  <1>1. Dom!TokenInv => Dom!VerifiedWasProven BY DEF Dom!TokenInv
  <1> QED BY <1>1, DomInductive, PTL


=============================================================================
