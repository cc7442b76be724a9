--------------------------- MODULE StorageProofs ---------------------------
(* What the parts of MCDelivery that keep things in a store promise, for    *)
(* every value of their constants: imports, boots, git hosting and source   *)
(* maps.                                                                    *)
EXTENDS DeliveryProofs

(* A set of naturals that is bounded and not empty has a greatest element. *)
LEMMA NatMax ==
  ASSUME NEW n \in Nat, NEW J \in SUBSET (0 .. n), J # {}
  PROVE  \E j \in J : \A k \in J : k <= j
  <1> DEFINE S == {n - k : k \in J}
  <1>a. \A k \in J : n - k \in Nat OBVIOUS
  <1>b. S \in SUBSET Nat BY <1>a
  <1>c. PICK k0 \in J : TRUE OBVIOUS
  <1>d. n - k0 \in S OBVIOUS
  <1>1. S \in SUBSET Nat /\ S # {} BY <1>b, <1>d
  <1>2. PICK u \in S : \A w \in S : u <= w BY <1>1, NatMin
  <1>3. PICK j \in J : u = n - j BY <1>2
  <1>4. ASSUME NEW k \in J PROVE k <= j
    <2>1. n - k \in S OBVIOUS
    <2>2. u <= n - k BY <1>2, <2>1
    <2> QED BY <1>3, <2>2
  <1> QED BY <1>4


-----------------------------------------------------------------------------
(* Imports (AppImport). *)
(* The component's cardinality is the library's. *)
LEMMA ImpCardL == \A S : Imp!Cardinality(S) = Cardinality(S)
  BY DEF Imp!Cardinality, Cardinality

(* The component's finite sets are the library's. *)
LEMMA ImpFinL == \A S : Imp!IsFiniteSet(S) <=> IsFiniteSet(S)
  BY DEF Imp!IsFiniteSet, IsFiniteSet

(* The values at rest are well formed. *)
LEMMA ImpRestL == ASSUME Imp!Bounds
  PROVE Imp!NoMain \in Imp!Mains /\ Imp!NoMain.size = 0 /\ Imp!NoTask \in Imp!Imports /\
        Imp!NoTask.step = "idle"
  <1>1. Imp!NoMain \in Imp!Mains /\ Imp!NoMain.size = 0 BY DEF Imp!NoMain, Imp!Mains, Imp!Bounds
  <1> QED BY <1>1 DEF Imp!NoTask, Imp!Imports, Imp!Bounds

(* Spending one of the bounds keeps them well formed. *)
LEMMA ImpLeftL == ASSUME Imp!Bounds, aLeft \in Imp!Lefts
  PROVE (Imp!Op => aLeft' \in Imp!Lefts) /\ (Imp!Spent => aLeft' \in Imp!Lefts)
  BY DEF Imp!Bounds, Imp!Lefts, Imp!Op, Imp!Spent

(* An import that moves to another step stays an import. *)
LEMMA ImpGoL ==
  ASSUME NEW k \in Imp!Imports, NEW s \in {"pick", "read", "ok", "failed", "leave"}
  PROVE [k EXCEPT !.step = s] \in Imp!Imports /\ [k EXCEPT !.step = s].step = s /\
        [k EXCEPT !.step = s].size = k.size
  BY DEF Imp!Imports

(* What spawn starts is an import at its first step. *)
LEMMA ImpSpawnL == ASSUME Imp!Bounds, NEW s \in ImpSlugs
  PROVE [Imp!NoTask EXCEPT !.step = "clone", !.slug = s] \in Imp!Imports /\
        [Imp!NoTask EXCEPT !.step = "clone", !.slug = s].step = "clone"
  <1>1. Imp!NoTask \in Imp!Imports BY ImpRestL
  <1> QED BY <1>1 DEF Imp!Imports

(* There is a commit left to push while the bound allows it. *)
LEMMA ImpPushL ==
  ASSUME Imp!Bounds, aPushed \subseteq 1..ImpMaxPushes, Cardinality(aPushed) < ImpMaxPushes
  PROVE Cardinality(aPushed) + 1 \in 1..ImpMaxPushes
  <1>1. IsFiniteSet(1..ImpMaxPushes) BY FS_Interval DEF Imp!Bounds
  <1>2. IsFiniteSet(aPushed) BY <1>1, FS_Subset
  <1>3. Cardinality(aPushed) \in Nat BY <1>2, FS_CardinalityType, ImpCardL, ImpFinL
  <1> QED BY <1>3 DEF Imp!Bounds

(* The invariant holds at first. *)
LEMMA ImpInitL == ASSUME Imp!Bounds, Imp!Init PROVE Imp!TypeOK /\ Imp!MeasuredInv
  <1>1. aApp \in Imp!AppRows /\ aLeft \in Imp!Lefts
    BY DEF Imp!Init, Imp!AppRows, Imp!Lefts, Imp!Bounds
  <1>4. aUp \in 1..ImpMaxUp /\ aStage \in [ImpSlugs -> 0..ImpMaxUp] BY DEF Imp!Init, Imp!Bounds
  <1>5. aMain \in [ImpSlugs -> Imp!Mains] /\ aTask \in [Actors -> Imp!Imports]
    BY ImpRestL DEF Imp!Init
  <1>2. Imp!TypeOK BY <1>1, <1>4, <1>5 DEF Imp!Init, Imp!TypeOK
  <1>3. Imp!MeasuredInv
    BY ImpRestL DEF Imp!Init, Imp!MeasuredInv, Imp!PublishedWithinCap, Imp!Bounds
  <1> QED BY <1>2, <1>3

(* Every step keeps sizes measured before they are published. *)
LEMMA ImpSteps ==
  ASSUME Imp!Bounds, Imp!TypeOK, Imp!MeasuredInv, [Imp!Next]_impVars
  PROVE  Imp!TypeOK' /\ Imp!MeasuredInv'
  <1> DEFINE Late == {"stage", "pick", "drop", "read", "publish"}
             AppT == aApp' \in Imp!AppRows
             MainT == aMain' \in [ImpSlugs -> Imp!Mains] /\ \A s \in ImpSlugs : aMain'[s].size <= ImpCap
             StageT == aStage' \in [ImpSlugs -> 0..ImpMaxUp]
             TaskT == aTask' \in [Actors -> Imp!Imports] /\ \A t \in Actors : aTask'[t].step \in Late => aTask'[t].size <= ImpCap
             ReqT == aReq' \in [ImpRequests -> {"idle", "checked"}]
             TipT == aTip' \in {"none", "queued", "deploying"}
             UpT == aUp' \in 1..ImpMaxUp
             PushT == aPushed' \subseteq 1..ImpMaxPushes
             LeftT == aLeft' \in Imp!Lefts
             Goal == AppT /\ MainT /\ StageT /\ TaskT /\ aFlight' \in BOOLEAN /\ ReqT /\ TipT /\ UpT /\
                     PushT /\ LeftT
  <1>q. Goal => Imp!TypeOK' /\ Imp!MeasuredInv'
    BY DEF Imp!TypeOK, Imp!MeasuredInv, Imp!PublishedWithinCap
  <1>t. /\ aApp \in Imp!AppRows /\ aMain \in [ImpSlugs -> Imp!Mains] /\ \A s \in ImpSlugs : aMain[s].size <= ImpCap
        /\ aStage \in [ImpSlugs -> 0..ImpMaxUp]
        /\ aTask \in [Actors -> Imp!Imports] /\ \A t \in Actors : aTask[t].step \in Late => aTask[t].size <= ImpCap
        /\ aFlight \in BOOLEAN /\ aReq \in [ImpRequests -> {"idle", "checked"}]
        /\ aTip \in {"none", "queued", "deploying"}
        /\ aUp \in 1..ImpMaxUp /\ aPushed \subseteq 1..ImpMaxPushes /\ aLeft \in Imp!Lefts
    BY DEF Imp!TypeOK, Imp!MeasuredInv, Imp!PublishedWithinCap
  <1>a. /\ aApp.slug \in ImpSlugs
        /\ \A s \in {"importing", "provisioned", "error", "building", "running"} : [aApp EXCEPT !.status = s] \in Imp!AppRows
        /\ [aApp EXCEPT !.here = TRUE, !.status = "importing", !.imported = TRUE] \in Imp!AppRows
        /\ \A s \in ImpSlugs : [aApp EXCEPT !.slug = s] \in Imp!AppRows
        /\ [aApp EXCEPT !.here = FALSE] \in Imp!AppRows
    BY <1>t DEF Imp!AppRows
  <1>s. \A t \in Actors : aTask[t] \in Imp!Imports /\ aTask[t].slug \in ImpSlugs /\ aTask[t].size \in 0..ImpMaxSize /\ aTask[t].up \in 0..ImpMaxUp
    BY <1>t DEF Imp!Imports
  <1>m. \A s \in ImpSlugs : aMain[s] \in Imp!Mains BY <1>t
  <1>n. Imp!NoMain \in Imp!Mains /\ Imp!NoMain.size <= ImpCap /\ Imp!NoTask \in Imp!Imports /\
        Imp!NoTask.step \notin Late
    BY ImpRestL DEF Imp!Bounds
  <1>u. ASSUME NEW t \in Actors, NEW k \in Imp!Imports, k.step \in Late => k.size <= ImpCap,
               aTask' = [aTask EXCEPT ![t] = k]
        PROVE  TaskT
    BY <1>u, <1>t
  <1>g. ASSUME NEW t \in Actors, NEW s \in {"pick", "read", "ok", "failed", "leave"},
               Imp!Go(t, s), 
               s \in Late => aTask[t].step \in Late PROVE TaskT
    <2>1. aTask' = [aTask EXCEPT ![t] = [aTask[t] EXCEPT !.step = s]] BY <1>g DEF Imp!Go
    <2>2. aTask[t] \in Imp!Imports /\ (aTask[t].step \in Late => aTask[t].size <= ImpCap)
      BY <1>t
    <2> DEFINE k == [aTask[t] EXCEPT !.step = s]
    <2>3. k \in Imp!Imports /\ k.step = s /\ k.size = aTask[t].size BY <2>2, ImpGoL
    <2>4. k.step \in Late => k.size <= ImpCap BY <2>2, <2>3, <1>g
    <2> HIDE DEF k
    <2> QED BY <2>1, <2>3, <2>4, <1>u DEF k
  <1>sp. ASSUME NEW t \in Actors, NEW s \in ImpSlugs, aTask' = Imp!Spawned(t, s) PROVE TaskT
    <2> DEFINE k == [Imp!NoTask EXCEPT !.step = "clone", !.slug = s]
    <2>1. k \in Imp!Imports /\ k.step = "clone" BY ImpSpawnL
    <2>2. aTask' = [aTask EXCEPT ![t] = k] BY <1>sp DEF Imp!Spawned
    <2> HIDE DEF k
    <2> QED BY <2>1, <2>2, <1>u
  <1>ms. ASSUME NEW s \in ImpSlugs, NEW k \in Imp!Mains, k.size <= ImpCap,
                aMain' = [aMain EXCEPT ![s] = k]
         PROVE  MainT
    BY <1>ms, <1>t
  <1>l. (Imp!Op => LeftT) /\ (Imp!Spent => LeftT) BY ImpLeftL, <1>t
  <1>1. ASSUME NEW t \in Actors, Imp!Create(t) PROVE Goal
    <2>1. TaskT BY <1>1, <1>sp DEF Imp!Create, Imp!Bounds
    <2> QED BY <1>1, <2>1, <1>t, <1>a DEF Imp!Create
  <1>2. ASSUME NEW t \in Actors, Imp!CloneGrows(t) PROVE Goal
    <2> DEFINE k == [aTask[t] EXCEPT !.size = @ + 1]
    <2>1. aTask' = [aTask EXCEPT ![t] = k] BY <1>2 DEF Imp!CloneGrows
    <2>2. k \in Imp!Imports /\ k.step = "clone"
      BY <1>2, <1>s DEF Imp!CloneGrows, Imp!Imports, Imp!Bounds
    <2> HIDE DEF k
    <2>3. TaskT BY <2>1, <2>2, <1>u
    <2> QED BY <1>2, <2>3, <1>t DEF Imp!CloneGrows
  <1>3. ASSUME NEW t \in Actors, Imp!CloneKilled(t) PROVE Goal
    <2>1. TaskT BY <1>3, <1>g DEF Imp!CloneKilled
    <2>2. LeftT BY <1>3, <1>t DEF Imp!CloneKilled, Imp!Lefts, Imp!Bounds
    <2> QED BY <1>3, <2>1, <2>2, <1>t DEF Imp!CloneKilled
  <1>4. ASSUME NEW t \in Actors, Imp!CloneExits(t) PROVE Goal
    <2> DEFINE k == [aTask[t] EXCEPT !.step = Imp!ExitOutcome(t), !.up = aUp]
    <2>1. aTask' = [aTask EXCEPT ![t] = k] BY <1>4 DEF Imp!CloneExits
    <2>e. aUp \in 0..ImpMaxUp BY <1>t DEF Imp!Bounds
    <2>2. Imp!ExitOutcome(t) \in {"failed", "stage"} /\
          (Imp!ExitOutcome(t) = "stage" => aTask[t].size <= ImpCap)
      BY <1>s DEF Imp!ExitOutcome, Imp!Bounds
    <2>3. k \in Imp!Imports /\ k.step = Imp!ExitOutcome(t) /\ k.size = aTask[t].size
      BY <2>2, <2>e, <1>s DEF Imp!Imports
    <2> HIDE DEF k
    <2>4. TaskT BY <2>1, <2>2, <2>3, <1>u
    <2> QED BY <1>4, <2>4, <1>t DEF Imp!CloneExits
  <1>5. ASSUME NEW t \in Actors, Imp!Stage(t) PROVE Goal
    <2>1. TaskT BY <1>5, <1>g DEF Imp!Stage
    <2> QED BY <1>5, <2>1, <1>t, <1>s DEF Imp!Stage
  <1>6. ASSUME NEW t \in Actors, Imp!Pick(t) PROVE Goal
    <2> DEFINE st == IF aStage[aTask[t].slug] = 0 THEN "failed" ELSE "drop"
               k == [aTask[t] EXCEPT !.step = st, !.up = aStage[aTask[t].slug]]
    <2>1. aTask' = [aTask EXCEPT ![t] = k] BY <1>6 DEF Imp!Pick
    <2>2. st \in {"failed", "drop"} /\ aStage[aTask[t].slug] \in 0..ImpMaxUp BY <1>s, <1>t
    <2> HIDE DEF st
    <2>3. k \in Imp!Imports /\ k.size = aTask[t].size BY <2>2, <1>s DEF Imp!Imports
    <2>4. aTask[t].size <= ImpCap BY <1>6, <1>t DEF Imp!Pick
    <2> HIDE DEF k
    <2>5. TaskT BY <2>1, <2>3, <2>4, <1>u
    <2> QED BY <1>6, <2>5, <1>t DEF Imp!Pick
  <1>7. ASSUME NEW t \in Actors, Imp!DropRef(t) PROVE Goal
    <2>1. TaskT BY <1>7, <1>g DEF Imp!DropRef
    <2> QED BY <1>7, <2>1, <1>t, <1>s DEF Imp!DropRef, Imp!Bounds
  <1>8. ASSUME NEW t \in Actors, Imp!ReadMain(t) PROVE Goal
    <2> DEFINE k == [aTask[t] EXCEPT !.step = "publish", !.expect = aMain[aTask[t].slug]]
    <2>1. aTask' = [aTask EXCEPT ![t] = k] BY <1>8 DEF Imp!ReadMain
    <2>2. aMain[aTask[t].slug] \in Imp!Mains BY <1>s, <1>m
    <2>3. k \in Imp!Imports /\ k.size = aTask[t].size BY <2>2, <1>s DEF Imp!Imports
    <2>4. aTask[t].size <= ImpCap BY <1>8, <1>t DEF Imp!ReadMain
    <2> HIDE DEF k
    <2>5. TaskT BY <2>1, <2>3, <2>4, <1>u
    <2> QED BY <1>8, <2>5, <1>t DEF Imp!ReadMain
  <1>9. ASSUME NEW t \in Actors, Imp!Publish(t) PROVE Goal
    <2> DEFINE k == [up |-> aTask[t].up, size |-> aTask[t].size, mine |-> {}]
    <2>1. k \in Imp!Mains /\ k.size = aTask[t].size BY <1>s DEF Imp!Mains
    <2>2. aTask[t].size <= ImpCap BY <1>9, <1>t DEF Imp!Publish
    <2>3. aMain' = [aMain EXCEPT ![aTask[t].slug] = k] \/ aMain' = aMain BY <1>9 DEF Imp!Publish
    <2> HIDE DEF k
    <2>4. MainT BY <2>1, <2>2, <2>3, <1>ms, <1>s, <1>t
    <2>5. TaskT BY <1>9, <1>g DEF Imp!Publish
    <2> QED BY <1>9, <2>4, <2>5, <1>t DEF Imp!Publish
  <1>10. ASSUME NEW t \in Actors, Imp!Fails(t) PROVE Goal
    <2>1. TaskT BY <1>10, <1>g DEF Imp!Fails
    <2> QED BY <1>10, <2>1, <1>t, <1>l DEF Imp!Fails
  <1>11. ASSUME NEW t \in Actors, Imp!Finish(t) PROVE Goal
    <2>1. TaskT BY <1>11, <1>g DEF Imp!Finish
    <2>2. AppT BY <1>11, <1>t, <1>a DEF Imp!Finish, Imp!FinishImport
    <2> QED BY <1>11, <2>1, <2>2, <1>t DEF Imp!Finish
  <1>12. ASSUME NEW t \in Actors, Imp!Leave(t) PROVE Goal
    <2>1. TaskT BY <1>12, <1>u, <1>n DEF Imp!Leave
    <2> QED BY <1>12, <2>1, <1>t DEF Imp!Leave
  <1>13. ASSUME NEW q \in ImpRequests, Imp!RetryCheck(q) PROVE Goal
    BY <1>13, <1>t, <1>l DEF Imp!RetryCheck
  <1>14. ASSUME NEW q \in ImpRequests, NEW t \in Actors, Imp!Retry(q, t) PROVE Goal
    <2>1. TaskT BY <1>14, <1>sp, <1>a, <1>t DEF Imp!Retry
    <2>2. AppT /\ aFlight' \in BOOLEAN BY <1>14, <1>a, <1>t DEF Imp!Retry
    <2> QED BY <1>14, <2>1, <2>2, <1>t DEF Imp!Retry
  <1>15. ASSUME NEW s \in ImpSlugs, Imp!Rename(s) PROVE Goal
    <2>1. MainT BY <1>15, <1>t, <1>a, <1>n, <1>m DEF Imp!Rename
    <2>2. StageT BY <1>15, <1>t, <1>a DEF Imp!Rename, Imp!Bounds
    <2>3. AppT /\ LeftT BY <1>15, <1>a, <1>l DEF Imp!Rename
    <2> QED BY <1>15, <2>1, <2>2, <2>3, <1>t DEF Imp!Rename
  <1>16. ASSUME Imp!Delete PROVE Goal
    <2>1. MainT BY <1>16, <1>ms, <1>a, <1>n DEF Imp!Delete
    <2>2. StageT BY <1>16, <1>t, <1>a DEF Imp!Delete, Imp!Bounds
    <2> QED BY <1>16, <2>1, <2>2, <1>t, <1>a, <1>l DEF Imp!Delete
  <1>17. ASSUME Imp!Push PROVE Goal
    <2> DEFINE n == Cardinality(aPushed) + 1
               k == [aMain[aApp.slug] EXCEPT !.mine = @ \cup {n}]
    <2>1. n \in 1..ImpMaxPushes BY <1>17, <1>t, ImpPushL, ImpCardL DEF Imp!Push
    <2>2. aMain' = [aMain EXCEPT ![aApp.slug] = k] /\ aPushed' = aPushed \cup {n}
      BY <1>17, ImpCardL DEF Imp!Push
    <2> HIDE DEF n
    <2>3. k \in Imp!Mains /\ k.size = aMain[aApp.slug].size BY <2>1, <1>m, <1>a DEF Imp!Mains
    <2> HIDE DEF k
    <2>4. MainT BY <2>2, <2>3, <1>t, <1>a, <1>ms
    <2> QED BY <1>17, <2>1, <2>2, <2>4, <1>t DEF Imp!Push
  <1>18. ASSUME Imp!DeployStart \/ Imp!DeployEnd \/ Imp!UpstreamMoves PROVE Goal
    BY <1>18, <1>t, <1>a DEF Imp!DeployStart, Imp!DeployEnd, Imp!UpstreamMoves, Imp!Bounds
  <1>19. ASSUME Imp!Crash PROVE Goal
    BY <1>19, <1>t, <1>n, <1>l DEF Imp!Crash
  <1>20. ASSUME UNCHANGED impVars PROVE Goal BY <1>20, <1>t DEF impVars
  <1> QED
    <2> HIDE DEF Goal
    <2> QED BY <1>q, <1>1, <1>2, <1>3, <1>4, <1>5, <1>6, <1>7, <1>8, <1>9, <1>10, <1>11, <1>12,
               <1>13, <1>14, <1>15, <1>16, <1>17, <1>18, <1>19, <1>20 DEF Imp!Next, Imp!Step

(* A step of the suite is a step of the imports or leaves them alone. *)
LEMMA ImpNext == [Next]_allVars => [Imp!Next]_impVars
  BY DEF Next, allVars, VoidStep, ScanStep, GitStep, PrsStep, WebStep, ConfStep, MapsStep,
         ImpStep, BootStep, R2Step, D1Step, S3Step

(* The inductive invariant of the imports. *)
LEMMA ImpInductive == Spec => [](Imp!TypeOK /\ Imp!MeasuredInv)
  <1> DEFINE Inv == Imp!TypeOK /\ Imp!MeasuredInv
  <1>1. Init => Inv BY ImpBounds, ImpInitL DEF Init
  <1>2. Inv /\ [Next]_allVars => Inv' BY ImpBounds, ImpNext, ImpSteps
  <1> QED BY <1>1, <1>2, PTL DEF Spec

(* Nothing over the size cap becomes main, however imports, their retries   *)
(* and pushes interleave and whatever fails: the size was measured in the   *)
(* staging directory before anything is published from it (import.rs).      *)
THEOREM ImportsStayWithinCap == Spec => []PublishedWithinCap
  <1>1. Imp!MeasuredInv => PublishedWithinCap BY DEF Imp!MeasuredInv, PublishedWithinCap
  <1> QED BY <1>1, ImpInductive, PTL


-----------------------------------------------------------------------------
(* Boot and upgrade (BootUpgrade). *)
(* The component's cardinality is the library's. *)
LEMMA BootCardL == \A S : Boot!Cardinality(S) = Cardinality(S)
  BY DEF Boot!Cardinality, Cardinality

(* Every migration is a data or a shape change. *)
LEMMA BootKindL == ASSUME Boot!Bounds
  PROVE /\ Len(BootKind) \in Nat /\ Len(BootKind) > 0 /\ DOMAIN BootKind = 1..Len(BootKind)
        /\ \A v \in 1..Len(BootKind) : BootKind[v] \in {"base", "table", "indexed", "data", "column"}
        /\ Len(BootSchema) \in Nat /\ Len(BootSchema) > 0 /\ Boot!Images = 1..Len(BootSchema)
        /\ 1 \in Boot!Images
        /\ \A i \in Boot!Images : BootSchema[i] \in 1..Len(BootKind)
  BY DEF Boot!Bounds, Boot!Images

(* The image that is off is well formed and at its first step. *)
LEMMA BootOffL == ASSUME Boot!Bounds
  PROVE /\ Boot!Off \in Boot!Boots /\ Boot!Off.step = "off" /\ Boot!Off.table = 1
        /\ Boot!Off.conf \in BootConfs
        /\ Boot!Idle \in Boot!Sups /\ ~Boot!Idle.alive /\ Boot!Idle.stopper = "none"
        /\ Boot!Idle.pc = "none"
        /\ [Boot!Idle EXCEPT !.pc = "check"] \in Boot!Sups /\ ~[Boot!Idle EXCEPT !.pc = "check"].alive
        /\ [Boot!Idle EXCEPT !.pc = "check"].stopper = "none"
  <1>1. (CHOOSE c \in BootConfs : TRUE) \in BootConfs BY DEF Boot!Bounds
  <1>2. Boot!Off \in Boot!Boots /\ Boot!Off.step = "off" /\ Boot!Off.table = 1 /\
        Boot!Off.conf \in BootConfs
    BY <1>1, BootKindL DEF Boot!Off, Boot!Boots, Boot!Steps
  <1>3. Boot!Idle \in Boot!Sups /\ ~Boot!Idle.alive /\ Boot!Idle.stopper = "none" /\
        Boot!Idle.pc = "none"
    BY DEF Boot!Idle, Boot!Sups
  <1>4. /\ [Boot!Idle EXCEPT !.pc = "check"] \in Boot!Sups /\ ~[Boot!Idle EXCEPT !.pc = "check"].alive
        /\ [Boot!Idle EXCEPT !.pc = "check"].stopper = "none"
    BY DEF Boot!Idle, Boot!Sups
  <1> QED BY <1>2, <1>3, <1>4

(* A boot that moves to another step stays a boot. *)
LEMMA BootToL == ASSUME NEW b \in Boot!Boots, NEW s \in Boot!Steps
  PROVE LET n == [b EXCEPT !.step = s] IN
        /\ n \in Boot!Boots /\ n.step = s /\ n.image = b.image /\ n.conf = b.conf
        /\ n.table = b.table /\ n.tries = b.tries
        /\ n.changed = b.changed
  BY DEF Boot!Boots

(* A boot that goes on to another table stays a boot. *)
LEMMA BootTableL == ASSUME NEW b \in Boot!Boots, NEW s \in Boot!Steps, NEW k \in 1..2
  PROVE LET n == [b EXCEPT !.step = s, !.table = k] IN n \in Boot!Boots /\ n.image = b.image /\ n.step = s /\ n.table = k
  BY DEF Boot!Boots

(* A boot that notes whether it changed anything stays a boot. *)
LEMMA BootChangedL == ASSUME NEW b \in Boot!Boots, NEW s \in Boot!Steps, NEW c \in BOOLEAN
  PROVE LET n == [b EXCEPT !.step = s, !.changed = c] IN
        n \in Boot!Boots /\ n.image = b.image /\ n.step = s /\ n.table = b.table /\ n.changed = c
  BY DEF Boot!Boots

(* A boot that counts an attempt stays a boot. *)
LEMMA BootTriesL == ASSUME NEW b \in Boot!Boots, NEW m \in 0..5
  PROVE LET n == [b EXCEPT !.tries = m] IN n \in Boot!Boots /\ n.image = b.image /\ n.step = b.step /\ n.table = b.table
  BY DEF Boot!Boots

(* A fault keeps the bounds well formed. *)
LEMMA BootFaultL ==
  ASSUME Boot!Bounds, kLeft \in Boot!Lefts, kLeft.faults > 0, Boot!Fault
  PROVE  kLeft' \in Boot!Lefts
  BY DEF Boot!Bounds, Boot!Lefts, Boot!Fault

(* The revision a boot compares is one of the revisions. *)
LEMMA BootRevL == ASSUME Boot!Bounds, kBoot \in Boot!Boots
  PROVE Boot!Revision \in Boot!Revisions /\ Boot!Latest \in 1..Len(BootKind)
  BY BootKindL DEF Boot!Revision, Boot!Revisions, Boot!Latest, Boot!Boots

(* A control child that is owed a stop or not stays one. *)
LEMMA BootOwedL == ASSUME NEW c \in Boot!Controls, NEW b \in BOOLEAN
  PROVE /\ [c EXCEPT !.owed = b] \in Boot!Controls /\ [c EXCEPT !.owed = b].owed = b
        /\ [c EXCEPT !.owed = b].bundle = c.bundle /\ [c EXCEPT !.owed = b].marker = c.marker
  BY DEF Boot!Controls

(* A control child given another revision stays one. *)
LEMMA BootCtlL == ASSUME NEW c \in Boot!Controls, NEW r \in Boot!Revisions
  PROVE /\ [c EXCEPT !.bundle = r] \in Boot!Controls /\ [c EXCEPT !.bundle = r].bundle = r
        /\ [c EXCEPT !.bundle = r, !.owed = TRUE] \in Boot!Controls
        /\ [c EXCEPT !.bundle = r, !.owed = TRUE].owed
        /\ [c EXCEPT !.marker = r, !.owed = FALSE] \in Boot!Controls
        /\ [c EXCEPT !.marker = r, !.owed = FALSE].marker = r
        /\ [c EXCEPT !.marker = r, !.owed = FALSE].bundle = c.bundle
  BY DEF Boot!Controls

(* The first databases are well formed. *)
LEMMA BootBaseL == ASSUME Boot!Bounds
  PROVE Boot!Empty \in Boot!Bases /\ Boot!Unstamped \in Boot!Bases /\ Boot!Sound(Boot!Empty) /\
        Boot!Sound(Boot!Unstamped)
  BY BootKindL DEF Boot!Empty, Boot!Unstamped, Boot!Bases, Boot!Sound

(* The invariant holds at first. *)
LEMMA BootInitL ==
  ASSUME Boot!Bounds, Boot!Init
  PROVE  Boot!TypeOK /\ Boot!ShapeInv /\ Boot!TableInv /\ Boot!GateInv /\ Boot!StopInv
  <1>1. Boot!NoRev \in Boot!Revisions BY BootOffL, BootKindL DEF Boot!NoRev, Boot!Revisions
  <1>2. kCtl \in Boot!Controls BY <1>1 DEF Boot!Init, Boot!Controls
  <1>3. kLeft \in Boot!Lefts BY DEF Boot!Init, Boot!Lefts, Boot!Bounds
  <1>4. kMet \in [{"stat", "log"} -> Boot!TableRows]
    BY DEF Boot!Init, Boot!Every, Boot!NoTable, Boot!TableRows
  <1>5. Boot!TypeOK BY <1>2, <1>3, <1>4, BootOffL, BootBaseL DEF Boot!Init, Boot!TypeOK
  <1>6. Boot!ShapeInv BY BootOffL, BootBaseL DEF Boot!Init, Boot!ShapeInv
  <1>7. Boot!TableInv BY BootOffL DEF Boot!Init, Boot!TableInv, Boot!Upgrading
  <1>8. Boot!GateInv BY BootOffL DEF Boot!Init, Boot!GateInv
  <1>9. Boot!StopInv BY BootOffL DEF Boot!Init, Boot!StopInv, Boot!StoppedMeansGone
  <1> QED BY <1>5, <1>6, <1>7, <1>8, <1>9

(* The data changes among a set of migrations are migrations. *)
LEMMA BootDataL == ASSUME Boot!Bounds, NEW S \in SUBSET (1..Len(BootKind))
  PROVE LET D == {v \in S : BootKind[v] = "data"} IN
        /\ Cardinality(D) \in 0..1 /\ (Cardinality(D) = 0 <=> D = {})
  <1> DEFINE D == {v \in S : BootKind[v] = "data"}
  <1>1. CASE D = {}
    <2>1. Cardinality(D) = 0 BY <1>1, FS_EmptySet, BootCardL
    <2> QED BY <2>1, <1>1
  <1>2. CASE D # {}
    <2>1. PICK d \in S : BootKind[d] = "data" BY <1>2
    <2>2. D = {d} BY <2>1, BootKindL DEF Boot!Bounds
    <2>3. Cardinality(D) = 1 BY <2>2, FS_Singleton, BootCardL
    <2> QED BY <2>3, <1>2
  <1> QED BY <1>1, <1>2

(* What the plan applies brings a sound database to the asked version. *)
LEMMA BootPlanL ==
  ASSUME Boot!Bounds, NEW db \in Boot!Bases, Boot!Sound(db), NEW n \in 1..Len(BootKind),
         ~(db.stamp > n)
  PROVE LET steps == Boot!Plan(db, n)
            m == [stamp |-> n, shape |-> Boot!SchemaSql(db.shape \cup steps, n),
                  replays |-> db.replays + Cardinality({v \in steps : BootKind[v] = "data"})]
        IN m \in Boot!Bases /\ Boot!Sound(m) /\ m.stamp = n
  <1> DEFINE steps == Boot!Plan(db, n)
             D == {v \in steps : BootKind[v] = "data"}
             m == [stamp |-> n, shape |-> Boot!SchemaSql(db.shape \cup steps, n), replays |-> db.replays + Cardinality(D)]
  <1>a. db.stamp \in Nat /\ db.shape \subseteq 1..Len(BootKind) /\ db.replays \in 0..2 /\ n \in Nat
    BY BootKindL DEF Boot!Bases
  <1>b. steps \subseteq 1..n BY <1>a, BootKindL DEF Boot!Plan
  <1>c. steps \in SUBSET (1..Len(BootKind)) BY <1>b, BootKindL
  <1>d. Cardinality(D) \in 0..1 /\ (Cardinality(D) = 0 <=> D = {}) BY <1>c, BootDataL
  <1>e. Boot!Empty.stamp = 0 /\ Boot!Empty.shape = {} /\ Boot!Empty.replays = 0 /\
        Boot!Unstamped.stamp = 0 /\ Boot!Unstamped.shape = {1} /\ Boot!Unstamped.replays = 0
    BY DEF Boot!Empty, Boot!Unstamped
  <1>f. \A v \in 1..n : v \in 1..Len(BootKind) BY BootKindL
  <1>1. CASE db = Boot!Empty
    <2>1. steps = {} BY <1>1, <1>e, <1>a DEF Boot!Plan
    <2>2. D = {} BY <2>1
    <2> DEFINE S == {v \in 1..n : BootKind[v] # "data"}
    <2>a. db.shape \cup steps = {} BY <2>1, <1>1, <1>e
    <2>b. Boot!SchemaSql(db.shape \cup steps, n) = S BY <2>a DEF Boot!SchemaSql
    <2>c. db.replays + Cardinality(D) = 0 BY <2>2, <1>1, <1>e, <1>d
    <2>3. m = [stamp |-> n, shape |-> S, replays |-> 0] BY <2>b, <2>c
    <2>4. S \in SUBSET (1..n) /\ S \in SUBSET (1..Len(BootKind)) BY <1>f
    <2> HIDE DEF m
    <2>5. m \in Boot!Bases /\ m.stamp = n /\ m.shape = S /\ m.replays = 0
      BY <2>3, <2>4, BootKindL DEF Boot!Bases
    <2>6. Boot!Sound(m) BY <2>4, <2>5, <1>a DEF Boot!Sound
    <2> QED BY <2>5, <2>6 DEF m
  <1>2. CASE db # Boot!Empty
    <2> DEFINE from == IF db.stamp = 0 THEN 1 ELSE db.stamp
               tab == {v \in 1..n : BootKind[v] = "table"}
               S == db.shape \cup steps \cup tab
    <2>1. /\ db.shape \subseteq 1..from /\ {v \in 1..from : BootKind[v] # "data"} \subseteq db.shape
          /\ db.replays <= 1 /\ (db.replays > 0 => \E v \in 1..from : BootKind[v] = "data")
          /\ db.stamp = 0 => db.shape # {}
      BY <1>2, <1>e, <1>a DEF Boot!Sound
    <2>2. steps = from + 1 .. n /\ from \in Nat /\ from <= n /\ from > 0
      BY <2>1, <1>a DEF Boot!Plan
    <2>3. S \subseteq 1..n /\ {v \in 1..n : BootKind[v] # "data"} \subseteq S
      BY <2>1, <2>2, <1>a, <1>b
    <2>4. Boot!SchemaSql(db.shape \cup steps, n) = S
      <3>1. CASE db.shape \cup steps # {} BY <3>1 DEF Boot!SchemaSql
      <3>2. CASE db.shape \cup steps = {}
        <4>1. 1 \in 1..n /\ from = n BY <2>2, <3>2, <1>a
        <4>2. \A v \in 1..n : BootKind[v] = "data" BY <4>1, <3>2, <2>1
        <4>3. tab = {} BY <4>2
        <4> QED BY <3>2, <4>2, <4>3 DEF Boot!SchemaSql
      <3> QED BY <3>1, <3>2
    <2>5. /\ db.replays + Cardinality(D) \in 0..1
          /\ db.replays + Cardinality(D) > 0 => \E v \in 1..n : BootKind[v] = "data"
      <3>1. CASE db.replays = 0
        <4>1. Cardinality(D) > 0 => D # {} BY <1>d
        <4>2. D # {} => \E v \in 1..n : BootKind[v] = "data" BY <1>b
        <4> QED BY <3>1, <4>1, <4>2, <1>d
      <3>2. CASE db.replays # 0
        <4>1. db.replays = 1 /\ \E v \in 1..from : BootKind[v] = "data" BY <3>2, <2>1, <1>a
        <4>2. PICK v \in 1..from : BootKind[v] = "data" BY <4>1
        <4>3. v \in 1..Len(BootKind) /\ v \in 1..n BY <2>2, <1>a, <1>f
        <4>4. \A w \in steps : BootKind[w] # "data"
          BY <4>2, <4>3, <2>2, <1>a, <1>f, BootKindL DEF Boot!Bounds
        <4>5. D = {} BY <4>4
        <4>6. Cardinality(D) = 0 BY <4>5, <1>d
        <4> QED BY <4>1, <4>2, <4>3, <4>6
      <3> QED BY <3>1, <3>2
    <2>6. m.stamp = n /\ m.shape = S /\ m.replays = db.replays + Cardinality(D) BY <2>4
    <2>7. m \in Boot!Bases
      <3>1. S \in SUBSET (1..Len(BootKind)) /\ n \in 0..Len(BootKind) BY <2>3, <1>f, BootKindL
      <3>2. db.replays + Cardinality(D) \in 0..2 BY <2>5
      <3> HIDE DEF S, D
      <3> QED BY <3>1, <3>2, <2>4 DEF Boot!Bases
    <2> HIDE DEF m, S, D
    <2>8. Boot!Sound(m) BY <2>3, <2>5, <2>6, <1>a DEF Boot!Sound
    <2> QED BY <2>6, <2>7, <2>8 DEF m, D
  <1> QED BY <1>1, <1>2

(* Every step keeps the types. *)
LEMMA BootTypeStep ==
  ASSUME Boot!Bounds, Boot!TypeOK, Boot!ShapeInv, [Boot!Next]_bootVars
  PROVE  Boot!TypeOK'
  <1> DEFINE BootT == kBoot' \in Boot!Boots
             DbT == kDb' \in Boot!Bases
             SnapT == kSnap' \in Boot!Bases
             MetT == kMet' \in [{"stat", "log"} -> Boot!TableRows]
             CtlT == kCtl' \in Boot!Controls
             SupT == kSup' \in Boot!Sups
             LeftT == kLeft' \in Boot!Lefts
             Goal == BootT /\ DbT /\ SnapT /\ MetT /\ CtlT /\ SupT /\ LeftT
  <1>q. Goal => Boot!TypeOK' BY DEF Boot!TypeOK
  <1>t. /\ kBoot \in Boot!Boots /\ kDb \in Boot!Bases /\ kSnap \in Boot!Bases
        /\ kMet \in [{"stat", "log"} -> Boot!TableRows] /\ kCtl \in Boot!Controls
        /\ kSup \in Boot!Sups /\ kLeft \in Boot!Lefts
    BY DEF Boot!TypeOK
  <1>b. /\ kBoot.step \in Boot!Steps /\ kBoot.table \in 1..2 /\ kBoot.tries \in 0..5
        /\ kBoot.image \in Boot!Images /\ kBoot.conf \in BootConfs
        /\ Boot!Tables[kBoot.table] \in {"stat", "log"}
    BY <1>t DEF Boot!Boots, Boot!Tables
  <1>s. \A s \in Boot!Steps : Boot!To(s) => BootT BY <1>t, BootToL DEF Boot!To
  <1>o. Boot!Off \in Boot!Boots /\ Boot!Idle \in Boot!Sups /\
        [Boot!Idle EXCEPT !.pc = "check"] \in Boot!Sups
    BY BootOffL
  <1>f. kLeft.faults > 0 /\ Boot!Fault => LeftT BY <1>t, BootFaultL
  <1>v. Boot!Revision \in Boot!Revisions /\ Boot!Latest \in 1..Len(BootKind) BY <1>t, BootRevL
  <1>m. ASSUME NEW t \in {"stat", "log"}, NEW r \in Boot!TableRows,
               kMet' = [kMet EXCEPT ![t] = r]
        PROVE  MetT
    BY <1>m, <1>t
  <1>r. \A t \in {"stat", "log"} : kMet[t] \in Boot!TableRows BY <1>t
  <1>w. \A r \in Boot!TableRows : /\ [r EXCEPT !.env = TRUE] \in Boot!TableRows /\ [r EXCEPT !.idx = "none"] \in Boot!TableRows
                                  /\ [r EXCEPT !.idx = "new"] \in Boot!TableRows
                                  /\ [r EXCEPT !.pk = TRUE, !.idx = "none"] \in Boot!TableRows
    BY DEF Boot!TableRows
  <1>e. /\ Boot!Every(Boot!NoTable) \in [{"stat", "log"} -> Boot!TableRows]
        /\ Boot!Every(Boot!OldTable) \in [{"stat", "log"} -> Boot!TableRows]
        /\ Boot!NewTable \in Boot!TableRows
    BY DEF Boot!Every, Boot!NoTable, Boot!OldTable, Boot!NewTable, Boot!TableRows
  <1>1. ASSUME Boot!OldVolume PROVE Goal BY <1>1, <1>t, <1>e, BootBaseL DEF Boot!OldVolume
  <1>2. ASSUME NEW i \in Boot!Images, NEW c \in BootConfs, Boot!Start(i, c) PROVE Goal
    <2>1. BootT BY <1>2, <1>o DEF Boot!Start, Boot!Boots, Boot!Steps
    <2>2. LeftT BY <1>2, <1>t DEF Boot!Start, Boot!Lefts, Boot!Bounds
    <2> QED BY <1>2, <2>1, <2>2, <1>t, <1>o DEF Boot!Start
  <1>3. ASSUME Boot!Crash PROVE Goal
    <2>1. CtlT BY <1>3, <1>t DEF Boot!Crash, Boot!Controls
    <2> QED BY <1>3, <2>1, <1>t, <1>o, <1>f DEF Boot!Crash
  <1>4. ASSUME Boot!LoseVolume PROVE Goal BY <1>4, <1>t, <1>e, <1>f DEF Boot!LoseVolume
  <1>5. ASSUME Boot!AttachMetrics PROVE Goal
    <2>1. BootT BY <1>5, <1>s, <1>o DEF Boot!AttachMetrics, Boot!Refuse, Boot!Steps
    <2>2. MetT
      <3>1. CASE kMet' = kMet BY <3>1, <1>t
      <3>2. CASE kMet' = [t \in DOMAIN kMet |-> CASE kMet[t].idx = "gone" -> Boot!NewTable
                             [] kMet[t].idx = "none" -> [kMet[t] EXCEPT !.idx = "new"]
                             [] OTHER -> kMet[t]]
        <4>1. DOMAIN kMet = {"stat", "log"} BY <1>t
        <4>2. \A t \in {"stat", "log"} : kMet'[t] \in {Boot!NewTable, [kMet[t] EXCEPT !.idx = "new"], kMet[t]}
          BY <3>2, <4>1
        <4>3. \A t \in {"stat", "log"} : kMet'[t] \in Boot!TableRows BY <4>2, <1>r, <1>w, <1>e
        <4>4. kMet' = [t \in {"stat", "log"} |-> kMet'[t]] BY <3>2, <4>1
        <4> QED BY <4>3, <4>4
      <3> QED BY <1>5, <3>1, <3>2 DEF Boot!AttachMetrics
    <2> QED BY <1>5, <2>1, <2>2, <1>t DEF Boot!AttachMetrics
  <1>6. ASSUME Boot!ApplySchema PROVE Goal
    <2>1. BootT BY <1>6, <1>s, <1>o DEF Boot!ApplySchema, Boot!Refuse, Boot!Steps
    <2>2. CASE kDb' = kDb BY <1>6, <2>1, <2>2, <1>t DEF Boot!ApplySchema
    <2>3. CASE ~(kDb.stamp > Boot!Latest) /\ kDb' = [stamp |-> Boot!Latest,
                       shape |-> Boot!SchemaSql(kDb.shape \cup Boot!Plan(kDb, Boot!Latest), Boot!Latest),
                       replays |-> kDb.replays + Cardinality({v \in Boot!Plan(kDb, Boot!Latest) : BootKind[v] = "data"})]
      <3>1. DbT BY <2>3, <1>t, <1>v, BootPlanL DEF Boot!ShapeInv
      <3> QED BY <1>6, <2>1, <3>1, <1>t DEF Boot!ApplySchema
    <2> QED BY <1>6, <2>2, <2>3, BootCardL DEF Boot!ApplySchema
  <1>7. ASSUME Boot!AddColumn PROVE Goal
    <2>1. BootT BY <1>7, <1>t, <1>b, <1>r DEF Boot!AddColumn, Boot!Boots, Boot!Steps
    <2>2. MetT BY <1>7, <1>m, <1>r, <1>w, <1>b DEF Boot!AddColumn
    <2> QED BY <1>7, <2>1, <2>2, <1>t DEF Boot!AddColumn
  <1>8. ASSUME Boot!Rebuild PROVE Goal
    <2>1. BootT BY <1>8, <1>t, <1>s DEF Boot!Rebuild, Boot!Boots, Boot!Steps
    <2>2. MetT BY <1>8, <1>m, <1>r, <1>w, <1>b, <1>t DEF Boot!Rebuild
    <2> QED BY <1>8, <2>1, <2>2, <1>t DEF Boot!Rebuild
  <1>9. ASSUME Boot!DropIndex PROVE Goal
    <2>1. BootT BY <1>9, <1>s DEF Boot!DropIndex, Boot!Steps
    <2>2. MetT BY <1>9, <1>m, <1>r, <1>w, <1>b, <1>t DEF Boot!DropIndex
    <2> QED BY <1>9, <2>1, <2>2, <1>t DEF Boot!DropIndex
  <1>10. ASSUME Boot!MakeIndex PROVE Goal
    <2>a. Len(Boot!Tables) = 2 BY DEF Boot!Tables
    <2>b. [kBoot EXCEPT !.step = "token"] \in Boot!Boots BY <1>t DEF Boot!Boots, Boot!Steps
    <2>c. kBoot.table < 2 => [kBoot EXCEPT !.step = "column", !.table = kBoot.table + 1] \in Boot!Boots
      <3>1. "column" \in Boot!Steps BY DEF Boot!Steps
      <3>2. kBoot.table < 2 => kBoot.table + 1 \in 1..2 BY <1>b
      <3> QED BY <3>1, <3>2, <1>t, BootTableL
    <2>1. BootT BY <1>10, <2>a, <2>b, <2>c DEF Boot!MakeIndex
    <2>2. MetT BY <1>10, <1>m, <1>r, <1>w, <1>b, <1>t DEF Boot!MakeIndex
    <2> QED BY <1>10, <2>1, <2>2, <1>t DEF Boot!MakeIndex
  <1>11. ASSUME Boot!ControlToken
         PROVE  Goal BY <1>11, <1>s, <1>f, <1>t DEF Boot!ControlToken, Boot!Steps
  <1>12. ASSUME Boot!CompareMarker
         PROVE  Goal BY <1>12, <1>s, <1>f, <1>t, <1>o DEF Boot!CompareMarker, Boot!Steps
  <1>13. ASSUME Boot!DeployControl PROVE Goal
    <2>a. kCtl' \in {kCtl, [kCtl EXCEPT !.bundle = Boot!Revision], [kCtl EXCEPT !.bundle = Boot!Revision, !.owed = TRUE]}
      BY <1>13 DEF Boot!DeployControl
    <2>b. [kCtl EXCEPT !.bundle = Boot!Revision] \in Boot!Controls /\
          [kCtl EXCEPT !.bundle = Boot!Revision, !.owed = TRUE] \in Boot!Controls
      BY <1>t, <1>v DEF Boot!Controls
    <2>1. CtlT BY <2>a, <2>b, <1>t
    <2>2. BootT BY <1>13, <1>t, <1>b, <1>s DEF Boot!DeployControl, Boot!Boots, Boot!Steps
    <2>3. SupT /\ LeftT BY <1>13, <1>t, <1>o, <1>f DEF Boot!DeployControl
    <2> QED BY <1>13, <2>1, <2>2, <2>3, <1>t DEF Boot!DeployControl
  <1>14. ASSUME Boot!StoreMarker PROVE Goal
    <2>1. CtlT BY <1>14, <1>t, <1>v, BootCtlL, BootOwedL DEF Boot!StoreMarker
    <2>2. BootT BY <1>14, <1>s DEF Boot!StoreMarker, Boot!Steps
    <2> QED BY <1>14, <2>1, <2>2, <1>t, <1>o, <1>f DEF Boot!StoreMarker
  <1>15. ASSUME Boot!SupCheck \/ Boot!SupSpawn \/ Boot!ChildExit \/ Boot!SupWaited \/ Boot!SupSlept
         PROVE  Goal
    <2>1. SupT
      BY <1>15, <1>t
         DEF Boot!SupCheck, Boot!SupSpawn, Boot!ChildExit, Boot!SupWaited, Boot!SupSlept,
             Boot!Sups
    <2> QED BY <1>15, <2>1, <1>t, <1>f
               DEF Boot!SupCheck, Boot!SupSpawn, Boot!ChildExit, Boot!SupWaited, Boot!SupSlept
  <1>16. ASSUME Boot!AskStop \/ Boot!SendTerm \/ Boot!StopFinished \/ Boot!StopBudget PROVE Goal
    <2>1. SupT
      BY <1>16, <1>t
         DEF Boot!AskStop, Boot!SendTerm, Boot!StopFinished, Boot!StopBudget, Boot!KillAtBudget,
             Boot!Sups
    <2> QED BY <1>16, <2>1, <1>t
               DEF Boot!AskStop, Boot!SendTerm, Boot!StopFinished, Boot!StopBudget
  <1>17. ASSUME Boot!Shutdown PROVE Goal BY <1>17, <1>t, <1>o DEF Boot!Shutdown
  <1>18. ASSUME UNCHANGED bootVars PROVE Goal BY <1>18, <1>t DEF bootVars
  <1> QED
    <2> HIDE DEF Goal
    <2> QED BY <1>q, <1>1, <1>2, <1>3, <1>4, <1>5, <1>6, <1>7, <1>8, <1>9, <1>10, <1>11, <1>12,
               <1>13, <1>14, <1>15, <1>16, <1>17, <1>18 DEF Boot!Next

(* Every step keeps the databases at a shape their stamp stands for. *)
LEMMA BootShapeStep ==
  ASSUME Boot!Bounds, Boot!TypeOK, Boot!ShapeInv, [Boot!Next]_bootVars
  PROVE  Boot!ShapeInv'
  <1> DEFINE Later == {"column", "rebuild", "drop", "index", "token", "compare", "deploy", "store", "served"}
             Fits(b) == b.step \in Later => kDb.stamp = BootSchema[b.image]
  <1>t. kBoot \in Boot!Boots /\ kDb \in Boot!Bases BY DEF Boot!TypeOK
  <1>0. Boot!Sound(kDb) /\ Boot!Sound(kSnap) BY DEF Boot!ShapeInv
  <1>1. Fits(kBoot) BY DEF Boot!ShapeInv, Boot!Latest
  <1>2. ASSUME kDb' = kDb, kSnap' \in {kSnap, kDb}, kBoot' \in Boot!Boots, Fits(kBoot')
        PROVE  Boot!ShapeInv'
    <2>1. kBoot'.step \in Boot!Steps BY <1>2 DEF Boot!Boots
    <2> QED BY <1>2, <2>1, <1>0 DEF Boot!ShapeInv, Boot!Latest, Boot!Steps
  <1>o. Boot!Off \in Boot!Boots /\ Boot!Off.step = "off" BY BootOffL
  <1>s. ASSUME NEW s \in Boot!Steps, kBoot.step \in Later, Boot!To(s)
        PROVE  kBoot' \in Boot!Boots /\ Fits(kBoot')
    BY <1>s, <1>t, <1>1, BootToL DEF Boot!To
  <1>3. ASSUME Boot!OldVolume PROVE Boot!ShapeInv'
    BY <1>3, <1>0, BootBaseL DEF Boot!OldVolume, Boot!ShapeInv
  <1>4. ASSUME NEW i \in Boot!Images, NEW c \in BootConfs, Boot!Start(i, c) PROVE Boot!ShapeInv'
    <2>1. kBoot'.step = "attach" BY <1>4, <1>o DEF Boot!Start, Boot!Boots
    <2> QED BY <1>4, <2>1, <1>0 DEF Boot!Start, Boot!ShapeInv
  <1>5. ASSUME Boot!Crash PROVE Boot!ShapeInv' BY <1>5, <1>o, <1>2 DEF Boot!Crash
  <1>6. ASSUME Boot!LoseVolume
        PROVE  Boot!ShapeInv' BY <1>6, <1>0 DEF Boot!LoseVolume, Boot!ShapeInv
  <1>7. ASSUME Boot!AttachMetrics PROVE Boot!ShapeInv'
    <2>1. kBoot' \in Boot!Boots /\ kBoot'.step \in {"off", "schema"}
      <3>1. "schema" \in Boot!Steps BY DEF Boot!Steps
      <3>2. Boot!To("schema") => kBoot' \in Boot!Boots /\ kBoot'.step = "schema"
        BY <3>1, <1>t, BootToL DEF Boot!To
      <3> QED BY <1>7, <3>2, <1>o DEF Boot!AttachMetrics, Boot!Refuse
    <2> QED BY <1>7, <2>1, <1>2 DEF Boot!AttachMetrics
  <1>8. ASSUME Boot!ApplySchema PROVE Boot!ShapeInv'
    <2>1. CASE kDb' = kDb /\ Boot!Refuse
      BY <1>8, <2>1, <1>o, <1>2 DEF Boot!ApplySchema, Boot!Refuse
    <2>2. CASE Boot!To("column") /\ ~(kDb.stamp > Boot!Latest) /\ kDb' = [stamp |-> Boot!Latest,
                       shape |-> Boot!SchemaSql(kDb.shape \cup Boot!Plan(kDb, Boot!Latest), Boot!Latest),
                       replays |-> kDb.replays + Cardinality({v \in Boot!Plan(kDb, Boot!Latest) : BootKind[v] = "data"})]
      <3>1. Boot!Sound(kDb') /\ kDb'.stamp = Boot!Latest
        BY <2>2, <1>t, <1>0, BootRevL, BootPlanL
      <3>2. kBoot'.image = kBoot.image BY <2>2, <1>t, BootToL DEF Boot!To, Boot!Steps
      <3> QED BY <1>8, <3>1, <3>2, <1>0 DEF Boot!ApplySchema, Boot!ShapeInv, Boot!Latest
    <2> QED BY <1>8, <2>1, <2>2, BootCardL DEF Boot!ApplySchema
  <1>9. ASSUME Boot!AddColumn PROVE Boot!ShapeInv'
    <2>1. kBoot' \in Boot!Boots /\ kBoot'.image = kBoot.image
      <3>1. kMet[Boot!Tables[kBoot.table]].env \in BOOLEAN
        BY DEF Boot!TypeOK, Boot!Boots, Boot!Tables, Boot!TableRows
      <3> QED BY <1>9, <3>1, <1>t DEF Boot!AddColumn, Boot!Boots, Boot!Steps
    <2> QED BY <1>9, <2>1, <1>1, <1>2 DEF Boot!AddColumn
  <1>10. ASSUME Boot!Rebuild PROVE Boot!ShapeInv'
    <2>1. kBoot' \in Boot!Boots /\ kBoot'.image = kBoot.image
      <3>1. "drop" \in Boot!Steps BY DEF Boot!Steps
      <3>2. Boot!To("drop") => kBoot' \in Boot!Boots /\ kBoot'.image = kBoot.image
        BY <3>1, <1>t, BootToL DEF Boot!To
      <3>3. /\ [kBoot EXCEPT !.step = "drop", !.changed = TRUE] \in Boot!Boots
            /\ [kBoot EXCEPT !.step = "drop", !.changed = TRUE].image = kBoot.image
        BY <3>1, <1>t, BootChangedL
      <3> QED BY <1>10, <3>2, <3>3 DEF Boot!Rebuild
    <2> QED BY <1>10, <2>1, <1>1, <1>2 DEF Boot!Rebuild
  <1>11. ASSUME Boot!DropIndex
         PROVE  Boot!ShapeInv' BY <1>11, <1>s, <1>2 DEF Boot!DropIndex, Boot!Steps
  <1>12. ASSUME Boot!MakeIndex PROVE Boot!ShapeInv'
    <2>a. Len(Boot!Tables) = 2 BY DEF Boot!Tables
    <2>b. [kBoot EXCEPT !.step = "token"] \in Boot!Boots /\
          [kBoot EXCEPT !.step = "token"].image = kBoot.image
      BY <1>t DEF Boot!Boots, Boot!Steps
    <2>d. kBoot.table \in 1..2 /\ "column" \in Boot!Steps BY <1>t DEF Boot!Boots, Boot!Steps
    <2>c. kBoot.table < 2 => /\ [kBoot EXCEPT !.step = "column", !.table = kBoot.table + 1] \in Boot!Boots
                             /\ [kBoot EXCEPT !.step = "column", !.table = kBoot.table + 1].image = kBoot.image
      <3> DEFINE k == kBoot.table + 1
      <3>1. kBoot.table < 2 => k \in 1..2 BY <2>d
      <3> HIDE DEF k
      <3>2. k \in 1..2 => /\ [kBoot EXCEPT !.step = "column", !.table = k] \in Boot!Boots
                          /\ [kBoot EXCEPT !.step = "column", !.table = k].image = kBoot.image
        BY <1>t, <2>d DEF Boot!Boots
      <3> QED BY <3>1, <3>2 DEF k
    <2>1. kBoot' \in Boot!Boots /\ kBoot'.image = kBoot.image
      BY <1>12, <2>a, <2>b, <2>c DEF Boot!MakeIndex
    <2> QED BY <1>12, <2>1, <1>1, <1>2 DEF Boot!MakeIndex
  <1>13. ASSUME Boot!ControlToken
         PROVE  Boot!ShapeInv' BY <1>13, <1>s, <1>2 DEF Boot!ControlToken, Boot!Steps
  <1>14. ASSUME Boot!CompareMarker
         PROVE  Boot!ShapeInv' BY <1>14, <1>s, <1>2 DEF Boot!CompareMarker, Boot!Steps
  <1>15. ASSUME Boot!DeployControl PROVE Boot!ShapeInv'
    <2>1. kBoot' \in Boot!Boots /\ kBoot'.image = kBoot.image
      <3>1. "store" \in Boot!Steps /\ "served" \in Boot!Steps /\ kBoot.tries \in 0..5
        BY <1>t DEF Boot!Steps, Boot!Boots
      <3>2. kBoot.tries < 4 => kBoot.tries + 1 \in 0..5 BY <3>1
      <3>3. Boot!To("store") => kBoot' \in Boot!Boots /\ kBoot'.image = kBoot.image
        BY <3>1, <1>t, BootToL DEF Boot!To
      <3>4. [kBoot EXCEPT !.step = "served"] \in Boot!Boots /\
            [kBoot EXCEPT !.step = "served"].image = kBoot.image
        BY <3>1, <1>t, BootToL
      <3>5. kBoot.tries < 4 => /\ [kBoot EXCEPT !.tries = kBoot.tries + 1] \in Boot!Boots
                               /\ [kBoot EXCEPT !.tries = kBoot.tries + 1].image = kBoot.image
        BY <3>2, <1>t, BootTriesL
      <3> QED BY <1>15, <3>3, <3>4, <3>5 DEF Boot!DeployControl
    <2> QED BY <1>15, <2>1, <1>1, <1>2 DEF Boot!DeployControl
  <1>16. ASSUME Boot!StoreMarker
         PROVE  Boot!ShapeInv' BY <1>16, <1>s, <1>2 DEF Boot!StoreMarker, Boot!Steps
  <1>17. ASSUME Boot!SupCheck \/ Boot!SupSpawn \/ Boot!ChildExit \/ Boot!SupWaited \/ Boot!SupSlept
         PROVE  Boot!ShapeInv'
    BY <1>17, <1>t, <1>1, <1>2
       DEF Boot!SupCheck, Boot!SupSpawn, Boot!ChildExit, Boot!SupWaited, Boot!SupSlept
  <1>18. ASSUME Boot!AskStop \/ Boot!SendTerm \/ Boot!StopFinished \/ Boot!StopBudget
         PROVE  Boot!ShapeInv'
    BY <1>18, <1>t, <1>1, <1>2
       DEF Boot!AskStop, Boot!SendTerm, Boot!StopFinished, Boot!StopBudget
  <1>19. ASSUME Boot!Shutdown PROVE Boot!ShapeInv' BY <1>19, <1>o, <1>2 DEF Boot!Shutdown
  <1>20. ASSUME UNCHANGED bootVars PROVE Boot!ShapeInv' BY <1>20, <1>t, <1>1, <1>2 DEF bootVars
  <1> QED BY <1>3, <1>4, <1>5, <1>6, <1>7, <1>8, <1>9, <1>10, <1>11, <1>12, <1>13, <1>14, <1>15,
             <1>16, <1>17, <1>18, <1>19, <1>20 DEF Boot!Next

(* Every step keeps the gate on the revision that was compared. *)
LEMMA BootGateStep ==
  ASSUME Boot!Bounds, Boot!TypeOK, Boot!GateInv, [Boot!Next]_bootVars
  PROVE  Boot!GateInv'
  <1>t. kBoot \in Boot!Boots /\ kCtl \in Boot!Controls /\ Boot!Revision \in Boot!Revisions
    BY BootRevL DEF Boot!TypeOK
  <1>o. Boot!Off.step = "off" BY BootOffL
  <1>1. ASSUME kCtl' = kCtl, kBoot'.step # "store", kBoot.step # "store" PROVE Boot!GateInv'
    BY <1>1 DEF Boot!GateInv
  <1>s. \A s \in Boot!Steps : Boot!To(s) => kBoot'.step = s /\ kBoot'.image = kBoot.image /\ kBoot'.conf = kBoot.conf
    BY <1>t, BootToL DEF Boot!To
  <1>2. ASSUME Boot!OldVolume \/ Boot!LoseVolume
        PROVE  Boot!GateInv' BY <1>2, <1>1 DEF Boot!OldVolume, Boot!LoseVolume
  <1>3. ASSUME NEW i \in Boot!Images, NEW c \in BootConfs, Boot!Start(i, c) PROVE Boot!GateInv'
    <2>1. kBoot'.step = "attach" BY <1>3, BootOffL DEF Boot!Start, Boot!Boots
    <2> QED BY <1>3, <2>1, <1>1 DEF Boot!Start
  <1>4. ASSUME Boot!Crash PROVE Boot!GateInv'
    <2> DEFINE b == kCtl.owed \/ kBoot.step = "store"
    <2>1. b \in BOOLEAN /\ kCtl' = [kCtl EXCEPT !.owed = b] BY <1>4, <1>t DEF Boot!Crash
    <2>2. kCtl'.owed = b /\ kCtl'.bundle = kCtl.bundle /\ kCtl'.marker = kCtl.marker
      BY <2>1, <1>t, BootOwedL
    <2>3. kBoot'.step = "off" BY <1>4, <1>o DEF Boot!Crash
    <2> QED BY <2>2, <2>3 DEF Boot!GateInv
  <1>5. ASSUME Boot!AttachMetrics
        PROVE  Boot!GateInv' BY <1>5, <1>1, <1>s, <1>o DEF Boot!AttachMetrics, Boot!Refuse, Boot!Steps
  <1>6. ASSUME Boot!ApplySchema
        PROVE  Boot!GateInv' BY <1>6, <1>1, <1>s, <1>o DEF Boot!ApplySchema, Boot!Refuse, Boot!Steps
  <1>7. ASSUME Boot!AddColumn PROVE Boot!GateInv'
    <2>1. kBoot'.step = "rebuild" BY <1>7, <1>t DEF Boot!AddColumn, Boot!Boots
    <2> QED BY <1>7, <2>1, <1>1 DEF Boot!AddColumn
  <1>8. ASSUME Boot!Rebuild PROVE Boot!GateInv'
    <2>1. kBoot'.step = "drop" BY <1>8, <1>t, <1>s DEF Boot!Rebuild, Boot!Boots, Boot!Steps
    <2> QED BY <1>8, <2>1, <1>1 DEF Boot!Rebuild
  <1>9. ASSUME Boot!DropIndex
        PROVE  Boot!GateInv' BY <1>9, <1>1, <1>s DEF Boot!DropIndex, Boot!Steps
  <1>10. ASSUME Boot!MakeIndex PROVE Boot!GateInv'
    <2>1. kBoot'.step \in {"column", "token"} BY <1>10, <1>t DEF Boot!MakeIndex, Boot!Boots
    <2> QED BY <1>10, <2>1, <1>1 DEF Boot!MakeIndex
  <1>11. ASSUME Boot!ControlToken
         PROVE  Boot!GateInv' BY <1>11, <1>1, <1>s DEF Boot!ControlToken, Boot!Steps
  <1>12. ASSUME Boot!CompareMarker
         PROVE  Boot!GateInv' BY <1>12, <1>1, <1>s DEF Boot!CompareMarker, Boot!Steps
  <1>13. ASSUME Boot!DeployControl PROVE Boot!GateInv'
    <2>1. CASE Boot!To("store") /\ kCtl' = [kCtl EXCEPT !.bundle = Boot!Revision]
      <3>1. kCtl'.bundle = Boot!Revision /\ kBoot'.step = "store" /\ Boot!Revision' = Boot!Revision
        BY <2>1, <1>t, <1>s, BootCtlL DEF Boot!Steps, Boot!Revision
      <3> QED BY <3>1 DEF Boot!GateInv
    <2>2. CASE /\ kBoot' \in {[kBoot EXCEPT !.tries = @ + 1], [kBoot EXCEPT !.step = "served"]}
               /\ kCtl' \in {kCtl, [kCtl EXCEPT !.bundle = Boot!Revision, !.owed = TRUE]}
      <3>1. kBoot'.step \in {"deploy", "served"}
        BY <1>13, <2>2, <1>t DEF Boot!DeployControl, Boot!Boots
      <3>2. kCtl' = kCtl \/ kCtl'.owed BY <2>2, <1>t DEF Boot!Controls
      <3> QED BY <1>13, <3>1, <3>2 DEF Boot!GateInv, Boot!DeployControl
    <2> QED BY <1>13, <2>1, <2>2 DEF Boot!DeployControl
  <1>14. ASSUME Boot!StoreMarker PROVE Boot!GateInv'
    <2>1. kBoot'.step = "served" BY <1>14, <1>s DEF Boot!StoreMarker, Boot!Steps
    <2>2. CASE kCtl' = [kCtl EXCEPT !.marker = Boot!Revision, !.owed = FALSE]
      <3>1. kCtl'.marker = Boot!Revision /\ kCtl'.bundle = kCtl.bundle BY <2>2, <1>t, BootCtlL
      <3> QED BY <1>14, <2>1, <3>1 DEF Boot!GateInv, Boot!StoreMarker
    <2>3. CASE kCtl' = [kCtl EXCEPT !.owed = TRUE]
      <3>1. kCtl'.owed BY <2>3, <1>t, BootOwedL
      <3> QED BY <2>1, <3>1 DEF Boot!GateInv
    <2> QED BY <1>14, <2>2, <2>3 DEF Boot!StoreMarker
  <1>15. ASSUME Boot!SupCheck \/ Boot!SupSpawn \/ Boot!ChildExit \/ Boot!SupWaited \/ Boot!SupSlept
         PROVE  Boot!GateInv'
    BY <1>15
       DEF Boot!SupCheck, Boot!SupSpawn, Boot!ChildExit, Boot!SupWaited, Boot!SupSlept,
           Boot!GateInv, Boot!Revision
  <1>16. ASSUME Boot!AskStop \/ Boot!SendTerm \/ Boot!StopFinished \/ Boot!StopBudget
         PROVE  Boot!GateInv'
    BY <1>16
       DEF Boot!AskStop, Boot!SendTerm, Boot!StopFinished, Boot!StopBudget, Boot!GateInv,
           Boot!Revision
  <1>17. ASSUME Boot!Shutdown PROVE Boot!GateInv' BY <1>17, <1>1, <1>o DEF Boot!Shutdown
  <1>18. ASSUME UNCHANGED bootVars
         PROVE  Boot!GateInv' BY <1>18 DEF bootVars, Boot!GateInv, Boot!Revision
  <1> QED BY <1>2, <1>3, <1>4, <1>5, <1>6, <1>7, <1>8, <1>9, <1>10, <1>11, <1>12, <1>13, <1>14,
             <1>15, <1>16, <1>17, <1>18 DEF Boot!Next

(* Every step keeps a stopped child gone. *)
LEMMA BootStopStep ==
  ASSUME Boot!Bounds, Boot!TypeOK, Boot!StopInv, [Boot!Next]_bootVars
  PROVE  Boot!StopInv'
  <1> DEFINE Ok(s) == /\ s.stopper = "returned" => ~s.alive /\ s.pc # "spawn"
                      /\ s.alive => s.pc = "wait" /\ s.pid
                      /\ s.stopper # "none" => s.stop
  <1>t. kSup \in Boot!Sups BY DEF Boot!TypeOK
  <1>a. Ok(kSup) BY DEF Boot!StopInv, Boot!StoppedMeansGone
  <1>q. Ok(kSup') => Boot!StopInv' BY DEF Boot!StopInv, Boot!StoppedMeansGone
  <1>o. Ok(Boot!Idle) /\ Ok([Boot!Idle EXCEPT !.pc = "check"]) BY BootOffL
  <1>1. ASSUME kSup' \in {kSup, Boot!Idle, [Boot!Idle EXCEPT !.pc = "check"]}
        PROVE  Boot!StopInv' BY <1>1, <1>a, <1>o, <1>q
  <1>2. ASSUME Boot!SupCheck \/ Boot!SupSpawn \/ Boot!ChildExit \/ Boot!SupWaited \/ Boot!SupSlept
        PROVE  Boot!StopInv'
    <2>1. Ok(kSup')
      BY <1>2, <1>t, <1>a
         DEF Boot!SupCheck, Boot!SupSpawn, Boot!ChildExit, Boot!SupWaited, Boot!SupSlept,
             Boot!Sups
    <2> QED BY <2>1, <1>q
  <1>3. ASSUME Boot!AskStop \/ Boot!SendTerm \/ Boot!StopFinished \/ Boot!StopBudget
        PROVE  Boot!StopInv'
    <2>1. Ok(kSup')
      BY <1>3, <1>t, <1>a
         DEF Boot!AskStop, Boot!SendTerm, Boot!StopFinished, Boot!StopBudget, Boot!KillAtBudget,
             Boot!Sups
    <2> QED BY <2>1, <1>q
  <1>4. CASE ~(Boot!SupCheck \/ Boot!SupSpawn \/ Boot!ChildExit \/ Boot!SupWaited \/ Boot!SupSlept \/ Boot!AskStop \/ Boot!SendTerm \/ Boot!StopFinished \/ Boot!StopBudget)
    <2>1. kSup' \in {kSup, Boot!Idle, [Boot!Idle EXCEPT !.pc = "check"]}
      BY <1>4
         DEF Boot!Next, bootVars, Boot!OldVolume, Boot!Crash, Boot!LoseVolume, Boot!Start,
             Boot!AttachMetrics, Boot!ApplySchema, Boot!AddColumn, Boot!Rebuild, 
         Boot!DropIndex, Boot!MakeIndex, Boot!ControlToken, Boot!CompareMarker, Boot!DeployControl, Boot!StoreMarker, Boot!Shutdown
    <2> QED BY <2>1, <1>1
  <1> QED BY <1>2, <1>3, <1>4

(* Every step keeps the telemetry tables' rebuild where it can go on. *)
LEMMA BootTableStep ==
  ASSUME Boot!Bounds, Boot!TypeOK, Boot!TableInv, [Boot!Next]_bootVars
  PROVE  Boot!TableInv'
  <1> DEFINE Fin == {"token", "compare", "deploy", "store", "served"}
             Good(r, t) == r.env /\ (t \in Boot!Rebuilt => r.pk)
             Ix(r) == r.idx \in {"old", "new"}
             Inv(b, st, lg) ==
               /\ b.step = "attach" => b.table = 1
               /\ b.step = "schema" => b.table = 1 /\ Ix(st) /\ Ix(lg)
               /\ b.step = "column" => Ix(st) /\ Ix(lg) /\ (b.table = 2 => Good(st, "stat"))
               /\ b.step = "rebuild" /\ b.table = 1 => Ix(lg) /\ st.env /\ st.idx # "gone"
               /\ b.step = "rebuild" /\ b.table = 2 => Ix(st) /\ Good(st, "stat") /\ lg.env /\ lg.idx # "gone"
               /\ b.step \in {"drop", "index"} /\ b.table = 1 => Ix(lg) /\ Good(st, "stat") /\ st.idx # "gone"
               /\ b.step \in {"drop", "index"} /\ b.table = 2 => Ix(st) /\ Good(st, "stat") /\ Good(lg, "log") /\ lg.idx # "gone"
               /\ b.step \in Fin => Ix(st) /\ Ix(lg) /\ Good(st, "stat") /\ Good(lg, "log")
  <1>t. /\ kBoot \in Boot!Boots /\ kMet \in [{"stat", "log"} -> Boot!TableRows] /\ kBoot.table \in 1..2
        /\ kMet["stat"] \in Boot!TableRows /\ kMet["log"] \in Boot!TableRows
    BY DEF Boot!TypeOK, Boot!Boots
  <1>k. Boot!Tables[1] = "stat" /\ Boot!Tables[2] = "log" /\ Len(Boot!Tables) = 2
    BY DEF Boot!Tables
  <1>a. Inv(kBoot, kMet["stat"], kMet["log"])
    BY <1>t, <1>k DEF Boot!TableInv, Boot!Upgraded, Boot!Indexed, Boot!Upgrading
  <1>q. ASSUME kBoot' \in Boot!Boots, Inv(kBoot', kMet'["stat"], kMet'["log"])
        PROVE  Boot!TableInv'
    <2>1. kBoot'.table \in 1..2 BY <1>q DEF Boot!Boots
    <2> QED BY <2>1, <1>q, <1>k DEF Boot!TableInv, Boot!Upgraded, Boot!Indexed, Boot!Upgrading
  <1>o. Boot!Off \in Boot!Boots /\ Boot!Off.step = "off" /\ Boot!Off.table = 1 BY BootOffL
  <1>z. ASSUME NEW b \in Boot!Boots, b.step = "off" \/ (b.step = "attach" /\ b.table = 1)
        PROVE  Inv(b, kMet'["stat"], kMet'["log"]) BY <1>z
  <1>s. \A s \in Boot!Steps : Boot!To(s) => kBoot' \in Boot!Boots /\ kBoot'.step = s /\ kBoot'.table = kBoot.table /\ kBoot'.changed = kBoot.changed
    BY <1>t, BootToL DEF Boot!To
  <1>n. Boot!Steps = {"off", "attach", "schema", "column", "rebuild", "drop", "index", "token", "compare", "deploy", "store", "served"}
    BY DEF Boot!Steps
  <1>1. ASSUME Boot!OldVolume \/ Boot!LoseVolume
        PROVE  Boot!TableInv' BY <1>1, <1>q, <1>z, <1>t DEF Boot!OldVolume, Boot!LoseVolume
  <1>2. ASSUME NEW i \in Boot!Images, NEW c \in BootConfs, Boot!Start(i, c) PROVE Boot!TableInv'
    <2>1. kBoot' \in Boot!Boots /\ kBoot'.step = "attach" /\ kBoot'.table = 1
      BY <1>2, <1>o, <1>n DEF Boot!Start, Boot!Boots
    <2> QED BY <2>1, <1>q, <1>z
  <1>3. ASSUME Boot!Crash \/ Boot!Shutdown
        PROVE  Boot!TableInv' BY <1>3, <1>q, <1>z, <1>o DEF Boot!Crash, Boot!Shutdown
  <1>4. ASSUME Boot!AttachMetrics PROVE Boot!TableInv'
    <2>1. CASE Boot!Refuse BY <2>1, <1>q, <1>z, <1>o DEF Boot!Refuse
    <2>2. CASE Boot!To("schema") /\
               kMet' = [t \in DOMAIN kMet |-> CASE kMet[t].idx = "gone" -> Boot!NewTable
                                  [] kMet[t].idx = "none" -> [kMet[t] EXCEPT !.idx = "new"]
                                  [] OTHER -> kMet[t]]
      <3>1. \A t \in {"stat", "log"} : kMet'[t] = CASE kMet[t].idx = "gone" -> Boot!NewTable
                             [] kMet[t].idx = "none" -> [kMet[t] EXCEPT !.idx = "new"]
                             [] OTHER -> kMet[t]
        BY <2>2, <1>t
      <3>2. \A r \in Boot!TableRows : [r EXCEPT !.idx = "new"].idx = "new" /\ r.idx \in {"gone", "none", "old", "new"}
        BY DEF Boot!TableRows
      <3>3. Boot!NewTable.idx = "new" BY DEF Boot!NewTable
      <3>4. Ix(kMet'["stat"]) /\ Ix(kMet'["log"]) BY <3>1, <3>2, <3>3, <1>t
      <3>5. kBoot' \in Boot!Boots /\ kBoot'.step = "schema" /\ kBoot'.table = 1
        BY <1>4, <2>2, <1>s, <1>n, <1>a DEF Boot!AttachMetrics
      <3> QED BY <3>4, <3>5, <1>q
    <2> QED BY <1>4, <2>1, <2>2 DEF Boot!AttachMetrics
  <1>5. ASSUME Boot!ApplySchema PROVE Boot!TableInv'
    <2>1. CASE Boot!Refuse BY <2>1, <1>q, <1>z, <1>o DEF Boot!Refuse
    <2>2. CASE Boot!To("column")
      <3>1. kBoot' \in Boot!Boots /\ kBoot'.step = "column" /\ kBoot'.table = 1
        BY <1>5, <2>2, <1>s, <1>n, <1>a DEF Boot!ApplySchema
      <3> QED BY <1>5, <3>1, <1>a, <1>q DEF Boot!ApplySchema
    <2> QED BY <1>5, <2>1, <2>2 DEF Boot!ApplySchema
  <1>u. ASSUME NEW r \in Boot!TableRows
        PROVE /\ [r EXCEPT !.env = TRUE].env /\ [r EXCEPT !.env = TRUE].idx = r.idx
              /\ [r EXCEPT !.pk = TRUE, !.idx = "none"].pk
              /\ [r EXCEPT !.pk = TRUE, !.idx = "none"].env = r.env
              /\ [r EXCEPT !.pk = TRUE, !.idx = "none"].idx = "none"
              /\ [r EXCEPT !.idx = "none"].idx = "none" /\ [r EXCEPT !.idx = "none"].env = r.env
              /\ [r EXCEPT !.idx = "none"].pk = r.pk
              /\ [r EXCEPT !.idx = "new"].idx = "new" /\ [r EXCEPT !.idx = "new"].env = r.env
              /\ [r EXCEPT !.idx = "new"].pk = r.pk
              /\ r.idx \in {"gone", "none", "old", "new"}
    BY DEF Boot!TableRows
  <1>m. ASSUME NEW t \in {"stat", "log"}, NEW r, kMet' = [kMet EXCEPT ![t] = r]
        PROVE kMet'[t] = r /\ \A x \in {"stat", "log"} \ {t} : kMet'[x] = kMet[x]
    BY <1>m, <1>t
  <1>6. ASSUME Boot!AddColumn PROVE Boot!TableInv'
    <2> DEFINE t == Boot!Tables[kBoot.table]
               r == [kMet[t] EXCEPT !.env = TRUE]
               c == ~kMet[t].env
    <2>1. t \in {"stat", "log"} /\ kMet[t] \in Boot!TableRows /\ c \in BOOLEAN BY <1>t, <1>k
    <2>2. kMet' = [kMet EXCEPT ![t] = r] /\ kBoot' = [kBoot EXCEPT !.step = "rebuild", !.changed = c]
      BY <1>6 DEF Boot!AddColumn
    <2>3. r.env /\ r.idx = kMet[t].idx BY <2>1, <1>u
    <2> HIDE DEF c, r
    <2>4. kBoot' \in Boot!Boots /\ kBoot'.step = "rebuild" /\ kBoot'.table = kBoot.table
      <3>1. "rebuild" \in Boot!Steps BY <1>n
      <3> QED BY <3>1, <2>1, <2>2, <1>t DEF Boot!Boots
    <2>5. kBoot.step = "column" BY <1>6 DEF Boot!AddColumn
    <2>6. kMet'[t] = r /\ \A x \in {"stat", "log"} \ {t} : kMet'[x] = kMet[x]
      BY <2>1, <2>2, <1>m
    <2>7. Inv(kBoot', kMet'["stat"], kMet'["log"])
      <3>1. CASE kBoot.table = 1 BY <3>1, <2>3, <2>4, <2>5, <2>6, <1>a, <1>k
      <3>2. CASE kBoot.table = 2 BY <3>2, <2>3, <2>4, <2>5, <2>6, <1>a, <1>k
      <3> QED BY <3>1, <3>2, <1>t
    <2> QED BY <2>4, <2>7, <1>q
  <1>7. ASSUME Boot!Rebuild PROVE Boot!TableInv'
    <2> DEFINE t == Boot!Tables[kBoot.table]
               r == [kMet[t] EXCEPT !.pk = TRUE, !.idx = "none"]
    <2>1. t \in {"stat", "log"} /\ kMet[t] \in Boot!TableRows /\ kBoot.step = "rebuild"
      BY <1>7, <1>t, <1>k DEF Boot!Rebuild
    <2>2. CASE Boot!NeedsRebuild(t)
      <3>1. kMet' = [kMet EXCEPT ![t] = r] /\ kBoot' = [kBoot EXCEPT !.step = "drop", !.changed = TRUE]
        BY <1>7, <2>2 DEF Boot!Rebuild
      <3>2. r.pk /\ r.env = kMet[t].env /\ r.idx = "none" BY <2>1, <1>u
      <3> HIDE DEF r
      <3>3. kBoot' \in Boot!Boots /\ kBoot'.step = "drop" /\ kBoot'.table = kBoot.table
        BY <3>1, <1>t, <1>n, BootChangedL
      <3>4. kMet'[t] = r /\ \A x \in {"stat", "log"} \ {t} : kMet'[x] = kMet[x]
        BY <2>1, <3>1, <1>m
      <3>5. Inv(kBoot', kMet'["stat"], kMet'["log"])
        <4>1. CASE kBoot.table = 1 BY <4>1, <2>1, <3>2, <3>3, <3>4, <1>a, <1>k
        <4>2. CASE kBoot.table = 2 BY <4>2, <2>1, <3>2, <3>3, <3>4, <1>a, <1>k
        <4> QED BY <4>1, <4>2, <1>t
      <3> QED BY <3>3, <3>5, <1>q
    <2>3. CASE ~Boot!NeedsRebuild(t)
      <3>1. Boot!To("drop") /\ kMet' = kMet BY <1>7, <2>3 DEF Boot!Rebuild
      <3>2. kBoot' \in Boot!Boots /\ kBoot'.step = "drop" /\ kBoot'.table = kBoot.table
        BY <3>1, <1>s, <1>n
      <3>3. t \in Boot!Rebuilt => kMet[t].pk BY <2>3 DEF Boot!NeedsRebuild
      <3>5. Inv(kBoot', kMet'["stat"], kMet'["log"])
        <4>1. CASE kBoot.table = 1 BY <4>1, <2>1, <3>1, <3>2, <3>3, <1>a, <1>k
        <4>2. CASE kBoot.table = 2 BY <4>2, <2>1, <3>1, <3>2, <3>3, <1>a, <1>k
        <4> QED BY <4>1, <4>2, <1>t
      <3> QED BY <3>2, <3>5, <1>q
    <2> QED BY <2>2, <2>3
  <1>8. ASSUME Boot!DropIndex PROVE Boot!TableInv'
    <2> DEFINE t == Boot!Tables[kBoot.table]
               r == [kMet[t] EXCEPT !.idx = "none"]
    <2>1. t \in {"stat", "log"} /\ kMet[t] \in Boot!TableRows /\ kBoot.step = "drop"
      BY <1>8, <1>t, <1>k DEF Boot!DropIndex
    <2>2. kBoot' \in Boot!Boots /\ kBoot'.step = "index" /\ kBoot'.table = kBoot.table
      BY <1>8, <1>s, <1>n DEF Boot!DropIndex
    <2>3. r.pk = kMet[t].pk /\ r.env = kMet[t].env /\ r.idx = "none" BY <2>1, <1>u
    <2>4. kMet' = kMet \/ kMet' = [kMet EXCEPT ![t] = r] BY <1>8 DEF Boot!DropIndex
    <2> HIDE DEF r
    <2>5. kMet'[t] \in {r, kMet[t]} /\ \A x \in {"stat", "log"} \ {t} : kMet'[x] = kMet[x]
      BY <2>1, <2>4, <1>m
    <2>6. Inv(kBoot', kMet'["stat"], kMet'["log"])
      <3>1. CASE kBoot.table = 1 BY <3>1, <2>1, <2>2, <2>3, <2>5, <1>a, <1>k
      <3>2. CASE kBoot.table = 2 BY <3>2, <2>1, <2>2, <2>3, <2>5, <1>a, <1>k
      <3> QED BY <3>1, <3>2, <1>t
    <2> QED BY <2>2, <2>6, <1>q
  <1>9. ASSUME Boot!MakeIndex PROVE Boot!TableInv'
    <2> DEFINE t == Boot!Tables[kBoot.table]
               r == [kMet[t] EXCEPT !.idx = "new"]
    <2>1. t \in {"stat", "log"} /\ kMet[t] \in Boot!TableRows /\ kBoot.step = "index"
      BY <1>9, <1>t, <1>k DEF Boot!MakeIndex
    <2>2. r.pk = kMet[t].pk /\ r.env = kMet[t].env /\ r.idx = "new" /\
          kMet[t].idx \in {"gone", "none", "old", "new"}
      BY <2>1, <1>u
    <2>3. \/ kMet[t].idx # "none" /\ kMet' = kMet
          \/ kMet' = [kMet EXCEPT ![t] = r]
      BY <1>9 DEF Boot!MakeIndex
    <2> HIDE DEF r
    <2>4. (kMet'[t] = r \/ (kMet'[t] = kMet[t] /\ kMet[t].idx # "none")) /\ \A x \in {"stat", "log"} \ {t} : kMet'[x] = kMet[x]
      BY <2>1, <2>3, <1>m
    <2>5. CASE kBoot.table = 1
      <3>1. kBoot' = [kBoot EXCEPT !.step = "column", !.table = 2]
        BY <1>9, <2>5, <1>k DEF Boot!MakeIndex
      <3>2. kBoot' \in Boot!Boots /\ kBoot'.step = "column"
        <4>1. "column" \in Boot!Steps /\ 2 \in 1..2 BY <1>n
        <4> QED BY <4>1, <3>1, <1>t DEF Boot!Boots
      <3>3. Inv(kBoot', kMet'["stat"], kMet'["log"]) BY <2>5, <2>1, <2>2, <2>4, <3>2, <1>a, <1>k
      <3> QED BY <3>2, <3>3, <1>q
    <2>6. CASE kBoot.table = 2
      <3>1. Boot!To("token") BY <1>9, <2>6, <1>k DEF Boot!MakeIndex, Boot!To
      <3>2. kBoot' \in Boot!Boots /\ kBoot'.step = "token" BY <3>1, <1>s, <1>n
      <3>3. Inv(kBoot', kMet'["stat"], kMet'["log"]) BY <2>6, <2>1, <2>2, <2>4, <3>2, <1>a, <1>k
      <3> QED BY <3>2, <3>3, <1>q
    <2> QED BY <2>5, <2>6, <1>t
  <1>f. ASSUME kMet' = kMet, kBoot.step \in Fin, kBoot' \in Boot!Boots, kBoot'.step \in Fin
        PROVE  Boot!TableInv'
    BY <1>f, <1>a, <1>q
  <1>10. ASSUME Boot!ControlToken
         PROVE  Boot!TableInv' BY <1>10, <1>s, <1>n, <1>f DEF Boot!ControlToken
  <1>11. ASSUME Boot!CompareMarker
         PROVE  Boot!TableInv' BY <1>11, <1>s, <1>n, <1>f DEF Boot!CompareMarker
  <1>12. ASSUME Boot!DeployControl PROVE Boot!TableInv'
    <2>1. kBoot.tries \in 0..5 /\ kBoot.step = "deploy"
      BY <1>12, <1>t DEF Boot!Boots, Boot!DeployControl
    <2>2. kBoot.tries < 4 => kBoot.tries + 1 \in 0..5 BY <2>1
    <2>3. kBoot.tries < 4 => /\ [kBoot EXCEPT !.tries = kBoot.tries + 1] \in Boot!Boots
                             /\ [kBoot EXCEPT !.tries = kBoot.tries + 1].step = "deploy"
      BY <2>1, <2>2, <1>t, BootTriesL
    <2>4. kBoot' = [kBoot EXCEPT !.step = "served"] => Boot!To("served") BY DEF Boot!To
    <2>5. kBoot' \in Boot!Boots /\ kBoot'.step \in Fin
      BY <1>12, <2>3, <2>4, <1>s, <1>n DEF Boot!DeployControl
    <2> QED BY <1>12, <2>1, <2>5, <1>f DEF Boot!DeployControl
  <1>13. ASSUME Boot!StoreMarker
         PROVE  Boot!TableInv' BY <1>13, <1>s, <1>n, <1>f DEF Boot!StoreMarker
  <1>14. ASSUME Boot!SupCheck \/ Boot!SupSpawn \/ Boot!ChildExit \/ Boot!SupWaited \/ Boot!SupSlept
         PROVE  Boot!TableInv'
    BY <1>14, <1>q, <1>a, <1>t
       DEF Boot!SupCheck, Boot!SupSpawn, Boot!ChildExit, Boot!SupWaited, Boot!SupSlept
  <1>15. ASSUME Boot!AskStop \/ Boot!SendTerm \/ Boot!StopFinished \/ Boot!StopBudget
         PROVE  Boot!TableInv'
    BY <1>15, <1>q, <1>a, <1>t
       DEF Boot!AskStop, Boot!SendTerm, Boot!StopFinished, Boot!StopBudget
  <1>16. ASSUME UNCHANGED bootVars PROVE Boot!TableInv' BY <1>16, <1>q, <1>a, <1>t DEF bootVars
  <1> QED BY <1>1, <1>2, <1>3, <1>4, <1>5, <1>6, <1>7, <1>8, <1>9, <1>10, <1>11, <1>12, <1>13,
             <1>14, <1>15, <1>16 DEF Boot!Next

(* The invariant says that what serves has its shape and revision. *)
LEMMA BootServed ==
  ASSUME Boot!Bounds, Boot!TypeOK, Boot!ShapeInv, Boot!TableInv, Boot!GateInv
  PROVE  Boot!ServedShape /\ Boot!GateServesRevision
  <1>1. ASSUME kBoot.step \in {"token", "compare", "deploy", "store", "served"}
        PROVE /\ kDb.stamp = Boot!Latest
              /\ {v \in 1..Boot!Latest : BootKind[v] # "data"} \subseteq kDb.shape
              /\ kDb.shape \subseteq 1..Boot!Latest /\ kDb.replays <= 1
    <2>1. kDb.stamp = Boot!Latest /\ Boot!Sound(kDb) /\ Boot!Latest \in 1..Len(BootKind)
      BY <1>1, BootRevL DEF Boot!ShapeInv, Boot!TypeOK
    <2>2. kDb # Boot!Empty /\ kDb # Boot!Unstamped
      BY <2>1, BootKindL DEF Boot!Empty, Boot!Unstamped
    <2> QED BY <2>1, <2>2 DEF Boot!Sound
  <1>2. ASSUME kBoot.step \in {"token", "compare", "deploy", "store", "served"}
        PROVE /\ \A t \in DOMAIN kMet : kMet[t].env /\ kMet[t].idx \in {"old", "new"}
              /\ \A t \in Boot!Rebuilt : kMet[t].pk
    <2>1. \A k \in 1..2 : Boot!Indexed(Boot!Tables[k]) /\ Boot!Upgraded(Boot!Tables[k])
      BY <1>2 DEF Boot!TableInv
    <2>2. Boot!Tables[1] = "stat" /\ Boot!Tables[2] = "log" /\ DOMAIN kMet = {"stat", "log"}
      BY DEF Boot!Tables, Boot!TypeOK
    <2>3. \A t \in {"stat", "log"} : Boot!Indexed(t) /\ Boot!Upgraded(t) BY <2>1, <2>2
    <2> QED BY <2>2, <2>3 DEF Boot!Indexed, Boot!Upgraded, Boot!Rebuilt
  <1>3. Boot!GateServesRevision BY DEF Boot!GateServesRevision, Boot!GateInv
  <1> QED BY <1>1, <1>2, <1>3 DEF Boot!ServedShape

(* A step of the suite is a step of the boot or leaves it alone. *)
LEMMA BootNext == [Next]_allVars => [Boot!Next]_bootVars
  BY DEF Next, allVars, VoidStep, ScanStep, GitStep, PrsStep, WebStep, ConfStep, MapsStep,
         ImpStep, BootStep, R2Step, D1Step, S3Step

(* The inductive invariant of the boot. *)
LEMMA BootInductive == Spec => [](Boot!TypeOK /\ Boot!ShapeInv /\ Boot!TableInv /\ Boot!GateInv /\ Boot!StopInv)
  <1> DEFINE Inv == Boot!TypeOK /\ Boot!ShapeInv /\ Boot!TableInv /\ Boot!GateInv /\ Boot!StopInv
  <1>1. Init => Inv BY BootBounds, BootInitL DEF Init
  <1>2. Inv /\ [Next]_allVars => Inv'
    BY BootBounds, BootNext, BootTypeStep, BootShapeStep, BootTableStep, BootGateStep,
       BootStopStep
  <1> QED BY <1>1, <1>2, PTL DEF Spec

(* For every history of images and every schema they understand: what       *)
(* serves has databases of the shape its image expects, and the gate that   *)
(* opened did so on the bundle it compared, across crashes between any two  *)
(* statements of an upgrade (schema_version.rs apply, control.rs             *)
(* ensure_deployed).                                                        *)
THEOREM BootsServeTheirShape == Spec => []BootServesItsShape
  <1>1. Boot!TypeOK /\ Boot!ShapeInv /\ Boot!TableInv /\ Boot!GateInv => BootServesItsShape
    BY BootBounds, BootServed DEF BootServesItsShape
  <1> QED BY <1>1, BootInductive, PTL

(* A stop of the supervised control child that has returned left no child   *)
(* behind, wherever the supervisor was when it was asked (children.rs       *)
(* start_observed_with, stop).                                              *)
THEOREM StoppedChildrenAreGone == Spec => []Boot!StoppedMeansGone
  <1>1. Boot!StopInv => Boot!StoppedMeansGone BY DEF Boot!StopInv
  <1> QED BY <1>1, BootInductive, PTL


-----------------------------------------------------------------------------
(* Git hosting (GitRefs). *)
(* The empty repository and the idle request have their types. *)
LEMMA GitQuietL == ASSUME Git!Bounds
  PROVE /\ 0 \in Git!Shas /\ Git!NoRefs \in [GitRefs -> Git!Shas] /\ Git!NoManifest \in Git!Manifests
        /\ Git!NoManifest.refs = Git!NoRefs
        /\ Git!Quiet \in Git!Reqs /\ Git!Quiet.pc = "idle" /\ ~Git!Guarded(Git!Quiet)
  <1>1. 0 \in Git!Shas BY DEF Git!Shas, Git!Bounds
  <1>2. Git!NoRefs \in [GitRefs -> Git!Shas] BY <1>1 DEF Git!NoRefs
  <1>3. Git!NoManifest \in Git!Manifests /\ Git!NoManifest.refs = Git!NoRefs
    BY <1>2 DEF Git!NoManifest, Git!Manifests
  <1>4. "idle" \in Git!Pcs BY DEF Git!Pcs
  <1>5. Git!Quiet \in Git!Reqs /\ Git!Quiet.pc = "idle"
    BY <1>1, <1>2, <1>3, <1>4 DEF Git!Quiet, Git!Reqs, Git!Bounds
  <1>6. ~Git!Guarded(Git!Quiet) BY <1>5 DEF Git!Guarded
  <1> QED BY <1>1, <1>2, <1>3, <1>5, <1>6

(* Every place a request can be sent to is one of its program points. *)
LEMMA GitPcL == /\ {"guard", "bare", "hydrate", "coldread", "coldsync", "check", "recheck"} \subseteq Git!Pcs
                /\ {"sync", "move", "upload", "manifest", "flip", "prune"} \subseteq Git!Pcs
  BY DEF Git!Pcs

(* Moving a request on changes nothing but where it is. *)
LEMMA GitGoL == ASSUME NEW req \in Git!Reqs, NEW pc \in Git!Pcs
  PROVE LET c == [req EXCEPT !.pc = pc] IN
        /\ c \in Git!Reqs /\ c.pc = pc /\ c.op = req.op /\ c.man = req.man /\ c.after = req.after
        /\ c.before = req.before
  BY DEF Git!Reqs

(* The fields of a request have their types. *)
LEMMA GitFieldsL == ASSUME NEW req \in Git!Reqs
  PROVE /\ req.pc \in Git!Pcs /\ req.op \in Git!Writers \cup {"read", "fetch"} /\ req.ref \in GitRefs
        /\ req.new \in Git!Shas
        /\ req.list \in [GitRefs -> Git!Shas] /\ req.man \in Git!Manifests /\ req.man.seq \in Nat
        /\ req.man.refs \in [GitRefs -> Git!Shas]
        /\ req.before \in [GitRefs -> Git!Shas] /\ req.after \in [GitRefs -> Git!Shas]
  BY DEF Git!Reqs, Git!Manifests

(* Where a request goes once the mirror is there. *)
LEMMA GitAfterL == ASSUME NEW q, gReq[q] \in Git!Reqs
  PROVE /\ Git!AfterBare(q) \in {"move", "recheck", "guard", "check"}
        /\ Git!AfterBare(q) \in {"move", "recheck"} => gReq[q].op \in Git!Writers
  <1>1. gReq[q].op \in {"push", "publish", "read", "fetch"} BY GitFieldsL DEF Git!Writers
  <1> QED BY <1>1 DEF Git!AfterBare, Git!Writers

(* A mirror with other refs is a mirror. *)
LEMMA GitMirrorL ==
  ASSUME NEW m \in [head : BOOLEAN, refs : [GitRefs -> Git!Shas]],
         NEW f \in [GitRefs -> Git!Shas]
  PROVE /\ [m EXCEPT !.refs = f] \in [head : BOOLEAN, refs : [GitRefs -> Git!Shas]]
        /\ [m EXCEPT !.refs = f].refs = f
        /\ m.refs \in [GitRefs -> Git!Shas] /\ m.head \in BOOLEAN
  OBVIOUS

(* Initially nothing is stored and no request is under way. *)
LEMMA GitInitL ==
  ASSUME Git!Bounds, Git!Init
  PROVE  Git!StateOK /\ Git!GuardInv /\ Git!ManifestBundlesExist
  <1>1. Git!StateOK
    <2>1. gReq = [q \in Actors |-> Git!Quiet] /\ gManifest = Git!NoManifest /\
          gMirror = [head |-> TRUE, refs |-> Git!NoRefs]
      BY DEF Git!Init
    <2>2. gLeft.sha \in Git!Shas BY DEF Git!Init, Git!Bounds, Git!Shas
    <2> QED BY <2>1, <2>2, GitQuietL DEF Git!StateOK
  <1>2. Git!GuardInv BY GitQuietL DEF Git!Init, Git!GuardInv
  <1>3. Git!ManifestBundlesExist
    <2>1. \A r \in GitRefs : gManifest.refs[r] = 0 BY GitQuietL DEF Git!Init, Git!NoRefs
    <2> QED BY <2>1 DEF Git!ManifestBundlesExist
  <1> QED BY <1>1, <1>2, <1>3

(* Every step keeps the invariant and takes no stored ref from the mirror. *)
LEMMA GitSteps ==
  ASSUME Git!Bounds, Git!StateOK, Git!GuardInv, Git!ManifestBundlesExist, Git!Next
  PROVE Git!StateOK' /\ Git!GuardInv' /\ Git!ManifestBundlesExist' /\ Git!KeepsRefs
  <1> DEFINE M(m) == m \in [head : BOOLEAN, refs : [GitRefs -> Git!Shas]]
             N(m) == m \in Git!Manifests
             Q(req) == req \in [Actors -> Git!Reqs]
             G(req, guard, man, bundles) == \A q \in Actors : Git!Guarded(req[q]) => guard = q /\ Git!Knows(req[q], man, bundles)
             B(man, bundles) == \A r \in GitRefs : man.refs[r] # 0 => <<r, man.refs[r]>> \in bundles
             L(left) == left.sha \in Git!Shas
             Inv == Git!StateOK' /\ Git!GuardInv' /\ Git!ManifestBundlesExist'
             Goal == Inv /\ Git!KeepsRefs
  <1>t. M(gMirror) /\ N(gManifest) /\ Q(gReq) /\ G(gReq, gGuard, gManifest, gBundles) /\
        B(gManifest, gBundles) /\ L(gLeft)
    BY DEF Git!StateOK, Git!GuardInv, Git!ManifestBundlesExist
  <1>q. ASSUME M(gMirror'), N(gManifest'), Q(gReq'), G(gReq', gGuard', gManifest', gBundles'),
               B(gManifest', gBundles'), L(gLeft')
        PROVE  Inv
    BY <1>q DEF Git!StateOK, Git!GuardInv, Git!ManifestBundlesExist
  <1>r. \A q \in Actors : gReq[q] \in Git!Reqs BY <1>t
  <1>l. Git!Fault => L(gLeft')
    <2>1. gLeft.sha \in Git!Shas BY <1>t
    <2> SUFFICES ASSUME gLeft' = [gLeft EXCEPT !.faults = @ - 1] PROVE gLeft'.sha \in Git!Shas BY DEF Git!Fault
    <2>2. gLeft'.sha = gLeft.sha OBVIOUS
    <2> QED BY <2>1, <2>2
  <1>u. ASSUME NEW q \in Actors, NEW c \in Git!Reqs, gReq' = [gReq EXCEPT ![q] = c]
        PROVE Q(gReq') /\ gReq'[q] = c /\ \A u \in Actors : u # q => gReq'[u] = gReq[u]
    BY <1>t, <1>u
  <1>a. ASSUME NEW q \in Actors, NEW c \in Git!Reqs, gReq' = [gReq EXCEPT ![q] = c],
               Git!Guarded(gReq[q]), gGuard' = gGuard, 
               Git!Guarded(c) => Git!Knows(c, gManifest', gBundles')
        PROVE Q(gReq') /\ G(gReq', gGuard', gManifest', gBundles')
    <2>1. Q(gReq') /\ gReq'[q] = c /\ \A u \in Actors : u # q => gReq'[u] = gReq[u]
      BY <1>a, <1>u
    <2>2. gGuard = q BY <1>a, <1>t
    <2>3. \A u \in Actors : u # q => ~Git!Guarded(gReq[u]) BY <2>2, <1>t
    <2> QED BY <1>a, <2>1, <2>2, <2>3
  <1>b. ASSUME NEW q \in Actors, NEW c \in Git!Reqs, gReq' = [gReq EXCEPT ![q] = c],
               UNCHANGED <<gGuard, gManifest, gBundles>>, 
               Git!Guarded(c) => Git!Guarded(gReq[q]) /\ Git!Knows(c, gManifest, gBundles)
        PROVE Q(gReq') /\ G(gReq', gGuard', gManifest', gBundles')
    <2>1. Q(gReq') /\ gReq'[q] = c /\ \A u \in Actors : u # q => gReq'[u] = gReq[u]
      BY <1>b, <1>u
    <2> QED BY <1>b, <2>1, <1>t
  <1>d. ASSUME NEW q \in Actors, Git!Done(q),
               Git!Guarded(gReq[q]) \/ UNCHANGED <<gManifest, gBundles>>
        PROVE Q(gReq') /\ G(gReq', gGuard', gManifest', gBundles')
    <2>1. gReq' = [gReq EXCEPT ![q] = Git!Quiet] /\ gGuard' = IF gGuard = q THEN Git!Free ELSE gGuard
      BY <1>d DEF Git!Done
    <2>2. Q(gReq') /\ gReq'[q] = Git!Quiet /\ \A u \in Actors : u # q => gReq'[u] = gReq[u]
      BY <2>1, GitQuietL, <1>u
    <2>3. CASE gGuard = q
      <3>1. \A u \in Actors : u # q => ~Git!Guarded(gReq[u]) BY <2>3, <1>t
      <3> QED BY <2>2, <3>1, GitQuietL
    <2>4. CASE gGuard # q
      <3>1. ~Git!Guarded(gReq[q]) BY <2>4, <1>t
      <3>2. gManifest' = gManifest /\ gBundles' = gBundles /\ gGuard' = gGuard
        BY <1>d, <2>1, <2>4, <3>1
      <3> QED BY <2>2, <3>2, GitQuietL, <1>t
    <2> QED BY <2>3, <2>4
  <1>k. ASSUME NEW q \in Actors, NEW c \in Git!Reqs, gReq' = [gReq EXCEPT ![q] = c],
               gReq[q].pc # "sync"
        PROVE  Git!KeepsRefs
    <2>1. \A u \in Actors : u # q => gReq'[u] = gReq[u] BY <1>k, <1>u
    <2> QED BY <1>k, <2>1 DEF Git!KeepsRefs, Git!At
  <1>m. ASSUME gMirror' = gMirror PROVE Git!KeepsRefs BY <1>m DEF Git!KeepsRefs
  <1> HIDE DEF M, N, Q, G, B, L, Inv
  <1>1. ASSUME NEW q \in Actors, Git!BeginWrite(q) PROVE Goal
    <2>1. PICK op \in Git!Writers, reply \in {x \in Git!Replies : Git!Authorized(x)}, ref \in GitRefs, ff \in BOOLEAN, requirePr \in BOOLEAN, delete \in BOOLEAN :
           /\ op = "push" => Git!PushAllowed(reply.role, ref, delete, ff, requirePr)
           /\ ~delete => gLeft.sha > 0
           /\ gReq' = [gReq EXCEPT ![q] = [Git!Quiet EXCEPT !.pc = "guard", !.op = op, !.ref = ref,
                                            !.new = IF delete THEN 0 ELSE GitMaxSha - gLeft.sha + 1]]
           /\ gLeft' = [gLeft EXCEPT !.begins = @ - 1, !.sha = IF delete THEN gLeft.sha ELSE gLeft.sha - 1]
      BY <1>1 DEF Git!BeginWrite
    <2> DEFINE new == IF delete THEN 0 ELSE GitMaxSha - gLeft.sha + 1
               c == [Git!Quiet EXCEPT !.pc = "guard", !.op = op, !.ref = ref, !.new = new]
               n == IF delete THEN gLeft.sha ELSE gLeft.sha - 1
    <2>2. UNCHANGED <<gMirror, gBundles, gManifest, gGuard>> /\ gReq' = [gReq EXCEPT ![q] = c]
      BY <1>1, <2>1 DEF Git!BeginWrite
    <2>3. gLeft.sha \in 0 .. GitMaxSha BY <1>t DEF L, Git!Shas
    <2>4. new \in Git!Shas /\ n \in Git!Shas BY <2>1, <2>3 DEF Git!Shas, Git!Bounds
    <2>5. gLeft'.sha = n BY <2>1
    <2> HIDE DEF new, n
    <2>6. L(gLeft') BY <2>4, <2>5 DEF L
    <2>7. c \in Git!Reqs /\ c.pc = "guard"
      <3>1. Git!Quiet \in Git!Reqs /\ "guard" \in Git!Pcs BY GitQuietL, GitPcL
      <3> QED BY <2>4, <3>1 DEF Git!Reqs
    <2> HIDE DEF c
    <2>8. ~Git!Guarded(c) BY <2>7 DEF Git!Guarded
    <2>9. Q(gReq') /\ G(gReq', gGuard', gManifest', gBundles') BY <2>2, <2>7, <2>8, <1>b
    <2>10. Inv BY <2>2, <2>6, <2>9, <1>t, <1>q
    <2> QED BY <2>2, <2>10, <1>m
  <1>2. ASSUME NEW q \in Actors, Git!BeginRead(q) PROVE Goal
    <2>1. PICK op \in {"read", "fetch"} :
           gReq' = [gReq EXCEPT ![q] = [Git!Quiet EXCEPT !.pc = "bare", !.op = op, !.existed = IF op = "read" THEN gMirror.head ELSE TRUE]]
      BY <1>2 DEF Git!BeginRead
    <2> DEFINE ex == IF op = "read" THEN gMirror.head ELSE TRUE
               c == [Git!Quiet EXCEPT !.pc = "bare", !.op = op, !.existed = ex]
    <2>2. UNCHANGED <<gMirror, gBundles, gManifest, gGuard>> /\ gReq' = [gReq EXCEPT ![q] = c]
      BY <1>2, <2>1 DEF Git!BeginRead
    <2>3. gLeft'.sha = gLeft.sha BY <1>2 DEF Git!BeginRead
    <2>4. L(gLeft') BY <2>3, <1>t DEF L
    <2>5. ex \in BOOLEAN BY <1>t DEF M
    <2> HIDE DEF ex
    <2>6. c \in Git!Reqs /\ c.pc = "bare" /\ c.op = op
      <3>1. Git!Quiet \in Git!Reqs /\ "bare" \in Git!Pcs BY GitQuietL, GitPcL
      <3> QED BY <2>5, <3>1 DEF Git!Reqs
    <2> HIDE DEF c
    <2>7. ~Git!Guarded(c) BY <2>6 DEF Git!Guarded, Git!Writers
    <2>8. Q(gReq') /\ G(gReq', gGuard', gManifest', gBundles') BY <2>2, <2>6, <2>7, <1>b
    <2>9. Inv BY <2>2, <2>4, <2>8, <1>t, <1>q
    <2> QED BY <2>2, <2>9, <1>m
  <1>3. ASSUME NEW q \in Actors, Git!TakeGuard(q) PROVE Goal
    <2> DEFINE pc == IF gReq[q].op \in Git!Writers THEN "bare" ELSE "recheck"
               ex == IF gReq[q].op = "publish" THEN gMirror.head ELSE gReq[q].existed
               c == [gReq[q] EXCEPT !.pc = pc, !.existed = ex]
    <2>1. UNCHANGED <<gMirror, gBundles, gManifest, gLeft>> /\ gReq' = [gReq EXCEPT ![q] = c] /\
          gGuard = Git!Free /\ gGuard' = q
      BY <1>3 DEF Git!TakeGuard
    <2>2. pc \in {"bare", "recheck"} /\ pc \in Git!Pcs BY GitPcL
    <2>3. gReq[q] \in Git!Reqs BY <1>r
    <2>4. ex \in BOOLEAN BY <2>3, <1>t DEF M, Git!Reqs
    <2> HIDE DEF pc, ex
    <2>5. c \in Git!Reqs /\ c.pc = pc BY <2>2, <2>3, <2>4 DEF Git!Reqs
    <2> HIDE DEF c
    <2>6. Q(gReq') /\ gReq'[q] = c /\ \A u \in Actors : u # q => gReq'[u] = gReq[u]
      BY <2>1, <2>5, <1>u
    <2>7. \A u \in Actors : ~Git!Guarded(gReq[u]) BY <2>1, <1>t DEF G, Git!Bounds
    <2>8. Git!Knows(c, gManifest, gBundles) BY <2>2, <2>5 DEF Git!Knows
    <2>9. G(gReq', gGuard', gManifest', gBundles') BY <2>1, <2>6, <2>7, <2>8 DEF G
    <2>10. Inv BY <2>1, <2>6, <2>9, <1>t, <1>q
    <2> QED BY <2>1, <2>10, <1>m
  <1>z. ASSUME NEW q \in Actors, NEW c \in Git!Reqs, gReq' = [gReq EXCEPT ![q] = c],
               UNCHANGED <<gGuard, gManifest, gBundles>>, 
               gReq[q].pc \in {"bare", "hydrate", "coldread", "coldsync"}, c.op = gReq[q].op,
               \/ c.pc \in {"hydrate", "coldread", "coldsync"}
               \/ c.pc = Git!AfterBare(q),
               M(gMirror'), L(gLeft')
        PROVE Goal
    <2>1. c.pc \notin {"sync", "flip", "prune"} BY <1>z, <1>r, GitAfterL
    <2>2. Git!Knows(c, gManifest, gBundles) BY <2>1 DEF Git!Knows
    <2>3. Git!Guarded(c) => Git!Guarded(gReq[q])
      <3>1. CASE c.pc \in {"hydrate", "coldread", "coldsync"} BY <1>z, <3>1 DEF Git!Guarded
      <3>2. CASE c.pc = Git!AfterBare(q)
        <4>1. gReq[q] \in Git!Reqs BY <1>r
        <4>2. /\ c.pc \in {"move", "recheck", "guard", "check"}
              /\ c.pc \in {"move", "recheck"} => gReq[q].op \in Git!Writers
          BY <3>2, <4>1, GitAfterL
        <4> QED BY <1>z, <4>2 DEF Git!Guarded
      <3> QED BY <1>z, <3>1, <3>2
    <2>4. Q(gReq') /\ G(gReq', gGuard', gManifest', gBundles') BY <1>z, <2>2, <2>3, <1>b
    <2>5. Inv BY <1>z, <2>4, <1>t, <1>q
    <2>6. Git!KeepsRefs BY <1>z, <1>k
    <2> QED BY <2>5, <2>6
  <1>4. ASSUME NEW q \in Actors, Git!EnsureBare(q) PROVE Goal
    <2>0. UNCHANGED <<gBundles, gManifest, gGuard, gLeft>> /\ gReq[q].pc = "bare" /\
          gReq[q] \in Git!Reqs
      BY <1>4, <1>r DEF Git!EnsureBare, Git!At
    <2>1. PICK pc : (pc = Git!AfterBare(q) \/ pc = "hydrate") /\ Git!Go(q, pc)
      BY <1>4 DEF Git!EnsureBare
    <2>2. M(gMirror')
      <3>1. gMirror' = gMirror \/ gMirror' = [head |-> TRUE, refs |-> Git!NoRefs]
        BY <1>4 DEF Git!EnsureBare
      <3>2. M([head |-> TRUE, refs |-> Git!NoRefs]) BY GitQuietL DEF M
      <3> QED BY <3>1, <3>2, <1>t
    <2> DEFINE c == [gReq[q] EXCEPT !.pc = pc]
    <2>3. pc \in Git!Pcs BY <2>0, <2>1, GitAfterL, GitPcL
    <2>4. c \in Git!Reqs /\ c.pc = pc /\ c.op = gReq[q].op BY <2>0, <2>3, GitGoL
    <2>5. gReq' = [gReq EXCEPT ![q] = c] BY <2>1 DEF Git!Go
    <2> HIDE DEF c
    <2> QED BY <2>0, <2>1, <2>2, <2>4, <2>5, <1>t, <1>z
  <1>5. ASSUME NEW q \in Actors, Git!HydrateList(q) PROVE Goal
    <2>1. PICK best \in [GitRefs -> Git!Shas] :
              gReq' = [gReq EXCEPT ![q] = [@ EXCEPT !.list = best, !.pc = IF best = Git!NoRefs THEN "coldread" ELSE "hydrate"]]
      BY <1>5 DEF Git!HydrateList
    <2> DEFINE pc == IF best = Git!NoRefs THEN "coldread" ELSE "hydrate"
               c == [gReq[q] EXCEPT !.list = best, !.pc = pc]
    <2>2. UNCHANGED <<gMirror, gBundles, gManifest, gGuard, gLeft>> /\ gReq[q].pc = "hydrate"
      BY <1>5 DEF Git!HydrateList, Git!At
    <2>3. gReq[q] \in Git!Reqs /\ pc \in Git!Pcs /\ pc \in {"hydrate", "coldread"}
      BY <1>r, GitPcL
    <2>4. gReq' = [gReq EXCEPT ![q] = c] BY <2>1
    <2> HIDE DEF pc
    <2>5. c \in Git!Reqs /\ c.pc = pc /\ c.op = gReq[q].op BY <2>3 DEF Git!Reqs
    <2> HIDE DEF c
    <2> QED BY <2>2, <2>3, <2>4, <2>5, <1>t, <1>z
  <1>6. ASSUME NEW q \in Actors, Git!HydrateRef(q) PROVE Goal
    <2>0. UNCHANGED <<gBundles, gManifest, gLeft>> /\ gReq[q].pc = "hydrate" /\ gReq[q] \in Git!Reqs
      BY <1>6, <1>r DEF Git!HydrateRef, Git!At
    <2>1. PICK r \in GitRefs :
           /\ gReq[q].list[r] # 0
           /\ IF <<r, gReq[q].list[r]>> \in gBundles
              THEN /\ gMirror' = [gMirror EXCEPT !.refs = [gMirror.refs EXCEPT ![r] = gReq[q].list[r]]]
                   /\ LET rest == [gReq[q].list EXCEPT ![r] = 0]
                      IN gReq' = [gReq EXCEPT ![q] = [@ EXCEPT !.list = rest,
                                                               !.pc = IF rest = Git!NoRefs THEN "coldread" ELSE "hydrate"]]
                   /\ UNCHANGED gGuard
              ELSE Git!Done(q) /\ UNCHANGED gMirror
      BY <1>6 DEF Git!HydrateRef
    <2>2. CASE <<r, gReq[q].list[r]>> \in gBundles
      <3> DEFINE rest == [gReq[q].list EXCEPT ![r] = 0]
                 pc == IF rest = Git!NoRefs THEN "coldread" ELSE "hydrate"
                 c == [gReq[q] EXCEPT !.list = rest, !.pc = pc]
                 f == [gMirror.refs EXCEPT ![r] = gReq[q].list[r]]
      <3>1. gMirror' = [gMirror EXCEPT !.refs = f] /\ gReq' = [gReq EXCEPT ![q] = c] /\ gGuard' = gGuard
        BY <2>1, <2>2
      <3>2. gReq[q].list \in [GitRefs -> Git!Shas] /\ gMirror.refs \in [GitRefs -> Git!Shas]
        BY <2>0, GitFieldsL, <1>t DEF M
      <3>3. f \in [GitRefs -> Git!Shas] /\ rest \in [GitRefs -> Git!Shas] BY <3>2, GitQuietL
      <3>4. pc \in Git!Pcs /\ pc \in {"hydrate", "coldread"} BY GitPcL
      <3> HIDE DEF rest, pc, f
      <3>5. M(gMirror') BY <3>1, <3>3, <1>t, GitMirrorL DEF M
      <3>6. c \in Git!Reqs /\ c.pc = pc /\ c.op = gReq[q].op BY <2>0, <3>3, <3>4 DEF Git!Reqs
      <3> HIDE DEF c
      <3> QED BY <2>0, <3>1, <3>4, <3>5, <3>6, <1>t, <1>z
    <2>3. CASE Git!Done(q) /\ UNCHANGED gMirror
      <3>1. Q(gReq') /\ G(gReq', gGuard', gManifest', gBundles') BY <2>0, <2>3, <1>d
      <3>2. Inv BY <2>0, <2>3, <3>1, <1>t, <1>q
      <3> QED BY <2>3, <3>2, <1>m
    <2> QED BY <2>1, <2>2, <2>3
  <1>7. ASSUME NEW q \in Actors, Git!ColdRead(q) PROVE Goal
    <2>0. UNCHANGED <<gMirror, gBundles, gManifest, gGuard>> /\ gReq[q].pc = "coldread" /\
          gReq[q] \in Git!Reqs
      BY <1>7, <1>r DEF Git!ColdRead, Git!At
    <2>1. CASE gReq' = [gReq EXCEPT ![q] = [@ EXCEPT !.man = gManifest, !.pc = "coldsync"]] /\
               UNCHANGED gLeft
      <3> DEFINE c == [gReq[q] EXCEPT !.man = gManifest, !.pc = "coldsync"]
      <3>1. "coldsync" \in Git!Pcs /\ gManifest \in Git!Manifests BY GitPcL, <1>t DEF N
      <3>2. c \in Git!Reqs /\ c.pc = "coldsync" /\ c.op = gReq[q].op BY <2>0, <3>1 DEF Git!Reqs
      <3>3. gReq' = [gReq EXCEPT ![q] = c] BY <2>1
      <3> HIDE DEF c
      <3> QED BY <2>0, <2>1, <3>2, <3>3, <1>t, <1>z
    <2>2. CASE Git!Fault /\ Git!Go(q, Git!AfterBare(q))
      <3> DEFINE pc == Git!AfterBare(q)
                 c == [gReq[q] EXCEPT !.pc = pc]
      <3>1. pc \in Git!Pcs BY <2>0, GitAfterL, GitPcL
      <3>2. c \in Git!Reqs /\ c.pc = pc /\ c.op = gReq[q].op BY <2>0, <3>1, GitGoL
      <3>3. gReq' = [gReq EXCEPT ![q] = c] BY <2>2 DEF Git!Go
      <3> HIDE DEF c
      <3> QED BY <2>0, <2>2, <3>2, <3>3, <1>l, <1>t, <1>z
    <2> QED BY <1>7, <2>1, <2>2 DEF Git!ColdRead
  <1>8. ASSUME NEW man \in Git!Manifests, Git!SyncToManifest(man) \/ Git!RefreshBare(man)
        PROVE  M(gMirror')
    <2>1. man.refs \in [GitRefs -> Git!Shas] /\ M(gMirror) /\ gMirror.refs \in [GitRefs -> Git!Shas]
      BY <1>t DEF Git!Manifests, M
    <2> DEFINE f == [r \in GitRefs |-> IF man.refs[r] # 0 THEN man.refs[r] ELSE gMirror.refs[r]]
    <2>2. f \in [GitRefs -> Git!Shas] BY <2>1
    <2>3. gMirror' = gMirror \/ gMirror' = [gMirror EXCEPT !.refs = man.refs] \/ gMirror' = [gMirror EXCEPT !.refs = f]
      BY <1>8 DEF Git!SyncToManifest, Git!RefreshBare
    <2> HIDE DEF f
    <2> QED BY <2>1, <2>2, <2>3, GitMirrorL DEF M
  <1>9. ASSUME NEW q \in Actors, Git!ColdSync(q) PROVE Goal
    <2> DEFINE pc == Git!AfterBare(q)
               c == [gReq[q] EXCEPT !.man = Git!NoManifest, !.pc = pc]
    <2>0. UNCHANGED <<gBundles, gManifest, gGuard, gLeft>> /\ gReq[q].pc = "coldsync" /\
          gReq[q] \in Git!Reqs /\ gReq' = [gReq EXCEPT ![q] = c]
      BY <1>9, <1>r DEF Git!ColdSync, Git!At
    <2>1. gReq[q].man \in Git!Manifests /\ Git!SyncToManifest(gReq[q].man)
      BY <1>9, <2>0, GitFieldsL DEF Git!ColdSync
    <2>2. M(gMirror') BY <2>1, <1>8
    <2>3. pc \in Git!Pcs BY <2>0, GitAfterL, GitPcL
    <2>4. c \in Git!Reqs /\ c.pc = pc /\ c.op = gReq[q].op
      <3> HIDE DEF pc
      <3> QED BY <2>0, <2>3, GitQuietL DEF Git!Reqs
    <2> HIDE DEF c
    <2> QED BY <2>0, <2>2, <2>4, <1>t, <1>z
  <1>10. ASSUME NEW q \in Actors, Git!CheckUnlocked(q) PROVE Goal
    <2>0. UNCHANGED <<gMirror, gBundles, gManifest, gLeft>> /\ gReq[q].pc = "check" /\
          gReq[q] \in Git!Reqs
      BY <1>10, <1>r DEF Git!CheckUnlocked, Git!At
    <2>1. CASE gReq' = [gReq EXCEPT ![q] = [@ EXCEPT !.man = gManifest, !.pc = "guard"]] /\
               UNCHANGED gGuard
      <3> DEFINE c == [gReq[q] EXCEPT !.man = gManifest, !.pc = "guard"]
      <3>1. "guard" \in Git!Pcs /\ gManifest \in Git!Manifests BY GitPcL, <1>t DEF N
      <3>2. c \in Git!Reqs /\ c.pc = "guard" BY <2>0, <3>1 DEF Git!Reqs
      <3>3. gReq' = [gReq EXCEPT ![q] = c] BY <2>1
      <3> HIDE DEF c
      <3>4. ~Git!Guarded(c) BY <3>2 DEF Git!Guarded
      <3>5. Q(gReq') /\ G(gReq', gGuard', gManifest', gBundles')
        BY <2>0, <2>1, <3>2, <3>3, <3>4, <1>b
      <3>6. Inv BY <2>0, <3>5, <1>t, <1>q
      <3> QED BY <2>0, <3>6, <1>m
    <2>2. CASE Git!Done(q)
      <3>1. Q(gReq') /\ G(gReq', gGuard', gManifest', gBundles') BY <2>0, <2>2, <1>d
      <3>2. Inv BY <2>0, <3>1, <1>t, <1>q
      <3> QED BY <2>0, <3>2, <1>m
    <2> QED BY <1>10, <2>1, <2>2 DEF Git!CheckUnlocked
  <1>s. ASSUME NEW q \in Actors, Git!Synced(q), gReq[q].pc \in {"recheck", "sync"},
               UNCHANGED <<gBundles, gManifest>>
        PROVE Q(gReq') /\ G(gReq', gGuard', gManifest', gBundles')
    <2>1. gReq[q] \in Git!Reqs /\ Git!Guarded(gReq[q]) BY <1>s, <1>r DEF Git!Guarded
    <2>2. CASE Git!Go(q, "move") /\ UNCHANGED gGuard
      <3> DEFINE c == [gReq[q] EXCEPT !.pc = "move"]
      <3>0. "move" \in Git!Pcs BY GitPcL
      <3>1. c \in Git!Reqs /\ c.pc = "move" BY <2>1, <3>0, GitGoL
      <3>2. gReq' = [gReq EXCEPT ![q] = c] BY <2>2 DEF Git!Go
      <3> HIDE DEF c
      <3>3. Git!Knows(c, gManifest, gBundles) BY <3>1 DEF Git!Knows
      <3> QED BY <1>s, <2>1, <2>2, <3>1, <3>2, <3>3, <1>b
    <2>3. CASE Git!Done(q) BY <1>s, <2>3, <1>d
    <2> QED BY <1>s, <2>2, <2>3 DEF Git!Synced
  <1>11. ASSUME NEW q \in Actors, Git!Recheck(q) PROVE Goal
    <2>0. UNCHANGED <<gMirror, gBundles, gManifest, gLeft>> /\ gReq[q].pc = "recheck" /\
          gReq[q] \in Git!Reqs
      BY <1>11, <1>r DEF Git!Recheck, Git!At
    <2>1. CASE gReq' = [gReq EXCEPT ![q] = [@ EXCEPT !.man = gManifest, !.pc = "sync"]] /\
               UNCHANGED gGuard
      <3> DEFINE c == [gReq[q] EXCEPT !.man = gManifest, !.pc = "sync"]
      <3>1. "sync" \in Git!Pcs /\ gManifest \in Git!Manifests BY GitPcL, <1>t DEF N
      <3>2. c \in Git!Reqs /\ c.pc = "sync" /\ c.man = gManifest BY <2>0, <3>1 DEF Git!Reqs
      <3>3. gReq' = [gReq EXCEPT ![q] = c] BY <2>1
      <3> HIDE DEF c
      <3>4. Git!Guarded(gReq[q]) /\ Git!Knows(c, gManifest, gBundles)
        BY <2>0, <3>2 DEF Git!Guarded, Git!Knows
      <3>5. Q(gReq') /\ G(gReq', gGuard', gManifest', gBundles')
        BY <2>0, <2>1, <3>2, <3>3, <3>4, <1>b
      <3>6. Inv BY <2>0, <3>5, <1>t, <1>q
      <3> QED BY <2>0, <3>6, <1>m
    <2>2. CASE Git!Synced(q)
      <3>1. Q(gReq') /\ G(gReq', gGuard', gManifest', gBundles') BY <2>0, <2>2, <1>s
      <3>2. Inv BY <2>0, <3>1, <1>t, <1>q
      <3> QED BY <2>0, <3>2, <1>m
    <2> QED BY <1>11, <2>1, <2>2 DEF Git!Recheck
  <1>12. ASSUME NEW q \in Actors, Git!SyncGuarded(q) PROVE Goal
    <2>0. UNCHANGED <<gBundles, gManifest, gLeft>> /\ gReq[q].pc = "sync" /\ gReq[q] \in Git!Reqs /\
          Git!Synced(q)
      BY <1>12, <1>r DEF Git!SyncGuarded, Git!At
    <2>1. gReq[q].man \in Git!Manifests /\
          (Git!SyncToManifest(gReq[q].man) \/ Git!RefreshBare(gReq[q].man))
      BY <1>12, <2>0, GitFieldsL DEF Git!SyncGuarded
    <2>2. M(gMirror') BY <2>1, <1>8
    <2>3. Q(gReq') /\ G(gReq', gGuard', gManifest', gBundles') BY <2>0, <1>s
    <2>4. Inv BY <2>0, <2>2, <2>3, <1>t, <1>q
    <2>5. gReq[q].man = gManifest BY <2>0, <1>t DEF G, Git!Guarded, Git!Knows
    <2>6. \A r \in GitRefs : gMirror.refs[r] = gManifest.refs[r] => gMirror'.refs[r] = gMirror.refs[r]
      <3> DEFINE f == [r \in GitRefs |-> IF gManifest.refs[r] # 0 THEN gManifest.refs[r] ELSE gMirror.refs[r]]
      <3>1. gMirror' = gMirror \/ gMirror' = [gMirror EXCEPT !.refs = gManifest.refs] \/ gMirror' = [gMirror EXCEPT !.refs = f]
        BY <2>1, <2>5 DEF Git!SyncToManifest, Git!RefreshBare
      <3>2. gManifest.refs \in [GitRefs -> Git!Shas] /\ gMirror.refs \in [GitRefs -> Git!Shas]
        BY <1>t DEF N, M, Git!Manifests
      <3>3. f \in [GitRefs -> Git!Shas] /\ \A r \in GitRefs : gMirror.refs[r] = gManifest.refs[r] => f[r] = gMirror.refs[r]
        BY <3>2
      <3> HIDE DEF f
      <3>4. gMirror'.refs \in {gMirror.refs, gManifest.refs, f}
        BY <3>1, <3>2, <3>3, <1>t, GitMirrorL DEF M
      <3> QED BY <3>3, <3>4
    <2> QED BY <2>4, <2>6 DEF Git!KeepsRefs
  <1>13. ASSUME NEW q \in Actors, Git!Moved(q), gReq[q].pc = "move",
                UNCHANGED <<gBundles, gManifest, gLeft>>
         PROVE  Goal
    <2> DEFINE f == [gMirror.refs EXCEPT ![gReq[q].ref] = gReq[q].new]
               c == [gReq[q] EXCEPT !.pc = "upload", !.before = gMirror.refs, !.after = f]
    <2>1. gMirror' = [gMirror EXCEPT !.refs = f] /\ gReq' = [gReq EXCEPT ![q] = c] /\ gGuard' = gGuard
      BY <1>13 DEF Git!Moved
    <2>2. gReq[q] \in Git!Reqs /\ "upload" \in Git!Pcs /\ gMirror.refs \in [GitRefs -> Git!Shas]
      BY GitPcL, <1>r, <1>t DEF M
    <2>3. f \in [GitRefs -> Git!Shas] BY <2>2, GitFieldsL
    <2> HIDE DEF f
    <2>4. M(gMirror') BY <2>1, <2>3, <1>t, GitMirrorL DEF M
    <2>5. c \in Git!Reqs /\ c.pc = "upload" BY <2>2, <2>3 DEF Git!Reqs
    <2> HIDE DEF c
    <2>6. Git!Guarded(gReq[q]) /\ Git!Knows(c, gManifest, gBundles)
      BY <1>13, <2>5 DEF Git!Guarded, Git!Knows
    <2>7. Q(gReq') /\ G(gReq', gGuard', gManifest', gBundles') BY <1>13, <2>1, <2>5, <2>6, <1>b
    <2>8. Inv BY <1>13, <2>4, <2>7, <1>t, <1>q
    <2>9. Git!KeepsRefs BY <1>13, <2>1, <2>5, <1>k
    <2> QED BY <2>8, <2>9
  <1>14. ASSUME NEW q \in Actors, Git!MoveRef(q) \/ Git!CasUpdate(q) PROVE Goal
    <2>0. UNCHANGED <<gBundles, gManifest, gLeft>> /\ gReq[q].pc = "move" /\ gReq[q] \in Git!Reqs
      BY <1>14, <1>r DEF Git!MoveRef, Git!CasUpdate, Git!At
    <2>1. CASE Git!Moved(q) BY <2>0, <2>1, <1>13
    <2>2. CASE /\ gReq' = [gReq EXCEPT ![q] = [@ EXCEPT !.pc = "upload", !.before = gMirror.refs, !.after = gMirror.refs]]
               /\ UNCHANGED <<gMirror, gAck, gGuard>>
      <3> DEFINE c == [gReq[q] EXCEPT !.pc = "upload", !.before = gMirror.refs, !.after = gMirror.refs]
      <3>1. "upload" \in Git!Pcs /\ gMirror.refs \in [GitRefs -> Git!Shas] BY GitPcL, <1>t DEF M
      <3>2. c \in Git!Reqs /\ c.pc = "upload" BY <2>0, <3>1 DEF Git!Reqs
      <3>3. gReq' = [gReq EXCEPT ![q] = c] BY <2>2
      <3> HIDE DEF c
      <3>4. Git!Guarded(gReq[q]) /\ Git!Knows(c, gManifest, gBundles)
        BY <2>0, <3>2 DEF Git!Guarded, Git!Knows
      <3>5. Q(gReq') /\ G(gReq', gGuard', gManifest', gBundles')
        BY <2>0, <2>2, <3>2, <3>3, <3>4, <1>b
      <3>6. Inv BY <2>0, <2>2, <3>5, <1>t, <1>q
      <3> QED BY <2>2, <3>6, <1>m
    <2>3. CASE Git!Done(q) /\ UNCHANGED <<gMirror, gAck>>
      <3>1. Q(gReq') /\ G(gReq', gGuard', gManifest', gBundles') BY <2>0, <2>3, <1>d
      <3>2. Inv BY <2>0, <2>3, <3>1, <1>t, <1>q
      <3> QED BY <2>3, <3>2, <1>m
    <2> QED BY <1>14, <2>1, <2>2, <2>3 DEF Git!MoveRef, Git!CasUpdate
  <1>15. ASSUME NEW q \in Actors, Git!Upload(q) PROVE Goal
    <2>0. UNCHANGED <<gMirror, gManifest>> /\ gReq[q].pc = "upload" /\ gReq[q] \in Git!Reqs
      BY <1>15, <1>r DEF Git!Upload, Git!At
    <2>1. CASE gBundles' = gBundles \cup Git!TipBundles(q, Git!Changed(q)) /\ Git!Go(q, "manifest") /\
               UNCHANGED <<gGuard, gLeft>>
      <3> DEFINE c == [gReq[q] EXCEPT !.pc = "manifest"]
      <3>0. "manifest" \in Git!Pcs BY GitPcL
      <3>1. c \in Git!Reqs /\ c.pc = "manifest" BY <2>0, <3>0, GitGoL
      <3>2. gReq' = [gReq EXCEPT ![q] = c] BY <2>1 DEF Git!Go
      <3> HIDE DEF c
      <3>3. Git!Guarded(gReq[q]) /\ Git!Knows(c, gManifest', gBundles')
        BY <2>0, <3>1 DEF Git!Guarded, Git!Knows
      <3>4. Q(gReq') /\ G(gReq', gGuard', gManifest', gBundles') BY <2>1, <3>1, <3>2, <3>3, <1>a
      <3>5. B(gManifest', gBundles') BY <2>0, <2>1, <1>t DEF B
      <3>6. Inv BY <2>0, <2>1, <3>4, <3>5, <1>t, <1>q
      <3> QED BY <2>0, <3>6, <1>m
    <2>2. CASE Git!Fault /\ Git!Done(q) /\ UNCHANGED gBundles
      <3>1. Q(gReq') /\ G(gReq', gGuard', gManifest', gBundles') BY <2>0, <2>2, <1>d
      <3>2. Inv BY <2>0, <2>2, <3>1, <1>t, <1>l, <1>q
      <3> QED BY <2>0, <3>2, <1>m
    <2> QED BY <1>15, <2>1, <2>2 DEF Git!Upload
  <1>16. ASSUME NEW q \in Actors, Git!BuildManifest(q) PROVE Goal
    <2>0. UNCHANGED <<gMirror, gManifest>> /\ gReq[q].pc = "manifest" /\ gReq[q] \in Git!Reqs
      BY <1>16, <1>r DEF Git!BuildManifest, Git!At
    <2>1. CASE /\ gReq' = [gReq EXCEPT ![q] = [@ EXCEPT !.pc = "flip", !.man = [seq |-> gManifest.seq + 1, refs |-> gReq[q].after]]]
               /\ gBundles' = gBundles \cup Git!TipBundles(q, {r \in GitRefs : gReq[q].after[r] \notin {0, gManifest.refs[r]}})
               /\ UNCHANGED <<gGuard, gLeft>>
      <3> DEFINE n == gManifest.seq + 1
                 man == [seq |-> n, refs |-> gReq[q].after]
                 c == [gReq[q] EXCEPT !.pc = "flip", !.man = man]
      <3>1. "flip" \in Git!Pcs /\ n \in Nat BY GitPcL, <1>t DEF N, Git!Manifests
      <3>2. gReq' = [gReq EXCEPT ![q] = c] BY <2>1
      <3> HIDE DEF n
      <3>3. man \in Git!Manifests /\ man.refs = gReq[q].after
        BY <2>0, <3>1, GitFieldsL DEF Git!Manifests
      <3> HIDE DEF man
      <3>4. c \in Git!Reqs /\ c.pc = "flip" /\ c.man = man /\ c.after = gReq[q].after
        BY <2>0, <3>1, <3>3 DEF Git!Reqs
      <3> HIDE DEF c
      <3>5. ASSUME NEW r \in GitRefs, gReq[q].after[r] # 0
            PROVE  <<r, gReq[q].after[r]>> \in gBundles'
        <4>1. CASE gReq[q].after[r] = gManifest.refs[r] BY <2>1, <3>5, <4>1, <1>t DEF B
        <4>2. CASE gReq[q].after[r] # gManifest.refs[r] BY <2>1, <3>5, <4>2 DEF Git!TipBundles
        <4> QED BY <4>1, <4>2
      <3>6. Git!Guarded(gReq[q]) /\ Git!Knows(c, gManifest', gBundles')
        BY <2>0, <3>3, <3>4, <3>5 DEF Git!Guarded, Git!Knows
      <3>7. Q(gReq') /\ G(gReq', gGuard', gManifest', gBundles') BY <2>1, <3>2, <3>4, <3>6, <1>a
      <3>8. B(gManifest', gBundles') BY <2>0, <2>1, <1>t DEF B
      <3>9. Inv BY <2>0, <2>1, <3>7, <3>8, <1>t, <1>q
      <3> QED BY <2>0, <3>9, <1>m
    <2>2. CASE Git!Fault /\ Git!Done(q) /\ UNCHANGED gBundles
      <3>1. Q(gReq') /\ G(gReq', gGuard', gManifest', gBundles') BY <2>0, <2>2, <1>d
      <3>2. Inv BY <2>0, <2>2, <3>1, <1>t, <1>l, <1>q
      <3> QED BY <2>0, <3>2, <1>m
    <2> QED BY <1>16, <2>1, <2>2 DEF Git!BuildManifest
  <1>17. ASSUME NEW q \in Actors, Git!Flip(q) PROVE Goal
    <2>0. /\ gBundles' = gBundles /\ gReq[q].pc = "flip" /\ gReq[q] \in Git!Reqs
          /\ gReq[q].man \in Git!Manifests /\ Git!Guarded(gReq[q])
      BY <1>17, <1>r, GitFieldsL DEF Git!Flip, Git!At, Git!Guarded
    <2>1. /\ gReq[q].man.refs = gReq[q].after
          /\ \A r \in GitRefs : gReq[q].after[r] # 0 => <<r, gReq[q].after[r]>> \in gBundles
      BY <2>0, <1>t DEF G, Git!Knows
    <2>2. B(gReq[q].man, gBundles) BY <2>1 DEF B
    <2>3. CASE gManifest' = gReq[q].man /\ Git!Go(q, "prune") /\ UNCHANGED <<gMirror, gGuard, gLeft>>
      <3> DEFINE c == [gReq[q] EXCEPT !.pc = "prune"]
      <3>0. "prune" \in Git!Pcs BY GitPcL
      <3>1. c \in Git!Reqs /\ c.pc = "prune" /\ c.after = gReq[q].after BY <2>0, <3>0, GitGoL
      <3>2. gReq' = [gReq EXCEPT ![q] = c] BY <2>3 DEF Git!Go
      <3> HIDE DEF c
      <3>3. Git!Knows(c, gManifest', gBundles') BY <2>1, <2>3, <3>1 DEF Git!Knows
      <3>4. Q(gReq') /\ G(gReq', gGuard', gManifest', gBundles')
        BY <2>0, <2>3, <3>1, <3>2, <3>3, <1>a
      <3>5. B(gManifest', gBundles') /\ N(gManifest') BY <2>0, <2>2, <2>3 DEF N
      <3>6. Inv BY <2>3, <3>4, <3>5, <1>t, <1>q
      <3> QED BY <2>3, <3>6, <1>m
    <2>4. CASE Git!Fault /\ gManifest' \in {gManifest, gReq[q].man} /\
               gMirror' = [gMirror EXCEPT !.refs = Git!PutBack(q)] /\ Git!Done(q)
      <3>1. Q(gReq') /\ G(gReq', gGuard', gManifest', gBundles') BY <2>0, <2>4, <1>d
      <3>2. B(gManifest', gBundles') /\ N(gManifest') BY <2>0, <2>2, <2>4, <1>t DEF N
      <3>3. Git!PutBack(q) \in [GitRefs -> Git!Shas]
        <4>1. gReq[q].before \in [GitRefs -> Git!Shas] /\ gMirror.refs \in [GitRefs -> Git!Shas]
          BY <2>0, GitFieldsL, <1>t DEF M
        <4> QED BY <4>1 DEF Git!PutBack
      <3>4. M(gMirror') BY <2>4, <3>3, <1>t, GitMirrorL DEF M
      <3>5. Inv BY <2>4, <3>1, <3>2, <3>4, <1>l, <1>q
      <3>6. Git!KeepsRefs BY <2>0, <2>4, GitQuietL, <1>k DEF Git!Done
      <3> QED BY <3>5, <3>6
    <2> QED BY <1>17, <2>3, <2>4 DEF Git!Flip
  <1>18. ASSUME NEW q \in Actors, Git!Prune(q) PROVE Goal
    <2>0. UNCHANGED <<gMirror, gManifest>> /\ gReq[q].pc = "prune" /\ gReq[q] \in Git!Reqs /\
          Git!Done(q) /\ Git!Guarded(gReq[q])
      BY <1>18, <1>r DEF Git!Prune, Git!At, Git!Guarded
    <2>1. gManifest.refs = gReq[q].after BY <2>0, <1>t DEF G, Git!Knows
    <2>2. Q(gReq') /\ G(gReq', gGuard', gManifest', gBundles') BY <2>0, <1>d
    <2>3. L(gLeft') BY <1>18, <1>l, <1>t DEF Git!Prune
    <2>4. B(gManifest', gBundles')
      <3>1. CASE gBundles' = gBundles BY <2>0, <3>1, <1>t
      <3>2. CASE gBundles' = gBundles \ Git!Superseded(q)
        <4> SUFFICES ASSUME NEW r \in GitRefs, gManifest.refs[r] # 0 PROVE <<r, gManifest.refs[r]>> \in gBundles' BY <2>0 DEF B
        <4>1. <<r, gManifest.refs[r]>> \in gBundles BY <1>t DEF B
        <4>2. <<r, gManifest.refs[r]>> \notin Git!Superseded(q)
          BY <2>1 DEF Git!Superseded, Git!Deleted
        <4> QED BY <3>2, <4>1, <4>2
      <3> QED BY <1>18, <3>1, <3>2 DEF Git!Prune
    <2>5. Inv BY <2>0, <2>2, <2>3, <2>4, <1>t, <1>q
    <2> QED BY <2>0, <2>5, <1>m
  <1>19. ASSUME Git!Restart PROVE Goal
    <2>1. /\ gReq' = [q \in Actors |-> Git!Quiet]
          /\ gMirror' \in {gMirror, [head |-> FALSE, refs |-> Git!NoRefs]}
          /\ UNCHANGED <<gBundles, gManifest>> /\ Git!Fault
      BY <1>19 DEF Git!Restart
    <2>2. Q(gReq') /\ G(gReq', gGuard', gManifest', gBundles') BY <2>1, GitQuietL DEF Q, G
    <2>3. M(gMirror')
      <3>1. M([head |-> FALSE, refs |-> Git!NoRefs]) BY GitQuietL DEF M
      <3> QED BY <2>1, <3>1, <1>t
    <2>4. Inv BY <2>1, <2>2, <2>3, <1>t, <1>l, <1>q
    <2>5. gMirror'.head => gMirror' = gMirror BY <2>1
    <2>6. Git!KeepsRefs BY <2>5 DEF Git!KeepsRefs
    <2> QED BY <2>4, <2>6
  <1>20. ASSUME Git!Purge PROVE Goal
    <2>1. /\ gGuard = Git!Free /\ UNCHANGED <<gGuard, gReq>>
          /\ gMirror' = [head |-> FALSE, refs |-> Git!NoRefs] /\ gBundles' = {}
          /\ gManifest' = Git!NoManifest /\ Git!Fault
      BY <1>20 DEF Git!Purge
    <2>2. \A q \in Actors : ~Git!Guarded(gReq[q]) BY <2>1, <1>t DEF G, Git!Bounds
    <2>3. G(gReq', gGuard', gManifest', gBundles') /\ Q(gReq') BY <2>1, <2>2, <1>t DEF G
    <2>4. M(gMirror') /\ N(gManifest') BY <2>1, GitQuietL DEF M, N
    <2>5. B(gManifest', gBundles') BY <2>1, GitQuietL DEF B, Git!NoRefs
    <2>6. Inv BY <2>1, <2>3, <2>4, <2>5, <1>l, <1>q
    <2>7. Git!KeepsRefs BY <2>1 DEF Git!KeepsRefs
    <2> QED BY <2>6, <2>7
  <1>21. Goal
    BY <1>1, <1>2, <1>3, <1>4, <1>5, <1>6, <1>7, <1>9, <1>10, <1>11, <1>12, <1>14, <1>15, <1>16,
       <1>17, <1>18, <1>19, <1>20 DEF Git!Next, Git!RequestStep
  <1> QED BY <1>21 DEF Inv

(* A step that leaves git hosting alone keeps the invariant. *)
LEMMA GitStutter ==
  ASSUME Git!StateOK, Git!GuardInv, Git!ManifestBundlesExist, UNCHANGED gitVars
  PROVE  Git!StateOK' /\ Git!GuardInv' /\ Git!ManifestBundlesExist'
  BY DEF Git!StateOK, Git!GuardInv, Git!ManifestBundlesExist, gitVars

(* The types of git hosting, from its shape and its bounded parts. *)
LEMMA GitTypesL ==
  ASSUME Git!StateOK, gBundles \subseteq GitRefs \X (1 .. GitMaxSha), gApplied \in Nat \cup {-1},
         gGuard \in Actors \cup {Git!Free}, gAck \in [GitRefs -> Git!Shas],
         gLeft \in [sha : Git!Shas, faults : 0 .. GitMaxFaults, begins : 0 .. GitMaxBegins]
  PROVE  Git!TypeOK
  <1>1. ASSUME NEW q \in Actors
        PROVE  /\ gReq[q].pc \in Git!Pcs /\ gReq[q].op \in Git!Writers \cup {"read", "fetch"}
               /\ gReq[q].ref \in GitRefs /\ gReq[q].new \in Git!Shas /\ gReq[q].existed \in BOOLEAN
               /\ gReq[q].man.seq \in Nat
               /\ \A f \in {gReq[q].list, gReq[q].before, gReq[q].after, gReq[q].man.refs} : f \in [GitRefs -> Git!Shas]
    <2>1. gReq[q] \in Git!Reqs BY DEF Git!StateOK
    <2>2. gReq[q].existed \in BOOLEAN BY <2>1 DEF Git!Reqs
    <2> QED BY <2>1, <2>2, GitFieldsL
  <1>2. gMirror \in [head : BOOLEAN, refs : [GitRefs -> Git!Shas]] /\
        gManifest \in [seq : Nat, refs : [GitRefs -> Git!Shas]]
    BY DEF Git!StateOK, Git!Manifests
  <1> QED BY <1>1, <1>2 DEF Git!TypeOK

(* The first state of git hosting has its types. *)
LEMMA GitTypeInit == ASSUME Git!Bounds, Git!Init PROVE Git!TypeOK
  <1>1. Git!StateOK BY GitInitL
  <1>2. gBundles = {} /\ gApplied = -1 /\ gGuard = Git!Free /\ gAck \in [GitRefs -> Git!Shas]
    BY GitQuietL DEF Git!Init
  <1>3. gLeft \in [sha : Git!Shas, faults : 0 .. GitMaxFaults, begins : 0 .. GitMaxBegins]
    BY DEF Git!Init, Git!Bounds, Git!Shas
  <1> QED BY <1>1, <1>2, <1>3, GitTypesL

(* A step of git hosting keeps its types. *)
LEMMA GitTypeStep ==
  ASSUME Git!Bounds, Git!StateOK, Git!StateOK', Git!TypeOK, Git!Next
  PROVE  Git!TypeOK'
  <1> DEFINE Lefts == [sha : Git!Shas, faults : 0 .. GitMaxFaults, begins : 0 .. GitMaxBegins]
  <1>t. /\ gBundles \subseteq GitRefs \X (1 .. GitMaxSha) /\ gApplied \in Nat \cup {-1}
        /\ gGuard \in Actors \cup {Git!Free} /\ gAck \in [GitRefs -> Git!Shas] /\ gLeft \in Lefts
        /\ gManifest.seq \in Nat
        /\ \A q \in Actors : gReq[q] \in Git!Reqs
    BY DEF Git!TypeOK, Git!StateOK
  <1>f. Git!Fault => gLeft' \in Lefts BY <1>t DEF Git!Fault, Git!Bounds
  <1>n. Git!NoRefs \in [GitRefs -> Git!Shas] BY GitQuietL
  <1>w. ASSUME gBundles' \subseteq GitRefs \X (1 .. GitMaxSha), gApplied' \in Nat \cup {-1},
               gGuard' \in Actors \cup {Git!Free}, gAck' \in [GitRefs -> Git!Shas], gLeft' \in Lefts
        PROVE  Git!TypeOK'
    <2>1. ASSUME NEW q \in Actors
          PROVE  /\ gReq'[q].pc \in Git!Pcs /\ gReq'[q].op \in Git!Writers \cup {"read", "fetch"}
                 /\ gReq'[q].ref \in GitRefs /\ gReq'[q].new \in Git!Shas
                 /\ gReq'[q].existed \in BOOLEAN
                 /\ gReq'[q].man.seq \in Nat
                 /\ \A f \in {gReq'[q].list, gReq'[q].before, gReq'[q].after, gReq'[q].man.refs} :
                        f \in [GitRefs -> Git!Shas]
      <3>1. gReq'[q] \in Git!Reqs BY DEF Git!StateOK
      <3>2. gReq'[q].existed \in BOOLEAN BY <3>1 DEF Git!Reqs
      <3> QED BY <3>1, <3>2, GitFieldsL
    <2>2. /\ gMirror' \in [head : BOOLEAN, refs : [GitRefs -> Git!Shas]]
          /\ gManifest' \in [seq : Nat, refs : [GitRefs -> Git!Shas]]
      BY DEF Git!StateOK, Git!Manifests
    <2> QED BY <1>w, <2>1, <2>2 DEF Git!TypeOK
  <1>1. ASSUME NEW q \in Actors, Git!RequestStep(q) PROVE gLeft' \in Lefts
    <2>1. CASE Git!BeginWrite(q)
      <3>1. PICK delete \in BOOLEAN :
               /\ ~delete => gLeft.sha > 0
               /\ gLeft' = [gLeft EXCEPT !.begins = @ - 1, !.sha = IF delete THEN gLeft.sha ELSE gLeft.sha - 1]
        BY <2>1 DEF Git!BeginWrite
      <3>2. gLeft.begins > 0 BY <2>1 DEF Git!BeginWrite
      <3>3. gLeft.begins - 1 \in 0 .. GitMaxBegins /\ gLeft.sha \in Git!Shas
        BY <1>t, <3>2 DEF Git!Bounds
      <3>4. (IF delete THEN gLeft.sha ELSE gLeft.sha - 1) \in Git!Shas
        BY <3>1, <3>3 DEF Git!Shas, Git!Bounds
      <3> QED BY <1>t, <3>1, <3>3, <3>4
    <2>2. CASE Git!BeginRead(q)
      <3>1. gLeft' = [gLeft EXCEPT !.begins = @ - 1] /\ gLeft.begins > 0
        BY <2>2 DEF Git!BeginRead
      <3> QED BY <1>t, <3>1 DEF Git!Bounds
    <2>3. CASE ~Git!BeginWrite(q) /\ ~Git!BeginRead(q)
      <3>1. gLeft' = gLeft \/ Git!Fault
        BY <1>1, <2>3
           DEF Git!RequestStep, Git!TakeGuard, Git!EnsureBare, Git!HydrateList, Git!HydrateRef,
               Git!ColdRead, 
           Git!ColdSync, Git!CheckUnlocked, Git!Recheck, Git!SyncGuarded, Git!MoveRef, Git!CasUpdate, Git!Upload,
           Git!BuildManifest, Git!Flip, Git!Prune
      <3> QED BY <3>1, <1>f, <1>t
    <2> QED BY <2>1, <2>2, <2>3
  <1>2. ASSUME NEW q \in Actors, Git!RequestStep(q) PROVE gGuard' \in Actors \cup {Git!Free}
    <2>1. gGuard' \in {gGuard, q, Git!Free}
      BY <1>2
         DEF Git!RequestStep, Git!BeginWrite, Git!BeginRead, Git!TakeGuard, Git!EnsureBare,
             Git!HydrateList, Git!HydrateRef, 
         Git!ColdRead, Git!ColdSync, Git!CheckUnlocked, Git!Recheck, Git!SyncGuarded, Git!MoveRef, Git!CasUpdate, Git!Upload,
         Git!BuildManifest, Git!Flip, Git!Prune, Git!Done, Git!Synced, Git!Moved
    <2> QED BY <2>1, <1>t
  <1>3. ASSUME NEW q \in Actors, Git!RequestStep(q) PROVE gApplied' \in Nat \cup {-1}
    <2>1. gApplied' \in {gApplied, 0, gReq[q].man.seq}
      BY <1>3
         DEF Git!RequestStep, Git!BeginWrite, Git!BeginRead, Git!TakeGuard, Git!EnsureBare,
             Git!HydrateList, Git!HydrateRef, 
         Git!ColdRead, Git!ColdSync, Git!CheckUnlocked, Git!Recheck, Git!SyncGuarded, Git!MoveRef, Git!CasUpdate, Git!Upload,
         Git!BuildManifest, Git!Flip, Git!Prune
    <2>2. gReq[q].man.seq \in Nat BY <1>t, GitFieldsL
    <2> QED BY <2>1, <2>2, <1>t
  <1>4. ASSUME NEW q \in Actors, Git!RequestStep(q) PROVE gAck' \in [GitRefs -> Git!Shas]
    <2>1. \/ gAck' = gAck \/ gAck' = [gAck EXCEPT ![gReq[q].ref] = 0]
          \/ gAck' = [r \in GitRefs |-> IF r \in Git!Changed(q) THEN gReq[q].after[r] ELSE gAck[r]]
      BY <1>4
         DEF Git!RequestStep, Git!BeginWrite, Git!BeginRead, Git!TakeGuard, Git!EnsureBare,
             Git!HydrateList, Git!HydrateRef, 
         Git!ColdRead, Git!ColdSync, Git!CheckUnlocked, Git!Recheck, Git!SyncGuarded, Git!MoveRef, Git!CasUpdate, Git!Upload,
         Git!BuildManifest, Git!Flip, Git!Prune, Git!Moved
    <2>2. 0 \in Git!Shas /\ gReq[q].after \in [GitRefs -> Git!Shas]
      BY GitQuietL, <1>t, GitFieldsL
    <2> QED BY <2>1, <2>2, <1>t
  <1>5. ASSUME NEW q \in Actors, Git!RequestStep(q)
        PROVE  gBundles' \subseteq GitRefs \X (1 .. GitMaxSha)
    <2> DEFINE new == {r \in GitRefs : gReq[q].after[r] \notin {0, gManifest.refs[r]}}
    <2>1. \/ gBundles' \subseteq gBundles
          \/ gBundles' = gBundles \cup Git!TipBundles(q, Git!Changed(q))
          \/ gBundles' = gBundles \cup Git!TipBundles(q, new)
      BY <1>5
         DEF Git!RequestStep, Git!BeginWrite, Git!BeginRead, Git!TakeGuard, Git!EnsureBare,
             Git!HydrateList, Git!HydrateRef, 
         Git!ColdRead, Git!ColdSync, Git!CheckUnlocked, Git!Recheck, Git!SyncGuarded, Git!MoveRef, Git!CasUpdate, Git!Upload,
         Git!BuildManifest, Git!Flip, Git!Prune
    <2>2. \A r \in GitRefs : gReq[q].after[r] \in Git!Shas BY <1>t, GitFieldsL
    <2>3. \A r \in GitRefs : gReq[q].after[r] # 0 => gReq[q].after[r] \in 1 .. GitMaxSha
      BY <2>2 DEF Git!Shas, Git!Bounds
    <2>4. Git!TipBundles(q, Git!Changed(q)) \subseteq GitRefs \X (1 .. GitMaxSha)
      BY <2>3 DEF Git!TipBundles, Git!Changed
    <2>5. Git!TipBundles(q, new) \subseteq GitRefs \X (1 .. GitMaxSha)
      BY <2>3 DEF Git!TipBundles
    <2> HIDE DEF new
    <2> QED BY <2>1, <2>4, <2>5, <1>t
  <1>6. CASE Git!Restart
    <2>1. UNCHANGED <<gBundles, gAck>> /\ gApplied' = -1 /\ gGuard' = Git!Free /\ Git!Fault
      BY <1>6 DEF Git!Restart
    <2> QED BY <2>1, <1>t, <1>f, <1>w
  <1>7. CASE Git!Purge
    <2>1. gBundles' = {} /\ gApplied' = -1 /\ gAck' = Git!NoRefs /\ gGuard' = gGuard /\ Git!Fault
      BY <1>7 DEF Git!Purge
    <2> QED BY <2>1, <1>t, <1>f, <1>n, <1>w
  <1>8. ASSUME NEW q \in Actors, Git!RequestStep(q) PROVE Git!TypeOK'
    <2> HIDE DEF Lefts
    <2>1. gLeft' \in Lefts /\ gGuard' \in Actors \cup {Git!Free} /\ gApplied' \in Nat \cup {-1}
          /\ gAck' \in [GitRefs -> Git!Shas] /\ gBundles' \subseteq GitRefs \X (1 .. GitMaxSha)
      BY <1>8, <1>1, <1>2, <1>3, <1>4, <1>5
    <2> QED BY <2>1, <1>w
  <1> QED BY <1>6, <1>7, <1>8 DEF Git!Next

(* A step of the suite is a step of git hosting, or leaves it alone. *)
LEMMA GitNext == [Next]_allVars => [Git!Next]_gitVars
  BY DEF Next, allVars, VoidStep, ScanStep, GitStep, PrsStep, WebStep, ConfStep, MapsStep,
         ImpStep, BootStep, R2Step, D1Step, S3Step

(* What git hosting keeps: a request past the guard holds it, so what it     *)
(* read under it is still what is stored, and the manifest is backed by      *)
(* bundles.                                                                  *)
LEMMA GitInductive == Spec => [](Git!StateOK /\ Git!GuardInv /\ Git!ManifestBundlesExist)
  <1> DEFINE Inv == Git!StateOK /\ Git!GuardInv /\ Git!ManifestBundlesExist
  <1>1. Init => Inv BY GitBounds, GitInitL DEF Init
  <1>2. Inv /\ [Next]_allVars => Inv'
    <2>1. Inv /\ Git!Next => Inv' BY GitBounds, GitSteps
    <2>2. Inv /\ UNCHANGED gitVars => Inv' BY GitStutter
    <2> QED BY <2>1, <2>2, GitNext
  <1> QED BY <1>1, <1>2, PTL DEF Spec

(* For every set of refs and of concurrent requests, and however often the   *)
(* store fails or the runner dies: every bundle the stored manifest names is *)
(* in the store, so a cold mirror can be rebuilt (git_manifest.rs: bundles   *)
(* first, the manifest once, a prune last).                                  *)
THEOREM ManifestsAreBacked == Spec => []Git!ManifestBundlesExist
  BY GitInductive, PTL

(* No sync of a reader takes a stored ref from the mirror. *)
LEMMA GitKeeps == Spec => Git!ReadersKeepRefs
  <1> DEFINE Inv == Git!StateOK /\ Git!GuardInv /\ Git!ManifestBundlesExist
  <1>1. Inv /\ [Next]_allVars => [Git!KeepsRefs]_gitVars
    <2>1. Inv /\ Git!Next => Git!KeepsRefs BY GitBounds, GitSteps
    <2> QED BY <2>1, GitNext
  <1> QED BY <1>1, GitInductive, PTL DEF Spec, Git!ReadersKeepRefs, Git!vars, gitVars

(* Git hosting keeps its types. *)
LEMMA GitTyped == Spec => []Git!TypeOK
  <1> DEFINE Ok == Git!StateOK
             Inv == Git!TypeOK
  <1>1. Init => Inv BY GitBounds, GitTypeInit DEF Init
  <1>2. Ok /\ Ok' /\ Inv /\ [Next]_allVars => Inv'
    <2>1. Ok /\ Ok' /\ Inv /\ Git!Next => Inv' BY GitBounds, GitTypeStep
    <2>2. Inv /\ UNCHANGED gitVars => Inv' BY DEF Git!TypeOK, gitVars
    <2> QED BY <2>1, <2>2, GitNext
  <1> QED BY <1>1, <1>2, GitInductive, PTL DEF Spec


-----------------------------------------------------------------------------
(* Source maps (SourceMaps). *)
(* Both names of Cardinality mean the same. *)
LEMMA MapsCardL == \A S : Maps!Cardinality(S) = Cardinality(S)
  BY DEF Maps!Cardinality, Cardinality

(* A manifest is never the mark of a missing one; the empty values have their types. *)
LEMMA MapsBasicL == /\ "absent" \notin Maps!Maps /\ \A m \in SUBSET Maps!Maps : m # Maps!NoManifest /\ m \in Maps!Values
                    /\ Maps!NoManifest \in Maps!Values /\ Maps!Empty \in Maps!Stored
                    /\ Maps!NoDep \notin Maps!Deps /\ Maps!NoDep.at = "none"
  <1>1. "absent" \notin Maps!Maps BY DEF Maps!Maps
  <1>2. \A m \in SUBSET Maps!Maps : m # Maps!NoManifest /\ m \in Maps!Values
    BY <1>1 DEF Maps!NoManifest, Maps!Values
  <1>3. Maps!NoManifest \in Maps!Values BY DEF Maps!Values
  <1>4. Maps!Empty \in Maps!Stored BY <1>3 DEF Maps!Empty, Maps!Stored
  <1>5. Maps!NoDep.at = "none" BY DEF Maps!NoDep
  <1>6. \A d \in Maps!Deps : d.at # "none" BY DEF Maps!Deps
  <1> QED BY <1>1, <1>2, <1>3, <1>4, <1>5, <1>6

(* The last row with another status is still a row. *)
LEMMA MapsRowL ==
  ASSUME NEW rows \in Seq(Maps!RowSet), Len(rows) > 0,
         NEW st \in {"deploying", "success", "failed"}
  PROVE /\ [rows EXCEPT ![Len(rows)] = [@ EXCEPT !.status = st]] \in Seq(Maps!RowSet)
        /\ Len([rows EXCEPT ![Len(rows)] = [@ EXCEPT !.status = st]]) = Len(rows)
  <1> DEFINE n == Len(rows)
             r == [rows[n] EXCEPT !.status = st]
  <1>1. n \in 1 .. Len(rows) /\ rows[n] \in Maps!RowSet OBVIOUS
  <1>2. r \in Maps!RowSet BY <1>1 DEF Maps!RowSet
  <1> HIDE DEF r
  <1>3. [rows EXCEPT ![n] = r] \in Seq(Maps!RowSet) /\ Len([rows EXCEPT ![n] = r]) = Len(rows)
    BY <1>1, <1>2
  <1> QED BY <1>3 DEF r

(* The commits newer than a row are finitely many. *)
LEMMA MapsNewerL ==
  ASSUME NEW rows \in Seq(Maps!RowSet), NEW i \in DOMAIN rows
  PROVE  IsFiniteSet(Maps!Newer(rows, i))
  <1> DEFINE D == {k \in Maps!Succeeded(rows) : k > i}
             T == {rows[j].sha : j \in D}
             f == [j \in D |-> rows[j].sha]
  <1>1. Maps!Succeeded(rows) \subseteq 1 .. Len(rows) /\ Len(rows) \in Nat BY DEF Maps!Succeeded
  <1>2. IsFiniteSet(1 .. Len(rows)) BY <1>1, FS_Interval
  <1>3. IsFiniteSet(D) BY <1>1, <1>2, FS_Subset
  <1>4. f \in Surjection(D, T) BY DEF Surjection
  <1>5. IsFiniteSet(T) BY <1>3, <1>4, FS_Surjection
  <1> QED BY <1>5 DEF Maps!Newer

(* What keep_shas keeps holds the newest commits, whatever is deploying. *)
LEMMA MapsRecentL ==
  ASSUME Maps!Bounds, NEW rows \in Seq(Maps!RowSet), NEW cur
  PROVE  Maps!Recent(rows) \subseteq Maps!Keep(rows, cur)
  <1> SUFFICES ASSUME NEW s \in Maps!Recent(rows), s # cur PROVE s \in Maps!Keep(rows, cur) BY DEF Maps!Keep
  <1>1. PICK i \in Maps!Succeeded(rows) : s = rows[i].sha /\ Cardinality({rows[i].sha} \cup Maps!Newer(rows, i)) <= MapsKeepShas
    BY MapsCardL DEF Maps!Recent
  <1> DEFINE J == {k \in Maps!Succeeded(rows) : rows[k].sha = s}
             T == {s} \cup Maps!Newer(rows, i)
  <1>2. Maps!Succeeded(rows) \subseteq 1 .. Len(rows) /\ Len(rows) \in Nat /\
        DOMAIN rows = 1 .. Len(rows)
    BY DEF Maps!Succeeded
  <1>3. J \in SUBSET (0 .. Len(rows)) /\ i \in J BY <1>1, <1>2
  <1>4. PICK j \in J : \A k \in J : k <= j BY <1>2, <1>3, NatMax
  <1>5. i <= j /\ j \in Maps!Succeeded(rows) /\ rows[j].sha = s BY <1>3, <1>4
  <1> DEFINE N == Maps!Newer(rows, j)
  <1>6. s \notin N BY <1>2, <1>4, <1>5 DEF Maps!Newer
  <1>7. N \subseteq Maps!Newer(rows, i) BY <1>1, <1>2, <1>5 DEF Maps!Newer
  <1>8. IsFiniteSet(Maps!Newer(rows, i)) BY <1>1, <1>2, MapsNewerL
  <1>9. IsFiniteSet(T) /\ Cardinality(T) \in Nat BY <1>8, FS_AddElement, FS_CardinalityType
  <1>10. IsFiniteSet(T \ {s}) /\ Cardinality(T \ {s}) = Cardinality(T) - 1
    BY <1>9, FS_RemoveElement
  <1>11. N \in SUBSET (T \ {s}) BY <1>6, <1>7
  <1>12. IsFiniteSet(N) /\ Cardinality(N) <= Cardinality(T \ {s}) /\ Cardinality(N) \in Nat
    BY <1>10, <1>11, FS_Subset, FS_CardinalityType
  <1>13. Cardinality({cur} \cup N) \in Nat /\ Cardinality({cur} \cup N) <= Cardinality(N) + 1
    <2> DEFINE A == N \cup {cur}
               C == {cur} \cup N
    <2>1. A = C OBVIOUS
    <2>2. Cardinality(A) = Cardinality(N) \/ Cardinality(A) = Cardinality(N) + 1
      BY <1>12, FS_AddElement
    <2> HIDE DEF N, A
    <2>3. Cardinality(A) \in Nat /\ Cardinality(A) <= Cardinality(N) + 1 BY <1>12, <2>2
    <2> HIDE DEF C
    <2>4. Cardinality(C) \in Nat /\ Cardinality(C) <= Cardinality(N) + 1 BY <2>1, <2>3
    <2> QED BY <2>4 DEF C
  <1>14. Cardinality({cur} \cup N) <= MapsKeepShas
    <2>1. Cardinality(T) <= MapsKeepShas BY <1>1
    <2> HIDE DEF N, T
    <2> QED BY <1>9, <1>10, <1>12, <1>13, <2>1 DEF Maps!Bounds
  <1> QED BY <1>5, <1>14, MapsCardL DEF Maps!Keep

(* Initially no deploy is under way and nothing is to be removed. *)
LEMMA MapsInitL == ASSUME Maps!Bounds, Maps!Init PROVE Maps!StateOK /\ Maps!VictimInv
  <1>1. uDep = Maps!NoDep BY DEF Maps!Init
  <1>2. uRows \in Seq(Maps!RowSet)
    <2>1. uRows = [i \in DOMAIN MapsDeployed |-> [sha |-> MapsDeployed[i], status |-> "success"]]
      BY DEF Maps!Init
    <2>2. \A i \in DOMAIN MapsDeployed : [sha |-> MapsDeployed[i], status |-> "success"] \in Maps!RowSet
      BY DEF Maps!Bounds, Maps!RowSet
    <2>3. DOMAIN MapsDeployed = 1 .. Len(MapsDeployed) /\ Len(MapsDeployed) \in Nat
      BY DEF Maps!Bounds
    <2> HIDE DEF Maps!RowSet
    <2> QED BY <2>1, <2>2, <2>3
  <1>3. uBucket \in [MapsShas -> Maps!Stored]
    <2> DEFINE w == [maps |-> {"worker"}, manifest |-> {"worker"}]
    <2>1. {"worker"} \in SUBSET Maps!Maps BY DEF Maps!Maps
    <2>2. w \in Maps!Stored BY <2>1, MapsBasicL DEF Maps!Stored
    <2>3. uBucket = [s \in MapsShas |-> IF s \in Maps!ToSet(MapsDeployed) THEN w ELSE Maps!Empty]
      BY DEF Maps!Init
    <2> HIDE DEF w
    <2> QED BY <2>2, <2>3, MapsBasicL
  <1> QED BY <1>1, <1>2, <1>3 DEF Maps!StateOK, Maps!VictimInv

(* Every step keeps the invariant and the maps of recent deploys. *)
LEMMA MapsSteps ==
  ASSUME Maps!Bounds, Maps!StateOK, Maps!VictimInv, Maps!Next
  PROVE  Maps!StateOK' /\ Maps!VictimInv' /\ Maps!KeepsRecent
  <1> DEFINE R(rows) == rows \in Seq(Maps!RowSet)
             B(bucket) == bucket \in [MapsShas -> Maps!Stored]
             D(dep) == dep \in Maps!Deps \cup {Maps!NoDep}
             V(rows, dep) == dep # Maps!NoDep => Len(rows) > 0 /\ dep.victims \cap Maps!Keep(rows, dep.sha) = {}
             Inv == Maps!StateOK' /\ Maps!VictimInv'
             Goal == Inv /\ Maps!KeepsRecent
  <1>t. R(uRows) /\ B(uBucket) /\ D(uDep) /\ V(uRows, uDep) BY DEF Maps!StateOK, Maps!VictimInv
  <1>q. ASSUME R(uRows'), B(uBucket'), D(uDep'), V(uRows', uDep')
        PROVE  Inv BY <1>q DEF Maps!StateOK, Maps!VictimInv
  <1>m. ASSUME uBucket' = uBucket PROVE Maps!KeepsRecent BY <1>m DEF Maps!KeepsRecent
  <1>n. D(Maps!NoDep) /\ V(uRows', Maps!NoDep) OBVIOUS
  <1>s. ASSUME uDep # Maps!NoDep, Maps!Succeed PROVE R(uRows') /\ D(uDep') /\ V(uRows', uDep')
    <2>1. uRows' = [uRows EXCEPT ![Len(uRows)] = [@ EXCEPT !.status = "success"]] /\ uDep' = Maps!NoDep
      BY <1>s DEF Maps!Succeed
    <2>2. Len(uRows) > 0 /\ uRows \in Seq(Maps!RowSet) BY <1>s, <1>t
    <2>3. R(uRows') BY <2>1, <2>2, MapsRowL
    <2> QED BY <2>1, <2>3, <1>n
  <1>d. uDep.at \in {"worker", "client", "manifest", "prune", "remove"} => uDep \in Maps!Deps /\ uDep # Maps!NoDep
    BY <1>t, MapsBasicL
  <1>b. \A s \in MapsShas : uBucket[s] \in Maps!Stored BY <1>t
  <1>k. ASSUME NEW s \in MapsShas, NEW b \in Maps!Stored, uBucket' = [uBucket EXCEPT ![s] = b]
        PROVE B(uBucket') /\ uBucket'[s] = b /\ \A x \in MapsShas : x # s => uBucket'[x] = uBucket[x]
    BY <1>k, <1>t
  <1>g. ASSUME NEW s \in MapsShas, NEW b \in Maps!Stored, uBucket' = [uBucket EXCEPT ![s] = b],
               uBucket[s].maps \subseteq b.maps, 
               b.manifest = uBucket[s].manifest \/ b.manifest # Maps!NoManifest
        PROVE Maps!KeepsRecent
    <2>1. uBucket'[s] = b /\ \A x \in MapsShas : x # s => uBucket'[x] = uBucket[x] BY <1>g, <1>k
    <2> QED BY <1>g, <2>1 DEF Maps!KeepsRecent
  <1>v. ASSUME NEW d \in Maps!Deps, uDep \in Maps!Deps, uDep' = d, uRows' = uRows,
               d.sha = uDep.sha, d.victims \subseteq uDep.victims
        PROVE D(uDep') /\ V(uRows', uDep')
    BY <1>v, <1>t, MapsBasicL
  <1> HIDE DEF R, B, D, V, Inv
  <1>1. ASSUME NEW s \in MapsShas, Maps!Begin(s) PROVE Goal
    <2>1. PICK has \in BOOLEAN : uDep' = [at |-> IF has THEN "worker" ELSE "client", sha |-> s, manifest |-> {}, victims |-> {}]
      BY <1>1 DEF Maps!Begin
    <2>2. uBucket' = uBucket /\ uRows' = Append(uRows, [sha |-> s, status |-> "deploying"])
      BY <1>1 DEF Maps!Begin
    <2>3. uDep' \in Maps!Deps /\ uDep'.victims = {} BY <2>1 DEF Maps!Deps
    <2>4. uRows \in Seq(Maps!RowSet) /\ [sha |-> s, status |-> "deploying"] \in Maps!RowSet
      BY <1>t DEF R, Maps!RowSet
    <2> DEFINE r == [sha |-> s, status |-> "deploying"]
    <2> HIDE DEF r
    <2>5. uRows' \in Seq(Maps!RowSet) /\ Len(uRows') > 0
      <3>1. r \in Maps!RowSet /\ uRows' = Append(uRows, r) BY <2>2, <2>4 DEF r
      <3> QED BY <2>4, <3>1
    <2>6. R(uRows') /\ D(uDep') /\ V(uRows', uDep') BY <2>3, <2>5 DEF R, D, V
    <2>7. Inv BY <2>2, <2>6, <1>t, <1>q
    <2> QED BY <2>2, <2>7, <1>m
  <1>2. ASSUME UNCHANGED <<uRows, uBucket, uDep>> PROVE Goal
    <2>1. Inv BY <1>2, <1>t, <1>q
    <2> QED BY <1>2, <2>1, <1>m
  <1>3. ASSUME Maps!Fails PROVE Goal
    <2>1. /\ uDep # Maps!NoDep /\ uBucket' = uBucket /\ uDep' = Maps!NoDep
          /\ uRows' = [uRows EXCEPT ![Len(uRows)] = [@ EXCEPT !.status = "failed"]]
      BY <1>3 DEF Maps!Fails
    <2>2. Len(uRows) > 0 /\ uRows \in Seq(Maps!RowSet) BY <2>1, <1>t DEF V, R
    <2>3. R(uRows') BY <2>1, <2>2, MapsRowL DEF R
    <2>4. Inv BY <2>1, <2>3, <1>n, <1>t, <1>q
    <2> QED BY <2>1, <2>4, <1>m
  <1>p. ASSUME NEW map \in Maps!Maps, NEW next \in {"client", "manifest"}, Maps!Put(map, next),
               uDep \in Maps!Deps, uRows' = uRows
        PROVE  Goal
    <2> DEFINE ms == uBucket[uDep.sha].maps \cup {map}
               b == [uBucket[uDep.sha] EXCEPT !.maps = ms]
               man == uDep.manifest \cup {map}
               d == [uDep EXCEPT !.at = next, !.manifest = man]
    <2>1. uBucket' = [uBucket EXCEPT ![uDep.sha] = b] /\ uDep' = d BY <1>p DEF Maps!Put
    <2>2. uDep.sha \in MapsShas /\ man \in SUBSET Maps!Maps BY <1>p DEF Maps!Deps
    <2>3. uBucket[uDep.sha] \in Maps!Stored BY <2>2, <1>b
    <2>4. ms \in SUBSET Maps!Maps /\ uBucket[uDep.sha].maps \subseteq ms BY <2>3 DEF Maps!Stored
    <2> HIDE DEF ms, man
    <2>5. b \in Maps!Stored /\ b.maps = ms /\ b.manifest = uBucket[uDep.sha].manifest
      BY <2>3, <2>4 DEF Maps!Stored
    <2>6. d \in Maps!Deps /\ d.sha = uDep.sha /\ d.victims = uDep.victims
      BY <1>p, <2>2 DEF Maps!Deps
    <2> HIDE DEF b, d
    <2>7. B(uBucket') BY <2>1, <2>2, <2>5, <1>k
    <2>8. Maps!KeepsRecent BY <2>1, <2>2, <2>4, <2>5, <1>g
    <2>9. D(uDep') /\ V(uRows', uDep') BY <1>p, <2>1, <2>6, <1>v
    <2>10. Inv BY <1>p, <2>7, <2>9, <1>t, <1>q
    <2> QED BY <2>8, <2>10
  <1>e. ASSUME uDep \in Maps!Deps, uDep # Maps!NoDep, Maps!Succeed, UNCHANGED uBucket PROVE Goal
    <2>1. R(uRows') /\ D(uDep') /\ V(uRows', uDep') BY <1>e, <1>s
    <2>2. Inv BY <1>e, <2>1, <1>t, <1>q
    <2> QED BY <1>e, <2>2, <1>m
  <1>4. ASSUME Maps!PutWorker PROVE Goal
    <2>1. uDep \in Maps!Deps /\ uDep # Maps!NoDep /\ "worker" \in Maps!Maps
      BY <1>4, <1>d DEF Maps!PutWorker, Maps!Maps
    <2>2. CASE Maps!Put("worker", "client") /\ UNCHANGED <<uRows, uLeft>> BY <2>1, <2>2, <1>p
    <2>3. CASE Maps!Succeed /\ UNCHANGED uBucket BY <2>1, <2>3, <1>e
    <2> QED BY <1>4, <2>2, <2>3 DEF Maps!PutWorker
  <1>5. ASSUME Maps!PutClient PROVE Goal
    <2>1. uDep \in Maps!Deps /\ uDep # Maps!NoDep /\ "client" \in Maps!Maps /\ uRows' = uRows
      BY <1>5, <1>d DEF Maps!PutClient, Maps!Maps
    <2>2. CASE Maps!Put("client", "manifest") BY <2>1, <2>2, <1>p
    <2>3. CASE uDep' = [uDep EXCEPT !.at = "manifest"] /\ UNCHANGED uBucket
      <3> DEFINE d == [uDep EXCEPT !.at = "manifest"]
      <3>1. d \in Maps!Deps /\ d.sha = uDep.sha /\ d.victims = uDep.victims
        BY <2>1 DEF Maps!Deps
      <3>2. uDep' = d BY <2>3
      <3> HIDE DEF d
      <3>3. D(uDep') /\ V(uRows', uDep') BY <2>1, <3>1, <3>2, <1>v
      <3>4. Inv BY <2>1, <2>3, <3>3, <1>t, <1>q
      <3> QED BY <2>3, <3>4, <1>m
    <2> QED BY <1>5, <2>2, <2>3 DEF Maps!PutClient
  <1>6. ASSUME Maps!PutManifest PROVE Goal
    <2>1. uDep \in Maps!Deps /\ uDep # Maps!NoDep BY <1>6, <1>d DEF Maps!PutManifest
    <2>2. CASE /\ uBucket' = [uBucket EXCEPT ![uDep.sha] = [@ EXCEPT !.manifest = uDep.manifest]]
               /\ uDep' = [uDep EXCEPT !.at = "prune"] /\ UNCHANGED uRows
      <3> DEFINE b == [uBucket[uDep.sha] EXCEPT !.manifest = uDep.manifest]
                 d == [uDep EXCEPT !.at = "prune"]
      <3>1. uBucket' = [uBucket EXCEPT ![uDep.sha] = b] /\ uDep' = d BY <2>2
      <3>2. uDep.sha \in MapsShas /\ uDep.manifest \in SUBSET Maps!Maps BY <2>1 DEF Maps!Deps
      <3>3. uBucket[uDep.sha] \in Maps!Stored BY <3>2, <1>b
      <3>4. uDep.manifest # Maps!NoManifest /\ uDep.manifest \in Maps!Values BY <3>2, MapsBasicL
      <3>5. b \in Maps!Stored /\ b.maps = uBucket[uDep.sha].maps /\ b.manifest = uDep.manifest
        BY <3>3, <3>4 DEF Maps!Stored
      <3>6. d \in Maps!Deps /\ d.sha = uDep.sha /\ d.victims = uDep.victims
        BY <2>1 DEF Maps!Deps
      <3> HIDE DEF b, d
      <3>7. B(uBucket') BY <3>1, <3>2, <3>5, <1>k
      <3>8. Maps!KeepsRecent BY <3>1, <3>2, <3>4, <3>5, <1>g
      <3>9. D(uDep') /\ V(uRows', uDep') BY <2>1, <2>2, <3>1, <3>6, <1>v
      <3>10. Inv BY <2>2, <3>7, <3>9, <1>t, <1>q
      <3> QED BY <3>8, <3>10
    <2>3. CASE Maps!Succeed /\ UNCHANGED uBucket BY <2>1, <2>3, <1>e
    <2> QED BY <1>6, <2>2, <2>3 DEF Maps!PutManifest
  <1>7. ASSUME Maps!PruneList PROVE Goal
    <2>1. uDep \in Maps!Deps /\ uDep # Maps!NoDep /\ uBucket' = uBucket
      BY <1>7, <1>d DEF Maps!PruneList
    <2>2. CASE uDep' = [uDep EXCEPT !.at = "remove", !.victims = Maps!Listed \ Maps!Keep(uRows, uDep.sha)] /\ UNCHANGED uRows
      <3> DEFINE v == Maps!Listed \ Maps!Keep(uRows, uDep.sha)
                 d == [uDep EXCEPT !.at = "remove", !.victims = v]
      <3>1. uDep' = d BY <2>2
      <3>2. v \in SUBSET MapsShas /\ v \cap Maps!Keep(uRows, uDep.sha) = {} BY DEF Maps!Listed
      <3> HIDE DEF v
      <3>3. d \in Maps!Deps /\ d.sha = uDep.sha /\ d.victims = v BY <2>1, <3>2 DEF Maps!Deps
      <3> HIDE DEF d
      <3>4. Len(uRows) > 0 BY <2>1, <1>t DEF V
      <3>5. D(uDep') /\ V(uRows', uDep') BY <2>2, <3>1, <3>2, <3>3, <3>4 DEF D, V
      <3>6. Inv BY <2>1, <2>2, <3>5, <1>t, <1>q
      <3> QED BY <2>1, <3>6, <1>m
    <2>3. CASE Maps!Succeed BY <2>1, <2>3, <1>e
    <2> QED BY <1>7, <2>2, <2>3 DEF Maps!PruneList
  <1>8. ASSUME Maps!PruneOne PROVE Goal
    <2>1. uDep \in Maps!Deps /\ uDep # Maps!NoDep /\ uRows' = uRows
      BY <1>8, <1>d DEF Maps!PruneOne
    <2>2. PICK s \in uDep.victims :
              /\ uDep' = [uDep EXCEPT !.victims = @ \ {s}]
              /\ \/ uBucket' = [uBucket EXCEPT ![s] = Maps!Empty] /\ UNCHANGED uLeft
                 \/ /\ Maps!Faulty /\ Maps!Fault
                    /\ \E rest \in SUBSET uBucket[s].maps : uBucket' = [uBucket EXCEPT ![s] = [@ EXCEPT !.maps = rest]]
      BY <1>8 DEF Maps!PruneOne
    <2> DEFINE v == uDep.victims \ {s}
               d == [uDep EXCEPT !.victims = v]
    <2>3. uDep' = d BY <2>2
    <2>4. v \in SUBSET MapsShas /\ v \subseteq uDep.victims /\ s \in MapsShas
      BY <2>1 DEF Maps!Deps
    <2> HIDE DEF v
    <2>5. d \in Maps!Deps /\ d.sha = uDep.sha /\ d.victims = v BY <2>1, <2>4 DEF Maps!Deps
    <2> HIDE DEF d
    <2>6. D(uDep') /\ V(uRows', uDep') BY <2>1, <2>3, <2>4, <2>5, <1>v
    <2>7. PICK b \in Maps!Stored : uBucket' = [uBucket EXCEPT ![s] = b]
      <3>1. uBucket[s] \in Maps!Stored BY <2>4, <1>b
      <3>2. ASSUME NEW rest \in SUBSET uBucket[s].maps
            PROVE  [uBucket[s] EXCEPT !.maps = rest] \in Maps!Stored BY <3>1 DEF Maps!Stored
      <3>3. CASE uBucket' = [uBucket EXCEPT ![s] = Maps!Empty] BY <3>3, MapsBasicL
      <3>4. ASSUME NEW rest \in SUBSET uBucket[s].maps,
                   uBucket' = [uBucket EXCEPT ![s] = [@ EXCEPT !.maps = rest]]
            PROVE \E b \in Maps!Stored : uBucket' = [uBucket EXCEPT ![s] = b]
        <4>1. uBucket' = [uBucket EXCEPT ![s] = [uBucket[s] EXCEPT !.maps = rest]] BY <3>4
        <4> QED BY <4>1, <3>2
      <3> QED BY <2>2, <3>3, <3>4
    <2>8. B(uBucket') /\ \A x \in MapsShas : x # s => uBucket'[x] = uBucket[x]
      BY <2>4, <2>7, <1>k
    <2>9. Inv BY <2>1, <2>6, <2>8, <1>t, <1>q
    <2>10. s \notin Maps!Keep(uRows, uDep.sha) BY <2>1, <1>t DEF V
    <2>11. s # uDep.sha BY <2>10 DEF Maps!Keep
    <2>12. s \notin Maps!Recent(uRows)
      <3>1. uRows \in Seq(Maps!RowSet) BY <1>t DEF R
      <3> QED BY <2>10, <3>1, MapsRecentL
    <2>13. Maps!KeepsRecent BY <2>8, <2>11, <2>12 DEF Maps!KeepsRecent
    <2> QED BY <2>9, <2>13
  <1>9. ASSUME Maps!Finish PROVE Goal
    <2>1. uDep \in Maps!Deps /\ uDep # Maps!NoDep /\ uBucket' = uBucket /\ Maps!Succeed
      BY <1>9, <1>d DEF Maps!Finish
    <2> QED BY <2>1, <1>e
  <1>10. ASSUME Maps!Crash PROVE Goal
    <2>1. uBucket' = uBucket /\ uDep' = Maps!NoDep BY <1>10 DEF Maps!Crash
    <2>2. R(uRows')
      <3>1. CASE uDep = Maps!NoDep
        <4>1. uRows' = uRows BY <1>10, <3>1 DEF Maps!Crash
        <4> QED BY <4>1, <1>t
      <3>2. CASE uDep # Maps!NoDep
        <4>1. uRows' = [uRows EXCEPT ![Len(uRows)] = [@ EXCEPT !.status = "failed"]]
          BY <1>10, <3>2 DEF Maps!Crash
        <4>2. Len(uRows) > 0 /\ uRows \in Seq(Maps!RowSet) BY <3>2, <1>t DEF V, R
        <4> QED BY <4>1, <4>2, MapsRowL DEF R
      <3> QED BY <3>1, <3>2
    <2>3. Inv BY <2>1, <2>2, <1>n, <1>t, <1>q
    <2> QED BY <2>1, <2>3, <1>m
  <1>11. ASSUME Maps!Tick \/ \E r \in Actors : (\E s \in MapsShas : Maps!ReadManifest(r, s)) \/ Maps!ReadMap(r) \/ Maps!Fetch(r) \/ Maps!FetchFails(r) \/ Maps!InsertFetched(r)
         PROVE Goal
    <2>1. UNCHANGED <<uRows, uBucket, uDep>>
      BY <1>11
         DEF Maps!Tick, Maps!ReadManifest, Maps!ReadMap, Maps!Fetch, Maps!FetchFails,
             Maps!InsertFetched
    <2> QED BY <2>1, <1>2
  <1>12. Goal BY <1>1, <1>3, <1>4, <1>5, <1>6, <1>7, <1>8, <1>9, <1>10, <1>11 DEF Maps!Next
  <1> QED BY <1>12 DEF Inv

(* A step that leaves the source maps alone keeps the invariant. *)
LEMMA MapsStutter ==
  ASSUME Maps!StateOK, Maps!VictimInv, UNCHANGED mapsVars
  PROVE  Maps!StateOK' /\ Maps!VictimInv'
  BY DEF Maps!StateOK, Maps!VictimInv, mapsVars

(* The loop of retain has a value after every slot. *)
LEMMA MapsKeptL == ASSUME NEW s \in Seq(Maps!Keys), NEW k \in Maps!Keys
  PROVE \E f : DOMAIN f = 0 .. Len(s)
               /\ \A n \in 0 .. Len(s) : f[n] = IF n = 0 THEN << >> ELSE IF s[n] = k THEN f[n - 1] ELSE Append(f[n - 1], s[n])
  <1> DEFINE N == Len(s)
             E(f, n) == IF n = 0 THEN << >> ELSE IF s[n] = k THEN f[n - 1] ELSE Append(f[n - 1], s[n])
             P(m) == \E f : DOMAIN f = 0 .. m /\ \A n \in 0 .. m : f[n] = E(f, n)
             Bad == {m \in 0 .. N : ~P(m)}
  <1>1. N \in Nat OBVIOUS
  <1>2. P(0)
    <2> DEFINE f == [n \in 0 .. 0 |-> << >>]
    <2>1. DOMAIN f = 0 .. 0 /\ \A n \in 0 .. 0 : f[n] = E(f, n) OBVIOUS
    <2> QED BY <2>1
  <1> HIDE DEF P
  <1>3. Bad = {}
    <2> SUFFICES ASSUME Bad # {} PROVE FALSE OBVIOUS
    <2>1. Bad \in SUBSET Nat BY <1>1
    <2>2. PICK m \in Bad : \A w \in Bad : m <= w BY <2>1, NatMin
    <2>a. m # 0 /\ m \in 0 .. N BY <1>2, <2>2
    <2>3. m \in 1 .. N BY <1>1, <2>a
    <2>4. m - 1 \in 0 .. N /\ ~(m <= m - 1) BY <2>3, <1>1
    <2>5. P(m - 1) BY <2>2, <2>4
    <2>6. PICK g : DOMAIN g = 0 .. m - 1 /\ \A n \in 0 .. m - 1 : g[n] = E(g, n) BY <2>5 DEF P
    <2> DEFINE f == [n \in 0 .. m |-> IF n = m THEN E(g, m) ELSE g[n]]
    <2>7. ASSUME NEW n \in 0 .. m PROVE f[n] = E(f, n)
      <3>1. CASE n = 0 BY <3>1, <2>3, <2>6
      <3>2. CASE n \in 1 .. m - 1
        <4>1. n \in 0 .. m - 1 /\ n # m /\ n - 1 \in 0 .. m /\ n - 1 # m /\ n # 0 BY <3>2, <2>3
        <4>2. f[n] = g[n] /\ f[n - 1] = g[n - 1] BY <4>1
        <4>3. g[n] = E(g, n) BY <4>1, <2>6
        <4> QED BY <4>1, <4>2, <4>3
      <3>3. CASE n = m
        <4>1. n # 0 /\ n - 1 \in 0 .. m /\ n - 1 # m BY <3>3, <2>3
        <4>2. f[n] = E(g, m) /\ f[n - 1] = g[m - 1] BY <3>3, <4>1
        <4> QED BY <3>3, <4>1, <4>2
      <3> QED BY <3>1, <3>2, <3>3, <2>3
    <2>8. DOMAIN f = 0 .. m OBVIOUS
    <2> HIDE DEF f
    <2>9. P(m) BY <2>7, <2>8 DEF P
    <2> QED BY <2>2, <2>9
  <1>4. P(N) BY <1>1, <1>3
  <1> QED BY <1>4 DEF P

(* What retain leaves: the slots of the other keys, each of them once. *)
LEMMA MapsRetainL ==
  ASSUME NEW s \in Seq(Maps!Keys), NEW k \in Maps!Keys, \A i,
         j \in DOMAIN s : s[i] = s[j] => i = j, NEW t, t = Maps!Retained(s, k)
  PROVE /\ t \in Seq(Maps!Keys)
        /\ \A i, j \in DOMAIN t : t[i] = t[j] => i = j
        /\ Maps!ToSet(t) = Maps!ToSet(s) \ {k}
  <1> DEFINE N == Len(s)
             E(f, n) == IF n = 0 THEN << >> ELSE IF s[n] = k THEN f[n - 1] ELSE Append(f[n - 1], s[n])
             kept == CHOOSE f : f = [n \in 0 .. N |-> E(f, n)]
  <1>1. t = kept[N] BY DEF Maps!Retained
  <1>0. \E f : f = [n \in 0 .. N |-> E(f, n)]
    <2>0. N \in Nat OBVIOUS
    <2>1. PICK f : DOMAIN f = 0 .. N /\ \A n \in 0 .. N : f[n] = E(f, n) BY MapsKeptL
    <2>2. PICK g : g = [n \in 0 .. N |-> f[n]] OBVIOUS
    <2>3. DOMAIN g = 0 .. N /\ \A n \in 0 .. N : g[n] = f[n] BY <2>2
    <2>4. ASSUME NEW n \in 0 .. N PROVE f[n] = E(g, n)
      <3>1. n # 0 => n - 1 \in 0 .. N BY <2>0
      <3>2. E(f, n) = E(g, n) BY <3>1, <2>3
      <3> QED BY <3>2, <2>1
    <2> HIDE DEF E, N
    <2>5. g = [n \in 0 .. N |-> E(g, n)] BY <2>2, <2>4
    <2> QED BY <2>5
  <1>2. kept = [n \in 0 .. N |-> E(kept, n)] BY <1>0, Zenon
  <1> HIDE DEF kept
  <1>3. N \in Nat /\ DOMAIN s = 1 .. N OBVIOUS
  <1>4. \A n \in 0 .. N : kept[n] = E(kept, n) BY <1>2
  <1> DEFINE Good(n) == /\ kept[n] \in Seq(Maps!Keys)
                        /\ \A i, j \in 1 .. Len(kept[n]) : kept[n][i] = kept[n][j] => i = j
                        /\ \A x : (\E i \in 1 .. Len(kept[n]) : kept[n][i] = x) <=> (x # k /\ \E i \in 1 .. n : s[i] = x)
             Bad == {n \in 0 .. N : ~Good(n)}
  <1>5. Good(0)
    <2>1. kept[0] = << >> BY <1>3, <1>4
    <2> QED BY <2>1
  <1>6. ASSUME NEW n \in 1 .. N, Good(n - 1) PROVE Good(n)
    <2>1. n # 0 /\ n \in 0 .. N /\ n - 1 \in Nat BY <1>3
    <2>2. CASE s[n] = k
      <3>1. kept[n] = kept[n - 1] BY <2>1, <2>2, <1>4
      <3>2. \A x : x # k => ((\E i \in 1 .. n : s[i] = x) <=> (\E i \in 1 .. n - 1 : s[i] = x))
        BY <2>1, <2>2
      <3> QED BY <3>1, <3>2, <1>6
    <2>3. CASE s[n] # k
      <3>1. PICK q : q = kept[n - 1] OBVIOUS
      <3>2. kept[n] = Append(q, s[n]) BY <2>1, <2>3, <1>4, <3>1
      <3>3. q \in Seq(Maps!Keys) /\ s[n] \in Maps!Keys /\ Len(q) \in Nat BY <3>1, <1>6, <1>3
      <3>4. /\ Append(q, s[n]) \in Seq(Maps!Keys) /\ Len(Append(q, s[n])) = Len(q) + 1
            /\ Append(q, s[n])[Len(q) + 1] = s[n] /\ \A i \in 1 .. Len(q) : Append(q, s[n])[i] = q[i]
        BY <3>3
      <3>5. PICK r : r = kept[n] OBVIOUS
      <3>6. r \in Seq(Maps!Keys) /\ Len(r) = Len(q) + 1 /\ r[Len(q) + 1] = s[n] /\ \A i \in 1 .. Len(q) : r[i] = q[i]
        BY <3>2, <3>4, <3>5
      <3>7. \A i, j \in 1 .. Len(q) : q[i] = q[j] => i = j BY <3>1, <1>6
      <3>8. \A x : (\E i \in 1 .. Len(q) : q[i] = x) <=> (x # k /\ \E i \in 1 .. n - 1 : s[i] = x)
        BY <3>1, <1>6
      <3>9. \A i \in 1 .. n - 1 : s[i] # s[n] BY <1>3, <2>1
      <3>10. \A i \in 1 .. Len(q) : q[i] # s[n] BY <3>8, <3>9
      <3>11. \A i \in 1 .. Len(r) : i = Len(q) + 1 \/ i \in 1 .. Len(q) BY <3>3, <3>6
      <3>12. \A i, j \in 1 .. Len(r) : r[i] = r[j] => i = j BY <3>6, <3>7, <3>10, <3>11
      <3>13. ASSUME NEW x
             PROVE  (\E i \in 1 .. Len(r) : r[i] = x) <=> (x # k /\ \E i \in 1 .. n : s[i] = x)
        <4>1. (\E i \in 1 .. Len(r) : r[i] = x) <=> (x = s[n] \/ \E i \in 1 .. Len(q) : q[i] = x)
          <5>1. ASSUME NEW i \in 1 .. Len(r), r[i] = x
                PROVE  x = s[n] \/ \E j \in 1 .. Len(q) : q[j] = x
            BY <5>1, <3>6, <3>11
          <5>2. Len(q) + 1 \in 1 .. Len(r) /\ \A i \in 1 .. Len(q) : i \in 1 .. Len(r)
            BY <3>3, <3>6
          <5>3. x = s[n] => \E i \in 1 .. Len(r) : r[i] = x BY <5>2, <3>6
          <5>4. ASSUME NEW i \in 1 .. Len(q), q[i] = x
                PROVE  \E j \in 1 .. Len(r) : r[j] = x BY <5>2, <5>4, <3>6
          <5> QED BY <5>1, <5>3, <5>4
        <4>2. (\E i \in 1 .. n : s[i] = x) <=> (x = s[n] \/ \E i \in 1 .. n - 1 : s[i] = x)
          BY <2>1
        <4> QED BY <4>1, <4>2, <3>8, <2>3
      <3> QED BY <3>5, <3>6, <3>12, <3>13
    <2> QED BY <2>2, <2>3
  <1> HIDE DEF Good
  <1>7. Bad = {}
    <2> SUFFICES ASSUME Bad # {} PROVE FALSE OBVIOUS
    <2>1. Bad \in SUBSET Nat BY <1>3
    <2>2. PICK m \in Bad : \A w \in Bad : m <= w BY <2>1, NatMin
    <2>a. m # 0 /\ m \in 0 .. N BY <1>5, <2>2
    <2>3. m \in 1 .. N BY <1>3, <2>a
    <2>4. m - 1 \in 0 .. N /\ ~(m <= m - 1) BY <2>3, <1>3
    <2>5. Good(m - 1) BY <2>2, <2>4
    <2> QED BY <2>2, <2>3, <2>5, <1>6
  <1>8. Good(N) BY <1>3, <1>7
  <1>9. /\ t \in Seq(Maps!Keys) /\ DOMAIN t = 1 .. Len(t)
        /\ \A i, j \in 1 .. Len(t) : t[i] = t[j] => i = j
        /\ \A x : (\E i \in 1 .. Len(t) : t[i] = x) <=> (x # k /\ \E i \in 1 .. N : s[i] = x)
    BY <1>1, <1>8 DEF Good
  <1>10. Maps!ToSet(t) = Maps!ToSet(s) \ {k}
    <2>1. \A x : x \in Maps!ToSet(t) <=> \E i \in 1 .. Len(t) : t[i] = x BY <1>9 DEF Maps!ToSet
    <2>2. \A x : x \in Maps!ToSet(s) <=> \E i \in 1 .. N : s[i] = x BY <1>3 DEF Maps!ToSet
    <2>3. ASSUME NEW x
          PROVE  x \in Maps!ToSet(t) <=> x \in Maps!ToSet(s) \ {k} BY <2>1, <2>2, <1>9
    <2> QED BY <2>3
  <1> QED BY <1>9, <1>10

(* Finitely many entries have finitely many bytes. *)
LEMMA MapsUnitsL == ASSUME NEW c, NEW D, IsFiniteSet(D)
  PROVE /\ IsFiniteSet({u \in D \X (1 .. Maps!MaxWeight) : u[2] <= c.entries[u[1]].weight})
        /\ Maps!Weights(c, D) \in Nat
  <1>0. 1 \in Int /\ Maps!MaxWeight \in Int BY DEF Maps!MaxWeight
  <1>1. IsFiniteSet(1 .. Maps!MaxWeight) BY <1>0, FS_Interval
  <1>2. IsFiniteSet(D \X (1 .. Maps!MaxWeight)) BY <1>1, FS_Product
  <1>3. IsFiniteSet({u \in D \X (1 .. Maps!MaxWeight) : u[2] <= c.entries[u[1]].weight})
    BY <1>2, FS_Subset
  <1> QED BY <1>3, FS_CardinalityType, MapsCardL DEF Maps!Weights

(* The bytes of the entries that stay are those of all less those of the ones that go. *)
LEMMA MapsPartL == ASSUME NEW c, NEW D, IsFiniteSet(D), NEW O \in SUBSET D
  PROVE Maps!Weights(c, D \ O) = Maps!Weights(c, D) - Maps!Weights(c, O)
  <1> DEFINE U(S) == {u \in S \X (1 .. Maps!MaxWeight) : u[2] <= c.entries[u[1]].weight}
  <1>1. IsFiniteSet(U(D)) BY MapsUnitsL
  <1>2. U(D) \cap U(O) = U(O) OBVIOUS
  <1>3. U(D) \ U(O) = U(D \ O) OBVIOUS
  <1>4. Maps!Weights(c, D) = Cardinality(U(D)) /\ Maps!Weights(c, O) = Cardinality(U(O)) /\
        Maps!Weights(c, D \ O) = Cardinality(U(D \ O))
    BY MapsCardL DEF Maps!Weights
  <1> HIDE DEF U
  <1>5. Cardinality(U(D) \ U(O)) = Cardinality(U(D)) - Cardinality(U(D) \cap U(O))
    BY <1>1, FS_Difference
  <1> QED BY <1>2, <1>3, <1>4, <1>5

(* The bytes of one entry are its weight. *)
LEMMA MapsOneL ==
  ASSUME NEW c, NEW k, c.entries[k].weight \in 1 .. Maps!MaxWeight
  PROVE  Maps!Weights(c, {k}) = c.entries[k].weight
  <1> DEFINE w == c.entries[k].weight
             U == {u \in {k} \X (1 .. Maps!MaxWeight) : u[2] <= c.entries[u[1]].weight}
  <1>1. w \in Nat /\ w <= 2 /\ Maps!MaxWeight = 2 BY DEF Maps!MaxWeight
  <1>2. U = {k} \X (1 .. w) BY <1>1
  <1>3. Maps!Weights(c, {k}) = Cardinality(U) BY MapsCardL DEF Maps!Weights
  <1> HIDE DEF U, w
  <1>4. IsFiniteSet({k}) /\ Cardinality({k}) = 1 BY FS_Singleton
  <1>5. IsFiniteSet(1 .. w) /\ Cardinality(1 .. w) = w BY <1>1, FS_Interval
  <1>6. Cardinality({k} \X (1 .. w)) = Cardinality({k}) * Cardinality(1 .. w)
    BY <1>4, <1>5, FS_Product
  <1>7. Cardinality(U) = w BY <1>1, <1>2, <1>4, <1>5, <1>6
  <1> QED BY <1>3, <1>7 DEF w

(* The bytes of entries depend on their weights alone. *)
LEMMA MapsSameL ==
  ASSUME NEW c, NEW d, NEW D, \A k \in D : c.entries[k].weight = d.entries[k].weight
  PROVE  Maps!Weights(c, D) = Maps!Weights(d, D)
  <1>1. {u \in D \X (1 .. Maps!MaxWeight) : u[2] <= c.entries[u[1]].weight} = {u \in D \X (1 .. Maps!MaxWeight) : u[2] <= d.entries[u[1]].weight}
    OBVIOUS
  <1> QED BY <1>1 DEF Maps!Weights

(* A sequence names finitely many keys. *)
LEMMA MapsFiniteL == ASSUME NEW s \in Seq(Maps!Keys) PROVE IsFiniteSet(Maps!ToSet(s))
  <1> DEFINE D == 1 .. Len(s)
             T == {s[i] : i \in D}
             f == [i \in D |-> s[i]]
  <1>1. Len(s) \in Nat /\ DOMAIN s = D OBVIOUS
  <1>2. IsFiniteSet(D) BY <1>1, FS_Interval
  <1>3. f \in Surjection(D, T) BY DEF Surjection
  <1>4. IsFiniteSet(T) BY <1>2, <1>3, FS_Surjection
  <1> QED BY <1>1, <1>4 DEF Maps!ToSet

(* The weight of an entry is within its bound. *)
LEMMA MapsWeightL == ASSUME NEW k, NEW v PROVE Maps!Weight(k, v) \in 1 .. Maps!MaxWeight
  BY DEF Maps!Weight, Maps!MaxWeight

(* What is left of a cache when some entries go. *)
LEMMA MapsLessL ==
  ASSUME NEW c, Maps!CacheOK(c), NEW O \in SUBSET DOMAIN c.entries, NEW d,
         d.entries = Maps!Without(c.entries, O)
  PROVE /\ DOMAIN d.entries = DOMAIN c.entries \ O
        /\ \A k \in DOMAIN d.entries : d.entries[k].val \in Maps!Values /\ d.entries[k].weight \in 1 .. Maps!MaxWeight
        /\ Maps!Weights(d, DOMAIN d.entries) = Maps!NotBelowZero(c.bytes - Maps!Weights(c, O))
        /\ c.bytes \in Nat /\ Maps!Weights(d, DOMAIN d.entries) \in Nat
  <1> DEFINE D == DOMAIN c.entries
  <1>1. DOMAIN d.entries = D \ O /\ \A k \in D \ O : d.entries[k] = c.entries[k]
    BY DEF Maps!Without, Maps!Restrict
  <1>2. IsFiniteSet(D)
    <2>1. c.order \in Seq(Maps!Keys) /\ Maps!ToSet(c.order) = D
      BY DEF Maps!CacheOK, Maps!OneSlotEach
    <2> QED BY <2>1, MapsFiniteL
  <1>3. IsFiniteSet(O) /\ IsFiniteSet(D \ O) BY <1>2, FS_Subset
  <1>4. Maps!Weights(c, D \ O) = Maps!Weights(c, D) - Maps!Weights(c, O) BY <1>2, MapsPartL
  <1>5. Maps!Weights(c, D \ O) \in Nat /\ Maps!Weights(c, D) \in Nat /\ Maps!Weights(c, O) \in Nat
    BY <1>2, <1>3, MapsUnitsL
  <1>6. Maps!Weights(d, D \ O) = Maps!Weights(c, D \ O) BY <1>1, MapsSameL
  <1>7. c.bytes = Maps!Weights(c, D) BY DEF Maps!CacheOK, Maps!BytesCounted
  <1>8. Maps!NotBelowZero(c.bytes - Maps!Weights(c, O)) = Maps!Weights(c, D \ O)
    BY <1>4, <1>5, <1>7 DEF Maps!NotBelowZero
  <1>9. \A k \in D : c.entries[k].val \in Maps!Values /\ c.entries[k].weight \in 1 .. Maps!MaxWeight
    BY DEF Maps!CacheOK
  <1> HIDE DEF D
  <1>10. DOMAIN d.entries = D \ O BY <1>1
  <1>11. \A k \in DOMAIN d.entries : d.entries[k].val \in Maps!Values /\ d.entries[k].weight \in 1 .. Maps!MaxWeight
    BY <1>1, <1>9
  <1>12. Maps!Weights(d, DOMAIN d.entries) = Maps!Weights(c, D \ O) BY <1>6, <1>10
  <1> QED BY <1>5, <1>7, <1>8, <1>10, <1>11, <1>12 DEF D

(* forget keeps the accounts of the cache, and the key is gone. *)
LEMMA MapsForgetL == ASSUME NEW c, Maps!CacheOK(c), NEW k, NEW d, d = Maps!Forget(c, k)
  PROVE Maps!CacheOK(d) /\ k \notin DOMAIN d.entries /\ d.bytes <= c.bytes /\ c.bytes \in Nat
  <1>0. c.bytes \in Nat
    <2>1. c.order \in Seq(Maps!Keys) /\ Maps!ToSet(c.order) = DOMAIN c.entries
      BY DEF Maps!CacheOK, Maps!OneSlotEach
    <2> QED BY <2>1, MapsFiniteL, MapsUnitsL DEF Maps!CacheOK, Maps!BytesCounted
  <1>1. CASE k \notin DOMAIN c.entries
    <2>1. d = c BY <1>1 DEF Maps!Forget
    <2> QED BY <2>1, <1>0, <1>1
  <1>2. CASE k \in DOMAIN c.entries
    <2>1. d.bytes = Maps!NotBelowZero(c.bytes - c.entries[k].weight) /\
          d.order = Maps!Retained(c.order, k) /\ d.entries = Maps!Without(c.entries, {k})
      BY <1>2 DEF Maps!Forget
    <2>2. c.order \in Seq(Maps!Keys) /\ Maps!ToSet(c.order) = DOMAIN c.entries /\ \A i, j \in DOMAIN c.order : c.order[i] = c.order[j] => i = j
      BY DEF Maps!CacheOK, Maps!OneSlotEach
    <2>3. k \in Maps!Keys BY <1>2, <2>2 DEF Maps!ToSet
    <2>4. d.order \in Seq(Maps!Keys) /\
          (\A i, j \in DOMAIN d.order : d.order[i] = d.order[j] => i = j) /\
          Maps!ToSet(d.order) = Maps!ToSet(c.order) \ {k}
      BY <2>1, <2>2, <2>3, MapsRetainL
    <2>5. PICK O : O = {k} OBVIOUS
    <2>e. O \in SUBSET DOMAIN c.entries /\ d.entries = Maps!Without(c.entries, O)
      BY <1>2, <2>1, <2>5
    <2>f. /\ DOMAIN d.entries = DOMAIN c.entries \ O
          /\ \A x \in DOMAIN d.entries : d.entries[x].val \in Maps!Values /\ d.entries[x].weight \in 1 .. Maps!MaxWeight
          /\ Maps!Weights(d, DOMAIN d.entries) = Maps!NotBelowZero(c.bytes - Maps!Weights(c, O))
      BY <2>e, MapsLessL, Zenon
    <2>6. /\ DOMAIN d.entries = DOMAIN c.entries \ {k}
          /\ \A x \in DOMAIN d.entries : d.entries[x].val \in Maps!Values /\ d.entries[x].weight \in 1 .. Maps!MaxWeight
          /\ Maps!Weights(d, DOMAIN d.entries) = Maps!NotBelowZero(c.bytes - Maps!Weights(c, {k}))
      BY <2>5, <2>f
    <2>7. c.entries[k].weight \in 1 .. Maps!MaxWeight BY <1>2 DEF Maps!CacheOK
    <2>8. Maps!Weights(c, {k}) = c.entries[k].weight BY <2>7, MapsOneL
    <2>9. Maps!BytesCounted(d) BY <2>1, <2>6, <2>8 DEF Maps!BytesCounted
    <2>10. Maps!OneSlotEach(d) BY <2>2, <2>4, <2>6 DEF Maps!OneSlotEach
    <2>11. Maps!CacheOK(d) BY <2>4, <2>6, <2>9, <2>10 DEF Maps!CacheOK
    <2>12. d.bytes <= c.bytes
      <3>1. c.entries[k].weight \in Nat BY <2>7 DEF Maps!MaxWeight
      <3> QED BY <3>1, <2>1, <1>0 DEF Maps!NotBelowZero
    <2> QED BY <2>6, <2>11, <2>12, <1>0
  <1> QED BY <1>1, <1>2

(* evict_until_fit keeps the accounts of the cache and makes the room it was asked for. *)
LEMMA MapsEvictL ==
  ASSUME Maps!Bounds, NEW c, Maps!CacheOK(c), NEW extra \in 1 .. Maps!MaxWeight, NEW d,
         d = Maps!EvictUntilFit(c, extra)
  PROVE Maps!CacheOK(d) /\ DOMAIN d.entries \subseteq DOMAIN c.entries /\ d.bytes \in Nat /\
        d.bytes + extra <= MapsCap
  <1> DEFINE N == Len(c.order)
             Fits(n) == Maps!BytesAfter(c, n) + extra <= MapsCap \/ n = N
             Found == {n \in 0 .. N : Fits(n)}
             pops == CHOOSE n \in 0 .. N : Fits(n) /\ \A m \in 0 .. n - 1 : ~Fits(m)
  <1>1. c.order \in Seq(Maps!Keys) /\ Maps!ToSet(c.order) = DOMAIN c.entries /\ \A i, j \in DOMAIN c.order : c.order[i] = c.order[j] => i = j
    BY DEF Maps!CacheOK, Maps!OneSlotEach
  <1>2. N \in Nat /\ DOMAIN c.order = 1 .. N BY <1>1
  <1>3. d.bytes = Maps!BytesAfter(c, pops) /\ d.order = SubSeq(c.order, pops + 1, N) /\
        d.entries = Maps!Without(c.entries, Maps!Oldest(c, pops))
    BY DEF Maps!EvictUntilFit
  <1>4. Fits(N) OBVIOUS
  <1> HIDE DEF Fits
  <1>5. \E n \in 0 .. N : Fits(n) /\ \A m \in 0 .. n - 1 : ~Fits(m)
    <2>1. Found \in SUBSET Nat /\ N \in Found BY <1>2, <1>4
    <2>2. PICK n \in Found : \A w \in Found : n <= w BY <2>1, NatMin
    <2>3. n \in 0 .. N /\ Fits(n) BY <2>2
    <2>4. ASSUME NEW m \in 0 .. n - 1 PROVE ~Fits(m)
      <3>1. m \in 0 .. N /\ ~(n <= m) BY <1>2, <2>3
      <3> QED BY <3>1, <2>2
    <2> QED BY <2>3, <2>4
  <1>6. pops \in 0 .. N /\ Fits(pops) BY <1>5
  <1> HIDE DEF pops
  <1>7. PICK p : p = pops OBVIOUS
  <1>8. p \in 0 .. N /\ Fits(p) BY <1>6, <1>7
  <1>9. d.bytes = Maps!BytesAfter(c, p) /\ d.order = SubSeq(c.order, p + 1, N) /\
        d.entries = Maps!Without(c.entries, Maps!Oldest(c, p))
    BY <1>3, <1>7
  <1> DEFINE O == Maps!Oldest(c, p)
  <1>10. O \in SUBSET DOMAIN c.entries
    <2>1. \A i \in 1 .. p : i \in DOMAIN c.order BY <1>2, <1>8
    <2> QED BY <2>1, <1>1 DEF Maps!Oldest, Maps!ToSet
  <1>11. O \cap DOMAIN c.entries = O BY <1>10
  <1>12. d.bytes = Maps!NotBelowZero(c.bytes - Maps!Weights(c, O))
    BY <1>9, <1>11 DEF Maps!BytesAfter
  <1>w. d.entries = Maps!Without(c.entries, O) BY <1>9
  <1>o. \A x : x \in O <=> \E i \in 1 .. p : c.order[i] = x BY DEF Maps!Oldest
  <1> HIDE DEF O
  <1>13. /\ DOMAIN d.entries = DOMAIN c.entries \ O
         /\ \A k \in DOMAIN d.entries : d.entries[k].val \in Maps!Values /\ d.entries[k].weight \in 1 .. Maps!MaxWeight
         /\ Maps!Weights(d, DOMAIN d.entries) = Maps!NotBelowZero(c.bytes - Maps!Weights(c, O))
         /\ Maps!Weights(d, DOMAIN d.entries) \in Nat
    BY <1>w, <1>10, MapsLessL, Zenon
  <1>14. Maps!BytesCounted(d) /\ d.bytes \in Nat BY <1>12, <1>13 DEF Maps!BytesCounted
  <1>15. /\ d.order \in Seq(Maps!Keys) /\ Len(d.order) = N - p /\ DOMAIN d.order = 1 .. N - p
         /\ \A i \in 1 .. N - p : d.order[i] = c.order[p + i]
    BY <1>1, <1>2, <1>8, <1>9
  <1>16. \A i \in 1 .. N - p : p + i \in 1 .. N /\ ~(p + i \in 1 .. p) BY <1>2, <1>8
  <1>17. \A i, j \in DOMAIN d.order : d.order[i] = d.order[j] => i = j
    <2> SUFFICES ASSUME NEW i \in 1 .. N - p, NEW j \in 1 .. N - p, d.order[i] = d.order[j] PROVE i = j BY <1>15
    <2>1. c.order[p + i] = c.order[p + j] /\ p + i \in DOMAIN c.order /\ p + j \in DOMAIN c.order
      BY <1>2, <1>15, <1>16
    <2>2. p + i = p + j BY <2>1, <1>1
    <2> QED BY <2>2, <1>8, <1>2
  <1>18. Maps!ToSet(d.order) = DOMAIN c.entries \ O
    <2>1. ASSUME NEW x \in Maps!ToSet(d.order) PROVE x \in DOMAIN c.entries /\ x \notin O
      <3>1. PICK i \in 1 .. N - p : x = c.order[p + i] BY <1>15 DEF Maps!ToSet
      <3>2. p + i \in DOMAIN c.order BY <1>2, <1>16
      <3>3. x \in DOMAIN c.entries BY <3>1, <3>2, <1>1 DEF Maps!ToSet
      <3>4. ASSUME NEW m \in 1 .. p, c.order[m] = x PROVE FALSE
        <4>1. m \in DOMAIN c.order BY <1>2, <1>8
        <4>2. m = p + i BY <4>1, <3>1, <3>2, <3>4, <1>1
        <4> QED BY <4>2, <1>16
      <3> QED BY <3>3, <3>4, <1>o
    <2>2. ASSUME NEW x \in DOMAIN c.entries, x \notin O PROVE x \in Maps!ToSet(d.order)
      <3>1. PICK m \in 1 .. N : x = c.order[m] BY <1>1, <1>2 DEF Maps!ToSet
      <3>2. ~(m \in 1 .. p) BY <3>1, <2>2, <1>o
      <3>3. m - p \in 1 .. N - p /\ p + (m - p) = m BY <3>2, <1>2, <1>8
      <3>4. d.order[m - p] = x BY <3>1, <3>3, <1>15
      <3> QED BY <3>3, <3>4, <1>15 DEF Maps!ToSet
    <2> QED BY <2>1, <2>2
  <1>19. Maps!CacheOK(d) BY <1>13, <1>14, <1>15, <1>17, <1>18 DEF Maps!CacheOK, Maps!OneSlotEach
  <1>20. d.bytes + extra <= MapsCap
    <2>1. CASE Maps!BytesAfter(c, p) + extra <= MapsCap BY <2>1, <1>9
    <2>2. CASE p = N
      <3>1. Maps!ToSet(d.order) = {} BY <2>2, <1>2, <1>15 DEF Maps!ToSet
      <3>2. DOMAIN d.entries = {} BY <3>1, <1>13, <1>18
      <3>3. Maps!Weights(d, {}) = 0
        <4>1. {u \in {} \X (1 .. Maps!MaxWeight) : u[2] <= d.entries[u[1]].weight} = {} OBVIOUS
        <4> QED BY <4>1, FS_EmptySet, MapsCardL DEF Maps!Weights
      <3>4. d.bytes = 0 BY <3>2, <3>3, <1>14 DEF Maps!BytesCounted
      <3>5. extra <= MapsCap BY DEF Maps!Bounds, Maps!MaxWeight
      <3>6. extra \in Nat BY DEF Maps!MaxWeight
      <3> QED BY <3>4, <3>5, <3>6
    <2> QED BY <2>1, <2>2, <1>8 DEF Fits
  <1> QED BY <1>13, <1>14, <1>19, <1>20

(* An insert keeps the accounts of the cache and stays within its cap. *)
LEMMA MapsInsertL ==
  ASSUME Maps!Bounds, NEW b, Maps!CacheOK(b), NEW k \in Maps!Keys, NEW v \in Maps!Values, NEW d,
         d = Maps!Insert(b, k, v)
  PROVE Maps!CacheOK(d) /\ d.bytes <= MapsCap
  <1> DEFINE w == Maps!Weight(k, v)
  <1>1. w \in 1 .. Maps!MaxWeight /\ w \in Nat BY MapsWeightL DEF Maps!MaxWeight
  <1>2. PICK a : a = Maps!Forget(b, k) OBVIOUS
  <1>3. Maps!CacheOK(a) /\ k \notin DOMAIN a.entries BY <1>2, MapsForgetL
  <1>4. PICK c : c = Maps!EvictUntilFit(a, w) OBVIOUS
  <1> HIDE DEF w
  <1>5. Maps!CacheOK(c) /\ DOMAIN c.entries \subseteq DOMAIN a.entries /\ c.bytes \in Nat /\
        c.bytes + w <= MapsCap
    BY <1>1, <1>3, <1>4, MapsEvictL
  <1>6. k \notin DOMAIN c.entries BY <1>3, <1>5
  <1>7. d = [bytes |-> c.bytes + w, order |-> Append(c.order, k),
             entries |-> [x \in DOMAIN c.entries \cup {k} |-> IF x = k THEN [val |-> v, weight |-> w, since |-> uNow] ELSE c.entries[x]]]
    BY <1>2, <1>4 DEF Maps!Insert, w
  <1>8. d.bytes = c.bytes + w /\ d.order = Append(c.order, k) /\
        DOMAIN d.entries = DOMAIN c.entries \cup {k}
    BY <1>7
  <1>e. d.entries[k].weight = w /\ d.entries[k].val = v /\ \A x \in DOMAIN c.entries : d.entries[x] = c.entries[x]
    BY <1>6, <1>7
  <1>9. c.order \in Seq(Maps!Keys) /\ Maps!ToSet(c.order) = DOMAIN c.entries /\ \A i, j \in DOMAIN c.order : c.order[i] = c.order[j] => i = j
    BY <1>5 DEF Maps!CacheOK, Maps!OneSlotEach
  <1> DEFINE n == Len(c.order)
  <1>10. n \in Nat /\ DOMAIN c.order = 1 .. n BY <1>9
  <1>11. /\ d.order \in Seq(Maps!Keys) /\ DOMAIN d.order = 1 .. n + 1
         /\ d.order[n + 1] = k /\ \A i \in 1 .. n : d.order[i] = c.order[i]
    BY <1>8, <1>9, <1>10
  <1> HIDE DEF n
  <1>12. \A i \in 1 .. n + 1 : i = n + 1 \/ i \in 1 .. n BY <1>10
  <1>13. \A i \in 1 .. n : c.order[i] # k BY <1>6, <1>9, <1>10 DEF Maps!ToSet
  <1>14. \A i, j \in DOMAIN d.order : d.order[i] = d.order[j] => i = j
    BY <1>9, <1>10, <1>11, <1>12, <1>13
  <1>15. Maps!ToSet(d.order) = DOMAIN c.entries \cup {k}
    <2>1. \A x \in Maps!ToSet(d.order) : x = k \/ x \in Maps!ToSet(c.order)
      BY <1>10, <1>11, <1>12 DEF Maps!ToSet
    <2>2. \A i \in 1 .. n : i \in 1 .. n + 1 BY <1>10
    <2>3. n + 1 \in 1 .. n + 1 BY <1>10
    <2>4. k \in Maps!ToSet(d.order) BY <2>3, <1>11 DEF Maps!ToSet
    <2>5. \A x \in Maps!ToSet(c.order) : x \in Maps!ToSet(d.order)
      BY <2>2, <1>10, <1>11 DEF Maps!ToSet
    <2> QED BY <2>1, <2>4, <2>5, <1>9
  <1>16. Maps!OneSlotEach(d) BY <1>8, <1>14, <1>15 DEF Maps!OneSlotEach
  <1>17. Maps!BytesCounted(d)
    <2> DEFINE C == DOMAIN c.entries
               D == C \cup {k}
    <2>1. IsFiniteSet(C) BY <1>9, MapsFiniteL
    <2>2. IsFiniteSet({k}) BY FS_Singleton
    <2>3. IsFiniteSet(D) BY <2>1, <2>2, FS_Union
    <2>4. D \ {k} = C BY <1>6
    <2>5. Maps!Weights(d, D \ {k}) = Maps!Weights(d, D) - Maps!Weights(d, {k})
      BY <2>3, MapsPartL
    <2>6. Maps!Weights(d, {k}) = w BY <1>1, <1>e, MapsOneL
    <2>7. Maps!Weights(d, C) = Maps!Weights(c, C) BY <1>e, MapsSameL
    <2>8. c.bytes = Maps!Weights(c, C) BY <1>5 DEF Maps!CacheOK, Maps!BytesCounted
    <2>9. Maps!Weights(d, D) \in Nat BY <2>3, MapsUnitsL
    <2> HIDE DEF C, D
    <2>a. Maps!Weights(d, C) = Maps!Weights(d, D) - w BY <2>4, <2>5, <2>6
    <2>b. c.bytes = Maps!Weights(d, D) - w BY <2>a, <2>7, <2>8
    <2>10. d.bytes = Maps!Weights(d, D) BY <2>b, <2>9, <1>1, <1>8
    <2> QED BY <2>10, <1>8 DEF Maps!BytesCounted, C, D
  <1>18. \A x \in DOMAIN d.entries : d.entries[x].val \in Maps!Values /\ d.entries[x].weight \in 1 .. Maps!MaxWeight
    BY <1>1, <1>5, <1>8, <1>e DEF Maps!CacheOK
  <1>19. Maps!CacheOK(d) BY <1>11, <1>16, <1>17, <1>18 DEF Maps!CacheOK
  <1> QED BY <1>5, <1>8, <1>19

(* An empty cache is accounted. *)
LEMMA MapsNewL ==
  ASSUME Maps!Bounds
  PROVE  Maps!CacheOK(Maps!NewCache) /\ Maps!NewCache.bytes <= MapsCap
  <1>1. Maps!NewCache.bytes = 0 /\ Maps!NewCache.order = << >> /\ Maps!NewCache.entries = << >>
    BY DEF Maps!NewCache
  <1>2. DOMAIN Maps!NewCache.entries = {} /\ Maps!NewCache.order \in Seq(Maps!Keys) /\
        DOMAIN Maps!NewCache.order = {}
    BY <1>1
  <1>3. Maps!ToSet(Maps!NewCache.order) = {} BY <1>2 DEF Maps!ToSet
  <1>4. Maps!Weights(Maps!NewCache, {}) = 0
    <2>1. {u \in {} \X (1 .. Maps!MaxWeight) : u[2] <= Maps!NewCache.entries[u[1]].weight} = {} OBVIOUS
    <2> QED BY <2>1, FS_EmptySet, MapsCardL DEF Maps!Weights
  <1>5. Maps!OneSlotEach(Maps!NewCache) BY <1>2, <1>3 DEF Maps!OneSlotEach
  <1>6. Maps!BytesCounted(Maps!NewCache) BY <1>1, <1>2, <1>4 DEF Maps!BytesCounted
  <1> HIDE DEF Maps!NewCache
  <1>7. Maps!CacheOK(Maps!NewCache) BY <1>2, <1>5, <1>6 DEF Maps!CacheOK
  <1> QED BY <1>1, <1>7 DEF Maps!Bounds

(* The first state of the cache and of its readers. *)
LEMMA MapsTypeInit == ASSUME Maps!Bounds, Maps!Init PROVE Maps!CacheInv /\ Maps!ReadInv
  <1>1. uCache = Maps!NewCache /\ uRead = [r \in Actors |-> Maps!NoRead] /\ uNow = 0
    BY DEF Maps!Init
  <1>2. Maps!CacheInv BY <1>1, MapsNewL DEF Maps!CacheInv
  <1>3. uRead \in [Actors -> Maps!Reads] BY <1>1 DEF Maps!Reads
  <1> QED BY <1>1, <1>2, <1>3 DEF Maps!ReadInv, Maps!Bounds

(* A step of the deploy or of a reader keeps the cache accounted and the readers at their steps. *)
LEMMA MapsTypeStep ==
  ASSUME Maps!Bounds, Maps!StateOK, Maps!CacheInv, Maps!ReadInv, [Maps!Next]_mapsVars
  PROVE  Maps!CacheInv' /\ Maps!ReadInv'
  <1> DEFINE C(cache) == Maps!CacheOK(cache) /\ cache.bytes <= MapsCap
             R(read) == read \in [Actors -> Maps!Reads]
             T(now) == now \in 0 .. MapsMaxTime
             Inv == Maps!CacheInv' /\ Maps!ReadInv'
  <1>t. C(uCache) /\ R(uRead) /\ T(uNow) BY DEF Maps!CacheInv, Maps!ReadInv
  <1>q. ASSUME C(uCache'), R(uRead'), T(uNow') PROVE Inv
    BY <1>q
       DEF Maps!CacheInv, Maps!ReadInv, Maps!CacheOK, Maps!OneSlotEach, Maps!BytesCounted,
           Maps!Weights
  <1> SUFFICES Inv OBVIOUS
  <1> HIDE DEF Inv
  <1>n. Maps!NoRead \in Maps!Reads BY DEF Maps!Reads
  <1>a. ASSUME NEW s \in MapsShas, NEW v \in Maps!Values
        PROVE  Maps!AfterManifest(s)[v] \in Maps!Reads
    <2>1. CASE v \in {Maps!NoManifest, {}} BY <2>1, <1>n DEF Maps!AfterManifest
    <2>2. CASE v \notin {Maps!NoManifest, {}}
      <3>1. Maps!AfterManifest(s)[v] = [at |-> "maps", sha |-> s, rels |-> v]
        BY <2>2 DEF Maps!AfterManifest
      <3>2. v \in SUBSET Maps!Maps BY <2>2 DEF Maps!Values
      <3> QED BY <3>1, <3>2 DEF Maps!Reads
    <2> QED BY <2>1, <2>2
  <1>k. /\ \A k \in Maps!Keys : [at |-> "fetch", key |-> k] \in Maps!Reads
        /\ \A s \in MapsShas : <<s, "manifest">> \in Maps!Keys /\ \A m \in Maps!Maps : <<s, m>> \in Maps!Keys
    BY DEF Maps!Reads, Maps!Keys
  <1>l. ASSUME NEW r \in Actors, NEW k \in Maps!Keys, NEW then,
               \A v \in Maps!Values : then[v] \in Maps!Reads, Maps!Lookup(r, k, then),
               uNow' = uNow
        PROVE  Inv
    <2>1. C(uCache')
      <3>1. uCache' = uCache \/ uCache' = Maps!Forget(uCache, k) BY <1>l DEF Maps!Lookup
      <3>2. CASE uCache' = Maps!Forget(uCache, k)
        <4>1. Maps!CacheOK(uCache') /\ uCache'.bytes <= uCache.bytes /\ uCache.bytes \in Nat
          BY <3>2, <1>t, MapsForgetL
        <4>2. uCache'.bytes \in Nat
          <5>1. uCache'.order \in Seq(Maps!Keys) /\
                Maps!ToSet(uCache'.order) = DOMAIN uCache'.entries /\
                uCache'.bytes = Maps!Weights(uCache', DOMAIN uCache'.entries)
            BY <4>1 DEF Maps!CacheOK, Maps!OneSlotEach, Maps!BytesCounted, Maps!Weights
          <5> QED BY <5>1, MapsFiniteL, MapsUnitsL
        <4> QED BY <4>1, <4>2, <1>t DEF Maps!Bounds
      <3> QED BY <3>1, <3>2, <1>t
    <2>2. R(uRead')
      <3>1. PICK x : uRead' = [uRead EXCEPT ![r] = x] /\ (x = [at |-> "fetch", key |-> k] \/ (k \in DOMAIN uCache.entries /\ x = then[uCache.entries[k].val]))
        BY <1>l DEF Maps!Lookup
      <3>2. k \in DOMAIN uCache.entries => uCache.entries[k].val \in Maps!Values
        BY <1>t DEF Maps!CacheOK
      <3>3. x \in Maps!Reads BY <3>1, <3>2, <1>k, <1>l
      <3> QED BY <3>1, <3>3, <1>t
    <2> QED BY <2>1, <2>2, <1>l, <1>t, <1>q
  <1>x. ASSUME UNCHANGED <<uCache, uRead, uNow>> PROVE Inv BY <1>x, <1>t, <1>q
  <1>1. CASE \E s \in MapsShas : Maps!Begin(s) BY <1>1, <1>x DEF Maps!Begin
  <1>2. ASSUME NEW r \in Actors, NEW s \in MapsShas, Maps!ReadManifest(r, s) PROVE Inv
    <2>1. Maps!Lookup(r, <<s, "manifest">>, Maps!AfterManifest(s)) /\ uNow' = uNow
      BY <1>2 DEF Maps!ReadManifest
    <2>2. <<s, "manifest">> \in Maps!Keys BY <1>k
    <2>3. \A v \in Maps!Values : Maps!AfterManifest(s)[v] \in Maps!Reads BY <1>a
    <2> QED BY <2>1, <2>2, <2>3, <1>l
  <1>3. ASSUME NEW r \in Actors, Maps!ReadMap(r) PROVE Inv
    <2>1. uRead[r].at = "maps" /\ uNow' = uNow BY <1>3 DEF Maps!ReadMap
    <2>2. PICK rel \in uRead[r].rels : Maps!Lookup(r, <<uRead[r].sha, rel>>, Maps!AfterMap)
      BY <1>3 DEF Maps!ReadMap
    <2>3. uRead[r] \in [at : {"maps"}, sha : MapsShas, rels : SUBSET Maps!Maps]
      BY <2>1, <1>t DEF Maps!Reads, Maps!NoRead
    <2>4. <<uRead[r].sha, rel>> \in Maps!Keys BY <2>2, <2>3, <1>k
    <2>5. \A v \in Maps!Values : Maps!AfterMap[v] \in Maps!Reads BY <1>n DEF Maps!AfterMap
    <2> QED BY <2>1, <2>2, <2>4, <2>5, <1>l
  <1>f. ASSUME NEW k \in Maps!Keys PROVE Maps!Fetched(k) \in Maps!Values
    <2>1. k[1] \in MapsShas BY DEF Maps!Keys
    <2>2. uBucket[k[1]] \in Maps!Stored BY <2>1 DEF Maps!StateOK
    <2>3. uBucket[k[1]].manifest \in Maps!Values /\ uBucket[k[1]].maps \in SUBSET Maps!Maps
      BY <2>2 DEF Maps!Stored
    <2>4. k[2] \in uBucket[k[1]].maps => {k[2]} \in SUBSET Maps!Maps BY <2>3
    <2> QED BY <2>3, <2>4, MapsBasicL DEF Maps!Fetched
  <1>4. ASSUME NEW r \in Actors, Maps!Fetch(r) PROVE Inv
    <2>1. UNCHANGED <<uCache, uNow>> /\ uRead[r].at = "fetch" BY <1>4 DEF Maps!Fetch
    <2>2. uRead[r] \in [at : {"fetch"}, key : Maps!Keys]
      BY <2>1, <1>t DEF Maps!Reads, Maps!NoRead
    <2>3. PICK k \in Maps!Keys : k = uRead[r].key BY <2>2
    <2>4. uRead' = [uRead EXCEPT ![r] = [at |-> "insert", key |-> k, val |-> Maps!Fetched(k)]]
      BY <2>3, <1>4 DEF Maps!Fetch
    <2>5. [at |-> "insert", key |-> k, val |-> Maps!Fetched(k)] \in Maps!Reads
      BY <1>f DEF Maps!Reads
    <2>6. R(uRead') BY <2>4, <2>5, <1>t
    <2> QED BY <2>1, <2>6, <1>t, <1>q
  <1>5. ASSUME NEW r \in Actors, Maps!FetchFails(r) PROVE Inv
    <2>1. UNCHANGED <<uCache, uNow>> /\ uRead' = [uRead EXCEPT ![r] = Maps!NoRead]
      BY <1>5 DEF Maps!FetchFails
    <2>2. R(uRead') BY <2>1, <1>n, <1>t
    <2> QED BY <2>1, <2>2, <1>t, <1>q
  <1>6. ASSUME NEW r \in Actors, Maps!InsertFetched(r) PROVE Inv
    <2>1. UNCHANGED uNow /\ uRead[r].at = "insert" BY <1>6 DEF Maps!InsertFetched
    <2>2. uRead[r] \in [at : {"insert"}, key : Maps!Keys, val : Maps!Values]
      BY <2>1, <1>t DEF Maps!Reads, Maps!NoRead
    <2>3. PICK k \in Maps!Keys, v \in Maps!Values : k = uRead[r].key /\ v = uRead[r].val BY <2>2
    <2>4. /\ uCache' = Maps!Insert(uCache, k, v)
          /\ uRead' = [uRead EXCEPT ![r] = IF k[2] = "manifest" THEN Maps!AfterManifest(k[1])[v] ELSE Maps!NoRead]
      BY <2>3, <1>6 DEF Maps!InsertFetched
    <2>5. C(uCache') BY <2>4, <1>t, MapsInsertL
    <2>6. k[1] \in MapsShas BY DEF Maps!Keys
    <2>7. (IF k[2] = "manifest" THEN Maps!AfterManifest(k[1])[v] ELSE Maps!NoRead) \in Maps!Reads
      BY <2>6, <1>a, <1>n
    <2>8. R(uRead') BY <2>4, <2>7, <1>t
    <2> QED BY <2>1, <2>5, <2>8, <1>t, <1>q
  <1>7. CASE Maps!Fails BY <1>7, <1>x DEF Maps!Fails
  <1>8. CASE Maps!PutWorker BY <1>8, <1>x DEF Maps!PutWorker
  <1>9. CASE Maps!PutClient BY <1>9, <1>x DEF Maps!PutClient
  <1>10. CASE Maps!PutManifest BY <1>10, <1>x DEF Maps!PutManifest
  <1>11. CASE Maps!PruneList BY <1>11, <1>x DEF Maps!PruneList
  <1>12. CASE Maps!PruneOne BY <1>12, <1>x DEF Maps!PruneOne
  <1>13. CASE Maps!Finish BY <1>13, <1>x DEF Maps!Finish
  <1>14. CASE Maps!Crash
    <2>1. uCache' = Maps!NewCache /\ uRead' = [r \in Actors |-> Maps!NoRead] /\ uNow' = uNow
      BY <1>14 DEF Maps!Crash
    <2>2. R(uRead') BY <2>1, <1>n
    <2>3. C(uCache') BY <2>1, MapsNewL
    <2> QED BY <2>1, <2>2, <2>3, <1>t, <1>q
  <1>15. CASE Maps!Tick
    <2>1. UNCHANGED <<uCache, uRead>> /\ uNow < MapsMaxTime /\ uNow' = uNow + 1
      BY <1>15 DEF Maps!Tick
    <2>2. T(uNow') BY <2>1, <1>t DEF Maps!Bounds
    <2> QED BY <2>1, <2>2, <1>t, <1>q
  <1>16. CASE UNCHANGED mapsVars BY <1>16, <1>x DEF mapsVars
  <1> QED BY <1>1, <1>2, <1>3, <1>4, <1>5, <1>6, <1>7, <1>8, <1>9, <1>10, <1>11, <1>12, <1>13,
             <1>14, <1>15, <1>16 DEF Maps!Next

(* The types of source maps follow from what is kept. *)
LEMMA MapsTypes == ASSUME Maps!StateOK, Maps!ReadInv PROVE Maps!TypeOK
  <1>1. \A i \in DOMAIN uRows : uRows[i] \in Maps!RowSet BY DEF Maps!StateOK
  <1>2. \A s \in MapsShas : uBucket[s] \in Maps!Stored BY DEF Maps!StateOK
  <1>3. \A d \in Maps!Deps : d.at \in {"worker", "client", "manifest", "prune", "remove"}
    BY DEF Maps!Deps
  <1>4. uDep.at \in {"none", "worker", "client", "manifest", "prune", "remove"}
    BY <1>3, MapsBasicL DEF Maps!StateOK
  <1>5. \A x \in Maps!Reads : x.at \in {"idle", "fetch", "insert", "maps"}
    BY DEF Maps!Reads, Maps!NoRead
  <1>6. \A r \in Actors : uRead[r] \in Maps!Reads BY DEF Maps!ReadInv
  <1>7. \A r \in Actors : uRead[r].at \in {"idle", "fetch", "insert", "maps"} BY <1>5, <1>6
  <1>8. \A i \in DOMAIN uRows : uRows[i].sha \in MapsShas /\ uRows[i].status \in {"deploying", "success", "failed"}
    BY <1>1 DEF Maps!RowSet
  <1>9. \A s \in MapsShas : uBucket[s].maps \subseteq Maps!Maps /\ uBucket[s].manifest \in Maps!Values
    BY <1>2 DEF Maps!Stored
  <1>10. uNow \in 0 .. MapsMaxTime BY DEF Maps!ReadInv
  <1> QED BY <1>4, <1>7, <1>8, <1>9, <1>10 DEF Maps!TypeOK

(* A step of the suite is a step of the source maps, or leaves them alone. *)
LEMMA MapsNext == [Next]_allVars => [Maps!Next]_mapsVars
  BY DEF Next, allVars, VoidStep, ScanStep, GitStep, PrsStep, WebStep, ConfStep, MapsStep,
         ImpStep, BootStep, R2Step, D1Step, S3Step

(* What a prune keeps: no commit it is about to remove is one that the rows, *)
(* as they now are, say to keep.                                             *)
LEMMA MapsInductive == Spec => [](Maps!StateOK /\ Maps!VictimInv)
  <1> DEFINE Inv == Maps!StateOK /\ Maps!VictimInv
  <1>1. Init => Inv BY MapsBounds, MapsInitL DEF Init
  <1>2. Inv /\ [Next]_allVars => Inv'
    <2>1. Inv /\ Maps!Next => Inv' BY MapsBounds, MapsSteps
    <2>2. Inv /\ UNCHANGED mapsVars => Inv' BY MapsStutter
    <2> QED BY <2>1, <2>2, MapsNext
  <1> QED BY <1>1, <1>2, PTL DEF Spec

(* No prune takes the maps of a recent deploy. *)
LEMMA MapsKeep == Spec => Maps!RecentMapsStay
  <1> DEFINE Inv == Maps!StateOK /\ Maps!VictimInv
  <1>1. Inv /\ [Next]_allVars => [Maps!KeepsRecent]_mapsVars
    <2>1. Inv /\ Maps!Next => Maps!KeepsRecent BY MapsBounds, MapsSteps
    <2> QED BY <2>1, MapsNext
  <1> QED BY <1>1, MapsInductive, PTL DEF Spec, Maps!RecentMapsStay, Maps!vars, mapsVars

(* What the cache of the error reads keeps: one slot for each entry and the  *)
(* bytes of the entries, within the cap, and a reader at one of its steps.   *)
LEMMA MapsCached == Spec => [](Maps!CacheInv /\ Maps!ReadInv)
  <1> DEFINE Ok == Maps!StateOK
             Inv == Maps!CacheInv /\ Maps!ReadInv
  <1>1. Init => Inv BY MapsBounds, MapsTypeInit DEF Init
  <1>2. Ok /\ Inv /\ [Next]_allVars => Inv'
    BY MapsBounds, MapsNext, MapsTypeStep DEF Maps!vars, mapsVars
  <1> QED BY <1>1, <1>2, MapsInductive, PTL DEF Spec

(* For every set of commits and readers, every capacity that holds one map   *)
(* and every expiry: a cached key has exactly one slot in the eviction       *)
(* order, no slot is without its entry, and the bytes counted are those of   *)
(* the entries and within MAX_CACHED_BYTES, though the lock is dropped over  *)
(* every fetch and two readers insert the same key (sourcemaps.rs forget,    *)
(* insert_manifest, insert_map, evict_until_fit).                            *)
THEOREM CacheIsAccounted == Spec => []Maps!CacheAccounted
  <1>1. Maps!CacheInv => Maps!CacheAccounted
    BY DEF Maps!CacheInv, Maps!CacheOK, Maps!CacheAccounted
  <1> QED BY <1>1, MapsCached, PTL

(* Source maps keep their types. *)
LEMMA MapsTyped == Spec => []Maps!TypeOK
  <1>1. Maps!StateOK /\ Maps!ReadInv => Maps!TypeOK BY MapsTypes
  <1> QED BY <1>1, MapsInductive, MapsCached, PTL



(* What is published stays, for every set of refs, commits, readers and     *)
(* requests and every retention: a reader's sync takes no ref out of the     *)
(* mirror, or off its commit, that the stored manifest names, even when a    *)
(* push overlaps it (forge.rs), and no prune removes the maps of the deploy  *)
(* that is finishing or of a commit among the newest that were deployed      *)
(* (sourcemaps.rs keep_shas, prune_old_maps).                                *)
THEOREM PublishedIsKept == Spec => PublishedStays
  BY GitKeeps, MapsKeep, PTL DEF PublishedStays

=============================================================================
