-------------------------- MODULE DeliveryProofs --------------------------
(* What the deploys of MCDelivery promise, for every value of their         *)
(* constants: Void deploys, their migrations and pull requests.             *)
EXTENDS MCDelivery, TLAPS, FiniteSetTheorems, WellFoundedInduction

(* A set of naturals that is not empty has a least element. *)
LEMMA NatMin == ASSUME NEW S \in SUBSET Nat, S # {} PROVE \E u \in S : \A w \in S : u <= w
  <1>1. PICK x \in S : \A y \in S : ~(<<y, x>> \in OpToRel(<, Nat))
    BY NatLessThanWellFounded, WFMin, Zenon
  <1>2. ASSUME NEW w \in S PROVE x <= w
    <2>1. ~(<<w, x>> \in OpToRel(<, Nat)) BY <1>1, Zenon
    <2>2. ~(w < x) BY <2>1 DEF OpToRel
    <2> QED BY <2>2
  <1> QED BY <1>2


-----------------------------------------------------------------------------
(* Void deploys (VoidDeploy). *)
(* A deploy at rest is well formed. *)
LEMMA VoidIdleL == ASSUME Void!Bounds
  PROVE Void!Idle \in Void!Deploys /\ Void!Idle.pc = "idle" /\ Void!Idle.n = 0 /\ Void!Idle.level = 0 /\
        Void!Idle.staged = FALSE /\ Void!Idle.migrated = FALSE
  BY DEF Void!Bounds, Void!Idle, Void!Deploys, Void!Pcs, Void!Levels, Void!Renders

(* A deploy that moves to another step stays a deploy. *)
LEMMA VoidToL == ASSUME NEW p \in Void!Pcs, vDep \in Void!Deploys, Void!To(p)
  PROVE /\ vDep' \in Void!Deploys /\ vDep'.pc = p /\ vDep'.n = vDep.n /\ vDep'.level = vDep.level
        /\ vDep'.staged = vDep.staged /\ vDep'.migrated = vDep.migrated
  BY DEF Void!To, Void!Deploys

(* A deploy that counts down its attempts stays a deploy. *)
LEMMA VoidTryL == ASSUME NEW d \in Void!Deploys, d.tries > 1
  PROVE LET e == [d EXCEPT !.tries = @ - 1] IN
        /\ e \in Void!Deploys /\ e.pc = d.pc /\ e.n = d.n /\ e.level = d.level /\ e.staged = d.staged
        /\ e.migrated = d.migrated
  BY DEF Void!Deploys

(* A deploy marked migrated stays a deploy. *)
LEMMA VoidMigratedL == ASSUME vDep \in Void!Deploys, Void!Migrated
  PROVE /\ vDep' \in Void!Deploys /\ vDep'.pc = (IF vDep.staged THEN "activate" ELSE "route")
        /\ vDep'.n = vDep.n
        /\ vDep'.level = vDep.level /\ vDep'.staged = vDep.staged /\ vDep'.migrated = TRUE
  BY DEF Void!Migrated, Void!Deploys, Void!Pcs

(* A fault keeps the bounds well formed. *)
LEMMA VoidFaultL ==
  ASSUME Void!Bounds, vLeft \in Void!Lefts, Void!Fault
  PROVE  vLeft' \in Void!Lefts /\ vLeft'.deploys = vLeft.deploys
  BY DEF Void!Fault, Void!Lefts, Void!Bounds

(* A run that ends applies its own migrations and changes nothing else. *)
LEMMA VoidDeliverL ==
  ASSUME vDep \in Void!Deploys, vApplied \in Void!Levels,
         NEW st \in {"running", "ok", "failed"}, Void!Deliver(st), VoidMaxLevel \in Nat
  PROVE /\ vExec' \in Void!Execs /\ vExec'.n = vDep.n /\ vExec'.level = vDep.level /\ vExec'.st = st
        /\ vApplied' \in Void!Levels /\ vApplied' >= vApplied /\ (st = "ok" => vApplied' >= vDep.level)
  <1>1. vDep.n \in 0 .. VoidMaxDeploys /\ vDep.level \in Void!Levels BY DEF Void!Deploys
  <1> QED BY <1>1 DEF Void!Deliver, Void!Execs, Void!Levels

(* The invariant holds at first. *)
LEMMA VoidInitL ==
  ASSUME Void!Bounds, Void!Init
  PROVE  Void!TypeOK /\ Void!AppliedInv /\ Void!PostedInv
  <1>0. 0 \in Void!Levels /\ [s \in Void!Scripts |-> Void!None] \in Void!Renders
    BY DEF Void!Levels, Void!Renders, Void!Bounds
  <1>a. vRow \in BOOLEAN /\ vHash \in Void!Renders /\ vServing \in Void!Levels \cup {-1} /\
        vApplied \in Void!Levels
    BY <1>0 DEF Void!Init
  <1>b. vPtr \in Void!Pointers BY <1>0 DEF Void!Init, Void!Pointers
  <1>c. vExec \in Void!Execs BY <1>0 DEF Void!Init, Void!Execs, Void!Bounds
  <1>d. vLeft \in Void!Lefts BY DEF Void!Init, Void!Lefts, Void!Bounds
  <1>e. vDep \in Void!Deploys BY VoidIdleL DEF Void!Init
  <1>1. Void!TypeOK BY <1>a, <1>b, <1>c, <1>d, <1>e DEF Void!TypeOK
  <1>2. /\ vExec.n = 0 /\ vExec.level = 0 /\ vExec.st = "idle" /\ vLeft.deploys = VoidMaxDeploys
        /\ vApplied = 0 /\ vDep = Void!Idle
    BY DEF Void!Init
  <1>3. Void!AppliedInv
    <2>1. Void!Begun = 0 BY <1>2 DEF Void!Begun, Void!Bounds
    <2>2. vDep.pc = "idle" /\ vDep.n = 0 /\ vDep.level = 0 /\ ~vDep.staged /\ ~vDep.migrated
      BY <1>2, VoidIdleL
    <2> QED BY <1>2, <2>1, <2>2 DEF Void!AppliedInv
  <1>4. Void!PostedInv BY <1>2, VoidIdleL DEF Void!PostedInv, Void!NoBlindRetry, Void!Unposted
  <1> QED BY <1>1, <1>3, <1>4

(* Every step keeps what was migrated applied and no run posted twice. *)
LEMMA VoidSteps ==
  ASSUME Void!Bounds, Void!TypeOK, Void!AppliedInv, Void!PostedInv, [Void!Next]_voidVars
  PROVE  Void!TypeOK' /\ Void!AppliedInv' /\ Void!PostedInv'
  <1> DEFINE Before == {"begin", "probe", "post", "reconcile", "auth", "nov2", "legacy"}
             BaseT == vRow' \in BOOLEAN /\ vHash' \in Void!Renders /\ vPtr' \in Void!Pointers /\
                      vServing' \in Void!Levels \cup {-1}
             WorkT == vApplied' \in Void!Levels /\ vExec' \in Void!Execs /\ vLeft' \in Void!Lefts
             Types == BaseT /\ WorkT /\ vDep' \in Void!Deploys
             Deps == vLeft'.deploys = vLeft.deploys
             Same == vExec' = vExec /\ vApplied' = vApplied /\ Deps
             Kept == vDep'.n = vDep.n /\ vDep'.level = vDep.level /\ vDep.pc # "idle"
             Inv == Void!AppliedInv' /\ Void!PostedInv'
             Goal == Void!TypeOK' /\ Inv
  <1>t. /\ vRow \in BOOLEAN /\ vHash \in Void!Renders /\ vPtr \in Void!Pointers
        /\ vServing \in Void!Levels \cup {-1}
        /\ vApplied \in Void!Levels /\ vExec \in Void!Execs /\ vDep \in Void!Deploys
        /\ vLeft \in Void!Lefts
    BY DEF Void!TypeOK
  <1>n. /\ vApplied \in Nat /\ vExec.n \in Nat /\ vExec.level \in Nat /\ vDep.n \in Nat
        /\ vDep.level \in Nat
        /\ vDep.tries \in 0 .. 3 /\ vDep.level \in Void!Levels /\ vDep.pc \in Void!Pcs
        /\ vDep.staged \in BOOLEAN /\ vDep.migrated \in BOOLEAN
    BY <1>t DEF Void!Levels, Void!Execs, Void!Deploys, Void!Bounds
  <1>p. \A p \in {"idle", "stage", "target", "prior", "begin", "probe", "post", "reconcile", "auth",
        "nov2", "legacy", "activate", "hashes", "gate", "route"} : p \in Void!Pcs
          BY DEF Void!Pcs
  <1>i. /\ vDep.n <= Void!Begun /\ vExec.n <= Void!Begun /\ (vDep.pc # "idle" => vDep.n > 0)
        /\ (vDep.pc # "idle" /\ vExec.n = vDep.n => vExec.level = vDep.level)
        /\ (vExec.st = "ok" => vApplied >= vExec.level)
        /\ (vDep.pc = "auth" \/ vDep.migrated => vApplied >= vDep.level)
        /\ (vDep.staged => vDep.migrated \/ vDep.pc \in Before)
    BY DEF Void!AppliedInv
  <1>j. /\ (vDep.pc \in {"post", "legacy"} => ~(vExec.n = vDep.n /\ vExec.st = "running"))
        /\ (vDep.pc \in Void!Unposted => vExec.n # vDep.n)
        /\ (vDep.pc \in {"activate", "hashes", "gate"} /\ ~vDep.migrated => vExec.n # vDep.n)
    BY DEF Void!PostedInv, Void!NoBlindRetry
  <1>q. ASSUME Types, Inv PROVE Goal BY <1>q DEF Void!TypeOK
  <1>s. ASSUME BaseT, vDep' \in Void!Deploys, vExec' = vExec, vApplied' = vApplied,
               vLeft' \in Void!Lefts
        PROVE  Types BY <1>s, <1>t
  (* What a step must show, by what it does to the deploy.                *)
  <1>f. ASSUME vDep' = Void!Idle, vExec' \in Void!Execs, vApplied' \in Void!Levels, Deps,
               vExec' = vExec \/ vExec'.n = vDep.n, vExec'.st = "ok" => vApplied' >= vExec'.level
        PROVE Inv
    <2>1. vDep'.pc = "idle" /\ vDep'.n = 0 /\ vDep'.level = 0 /\ ~vDep'.staged /\ ~vDep'.migrated
      BY <1>f, VoidIdleL
    <2>2. Void!Begun' = Void!Begun /\ vExec'.n <= Void!Begun /\ 0 <= Void!Begun
      BY <1>f, <1>i, <1>n, <1>t DEF Void!Begun, Void!Bounds, Void!Lefts
    <2>3. Void!AppliedInv' BY <1>f, <2>1, <2>2 DEF Void!AppliedInv
    <2>4. Void!PostedInv' BY <2>1 DEF Void!PostedInv, Void!NoBlindRetry, Void!Unposted
    <2> QED BY <2>3, <2>4
  <1>k. ASSUME Kept, Same,
               vDep'.pc = "auth" \/ vDep'.migrated => vApplied >= vDep.level,
               vDep'.staged => vDep'.migrated \/ vDep'.pc \in Before,
               vDep'.pc \in {"post", "legacy"} => ~(vExec.n = vDep.n /\ vExec.st = "running"),
               vDep'.pc \in Void!Unposted \/ (vDep'.pc \in {"activate", "hashes", "gate"} /\ ~vDep'.migrated) => vExec.n # vDep.n
        PROVE Inv
    <2>1. Void!Begun' = Void!Begun BY <1>k DEF Void!Begun
    <2>2. Void!AppliedInv' BY <1>k, <2>1, <1>i DEF Void!AppliedInv
    <2>3. Void!PostedInv' BY <1>k DEF Void!PostedInv, Void!NoBlindRetry, Void!Unposted
    <2> QED BY <2>2, <2>3
  <1>u. UNCHANGED <<vRow, vHash, vPtr, vServing>> => BaseT BY <1>t
  <1>v. vLeft' = vLeft \/ Void!Fault => vLeft' \in Void!Lefts /\ Deps BY <1>t, VoidFaultL
  <1>x. ASSUME Void!Failed, BaseT, vExec' = vExec, vApplied' = vApplied,
               vLeft' = vLeft \/ Void!Fault
        PROVE  Goal
    <2>1. vDep' = Void!Idle /\ Void!Idle \in Void!Deploys BY <1>x, VoidIdleL DEF Void!Failed
    <2>2. Inv BY <1>x, <2>1, <1>f, <1>v, <1>t, <1>i
    <2> QED BY <1>x, <2>1, <2>2, <1>s, <1>v, <1>q
  <1>m. ASSUME Void!Migrated, BaseT, vExec' = vExec, vApplied' = vApplied,
               vLeft' = vLeft \/ Void!Fault, vDep.pc # "idle", 
               vApplied >= vDep.level
        PROVE Goal
    <2>1. /\ vDep' \in Void!Deploys /\ vDep'.pc \in {"activate", "route"} /\ vDep'.n = vDep.n
          /\ vDep'.level = vDep.level /\ vDep'.staged = vDep.staged /\ vDep'.migrated = TRUE
      BY <1>m, <1>t, VoidMigratedL
    <2>2. Inv BY <1>m, <2>1, <1>k, <1>v DEF Void!Unposted
    <2> QED BY <1>m, <2>1, <2>2, <1>s, <1>v, <1>q
  <1>y. ASSUME vDep.tries > 1, vDep' = [vDep EXCEPT !.tries = @ - 1], BaseT, vExec' = vExec,
               vApplied' = vApplied, 
               vLeft' = vLeft \/ Void!Fault, vDep.pc # "idle"
        PROVE Goal
    <2>1. /\ vDep' \in Void!Deploys /\ vDep'.pc = vDep.pc /\ vDep'.n = vDep.n
          /\ vDep'.level = vDep.level /\ vDep'.staged = vDep.staged /\ vDep'.migrated = vDep.migrated
      BY <1>y, <1>t, VoidTryL
    <2>2. Inv BY <1>y, <2>1, <1>k, <1>v, <1>i, <1>j DEF Void!Unposted
    <2> QED BY <1>y, <2>1, <2>2, <1>s, <1>v, <1>q
  <1>w. ASSUME NEW p \in Before, vDep.pc \in Before, BaseT, vExec' = vExec,
               vApplied' = vApplied, vLeft' = vLeft \/ Void!Fault, 
               Void!To(p) \/ (\E t \in 0 .. 3 : vDep' = [vDep EXCEPT !.pc = p, !.tries = t]),
               p = "auth" => vApplied >= vDep.level,
               p \in Void!Unposted \cup {"legacy"} => vExec.n # vDep.n
        PROVE Goal
    <2>1. p \in Void!Pcs BY <1>p
    <2>2. /\ vDep' \in Void!Deploys /\ vDep'.pc = p /\ vDep'.n = vDep.n
          /\ vDep'.level = vDep.level /\ vDep'.staged = vDep.staged /\ vDep'.migrated = vDep.migrated
      <3>1. CASE Void!To(p) BY <3>1, <2>1, <1>t, VoidToL
      <3>2. CASE \E t \in 0 .. 3 : vDep' = [vDep EXCEPT !.pc = p, !.tries = t]
        BY <3>2, <2>1, <1>t DEF Void!Deploys
      <3> QED BY <1>w, <3>1, <3>2
    <2>3. Inv BY <1>w, <2>2, <1>k, <1>v, <1>i, <1>j DEF Void!Unposted
    <2> QED BY <1>w, <2>2, <2>3, <1>s, <1>v, <1>q
  <1>d. ASSUME vDep.pc \in {"post", "legacy"}, BaseT, vLeft' = vLeft \/ Void!Fault,
               NEW st \in {"running", "ok", "failed"}, Void!Deliver(st), 
               \/ Void!Failed
               \/ st = "ok" /\ (Void!To("auth") \/ Void!Migrated)
               \/ \E t \in 0 .. 3 : vDep' = [vDep EXCEPT !.pc = "reconcile", !.tries = t]
               \/ st # "running" /\ vDep.pc = "legacy" /\ vDep.tries > 1 /\
                  vDep' = [vDep EXCEPT !.tries = @ - 1]
        PROVE Goal
    <2>1. /\ vExec' \in Void!Execs /\ vExec'.n = vDep.n /\ vExec'.level = vDep.level /\ vExec'.st = st
          /\ vApplied' \in Void!Levels /\ vApplied' >= vApplied
          /\ (st = "ok" => vApplied' >= vDep.level)
      BY <1>d, <1>t, VoidDeliverL DEF Void!Bounds
    <2>2. vApplied' \in Nat BY <2>1 DEF Void!Levels, Void!Bounds
    <2>3. vLeft' \in Void!Lefts /\ Deps /\ Void!Begun' = Void!Begun BY <1>d, <1>v DEF Void!Begun
    <2>4. CASE Void!Failed
      <3>1. vDep' = Void!Idle /\ vDep' \in Void!Deploys BY <2>4, VoidIdleL DEF Void!Failed
      <3>2. Inv BY <3>1, <2>1, <2>3, <1>f
      <3> QED BY <3>1, <3>2, <1>d, <2>1, <2>3, <1>q
    <2>5. ASSUME vDep' \in Void!Deploys, vDep'.n = vDep.n, vDep'.level = vDep.level,
                 vDep'.staged = vDep.staged, 
                 vDep'.migrated = vDep.migrated \/ (vDep'.migrated /\ st = "ok"), vDep'.pc = "auth" => st = "ok",
                 vDep'.pc \in Before \/ vDep'.migrated, vDep'.pc \notin Void!Unposted, vDep'.pc = "legacy" => st # "running",
                 vDep'.pc \in {"activate", "hashes", "gate"} => vDep'.migrated
          PROVE Goal
      <3>1. Void!AppliedInv' BY <2>5, <2>1, <2>2, <2>3, <1>d, <1>i, <1>n DEF Void!AppliedInv
      <3>2. Void!PostedInv' BY <2>5, <2>1 DEF Void!PostedInv, Void!NoBlindRetry, Void!Unposted
      <3> QED BY <2>5, <3>1, <3>2, <1>d, <2>1, <2>3, <1>q
    <2>6. CASE st = "ok" /\ Void!To("auth") BY <2>6, <2>5, <1>p, <1>t, VoidToL DEF Void!Unposted
    <2>7. CASE st = "ok" /\ Void!Migrated
      <3>1. /\ vDep' \in Void!Deploys /\ vDep'.pc \in {"activate", "route"} /\ vDep'.n = vDep.n
            /\ vDep'.level = vDep.level /\ vDep'.staged = vDep.staged /\ vDep'.migrated = TRUE
        BY <2>7, <1>t, VoidMigratedL
      <3> QED BY <2>7, <3>1, <2>5 DEF Void!Unposted
    <2>8. CASE \E t \in 0 .. 3 : vDep' = [vDep EXCEPT !.pc = "reconcile", !.tries = t]
      <3>1. /\ vDep' \in Void!Deploys /\ vDep'.pc = "reconcile" /\ vDep'.n = vDep.n
            /\ vDep'.level = vDep.level /\ vDep'.staged = vDep.staged /\ vDep'.migrated = vDep.migrated
        <4>1. "reconcile" \in Void!Pcs BY <1>p
        <4> QED BY <2>8, <4>1, <1>t DEF Void!Deploys
      <3> QED BY <3>1, <2>5 DEF Void!Unposted
    <2>9. CASE st # "running" /\ vDep.pc = "legacy" /\ vDep.tries > 1 /\
               vDep' = [vDep EXCEPT !.tries = @ - 1]
      <3>1. /\ vDep' \in Void!Deploys /\ vDep'.pc = vDep.pc /\ vDep'.n = vDep.n
            /\ vDep'.level = vDep.level /\ vDep'.staged = vDep.staged /\ vDep'.migrated = vDep.migrated
        BY <2>9, <1>t, VoidTryL
      <3> QED BY <2>9, <3>1, <2>5 DEF Void!Unposted
    <2> QED BY <1>d, <2>4, <2>6, <2>7, <2>8, <2>9
  <1>h. Void!Pointed \in Void!Pointers
    <2>1. vDep.render \in Void!Renders /\ vPtr.co \in Void!Renders
      BY <1>t DEF Void!Deploys, Void!Pointers
    <2> DEFINE c == [s \in Void!Scripts |-> IF s \in vDep.gen THEN vDep.render[s] ELSE vPtr.co[s]]
    <2>2. c \in Void!Renders BY <2>1 DEF Void!Renders
    <2> HIDE DEF c
    <2>3. [app |-> vDep.level, co |-> c] \in Void!Pointers BY <2>2, <1>n DEF Void!Pointers
    <2> QED BY <2>3 DEF Void!Pointed, c
  <1>1. ASSUME Void!Start PROVE Goal
    <2>1. PICK l \in Void!Levels, r \in [Void!Scripts -> VoidContents] :
            vDep' = [Void!Idle EXCEPT !.pc = "stage", !.n = VoidMaxDeploys - vLeft.deploys + 1, !.level = l, !.render = r]
      BY <1>1 DEF Void!Start
    <2>2. r \in Void!Renders BY DEF Void!Renders
    <2>3. vLeft.deploys \in 0 .. VoidMaxDeploys /\ vLeft.deploys > 0 /\
          vLeft' = [vLeft EXCEPT !.deploys = @ - 1]
      BY <1>1, <1>t DEF Void!Start, Void!Lefts
    <2>4. vLeft' \in Void!Lefts /\ vLeft'.deploys = vLeft.deploys - 1
      BY <2>3, <1>t DEF Void!Lefts, Void!Bounds
    <2> DEFINE m == VoidMaxDeploys - vLeft.deploys + 1
    <2>5. m \in 0 .. VoidMaxDeploys /\ m = Void!Begun + 1 /\ Void!Begun' = m /\ Void!Begun \in Nat
      BY <2>3, <2>4 DEF Void!Bounds, Void!Begun
    <2> HIDE DEF m
    <2>6. vDep' = [Void!Idle EXCEPT !.pc = "stage", !.n = m, !.level = l, !.render = r]
      BY <2>1 DEF m
    <2>7. /\ vDep' \in Void!Deploys /\ vDep'.pc = "stage" /\ vDep'.n = m /\ vDep'.level = l
          /\ vDep'.staged = FALSE /\ vDep'.migrated = FALSE
      <3>1. "stage" \in Void!Pcs BY <1>p
      <3> QED BY <3>1, <2>2, <2>5, <2>6, VoidIdleL DEF Void!Deploys
    <2>8. vExec' = vExec /\ vApplied' = vApplied BY <1>1 DEF Void!Start
    <2>9. Void!AppliedInv' BY <2>5, <2>7, <2>8, <1>i, <1>n DEF Void!AppliedInv
    <2>10. Void!PostedInv'
      BY <2>5, <2>7, <2>8, <1>i, <1>n DEF Void!PostedInv, Void!NoBlindRetry, Void!Unposted
    <2>11. BaseT BY <1>1, <1>t DEF Void!Start
    <2> QED BY <2>4, <2>7, <2>8, <2>9, <2>10, <2>11, <1>s, <1>q
  <1>2. ASSUME Void!StageCohosted PROVE Goal
    <2> DEFINE s == VoidCohosted[vDep.at]
               g == IF vHash[s] = Void!ContentHash(vDep.render[s]) THEN vDep.gen ELSE vDep.gen \cup {s}
               i == vDep.at + 1
    <2>1. Void!At("stage") /\ vDep.at <= Len(VoidCohosted) /\ vDep' = [vDep EXCEPT !.at = i, !.gen = g]
      BY <1>2 DEF Void!StageCohosted
    <2>2. vDep.at \in 1 .. Len(VoidCohosted) + 1 /\ vDep.gen \in SUBSET Void!Scripts /\
          Len(VoidCohosted) \in Nat
      BY <1>t DEF Void!Deploys, Void!Bounds
    <2>3. i \in 1 .. Len(VoidCohosted) + 1 /\ s \in Void!Scripts
      BY <2>1, <2>2 DEF Void!Bounds, Void!Scripts
    <2>4. g \in SUBSET Void!Scripts BY <2>2, <2>3
    <2> HIDE DEF g, i
    <2>6. vDep' \in Void!Deploys /\ vDep'.pc = "stage" /\ vDep'.n = vDep.n /\ vDep'.level = vDep.level
          /\ vDep'.staged = vDep.staged /\ vDep'.migrated = vDep.migrated
      BY <2>1, <2>3, <2>4, <1>t DEF Void!At, Void!Deploys
    <2>7. BaseT /\ Same /\ vLeft' = vLeft BY <1>2, <1>t DEF Void!StageCohosted
    <2>8. Inv BY <2>1, <2>6, <2>7, <1>k, <1>i, <1>j DEF Void!At, Void!Unposted
    <2> QED BY <2>6, <2>7, <2>8, <1>s, <1>q, <1>t
  <1>3. ASSUME Void!StageApp PROVE Goal
    <2>1. vDep.pc = "stage" /\ Void!To("target") BY <1>3 DEF Void!StageApp, Void!At
    <2>2. BaseT /\ Same /\ vLeft' = vLeft BY <1>3, <1>t DEF Void!StageApp
    <2>3. /\ vDep' \in Void!Deploys /\ vDep'.pc = "target" /\ vDep'.n = vDep.n
          /\ vDep'.level = vDep.level
          /\ vDep'.staged = vDep.staged /\ vDep'.migrated = vDep.migrated
      BY <2>1, <1>p, <1>t, VoidToL
    <2>4. Inv BY <2>1, <2>2, <2>3, <1>k, <1>i, <1>j DEF Void!Unposted
    <2> QED BY <2>2, <2>3, <2>4, <1>s, <1>q, <1>t
  <1>4. ASSUME Void!LoadTarget PROVE Goal
    <2>1. PICK p \in {"prior", "activate"} : Void!To(p) BY <1>4 DEF Void!LoadTarget
    <2>2. vDep.pc = "target" BY <1>4 DEF Void!LoadTarget, Void!At
    <2>3. BaseT /\ Same /\ vLeft' = vLeft BY <1>4, <1>t DEF Void!LoadTarget
    <2>4. /\ vDep' \in Void!Deploys /\ vDep'.pc = p /\ vDep'.n = vDep.n /\ vDep'.level = vDep.level
          /\ vDep'.staged = vDep.staged /\ vDep'.migrated = vDep.migrated
      BY <2>1, <1>p, <1>t, VoidToL
    <2>5. Inv BY <2>2, <2>3, <2>4, <1>k, <1>i, <1>j DEF Void!Unposted
    <2> QED BY <2>3, <2>4, <2>5, <1>s, <1>q, <1>t
  <1>5. ASSUME Void!EnsurePriorFleetHealthy PROVE Goal
    <2>1. vDep.pc = "prior" /\ vDep' = [vDep EXCEPT !.pc = "begin", !.staged = TRUE]
      BY <1>5 DEF Void!EnsurePriorFleetHealthy, Void!At
    <2>2. vPtr.app \in Void!Levels \cup {-1} BY <1>t DEF Void!Pointers
    <2>3. BaseT /\ Same /\ vLeft' = vLeft BY <1>5, <2>2, <1>t DEF Void!EnsurePriorFleetHealthy
    <2>4. /\ vDep' \in Void!Deploys /\ vDep'.pc = "begin" /\ vDep'.n = vDep.n
          /\ vDep'.level = vDep.level
          /\ vDep'.staged = TRUE /\ vDep'.migrated = vDep.migrated
      <3>1. "begin" \in Void!Pcs /\ "route" \in Void!Pcs BY <1>p
      <3> QED BY <2>1, <3>1, <1>t DEF Void!Deploys
    <2>5. Inv BY <2>1, <2>3, <2>4, <1>k, <1>i, <1>j DEF Void!Unposted
    <2> QED BY <2>3, <2>4, <2>5, <1>s, <1>q, <1>t
  <1>6. ASSUME Void!PriorUnreachable PROVE Goal
    <2>1. vDep.pc = "prior" /\ Void!To("activate") /\ Void!Fault
      BY <1>6 DEF Void!PriorUnreachable, Void!At
    <2>2. BaseT /\ Same /\ vLeft' \in Void!Lefts
      BY <1>6, <2>1, <1>t, VoidFaultL DEF Void!PriorUnreachable
    <2>3. /\ vDep' \in Void!Deploys /\ vDep'.pc = "activate" /\ vDep'.n = vDep.n
          /\ vDep'.level = vDep.level
          /\ vDep'.staged = vDep.staged /\ vDep'.migrated = vDep.migrated
      BY <2>1, <1>p, <1>t, VoidToL
    <2>4. Inv BY <2>1, <2>2, <2>3, <1>k, <1>i, <1>j DEF Void!Unposted
    <2> QED BY <2>2, <2>3, <2>4, <1>s, <1>q, <1>t
  <1>7. ASSUME Void!MigrateVoidAppStaged PROVE Goal
    <2>1. vDep.pc = "begin" /\ Void!CollectMigrations /\ BaseT /\ vExec' = vExec /\ vApplied' = vApplied
      BY <1>7, <1>u DEF Void!MigrateVoidAppStaged, Void!BeginMigrate, Void!At
    <2>2. CASE vDep' = [vDep EXCEPT !.pc = "probe", !.tries = 3] /\ UNCHANGED vLeft
      BY <2>1, <2>2, <1>w, <1>j DEF Void!Unposted
    <2>3. CASE Void!Fault /\ Void!Failed BY <2>1, <2>3, <1>x
    <2> QED BY <2>1, <2>2, <2>3 DEF Void!CollectMigrations
  <1>8. ASSUME Void!MigrateVoidApp PROVE Goal
    <2>1. vDep.pc = "begin" /\ BaseT /\ vExec' = vExec /\ vApplied' = vApplied
      BY <1>8, <1>u DEF Void!MigrateVoidApp, Void!BeginMigrate, Void!At
    <2>2. CASE vDep' = [vDep EXCEPT !.pc = "probe", !.tries = 3] /\ UNCHANGED vLeft
      BY <2>1, <2>2, <1>w, <1>j DEF Void!Unposted
    <2>3. CASE Void!Fault /\ Void!Failed BY <2>1, <2>3, <1>x
    <2>4. CASE Void!Fault /\ vDep.level = 0 /\ Void!Migrated BY <2>1, <2>4, <1>m, <1>n
    <2> QED BY <1>8, <2>2, <2>3, <2>4
               DEF Void!MigrateVoidApp, Void!BeginMigrate, Void!CollectMigrations
  <1>9. ASSUME Void!Probe PROVE Goal
    <2>1. vDep.pc = "probe" /\ BaseT /\ vExec' = vExec /\ vApplied' = vApplied
      BY <1>9, <1>u DEF Void!Probe, Void!At
    <2>2. CASE Void!To("post") /\ UNCHANGED vLeft BY <2>1, <2>2, <1>w, <1>j DEF Void!Unposted
    <2>3. CASE Void!Fault /\ Void!Failed BY <2>1, <2>3, <1>x
    <2>4. CASE Void!To("nov2") /\ UNCHANGED vLeft BY <2>1, <2>4, <1>w, <1>j DEF Void!Unposted
    <2>5. CASE Void!Fault /\ vDep.tries > 1 /\ vDep' = [vDep EXCEPT !.tries = @ - 1]
      BY <2>1, <2>5, <1>y
    <2> QED BY <1>9, <2>2, <2>3, <2>4, <2>5 DEF Void!Probe
  <1>10. ASSUME Void!NoV2 PROVE Goal
    <2>1. vDep.pc = "nov2" /\ BaseT /\ vExec' = vExec /\ vApplied' = vApplied
      BY <1>10, <1>u DEF Void!NoV2, Void!At
    <2>2. CASE Void!Fault /\ Void!Failed BY <2>1, <2>2, <1>x
    <2>3. CASE vDep.level = 0 /\ Void!Migrated /\ UNCHANGED vLeft BY <2>1, <2>3, <1>m, <1>n
    <2>4. CASE vDep' = [vDep EXCEPT !.pc = "legacy", !.tries = 3] /\ UNCHANGED vLeft
      BY <2>1, <2>4, <1>w, <1>j DEF Void!Unposted
    <2> QED BY <1>10, <2>2, <2>3, <2>4 DEF Void!NoV2
  <1>11. ASSUME Void!MigrateApp PROVE Goal
    <2>1. vDep.pc = "post" /\ BaseT BY <1>11, <1>u DEF Void!MigrateApp, Void!At
    <2>2. CASE UNCHANGED vLeft /\ \E st \in {"ok", "failed"} : Void!Deliver(st) /\ IF st = "ok" THEN Void!To("auth") ELSE Void!Failed
      BY <2>1, <2>2, <1>d
    <2>3. CASE Void!Fault /\ (\E st \in {"ok", "failed"} : Void!Deliver(st)) /\
               vDep' = [vDep EXCEPT !.pc = "reconcile", !.tries = 2]
      <3>1. \E t \in 0 .. 3 : vDep' = [vDep EXCEPT !.pc = "reconcile", !.tries = t] BY <2>3
      <3> QED BY <2>1, <2>3, <3>1, <1>d
    <2>4. CASE Void!Fault /\ Void!Deliver("running") /\
               vDep' = [vDep EXCEPT !.pc = "reconcile", !.tries = 1]
      <3>1. \E t \in 0 .. 3 : vDep' = [vDep EXCEPT !.pc = "reconcile", !.tries = t] BY <2>4
      <3> QED BY <2>1, <2>4, <3>1, <1>d
    <2>5. CASE Void!Fault /\ UNCHANGED <<vExec, vApplied>> /\
               vDep' = [vDep EXCEPT !.pc = "reconcile", !.tries = 1]
      <3>1. \E t \in 0 .. 3 : vDep' = [vDep EXCEPT !.pc = "reconcile", !.tries = t] BY <2>5
      <3>2. "reconcile" \in Before /\ "reconcile" \notin Void!Unposted \cup {"legacy"}
        BY DEF Void!Unposted
      <3> QED BY <2>1, <2>5, <3>1, <3>2, <1>w
    <2> QED BY <1>11, <2>2, <2>3, <2>4, <2>5 DEF Void!MigrateApp
  <1>12. ASSUME Void!Reconcile PROVE Goal
    <2>1. vDep.pc = "reconcile" /\ BaseT /\ vExec' = vExec /\ vApplied' = vApplied
      BY <1>12, <1>u DEF Void!Reconcile, Void!At
    <2>2. CASE Void!OursSucceeded /\ Void!To("auth") /\ UNCHANGED vLeft
      <3>1. vApplied >= vDep.level BY <2>1, <2>2, <1>i, <1>n DEF Void!OursSucceeded
      <3>2. "auth" \in Before /\ "auth" \notin Void!Unposted \cup {"legacy"}
        BY DEF Void!Unposted
      <3> QED BY <2>1, <2>2, <3>1, <3>2, <1>w
    <2>3. CASE Void!Failed /\ (UNCHANGED vLeft \/ Void!Fault) BY <2>1, <2>3, <1>x
    <2>4. CASE Void!Fault /\ vDep.tries > 1 /\ vDep' = [vDep EXCEPT !.tries = @ - 1]
      BY <2>1, <2>4, <1>y
    <2> QED BY <1>12, <2>2, <2>3, <2>4 DEF Void!Reconcile
  <1>13. ASSUME Void!MigrateAuth PROVE Goal
    <2>1. vDep.pc = "auth" /\ BaseT /\ vExec' = vExec /\ vApplied' = vApplied
      BY <1>13, <1>u DEF Void!MigrateAuth, Void!At
    <2>2. CASE Void!Migrated /\ UNCHANGED vLeft BY <2>1, <2>2, <1>m, <1>i
    <2>3. CASE Void!Fault /\ Void!Failed BY <2>1, <2>3, <1>x
    <2> QED BY <1>13, <2>2, <2>3 DEF Void!MigrateAuth
  <1>14. ASSUME Void!MigrateLegacy PROVE Goal
    <2>1. vDep.pc = "legacy" /\ BaseT BY <1>14, <1>u DEF Void!MigrateLegacy, Void!At
    <2>2. CASE UNCHANGED vLeft /\ \E st \in {"ok", "failed"} : Void!Deliver(st) /\ IF st = "ok" THEN Void!Migrated ELSE Void!Failed
      BY <2>1, <2>2, <1>d
    <2>3. CASE Void!Fault /\ UNCHANGED <<vExec, vApplied>> /\ vDep.tries > 1 /\
               vDep' = [vDep EXCEPT !.tries = @ - 1]
      BY <2>1, <2>3, <1>y
    <2>4. CASE Void!Fault /\ UNCHANGED <<vExec, vApplied>> /\ Void!Failed BY <2>1, <2>4, <1>x
    <2>5. CASE Void!Fault /\ (\E st \in {"ok", "failed"} : Void!Deliver(st)) /\ vDep.tries > 1 /\
               vDep' = [vDep EXCEPT !.tries = @ - 1]
      BY <2>1, <2>5, <1>d
    <2>6. CASE Void!Fault /\ (\E st \in {"running", "ok", "failed"} : Void!Deliver(st)) /\ Void!Failed
      BY <2>1, <2>6, <1>d
    <2> QED BY <1>14, <2>2, <2>3, <2>4, <2>5, <2>6 DEF Void!MigrateLegacy
  <1>15. ASSUME Void!WorkerEnds PROVE Goal
    <2>1. PICK st \in {"ok", "failed"} : /\ vExec' = [vExec EXCEPT !.st = st]
             /\ vApplied' = IF st = "ok" /\ vExec.level > vApplied THEN vExec.level ELSE vApplied
      BY <1>15 DEF Void!WorkerEnds
    <2>2. vExec' \in Void!Execs /\ vExec'.n = vExec.n /\ vExec'.level = vExec.level /\ vExec'.st = st /\
          vExec.level \in Void!Levels
      BY <2>1, <1>t DEF Void!Execs
    <2>3. /\ vApplied' \in Void!Levels /\ vApplied' \in Nat /\ vApplied' >= vApplied
          /\ (st = "ok" => vApplied' >= vExec.level)
      BY <2>1, <2>2, <1>t, <1>n DEF Void!Levels
    <2>4. BaseT /\ vDep' = vDep /\ vLeft' = vLeft BY <1>15, <1>t DEF Void!WorkerEnds
    <2>5. Void!Begun' = Void!Begun BY <2>4 DEF Void!Begun
    <2>6. Void!AppliedInv' BY <2>2, <2>3, <2>4, <2>5, <1>i, <1>n DEF Void!AppliedInv
    <2>7. Void!PostedInv'
      BY <2>2, <2>4, <1>j DEF Void!PostedInv, Void!NoBlindRetry, Void!Unposted
    <2> QED BY <2>2, <2>3, <2>4, <2>6, <2>7, <1>q, <1>t
  <1>16. ASSUME Void!CelldActivate PROVE Goal
    <2>1. vDep.pc = "activate" /\ vDep' = [vDep EXCEPT !.pc = "hashes", !.at = 1]
      BY <1>16 DEF Void!CelldActivate, Void!At
    <2>2. BaseT /\ Same /\ vLeft' = vLeft BY <1>16, <1>t, <1>h DEF Void!CelldActivate
    <2>3. 1 \in 1 .. Len(VoidCohosted) + 1 /\ vDep.gen \in SUBSET Void!Scripts
      BY <1>t DEF Void!Bounds, Void!Deploys
    <2>5. /\ vDep' \in Void!Deploys /\ vDep'.pc = "hashes" /\ vDep'.n = vDep.n
          /\ vDep'.level = vDep.level
          /\ vDep'.staged = vDep.staged /\ vDep'.migrated = vDep.migrated
      <3>1. "hashes" \in Void!Pcs BY <1>p
      <3> QED BY <3>1, <2>1, <2>3, <1>t DEF Void!Deploys
    <2>6. Inv BY <2>1, <2>2, <2>5, <1>k, <1>i, <1>j DEF Void!Unposted
    <2> QED BY <2>2, <2>5, <2>6, <1>s, <1>q, <1>t
  <1>17. ASSUME Void!CelldActivateFails PROVE Goal
    <2>1. BaseT BY <1>17, <1>t, <1>h DEF Void!CelldActivateFails
    <2> QED BY <1>17, <2>1, <1>x DEF Void!CelldActivateFails
  <1>18. ASSUME Void!SetCohostHash PROVE Goal
    <2> DEFINE s == VoidCohosted[vDep.at]
               i == vDep.at + 1
    <2>1. /\ vDep.pc = "hashes" /\ vDep.at <= Len(VoidCohosted) /\ vDep' = [vDep EXCEPT !.at = i]
          /\ vHash' = IF s \in vDep.gen THEN [vHash EXCEPT ![s] = Void!ContentHash(vDep.render[s])] ELSE vHash
      BY <1>18 DEF Void!SetCohostHash, Void!At
    <2>2. vDep.at \in 1 .. Len(VoidCohosted) + 1 /\ vDep.gen \in SUBSET Void!Scripts /\
          Len(VoidCohosted) \in Nat /\ vDep.render \in Void!Renders
      BY <1>t DEF Void!Deploys, Void!Bounds
    <2>3. i \in 1 .. Len(VoidCohosted) + 1 /\ s \in Void!Scripts
      BY <2>1, <2>2 DEF Void!Bounds, Void!Scripts
    <2>4. vHash' \in Void!Renders BY <2>1, <2>2, <2>3, <1>t DEF Void!Renders, Void!ContentHash
    <2>5. BaseT /\ Same /\ vLeft' = vLeft BY <1>18, <2>4, <1>t DEF Void!SetCohostHash
    <2> HIDE DEF i, s
    <2>7. vDep' \in Void!Deploys /\ vDep'.pc = "hashes" /\ vDep'.n = vDep.n /\ vDep'.level = vDep.level
          /\ vDep'.staged = vDep.staged /\ vDep'.migrated = vDep.migrated
      BY <2>1, <2>3, <1>t DEF Void!Deploys
    <2>8. Inv BY <2>1, <2>5, <2>7, <1>k, <1>i, <1>j DEF Void!Unposted
    <2> QED BY <2>5, <2>7, <2>8, <1>s, <1>q, <1>t
  <1>19. ASSUME Void!Adopt PROVE Goal
    <2>1. vDep.pc = "hashes" /\ Void!To("gate") BY <1>19 DEF Void!Adopt, Void!At
    <2>2. BaseT /\ Same /\ vLeft' = vLeft BY <1>19, <1>t DEF Void!Adopt, Void!Pointers
    <2>3. /\ vDep' \in Void!Deploys /\ vDep'.pc = "gate" /\ vDep'.n = vDep.n /\ vDep'.level = vDep.level
          /\ vDep'.staged = vDep.staged /\ vDep'.migrated = vDep.migrated
      BY <2>1, <1>p, <1>t, VoidToL
    <2>4. Inv BY <2>1, <2>2, <2>3, <1>k, <1>i, <1>j DEF Void!Unposted
    <2> QED BY <2>2, <2>3, <2>4, <1>s, <1>q, <1>t
  <1>20. ASSUME Void!HealthGate PROVE Goal
    <2>1. PICK p \in {"route", "begin"} : vDep' = [vDep EXCEPT !.pc = p, !.staged = FALSE] /\ (p = "begin" => ~vDep.migrated)
      BY <1>20 DEF Void!HealthGate
    <2>2. vDep.pc = "gate" BY <1>20 DEF Void!HealthGate, Void!At
    <2>3. BaseT /\ Same /\ vLeft' = vLeft BY <1>20, <1>t DEF Void!HealthGate
    <2>4. /\ vDep' \in Void!Deploys /\ vDep'.pc = p /\ vDep'.n = vDep.n /\ vDep'.level = vDep.level
          /\ vDep'.staged = FALSE /\ vDep'.migrated = vDep.migrated
      <3>1. "begin" \in Void!Pcs /\ "route" \in Void!Pcs BY <1>p
      <3> QED BY <2>1, <3>1, <1>t DEF Void!Deploys
    <2>5. Inv BY <2>1, <2>2, <2>3, <2>4, <1>k, <1>i, <1>j DEF Void!Unposted
    <2> QED BY <2>3, <2>4, <2>5, <1>s, <1>q, <1>t
  <1>21. ASSUME Void!StoppedEarly PROVE Goal
    <2>1. vDep.pc = "gate" /\ Void!To("route") BY <1>21 DEF Void!StoppedEarly, Void!At
    <2>2. BaseT /\ Same /\ vLeft' = vLeft BY <1>21, <1>t DEF Void!StoppedEarly
    <2>3. /\ vDep' \in Void!Deploys /\ vDep'.pc = "route" /\ vDep'.n = vDep.n
          /\ vDep'.level = vDep.level
          /\ vDep'.staged = vDep.staged /\ vDep'.migrated = vDep.migrated
      BY <2>1, <1>p, <1>t, VoidToL
    <2>4. Inv BY <2>1, <2>2, <2>3, <1>k, <1>i, <1>j DEF Void!Unposted
    <2> QED BY <2>2, <2>3, <2>4, <1>s, <1>q, <1>t
  <1>22. ASSUME Void!RouteLive PROVE Goal
    <2>1. BaseT /\ Void!Failed BY <1>22, <1>t DEF Void!RouteLive, Void!Failed
    <2> QED BY <1>22, <2>1, <1>x DEF Void!RouteLive
  <1>23. ASSUME Void!StepFails PROVE Goal
    <2> QED BY <1>23, <1>u, <1>x DEF Void!StepFails
  <1>24. ASSUME Void!FleetStops \/ Void!FleetStarts \/ UNCHANGED voidVars PROVE Goal
    <2>1. vPtr.app \in Void!Levels \cup {-1} BY <1>t DEF Void!Pointers
    <2>2. BaseT /\ vDep' = vDep /\ vExec' = vExec /\ vApplied' = vApplied /\
          (vLeft' = vLeft \/ Void!Fault)
      BY <1>24, <2>1, <1>t DEF Void!FleetStops, Void!FleetStarts, voidVars
    <2>3. vLeft' \in Void!Lefts /\ Void!Begun' = Void!Begun BY <2>2, <1>v DEF Void!Begun
    <2>4. Void!AppliedInv' BY <2>2, <2>3, <1>i DEF Void!AppliedInv
    <2>5. Void!PostedInv' BY <2>2, <1>j DEF Void!PostedInv, Void!NoBlindRetry, Void!Unposted
    <2> QED BY <2>2, <2>3, <2>4, <2>5, <1>s, <1>q, <1>t
  <1> HIDE DEF Goal
  <1>z. Goal
    BY <1>1, <1>2, <1>3, <1>4, <1>5, <1>6, <1>7, <1>8, <1>9, <1>10, <1>11, <1>12, <1>13, <1>14,
       <1>15, <1>16, <1>17, <1>18, <1>19, <1>20, <1>21, <1>22, <1>23, <1>24 DEF Void!Next
  <1> QED BY <1>z DEF Goal

(* The invariant says that traffic follows the migrations. *)
LEMMA VoidTraffic == ASSUME Void!AppliedInv PROVE Void!MigratedBeforeTraffic
  BY DEF Void!AppliedInv, Void!MigratedBeforeTraffic, Void!At

(* A step of the suite is a step of the Void deploys or leaves them alone. *)
LEMMA VoidNext == [Next]_allVars => [Void!Next]_voidVars
  BY DEF Next, allVars, VoidStep, ScanStep, GitStep, PrsStep, WebStep, ConfStep, MapsStep,
         ImpStep, BootStep, R2Step, D1Step, S3Step

(* The inductive invariant of the Void deploys. *)
LEMMA VoidInductive == Spec => [](Void!TypeOK /\ Void!AppliedInv /\ Void!PostedInv)
  <1> DEFINE Inv == Void!TypeOK /\ Void!AppliedInv /\ Void!PostedInv
  <1>1. Init => Inv BY VoidBounds, VoidInitL DEF Init
  <1>2. Inv /\ [Next]_allVars => Inv' BY VoidBounds, VoidNext, VoidSteps
  <1> QED BY <1>1, <1>2, PTL DEF Spec

(* What is activated through the staged worker, and what is routed as       *)
(* migrated, has its migrations in the database, for every number of        *)
(* co-hosted scripts, deploys and migrations, whichever answers are lost    *)
(* and whichever runs outlive their client (void_migrate.rs, deploy.rs).    *)
THEOREM MigrationsPrecedeTraffic == Spec => []MigratedBeforeTraffic
  <1>1. Void!AppliedInv => MigratedBeforeTraffic BY VoidTraffic DEF MigratedBeforeTraffic
  <1> QED BY <1>1, VoidInductive, PTL

(* No deploy sends its migrations while a run of its own may still be       *)
(* going on in the worker: a lost answer is reconciled, not posted again    *)
(* (void_migrate.rs migrate_app, migrate_legacy).                           *)
THEOREM MigrationsAreNotPostedTwice == Spec => []Void!NoBlindRetry
  <1>1. Void!PostedInv => Void!NoBlindRetry BY DEF Void!PostedInv
  <1> QED BY <1>1, VoidInductive, PTL


-----------------------------------------------------------------------------
(* Migrations (MigrationScan). *)
(* Induction along an interval of the text, from the least counterexample. *)
LEMMA ScanUptoL ==
  ASSUME NEW a \in Nat, NEW b \in Nat, NEW S, a <= b => a \in S,
         \A j \in a + 1 .. b : j - 1 \in S => j \in S
  PROVE  a .. b \subseteq S
  <1> DEFINE B == {j \in a .. b : j \notin S}
  <1> SUFFICES ASSUME B # {} PROVE FALSE OBVIOUS
  <1>1. B \in SUBSET Nat OBVIOUS
  <1>2. PICK u \in B : \A w \in B : u <= w BY <1>1, NatMin
  <1>3. u \in a + 1 .. b BY <1>2
  <1>4. u - 1 \notin B BY <1>2, <1>3
  <1>5. u - 1 \in S BY <1>3, <1>4
  <1> QED BY <1>2, <1>3, <1>5

(* The least of a set of numbers is in it and below the others. *)
LEMMA ScanMinL ==
  ASSUME NEW S \in SUBSET Nat, S # {}
  PROVE  Scan!MinOf(S) \in S /\ \A y \in S : Scan!MinOf(S) <= y
  <1>1. \E u \in S : \A w \in S : u <= w BY NatMin
  <1> QED BY <1>1 DEF Scan!MinOf

(* A file has a length within the bound, and a symbol at each place. *)
LEMMA ScanFilesL ==
  ASSUME Scan!Bounds, NEW sql \in Scan!Files
  PROVE  Len(sql) \in Nat /\ Len(sql) <= ScanMaxLen /\ \A i \in 1 .. Len(sql) : Scan!SymAt(sql, i) = sql[i]
  <1>1. PICK n \in 0 .. ScanMaxLen : sql \in [1 .. n -> ScanSymbols] BY DEF Scan!Files
  <1>2. n \in Nat BY <1>1 DEF Scan!Bounds
  <1>3. sql \in Seq(ScanSymbols) BY <1>1, <1>2
  <1>4. Len(sql) = n BY <1>1, <1>2, <1>3
  <1> QED BY <1>1, <1>2, <1>4 DEF Scan!SymAt, Scan!Bounds

(* The lexer stays within its modes. *)
LEMMA ScanLexL == ASSUME NEW m \in Scan!Modes, NEW c PROVE Scan!Lex(m, c) \in Scan!Modes
  BY DEF Scan!Modes, Scan!Lex

(* The lexer has a run on every prefix, by induction on its length. *)
LEMMA ScanPrefixL ==
  ASSUME NEW sql, NEW n \in Nat
  PROVE  \E f \in [0 .. n -> Scan!Modes] : f[0] = "sql" /\ \A i \in 1 .. n : f[i] = Scan!Lex(f[i - 1], sql[i])
  <1> DEFINE Has(k) == \E f \in [0 .. k -> Scan!Modes] :
                           f[0] = "sql" /\ \A i \in 1 .. k : f[i] = Scan!Lex(f[i - 1], sql[i])
             S == {k \in 0 .. n : Has(k)}
  <1>1. Has(0)
    <2> DEFINE f == [i \in 0 .. 0 |-> "sql"]
    <2>1. f \in [0 .. 0 -> Scan!Modes] /\ f[0] = "sql" BY DEF Scan!Modes
    <2>2. \A i \in 1 .. 0 : f[i] = Scan!Lex(f[i - 1], sql[i]) OBVIOUS
    <2> HIDE DEF f
    <2> QED BY <2>1, <2>2
  <1>2. ASSUME NEW k \in 1 .. n, Has(k - 1) PROVE Has(k)
    <2>1. PICK f \in [0 .. k - 1 -> Scan!Modes] :
              f[0] = "sql" /\ \A i \in 1 .. k - 1 : f[i] = Scan!Lex(f[i - 1], sql[i])
      BY <1>2
    <2> DEFINE g == [i \in 0 .. k |-> IF i = k THEN Scan!Lex(f[k - 1], sql[k]) ELSE f[i]]
    <2>2. Scan!Lex(f[k - 1], sql[k]) \in Scan!Modes BY <2>1, ScanLexL
    <2>3. g \in [0 .. k -> Scan!Modes] BY <2>1, <2>2
    <2>4. g[0] = "sql" BY <2>1
    <2>5. ASSUME NEW i \in 1 .. k PROVE g[i] = Scan!Lex(g[i - 1], sql[i])
      <3>1. CASE i = k
        <4>1. g[i] = Scan!Lex(f[k - 1], sql[k]) /\ g[i - 1] = f[k - 1] BY <3>1
        <4> QED BY <4>1, <3>1
      <3>2. CASE i # k
        <4>1. i \in 1 .. k - 1 /\ g[i] = f[i] /\ g[i - 1] = f[i - 1] BY <3>2
        <4> QED BY <4>1, <2>1
      <3> QED BY <3>1, <3>2
    <2> HIDE DEF g
    <2> QED BY <2>3, <2>4, <2>5
  <1> HIDE DEF Has
  <1>3. 0 \in S BY <1>1
  <1>4. \A k \in 0 + 1 .. n : k - 1 \in S => k \in S BY <1>2
  <1> HIDE DEF S
  <1>5. 0 .. n \subseteq S BY <1>3, <1>4, ScanUptoL, ZenonT(40)
  <1> QED BY <1>5 DEF S, Has

(* The lexer's run on a file: it starts in code and each symbol is one step. *)
LEMMA ScanLexedL ==
  ASSUME NEW sql, Len(sql) \in Nat
  PROVE  /\ Scan!Lexed(sql) \in [0 .. Len(sql) -> Scan!Modes]
         /\ Scan!Lexed(sql)[0] = "sql"
         /\ \A i \in 1 .. Len(sql) : Scan!Lexed(sql)[i] = Scan!Lex(Scan!Lexed(sql)[i - 1], sql[i])
  <1> DEFINE L == Len(sql)
             Step(f) == [i \in 0 .. L |-> IF i = 0 THEN "sql" ELSE Scan!Lex(f[i - 1], sql[i])]
  <1>1. PICK f \in [0 .. L -> Scan!Modes] : f[0] = "sql" /\ \A i \in 1 .. L : f[i] = Scan!Lex(f[i - 1], sql[i])
    BY ScanPrefixL
  <1>2. f = Step(f) BY <1>1
  <1>3. Scan!Lexed(sql) = CHOOSE g : g = Step(g) BY DEF Scan!Lexed
  <1>4. Scan!Lexed(sql) = Step(Scan!Lexed(sql)) BY <1>2, <1>3
  <1> DEFINE g == Scan!Lexed(sql)
  <1>5. g[0] = "sql" /\ DOMAIN g = 0 .. L BY <1>4
  <1>6. \A i \in 1 .. L : g[i] = Scan!Lex(g[i - 1], sql[i]) BY <1>4
  <1>7. g = [i \in 0 .. L |-> g[i]] BY <1>4
  <1> HIDE DEF g
  <1> DEFINE S == {k \in 0 .. L : g[k] \in Scan!Modes}
  <1>8. 0 \in S BY <1>5 DEF Scan!Modes
  <1>9. \A k \in 0 + 1 .. L : k - 1 \in S => k \in S BY <1>6, ScanLexL
  <1> HIDE DEF S
  <1>10. 0 .. L \subseteq S BY <1>8, <1>9, ScanUptoL, ZenonT(40)
  <1>11. \A k \in 0 .. L : g[k] \in Scan!Modes BY <1>10 DEF S
  <1>12. g \in [0 .. L -> Scan!Modes] BY <1>7, <1>11
  <1> QED BY <1>5, <1>6, <1>12 DEF g

(* A segment ends after it starts, at the first place it can stop or at the end of the file. *)
LEMMA ScanEndL ==
  ASSUME Scan!Bounds, NEW sql \in Scan!Files, NEW i \in 1 .. Len(sql)
  PROVE  LET e == Scan!TokenEnd(sql, i)
         IN  /\ e \in i + 1 .. Len(sql) + 1
             /\ e = Len(sql) + 1 \/ e \in Scan!Stops(sql, i)
             /\ \A k \in i + 1 .. e - 1 : k \notin Scan!Stops(sql, i)
  <1> DEFINE S == {Len(sql) + 1} \cup Scan!Stops(sql, i)
  <1>1. Len(sql) \in Nat BY ScanFilesL
  <1>2. Scan!Stops(sql, i) \subseteq i + 1 .. Len(sql) + 1 BY <1>1 DEF Scan!Stops
  <1>3. S \in SUBSET Nat /\ S # {} BY <1>1, <1>2
  <1>4. Scan!TokenEnd(sql, i) = Scan!MinOf(S) BY DEF Scan!TokenEnd
  <1> HIDE DEF S
  <1>5. Scan!MinOf(S) \in S /\ \A y \in S : Scan!MinOf(S) <= y BY <1>3, ScanMinL
  <1>6. Scan!TokenEnd(sql, i) \in i + 1 .. Len(sql) + 1 BY <1>1, <1>2, <1>4, <1>5 DEF S
  <1>7. ASSUME NEW k \in i + 1 .. Scan!TokenEnd(sql, i) - 1, k \in Scan!Stops(sql, i)
        PROVE  FALSE
    <2>1. Scan!TokenEnd(sql, i) <= k BY <1>4, <1>5, <1>7 DEF S
    <2> QED BY <1>6, <1>7, <2>1
  <1> QED BY <1>4, <1>5, <1>6, <1>7 DEF S

(* What the symbols at a place say about the segment that opens there. *)
LEMMA ScanOpensL ==
  ASSUME Scan!Bounds, NEW sql \in Scan!Files, NEW i \in 1 .. Len(sql)
  PROVE  /\ Scan!Opens(sql, i) \in Scan!Kinds
         /\ Scan!Opens(sql, i) = "line" <=> sql[i] = "--"
         /\ Scan!Opens(sql, i) = "string" <=> sql[i] = "'"
         /\ Scan!Opens(sql, i) = "ident" <=> sql[i] = "["
         /\ Scan!Opens(sql, i) = "block" <=> sql[i] = "/" /\ i < Len(sql) /\ sql[i + 1] = "*"
  <1>1. Len(sql) \in Nat /\ Scan!SymAt(sql, i) = sql[i] BY ScanFilesL
  <1>2. Scan!SymAt(sql, i + 1) = "*" <=> i < Len(sql) /\ sql[i + 1] = "*" BY <1>1 DEF Scan!SymAt
  <1> QED BY <1>1, <1>2 DEF Scan!Opens, Scan!Kinds

(* A run of sql: the lexer is in code at its visible bytes, and where it ends a segment can start. *)
LEMMA ScanSqlL ==
  ASSUME Scan!Bounds, NEW sql \in Scan!Files, NEW i \in 1 .. Len(sql), Scan!Between(sql, i), Scan!Opens(sql, i) = "sql"
  PROVE  LET e == Scan!TokenEnd(sql, i)
         IN  Scan!Between(sql, e) /\ \A j \in (i .. e - 1) \cap Scan!Visible(sql) : j \in Scan!CodeByLexer(sql)
  <1> DEFINE L == Len(sql)
             e == Scan!TokenEnd(sql, i)
             Lx == Scan!Lexed(sql)
             S == {j \in i .. e - 1 : Lx[j] \in Scan!Code /\ (Lx[j] = "slash" <=> sql[j] = "/")}
  <1>1. L \in Nat /\ i \in Nat BY ScanFilesL
  <1>2. \A k \in 1 .. L : Lx[k] = Scan!Lex(Lx[k - 1], sql[k]) BY <1>1, ScanLexedL
  <1>3. /\ e \in i + 1 .. L + 1
        /\ e = L + 1 \/ e \in Scan!Stops(sql, i)
        /\ \A k \in i + 1 .. e - 1 : k \notin Scan!Stops(sql, i)
    BY ScanEndL
  <1>4. ASSUME NEW j \in i .. e - 1 PROVE j \in 1 .. L /\ Scan!Opens(sql, j) = "sql"
    <2>1. j = i \/ j \in i + 1 .. e - 1 BY <1>1, <1>3
    <2>2. j \in 1 .. L BY <1>1, <1>3
    <2>3. j \in i + 1 .. e - 1 => Scan!Opens(sql, j) = "sql" BY <1>1, <1>3, <2>2 DEF Scan!Stops
    <2> QED BY <2>1, <2>2, <2>3
  <1>5. \A j \in i .. e - 1 :
            sql[j] \notin {"--", "'", "["} /\ ~(sql[j] = "/" /\ j < L /\ sql[j + 1] = "*")
    BY <1>4, ScanOpensL
  <1>6. Lx[i - 1] = "sql" \/ (Lx[i - 1] = "line" /\ sql[i] = "nl") BY <1>1 DEF Scan!Between
  <1> HIDE DEF Lx, e
  <1>7. i \in S
    <2>1. i \in i .. e - 1 /\ i \in 1 .. L BY <1>1, <1>3
    <2>2. Lx[i] = Scan!Lex(Lx[i - 1], sql[i]) BY <1>2, <2>1
    <2>3. sql[i] \notin {"--", "'", "["} BY <1>5, <2>1
    <2>4. Lx[i] \in Scan!Code /\ (Lx[i] = "slash" <=> sql[i] = "/")
      BY <1>6, <2>2, <2>3 DEF Scan!Lex, Scan!Code
    <2> QED BY <2>1, <2>4
  <1>8. ASSUME NEW j \in i + 1 .. e - 1, j - 1 \in S PROVE j \in S
    <2>1. j \in i .. e - 1 /\ j \in 1 .. L /\ j - 1 \in i .. e - 1 /\ j - 1 < L /\ (j - 1) + 1 = j
      BY <1>1, <1>3
    <2>2. Lx[j] = Scan!Lex(Lx[j - 1], sql[j]) BY <1>2, <2>1
    <2>3. sql[j] \notin {"--", "'", "["} /\ ~(sql[j - 1] = "/" /\ sql[j] = "*") BY <1>5, <2>1
    <2>4. Lx[j - 1] \in Scan!Code /\ (Lx[j - 1] = "slash" <=> sql[j - 1] = "/") BY <1>8
    <2>5. Lx[j] \in Scan!Code /\ (Lx[j] = "slash" <=> sql[j] = "/")
      BY <2>2, <2>3, <2>4 DEF Scan!Lex, Scan!Code
    <2> QED BY <2>1, <2>5
  <1> HIDE DEF S
  <1>9. e \in Nat /\ e - 1 \in Nat BY <1>1, <1>3
  <1>10. i .. e - 1 \subseteq S BY <1>1, <1>7, <1>8, <1>9, ScanUptoL, ZenonT(40)
  <1>11. \A j \in i .. e - 1 : Lx[j] \in Scan!Code /\ (Lx[j] = "slash" <=> sql[j] = "/")
    BY <1>10 DEF S
  <1>12. Scan!Between(sql, e)
    <2>1. SUFFICES ASSUME e <= L
                   PROVE  Lx[e - 1] = "sql" \/ (Lx[e - 1] = "slash" /\ Scan!Opens(sql, e) # "sql")
      BY DEF Scan!Between, Lx
    <2>2. e \in Scan!Stops(sql, i) BY <1>1, <1>3, <2>1
    <2>3. Scan!Opens(sql, e) # "sql" BY <2>2 DEF Scan!Stops
    <2>4. Lx[e - 1] \in Scan!Code BY <1>11, <1>1, <1>3
    <2> QED BY <2>3, <2>4 DEF Scan!Code
  <1>13. ASSUME NEW j \in i .. e - 1, j \in Scan!Visible(sql) PROVE j \in Scan!CodeByLexer(sql)
    <2>1. j \in 1 .. L BY <1>4
    <2>2. Lx[j] \in Scan!Code BY <1>11
    <2>3. Lx[j - 1] \in Scan!Code
      <3>1. CASE j = i BY <3>1, <1>6, <1>13 DEF Scan!Visible, Scan!Code
      <3>2. CASE j # i
        <4>1. j - 1 \in i .. e - 1 BY <3>2, <1>1, <1>3
        <4> QED BY <4>1, <1>11
      <3> QED BY <3>1, <3>2
    <2>4. ~(j < L /\ Lx[j + 1] = "open")
      <3>1. SUFFICES ASSUME j < L, Lx[j + 1] = "open" PROVE FALSE OBVIOUS
      <3>2. j + 1 \in 1 .. L /\ (j + 1) - 1 = j BY <2>1, <1>1, <3>1
      <3>3. Lx[j + 1] = Scan!Lex(Lx[j], sql[j + 1]) BY <1>2, <3>2
      <3>4. Lx[j] = "slash" /\ sql[j + 1] = "*" BY <3>1, <3>3, <2>2 DEF Scan!Lex, Scan!Code
      <3> QED BY <3>1, <3>4, <1>5, <1>11
    <2> QED BY <2>1, <2>2, <2>3, <2>4 DEF Scan!CodeByLexer, Lx
  <1> QED BY <1>12, <1>13 DEF e

(* A line comment: the lexer stays in it to the newline. *)
LEMMA ScanLineL ==
  ASSUME Scan!Bounds, NEW sql \in Scan!Files, NEW i \in 1 .. Len(sql), Scan!Between(sql, i), Scan!Opens(sql, i) = "line"
  PROVE  LET e == Scan!TokenEnd(sql, i)
         IN  Scan!Between(sql, e) /\ \A j \in i .. e - 1 : j \notin Scan!CodeByLexer(sql)
  <1> DEFINE L == Len(sql)
             e == Scan!TokenEnd(sql, i)
             Lx == Scan!Lexed(sql)
             S == {j \in i .. e - 1 : Lx[j] = "line"}
  <1>1. L \in Nat /\ i \in Nat BY ScanFilesL
  <1>2. \A k \in 1 .. L : Lx[k] = Scan!Lex(Lx[k - 1], sql[k]) BY <1>1, ScanLexedL
  <1>3. /\ e \in i + 1 .. L + 1
        /\ e = L + 1 \/ e \in Scan!Stops(sql, i)
        /\ \A k \in i + 1 .. e - 1 : k \notin Scan!Stops(sql, i)
    BY ScanEndL
  <1>4. \A j \in i + 1 .. e - 1 : j \in 1 .. L /\ sql[j] # "nl" BY <1>1, <1>3 DEF Scan!Stops
  <1>5. sql[i] = "--" BY ScanOpensL
  <1>6. Lx[i - 1] \in Scan!Code BY <1>1, <1>5 DEF Scan!Between, Scan!Code
  <1> HIDE DEF Lx, e
  <1>7. i \in S
    <2>1. i \in i .. e - 1 /\ i \in 1 .. L BY <1>1, <1>3
    <2>2. Lx[i] = Scan!Lex(Lx[i - 1], sql[i]) BY <1>2, <2>1
    <2> QED BY <1>5, <1>6, <2>1, <2>2 DEF Scan!Lex, Scan!Code
  <1>8. ASSUME NEW j \in i + 1 .. e - 1, j - 1 \in S PROVE j \in S
    <2>1. j \in i .. e - 1 /\ j \in 1 .. L BY <1>1, <1>3
    <2>2. Lx[j] = Scan!Lex(Lx[j - 1], sql[j]) BY <1>2, <2>1
    <2>3. sql[j] # "nl" BY <1>4
    <2> QED BY <1>8, <2>1, <2>2, <2>3 DEF Scan!Lex
  <1> HIDE DEF S
  <1>9. e \in Nat /\ e - 1 \in Nat BY <1>1, <1>3
  <1>10. i .. e - 1 \subseteq S BY <1>1, <1>7, <1>8, <1>9, ScanUptoL, ZenonT(40)
  <1>11. \A j \in i .. e - 1 : Lx[j] = "line" BY <1>10 DEF S
  <1>12. Scan!Between(sql, e)
    <2>1. SUFFICES ASSUME e <= L PROVE Lx[e - 1] = "line" /\ sql[e] = "nl" BY DEF Scan!Between, Lx
    <2>2. e \in Scan!Stops(sql, i) BY <1>1, <1>3, <2>1
    <2>3. sql[e] = "nl" BY <2>2 DEF Scan!Stops
    <2> QED BY <2>3, <1>11, <1>1, <1>3
  <1>13. \A j \in i .. e - 1 : j \notin Scan!CodeByLexer(sql)
    BY <1>11 DEF Scan!CodeByLexer, Lx, Scan!Code
  <1> QED BY <1>12, <1>13 DEF e

(* A bracketed identifier: the lexer stays in it to the bracket that closes it. *)
LEMMA ScanIdentL ==
  ASSUME Scan!Bounds, NEW sql \in Scan!Files, NEW i \in 1 .. Len(sql), Scan!Between(sql, i), Scan!Opens(sql, i) = "ident"
  PROVE  LET e == Scan!TokenEnd(sql, i)
         IN  Scan!Between(sql, e) /\ \A j \in i .. e - 1 : j \notin Scan!CodeByLexer(sql)
  <1> DEFINE L == Len(sql)
             e == Scan!TokenEnd(sql, i)
             Lx == Scan!Lexed(sql)
             S == {j \in i .. e - 1 : Lx[j] = "ident"}
  <1>1. L \in Nat /\ i \in Nat BY ScanFilesL
  <1>2. \A k \in 1 .. L : Lx[k] = Scan!Lex(Lx[k - 1], sql[k]) BY <1>1, ScanLexedL
  <1>3. /\ e \in i + 1 .. L + 1
        /\ e = L + 1 \/ e \in Scan!Stops(sql, i)
        /\ \A k \in i + 1 .. e - 1 : k \notin Scan!Stops(sql, i)
    BY ScanEndL
  <1>4. ASSUME NEW j \in i + 1 .. e - 2 PROVE j \in 1 .. L /\ sql[j] # "]"
    <2>1. j + 1 \in i + 1 .. e - 1 /\ j + 1 \in i + 2 .. L + 1 /\ (j + 1) - 1 = j /\ j \in 1 .. L
      BY <1>1, <1>3
    <2>2. j + 1 \notin Scan!Stops(sql, i) BY <1>3, <2>1
    <2> QED BY <2>1, <2>2 DEF Scan!Stops
  <1>5. sql[i] = "[" BY ScanOpensL
  <1>6. Lx[i - 1] \in Scan!Code BY <1>1, <1>5 DEF Scan!Between, Scan!Code
  <1>s. e \in Scan!Stops(sql, i) => e >= i + 2 /\ sql[e - 1] = "]" BY DEF Scan!Stops
  <1> HIDE DEF Lx, e
  <1>7. i \in S
    <2>1. i \in i .. e - 1 /\ i \in 1 .. L BY <1>1, <1>3
    <2>2. Lx[i] = Scan!Lex(Lx[i - 1], sql[i]) BY <1>2, <2>1
    <2> QED BY <1>5, <1>6, <2>1, <2>2 DEF Scan!Lex, Scan!Code
  <1>8. ASSUME NEW j \in i + 1 .. e - 2, j - 1 \in S PROVE j \in S
    <2>1. j \in i .. e - 1 /\ j \in 1 .. L BY <1>1, <1>3
    <2>2. Lx[j] = Scan!Lex(Lx[j - 1], sql[j]) BY <1>2, <2>1
    <2>3. sql[j] # "]" BY <1>4
    <2> QED BY <1>8, <2>1, <2>2, <2>3 DEF Scan!Lex
  <1> HIDE DEF S
  <1>9. e \in Nat /\ e - 2 \in Nat BY <1>1, <1>3
  <1>10. i .. e - 2 \subseteq S BY <1>1, <1>7, <1>8, <1>9, ScanUptoL, ZenonT(40)
  <1>11. \A j \in i .. e - 2 : Lx[j] = "ident" BY <1>10 DEF S
  <1>12. Scan!Between(sql, e)
    <2>1. SUFFICES ASSUME e <= L PROVE Lx[e - 1] = "sql" BY DEF Scan!Between, Lx
    <2>2. e \in Scan!Stops(sql, i) BY <1>1, <1>3, <2>1
    <2>3. e - 1 \in 1 .. L /\ e - 2 \in i .. e - 2 /\ (e - 1) - 1 = e - 2
      BY <1>1, <1>3, <1>s, <2>1, <2>2
    <2>4. Lx[e - 1] = Scan!Lex(Lx[e - 2], sql[e - 1]) BY <1>2, <2>3
    <2> QED BY <1>11, <1>s, <2>2, <2>3, <2>4 DEF Scan!Lex
  <1>13. ASSUME NEW j \in i .. e - 1 PROVE j \notin Scan!CodeByLexer(sql)
    <2>1. CASE j = i
      <3>1. Lx[i] = "ident" BY <1>7 DEF S
      <3> QED BY <3>1, <2>1 DEF Scan!CodeByLexer, Lx, Scan!Code
    <2>2. CASE j # i
      <3>1. j - 1 \in i .. e - 2 BY <2>2, <1>1, <1>3
      <3>2. Lx[j - 1] = "ident" BY <3>1, <1>11
      <3> QED BY <3>2 DEF Scan!CodeByLexer, Lx, Scan!Code
    <2> QED BY <2>1, <2>2
  <1> QED BY <1>12, <1>13 DEF e

(* A block comment: the lexer stays in it to the star and slash that close it. *)
LEMMA ScanBlockL ==
  ASSUME Scan!Bounds, NEW sql \in Scan!Files, NEW i \in 1 .. Len(sql), Scan!Between(sql, i), Scan!Opens(sql, i) = "block"
  PROVE  LET e == Scan!TokenEnd(sql, i)
         IN  Scan!Between(sql, e) /\ \A j \in i .. e - 1 : j \notin Scan!CodeByLexer(sql)
  <1> DEFINE L == Len(sql)
             e == Scan!TokenEnd(sql, i)
             Lx == Scan!Lexed(sql)
             In == {"open", "block", "star"}
             S == {j \in i + 1 .. e - 1 : Lx[j] \in In /\ (Lx[j] = "star" => sql[j] = "*" /\ j >= i + 2)
                                           /\ (sql[j] = "*" /\ j >= i + 2 => Lx[j] = "star")}
  <1>1. L \in Nat /\ i \in Nat BY ScanFilesL
  <1>2. \A k \in 1 .. L : Lx[k] = Scan!Lex(Lx[k - 1], sql[k]) BY <1>1, ScanLexedL
  <1>3. /\ e \in i + 1 .. L + 1
        /\ e = L + 1 \/ e \in Scan!Stops(sql, i)
        /\ \A k \in i + 1 .. e - 1 : k \notin Scan!Stops(sql, i)
    BY ScanEndL
  <1>5. sql[i] = "/" /\ i < L /\ sql[i + 1] = "*" BY ScanOpensL
  <1>6. Lx[i - 1] \in Scan!Code BY <1>1, <1>5 DEF Scan!Between, Scan!Code
  <1>s. \A k : k \in Scan!Stops(sql, i) <=> k \in i + 4 .. L + 1 /\ sql[k - 2] = "*" /\ sql[k - 1] = "/"
    BY DEF Scan!Stops
  <1>t. e >= i + 2 BY <1>1, <1>3, <1>5, <1>s
  <1> HIDE DEF Lx, e
  <1>4. Lx[i] = "slash" /\ Lx[i + 1] = "open"
    <2>1. Lx[i] = Scan!Lex(Lx[i - 1], sql[i]) BY <1>2
    <2>2. Lx[i] = "slash" BY <2>1, <1>5, <1>6 DEF Scan!Lex, Scan!Code
    <2>3. i + 1 \in 1 .. L /\ (i + 1) - 1 = i BY <1>1, <1>5
    <2>4. Lx[i + 1] = Scan!Lex(Lx[i], sql[i + 1]) BY <1>2, <2>3
    <2> QED BY <2>2, <2>4, <1>5 DEF Scan!Lex
  <1>7. i + 1 \in S BY <1>1, <1>3, <1>4, <1>t
  <1>8. ASSUME NEW j \in (i + 1) + 1 .. e - 2, j - 1 \in S PROVE j \in S
    <2>1. j \in i + 1 .. e - 1 /\ j \in 1 .. L /\ j >= i + 2 BY <1>1, <1>3
    <2>2. Lx[j] = Scan!Lex(Lx[j - 1], sql[j]) BY <1>2, <2>1
    <2>3. ~(Lx[j - 1] = "star" /\ sql[j] = "/")
      <3>1. SUFFICES ASSUME Lx[j - 1] = "star", sql[j] = "/" PROVE FALSE OBVIOUS
      <3>2. sql[j - 1] = "*" /\ j - 1 >= i + 2 BY <1>8, <3>1
      <3>3. j + 1 \in i + 4 .. L + 1 /\ (j + 1) - 2 = j - 1 /\ (j + 1) - 1 = j
        BY <3>2, <1>1, <1>3
      <3>4. j + 1 \in Scan!Stops(sql, i) BY <1>s, <3>1, <3>2, <3>3
      <3>5. j + 1 \in i + 1 .. e - 1 BY <1>1, <1>3
      <3> QED BY <1>3, <3>4, <3>5
    <2>4. Lx[j - 1] \in In BY <1>8
    <2>5. Lx[j] \in In /\ (Lx[j] = "star" <=> sql[j] = "*") BY <2>2, <2>3, <2>4 DEF Scan!Lex
    <2> QED BY <2>1, <2>5
  <1> HIDE DEF S
  <1>9. e \in Nat /\ e - 2 \in Nat /\ i + 1 \in Nat BY <1>1, <1>3, <1>t
  <1>10. (i + 1) .. e - 2 \subseteq S BY <1>7, <1>8, <1>9, ScanUptoL, ZenonT(40)
  <1>11. \A j \in (i + 1) .. e - 2 : Lx[j] \in In /\ (sql[j] = "*" /\ j >= i + 2 => Lx[j] = "star")
    BY <1>10 DEF S
  <1>12. Scan!Between(sql, e)
    <2>1. SUFFICES ASSUME e <= L PROVE Lx[e - 1] = "sql" BY DEF Scan!Between, Lx
    <2>2. e \in Scan!Stops(sql, i) BY <1>1, <1>3, <2>1
    <2>3. e >= i + 4 /\ sql[e - 2] = "*" /\ sql[e - 1] = "/" BY <1>s, <2>2
    <2>4. e - 1 \in 1 .. L /\ e - 2 \in (i + 1) .. e - 2 /\ (e - 1) - 1 = e - 2 /\ e - 2 >= i + 2
      BY <1>1, <1>3, <2>1, <2>3
    <2>5. Lx[e - 1] = Scan!Lex(Lx[e - 2], sql[e - 1]) BY <1>2, <2>4
    <2>6. Lx[e - 2] = "star" BY <1>11, <2>3, <2>4
    <2> QED BY <2>3, <2>5, <2>6 DEF Scan!Lex
  <1>13. ASSUME NEW j \in i .. e - 1 PROVE j \notin Scan!CodeByLexer(sql)
    <2>1. CASE j = i BY <2>1, <1>4, <1>5 DEF Scan!CodeByLexer, Lx, Scan!Code
    <2>2. CASE j = i + 1 BY <2>2, <1>4 DEF Scan!CodeByLexer, Lx, Scan!Code
    <2>3. CASE j # i /\ j # i + 1
      <3>1. j - 1 \in (i + 1) .. e - 2 BY <2>3, <1>1, <1>3
      <3>2. Lx[j - 1] \in In BY <3>1, <1>11
      <3> QED BY <3>2 DEF Scan!CodeByLexer, Lx, Scan!Code
    <2> QED BY <2>1, <2>2, <2>3
  <1> QED BY <1>12, <1>13 DEF e

(* Where a run of quotes starts: at this quote after another byte, else where the quote before it has its start. *)
LEMMA ScanRunL ==
  ASSUME NEW sql, NEW i \in Nat, NEW j \in Nat, j > i, sql[j] = "'"
  PROVE  LET s == Scan!RunStart(sql, i, j)
             p == j - 1
         IN  /\ s \in i + 1 .. j
             /\ p = i \/ sql[p] # "'" => s = j
             /\ p > i /\ sql[p] = "'" => s = Scan!RunStart(sql, i, p)
  <1> DEFINE T(k) == {x \in i + 1 .. k : \A m \in x .. k : sql[m] = "'"}
             p == j - 1
  <1>1. j \in T(j) OBVIOUS
  <1>2. T(j) \in SUBSET Nat OBVIOUS
  <1>3. Scan!RunStart(sql, i, j) = Scan!MinOf(T(j)) BY DEF Scan!RunStart
  <1>4. Scan!MinOf(T(j)) \in T(j) /\ \A y \in T(j) : Scan!MinOf(T(j)) <= y
    BY <1>1, <1>2, ScanMinL
  <1>5. Scan!RunStart(sql, i, j) \in i + 1 .. j BY <1>3, <1>4
  <1>6. ASSUME p = i \/ sql[p] # "'" PROVE Scan!RunStart(sql, i, j) = j
    <2> DEFINE s == Scan!MinOf(T(j))
    <2>1. s \in i + 1 .. j /\ \A m \in s .. j : sql[m] = "'" BY <1>4
    <2> HIDE DEF s
    <2>2. s # j => p \in s .. j /\ p # i BY <2>1
    <2>3. s = j BY <2>1, <2>2, <1>6
    <2> QED BY <2>3, <1>3 DEF s
  <1>7. ASSUME p > i, sql[p] = "'" PROVE Scan!RunStart(sql, i, j) = Scan!RunStart(sql, i, p)
    <2>1. p \in T(p) /\ T(p) \in SUBSET Nat BY <1>7
    <2>2. Scan!MinOf(T(p)) \in T(p) /\ \A y \in T(p) : Scan!MinOf(T(p)) <= y BY <2>1, ScanMinL
    <2>3. T(j) = T(p) \cup {j}
      <3>1. ASSUME NEW x \in T(j), x # j PROVE x \in T(p) BY <3>1
      <3>2. ASSUME NEW x \in T(p) PROVE x \in T(j)
        <4>1. x \in i + 1 .. j /\ \A m \in x .. p : sql[m] = "'" OBVIOUS
        <4>2. \A m \in x .. j : m \in x .. p \/ m = j BY <4>1
        <4> QED BY <4>1, <4>2
      <3> QED BY <3>1, <3>2, <1>1
    <2> DEFINE s == Scan!MinOf(T(j))
               u == Scan!MinOf(T(p))
    <2>4. s \in T(j) /\ (\A y \in T(j) : s <= y) /\ u \in T(p) /\ (\A y \in T(p) : u <= y)
      BY <1>4, <2>2
    <2>5. s \in i + 1 .. j /\ u \in i + 1 .. p BY <2>4
    <2>6. Scan!RunStart(sql, i, p) = u BY DEF Scan!RunStart
    <2> HIDE DEF T, s, u
    <2>7. s <= u BY <2>3, <2>4
    <2>8. s # j BY <2>5, <2>7
    <2>9. s \in T(p) BY <2>3, <2>4, <2>8
    <2>10. u <= s BY <2>4, <2>9
    <2>11. s = u BY <2>5, <2>7, <2>10
    <2> QED BY <2>11, <2>6, <1>3 DEF s
  <1> QED BY <1>5, <1>6, <1>7

(* A string: after each quote of a run the lexer is out of it and in again by turns, and tokenize_sql closes it at the first one that leaves it for good. *)
LEMMA ScanStringL ==
  ASSUME Scan!Bounds, NEW sql \in Scan!Files, NEW i \in 1 .. Len(sql), Scan!Between(sql, i), Scan!Opens(sql, i) = "string"
  PROVE  LET e == Scan!TokenEnd(sql, i)
         IN  Scan!Between(sql, e) /\ \A j \in i .. e - 1 : j \notin Scan!CodeByLexer(sql)
  <1> DEFINE L == Len(sql)
             e == Scan!TokenEnd(sql, i)
             Lx == Scan!Lexed(sql)
             Even(j) == (j - Scan!RunStart(sql, i, j)) % 2 = 0
             Out(j) == sql[j] = "'" /\ Even(j)
             S == {j \in i + 1 .. e - 1 : Lx[j] = IF Out(j) THEN "sql" ELSE "string"}
  <1>1. L \in Nat /\ i \in Nat BY ScanFilesL
  <1>2. \A k \in 1 .. L : Lx[k] = Scan!Lex(Lx[k - 1], sql[k]) BY <1>1, ScanLexedL
  <1>3. /\ e \in i + 1 .. L + 1
        /\ e = L + 1 \/ e \in Scan!Stops(sql, i)
        /\ \A k \in i + 1 .. e - 1 : k \notin Scan!Stops(sql, i)
    BY ScanEndL
  <1>4. sql[i] = "'" BY ScanOpensL
  <1>5. Lx[i - 1] \in Scan!Code BY <1>1, <1>4 DEF Scan!Between, Scan!Code
  <1>6. \A k \in Scan!Stops(sql, i) : k >= i + 2 /\ Out(k - 1) BY DEF Scan!Stops, Scan!Closes
  <1>7. ASSUME NEW k \in i + 1 .. e - 2, Out(k) PROVE sql[k + 1] = "'"
    <2>1. k + 1 \in i + 1 .. e - 1 /\ k + 1 \in i + 2 .. L + 1 /\ (k + 1) - 1 = k /\ k + 1 \in 1 .. L
      BY <1>1, <1>3
    <2>2. ~Scan!Closes(sql, i, k) BY <1>3, <2>1 DEF Scan!Stops
    <2>3. Scan!SymAt(sql, k + 1) = "'" BY <1>7, <2>2 DEF Scan!Closes
    <2> QED BY <2>1, <2>3, ScanFilesL
  <1> HIDE DEF Lx, e, Even
  <1>8. Lx[i] = "string"
    <2>1. Lx[i] = Scan!Lex(Lx[i - 1], sql[i]) BY <1>2
    <2> QED BY <2>1, <1>4, <1>5 DEF Scan!Lex, Scan!Code
  <1>9. ASSUME NEW j \in i + 1 .. e - 1, sql[j] = "'"
        PROVE  /\ j - 1 = i \/ sql[j - 1] # "'" => Even(j)
               /\ j - 1 > i /\ sql[j - 1] = "'" => (Even(j) <=> ~Even(j - 1))
    <2> DEFINE s == Scan!RunStart(sql, i, j)
               p == j - 1
    <2>1. j \in Nat /\ j > i /\ p \in Nat BY <1>1, <1>3
    <2>2. /\ s \in i + 1 .. j
          /\ p = i \/ sql[p] # "'" => s = j
          /\ p > i /\ sql[p] = "'" => s = Scan!RunStart(sql, i, p)
      BY <1>1, <1>9, <2>1, ScanRunL
    <2> HIDE DEF s
    <2>3. Even(j) <=> (j - s) % 2 = 0 BY DEF Even, s
    <2>4. Even(p) <=> (p - Scan!RunStart(sql, i, p)) % 2 = 0 BY DEF Even
    <2>5. p = i \/ sql[p] # "'" => Even(j)
      <3>1. (j - j) % 2 = 0 BY <2>1
      <3> QED BY <2>2, <2>3, <3>1
    <2>6. ASSUME p > i, sql[p] = "'" PROVE Even(j) <=> ~Even(p)
      <3>1. p - s \in Int /\ j - s = (p - s) + 1 BY <2>1, <2>2
      <3>2. (j - s) % 2 = 0 <=> ~((p - s) % 2 = 0) BY <3>1
      <3> QED BY <2>2, <2>3, <2>4, <2>6, <3>2
    <2> QED BY <2>5, <2>6
  <1>10. ASSUME i + 1 <= e - 1 PROVE i + 1 \in S
    <2>1. i + 1 \in i + 1 .. e - 1 /\ i + 1 \in 1 .. L /\ (i + 1) - 1 = i BY <1>1, <1>3, <1>10
    <2>2. Lx[i + 1] = Scan!Lex(Lx[i], sql[i + 1]) BY <1>2, <2>1
    <2>3. sql[i + 1] = "'" => Even(i + 1) BY <1>9, <2>1
    <2> QED BY <1>8, <2>1, <2>2, <2>3 DEF Scan!Lex
  <1>11. ASSUME NEW j \in (i + 1) + 1 .. e - 1, j - 1 \in S PROVE j \in S
    <2> DEFINE p == j - 1
    <2>1. j \in i + 1 .. e - 1 /\ j \in 1 .. L /\ p \in i + 1 .. e - 2 /\ p + 1 = j /\ p > i
      BY <1>1, <1>3
    <2>2. Lx[j] = Scan!Lex(Lx[p], sql[j]) BY <1>2, <2>1
    <2>3. Lx[p] = IF Out(p) THEN "sql" ELSE "string" BY <1>11
    <2>4. Out(p) => sql[j] = "'" BY <1>7, <2>1
    <2>5. sql[j] = "'" => (Even(j) <=> ~Out(p)) BY <1>9, <2>1
    <2>6. Lx[j] = IF Out(j) THEN "sql" ELSE "string"
      <3>1. CASE Out(p)
        <4>1. Lx[p] = "sql" /\ sql[j] = "'" /\ ~Even(j) BY <3>1, <2>3, <2>4, <2>5
        <4> QED BY <4>1, <2>2 DEF Scan!Lex
      <3>2. CASE ~Out(p)
        <4>1. Lx[p] = "string" BY <3>2, <2>3
        <4>2. CASE sql[j] = "'"
          <5>1. Out(j) BY <4>2, <3>2, <2>5
          <5> QED BY <4>1, <4>2, <5>1, <2>2 DEF Scan!Lex
        <4>3. CASE sql[j] # "'" BY <4>1, <4>3, <2>2 DEF Scan!Lex
        <4> QED BY <4>2, <4>3
      <3> QED BY <3>1, <3>2
    <2> QED BY <2>1, <2>6
  <1> HIDE DEF S
  <1>12. e - 1 \in Nat /\ i + 1 \in Nat BY <1>1, <1>3
  <1>13. (i + 1) .. e - 1 \subseteq S BY <1>10, <1>11, <1>12, ScanUptoL, ZenonT(40)
  <1>14. \A j \in (i + 1) .. e - 1 : Lx[j] = IF Out(j) THEN "sql" ELSE "string" BY <1>13 DEF S
  <1>15. Scan!Between(sql, e)
    <2>1. SUFFICES ASSUME e <= L PROVE Lx[e - 1] = "sql" BY DEF Scan!Between, Lx
    <2>2. e \in Scan!Stops(sql, i) BY <1>1, <1>3, <2>1
    <2>3. e - 1 \in (i + 1) .. e - 1 /\ Out(e - 1) BY <1>1, <1>3, <1>6, <2>2
    <2> QED BY <2>3, <1>14
  <1>16. ASSUME NEW j \in i .. e - 1 PROVE j \notin Scan!CodeByLexer(sql)
    <2>1. CASE j = i BY <2>1, <1>8 DEF Scan!CodeByLexer, Lx, Scan!Code
    <2>2. CASE j = i + 1
      <3>1. Lx[j - 1] = "string" BY <2>2, <1>1, <1>8
      <3> QED BY <3>1 DEF Scan!CodeByLexer, Lx, Scan!Code
    <2>3. CASE j # i /\ j # i + 1
      <3>1. j - 1 \in i + 1 .. e - 2 /\ j - 1 \in i + 1 .. e - 1 /\ (j - 1) + 1 = j
            /\ j \in i + 1 .. e - 1 /\ j - 1 > i
        BY <2>3, <1>1, <1>3
      <3>2. CASE Out(j - 1)
        <4>1. sql[j] = "'" BY <1>7, <3>1, <3>2
        <4>2. ~Even(j) BY <1>9, <3>1, <3>2, <4>1
        <4>3. Lx[j] = "string" BY <1>14, <3>1, <4>2
        <4> QED BY <4>3 DEF Scan!CodeByLexer, Lx, Scan!Code
      <3>3. CASE ~Out(j - 1)
        <4>1. Lx[j - 1] = "string" BY <1>14, <3>1, <3>3
        <4> QED BY <4>1 DEF Scan!CodeByLexer, Lx, Scan!Code
      <3> QED BY <3>2, <3>3
    <2> QED BY <2>1, <2>2, <2>3
  <1> QED BY <1>15, <1>16 DEF e

(* One segment, whatever its kind: the next can start where it ends, and its visible bytes are code exactly if it is a run of sql. *)
LEMMA ScanSegmentL ==
  ASSUME Scan!Bounds, NEW sql \in Scan!Files, NEW i \in 1 .. Len(sql), Scan!Between(sql, i)
  PROVE  LET e == Scan!TokenEnd(sql, i)
         IN  /\ Scan!Between(sql, e)
             /\ \A j \in (i .. e - 1) \cap Scan!Visible(sql) : Scan!Opens(sql, i) = "sql" <=> j \in Scan!CodeByLexer(sql)
  <1>1. Scan!Opens(sql, i) \in Scan!Kinds BY ScanOpensL
  <1> QED BY <1>1, ScanSqlL, ScanLineL, ScanIdentL, ScanBlockL, ScanStringL DEF Scan!Kinds

(* The invariant holds at first. *)
LEMMA ScanInitL == ASSUME Scan!Bounds, Scan!Init PROVE Scan!TypeOK /\ Scan!ScanInv
  <1>1. << >> \in [1 .. 0 -> ScanSymbols] /\ 0 \in 0 .. ScanMaxLen BY DEF Scan!Bounds
  <1>2. sSql \in Scan!Files BY <1>1 DEF Scan!Init, Scan!Files
  <1>3. Len(sSql) = 0 BY DEF Scan!Init
  <1>4. Scan!TypeOK BY <1>2, <1>3 DEF Scan!Init, Scan!TypeOK
  <1>5. Scan!Between(sSql, sAt) BY <1>3 DEF Scan!Init, Scan!Between
  <1> QED BY <1>4, <1>5 DEF Scan!Init, Scan!ScanInv

(* A file is read when no segment has been cut. *)
LEMMA ScanReadL ==
  ASSUME Scan!Bounds, Scan!TypeOK, Scan!ScanInv, Scan!Read
  PROVE  Scan!TypeOK' /\ Scan!ScanInv'
  <1>1. sSql' \in Scan!Files /\ Len(sSql') \in Nat BY ScanFilesL DEF Scan!Read
  <1>2. sAt' = 1 /\ sSegs' = sSegs /\ sPlan' = "read" BY DEF Scan!Read, Scan!ScanInv
  <1>3. sSegs = {} BY DEF Scan!Read, Scan!ScanInv, Scan!TypeOK, Scan!Segments
  <1>4. Scan!TypeOK' BY <1>1, <1>2, <1>3 DEF Scan!TypeOK
  <1>5. Scan!Lexed(sSql')[0] = "sql" BY <1>1, ScanLexedL
  <1>6. Scan!Between(sSql', sAt') BY <1>2, <1>5 DEF Scan!Between
  <1>7. Scan!ScanInv' BY <1>2, <1>3, <1>6 DEF Scan!ScanInv
  <1> QED BY <1>4, <1>7

(* A segment extends the tiling and agrees with the lexer. *)
LEMMA ScanTokenizeL ==
  ASSUME Scan!Bounds, Scan!TypeOK, Scan!ScanInv, Scan!Tokenize
  PROVE  Scan!TypeOK' /\ Scan!ScanInv'
  <1> DEFINE e == Scan!TokenEnd(sSql, sAt)
             new == [kind |-> Scan!Opens(sSql, sAt), from |-> sAt, to |-> e - 1]
             L == Len(sSql)
  <1>1. sSql \in Scan!Files /\ L \in Nat /\ L <= ScanMaxLen /\ sAt \in 1 .. L
    BY ScanFilesL DEF Scan!Tokenize, Scan!TypeOK
  <1>2. e \in sAt + 1 .. L + 1 BY <1>1, ScanEndL
  <1>3. Scan!Between(sSql, sAt) BY DEF Scan!ScanInv
  <1>4. /\ Scan!Between(sSql, e)
        /\ \A j \in (sAt .. e - 1) \cap Scan!Visible(sSql) :
               Scan!Opens(sSql, sAt) = "sql" <=> j \in Scan!CodeByLexer(sSql)
    BY <1>1, <1>3, ScanSegmentL
  <1>5. Scan!Opens(sSql, sAt) \in Scan!Kinds BY <1>1, ScanOpensL
  <1>6. sSql' = sSql /\ sPlan' = "read" /\ sPlan = "read" /\ sAt' = e /\ sSegs' = sSegs \cup {new}
    BY DEF Scan!Tokenize
  <1>7. new \in Scan!Segments BY <1>1, <1>2, <1>5 DEF Scan!Segments, Scan!Bounds
  <1>8. new.from = sAt /\ new.to = e - 1 /\ new.kind = Scan!Opens(sSql, sAt) OBVIOUS
  <1> HIDE DEF e, new
  <1>9. Scan!TypeOK' BY <1>1, <1>2, <1>6, <1>7 DEF Scan!TypeOK
  <1>t. \A t \in sSegs : t.from \in Nat /\ t.to \in Nat /\ t.from <= t.to /\ t.to < sAt
    BY DEF Scan!TypeOK, Scan!Segments, Scan!ScanInv
  <1>10. \A t \in sSegs' : t.from <= t.to /\ t.to < sAt' BY <1>1, <1>2, <1>6, <1>8, <1>t
  <1>11. ASSUME NEW i \in 1 .. e - 1 PROVE \E t \in sSegs' : i \in t.from .. t.to
    <2>1. CASE i < sAt
      <3>1. i \in 1 .. sAt - 1 BY <2>1, <1>1, <1>2
      <3>2. PICK t \in sSegs : i \in t.from .. t.to BY <3>1 DEF Scan!ScanInv
      <3> QED BY <3>2, <1>6
    <2>2. CASE ~(i < sAt)
      <3>1. i \in new.from .. new.to BY <2>2, <1>1, <1>2, <1>8
      <3> QED BY <3>1, <1>6
    <2> QED BY <2>1, <2>2
  <1>12. ASSUME NEW t \in sSegs', NEW u \in sSegs', NEW i \in 1 .. e - 1,
                i \in t.from .. t.to, i \in u.from .. u.to
         PROVE  t = u
    <2>1. CASE i < sAt
      <3>1. t # new /\ u # new BY <2>1, <1>12, <1>1, <1>2, <1>8
      <3>2. i \in 1 .. sAt - 1 BY <2>1, <1>1, <1>2
      <3> QED BY <3>1, <3>2, <1>6, <1>12 DEF Scan!ScanInv
    <2>2. CASE ~(i < sAt)
      <3>1. \A w \in sSegs : ~(i \in w.from .. w.to) BY <2>2, <1>1, <1>2, <1>t
      <3> QED BY <3>1, <1>6, <1>12
    <2> QED BY <2>1, <2>2
  <1>13. ASSUME NEW t \in sSegs', NEW i \in Scan!Visible(sSql), i \in t.from .. t.to
         PROVE  t.kind = "sql" <=> i \in Scan!CodeByLexer(sSql)
    <2>1. CASE t \in sSegs BY <2>1, <1>13 DEF Scan!ScanInv
    <2>2. CASE t = new BY <2>2, <1>13, <1>8, <1>4
    <2> QED BY <2>1, <2>2, <1>6
  <1>14. Scan!ScanInv' BY <1>4, <1>6, <1>10, <1>11, <1>12, <1>13 DEF Scan!ScanInv
  <1> QED BY <1>9, <1>14

(* The plan is made of the whole file. *)
LEMMA ScanPlanL ==
  ASSUME Scan!Bounds, Scan!TypeOK, Scan!ScanInv, Scan!Plan
  PROVE  Scan!TypeOK' /\ Scan!ScanInv'
  <1>1. sSql' = sSql /\ sAt' = sAt /\ sSegs' = sSegs /\ sPlan' = Scan!Classify(sSql)
    BY DEF Scan!Plan
  <1>2. Scan!Classify(sSql) \in {"refused", "breakpoint-framed", "single-statement", "legacy"}
        /\ (Scan!Classify(sSql) # "refused" => ~Scan!TransactionControl(sSql))
    BY DEF Scan!Classify
  <1>3. sAt = Len(sSql) + 1 BY ScanFilesL DEF Scan!Plan, Scan!TypeOK
  <1>4. Scan!TypeOK' BY <1>1, <1>2 DEF Scan!TypeOK
  <1>5. Scan!TransactionControl(sSql)' <=> Scan!TransactionControl(sSql)
    BY <1>1 DEF Scan!TransactionControl, Scan!Semicolons, Scan!Executable, Scan!KindAt
  <1>6. Scan!ScanInv' BY <1>1, <1>2, <1>3, <1>5 DEF Scan!ScanInv
  <1> QED BY <1>4, <1>6

(* Every step keeps the invariant. *)
LEMMA ScanStep0 ==
  ASSUME Scan!Bounds, Scan!TypeOK, Scan!ScanInv, [Scan!Next]_scanVars
  PROVE  Scan!TypeOK' /\ Scan!ScanInv'
  <1>1. CASE UNCHANGED scanVars
    <2>1. Scan!TypeOK' BY <1>1 DEF Scan!TypeOK, scanVars
    <2>2. Scan!TransactionControl(sSql)' <=> Scan!TransactionControl(sSql)
      BY <1>1
         DEF Scan!TransactionControl, Scan!Semicolons, Scan!Executable, Scan!KindAt, scanVars
    <2>3. Scan!ScanInv' BY <1>1, <2>2 DEF Scan!ScanInv, scanVars
    <2> QED BY <2>1, <2>3
  <1> QED BY <1>1, ScanReadL, ScanTokenizeL, ScanPlanL DEF Scan!Next

(* The invariant makes the plan follow the lexer. *)
LEMMA ScanPlanFollowsL ==
  ASSUME Scan!Bounds, Scan!TypeOK, Scan!ScanInv
  PROVE  Scan!PlanFollowsLexer
  <1> SUFFICES ASSUME sPlan \notin {"idle", "read"}
               PROVE  /\ Scan!Executable(sSql) \cap Scan!Visible(sSql) = Scan!CodeByLexer(sSql) \cap Scan!Visible(sSql)
                      /\ sPlan # "refused" =>
                             \A i \in Scan!CodeByLexer(sSql) :
                                 sSql[i] = "begin" /\ Scan!FirstWord(sSql, i) =>
                                     i + 1 \in Scan!CodeByLexer(sSql) /\
                                     sSql[i + 1] \in {"w", "begin", "bp"}
    BY DEF Scan!PlanFollowsLexer
  <1> DEFINE L == Len(sSql)
             Code1 == Scan!CodeByLexer(sSql)
  <1>1. L \in Nat /\ sAt = L + 1 BY ScanFilesL DEF Scan!TypeOK, Scan!ScanInv
  <1>n. \A x \in 1 .. L : x \in Nat BY <1>1
  <1>2. Code1 \subseteq 1 .. L BY DEF Scan!CodeByLexer
  <1>3. ASSUME NEW i \in Scan!Visible(sSql) PROVE i \in Scan!Executable(sSql) <=> i \in Code1
    <2>1. i \in 1 .. L BY DEF Scan!Visible
    <2>2. i \in 1 .. sAt - 1 BY <1>1, <2>1
    <2>3. \E t \in sSegs : i \in t.from .. t.to BY <2>2 DEF Scan!ScanInv
    <2> DEFINE t == CHOOSE u \in sSegs : i \in u.from .. u.to
    <2>4. t \in sSegs /\ i \in t.from .. t.to BY <2>3
    <2>5. Scan!KindAt(i) = t.kind BY DEF Scan!KindAt
    <2>6. t.kind = "sql" <=> i \in Code1 BY <2>4 DEF Scan!ScanInv
    <2> QED BY <2>1, <2>5, <2>6 DEF Scan!Executable
  <1>4. Scan!Executable(sSql) \cap Scan!Visible(sSql) = Code1 \cap Scan!Visible(sSql) BY <1>3
  <1>5. ASSUME sPlan # "refused", NEW i \in Code1, sSql[i] = "begin", Scan!FirstWord(sSql, i)
        PROVE  i + 1 \in Code1 /\ sSql[i + 1] \in {"w", "begin", "bp"}
    <2>1. ~Scan!TransactionControl(sSql) BY <1>5 DEF Scan!ScanInv
    <2>2. i \in 1 .. L /\ i \in Scan!Visible(sSql) BY <1>2, <1>5 DEF Scan!Visible
    <2>3. i \in Scan!Executable(sSql) BY <2>2, <1>3
    <2>4. PICK c \in {0} \cup {k \in Code1 : sSql[k] = ";"} :
              c < i /\ \A j \in c + 1 .. i - 1 : j \in Scan!Visible(sSql) => Scan!Commented(sSql, j)
      BY <1>5 DEF Scan!FirstWord
    <2>5. c \in {0} \cup Scan!Semicolons(sSql) /\ c \in Nat
      <3>1. CASE c = 0 BY <3>1
      <3>2. CASE c \in Code1 /\ sSql[c] = ";"
        <4>1. c \in Scan!Visible(sSql) BY <3>2, <1>2 DEF Scan!Visible
        <4>0. c \in 1 .. L BY <3>2, <1>2
        <4>2. c \in Nat BY <4>0, <1>n
        <4>3. c \in Scan!Executable(sSql) BY <4>1, <3>2, <1>3
        <4> QED BY <4>2, <4>3, <3>2 DEF Scan!Semicolons
      <3> QED BY <2>4, <3>1, <3>2
    <2>6. ASSUME NEW j \in c + 1 .. i - 1
          PROVE  j \notin Scan!Executable(sSql) \/ sSql[j] \in {" ", "nl"}
      <3>1. SUFFICES ASSUME j \in Scan!Executable(sSql), sSql[j] \notin {" ", "nl"} PROVE FALSE OBVIOUS
      <3>2. j \in 1 .. L BY <3>1 DEF Scan!Executable
      <3>3. j \in Scan!Visible(sSql) BY <3>1, <3>2 DEF Scan!Visible
      <3>4. j \in Code1 /\ Scan!Commented(sSql, j) BY <3>1, <3>3, <1>3, <2>4
      <3>5. Scan!Lexed(sSql)[j - 1] \in Scan!Code /\ Scan!Lexed(sSql)[j] \in Scan!Code
        BY <3>4 DEF Scan!CodeByLexer
      <3> QED BY <3>4, <3>5 DEF Scan!Commented, Scan!Code
    <2>7. i + 1 \in Scan!Executable(sSql) /\ sSql[i + 1] \in {"w", "begin", "bp"}
      BY <2>1, <2>3, <2>4, <2>5, <2>6, <1>5 DEF Scan!TransactionControl
    <2>8. i + 1 \in Scan!Visible(sSql) BY <2>7 DEF Scan!Executable, Scan!Visible
    <2> QED BY <2>7, <2>8, <1>3
  <1> QED BY <1>4, <1>5

(* A step of the delivery model is a step of the scan or leaves it alone. *)
LEMMA ScanNext == [Next]_allVars => [Scan!Next]_scanVars
  BY DEF Next, allVars, VoidStep, ScanStep, GitStep, PrsStep, WebStep, ConfStep, MapsStep,
         ImpStep, BootStep, R2Step, D1Step, S3Step

(* The inductive invariant of the migration scan. *)
LEMMA ScanInductive == Spec => [](Scan!TypeOK /\ Scan!ScanInv)
  <1> DEFINE Inv == Scan!TypeOK /\ Scan!ScanInv
  <1>1. Init => Inv BY ScanBounds, ScanInitL DEF Init
  <1>2. Inv /\ [Next]_allVars => Inv'
    <2>1. Inv /\ [Scan!Next]_scanVars => Inv' BY ScanBounds, ScanStep0 DEF Scan!vars, scanVars
    <2> QED BY <2>1, ScanNext
  <1> QED BY <1>1, <1>2, PTL DEF Spec

(* For every alphabet and every length of file: where tokenize_sql has cut  *)
(* a migration, the text it takes for code is the text a byte-by-byte lexer *)
(* takes for code, comments, quoted identifiers and strings with doubled    *)
(* quotes included, so a file that is not refused opens no transaction of   *)
(* its own (void_migrate.rs tokenize_sql, transaction_control).             *)
THEOREM PlansFollowLexer == Spec => []PlanFollowsLexer
  <1>1. Scan!TypeOK /\ Scan!ScanInv => PlanFollowsLexer
    BY ScanBounds, ScanPlanFollowsL DEF PlanFollowsLexer
  <1> QED BY <1>1, ScanInductive, PTL


-----------------------------------------------------------------------------
(* Pull requests (PullRequests). *)
(* The component's cardinality is the library's. *)
LEMMA PrsCardL == \A S : Prs!Cardinality(S) = Cardinality(S)
  BY DEF Prs!Cardinality, Cardinality

(* The component's finite sets are the library's. *)
LEMMA PrsFinL == \A S : Prs!IsFiniteSet(S) <=> IsFiniteSet(S)
  BY DEF Prs!IsFiniteSet, IsFiniteSet

(* A nonempty set of numbers up to n has a greatest one. *)
LEMMA PrsMaxL ==
  ASSUME NEW n \in Nat, NEW S \in SUBSET (1..n), S # {}
  PROVE  \E u \in S : \A w \in S : w <= u
  <1> DEFINE T == {n - i : i \in S}
  <1>a. \A i \in S : n - i \in Nat OBVIOUS
  <1>1. T \in SUBSET Nat /\ T # {} BY <1>a
  <1>2. PICK x \in T : \A y \in T : x <= y BY <1>1, NatMin
  <1>3. PICK u \in S : x = n - u BY <1>2
  <1> HIDE DEF T
  <1>4. \A w \in S : w <= u
    <2> TAKE w \in S
    <2>1. n - w \in T BY DEF T
    <2>2. n - u <= n - w BY <1>2, <1>3, <2>1
    <2>3. n \in Int /\ u \in Int /\ w \in Int OBVIOUS
    <2> QED BY <2>2, <2>3
  <1> QED BY <1>4, Zenon

(* A member with a review has a latest one. *)
LEMMA PrsLatestL == ASSUME prReviews \in Seq(Prs!PrReviewRows), NEW n, NEW u,
                        \E i \in DOMAIN prReviews : prReviews[i].pr = n /\ prReviews[i].by = u
  PROVE Prs!Latest(n, u) \in DOMAIN prReviews /\ prReviews[Prs!Latest(n, u)].pr = n /\
        prReviews[Prs!Latest(n, u)].by = u
  <1> DEFINE own == {i \in DOMAIN prReviews : prReviews[i].pr = n /\ prReviews[i].by = u}
  <1>1. own \in SUBSET (1..Len(prReviews)) /\ own # {} /\ Len(prReviews) \in Nat OBVIOUS
  <1>2. \E i \in own : \A j \in own : j <= i BY <1>1, PrsMaxL
  <1>3. Prs!Latest(n, u) = CHOOSE i \in own : \A j \in own : j <= i BY DEF Prs!Latest
  <1>4. Prs!Latest(n, u) \in own BY <1>2, <1>3
  <1> QED BY <1>4

(* A subset of the members counts no more than the set. *)
LEMMA PrsCardSub == ASSUME Prs!Bounds, NEW S, NEW T, T \subseteq PrsUsers, S \subseteq T
  PROVE Cardinality(S) \in Nat /\ Cardinality(T) \in Nat /\ Cardinality(S) <= Cardinality(T)
  <1>1. IsFiniteSet(T) BY FS_Subset, PrsFinL DEF Prs!Bounds
  <1>2. IsFiniteSet(S) BY <1>1, FS_Subset
  <1> QED BY <1>1, <1>2, FS_Subset, FS_CardinalityType, PrsCardL

(* Approvals are counted over the members, and appending a row only adds one. *)
LEMMA PrsCountL == ASSUME Prs!Bounds, prReviews \in Seq(Prs!PrReviewRows), NEW n, NEW h
  PROVE /\ Prs!CountedApprovals(n, h) \in Nat /\ Cardinality(Prs!Approvers(n, h)) \in Nat
        /\ Prs!CountedApprovals(n, h) <= Cardinality(Prs!Approvers(n, h))
  <1> DEFINE S == {u \in PrsUsers \ {prRows[n].author} :
                    /\ \E i \in DOMAIN prReviews : prReviews[i].pr = n /\ prReviews[i].by = u
                    /\ LET r == prReviews[Prs!Latest(n, u)] IN r.state = "approved" /\ ~r.dismissed /\ r.sha = h}
  <1>1. \A u \in S : u \in Prs!Approvers(n, h) BY PrsLatestL DEF Prs!Approvers
  <1>2. Prs!Approvers(n, h) \subseteq PrsUsers BY DEF Prs!Approvers
  <1>3. Cardinality(S) \in Nat /\ Cardinality(Prs!Approvers(n, h)) \in Nat /\
        Cardinality(S) <= Cardinality(Prs!Approvers(n, h))
    BY <1>1, <1>2, PrsCardSub
  <1>4. Prs!CountedApprovals(n, h) = Cardinality(S) BY PrsCardL DEF Prs!CountedApprovals
  <1> QED BY <1>3, <1>4

(* A request at rest is well formed. *)
LEMMA PrsQuietL ==
  ASSUME Prs!Bounds
  PROVE  Prs!Quiet \in Prs!PrRequests /\ Prs!Quiet.op = "none" /\ Prs!Quiet.base = 0 /\
         Prs!Quiet.head = 0
  <1>1. (CHOOSE u \in PrsUsers : TRUE) \in PrsUsers BY DEF Prs!Bounds
  <1> QED BY <1>1 DEF Prs!Quiet, Prs!PrRequests, Prs!Bounds, Prs!Branches

(* The invariant holds at first. *)
LEMMA PrsInitL == ASSUME Prs!Bounds, Prs!Init PROVE Prs!TypeOK /\ Prs!ApprovedInv
  <1>1. prHas \in Seq(SUBSET (1 .. PrsMaxSha)) /\ Len(prHas) = 2 BY DEF Prs!Init, Prs!Bounds
  <1>2. \A q \in Actors : prReq[q] = Prs!Quiet BY DEF Prs!Init
  <1>3. prReq \in [Actors -> Prs!PrRequests] /\ \A q \in Actors : Prs!Holds(prReq[q])
    BY <1>1, <1>2, PrsQuietL DEF Prs!Init, Prs!Holds
  <1>4. prTip \in [Prs!Branches -> 0 .. Len(prHas)] BY <1>1 DEF Prs!Init
  <1>5. prRows \in Seq(Prs!PrRows) /\ Len(prRows) <= PrsMaxPrs /\ prReviews \in Seq(Prs!PrReviewRows)
    BY DEF Prs!Init, Prs!Bounds
  <1>6. Prs!TypeOK BY <1>1, <1>3, <1>4, <1>5 DEF Prs!TypeOK, Prs!Init, Prs!Bounds
  <1>7. Prs!ApprovedInv
    BY <1>2, PrsQuietL DEF Prs!Init, Prs!ApprovedInv, Prs!MergedWasApproved, Prs!At
  <1> QED BY <1>6, <1>7

(* A branch that moves keeps the rows, and keeps merged ones as they are. *)
LEMMA PrsMoveL ==
  ASSUME Prs!Bounds, Prs!TypeOK, NEW b, NEW sha \in 1 .. PrsMaxSha, Prs!OnBranchMoved(b, sha)
  PROVE /\ prRows' \in Seq(Prs!PrRows) /\ Len(prRows') = Len(prRows)
        /\ prReviews' \in Seq(Prs!PrReviewRows) /\ Len(prReviews') = Len(prReviews)
        /\ \A n \in DOMAIN prRows : prRows'[n].author = prRows[n].author
        /\ \A i \in DOMAIN prReviews : /\ prReviews'[i].pr = prReviews[i].pr /\ prReviews'[i].by = prReviews[i].by
                                        /\ prReviews'[i].state = prReviews[i].state
                                        /\ prReviews'[i].sha = prReviews[i].sha
  <1>t. prRows \in Seq(Prs!PrRows) /\ prReviews \in Seq(Prs!PrReviewRows) BY DEF Prs!TypeOK
  <1>1. DOMAIN prRows = 1 .. Len(prRows) /\ Len(prRows) \in Nat /\
        DOMAIN prReviews = 1 .. Len(prReviews) /\ Len(prReviews) \in Nat
    BY <1>t
  <1>2. \A n \in 1 .. Len(prRows) : prRows[n] \in Prs!PrRows BY <1>t
  <1>3. \A i \in 1 .. Len(prReviews) : prReviews[i] \in Prs!PrReviewRows BY <1>t
  <1>4. \A r \in Prs!PrRows : [r EXCEPT !.head = sha] \in Prs!PrRows /\ [r EXCEPT !.head = sha].author = r.author
    BY DEF Prs!PrRows
  <1>5. \A r \in Prs!PrReviewRows : LET n == [r EXCEPT !.dismissed = TRUE] IN
          n \in Prs!PrReviewRows /\ n.pr = r.pr /\ n.by = r.by /\ n.state = r.state /\ n.sha = r.sha
            BY DEF Prs!PrReviewRows
  <1>6. /\ prRows' = [n \in 1 .. Len(prRows) |-> prRows'[n]]
        /\ \A n \in 1 .. Len(prRows) : prRows'[n] = prRows[n] \/ prRows'[n] = [prRows[n] EXCEPT !.head = sha]
    BY <1>1 DEF Prs!OnBranchMoved
  <1>7. /\ prReviews' = [i \in 1 .. Len(prReviews) |-> prReviews'[i]]
        /\ \A i \in 1 .. Len(prReviews) : prReviews'[i] = prReviews[i] \/ prReviews'[i] = [prReviews[i] EXCEPT !.dismissed = TRUE]
    BY <1>1 DEF Prs!OnBranchMoved
  <1>8. \A n \in 1 .. Len(prRows) : prRows'[n] \in Prs!PrRows /\ prRows'[n].author = prRows[n].author
    BY <1>2, <1>4, <1>6
  <1>9. \A i \in 1 .. Len(prReviews) : /\ prReviews'[i] \in Prs!PrReviewRows
          /\ prReviews'[i].pr = prReviews[i].pr /\ prReviews'[i].by = prReviews[i].by
          /\ prReviews'[i].state = prReviews[i].state /\ prReviews'[i].sha = prReviews[i].sha
    BY <1>3, <1>5, <1>7
  <1>10. prRows' \in Seq(Prs!PrRows) /\ Len(prRows') = Len(prRows) BY <1>1, <1>6, <1>8
  <1>11. prReviews' \in Seq(Prs!PrReviewRows) /\ Len(prReviews') = Len(prReviews)
    BY <1>1, <1>7, <1>9
  <1> QED BY <1>1, <1>8, <1>9, <1>10, <1>11

(* Appending a row keeps the rows before it. *)
LEMMA PrsAppendL == ASSUME NEW S, NEW s \in Seq(S), NEW x \in S
  PROVE /\ Append(s, x) \in Seq(S) /\ Len(Append(s, x)) = Len(s) + 1 /\ Len(s) \in Nat
        /\ \A i \in DOMAIN s : i \in DOMAIN Append(s, x) /\ Append(s, x)[i] = s[i]
  OBVIOUS

(* A change of state touches the one row. *)
LEMMA PrsStateL ==
  ASSUME Prs!TypeOK, NEW n \in DOMAIN prRows, NEW st \in {"open", "closed", "merged"},
         NEW m \in 0 .. PrsMaxSha, Prs!SetState(n, st, m)
  PROVE /\ prRows' \in Seq(Prs!PrRows) /\ Len(prRows') = Len(prRows)
        /\ \A k \in DOMAIN prRows : prRows'[k].author = prRows[k].author
  <1>1. prRows \in Seq(Prs!PrRows) /\ prRows[n] \in Prs!PrRows BY DEF Prs!TypeOK
  <1> DEFINE r == [prRows[n] EXCEPT !.state = st, !.merge = m]
  <1>2. r \in Prs!PrRows /\ r.author = prRows[n].author BY <1>1 DEF Prs!PrRows
  <1>3. prRows' = [prRows EXCEPT ![n] = r] BY DEF Prs!SetState
  <1> HIDE DEF r
  <1> QED BY <1>1, <1>2, <1>3

(* Every step keeps the types. *)
LEMMA PrsTypeStep == ASSUME Prs!Bounds, Prs!TypeOK, [Prs!Next]_prVars
  PROVE /\ Prs!TypeOK'
        /\ \A n \in DOMAIN prRows : n \in DOMAIN prRows' /\ prRows'[n].author = prRows[n].author
        /\ \A i \in DOMAIN prReviews : /\ i \in DOMAIN prReviews'
             /\ prReviews'[i].pr = prReviews[i].pr /\ prReviews'[i].by = prReviews[i].by
             /\ prReviews'[i].state = prReviews[i].state /\ prReviews'[i].sha = prReviews[i].sha
  <1> DEFINE Trees == SUBSET (1 .. PrsMaxSha)
             HasT == prHas' \in Seq(Trees) /\ Len(prHas') <= PrsMaxSha /\ Len(prHas) <= Len(prHas') /\
                     Len(prHas') \in Nat
             TipT == prTip' \in [Prs!Branches -> 0 .. Len(prHas')]
             RowT == /\ prRows' \in Seq(Prs!PrRows) /\ Len(prRows') <= PrsMaxPrs
                     /\ Len(prRows) <= Len(prRows') /\ Len(prRows') \in Nat
                     /\ \A n \in DOMAIN prRows : prRows'[n].author = prRows[n].author
             RevT == /\ prReviews' \in Seq(Prs!PrReviewRows) /\ Len(prReviews) <= Len(prReviews')
                     /\ Len(prReviews') \in Nat
                     /\ \A i \in DOMAIN prReviews : /\ prReviews'[i].pr = prReviews[i].pr /\ prReviews'[i].by = prReviews[i].by
                           /\ prReviews'[i].state = prReviews[i].state
                           /\ prReviews'[i].sha = prReviews[i].sha
             H(k) == /\ k.op \in {"close", "reopen", "review", "merge"} => k.pr \in 1 .. Len(prRows')
                     /\ k.op \in {"review", "merge"} => k.head # 0
                     /\ k.op = "merge" => k.base # 0
                     /\ k.op = "commit" /\ k.pc = "moved" => k.head # 0
                     /\ k.base <= Len(prHas') /\ k.head <= Len(prHas')
             ReqT == prReq' \in [Actors -> Prs!PrRequests] /\ \A q \in Actors : H(prReq'[q])
             LeftT == prLeft' \in 0 .. PrsMaxOps
             NeedT == prNeed' \in 0 .. 2
             Goal == HasT /\ TipT /\ RowT /\ RevT /\ ReqT /\ LeftT /\ NeedT
             G1 == Prs!TypeOK'
             G2 == \A n \in DOMAIN prRows : n \in DOMAIN prRows' /\ prRows'[n].author = prRows[n].author
             G3 == \A i \in DOMAIN prReviews : /\ i \in DOMAIN prReviews'
                     /\ prReviews'[i].pr = prReviews[i].pr /\ prReviews'[i].by = prReviews[i].by
                     /\ prReviews'[i].state = prReviews[i].state /\ prReviews'[i].sha = prReviews[i].sha
  <1>t. /\ prHas \in Seq(Trees) /\ Len(prHas) <= PrsMaxSha /\ Len(prHas) \in Nat
        /\ prTip \in [Prs!Branches -> 0 .. Len(prHas)]
        /\ prRows \in Seq(Prs!PrRows) /\ Len(prRows) <= PrsMaxPrs /\ Len(prRows) \in Nat
        /\ DOMAIN prRows = 1 .. Len(prRows)
        /\ prReviews \in Seq(Prs!PrReviewRows) /\ Len(prReviews) \in Nat
        /\ DOMAIN prReviews = 1 .. Len(prReviews)
        /\ prNeed \in 0 .. 2 /\ prReq \in [Actors -> Prs!PrRequests] /\ prLeft \in 0 .. PrsMaxOps
    BY DEF Prs!TypeOK
  <1>q. Goal => G1 /\ G2 /\ G3
    <2> SUFFICES ASSUME Goal PROVE G1 /\ G2 /\ G3 OBVIOUS
    <2>1. DOMAIN prRows' = 1 .. Len(prRows') /\ DOMAIN prReviews' = 1 .. Len(prReviews') OBVIOUS
    <2>2. \A q \in Actors : Prs!Holds(prReq[q])' BY <2>1 DEF Prs!Holds
    <2>3. G1 BY <2>2 DEF Prs!TypeOK
    <2>4. G2 BY <2>1, <1>t
    <2>5. G3 BY <2>1, <1>t
    <2> QED BY <2>3, <2>4, <2>5
  <1> HIDE DEF G1, G2, G3
  <1>h. \A q \in Actors :
            /\ prReq[q] \in Prs!PrRequests /\ prReq[q].base \in Nat /\ prReq[q].head \in Nat
            /\ prReq[q].op \in {"close", "reopen", "review", "merge"} => prReq[q].pr \in 1 .. Len(prRows)
            /\ prReq[q].op \in {"review", "merge"} => prReq[q].head # 0
            /\ prReq[q].op = "merge" => prReq[q].base # 0
            /\ prReq[q].op = "commit" /\ prReq[q].pc = "moved" => prReq[q].head # 0
            /\ prReq[q].base <= Len(prHas) /\ prReq[q].head <= Len(prHas)
    <2>1. \A q \in Actors : prReq[q] \in Prs!PrRequests BY <1>t
    <2>2. \A k \in Prs!PrRequests : k.base \in Nat /\ k.head \in Nat BY DEF Prs!PrRequests
    <2>3. \A q \in Actors : Prs!Holds(prReq[q]) BY DEF Prs!TypeOK
    <2> QED BY <2>1, <2>2, <2>3, <1>t DEF Prs!Holds
  <1>k. HasT /\ RowT => \A q \in Actors : H(prReq[q]) BY <1>h, <1>t
  <1>r. ASSUME NEW q \in Actors, NEW k \in Prs!PrRequests, HasT, RowT, H(k),
               prReq' = [prReq EXCEPT ![q] = k]
        PROVE  ReqT
    BY <1>r, <1>k, <1>t
  <1>u. HasT /\ RowT /\ prReq' = prReq => ReqT BY <1>k, <1>t
  <1>z. (H(Prs!Quiet) /\ Prs!Quiet \in Prs!PrRequests) \/ ~HasT BY PrsQuietL
  <1>d. ASSUME NEW q \in Actors, HasT, RowT, Prs!Done(q)
        PROVE  ReqT BY <1>d, <1>r, <1>z DEF Prs!Done
  <1>0. prHas' = prHas => HasT BY <1>t
  <1>w. prRows' = prRows => RowT BY <1>t
  <1>v. prReviews' = prReviews => RevT BY <1>t
  <1>p. HasT /\ prTip' = prTip => TipT BY <1>t
  <1>b. Prs!Begins => LeftT BY <1>t DEF Prs!Begins, Prs!Bounds
  <1>c. Prs!CanCommit => Prs!NewSha \in 1 .. PrsMaxSha /\ Prs!NewSha = Len(prHas) + 1 /\ Prs!NewSha \in Nat
    BY <1>t DEF Prs!CanCommit, Prs!NewSha, Prs!Bounds
  <1>a. ASSUME Prs!CanCommit, NEW S \in Trees, prHas' = Append(prHas, S)
        PROVE  HasT /\ Len(prHas') = Prs!NewSha
    <2>1. prHas' \in Seq(Trees) /\ Len(prHas') = Len(prHas) + 1 BY <1>a, <1>t, PrsAppendL
    <2> QED BY <2>1, <1>a, <1>c, <1>t
  <1>x. \A c \in 1 .. Len(prHas) : prHas[c] \in Trees BY <1>t
  <1> HIDE DEF Trees
  <1>m. ASSUME NEW b, NEW sha \in 1 .. PrsMaxSha, Prs!OnBranchMoved(b, sha)
        PROVE  RowT /\ RevT BY <1>m, PrsMoveL, <1>t
  <1>y. \A S, T \in Trees : S \cup T \in Trees BY DEF Trees
  <1>e. {} \in Trees /\ (Prs!CanCommit => {Prs!NewSha} \in Trees) BY <1>c DEF Trees
  <1>1. ASSUME Prs!Push PROVE Goal
    <2>1. CASE prHas' = prHas
      <3>1. prTip' = [prTip EXCEPT !["feat"] = 0] /\ Prs!Begins /\
            UNCHANGED <<prHas, prRows, prReviews, prNeed, prReq, prLanded>>
        <4>1. \A S : Append(prHas, S) # prHas BY <1>t
        <4> QED BY <1>1, <2>1, <4>1 DEF Prs!Push
      <3>2. HasT /\ RowT /\ RevT /\ ReqT /\ LeftT /\ NeedT
        BY <3>1, <1>0, <1>w, <1>v, <1>u, <1>b, <1>t
      <3>3. TipT
        <4>1. 0 \in 0 .. Len(prHas) BY <1>t
        <4> QED BY <3>1, <4>1, <1>t
      <3> QED BY <3>2, <3>3
    <2>2. CASE Prs!CanCommit /\ Prs!Begins /\ UNCHANGED <<prNeed, prReq, prLanded>> /\
               \E b \in Prs!Branches, keep \in BOOLEAN, synced \in BOOLEAN :
                 /\ prTip' = [prTip EXCEPT ![b] = Prs!NewSha]
                 /\ prHas' = Append(prHas, {Prs!NewSha} \cup (IF keep /\ prTip[b] # 0 THEN prHas[prTip[b]] ELSE {}))
                 /\ IF synced THEN Prs!OnBranchMoved(b, Prs!NewSha) ELSE UNCHANGED <<prRows, prReviews>>
      <3>1. PICK b \in Prs!Branches, keep \in BOOLEAN, synced \in BOOLEAN :
                 /\ prTip' = [prTip EXCEPT ![b] = Prs!NewSha]
                 /\ prHas' = Append(prHas, {Prs!NewSha} \cup (IF keep /\ prTip[b] # 0 THEN prHas[prTip[b]] ELSE {}))
                 /\ IF synced THEN Prs!OnBranchMoved(b, Prs!NewSha) ELSE UNCHANGED <<prRows, prReviews>>
        BY <2>2
      <3> DEFINE S == IF keep /\ prTip[b] # 0 THEN prHas[prTip[b]] ELSE {}
      <3>2. prTip[b] # 0 => prTip[b] \in 1 .. Len(prHas) BY <1>t
      <3>3. S \in Trees BY <3>2, <1>x, <1>e
      <3> HIDE DEF S
      <3>4. {Prs!NewSha} \cup S \in Trees BY <2>2, <3>3, <1>y, <1>e
      <3>5. prHas' = Append(prHas, {Prs!NewSha} \cup S) BY <3>1 DEF S
      <3>6. HasT /\ Len(prHas') = Prs!NewSha BY <2>2, <3>4, <3>5, <1>a
      <3>7. TipT BY <3>1, <3>6, <2>2, <1>c, <1>t
      <3>8. RowT /\ RevT BY <3>1, <2>2, <1>c, <1>m, <1>w, <1>v
      <3>9. ReqT BY <2>2, <3>6, <3>8, <1>u
      <3> QED BY <3>6, <3>7, <3>8, <3>9, <2>2, <1>b, <1>t
    <2> QED BY <1>1, <2>1, <2>2 DEF Prs!Push
  <1>2. ASSUME NEW q \in Actors, Prs!CommitBegin(q) PROVE Goal
    <2>1. PICK b \in Prs!Branches : prReq' = [prReq EXCEPT ![q] = [Prs!Quiet EXCEPT !.op = "commit", !.branch = b, !.pc = "resolved",
                 !.base = prTip[b], !.head = IF prTip[b] # 0 THEN prTip[b] ELSE prTip["main"]]]
      BY <1>2 DEF Prs!CommitBegin
    <2>0. HasT /\ RowT /\ RevT /\ TipT /\ LeftT /\ NeedT
      BY <1>2, <1>0, <1>w, <1>v, <1>p, <1>b, <1>t DEF Prs!CommitBegin
    <2> DEFINE h == IF prTip[b] # 0 THEN prTip[b] ELSE prTip["main"]
               a == prTip[b]
               k == [Prs!Quiet EXCEPT !.op = "commit", !.branch = b, !.pc = "resolved", !.base = a, !.head = h]
    <2>2. a \in 0 .. Len(prHas) /\ h \in 0 .. Len(prHas) BY <1>t DEF Prs!Branches
    <2>3. a \in 0 .. PrsMaxSha /\ h \in 0 .. PrsMaxSha BY <2>2, <1>t DEF Prs!Bounds
    <2> HIDE DEF a, h
    <2>4. k \in Prs!PrRequests /\ k.op = "commit" /\ k.pc = "resolved" /\ k.base = a /\ k.head = h
      BY <2>3, PrsQuietL DEF Prs!PrRequests
    <2>5. prReq' = [prReq EXCEPT ![q] = k] BY <2>1 DEF a, h
    <2> HIDE DEF k
    <2>6. H(k) BY <2>4, <2>2, <2>0, <1>t
    <2>7. ReqT BY <2>4, <2>5, <2>6, <2>0, <1>r
    <2> QED BY <2>0, <2>7
  <1>3. ASSUME NEW q \in Actors, Prs!CommitPublish(q) PROVE Goal
    <2>0. RowT /\ RevT /\ LeftT /\ NeedT BY <1>3, <1>w, <1>v, <1>t DEF Prs!CommitPublish
    <2>1. CASE Prs!Done(q) /\ UNCHANGED <<prTip, prHas>>
      <3>1. HasT /\ TipT BY <2>1, <1>0, <1>p
      <3>2. ReqT BY <2>1, <3>1, <2>0, <1>d
      <3> QED BY <2>0, <3>1, <3>2
    <2>2. CASE /\ Prs!CanCommit /\ prTip' = [prTip EXCEPT ![prReq[q].branch] = Prs!NewSha]
               /\ prHas' = Append(prHas, {Prs!NewSha} \cup (IF prReq[q].head = 0 THEN {} ELSE prHas[prReq[q].head]))
               /\ prReq' = [prReq EXCEPT ![q] = [@ EXCEPT !.pc = "moved", !.head = Prs!NewSha]]
      <3> DEFINE S == IF prReq[q].head = 0 THEN {} ELSE prHas[prReq[q].head]
                 k == [prReq[q] EXCEPT !.pc = "moved", !.head = Prs!NewSha]
      <3>1. prReq[q].head # 0 => prReq[q].head \in 1 .. Len(prHas) BY <1>h, <1>t
      <3>2. S \in Trees BY <3>1, <1>x, <1>e
      <3> HIDE DEF S
      <3>3. {Prs!NewSha} \cup S \in Trees BY <2>2, <3>2, <1>y, <1>e
      <3>4. prHas' = Append(prHas, {Prs!NewSha} \cup S) BY <2>2 DEF S
      <3>5. HasT /\ Len(prHas') = Prs!NewSha BY <2>2, <3>3, <3>4, <1>a
      <3>6. prReq[q].branch \in Prs!Branches BY <1>h DEF Prs!PrRequests
      <3>7. TipT BY <2>2, <3>5, <3>6, <1>c, <1>t
      <3>8. Prs!NewSha \in 0 .. PrsMaxSha /\ Prs!NewSha # 0 BY <2>2, <1>c
      <3>9. k \in Prs!PrRequests /\ k.op = "commit" /\ k.head = Prs!NewSha /\ k.base = prReq[q].base
        <4>1. prReq[q].op = "commit" BY <1>3 DEF Prs!CommitPublish, Prs!At
        <4> QED BY <3>8, <4>1, <1>h DEF Prs!PrRequests
      <3>10. prReq' = [prReq EXCEPT ![q] = k] BY <2>2
      <3> HIDE DEF k
      <3>11. H(k) BY <3>9, <3>8, <3>5, <1>h, <1>t
      <3>12. ReqT BY <3>9, <3>10, <3>11, <3>5, <2>0, <1>r
      <3> QED BY <2>0, <3>5, <3>7, <3>12
    <2> QED BY <1>3, <2>1, <2>2 DEF Prs!CommitPublish
  <1>4. ASSUME NEW q \in Actors, Prs!CommitFollow(q) PROVE Goal
    <2>1. prReq[q].op = "commit" /\ prReq[q].pc = "moved" BY <1>4 DEF Prs!CommitFollow, Prs!At
    <2>2. prReq[q].head \in 1 .. PrsMaxSha BY <2>1, <1>h, <1>t DEF Prs!Bounds
    <2>3. RowT /\ RevT BY <1>4, <2>2, <1>m, <1>w, <1>v DEF Prs!CommitFollow
    <2>4. HasT /\ TipT /\ LeftT /\ NeedT BY <1>4, <1>0, <1>p, <1>t DEF Prs!CommitFollow
    <2>5. ReqT BY <1>4, <2>3, <2>4, <1>d DEF Prs!CommitFollow
    <2> QED BY <2>3, <2>4, <2>5
  <1>5. ASSUME Prs!Create PROVE Goal
    <2>0. HasT /\ RevT /\ TipT /\ LeftT /\ NeedT
      BY <1>5, <1>0, <1>v, <1>p, <1>b, <1>t DEF Prs!Create
    <2>1. PICK u \in PrsUsers : Prs!InsertPr(u) BY <1>5 DEF Prs!Create
    <2> DEFINE x == [state |-> "open", author |-> u, head |-> prTip["feat"], merge |-> 0]
    <2>2. prTip["feat"] \in 1 .. PrsMaxSha
      BY <1>5, <1>t DEF Prs!Create, Prs!Branches, Prs!Bounds
    <2>3. x \in Prs!PrRows BY <2>2 DEF Prs!PrRows, Prs!Bounds
    <2>4. prRows' = Append(prRows, x) BY <2>1 DEF Prs!InsertPr
    <2> HIDE DEF x
    <2>5. /\ prRows' \in Seq(Prs!PrRows) /\ Len(prRows') = Len(prRows) + 1
          /\ \A n \in DOMAIN prRows : prRows'[n] = prRows[n]
      BY <2>3, <2>4, <1>t, PrsAppendL
    <2>6. Len(prRows) < PrsMaxPrs BY <1>5 DEF Prs!Create
    <2>7. RowT BY <2>5, <2>6, <1>t DEF Prs!Bounds
    <2>8. ReqT BY <1>5, <2>0, <2>7, <1>u DEF Prs!Create
    <2> QED BY <2>0, <2>7, <2>8
  <1>6. ASSUME NEW q \in Actors, Prs!Read(q) PROVE Goal
    <2>0. HasT /\ RowT /\ RevT /\ TipT /\ LeftT /\ NeedT
      BY <1>6, <1>0, <1>w, <1>v, <1>p, <1>b, <1>t DEF Prs!Read
    <2>1. PICK op \in {"close", "reopen", "review", "merge"}, n \in DOMAIN prRows, u \in PrsUsers, admin \in BOOLEAN :
             /\ u = prRows[n].author <=> op # "review"
             /\ prRows[n].state = IF op = "reopen" THEN "closed" ELSE "open"
             /\ op # "close" => prTip["feat"] # 0
             /\ op = "reopen" => ~Prs!OpenPair
             /\ op = "merge" => prTip["main"] # 0
             /\ prReq' = [prReq EXCEPT ![q] = [Prs!Quiet EXCEPT !.op = op, !.pr = n, !.by = u, !.pc = "resolved",
                                              !.base = prTip["main"], !.head = prTip["feat"],
                                              !.need = IF admin THEN 0 ELSE prNeed]]
      BY <1>6 DEF Prs!Read
    <2> DEFINE d == IF admin THEN 0 ELSE prNeed
               k == [Prs!Quiet EXCEPT !.op = op, !.pr = n, !.by = u, !.pc = "resolved",
                                  !.base = prTip["main"], !.head = prTip["feat"], !.need = d]
    <2>2. d \in 0 .. 2 /\ n \in 0 .. PrsMaxPrs /\ n \in 1 .. Len(prRows) BY <1>t DEF Prs!Bounds
    <2>3. prTip["main"] \in 0 .. Len(prHas) /\ prTip["feat"] \in 0 .. Len(prHas)
      BY <1>t DEF Prs!Branches
    <2>4. prTip["main"] \in 0 .. PrsMaxSha /\ prTip["feat"] \in 0 .. PrsMaxSha
      BY <2>3, <1>t DEF Prs!Bounds
    <2>5. prReq' = [prReq EXCEPT ![q] = k] BY <2>1
    <2> HIDE DEF d
    <2>6. /\ k \in Prs!PrRequests /\ k.op = op /\ k.pr = n /\ k.pc = "resolved"
          /\ k.base = prTip["main"] /\ k.head = prTip["feat"]
      BY <2>2, <2>4, PrsQuietL DEF Prs!PrRequests
    <2> HIDE DEF k
    <2>7. H(k) BY <2>6, <2>1, <2>2, <2>3, <2>0, <1>t
    <2>8. ReqT BY <2>5, <2>6, <2>7, <2>0, <1>r
    <2> QED BY <2>0, <2>8
  <1>7. ASSUME NEW q \in Actors, Prs!Update(q) PROVE Goal
    <2>0. HasT /\ RevT /\ TipT /\ LeftT /\ NeedT BY <1>7, <1>0, <1>v, <1>p, <1>t DEF Prs!Update
    <2>1. prReq[q].pr \in DOMAIN prRows BY <1>7, <1>h, <1>t DEF Prs!Update
    <2> DEFINE st == IF prReq[q].op = "close" THEN "closed" ELSE "open"
               m == prRows[prReq[q].pr].merge
    <2>2. st \in {"open", "closed", "merged"} OBVIOUS
    <2>3. m \in 0 .. PrsMaxSha
      <3>1. prRows[prReq[q].pr] \in Prs!PrRows BY <2>1, <1>t
      <3> QED BY <3>1 DEF Prs!PrRows
    <2>4. prRows' = prRows \/ Prs!SetState(prReq[q].pr, st, m) BY <1>7 DEF Prs!Update
    <2> HIDE DEF st, m
    <2>5. RowT BY <2>1, <2>2, <2>3, <2>4, <1>w, <1>t, PrsStateL
    <2>6. ReqT BY <1>7, <2>0, <2>5, <1>d DEF Prs!Update
    <2> QED BY <2>0, <2>5, <2>6
  <1>8. ASSUME NEW q \in Actors, Prs!Review(q) PROVE Goal
    <2>0. HasT /\ RowT /\ TipT /\ LeftT /\ NeedT BY <1>8, <1>0, <1>w, <1>p, <1>t DEF Prs!Review
    <2>1. PICK st \in {"approved", "changes"} : Prs!InsertReview(q, st) BY <1>8 DEF Prs!Review
    <2> DEFINE x == [pr |-> prReq[q].pr, by |-> prReq[q].by, state |-> st, sha |-> prReq[q].head, dismissed |-> FALSE]
    <2>2. prReq[q].op = "review" BY <1>8 DEF Prs!Review, Prs!At
    <2>3. prReq[q].pr \in 1 .. PrsMaxPrs /\ prReq[q].head \in 1 .. PrsMaxSha
      BY <2>2, <1>h, <1>t DEF Prs!Bounds
    <2>4. prReq[q].by \in PrsUsers BY <1>h DEF Prs!PrRequests
    <2>5. x \in Prs!PrReviewRows BY <2>3, <2>4 DEF Prs!PrReviewRows
    <2>6. prReviews' = Append(prReviews, x) BY <2>1 DEF Prs!InsertReview
    <2> HIDE DEF x
    <2>7. /\ prReviews' \in Seq(Prs!PrReviewRows) /\ Len(prReviews') = Len(prReviews) + 1
          /\ \A n \in DOMAIN prReviews : prReviews'[n] = prReviews[n]
      BY <2>5, <2>6, <1>t, PrsAppendL
    <2>8. RevT BY <2>7, <1>t
    <2>9. ReqT BY <1>8, <2>0, <1>d DEF Prs!Review
    <2> QED BY <2>0, <2>8, <2>9
  <1>9. ASSUME Prs!SetRules PROVE Goal
    <2>0. HasT /\ RowT /\ RevT /\ TipT /\ LeftT /\ NeedT
      BY <1>9, <1>0, <1>w, <1>v, <1>p, <1>b, <1>t DEF Prs!SetRules
    <2> QED BY <1>9, <2>0, <1>u DEF Prs!SetRules
  <1>10. ASSUME NEW q \in Actors, Prs!MergeCount(q) PROVE Goal
    <2>0. HasT /\ RowT /\ RevT /\ TipT /\ LeftT /\ NeedT
      BY <1>10, <1>0, <1>w, <1>v, <1>p, <1>t DEF Prs!MergeCount
    <2>1. CASE Prs!Done(q) BY <2>0, <2>1, <1>d
    <2>2. CASE prReq' = [prReq EXCEPT ![q].pc = "counted"]
      <3> DEFINE k == [prReq[q] EXCEPT !.pc = "counted"]
      <3>1. k \in Prs!PrRequests /\ k.op = prReq[q].op /\ k.pr = prReq[q].pr /\
            k.base = prReq[q].base /\ k.head = prReq[q].head /\ k.pc = "counted"
        BY <1>h DEF Prs!PrRequests
      <3>2. prReq' = [prReq EXCEPT ![q] = k] BY <2>2
      <3> HIDE DEF k
      <3>3. H(k) BY <3>1, <2>0, <1>h, <1>t
      <3> QED BY <3>1, <3>2, <3>3, <2>0, <1>r
    <2> QED BY <1>10, <2>1, <2>2 DEF Prs!MergeCount
  <1>11. ASSUME NEW q \in Actors, Prs!MergePublish(q) PROVE Goal
    <2>0. RowT /\ RevT /\ LeftT /\ NeedT BY <1>11, <1>w, <1>v, <1>t DEF Prs!MergePublish
    <2>1. CASE Prs!Done(q) /\ UNCHANGED <<prTip, prHas, prLanded>>
      <3>1. HasT /\ TipT BY <2>1, <1>0, <1>p
      <3>2. ReqT BY <2>1, <3>1, <2>0, <1>d
      <3> QED BY <2>0, <3>1, <3>2
    <2>2. CASE Prs!CanCommit /\ Prs!Squash(q)
      <3>0. prReq[q].op = "merge" BY <1>11 DEF Prs!MergePublish, Prs!At
      <3>1. prReq[q].base \in 1 .. Len(prHas) /\ prReq[q].head \in 1 .. Len(prHas)
        BY <3>0, <1>h, <1>t
      <3>2. prHas[prReq[q].base] \cup prHas[prReq[q].head] \in Trees BY <3>1, <1>x, <1>y
      <3>3. prHas' = Append(prHas, prHas[prReq[q].base] \cup prHas[prReq[q].head])
        BY <2>2 DEF Prs!Squash
      <3>5. HasT /\ Len(prHas') = Prs!NewSha BY <2>2, <3>2, <3>3, <1>a
      <3>7. TipT
        <4>1. Prs!NewSha \in 0 .. Len(prHas') /\ Len(prHas) <= Len(prHas')
          BY <2>2, <3>5, <1>c, <1>t
        <4>2. \A b \in Prs!Branches : prTip[b] \in 0 .. Len(prHas') BY <4>1, <3>5, <1>t
        <4>3. prTip' = [prTip EXCEPT !["main"] = Prs!NewSha] BY <2>2 DEF Prs!Squash
        <4> QED BY <4>1, <4>2, <4>3, <1>t
      <3>8. Prs!NewSha \in 0 .. PrsMaxSha /\ Prs!NewSha # 0 BY <2>2, <1>c
      <3> DEFINE k == [prReq[q] EXCEPT !.pc = "published", !.base = Prs!NewSha]
      <3>9. k \in Prs!PrRequests /\ k.op = "merge" /\ k.base = Prs!NewSha /\ k.head = prReq[q].head /\
            k.pr = prReq[q].pr
        BY <3>8, <3>0, <1>h DEF Prs!PrRequests
      <3>10. prReq' = [prReq EXCEPT ![q] = k] BY <2>2 DEF Prs!Squash
      <3> HIDE DEF k
      <3>11. H(k) BY <3>0, <3>9, <3>8, <3>5, <2>0, <1>h, <1>t
      <3>12. ReqT BY <3>9, <3>10, <3>11, <3>5, <2>0, <1>r
      <3> QED BY <2>0, <3>5, <3>7, <3>12
    <2> QED BY <1>11, <2>1, <2>2 DEF Prs!MergePublish
  <1>12. ASSUME NEW q \in Actors, Prs!MergeRow(q) PROVE Goal
    <2>0. HasT /\ RevT /\ LeftT /\ NeedT BY <1>12, <1>0, <1>v, <1>t DEF Prs!MergeRow
    <2>1. prReq[q].pr \in DOMAIN prRows /\ prReq[q].base \in 0 .. PrsMaxSha
      BY <1>12, <1>h, <1>t DEF Prs!MergeRow, Prs!At, Prs!PrRequests
    <2>2. RowT BY <1>12, <2>1, <1>w, <1>t, PrsStateL DEF Prs!MergeRow
    <2>3. TipT
      <3>1. prHas' = prHas BY <1>12 DEF Prs!MergeRow
      <3>2. prTip' = prTip \/ prTip' = [prTip EXCEPT !["feat"] = 0] BY <1>12 DEF Prs!MergeRow
      <3>3. 0 \in 0 .. Len(prHas) BY <1>t
      <3> QED BY <3>1, <3>2, <3>3, <1>t
    <2>4. ReqT BY <1>12, <2>0, <2>2, <1>d DEF Prs!MergeRow
    <2> QED BY <2>0, <2>2, <2>3, <2>4
  <1>13. ASSUME UNCHANGED prVars PROVE Goal
    <2>0. HasT /\ RowT /\ RevT /\ TipT /\ LeftT /\ NeedT
      BY <1>13, <1>0, <1>w, <1>v, <1>p, <1>t DEF prVars
    <2> QED BY <1>13, <2>0, <1>u DEF prVars
  <1>14. Goal
    <2> HIDE DEF Goal
    <2> QED BY <1>1, <1>2, <1>3, <1>4, <1>5, <1>6, <1>7, <1>8, <1>9, <1>10, <1>11, <1>12, <1>13
               DEF Prs!Next, Prs!RequestStep
  <1>15. G1 /\ G2 /\ G3 BY <1>14, <1>q
  <1> QED BY <1>15 DEF G1, G2, G3

(* Every step keeps merges approved. *)
LEMMA PrsApprovedStep ==
  ASSUME Prs!Bounds, Prs!TypeOK, Prs!ApprovedInv, [Prs!Next]_prVars
  PROVE  Prs!ApprovedInv'
  <1> DEFINE Card(n, h) == Cardinality(Prs!Approvers(n, h))
             NewApprovers(n, h) ==
               {u \in PrsUsers \ {prRows'[n].author} :
                  \E i \in DOMAIN prReviews' : /\ prReviews'[i].pr = n /\ prReviews'[i].by = u
                                              /\ prReviews'[i].state = "approved"
                                              /\ prReviews'[i].sha = h}
             CardN(n, h) == Cardinality(NewApprovers(n, h))
  <1>t. prReviews \in Seq(Prs!PrReviewRows) /\ prReq \in [Actors -> Prs!PrRequests]
    BY DEF Prs!TypeOK
  <1>g. \A n \in DOMAIN prRows : \A h : Card(n, h) <= CardN(n, h) /\ Card(n, h) \in Nat /\ CardN(n, h) \in Nat
    <2> SUFFICES ASSUME NEW n \in DOMAIN prRows, NEW h
                 PROVE Card(n, h) <= CardN(n, h) /\ Card(n, h) \in Nat /\ CardN(n, h) \in Nat OBVIOUS
    <2>1. prRows'[n].author = prRows[n].author BY PrsTypeStep
    <2>2. Prs!Approvers(n, h) \subseteq NewApprovers(n, h)
      BY <2>1, PrsTypeStep DEF Prs!Approvers
    <2>3. NewApprovers(n, h) \subseteq PrsUsers OBVIOUS
    <2> QED BY <2>2, <2>3, PrsCardSub
  <1>q. ASSUME /\ \A m \in prLanded' : m.pr \in DOMAIN prRows /\ m.need \in Nat /\ CardN(m.pr, m.head) >= m.need,
               
               \A q \in Actors : prReq'[q].op = "merge" /\ prReq'[q].pc = "counted" =>
                    CardN(prReq'[q].pr, prReq'[q].head) >= prReq'[q].need
        PROVE Prs!ApprovedInv'
    <2>1. \A m \in prLanded' : m.pr \in DOMAIN prRows' BY <1>q, PrsTypeStep
    <2>2. Prs!MergedWasApproved' BY <1>q, PrsCardL DEF Prs!MergedWasApproved, Prs!Approvers
    <2>3. \A q \in Actors : Prs!At(q, "merge", "counted")' => Cardinality(Prs!Approvers(prReq[q].pr, prReq[q].head))' >= prReq'[q].need
      BY <1>q DEF Prs!At, Prs!Approvers
    <2>4. \A m \in prLanded' : m.need \in Nat BY <1>q
    <2> QED BY <2>1, <2>2, <2>3, <2>4, PrsCardL DEF Prs!ApprovedInv
  <1>a. \A m \in prLanded : m.pr \in DOMAIN prRows /\ m.need \in Nat /\ Card(m.pr, m.head) >= m.need
    BY PrsCardL DEF Prs!ApprovedInv, Prs!MergedWasApproved
  <1>b. \A q \in Actors : prReq[q].op = "merge" /\ prReq[q].pc = "counted" => Card(prReq[q].pr, prReq[q].head) >= prReq[q].need
    BY PrsCardL DEF Prs!ApprovedInv, Prs!At
  <1>c. \A q \in Actors : /\ prReq[q] \in Prs!PrRequests /\ prReq[q].need \in Nat
                          /\ prReq[q].op = "merge" => prReq[q].pr \in DOMAIN prRows
    BY <1>t DEF Prs!TypeOK, Prs!Holds, Prs!PrRequests
  <1> HIDE DEF Card, CardN
  <1>d. \A m \in prLanded : CardN(m.pr, m.head) >= m.need BY <1>a, <1>g
  <1>e. \A q \in Actors : prReq[q].op = "merge" /\ prReq[q].pc = "counted" => CardN(prReq[q].pr, prReq[q].head) >= prReq[q].need
    <2> SUFFICES ASSUME NEW q \in Actors, prReq[q].op = "merge", prReq[q].pc = "counted"
                 PROVE CardN(prReq[q].pr, prReq[q].head) >= prReq[q].need
      OBVIOUS
    <2>1. prReq[q].pr \in DOMAIN prRows /\ prReq[q].need \in Nat BY <1>c
    <2>2. Card(prReq[q].pr, prReq[q].head) >= prReq[q].need BY <1>b
    <2> QED BY <2>1, <2>2, <1>g
  <1>z. Prs!Quiet.op = "none" BY PrsQuietL
  <1>1. ASSUME prLanded' = prLanded,
               \A q \in Actors : prReq'[q] = prReq[q] \/ prReq'[q].op # "merge" \/ prReq'[q].pc # "counted"
        PROVE Prs!ApprovedInv'
    BY <1>1, <1>a, <1>d, <1>e, <1>q
  <1>2. ASSUME NEW q \in Actors, NEW k, k.op # "merge" \/ k.pc # "counted",
               prReq' = [prReq EXCEPT ![q] = k], prLanded' = prLanded
        PROVE Prs!ApprovedInv'
    BY <1>2, <1>1, <1>t
  <1>3. ASSUME Prs!Push \/ Prs!Create \/ Prs!SetRules
        PROVE  Prs!ApprovedInv' BY <1>3, <1>1 DEF Prs!Push, Prs!Create, Prs!SetRules
  <1>4. ASSUME NEW q \in Actors, Prs!CommitBegin(q) PROVE Prs!ApprovedInv'
    <2>1. PICK b \in Prs!Branches :
             prReq' = [prReq EXCEPT ![q] = [Prs!Quiet EXCEPT !.op = "commit", !.branch = b, !.pc = "resolved",
                                           !.base = prTip[b], !.head = IF prTip[b] # 0 THEN prTip[b] ELSE prTip["main"]]]
      BY <1>4 DEF Prs!CommitBegin
    <2> DEFINE k == [Prs!Quiet EXCEPT !.op = "commit", !.branch = b, !.pc = "resolved",
                                  !.base = prTip[b], !.head = IF prTip[b] # 0 THEN prTip[b] ELSE prTip["main"]]
    <2>2. k.op = "commit" BY DEF Prs!Quiet
    <2>3. prReq' = [prReq EXCEPT ![q] = k] BY <2>1
    <2> HIDE DEF k
    <2> QED BY <1>4, <2>2, <2>3, <1>2 DEF Prs!CommitBegin
  <1>5. ASSUME NEW q \in Actors, Prs!CommitPublish(q) PROVE Prs!ApprovedInv'
    <2>1. CASE Prs!Done(q) BY <1>5, <2>1, <1>2, <1>z DEF Prs!CommitPublish, Prs!Done
    <2>2. CASE prReq' = [prReq EXCEPT ![q] = [@ EXCEPT !.pc = "moved", !.head = Prs!NewSha]]
      <3> DEFINE k == [prReq[q] EXCEPT !.pc = "moved", !.head = Prs!NewSha]
      <3>1. prReq' = [prReq EXCEPT ![q] = k] /\ k.pc = "moved" BY <2>2, <1>c DEF Prs!PrRequests
      <3> HIDE DEF k
      <3> QED BY <1>5, <3>1, <1>2 DEF Prs!CommitPublish
    <2> QED BY <1>5, <2>1, <2>2 DEF Prs!CommitPublish
  <1>6. ASSUME NEW q \in Actors, Prs!CommitFollow(q) \/ Prs!Update(q) \/ Prs!Review(q)
        PROVE  Prs!ApprovedInv'
    BY <1>6, <1>2, <1>z DEF Prs!CommitFollow, Prs!Update, Prs!Review, Prs!Done
  <1>7. ASSUME NEW q \in Actors, Prs!Read(q) PROVE Prs!ApprovedInv'
    <2>1. PICK op \in {"close", "reopen", "review", "merge"}, n \in DOMAIN prRows, u \in PrsUsers, admin \in BOOLEAN :
             /\ u = prRows[n].author <=> op # "review"
             /\ prRows[n].state = IF op = "reopen" THEN "closed" ELSE "open"
             /\ op # "close" => prTip["feat"] # 0
             /\ op = "reopen" => ~Prs!OpenPair
             /\ op = "merge" => prTip["main"] # 0
             /\ prReq' = [prReq EXCEPT ![q] = [Prs!Quiet EXCEPT !.op = op, !.pr = n, !.by = u, !.pc = "resolved",
                                              !.base = prTip["main"], !.head = prTip["feat"],
                                              !.need = IF admin THEN 0 ELSE prNeed]]
      BY <1>7 DEF Prs!Read
    <2> DEFINE k == [Prs!Quiet EXCEPT !.op = op, !.pr = n, !.by = u, !.pc = "resolved",
                                  !.base = prTip["main"], !.head = prTip["feat"], !.need = IF admin THEN 0 ELSE prNeed]
    <2>2. k.pc = "resolved" BY DEF Prs!Quiet
    <2>3. prReq' = [prReq EXCEPT ![q] = k] BY <2>1
    <2> HIDE DEF k
    <2> QED BY <1>7, <2>2, <2>3, <1>2 DEF Prs!Read
  <1>8. ASSUME NEW q \in Actors, Prs!MergeCount(q) PROVE Prs!ApprovedInv'
    <2>1. CASE Prs!Done(q) BY <1>8, <2>1, <1>2, <1>z DEF Prs!MergeCount, Prs!Done
    <2>2. CASE ~(Prs!CountedApprovals(prReq[q].pr, prReq[q].head) < prReq[q].need) /\
               prReq' = [prReq EXCEPT ![q].pc = "counted"]
      <3>1. prReq[q].op = "merge" /\ prLanded' = prLanded BY <1>8 DEF Prs!MergeCount, Prs!At
      <3>2. Prs!CountedApprovals(prReq[q].pr, prReq[q].head) \in Nat /\
            Prs!CountedApprovals(prReq[q].pr, prReq[q].head) <= Card(prReq[q].pr, prReq[q].head)
             /\ Card(prReq[q].pr, prReq[q].head) \in Nat
        BY <1>t, PrsCountL DEF Card
      <3>3. CardN(prReq[q].pr, prReq[q].head) >= prReq[q].need BY <2>2, <3>1, <3>2, <1>c, <1>g
      <3> DEFINE k == [prReq[q] EXCEPT !.pc = "counted"]
      <3>4. prReq' = [prReq EXCEPT ![q] = k] /\ k.pr = prReq[q].pr /\ k.head = prReq[q].head /\
            k.need = prReq[q].need
        BY <2>2, <1>c DEF Prs!PrRequests
      <3> HIDE DEF k
      <3>5. \A p \in Actors : p # q => prReq'[p] = prReq[p] BY <3>4, <1>t
      <3>6. prReq'[q] = k BY <3>4, <1>t
      <3> QED BY <3>1, <3>3, <3>4, <3>5, <3>6, <1>a, <1>d, <1>e, <1>q
    <2> QED BY <1>8, <2>1, <2>2 DEF Prs!MergeCount
  <1>9. ASSUME NEW q \in Actors, Prs!MergePublish(q) PROVE Prs!ApprovedInv'
    <2>1. CASE Prs!Done(q) /\ prLanded' = prLanded BY <2>1, <1>2, <1>z DEF Prs!Done
    <2>2. CASE Prs!Squash(q)
      <3>1. prReq[q].op = "merge" /\ prReq[q].pc = "counted"
        BY <1>9 DEF Prs!MergePublish, Prs!At
      <3>2. CardN(prReq[q].pr, prReq[q].head) >= prReq[q].need /\ prReq[q].pr \in DOMAIN prRows /\
            prReq[q].need \in Nat
        BY <3>1, <1>e, <1>c
      <3> DEFINE k == [prReq[q] EXCEPT !.pc = "published", !.base = Prs!NewSha]
                 m == [pr |-> prReq[q].pr, head |-> prReq[q].head, need |-> prReq[q].need]
      <3>3. prReq' = [prReq EXCEPT ![q] = k] /\ k.pc = "published"
        BY <2>2, <1>c DEF Prs!Squash, Prs!PrRequests
      <3>4. prLanded' = prLanded \cup {m} /\ m.pr = prReq[q].pr /\ m.head = prReq[q].head /\
            m.need = prReq[q].need
        BY <2>2 DEF Prs!Squash
      <3> HIDE DEF k, m
      <3>5. \A p \in Actors : p # q => prReq'[p] = prReq[p] BY <3>3, <1>t
      <3>6. prReq'[q] = k BY <3>3, <1>t
      <3> QED BY <3>2, <3>3, <3>4, <3>5, <3>6, <1>a, <1>d, <1>e, <1>q
    <2> QED BY <1>9, <2>1, <2>2 DEF Prs!MergePublish
  <1>10. ASSUME NEW q \in Actors, Prs!MergeRow(q)
         PROVE  Prs!ApprovedInv' BY <1>10, <1>2, <1>z DEF Prs!MergeRow, Prs!Done
  <1>11. ASSUME UNCHANGED prVars PROVE Prs!ApprovedInv' BY <1>11, <1>1 DEF prVars
  <1> QED BY <1>3, <1>4, <1>5, <1>6, <1>7, <1>8, <1>9, <1>10, <1>11
             DEF Prs!Next, Prs!RequestStep

(* A step of the suite is a step of the pull requests or leaves them alone. *)
LEMMA PrsNext == [Next]_allVars => [Prs!Next]_prVars
  BY DEF Next, allVars, VoidStep, ScanStep, GitStep, PrsStep, WebStep, ConfStep, MapsStep,
         ImpStep, BootStep, R2Step, D1Step, S3Step

(* The inductive invariant of the pull requests. *)
LEMMA PrsInductive == Spec => [](Prs!TypeOK /\ Prs!ApprovedInv)
  <1> DEFINE Inv == Prs!TypeOK /\ Prs!ApprovedInv
  <1>1. Init => Inv BY PrsBounds, PrsInitL DEF Init
  <1>2. Inv /\ [Next]_allVars => Inv' BY PrsBounds, PrsNext, PrsTypeStep, PrsApprovedStep
  <1> QED BY <1>1, <1>2, PTL DEF Spec

(* What a merge put on main had, for the very commit that was merged, the   *)
(* approvals the rules asked for when the merge began, whatever is pushed,  *)
(* reviewed, closed or reopened between its reads and its publish           *)
(* (service/prs.rs merge, counted_approvals).                               *)
THEOREM MergesWereApproved == Spec => []MergedWasApproved
  <1>1. Prs!ApprovedInv => MergedWasApproved BY DEF Prs!ApprovedInv, MergedWasApproved
  <1> QED BY <1>1, PrsInductive, PTL


=============================================================================
