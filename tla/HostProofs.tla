---------------------------- MODULE HostProofs ----------------------------
(* What environments, sandboxes and telemetry of MCPlatform promise about   *)
(* hosts, ports, who may enter and what is counted, for every value of      *)
(* their constants.                                                         *)
EXTENDS PlatformProofs

-----------------------------------------------------------------------------
(* Preview environments (Environments). *)
(* The instance's cardinality is the cardinality. *)
LEMMA EnvCardL == \A S : Env!Cardinality(S) = Cardinality(S)
  BY DEF Env!Cardinality, Cardinality

(* The instance's finite sets are the finite sets. *)
LEMMA EnvFinL == \A S : Env!IsFiniteSet(S) <=> IsFiniteSet(S)
  BY DEF Env!IsFiniteSet, IsFiniteSet

(* The lowest of a set of naturals is one of them. *)
LEMMA EnvLowestL == ASSUME NEW S \in SUBSET Nat, S # {} PROVE Env!LowestOf(S) \in S
  <1>1. PICK u \in S : \A w \in S : u <= w BY NatMin
  <1> QED BY <1>1 DEF Env!LowestOf

(* The records at rest. *)
LEMMA EnvRestL ==
  ASSUME Env!Bounds
  PROVE  Env!NoRow \in Env!EnvRows /\ Env!NoReq \in Env!EnvReqs /\ Env!NoRow.at = "none" /\
         Env!NoReq.at = "free"
  <1>1. <<"base", 1>> \in Env!Labels BY DEF Env!Bounds, Env!Labels
  <1> QED BY <1>1 DEF Env!NoRow, Env!NoReq, Env!EnvRows, Env!EnvReqs, Env!Bounds

(* What changing one field of a row keeps. *)
LEMMA EnvRowL == ASSUME NEW r \in Env!EnvRows, NEW b \in BOOLEAN
  PROVE /\ LET n == [r EXCEPT !.at = "gone"] IN n \in Env!EnvRows /\ n.at = "gone" /\ n.pair = r.pair /\ n.label = r.label
        /\ LET n == [r EXCEPT !.asleep = b] IN n \in Env!EnvRows /\ n.at = r.at /\ n.pair = r.pair /\ n.label = r.label
        /\ LET n == [r EXCEPT !.public = b] IN n \in Env!EnvRows /\ n.at = r.at /\ n.pair = r.pair /\ n.label = r.label
  BY DEF Env!EnvRows

(* Spare operations are paid for. *)
LEMMA EnvSpareL == ASSUME Env!Bounds, eSpare \in Env!Spares
  PROVE /\ eSpare.begins > 0 => [eSpare EXCEPT !.begins = @ - 1] \in Env!Spares
        /\ eSpare.ops > 0 => [eSpare EXCEPT !.ops = @ - 1] \in Env!Spares
  BY DEF Env!Bounds, Env!Spares

(* Fewer taken labels than suffixes leave a suffix free. *)
LEMMA EnvFreeSuffix ==
  ASSUME Env!Bounds, Env!TypeOK, Env!Ever # Env!Ids, NEW base \in {"base", "user"}
  PROVE /\ Env!UniqueLabel(base) \in Env!Labels
        /\ \A i \in Env!Rows : eRow[i].label # Env!UniqueLabel(base)
  <1> DEFINE S == {n \in 1 .. EnvMaxEnvs : \A i \in Env!Rows : eRow[i].label # <<base, n>>}
  <1>1. PICK k \in Env!Ids : k \notin Env!Ever BY DEF Env!Ever
  <1>2. Env!Rows \subseteq Env!Ids \ {k} BY <1>1 DEF Env!Rows, Env!Ever
  <1>3. S # {}
    <2>1. SUFFICES ASSUME S = {} PROVE FALSE OBVIOUS
    <2>2. \A n \in 1..EnvMaxEnvs : \E i \in Env!Rows : eRow[i].label = <<base, n>> BY <2>1
    <2>3. \A i \in Env!Ids : eRow[i].label \in {"base", "user"} \X (1..EnvMaxEnvs)
      BY DEF Env!TypeOK, Env!EnvRows, Env!Labels
    <2> DEFINE f == [i \in Env!Ids \ {k} |-> eRow[i].label[2]]
               D == Env!Ids \ {k}
               R == 1..EnvMaxEnvs
    <2>4. f \in [D -> R] BY <2>3
    <2>5. \A n \in R : \E i \in D : f[i] = n
      <3>1. SUFFICES ASSUME NEW n \in R PROVE \E i \in D : f[i] = n OBVIOUS
      <3>2. PICK i \in Env!Rows : eRow[i].label = <<base, n>> BY <2>2
      <3>3. i \in D BY <1>2
      <3>4. f[i] = n BY <3>2, <3>3
      <3> QED BY <3>3, <3>4
    <2>6. IsFiniteSet(Env!Ids) /\ Cardinality(Env!Ids) = EnvMaxEnvs
      BY FS_Interval DEF Env!Ids, Env!Bounds
    <2>7. IsFiniteSet(D) /\ Cardinality(D) = EnvMaxEnvs - 1 BY <2>6, <1>1, FS_RemoveElement
    <2>8. f \in Surjection(D, R) BY <2>4, <2>5 DEF Surjection
    <2>9. Cardinality(R) <= Cardinality(D)
      <3> HIDE DEF f, D, R
      <3> QED BY <2>8, <2>7, FS_Surjection DEF ExistsSurjection
    <2>10. Cardinality(R) = EnvMaxEnvs BY <2>6 DEF Env!Ids
    <2> QED BY <2>7, <2>9, <2>10 DEF Env!Bounds
  <1>n. S \in SUBSET Nat OBVIOUS
  <1>4. Env!LowestOf(S) \in S
    <2> HIDE DEF S
    <2> QED BY <1>3, <1>n, EnvLowestL
  <1>5. Env!UniqueLabel(base) = <<base, Env!LowestOf(S)>> BY DEF Env!UniqueLabel
  <1> HIDE DEF S
  <1>6. S \subseteq 1..EnvMaxEnvs BY DEF S
  <1>7. \A n \in S : \A i \in Env!Rows : eRow[i].label # <<base, n>> BY DEF S
  <1>8. Env!UniqueLabel(base) \in Env!Labels
    <2>1. Env!LowestOf(S) \in 1..EnvMaxEnvs BY <1>4, <1>6
    <2> QED BY <2>1, <1>5 DEF Env!Labels
  <1>9. \A i \in Env!Rows : eRow[i].label # <<base, Env!LowestOf(S)>> BY <1>4, <1>7
  <1> QED BY <1>5, <1>8, <1>9

(* The invariant holds at first. *)
LEMMA EnvInitL == ASSUME Env!Bounds, Env!Init PROVE Env!TypeOK /\ Env!ClaimInv /\ Env!TokenInv
  <1>1. eRow \in [Env!Ids -> Env!EnvRows] /\ eReq \in [Actors -> Env!EnvReqs]
    BY EnvRestL DEF Env!Init
  <1>2. eSpare \in Env!Spares BY DEF Env!Init, Env!Spares, Env!Bounds
  <1>3. Env!TypeOK BY <1>1, <1>2 DEF Env!Init, Env!TypeOK
  <1>4. Env!Rows = {} BY EnvRestL DEF Env!Rows, Env!Init
  <1>5. \A q \in Actors : eReq[q].at = "free" BY EnvRestL DEF Env!Init
  <1>6. Env!ClaimInv BY <1>4, <1>5 DEF Env!ClaimInv, Env!HostsAndPortsDistinct
  <1>7. Env!TokenInv BY DEF Env!TokenInv, Env!OnlyVouchedEnter, Env!Init
  <1> QED BY <1>3, <1>6, <1>7

(* The row of a new environment. *)
LEMMA EnvNewRowL == ASSUME Env!Bounds, Env!TypeOK, Env!Ever # Env!Ids, NEW q \in Actors
  PROVE /\ Env!NewRow(q) \in Env!EnvRows /\ Env!NewRow(q).at = "row"
        /\ Env!NewRow(q).pair = eReq[q].pair
        /\ \A i \in Env!Rows : eRow[i].label # Env!NewRow(q).label
  <1>1. Env!Sanitize(eReq[q].ref) \in {"base", "user"} BY DEF Env!Sanitize
  <1>2. eReq[q].ref \in EnvRefs \cup {"none"} /\ eReq[q].pair \in 0..EnvMaxPairs
    BY DEF Env!TypeOK, Env!EnvReqs
  <1> DEFINE l == Env!UniqueLabel(Env!Sanitize(eReq[q].ref))
  <1>3. l \in Env!Labels /\ \A i \in Env!Rows : eRow[i].label # l BY <1>1, EnvFreeSuffix
  <1>4. Env!NewRow(q).label = l /\ Env!NewRow(q).at = "row" /\ Env!NewRow(q).pair = eReq[q].pair
    BY DEF Env!NewRow
  <1> HIDE DEF l
  <1>5. Env!NewRow(q) \in Env!EnvRows BY <1>2, <1>3 DEF Env!NewRow, Env!EnvRows, l
  <1> QED BY <1>3, <1>4, <1>5

(* What inserting a row does to the rows. *)
LEMMA EnvInsertL == ASSUME Env!Bounds, Env!TypeOK, NEW q \in Actors, Env!Insert(q)
  PROVE \E i \in Env!Ids \ Env!Ever :
          /\ eRow' = [eRow EXCEPT ![i] = Env!NewRow(q)]
          /\ \/ eReq' = [eReq EXCEPT ![q] = [eReq[q] EXCEPT !.at = "snapshot", !.id = i]] /\
                UNCHANGED eDep
             \/ eReq' = [eReq EXCEPT ![q] = Env!NoReq] /\ eDep' = [eDep EXCEPT ![i] = "queued"]
  <1>1. Env!Ids \ Env!Ever # {} /\ Env!Ids \ Env!Ever \in SUBSET Nat
    BY DEF Env!Insert, Env!Ever, Env!Ids
  <1>2. Env!LowestOf(Env!Ids \ Env!Ever) \in Env!Ids \ Env!Ever BY <1>1, EnvLowestL
  <1> QED BY <1>2 DEF Env!Insert

(* The pair that is claimed is free and lies in the range. *)
LEMMA EnvClaimL == ASSUME Env!Bounds, Env!TypeOK, NEW q \in Actors, Env!ClaimPorts(q)
  PROVE \/ eReq' = [eReq EXCEPT ![q] = Env!NoReq] /\ UNCHANGED eLock
        \/ \E p \in Env!FreePairs : eReq' = [eReq EXCEPT ![q] = [eReq[q] EXCEPT !.at = "claimed", !.pair = p]] /\ eLock' = q
  <1>1. Env!FreePairs \in SUBSET Nat BY DEF Env!FreePairs, Env!Pairs
  <1>2. CASE Env!FreePairs = {} BY <1>2 DEF Env!ClaimPorts
  <1>3. CASE Env!FreePairs # {}
    <2>1. Env!LowestOf(Env!FreePairs) \in Env!FreePairs BY <1>1, <1>3, EnvLowestL
    <2> QED BY <2>1, <1>3 DEF Env!ClaimPorts
  <1> QED BY <1>2, <1>3

(* Every step keeps the types. *)
LEMMA EnvTypeStep ==
  ASSUME Env!Bounds, Env!TypeOK, Env!ClaimInv, [Env!Next]_envVars
  PROVE  Env!TypeOK'
  <1> DEFINE RowsT == eRow' \in [Env!Ids -> Env!EnvRows]
             LiveT == eLive' \subseteq EnvRefs
             LockT == eLock' \in Actors \cup {"none"}
             ReqT == eReq' \in [Actors -> Env!EnvReqs]
             PrefT == ePrefix' \in [Env!Labels -> SUBSET Env!Ids]
             DepT == eDep' \in [Env!Ids -> {"none", "queued", "staged"}]
             TokT == eToken' \subseteq Env!Tokens
             GrT == eGranted' \subseteq EnvVisitors \X Env!Ids
             EnT == eEntered' \subseteq EnvVisitors \X Env!Ids
             SpT == eSpare' \in Env!Spares
             Goal == RowsT /\ LiveT /\ LockT /\ ReqT /\ PrefT /\ DepT /\ TokT /\ GrT /\ EnT /\ SpT
  <1>q. Goal => Env!TypeOK' BY DEF Env!TypeOK
  <1>t. /\ eRow \in [Env!Ids -> Env!EnvRows] /\ eLive \subseteq EnvRefs
        /\ eLock \in Actors \cup {"none"}
        /\ eReq \in [Actors -> Env!EnvReqs] /\ ePrefix \in [Env!Labels -> SUBSET Env!Ids]
        /\ eDep \in [Env!Ids -> {"none", "queued", "staged"}] /\ eToken \subseteq Env!Tokens
        /\ eGranted \subseteq EnvVisitors \X Env!Ids /\ eEntered \subseteq EnvVisitors \X Env!Ids
        /\ eSpare \in Env!Spares
    BY DEF Env!TypeOK
  <1>n. Env!NoReq \in Env!EnvReqs BY EnvRestL
  <1>s. /\ eSpare.begins > 0 => [eSpare EXCEPT !.begins = @ - 1] \in Env!Spares
        /\ eSpare.ops > 0 => [eSpare EXCEPT !.ops = @ - 1] \in Env!Spares
    BY <1>t, EnvSpareL
  <1>i. \A i \in Env!Ids : i \in 0..EnvMaxEnvs BY DEF Env!Ids, Env!Bounds
  <1>p. \A p \in Env!Pairs : p \in 0..EnvMaxPairs BY DEF Env!Pairs, Env!Bounds
  <1>1. ASSUME NEW q \in Actors, NEW ref \in EnvRefs, Env!CreateBegin(q, ref) PROVE Goal
    <2> DEFINE n == [Env!NoReq EXCEPT !.at = "checked", !.ref = ref]
    <2>1. n \in Env!EnvReqs BY <1>n DEF Env!EnvReqs
    <2> HIDE DEF n
    <2>2. ReqT BY <1>1, <1>t, <2>1 DEF Env!CreateBegin, n
    <2> QED BY <1>1, <1>t, <1>s, <2>2 DEF Env!CreateBegin
  <1>2. ASSUME NEW q \in Actors, NEW ref \in EnvRefs, Env!PreviewBegin(q, ref) PROVE Goal
    <2> DEFINE n == [Env!NoReq EXCEPT !.at = "checked", !.ref = ref]
               m(i) == [Env!NoReq EXCEPT !.at = "snapshot", !.ref = ref, !.id = i]
    <2>1. n \in Env!EnvReqs BY <1>n DEF Env!EnvReqs
    <2>2. \A i \in Env!Ids : m(i) \in Env!EnvReqs BY <1>n, <1>i DEF Env!EnvReqs
    <2>3. eReq' = [eReq EXCEPT ![q] = n] \/ \E i \in Env!Ids : eReq' = [eReq EXCEPT ![q] = m(i)]
      BY <1>2 DEF Env!PreviewBegin, Env!ByRef, Env!Rows
    <2> HIDE DEF n, m
    <2>4. ReqT BY <2>1, <2>2, <2>3, <1>t
    <2> QED BY <1>2, <1>t, <1>s, <2>4 DEF Env!PreviewBegin
  <1>3. ASSUME NEW q \in Actors, NEW ref \in EnvRefs, Env!RefDeleted(q, ref) PROVE Goal
    <2> DEFINE m(i) == [Env!NoReq EXCEPT !.at = "stop", !.id = i]
    <2>2. \A i \in Env!Ids : m(i) \in Env!EnvReqs BY <1>n, <1>i DEF Env!EnvReqs
    <2>3. UNCHANGED eReq \/ \E i \in Env!Ids : eReq' = [eReq EXCEPT ![q] = m(i)]
      BY <1>3 DEF Env!RefDeleted, Env!ByRef, Env!Rows
    <2> HIDE DEF m
    <2>4. ReqT BY <2>2, <2>3, <1>t
    <2> QED BY <1>3, <1>t, <1>s, <2>4 DEF Env!RefDeleted
  <1>4. ASSUME NEW q \in Actors, NEW i \in Env!Ids, Env!DeleteBegin(q, i) PROVE Goal
    <2> DEFINE m == [Env!NoReq EXCEPT !.at = "stop", !.id = i]
    <2>2. m \in Env!EnvReqs BY <1>n, <1>i DEF Env!EnvReqs
    <2> HIDE DEF m
    <2>4. ReqT BY <1>4, <2>2, <1>t DEF Env!DeleteBegin, m
    <2> QED BY <1>4, <1>t, <1>s, <2>4 DEF Env!DeleteBegin
  <1>5. ASSUME NEW q \in Actors, Env!ClaimPorts(q) PROVE Goal
    <2> DEFINE m(p) == [eReq[q] EXCEPT !.at = "claimed", !.pair = p]
    <2>1. \A p \in Env!Pairs : m(p) \in Env!EnvReqs BY <1>t, <1>p DEF Env!EnvReqs
    <2>2. \/ eReq' = [eReq EXCEPT ![q] = Env!NoReq]
          \/ \E p \in Env!Pairs : eReq' = [eReq EXCEPT ![q] = m(p)]
      BY <1>5, <1>t, EnvClaimL DEF Env!FreePairs
    <2>3. LockT BY <1>5, <1>t, EnvClaimL
    <2> HIDE DEF m
    <2>4. ReqT BY <2>1, <2>2, <1>t, <1>n
    <2> QED BY <1>5, <1>t, <2>3, <2>4 DEF Env!ClaimPorts
  <1>6. ASSUME NEW q \in Actors, Env!Insert(q) PROVE Goal
    <2> DEFINE m(i) == [eReq[q] EXCEPT !.at = "snapshot", !.id = i]
    <2>1. \A i \in Env!Ids : m(i) \in Env!EnvReqs BY <1>t, <1>i DEF Env!EnvReqs
    <2>2. PICK i \in Env!Ids \ Env!Ever :
            /\ eRow' = [eRow EXCEPT ![i] = Env!NewRow(q)]
            /\ \/ eReq' = [eReq EXCEPT ![q] = m(i)] /\ UNCHANGED eDep
               \/ eReq' = [eReq EXCEPT ![q] = Env!NoReq] /\ eDep' = [eDep EXCEPT ![i] = "queued"]
      BY <1>6, <1>t, EnvInsertL
    <2>3. Env!NewRow(q) \in Env!EnvRows BY <1>6, EnvNewRowL DEF Env!Insert
    <2> HIDE DEF m
    <2>4. RowsT BY <2>2, <2>3, <1>t
    <2>5. ReqT /\ DepT BY <2>1, <2>2, <1>t, <1>n
    <2>6. LockT BY <1>6, <1>t DEF Env!Insert
    <2> QED BY <1>6, <1>t, <2>4, <2>5, <2>6 DEF Env!Insert
  <1>7. ASSUME NEW q \in Actors, Env!Snapshot(q) PROVE Goal
    <2>1. eReq[q].ref \in EnvRefs BY <1>7 DEF Env!Snapshot, Env!ClaimInv
    <2> QED BY <1>7, <2>1, <1>t, <1>n DEF Env!Snapshot
  <1>8. ASSUME NEW q \in Actors, NEW fails \in BOOLEAN, Env!ClearPrefix(q, fails) PROVE Goal
    <2> DEFINE m == [eReq[q] EXCEPT !.at = "cleared"]
    <2>1. m \in Env!EnvReqs BY <1>t DEF Env!EnvReqs
    <2>2. eReq' = [eReq EXCEPT ![q] = Env!NoReq] \/ eReq' = [eReq EXCEPT ![q] = m]
      BY <1>8, <1>t DEF Env!ClearPrefix
    <2> HIDE DEF m
    <2>3. ReqT BY <2>1, <2>2, <1>t, <1>n
    <2>4. PrefT BY <1>8, <1>t DEF Env!ClearPrefix
    <2>5. SpT BY <1>8, <1>t, <1>s DEF Env!ClearPrefix
    <2> QED BY <1>8, <1>t, <2>3, <2>4, <2>5 DEF Env!ClearPrefix
  <1>9. ASSUME NEW q \in Actors, Env!DropRow(q) PROVE Goal
    <2>1. RowsT
      <3>1. \A i \in Env!Ids : [eRow[i] EXCEPT !.at = "gone"] \in Env!EnvRows BY <1>t, EnvRowL
      <3> QED BY <1>9, <3>1, <1>t DEF Env!DropRow
    <2> QED BY <1>9, <1>t, <2>1, <1>n DEF Env!DropRow
  <1>10. ASSUME NEW i \in Env!Ids, Env!DeployStage(i) PROVE Goal
    <2>1. PrefT BY <1>10, <1>t DEF Env!DeployStage
    <2> QED BY <1>10, <1>t, <2>1 DEF Env!DeployStage
  <1>11. ASSUME NEW i \in Env!Ids, Env!DeployEnd(i) \/ Env!SetPublic(i) \/ Env!Park(i)
         PROVE  Goal
    <2>1. RowsT
      <3>1. \A b \in BOOLEAN : [eRow[i] EXCEPT !.asleep = b] \in Env!EnvRows /\ [eRow[i] EXCEPT !.public = b] \in Env!EnvRows
        BY <1>t, EnvRowL
      <3>2. eRow[i].public \in BOOLEAN BY <1>t DEF Env!EnvRows
      <3>3. \/ UNCHANGED eRow \/ eRow' = [eRow EXCEPT ![i] = [eRow[i] EXCEPT !.public = ~eRow[i].public]]
            \/ \E b \in BOOLEAN : eRow' = [eRow EXCEPT ![i] = [eRow[i] EXCEPT !.asleep = b]]
        BY <1>11, <1>t DEF Env!DeployEnd, Env!SetPublic, Env!Park
      <3> QED BY <3>1, <3>2, <3>3, <1>t
    <2>2. DepT BY <1>11, <1>t DEF Env!DeployEnd, Env!SetPublic, Env!Park
    <2>3. SpT BY <1>11, <1>t, <1>s DEF Env!DeployEnd, Env!SetPublic, Env!Park
    <2> QED BY <1>11, <1>t, <2>1, <2>2, <2>3 DEF Env!DeployEnd, Env!SetPublic, Env!Park
  <1>12. ASSUME NEW v \in EnvVisitors, NEW i \in Env!Ids, Env!Grant(v, i) PROVE Goal
    <2>1. [kind |-> "grant", v |-> v, id |-> i] \in Env!Tokens BY DEF Env!Tokens
    <2> QED BY <1>12, <1>t, <1>s, <2>1 DEF Env!Grant
  <1>13. ASSUME NEW v \in EnvVisitors, NEW l \in Env!Labels, Env!EnvAuth(v, l) PROVE Goal
    <2>1. \A i \in Env!Ids : [kind |-> "cookie", v |-> v, id |-> i] \in Env!Tokens
      BY DEF Env!Tokens
    <2>2. Env!Host(l) \subseteq Env!Ids BY DEF Env!Host, Env!Rows
    <2> QED BY <1>13, <1>t, <2>1, <2>2 DEF Env!EnvAuth
  <1>14. ASSUME NEW v \in EnvVisitors, NEW l \in Env!Labels, Env!Visit(v, l) PROVE Goal
    <2>1. PICK i \in Env!Ids : eRow' = [eRow EXCEPT ![i].asleep = FALSE] /\ eEntered' = eEntered \cup {<<v, i>>}
      BY <1>14 DEF Env!Visit, Env!Host, Env!Rows
    <2>2. [eRow[i] EXCEPT !.asleep = FALSE] \in Env!EnvRows BY <1>t, EnvRowL
    <2>3. RowsT BY <2>1, <2>2, <1>t
    <2> QED BY <1>14, <1>t, <2>1, <2>3 DEF Env!Visit
  <1>15. CASE UNCHANGED envVars
    <2>1. UNCHANGED eLock /\ UNCHANGED eRow /\ UNCHANGED eReq BY <1>15 DEF envVars
    <2>2. UNCHANGED <<eLive, ePrefix, eDep, eToken, eGranted, eEntered, eSpare>>
      BY <1>15 DEF envVars
    <2>3. Goal BY <2>1, <2>2, <1>t
    <2> QED BY <2>3, <1>q
  <1> HIDE DEF Goal
  <1> QED BY <1>q, <1>1, <1>2, <1>3, <1>4, <1>5, <1>6, <1>7, <1>8, <1>9, <1>10, <1>11, <1>12,
             <1>13, <1>14, <1>15
      DEF Env!Next, Env!RequestStep

(* Every step keeps what the gate's tokens and cookies vouch for. *)
LEMMA EnvTokenStep == ASSUME Env!TokenInv, [Env!Next]_envVars PROVE Env!TokenInv'
  <1>1. CASE \E v \in EnvVisitors, i \in Env!Ids : Env!Grant(v, i)
    BY <1>1 DEF Env!Grant, Env!TokenInv, Env!OnlyVouchedEnter
  <1>2. ASSUME NEW v \in EnvVisitors, NEW l \in Env!Labels, Env!EnvAuth(v, l)
        PROVE  Env!TokenInv'
    BY <1>2 DEF Env!EnvAuth, Env!TokenInv, Env!OnlyVouchedEnter
  <1>3. ASSUME NEW v \in EnvVisitors, NEW l \in Env!Labels, Env!Visit(v, l) PROVE Env!TokenInv'
    BY <1>3 DEF Env!Visit, Env!Admits, Env!TokenInv, Env!OnlyVouchedEnter
  <1>4. CASE UNCHANGED <<eToken, eGranted, eEntered>>
    BY <1>4 DEF Env!TokenInv, Env!OnlyVouchedEnter
  <1> QED BY <1>1, <1>2, <1>3, <1>4
      DEF Env!Next, Env!RequestStep, Env!CreateBegin, Env!PreviewBegin, Env!RefDeleted, Env!DeleteBegin, Env!ClaimPorts, Env!Insert, Env!Snapshot,
          Env!ClearPrefix, Env!DropRow, Env!DeployStage, Env!DeployEnd, Env!SetPublic, Env!Park, envVars

(* Every step keeps ports and hosts apart, those held under the lock included. *)
LEMMA EnvClaimStep ==
  ASSUME Env!Bounds, Env!TypeOK, Env!ClaimInv, [Env!Next]_envVars
  PROVE  Env!ClaimInv'
  <1> DEFINE RefI == \A q \in Actors : eReq[q].at \in {"checked", "claimed", "snapshot"} => eReq[q].ref \in EnvRefs
             LockI == \A q \in Actors : eReq[q].at = "claimed" =>
                        eLock = q /\ \A i \in Env!Rows : eRow[i].pair # eReq[q].pair
             Apart == Env!HostsAndPortsDistinct
  <1>i. Env!ClaimInv <=> RefI /\ LockI /\ Apart BY DEF Env!ClaimInv
  <1>j. Env!ClaimInv' <=> RefI' /\ LockI' /\ Apart' BY DEF Env!ClaimInv
  <1>t. eRow \in [Env!Ids -> Env!EnvRows] /\ eReq \in [Actors -> Env!EnvReqs] BY DEF Env!TypeOK
  <1>n. Env!NoReq.at = "free" BY EnvRestL
  \* Rows that only change in what the invariant does not read, or go.
  <1> DEFINE Fewer == \A i \in Env!Ids : eRow'[i].at = "row" =>
                        eRow[i].at = "row" /\ eRow'[i].pair = eRow[i].pair /\
                        eRow'[i].label = eRow[i].label
             \* Requests other than q keep what they hold, and q holds no pair.
             Yields(q) == /\ \A p \in Actors \ {q} : eReq'[p] = eReq[p]
                          /\ eReq'[q].at # "claimed"
                          /\ eReq'[q].at \in {"checked", "snapshot"} => eReq'[q].ref \in EnvRefs
  <1>f. Fewer => Apart'
    BY <1>i DEF Env!HostsAndPortsDistinct, Env!Rows
  <1>k. Fewer /\ UNCHANGED <<eReq, eLock>> => RefI' /\ LockI' BY <1>i DEF Env!Rows
  <1>y. ASSUME NEW q \in Actors, Fewer, Yields(q), UNCHANGED eLock PROVE RefI' /\ LockI'
    <2>1. RefI' BY <1>y, <1>i
    <2>2. LockI' BY <1>y, <1>i DEF Env!Rows
    <2> QED BY <2>1, <2>2
  <1>s. UNCHANGED eRow => Fewer OBVIOUS
  <1> HIDE DEF RefI, LockI, Apart, Fewer, Yields
  <1>1. ASSUME NEW q \in Actors, NEW ref \in EnvRefs, Env!CreateBegin(q, ref)
        PROVE  Env!ClaimInv'
    <2>1. Yields(q) BY <1>1, <1>t DEF Env!CreateBegin, Yields, Env!NoReq
    <2> QED BY <1>1, <2>1, <1>y, <1>s, <1>f, <1>j DEF Env!CreateBegin
  <1>2. ASSUME NEW q \in Actors, NEW ref \in EnvRefs, Env!PreviewBegin(q, ref)
        PROVE  Env!ClaimInv'
    <2>1. Yields(q) BY <1>2, <1>t DEF Env!PreviewBegin, Yields, Env!NoReq
    <2> QED BY <1>2, <2>1, <1>y, <1>s, <1>f, <1>j DEF Env!PreviewBegin
  <1>3. ASSUME NEW q \in Actors, NEW ref \in EnvRefs, Env!RefDeleted(q, ref) PROVE Env!ClaimInv'
    <2>1. Yields(q) BY <1>3, <1>t DEF Env!RefDeleted, Yields, Env!NoReq
    <2> QED BY <1>3, <2>1, <1>y, <1>s, <1>f, <1>j DEF Env!RefDeleted
  <1>4. ASSUME NEW q \in Actors, NEW i \in Env!Ids, Env!DeleteBegin(q, i) PROVE Env!ClaimInv'
    <2>1. Yields(q) BY <1>4, <1>t DEF Env!DeleteBegin, Yields, Env!NoReq
    <2> QED BY <1>4, <2>1, <1>y, <1>s, <1>f, <1>j DEF Env!DeleteBegin
  <1>5. ASSUME NEW q \in Actors, Env!ClaimPorts(q) PROVE Env!ClaimInv'
    <2>1. UNCHANGED eRow /\ eLock = "none" /\ eReq[q].at = "checked" BY <1>5 DEF Env!ClaimPorts
    <2>2. CASE eReq' = [eReq EXCEPT ![q] = Env!NoReq] /\ UNCHANGED eLock
      <3>1. Yields(q) BY <2>2, <1>t, <1>n DEF Yields
      <3> QED BY <2>1, <2>2, <3>1, <1>y, <1>s, <1>f, <1>j
    <2>3. ASSUME NEW p \in Env!FreePairs, eLock' = q,
                 eReq' = [eReq EXCEPT ![q] = [eReq[q] EXCEPT !.at = "claimed", !.pair = p]]
          PROVE Env!ClaimInv'
      <3>1. \A r \in Actors : eReq[r].at # "claimed" BY <2>1, <1>i DEF LockI, Env!Bounds
      <3>2. eReq'[q].at = "claimed" /\ eReq'[q].pair = p /\ eReq'[q].ref = eReq[q].ref
        BY <2>3, <1>t DEF Env!EnvReqs
      <3>3. \A r \in Actors \ {q} : eReq'[r] = eReq[r] BY <2>3, <1>t
      <3>4. RefI' BY <3>2, <3>3, <1>i, <2>1 DEF RefI
      <3>5. \A i \in Env!Rows : eRow[i].pair # p BY DEF Env!FreePairs
      <3>6. LockI' BY <3>1, <3>2, <3>3, <3>5, <2>1, <2>3 DEF LockI, Env!Rows
      <3> QED BY <3>4, <3>6, <2>1, <1>s, <1>f, <1>j
    <2> QED BY <2>2, <2>3, <1>5, EnvClaimL
  <1>6. ASSUME NEW q \in Actors, Env!Insert(q) PROVE Env!ClaimInv'
    <2>0. eReq[q].at = "claimed" /\ Env!Ever # Env!Ids BY <1>6 DEF Env!Insert
    <2>1. PICK i \in Env!Ids \ Env!Ever :
            /\ eRow' = [eRow EXCEPT ![i] = Env!NewRow(q)]
            /\ \/ eReq' = [eReq EXCEPT ![q] = [eReq[q] EXCEPT !.at = "snapshot", !.id = i]] /\
                  UNCHANGED eDep
               \/ eReq' = [eReq EXCEPT ![q] = Env!NoReq] /\ eDep' = [eDep EXCEPT ![i] = "queued"]
      BY <1>6, EnvInsertL
    <2>2. eLock = q /\ \A j \in Env!Rows : eRow[j].pair # eReq[q].pair BY <2>0, <1>i DEF LockI
    <2>3. \A r \in Actors \ {q} : eReq[r].at # "claimed" BY <2>2, <1>i DEF LockI
    <2>4. \A r \in Actors \ {q} : eReq'[r] = eReq[r] BY <2>1, <1>t
    <2>5. eReq'[q].at # "claimed" /\
          (eReq'[q].at \in {"checked", "snapshot"} => eReq'[q].ref \in EnvRefs)
      <3>1. eReq[q].ref \in EnvRefs BY <2>0, <1>i DEF RefI
      <3>2. LET n == [eReq[q] EXCEPT !.at = "snapshot", !.id = i] IN n.at = "snapshot" /\ n.ref = eReq[q].ref
        BY <1>t DEF Env!EnvReqs
      <3> QED BY <2>1, <3>1, <3>2, <1>n, <1>t
    <2>6. RefI' BY <2>4, <2>5, <1>i DEF RefI
    <2>7. LockI' BY <2>3, <2>4, <2>5 DEF LockI
    <2>8. Apart'
      <3>1. Env!NewRow(q).pair = eReq[q].pair /\ \A j \in Env!Rows : eRow[j].label # Env!NewRow(q).label
        BY <2>0, EnvNewRowL
      <3>2. eRow'[i] = Env!NewRow(q) /\ \A j \in Env!Ids \ {i} : eRow'[j] = eRow[j]
        BY <2>1, <1>t
      <3>3. Env!Rows' \subseteq Env!Rows \cup {i} BY <3>2 DEF Env!Rows
      <3>4. \A j \in Env!Rows : j # i => eRow'[j].pair # eRow'[i].pair /\ eRow'[j].label # eRow'[i].label
        BY <3>1, <3>2, <2>2 DEF Env!Rows
      <3>5. \A j, k \in Env!Rows : j # i /\ k # i /\ j # k => eRow'[j].pair # eRow'[k].pair /\ eRow'[j].label # eRow'[k].label
        BY <3>2, <1>i DEF Env!Rows, Apart, Env!HostsAndPortsDistinct
      <3> QED BY <3>3, <3>4, <3>5 DEF Apart, Env!HostsAndPortsDistinct
    <2> QED BY <2>6, <2>7, <2>8, <1>j
  <1>7. ASSUME NEW q \in Actors, Env!Snapshot(q) PROVE Env!ClaimInv'
    <2>1. Yields(q) BY <1>7, <1>t, <1>n DEF Env!Snapshot, Yields
    <2> QED BY <1>7, <2>1, <1>y, <1>s, <1>f, <1>j DEF Env!Snapshot
  <1>8. ASSUME NEW q \in Actors, NEW fails \in BOOLEAN, Env!ClearPrefix(q, fails)
        PROVE  Env!ClaimInv'
    <2>1. [eReq[q] EXCEPT !.at = "cleared"].at = "cleared" BY <1>t DEF Env!EnvReqs
    <2>2. Yields(q) BY <1>8, <1>t, <1>n, <2>1 DEF Env!ClearPrefix, Yields
    <2> QED BY <1>8, <2>2, <1>y, <1>s, <1>f, <1>j DEF Env!ClearPrefix
  <1>9. ASSUME NEW q \in Actors, Env!DropRow(q) PROVE Env!ClaimInv'
    <2>1. Yields(q) BY <1>9, <1>t, <1>n DEF Env!DropRow, Yields
    <2>2. Fewer BY <1>9, <1>t, EnvRowL DEF Env!DropRow, Fewer
    <2> QED BY <1>9, <2>1, <2>2, <1>y, <1>f, <1>j DEF Env!DropRow
  <1>10. ASSUME NEW i \in Env!Ids, Env!DeployStage(i) PROVE Env!ClaimInv'
    BY <1>10, <1>s, <1>k, <1>f, <1>j DEF Env!DeployStage
  <1>11. ASSUME NEW i \in Env!Ids, Env!DeployEnd(i) \/ Env!SetPublic(i) \/ Env!Park(i)
         PROVE  Env!ClaimInv'
    <2>1. \/ UNCHANGED eRow \/ eRow' = [eRow EXCEPT ![i] = [eRow[i] EXCEPT !.public = ~eRow[i].public]]
          \/ \E b \in BOOLEAN : eRow' = [eRow EXCEPT ![i] = [eRow[i] EXCEPT !.asleep = b]]
      BY <1>11, <1>t DEF Env!DeployEnd, Env!SetPublic, Env!Park
    <2>2. eRow[i].public \in BOOLEAN BY <1>t DEF Env!EnvRows
    <2>3. Fewer
      <3>1. CASE eRow' = [eRow EXCEPT ![i] = [eRow[i] EXCEPT !.public = ~eRow[i].public]]
        <4> DEFINE n == [eRow[i] EXCEPT !.public = ~eRow[i].public]
        <4>1. n.at = eRow[i].at /\ n.pair = eRow[i].pair /\ n.label = eRow[i].label
          BY <1>t DEF Env!EnvRows
        <4> HIDE DEF n
        <4> QED BY <3>1, <4>1, <1>t DEF Fewer, n
      <3>2. ASSUME NEW b \in BOOLEAN, eRow' = [eRow EXCEPT ![i] = [eRow[i] EXCEPT !.asleep = b]]
            PROVE  Fewer
        <4> DEFINE n == [eRow[i] EXCEPT !.asleep = b]
        <4>1. n.at = eRow[i].at /\ n.pair = eRow[i].pair /\ n.label = eRow[i].label
          BY <1>t DEF Env!EnvRows
        <4> HIDE DEF n
        <4> QED BY <3>2, <4>1, <1>t DEF Fewer, n
      <3> QED BY <2>1, <3>1, <3>2, <1>s
    <2> QED BY <1>11, <2>3, <1>k, <1>f, <1>j DEF Env!DeployEnd, Env!SetPublic, Env!Park
  <1>12. CASE \E v \in EnvVisitors, i \in Env!Ids : Env!Grant(v, i)
    BY <1>12, <1>s, <1>k, <1>f, <1>j DEF Env!Grant
  <1>13. CASE \E v \in EnvVisitors, l \in Env!Labels : Env!EnvAuth(v, l)
    BY <1>13, <1>s, <1>k, <1>f, <1>j DEF Env!EnvAuth
  <1>14. ASSUME NEW v \in EnvVisitors, NEW l \in Env!Labels, Env!Visit(v, l) PROVE Env!ClaimInv'
    <2>1. PICK i \in Env!Ids : eRow' = [eRow EXCEPT ![i] = [eRow[i] EXCEPT !.asleep = FALSE]]
      BY <1>14 DEF Env!Visit, Env!Host, Env!Rows
    <2>2. Fewer BY <2>1, <1>t, EnvRowL DEF Fewer
    <2> QED BY <1>14, <2>2, <1>k, <1>f, <1>j DEF Env!Visit
  <1>15. CASE UNCHANGED envVars BY <1>15, <1>s, <1>k, <1>f, <1>j DEF envVars
  <1> QED BY <1>1, <1>2, <1>3, <1>4, <1>5, <1>6, <1>7, <1>8, <1>9, <1>10, <1>11, <1>12, <1>13,
             <1>14, <1>15
      DEF Env!Next, Env!RequestStep

(* A step of the platform is a step of the environments or leaves them alone. *)
LEMMA EnvNext == [Next]_allVars => [Env!Next]_envVars
  BY DEF Next, allVars, EnvStep, TelStep, SbxStep, CgStep, ErrStep, DomStep, InstStep,
         NoteStep, RenStep, EvStep, LogStep

(* The inductive invariant of the environments. *)
LEMMA EnvInductive == Spec => [](Env!TypeOK /\ Env!ClaimInv /\ Env!TokenInv)
  <1> DEFINE Inv == Env!TypeOK /\ Env!ClaimInv /\ Env!TokenInv
  <1>1. Init => Inv BY EnvBounds, EnvInitL DEF Init
  <1>2. Inv /\ [Next]_allVars => Inv'
    BY EnvBounds, EnvNext, EnvTypeStep, EnvClaimStep, EnvTokenStep
  <1> QED BY <1>1, <1>2, PTL DEF Spec

(* Two environments never share a port pair or a host, however many         *)
(* requests create and tear down at once: the pair is picked and the row    *)
(* inserted under PORT_ALLOC_LOCK (alloc.rs claim_ports_in,                 *)
(* environments.rs create, env_label.rs unique_label).                      *)
THEOREM EnvironmentsStayApart == Spec => []Env!HostsAndPortsDistinct
  <1>1. Env!ClaimInv => Env!HostsAndPortsDistinct BY DEF Env!ClaimInv
  <1> QED BY <1>1, EnvInductive, PTL

(* Nobody enters or wakes a members-only environment without a grant of the *)
(* control UI for that very environment, also on a host whose label another *)
(* environment had before (env_gate.rs env_auth, verify_cookie).            *)
THEOREM GateAdmitsVouched == Spec => []Env!OnlyVouchedEnter
  <1>1. Env!TokenInv => Env!OnlyVouchedEnter BY DEF Env!TokenInv
  <1> QED BY <1>1, EnvInductive, PTL



(* The edge's table, the wake hop, the fallback page and the certificate    *)
(* check give one answer about every host the table routes, for any rows,   *)
(* claims and calls, while no tenant base is below another and no app is    *)
(* called like the control host's label; and two environments never share   *)
(* a host or a port pair (edge_table.rs build_table, edge.rs, db/alloc.rs). *)
THEOREM HostsAreUnambiguous == ASSUME Dom!NamesApart PROVE Spec => []HostsUnambiguous
  <1>1. Dom!TypeOK /\ Dom!TokenInv /\ Dom!HostInv => Dom!ReadersAgree
    BY DomBounds, DomReadersL DEF Dom!TokenInv
  <1>2. Env!HostsAndPortsDistinct /\ Dom!ReadersAgree => HostsUnambiguous BY DEF HostsUnambiguous
  <1> QED BY <1>1, <1>2, DomInductive, EnvironmentsStayApart, PTL

-----------------------------------------------------------------------------
(* Sandboxes (Sandboxes). *)
(* The records at rest. *)
LEMMA SbxNoReqL == Sbx!NoReq \in Sbx!Reqs /\ Sbx!NoReq.pc = "none" /\ Sbx!NotClosing \in Sbx!Closings /\
                   Sbx!NotClosing.pc = "none" /\ Sbx!NotClosing.todo = {}
  BY DEF Sbx!NoReq, Sbx!Reqs, Sbx!NotClosing, Sbx!Closings

(* Noting that a fleet went keeps a request's record. *)
LEMMA SbxLateL == ASSUME NEW r \in Sbx!Reqs, NEW b \in BOOLEAN
  PROVE LET n == [r EXCEPT !.late = b] IN
        /\ n \in Sbx!Reqs /\ n.pc = r.pc /\ n.fleet = r.fleet /\ n.pid = r.pid /\ n.op = r.op
        /\ n.name = r.name
        /\ n.id = r.id /\ n.late = b
  BY DEF Sbx!Reqs

(* The counters of ids and processes. *)
LEMMA SbxNextL == ASSUME NEW m \in [id : Nat, pid : Nat], NEW i \in Nat
  PROVE /\ [m EXCEPT !.id = i] \in [id : Nat, pid : Nat] /\ [m EXCEPT !.id = i].id = i
        /\ [m EXCEPT !.pid = i] \in [id : Nat, pid : Nat] /\ [m EXCEPT !.pid = i].id = m.id
  OBVIOUS

(* How a request moves: what each of its steps does to the requests. *)
LEMMA SbxStepL ==
  ASSUME Sbx!StateOK, NEW q \in Actors,
         NEW pc \in {"check", "create", "record", "inspect", "call", "answer"}, Sbx!Step(q, pc)
  PROVE /\ xReq' \in [Actors -> Sbx!Reqs] /\ xReq'[q].pc = pc
        /\ xReq'[q].fleet = xReq[q].fleet /\ xReq'[q].pid = xReq[q].pid /\ xReq'[q].op = xReq[q].op
        /\ xReq'[q].name = xReq[q].name
        /\ xReq'[q].id = xReq[q].id /\ xReq'[q].late = xReq[q].late
        /\ \A p \in Actors : p # q => xReq'[p] = xReq[p]
  <1>1. xReq[q] \in Sbx!Reqs /\ xReq \in [Actors -> Sbx!Reqs] BY DEF Sbx!StateOK
  <1> DEFINE n == [xReq[q] EXCEPT !.pc = pc]
  <1>2. xReq' = [xReq EXCEPT ![q] = n] BY DEF Sbx!Step
  <1>3. /\ n \in Sbx!Reqs /\ n.pc = pc /\ n.fleet = xReq[q].fleet /\ n.pid = xReq[q].pid
        /\ n.op = xReq[q].op
        /\ n.name = xReq[q].name /\ n.id = xReq[q].id /\ n.late = xReq[q].late
    BY <1>1 DEF Sbx!Reqs
  <1> HIDE DEF n
  <1> QED BY <1>1, <1>2, <1>3

(* What going on to a step with a container in hand does. *)
LEMMA SbxStepIdL ==
  ASSUME Sbx!StateOK, NEW q \in Actors, NEW pc \in {"record", "call", "answer"}, NEW i \in Nat, 
                        xReq' = [xReq EXCEPT ![q].pc = pc, ![q].id = i]
  PROVE /\ xReq' \in [Actors -> Sbx!Reqs] /\ xReq'[q].pc = pc
        /\ xReq'[q].fleet = xReq[q].fleet /\ xReq'[q].pid = xReq[q].pid /\ xReq'[q].op = xReq[q].op
        /\ xReq'[q].name = xReq[q].name
        /\ xReq'[q].id = i /\ xReq'[q].late = xReq[q].late
        /\ \A p \in Actors : p # q => xReq'[p] = xReq[p]
  <1>1. xReq[q] \in Sbx!Reqs /\ xReq \in [Actors -> Sbx!Reqs] BY DEF Sbx!StateOK
  <1> DEFINE n == [xReq[q] EXCEPT !.pc = pc, !.id = i]
  <1>2. xReq' = [xReq EXCEPT ![q] = n] BY <1>1
  <1>3. /\ n \in Sbx!Reqs /\ n.pc = pc /\ n.fleet = xReq[q].fleet /\ n.pid = xReq[q].pid
        /\ n.op = xReq[q].op
        /\ n.name = xReq[q].name /\ n.id = i /\ n.late = xReq[q].late
    BY <1>1 DEF Sbx!Reqs
  <1> HIDE DEF n
  <1> QED BY <1>1, <1>2, <1>3

(* What the end of a request does. *)
LEMMA SbxDoneL == ASSUME Sbx!StateOK, NEW q \in Actors, Sbx!Done(q)
  PROVE /\ xReq' \in [Actors -> Sbx!Reqs] /\ xReq'[q].pc = "none"
        /\ \A p \in Actors : p # q => xReq'[p] = xReq[p]
  BY SbxNoReqL DEF Sbx!Done, Sbx!StateOK

(* What the end of a fleet does to the requests in flight. *)
LEMMA SbxGoneL == ASSUME Sbx!StateOK, NEW f \in SbxFleets, Sbx!Gone(f)
  PROVE /\ xReq' \in [Actors -> Sbx!Reqs]
        /\ \A q \in Actors :
             /\ xReq'[q].pc = xReq[q].pc /\ xReq'[q].fleet = xReq[q].fleet /\ xReq'[q].pid = xReq[q].pid
             /\ xReq'[q].op = xReq[q].op /\ xReq'[q].id = xReq[q].id /\ xReq'[q].name = xReq[q].name
             /\ xReq[q].late \/ (xReq[q].pc = "create" /\ xReq[q].fleet = f) => xReq'[q].late
  <1>1. \A q \in Actors : xReq[q] \in Sbx!Reqs BY DEF Sbx!StateOK
  <1>2. \A q \in Actors : (xReq[q].late \/ q \in Sbx!Late(f)) \in BOOLEAN OBVIOUS
  <1>3. xReq' = [q \in Actors |-> [xReq[q] EXCEPT !.late = (xReq[q].late \/ q \in Sbx!Late(f))]]
    BY <1>1 DEF Sbx!Gone, Sbx!Reqs
  <1>4. \A q \in Actors : [xReq[q] EXCEPT !.late = (xReq[q].late \/ q \in Sbx!Late(f))] \in Sbx!Reqs
    BY <1>1, <1>2, SbxLateL
  <1>5. xReq' \in [Actors -> Sbx!Reqs] BY <1>3, <1>4
  <1>6. ASSUME NEW q \in Actors
        PROVE /\ xReq'[q].pc = xReq[q].pc /\ xReq'[q].fleet = xReq[q].fleet
              /\ xReq'[q].pid = xReq[q].pid
              /\ xReq'[q].op = xReq[q].op /\ xReq'[q].id = xReq[q].id /\ xReq'[q].name = xReq[q].name
              /\ xReq'[q].late = (xReq[q].late \/ q \in Sbx!Late(f))
    BY <1>1, <1>2, <1>3, SbxLateL
  <1>7. \A q \in Actors : xReq[q].pc = "create" /\ xReq[q].fleet = f => q \in Sbx!Late(f)
    BY DEF Sbx!Late
  <1> QED BY <1>5, <1>6, <1>7

(* What creating a container does: the new id is nobody's yet. *)
LEMMA SbxCreateL ==
  ASSUME Sbx!Bounds, Sbx!StateOK, Sbx!IdInv, Sbx!OwnInv, NEW q \in Actors, Sbx!Create(q)
  PROVE /\ xReq[q].pc = "create" /\ xReq[q].fleet \in SbxFleets
        /\ \/ Sbx!Done(q) /\ UNCHANGED <<xEngine, xNext, xExcused>>
           \/ \E c \in Sbx!Containers :
                /\ c.owner = xReq[q].fleet /\ c.id = xNext.id + 1 /\ Sbx!NameFree(c.name)
                /\ xEngine' = xEngine \cup {c}
                /\ xNext' \in [id : Nat, pid : Nat] /\ xNext'.id = xNext.id + 1
                /\ xReq' = [xReq EXCEPT ![q].pc = "record", ![q].id = xNext.id + 1]
                /\ xReq[q].late => xNext.id + 1 \in xExcused'
                /\ xExcused \subseteq xExcused'
        /\ UNCHANGED <<xExecs, xProc, xPid, xReg, xKnown, xClose, xRunner, xActed>>
  <1>1. xReq[q].pc = "create" /\ xReq[q].fleet \in SbxFleets
    BY DEF Sbx!Create, Sbx!At, Sbx!OwnInv
  <1>2. xReq[q] \in Sbx!Reqs /\ xNext \in [id : Nat, pid : Nat] BY DEF Sbx!StateOK
  <1>3. xNext.id + 1 \in Nat BY <1>2
  <1>4. Sbx!AppContainer(q) \in Sbx!Containers /\ Sbx!AppContainer(q).owner = xReq[q].fleet /\
        Sbx!AppContainer(q).id = xNext.id + 1
    BY <1>1, <1>2, <1>3 DEF Sbx!AppContainer, Sbx!Containers, Sbx!FreshId, Sbx!Reqs
  <1>5. Sbx!FenceContainer(q) \in Sbx!Containers /\ Sbx!FenceContainer(q).owner = xReq[q].fleet /\
        Sbx!FenceContainer(q).id = xNext.id + 1
    BY <1>1, <1>2, <1>3 DEF Sbx!FenceContainer, Sbx!Containers, Sbx!FreshId, Sbx!Reqs
  <1> DEFINE c == IF xReq[q].op = "fence" THEN Sbx!FenceContainer(q) ELSE Sbx!AppContainer(q)
  <1>6. c \in Sbx!Containers /\ c.owner = xReq[q].fleet /\ c.id = xNext.id + 1 BY <1>4, <1>5
  <1> HIDE DEF c
  <1>7. UNCHANGED <<xExecs, xProc, xPid, xReg, xKnown, xClose, xRunner, xActed>>
    BY DEF Sbx!Create
  <1>8. CASE Sbx!Done(q) /\ UNCHANGED <<xEngine, xNext, xExcused, xLeft>> BY <1>1, <1>7, <1>8
  <1>9. CASE /\ Sbx!NameFree(c.name) /\ xEngine' = xEngine \cup {c}
             /\ xNext' = [xNext EXCEPT !.id = Sbx!FreshId]
             /\ xReq' = [xReq EXCEPT ![q].pc = "record", ![q].id = Sbx!FreshId]
             /\ xExcused' = IF xReq[q].late THEN xExcused \cup {Sbx!FreshId} ELSE xExcused
    BY <1>1, <1>2, <1>3, <1>6, <1>7, <1>9, SbxNextL DEF Sbx!FreshId
  <1> QED BY <1>8, <1>9 DEF Sbx!Create, c

(* What the ownership check establishes. *)
LEMMA SbxInspectL ==
  ASSUME Sbx!Bounds, Sbx!StateOK, Sbx!IdInv, Sbx!OwnInv, NEW q \in Actors, Sbx!Inspect(q)
  PROVE \/ Sbx!Done(q) /\ UNCHANGED <<xReg>>
        \/ \E c \in xEngine : /\ c.owner = xReq[q].fleet
                              /\ xReq' = [xReq EXCEPT ![q].pc = "call", ![q].id = c.id]
                              /\ xReg' = xReg \cup {[ref |-> c.id, fleet |-> xReq[q].fleet]}
  <1>1. CASE Sbx!Done(q) /\ UNCHANGED xReg BY <1>1
  <1>2. CASE /\ \E c \in Sbx!Meant(q) : c.owner = xReq[q].fleet
             /\ LET c == CHOOSE c \in Sbx!Meant(q) : TRUE IN
                /\ xReq' = [xReq EXCEPT ![q].pc = "call", ![q].id = c.id]
                /\ xReg' = xReg \cup {[ref |-> c.id, fleet |-> xReq[q].fleet]}
    <2>1. PICK c \in Sbx!Meant(q) : c.owner = xReq[q].fleet BY <1>2
    <2> DEFINE d == CHOOSE d \in Sbx!Meant(q) : TRUE
    <2>2. d \in Sbx!Meant(q) BY <2>1
    <2>3. xReq' = [xReq EXCEPT ![q].pc = "call", ![q].id = d.id] /\
          xReg' = xReg \cup {[ref |-> d.id, fleet |-> xReq[q].fleet]}
      BY <1>2
    <2> HIDE DEF d
    <2>4. xReq[q].pc # "none" /\ xReq[q].name # "" BY DEF Sbx!Inspect, Sbx!At, Sbx!OwnInv
    <2>5. c \in xEngine /\ d \in xEngine /\ (c.id = d.id \/ (c.name = d.name /\ c.name # ""))
      BY <2>1, <2>2, <2>4 DEF Sbx!Meant
    <2>6. c = d BY <2>5 DEF Sbx!IdInv
    <2> QED BY <2>1, <2>3, <2>5, <2>6
  <1> QED BY <1>1, <1>2 DEF Sbx!Inspect

(* What a call on a container does. *)
LEMMA SbxCallL ==
  ASSUME Sbx!Bounds, Sbx!StateOK, Sbx!IdInv, Sbx!OwnInv, NEW q \in Actors, Sbx!Call(q)
  PROVE /\ xReq[q].pc = "call"
        /\ \A c \in Sbx!Called(q) : c \in xEngine /\ c.id = xReq[q].id /\ c.owner = xReq[q].fleet /\ c.owner \in SbxFleets
        /\ \A c \in Sbx!Called(q) : \A d \in Sbx!Called(q) : c = d
        /\ xActed' = xActed \cup {<<xReq[q].fleet, c.owner>> : c \in Sbx!Called(q)}
        /\ xEngine' \subseteq xEngine
        /\ \/ /\ xNext' = [xNext EXCEPT !.id = xNext.id + 1]
              /\ xExecs' = xExecs \cup {[id |-> xNext.id + 1, owner |-> c.owner] : c \in Sbx!Called(q)}
              /\ xReq' = [xReq EXCEPT ![q].pc = "answer", ![q].id = xNext.id + 1]
              /\ xReq[q].op = "exec"
           \/ UNCHANGED <<xNext, xExecs>> /\ xReq[q].op = "remove" /\ Sbx!Step(q, "answer")
           \/ UNCHANGED <<xNext, xExecs>> /\ Sbx!Done(q)
        /\ UNCHANGED <<xProc, xPid, xReg, xKnown, xClose, xRunner, xExcused>>
  <1>1. xReq[q].pc = "call" BY DEF Sbx!Call, Sbx!At
  <1>2. \A c \in Sbx!Called(q) : c \in xEngine /\ c.id = xReq[q].id /\ c.owner = xReq[q].fleet /\ c.owner \in SbxFleets
    BY <1>1 DEF Sbx!Called, Sbx!OwnInv
  <1>3. ASSUME NEW c \in Sbx!Called(q), NEW d \in Sbx!Called(q) PROVE c = d
    <2>1. c \in xEngine /\ d \in xEngine /\ c.id = d.id BY <1>2
    <2> QED BY <2>1 DEF Sbx!IdInv
  <1>4. /\ xActed' = xActed \cup {<<xReq[q].fleet, c.owner>> : c \in Sbx!Called(q)}
        /\ xEngine' \subseteq xEngine
        /\ UNCHANGED <<xProc, xPid, xReg, xKnown, xClose, xRunner, xExcused>> BY DEF Sbx!Call
  <1>5. CASE xReq[q].op = "exec" /\ Sbx!Called(q) # {} /\ xLeft.ids > 0
    BY <1>1, <1>2, <1>3, <1>4, <1>5 DEF Sbx!Call, Sbx!FreshId
  <1>6. CASE ~(xReq[q].op = "exec" /\ Sbx!Called(q) # {} /\ xLeft.ids > 0)
    <2>1. UNCHANGED <<xNext, xExecs>> /\
          ((xReq[q].op = "remove" /\ Sbx!Step(q, "answer")) \/ Sbx!Done(q))
      BY <1>6 DEF Sbx!Call
    <2> QED BY <1>1, <1>2, <1>3, <1>4, <2>1
  <1> QED BY <1>5, <1>6

(* The invariant holds at first. *)
LEMMA SbxInitL == Sbx!Init => Sbx!StateOK /\ Sbx!IdInv /\ Sbx!OwnInv /\ Sbx!OrphanInv
  <1> SUFFICES ASSUME Sbx!Init PROVE Sbx!StateOK /\ Sbx!IdInv /\ Sbx!OwnInv /\ Sbx!OrphanInv OBVIOUS
  <1>1. \A q \in Actors : xReq[q] = Sbx!NoReq /\ xReq[q].pc = "none" BY SbxNoReqL DEF Sbx!Init
  <1>2. \A f \in SbxFleets : xClose[f] = Sbx!NotClosing /\ xProc[f] = "none" /\ xPid[f] = 0
    BY DEF Sbx!Init
  <1>3. xRunner \in Sbx!Runners /\ xRunner.pc = "up" /\ xRunner.todo = {}
    BY DEF Sbx!Init, Sbx!Runners
  <1>4. xNext \in [id : Nat, pid : Nat] BY DEF Sbx!Init
  <1>5. Sbx!StateOK
    <2>1. xReq \in [Actors -> Sbx!Reqs] BY SbxNoReqL DEF Sbx!Init
    <2>2. xClose \in [SbxFleets -> Sbx!Closings] BY SbxNoReqL DEF Sbx!Init
    <2>3. xProc \in [SbxFleets -> {"none", "running", "exited"}] /\ xPid \in [SbxFleets -> Nat]
      BY DEF Sbx!Init
    <2>4. xEngine = {} /\ xExecs = {} /\ xReg = {} /\ xKnown = {} BY DEF Sbx!Init
    <2> QED BY <1>3, <1>4, <2>1, <2>2, <2>3, <2>4 DEF Sbx!StateOK
  <1>6. Sbx!IdInv BY <1>1, <1>3 DEF Sbx!Init, Sbx!IdInv
  <1>7. Sbx!OwnInv BY <1>1, <1>3 DEF Sbx!Init, Sbx!OwnInv, Sbx!ActsOnOwn
  <1>8. Sbx!OrphanInv
    BY <1>1, <1>2, <1>3 DEF Sbx!Init, Sbx!OrphanInv, Sbx!OrphansAccounted, Sbx!Installed
  <1> QED BY <1>5, <1>6, <1>7, <1>8

(* Every step keeps the types. *)
LEMMA SbxTypeStep ==
  ASSUME Sbx!Bounds, Sbx!StateOK, Sbx!IdInv, Sbx!OwnInv, [Sbx!Next]_sbxVars
  PROVE  Sbx!StateOK'
  <1>0. /\ xEngine \subseteq Sbx!Containers /\ xExecs \subseteq Sbx!Execs
        /\ xReg \subseteq Sbx!Refs /\ xKnown \subseteq Sbx!Refs
        /\ xProc \in [SbxFleets -> {"none", "running", "exited"}] /\ xPid \in [SbxFleets -> Nat]
        /\ xReq \in [Actors -> Sbx!Reqs] /\ xClose \in [SbxFleets -> Sbx!Closings]
        /\ xRunner \in Sbx!Runners /\ xNext \in [id : Nat, pid : Nat] BY DEF Sbx!StateOK
  <1>n. \A c \in xEngine : c.id \in Nat /\ c.owner \in SbxFleets \cup {"other"}
    BY <1>0 DEF Sbx!Containers
  <1>1. CASE UNCHANGED sbxVars BY <1>0, <1>1 DEF sbxVars, Sbx!StateOK
  <1>2. ASSUME NEW f \in SbxFleets, Sbx!Spawn(f) PROVE Sbx!StateOK'
    <2>1. xNext.pid + 1 \in Nat BY <1>0
    <2>2. xNext' \in [id : Nat, pid : Nat] BY <1>0, <1>2, <2>1, SbxNextL DEF Sbx!Spawn
    <2> QED BY <1>0, <1>2, <2>1, <2>2 DEF Sbx!Spawn, Sbx!StateOK
  <1>3. ASSUME NEW f \in SbxFleets, Sbx!Exit(f)
        PROVE  Sbx!StateOK' BY <1>0, <1>3 DEF Sbx!Exit, Sbx!StateOK
  <1>4. ASSUME NEW f \in SbxFleets, Sbx!Gone(f) PROVE Sbx!StateOK'
    <2>1. xReq' \in [Actors -> Sbx!Reqs] BY <1>4, SbxGoneL
    <2>2. [pc |-> "list", todo |-> {}] \in Sbx!Closings BY DEF Sbx!Closings
    <2>3. xClose' \in [SbxFleets -> Sbx!Closings] /\ xKnown' \subseteq Sbx!Refs
      BY <1>0, <1>4, <2>2 DEF Sbx!Gone
    <2>4. xProc' \in [SbxFleets -> {"none", "running", "exited"}] /\ xPid' \in [SbxFleets -> Nat]
      BY <1>0, <1>4 DEF Sbx!Gone
    <2>5. UNCHANGED <<xEngine, xExecs, xReg, xRunner, xNext>> BY <1>4 DEF Sbx!Gone
    <2> QED BY <1>0, <2>1, <2>3, <2>4, <2>5 DEF Sbx!StateOK
  <1>5. ASSUME NEW f \in SbxFleets, Sbx!CloseList(f) \/ Sbx!CloseDelete(f) \/ Sbx!CloseForget(f)
        PROVE  Sbx!StateOK'
    <2>1. xClose' \in [SbxFleets -> Sbx!Closings]
      <3>0. xClose[f] \in Sbx!Closings BY <1>0
      <3>1. CASE Sbx!CloseList(f)
        <4>1. [pc |-> "delete", todo |-> {c.id : c \in Sbx!Labelled(f)}] \in Sbx!Closings
          BY <1>n DEF Sbx!Closings, Sbx!Labelled
        <4>2. [xClose[f] EXCEPT !.pc = "delete"] \in Sbx!Closings BY <3>0 DEF Sbx!Closings
        <4>3. xClose' = [xClose EXCEPT ![f] = [pc |-> "delete", todo |-> {c.id : c \in Sbx!Labelled(f)}]]
              \/ xClose' = [xClose EXCEPT ![f] = [xClose[f] EXCEPT !.pc = "delete"]]
                BY <3>1 DEF Sbx!CloseList
        <4> QED BY <1>0, <4>1, <4>2, <4>3
      <3>2. CASE Sbx!CloseDelete(f)
        <4>1. \A t \in SUBSET xClose[f].todo : [xClose[f] EXCEPT !.todo = t] \in Sbx!Closings
          BY <3>0 DEF Sbx!Closings
        <4>2. \E t \in SUBSET xClose[f].todo : xClose' = [xClose EXCEPT ![f] = [xClose[f] EXCEPT !.todo = t]]
          <5>1. PICK id \in xClose[f].todo : xClose' = [xClose EXCEPT ![f].todo = @ \ {id}] \/ xClose' = [xClose EXCEPT ![f].todo = {}]
            BY <3>2 DEF Sbx!CloseDelete
          <5>2. xClose' = [xClose EXCEPT ![f] = [xClose[f] EXCEPT !.todo = xClose[f].todo \ {id}]]
                \/ xClose' = [xClose EXCEPT ![f] = [xClose[f] EXCEPT !.todo = {}]] BY <5>1
          <5> QED BY <5>2
        <4> QED BY <1>0, <4>1, <4>2
      <3>3. CASE Sbx!CloseForget(f) BY <1>0, <3>3, SbxNoReqL DEF Sbx!CloseForget
      <3> QED BY <1>5, <3>1, <3>2, <3>3
    <2>2. xEngine' \subseteq xEngine /\ xReg' \subseteq xReg
      BY <1>5 DEF Sbx!CloseList, Sbx!CloseDelete, Sbx!CloseForget
    <2>3. UNCHANGED <<xExecs, xProc, xPid, xKnown, xReq, xRunner, xNext>>
      BY <1>5 DEF Sbx!CloseList, Sbx!CloseDelete, Sbx!CloseForget
    <2> QED BY <1>0, <2>1, <2>2, <2>3 DEF Sbx!StateOK
  <1>6. ASSUME NEW q \in Actors, NEW f \in SbxFleets, Sbx!Send(q, f) PROVE Sbx!StateOK'
    <2>1. PICK op \in Sbx!Ops, n \in SbxNames, id \in 0 .. xNext.id :
             xReq' = [xReq EXCEPT ![q] = [pc |-> "check", fleet |-> f, pid |-> xPid[f], op |-> op, name |-> n, id |-> id, late |-> FALSE]]
      BY <1>6 DEF Sbx!Send
    <2>2. id \in Nat /\ xPid[f] \in Nat BY <1>0
    <2>3. [pc |-> "check", fleet |-> f, pid |-> xPid[f], op |-> op, name |-> n, id |-> id, late |-> FALSE] \in Sbx!Reqs
      BY <2>2 DEF Sbx!Reqs
    <2>4. xReq' \in [Actors -> Sbx!Reqs] BY <1>0, <2>1, <2>3
    <2> QED BY <1>0, <1>6, <2>4 DEF Sbx!Send, Sbx!StateOK
  <1>7. ASSUME NEW q \in Actors, Sbx!Check(q) PROVE Sbx!StateOK'
    <2>1. Sbx!Forwarded(xReq[q].op) \in {"create", "inspect"} BY DEF Sbx!Forwarded
    <2>2. Sbx!Step(q, "create") \/ Sbx!Step(q, "inspect") \/ Sbx!Done(q)
      BY <1>7, <2>1 DEF Sbx!Check
    <2>3. xReq' \in [Actors -> Sbx!Reqs] BY <2>2, SbxStepL, SbxDoneL
    <2> QED BY <1>0, <1>7, <2>3 DEF Sbx!Check, Sbx!StateOK
  <1>8. ASSUME NEW q \in Actors, Sbx!Create(q) PROVE Sbx!StateOK'
    <2>1. UNCHANGED <<xExecs, xProc, xPid, xReg, xKnown, xClose, xRunner, xActed>>
      BY <1>8, SbxCreateL
    <2>2. CASE Sbx!Done(q) /\ UNCHANGED <<xEngine, xNext, xExcused>>
      BY <1>0, <2>1, <2>2, SbxDoneL DEF Sbx!StateOK
    <2>3. ASSUME NEW c \in Sbx!Containers, xEngine' = xEngine \cup {c},
                 xNext' \in [id : Nat, pid : Nat], 
                 xReq' = [xReq EXCEPT ![q].pc = "record", ![q].id = xNext.id + 1]
          PROVE Sbx!StateOK'
      <3>1. xNext.id + 1 \in Nat BY <1>0
      <3>2. xReq' \in [Actors -> Sbx!Reqs] BY <2>3, <3>1, SbxStepIdL
      <3> QED BY <1>0, <2>1, <2>3, <3>2 DEF Sbx!StateOK
    <2> QED BY <1>8, <2>2, <2>3, SbxCreateL
  <1>9. ASSUME NEW q \in Actors, Sbx!Record(q) PROVE Sbx!StateOK'
    <2>1. xReq' \in [Actors -> Sbx!Reqs] BY <1>9, SbxDoneL DEF Sbx!Record
    <2>2. xReq[q].fleet \in SbxFleets /\ xReq[q].id \in Nat
      BY <1>0, <1>9 DEF Sbx!Record, Sbx!At, Sbx!OwnInv, Sbx!Reqs
    <2>3. [ref |-> xReq[q].id, fleet |-> xReq[q].fleet] \in Sbx!Refs BY <2>2 DEF Sbx!Refs
    <2>4. xReg' \subseteq Sbx!Refs BY <1>0, <1>9, <2>3 DEF Sbx!Record
    <2> QED BY <1>0, <1>9, <2>1, <2>4 DEF Sbx!Record, Sbx!StateOK
  <1>10. ASSUME NEW q \in Actors, Sbx!Inspect(q) PROVE Sbx!StateOK'
    <2>1. xReq[q].fleet \in SbxFleets BY <1>10 DEF Sbx!Inspect, Sbx!At, Sbx!OwnInv
    <2>2. UNCHANGED <<xEngine, xExecs, xProc, xPid, xKnown, xClose, xRunner, xNext, xActed, xExcused, xLeft>>
      BY <1>10 DEF Sbx!Inspect
    <2>3. CASE Sbx!Done(q) /\ UNCHANGED <<xReg>> BY <1>0, <2>2, <2>3, SbxDoneL DEF Sbx!StateOK
    <2>4. ASSUME NEW c \in xEngine, xReq' = [xReq EXCEPT ![q].pc = "call", ![q].id = c.id],
                 xReg' = xReg \cup {[ref |-> c.id, fleet |-> xReq[q].fleet]}
          PROVE Sbx!StateOK'
      <3>1. xReq' \in [Actors -> Sbx!Reqs] BY <1>n, <2>4, SbxStepIdL
      <3>2. [ref |-> c.id, fleet |-> xReq[q].fleet] \in Sbx!Refs BY <1>n, <2>1 DEF Sbx!Refs
      <3> QED BY <1>0, <2>2, <2>4, <3>1, <3>2 DEF Sbx!StateOK
    <2> QED BY <1>10, <2>3, <2>4, SbxInspectL
  <1>11. ASSUME NEW q \in Actors, Sbx!Call(q) PROVE Sbx!StateOK'
    <2>1. xEngine' \subseteq xEngine /\
          UNCHANGED <<xProc, xPid, xReg, xKnown, xClose, xRunner, xExcused>>
      BY <1>11, SbxCallL
    <2>2. CASE /\ xNext' = [xNext EXCEPT !.id = xNext.id + 1]
               /\ xExecs' = xExecs \cup {[id |-> xNext.id + 1, owner |-> c.owner] : c \in Sbx!Called(q)}
               /\ xReq' = [xReq EXCEPT ![q].pc = "answer", ![q].id = xNext.id + 1]
      <3>1. xNext.id + 1 \in Nat BY <1>0
      <3>2. xReq' \in [Actors -> Sbx!Reqs] BY <2>2, <3>1, SbxStepIdL
      <3>3. xNext' \in [id : Nat, pid : Nat] BY <1>0, <2>2, <3>1, SbxNextL
      <3>4. \A c \in Sbx!Called(q) : [id |-> xNext.id + 1, owner |-> c.owner] \in Sbx!Execs
        BY <1>n, <3>1 DEF Sbx!Called, Sbx!Execs
      <3> QED BY <1>0, <2>1, <2>2, <3>2, <3>3, <3>4 DEF Sbx!StateOK
    <2>3. CASE UNCHANGED <<xNext, xExecs>> /\ (Sbx!Step(q, "answer") \/ Sbx!Done(q))
      <3>1. xReq' \in [Actors -> Sbx!Reqs] BY <2>3, SbxStepL, SbxDoneL
      <3> QED BY <1>0, <2>1, <2>3, <3>1 DEF Sbx!StateOK
    <2> QED BY <1>11, <2>2, <2>3, SbxCallL
  <1>12. ASSUME NEW q \in Actors, Sbx!Answer(q) PROVE Sbx!StateOK'
    <2>1. xReq' \in [Actors -> Sbx!Reqs] BY <1>12, SbxDoneL DEF Sbx!Answer
    <2>2. xReq[q].fleet \in SbxFleets /\ xReq[q].id \in Nat
      BY <1>0, <1>12 DEF Sbx!Answer, Sbx!At, Sbx!OwnInv, Sbx!Reqs
    <2>3. [ref |-> xReq[q].id, fleet |-> xReq[q].fleet] \in Sbx!Refs BY <2>2 DEF Sbx!Refs
    <2>4. xReg' \subseteq Sbx!Refs /\ xKnown' \subseteq Sbx!Refs
      BY <1>0, <1>12, <2>3 DEF Sbx!Answer
    <2> QED BY <1>0, <1>12, <2>1, <2>4 DEF Sbx!Answer, Sbx!StateOK
  <1>13. ASSUME NEW f \in SbxFleets, NEW id \in 1 .. SbxMaxIds, Sbx!ExecStart(f, id)
         PROVE  Sbx!StateOK' BY <1>0, <1>13 DEF Sbx!ExecStart, Sbx!StateOK
  <1>14. ASSUME NEW n \in SbxNames, Sbx!Foreign(n) PROVE Sbx!StateOK'
    <2>1. xNext.id + 1 \in Nat BY <1>0
    <2>2. [id |-> xNext.id + 1, name |-> n, owner |-> "other", fence |-> FALSE] \in Sbx!Containers
      BY <2>1 DEF Sbx!Containers
    <2>3. xEngine' \subseteq Sbx!Containers BY <1>0, <1>14, <2>2 DEF Sbx!Foreign, Sbx!FreshId
    <2>4. xNext' \in [id : Nat, pid : Nat]
      BY <1>0, <1>14, <2>1, SbxNextL DEF Sbx!Foreign, Sbx!FreshId
    <2> QED BY <1>0, <1>14, <2>3, <2>4 DEF Sbx!Foreign, Sbx!StateOK
  <1>15. CASE Sbx!Restart
    <2>1. xReq' \in [Actors -> Sbx!Reqs] /\ xClose' \in [SbxFleets -> Sbx!Closings]
      BY <1>15, SbxNoReqL DEF Sbx!Restart
    <2>2. xRunner' \in Sbx!Runners BY <1>15 DEF Sbx!Restart, Sbx!Runners
    <2> QED BY <1>0, <1>15, <2>1, <2>2 DEF Sbx!Restart, Sbx!StateOK
  <1>16. CASE Sbx!SweepList \/ Sbx!SweepDelete \/ Sbx!SweepEnd
    <2>1. xRunner' \in Sbx!Runners
      <3>1. CASE Sbx!SweepList
        BY <1>n, <3>1 DEF Sbx!SweepList, Sbx!Runners, Sbx!Swept, Sbx!Installed
      <3>2. CASE Sbx!SweepDelete BY <1>0, <3>2 DEF Sbx!SweepDelete, Sbx!Runners
      <3>3. CASE Sbx!SweepEnd BY <3>3 DEF Sbx!SweepEnd, Sbx!Runners
      <3> QED BY <1>16, <3>1, <3>2, <3>3
    <2>2. xEngine' \subseteq xEngine BY <1>16 DEF Sbx!SweepList, Sbx!SweepDelete, Sbx!SweepEnd
    <2>3. UNCHANGED <<xExecs, xProc, xPid, xReg, xKnown, xReq, xClose, xNext>>
      BY <1>16 DEF Sbx!SweepList, Sbx!SweepDelete, Sbx!SweepEnd
    <2> QED BY <1>0, <2>1, <2>2, <2>3 DEF Sbx!StateOK
  <1> QED BY <1>1, <1>2, <1>3, <1>4, <1>5, <1>6, <1>7, <1>8, <1>9, <1>10, <1>11, <1>12, <1>13,
             <1>14, <1>15, <1>16 DEF Sbx!Next

(* Every step keeps ids below the next one, and one container per id. *)
LEMMA SbxIdStep ==
  ASSUME Sbx!Bounds, Sbx!StateOK, Sbx!IdInv, Sbx!OwnInv, [Sbx!Next]_sbxVars
  PROVE  Sbx!IdInv'
  <1>0. xNext \in [id : Nat, pid : Nat] /\ xNext.id \in Nat /\ xReq \in [Actors -> Sbx!Reqs]
    BY DEF Sbx!StateOK
  <1> DEFINE Given(i, r) == r.pc \in {"record", "call", "answer"} => r.id \in 1..i
  <1>g. \A q \in Actors : Given(xNext.id, xReq[q]) BY DEF Sbx!IdInv
  <1>k. /\ \A c \in xEngine \cup xExecs : c.id \in 1..xNext.id
        /\ \A r \in xReg \cup xKnown : r.ref \in 1..xNext.id
        /\ xRunner.todo \subseteq 1..xNext.id BY DEF Sbx!IdInv
  <1>m. 1..xNext.id \subseteq 1..(xNext.id + 1) /\ xNext.id + 1 \in 1..(xNext.id + 1) /\
        xNext.id + 1 \notin 1..xNext.id
    BY <1>0
  (* No container, exec or id is new: only the requests are left to look at. *)
  <1>1. ASSUME xEngine' \subseteq xEngine, xExecs' = xExecs, xNext'.id = xNext.id,
               \A r \in xReg' \cup xKnown' : r.ref \in 1..xNext.id,
               xRunner'.todo \subseteq 1..xNext.id,
               \A q \in Actors : Given(xNext.id, xReq'[q])
        PROVE Sbx!IdInv'
    <2>1. \A c, d \in xEngine' : c.id = d.id \/ (c.name = d.name /\ c.name # "") => c = d
      BY <1>1 DEF Sbx!IdInv
    <2>2. \A c \in xEngine' \cup xExecs' : c.id \in 1..xNext'.id BY <1>1, <1>k
    <2>3. \A r \in xReg' \cup xKnown' : r.ref \in 1..xNext'.id BY <1>1
    <2>4. \A q \in Actors : xReq'[q].pc \in {"record", "call", "answer"} => xReq'[q].id \in 1..xNext'.id
      BY <1>1
    <2>5. xRunner'.todo \subseteq 1..xNext'.id BY <1>1
    <2> QED BY <2>1, <2>2, <2>3, <2>4, <2>5 DEF Sbx!IdInv
  (* A container more, under the next id and a name that was free. *)
  <1>2. ASSUME NEW c, c.id = xNext.id + 1, Sbx!NameFree(c.name), xEngine' = xEngine \cup {c},
               xExecs' = xExecs, 
               xNext'.id = xNext.id + 1, UNCHANGED <<xReg, xKnown, xRunner>>,
               \A q \in Actors : Given(xNext.id + 1, xReq'[q])
        PROVE Sbx!IdInv'
    <2>1. ASSUME NEW a \in xEngine', NEW d \in xEngine',
                 a.id = d.id \/ (a.name = d.name /\ a.name # "")
          PROVE  a = d
      <3>1. CASE a \in xEngine /\ d \in xEngine BY <2>1, <3>1 DEF Sbx!IdInv
      <3>2. ASSUME NEW e \in xEngine PROVE e.id # c.id /\ ~(e.name = c.name /\ c.name # "")
        BY <1>2, <1>k, <1>m DEF Sbx!NameFree
      <3> QED BY <1>2, <2>1, <3>1, <3>2
    <2>2. \A e \in xEngine' \cup xExecs' : e.id \in 1..xNext'.id BY <1>2, <1>k, <1>m
    <2>3. \A r \in xReg' \cup xKnown' : r.ref \in 1..xNext'.id BY <1>2, <1>k, <1>m
    <2>4. \A q \in Actors : xReq'[q].pc \in {"record", "call", "answer"} => xReq'[q].id \in 1..xNext'.id
      BY <1>2
    <2>5. xRunner'.todo \subseteq 1..xNext'.id BY <1>2, <1>k, <1>m
    <2> QED BY <2>1, <2>2, <2>3, <2>4, <2>5 DEF Sbx!IdInv
  <1>3. ASSUME NEW q \in Actors, \A p \in Actors : p # q => xReq'[p] = xReq[p],
               NEW i \in {xNext.id, xNext.id + 1}, 
               Given(i, xReq'[q])
        PROVE \A p \in Actors : Given(i, xReq'[p])
    <2>1. \A p \in Actors : Given(i, xReq[p]) BY <1>g, <1>m
    <2> HIDE DEF Given
    <2> QED BY <1>3, <2>1
  <1>4. ASSUME NEW q \in Actors, Sbx!Done(q) PROVE \A p \in Actors : Given(xNext.id, xReq'[p])
    BY <1>3, <1>4, SbxDoneL
  <1>5. ASSUME NEW f \in SbxFleets, Sbx!Spawn(f) PROVE Sbx!IdInv'
    <2>1. xNext'.id = xNext.id BY <1>0, <1>5 DEF Sbx!Spawn
    <2>2. UNCHANGED <<xEngine, xExecs, xReg, xKnown, xReq, xRunner>> BY <1>5 DEF Sbx!Spawn
    <2> HIDE DEF Given
    <2> QED BY <1>1, <1>g, <1>k, <2>1, <2>2
  <1>6. ASSUME NEW f \in SbxFleets,
               Sbx!Exit(f) \/ Sbx!CloseList(f) \/ Sbx!CloseDelete(f) \/ Sbx!CloseForget(f)
        PROVE  Sbx!IdInv'
    <2>1. UNCHANGED <<xExecs, xKnown, xReq, xRunner, xNext>> /\ xEngine' \subseteq xEngine /\
          xReg' \subseteq xReg
      BY <1>6 DEF Sbx!Exit, Sbx!CloseList, Sbx!CloseDelete, Sbx!CloseForget
    <2> HIDE DEF Given
    <2> QED BY <1>1, <1>g, <1>k, <2>1
  <1>7. ASSUME NEW f \in SbxFleets, Sbx!Gone(f) PROVE Sbx!IdInv'
    <2>1. UNCHANGED <<xEngine, xExecs, xReg, xRunner, xNext>> /\ xKnown' \subseteq xKnown
      BY <1>7 DEF Sbx!Gone
    <2>2. \A q \in Actors : Given(xNext.id, xReq'[q]) BY <1>7, <1>g, SbxGoneL
    <2> HIDE DEF Given
    <2> QED BY <1>1, <1>k, <2>1, <2>2
  <1>8. ASSUME NEW q \in Actors, NEW f \in SbxFleets, Sbx!Send(q, f) PROVE Sbx!IdInv'
    <2>1. UNCHANGED <<xEngine, xExecs, xReg, xKnown, xRunner, xNext>> BY <1>8 DEF Sbx!Send
    <2>2. xReq'[q].pc = "check" /\ \A p \in Actors : p # q => xReq'[p] = xReq[p]
      BY <1>0, <1>8 DEF Sbx!Send
    <2>3. \A p \in Actors : Given(xNext.id, xReq'[p]) BY <1>3, <2>2
    <2> HIDE DEF Given
    <2> QED BY <1>1, <1>k, <2>1, <2>3
  <1>9. ASSUME NEW q \in Actors, Sbx!Check(q) PROVE Sbx!IdInv'
    <2>1. UNCHANGED <<xEngine, xExecs, xReg, xKnown, xRunner, xNext>> BY <1>9 DEF Sbx!Check
    <2>2. Sbx!Step(q, "create") \/ Sbx!Step(q, "inspect") \/ Sbx!Done(q)
      BY <1>9 DEF Sbx!Check, Sbx!Forwarded
    <2>3. \A p \in Actors : Given(xNext.id, xReq'[p]) BY <1>3, <1>4, <2>2, SbxStepL
    <2> HIDE DEF Given
    <2> QED BY <1>1, <1>k, <2>1, <2>3
  <1>10. ASSUME NEW q \in Actors, Sbx!Create(q) PROVE Sbx!IdInv'
    <2>1. UNCHANGED <<xExecs, xReg, xKnown, xRunner>> BY <1>10, SbxCreateL
    <2>2. CASE Sbx!Done(q) /\ UNCHANGED <<xEngine, xNext, xExcused>>
      <3>1. \A p \in Actors : Given(xNext.id, xReq'[p]) BY <1>4, <2>2
      <3> HIDE DEF Given
      <3> QED BY <1>1, <1>k, <2>1, <2>2, <3>1
    <2>3. ASSUME NEW c \in Sbx!Containers, c.id = xNext.id + 1, Sbx!NameFree(c.name),
                 xEngine' = xEngine \cup {c}, xNext'.id = xNext.id + 1, 
                 xReq' = [xReq EXCEPT ![q].pc = "record", ![q].id = xNext.id + 1]
          PROVE Sbx!IdInv'
      <3>1. xNext.id + 1 \in Nat BY <1>0
      <3>2. xReq'[q].id = xNext.id + 1 /\ \A p \in Actors : p # q => xReq'[p] = xReq[p]
        BY <2>3, <3>1, SbxStepIdL
      <3>3. Given(xNext.id + 1, xReq'[q]) BY <1>m, <3>2
      <3>4. \A p \in Actors : Given(xNext.id + 1, xReq'[p]) BY <1>3, <3>2, <3>3
      <3> HIDE DEF Given
      <3> QED BY <1>2, <2>1, <2>3, <3>4
    <2> QED BY <1>10, <2>2, <2>3, SbxCreateL
  <1>11. ASSUME NEW q \in Actors, Sbx!Record(q) \/ Sbx!Answer(q) PROVE Sbx!IdInv'
    <2>1. UNCHANGED <<xEngine, xExecs, xRunner, xNext>> /\ Sbx!Done(q)
      BY <1>11 DEF Sbx!Record, Sbx!Answer
    <2>2. xReq[q].id \in 1..xNext.id BY <1>11, <1>g DEF Sbx!Record, Sbx!Answer, Sbx!At
    <2>3. \A r \in xReg' \cup xKnown' : r.ref \in 1..xNext.id
      BY <1>11, <1>k, <2>2 DEF Sbx!Record, Sbx!Answer
    <2>4. \A p \in Actors : Given(xNext.id, xReq'[p]) BY <1>4, <2>1
    <2> HIDE DEF Given
    <2> QED BY <1>1, <1>k, <2>1, <2>3, <2>4
  <1>12. ASSUME NEW q \in Actors, Sbx!Inspect(q) PROVE Sbx!IdInv'
    <2>1. UNCHANGED <<xEngine, xExecs, xKnown, xRunner, xNext>> BY <1>12 DEF Sbx!Inspect
    <2>2. CASE Sbx!Done(q) /\ UNCHANGED <<xReg>>
      <3>1. \A p \in Actors : Given(xNext.id, xReq'[p]) BY <1>4, <2>2
      <3> HIDE DEF Given
      <3> QED BY <1>1, <1>k, <2>1, <2>2, <3>1
    <2>3. ASSUME NEW c \in xEngine, xReq' = [xReq EXCEPT ![q].pc = "call", ![q].id = c.id],
                 xReg' = xReg \cup {[ref |-> c.id, fleet |-> xReq[q].fleet]}
          PROVE Sbx!IdInv'
      <3>1. c.id \in 1..xNext.id /\ c.id \in Nat BY <1>0, <1>k
      <3>2. xReq'[q].id = c.id /\ \A p \in Actors : p # q => xReq'[p] = xReq[p]
        BY <2>3, <3>1, SbxStepIdL
      <3>3. \A p \in Actors : Given(xNext.id, xReq'[p]) BY <1>3, <3>1, <3>2
      <3>4. \A r \in xReg' \cup xKnown' : r.ref \in 1..xNext.id BY <1>k, <2>1, <2>3, <3>1
      <3> HIDE DEF Given
      <3> QED BY <1>1, <1>k, <2>1, <3>3, <3>4
    <2> QED BY <1>12, <2>2, <2>3, SbxInspectL
  <1>13. ASSUME NEW q \in Actors, Sbx!Call(q) PROVE Sbx!IdInv'
    <2>1. xReq[q].pc = "call" /\ xEngine' \subseteq xEngine /\ UNCHANGED <<xReg, xKnown, xRunner>>
      BY <1>13, SbxCallL
    <2>2. CASE /\ xNext' = [xNext EXCEPT !.id = xNext.id + 1]
               /\ xExecs' = xExecs \cup {[id |-> xNext.id + 1, owner |-> c.owner] : c \in Sbx!Called(q)}
               /\ xReq' = [xReq EXCEPT ![q].pc = "answer", ![q].id = xNext.id + 1]
      <3>1. xNext.id + 1 \in Nat /\ xNext'.id = xNext.id + 1 BY <1>0, <2>2, SbxNextL
      <3>2. xReq'[q].id = xNext.id + 1 /\ \A p \in Actors : p # q => xReq'[p] = xReq[p]
        BY <2>2, <3>1, SbxStepIdL
      <3>3. \A p \in Actors : Given(xNext.id + 1, xReq'[p]) BY <1>3, <1>m, <3>2
      <3>4. \A c, d \in xEngine' : c.id = d.id \/ (c.name = d.name /\ c.name # "") => c = d
        BY <2>1 DEF Sbx!IdInv
      <3>5. \A c \in xEngine' : c.id \in 1..xNext'.id BY <1>k, <1>m, <2>1, <3>1
      <3>6. \A e \in xExecs' : e.id \in 1..xNext'.id
        <4>1. \A e \in {[id |-> xNext.id + 1, owner |-> c.owner] : c \in Sbx!Called(q)} : e.id = xNext.id + 1 OBVIOUS
        <4> QED BY <1>k, <1>m, <2>2, <3>1, <4>1
      <3>7. \A r \in xReg' \cup xKnown' : r.ref \in 1..xNext'.id BY <1>k, <1>m, <2>1, <3>1
      <3>8. xRunner'.todo \subseteq 1..xNext'.id BY <1>k, <1>m, <2>1, <3>1
      <3> QED BY <3>1, <3>3, <3>4, <3>5, <3>6, <3>7, <3>8 DEF Sbx!IdInv
    <2>3. CASE UNCHANGED <<xNext, xExecs>> /\ (Sbx!Step(q, "answer") \/ Sbx!Done(q))
      <3>1. Given(xNext.id, xReq[q]) /\ xReq[q].id \in 1..xNext.id BY <1>g, <2>1
      <3>2. \A p \in Actors : Given(xNext.id, xReq'[p]) BY <1>3, <1>4, <2>3, <3>1, SbxStepL
      <3> HIDE DEF Given
      <3> QED BY <1>1, <1>k, <2>1, <2>3, <3>2
    <2> QED BY <1>13, <2>2, <2>3, SbxCallL
  <1>14. ASSUME NEW f \in SbxFleets, NEW id \in 1 .. SbxMaxIds, Sbx!ExecStart(f, id)
         PROVE  Sbx!IdInv'
    BY <1>14 DEF Sbx!ExecStart, Sbx!IdInv
  <1>15. ASSUME NEW n \in SbxNames, Sbx!Foreign(n) PROVE Sbx!IdInv'
    <2>1. UNCHANGED <<xExecs, xReg, xKnown, xReq, xRunner>> BY <1>15 DEF Sbx!Foreign
    <2>2. \A q \in Actors : Given(xNext.id, xReq'[q]) /\ Given(xNext.id + 1, xReq'[q])
      BY <1>g, <1>m, <2>1
    <2>3. CASE Sbx!NameFree(n) /\ xNext' = [xNext EXCEPT !.id = Sbx!FreshId] /\
               xEngine' = xEngine \cup {[id |-> Sbx!FreshId, name |-> n, owner |-> "other", fence |-> FALSE]}
      <3>1. xNext'.id = xNext.id + 1 BY <1>0, <2>3, SbxNextL DEF Sbx!FreshId
      <3> DEFINE c == [id |-> Sbx!FreshId, name |-> n, owner |-> "other", fence |-> FALSE]
      <3>2. c.id = xNext.id + 1 /\ c.name = n BY DEF Sbx!FreshId
      <3>3. xEngine' = xEngine \cup {c} BY <2>3
      <3> HIDE DEF c, Given
      <3> QED BY <1>2, <2>1, <2>2, <2>3, <3>1, <3>2, <3>3
    <2>4. CASE xEngine' \subseteq xEngine /\ UNCHANGED xNext
      <3> HIDE DEF Given
      <3> QED BY <1>1, <1>k, <2>1, <2>2, <2>4
    <2> QED BY <1>15, <2>3, <2>4 DEF Sbx!Foreign
  <1>16. CASE Sbx!Restart
    <2>1. UNCHANGED <<xEngine, xExecs, xNext>> /\ xReg' = {} /\ xKnown' = {} /\ xRunner'.todo = {}
      BY <1>16 DEF Sbx!Restart
    <2>2. \A q \in Actors : Given(xNext.id, xReq'[q]) BY <1>16, SbxNoReqL DEF Sbx!Restart
    <2> HIDE DEF Given
    <2> QED BY <1>1, <2>1, <2>2
  <1>17. CASE Sbx!SweepList \/ Sbx!SweepDelete \/ Sbx!SweepEnd
    <2>1. UNCHANGED <<xExecs, xReg, xKnown, xReq, xNext>> /\ xEngine' \subseteq xEngine
      BY <1>17 DEF Sbx!SweepList, Sbx!SweepDelete, Sbx!SweepEnd
    <2>2. xRunner'.todo \subseteq 1..xNext.id
      <3>0. xRunner \in Sbx!Runners BY DEF Sbx!StateOK
      <3>1. CASE Sbx!SweepList BY <1>k, <3>1 DEF Sbx!SweepList, Sbx!Swept, Sbx!Installed
      <3>2. CASE Sbx!SweepDelete
        <4>1. PICK id \in xRunner.todo : xRunner' = [xRunner EXCEPT !.todo = @ \ {id}] \/ xRunner' = [xRunner EXCEPT !.todo = {}]
          BY <3>2 DEF Sbx!SweepDelete
        <4>2. xRunner'.todo \subseteq xRunner.todo BY <3>0, <4>1 DEF Sbx!Runners
        <4> QED BY <1>k, <4>2
      <3>3. CASE Sbx!SweepEnd BY <3>3 DEF Sbx!SweepEnd
      <3> QED BY <1>17, <3>1, <3>2, <3>3
    <2> HIDE DEF Given
    <2> QED BY <1>1, <1>g, <1>k, <2>1, <2>2
  <1>18. CASE UNCHANGED sbxVars BY <1>18 DEF sbxVars, Sbx!IdInv
  <1> QED BY <1>5, <1>6, <1>7, <1>8, <1>9, <1>10, <1>11, <1>12, <1>13, <1>14, <1>15, <1>16,
             <1>17, <1>18 DEF Sbx!Next

(* Every step keeps what the requests hold among their fleet's own. *)
LEMMA SbxOwnStep ==
  ASSUME Sbx!Bounds, Sbx!StateOK, Sbx!IdInv, Sbx!OwnInv, [Sbx!Next]_sbxVars
  PROVE  Sbx!OwnInv'
  <1>0. xNext \in [id : Nat, pid : Nat] /\ xNext.id \in Nat /\ xReq \in [Actors -> Sbx!Reqs]
    BY DEF Sbx!StateOK
  <1> DEFINE New == xNext.id + 1
             Own(r, engine, execs) ==
                /\ r.pc # "none" => r.fleet \in SbxFleets /\ r.name # ""
                /\ r.pc = "call" => \A c \in engine : c.id = r.id => c.owner = r.fleet
                /\ r.pc = "answer" /\ r.op # "remove" => \A e \in execs : e.id = r.id => e.owner = r.fleet
             Known(known, execs) == \A k \in known, e \in execs : e.id = k.ref => e.owner = k.fleet
             Swp(engine, todo) == \A c \in engine : c.id \in todo => c.owner # "other"
             Act(acted) == \A p \in acted : p[1] = p[2]
             Keeps(engine, execs) == /\ \A c \in engine : c \in xEngine \/ c.id = New
                                     /\ \A e \in execs : e \in xExecs \/ e.id = New
  <1>o. \A q \in Actors : Own(xReq[q], xEngine, xExecs) BY DEF Sbx!OwnInv
  <1>w. Known(xKnown, xExecs) /\ Swp(xEngine, xRunner.todo) /\ Act(xActed)
    BY DEF Sbx!OwnInv, Sbx!ActsOnOwn
  <1>m. New \notin 1..xNext.id BY <1>0
  <1>k. /\ \A q \in Actors : xReq[q].pc \in {"call", "answer"} => xReq[q].id # New
        /\ \A k \in xKnown : k.ref # New
        /\ New \notin xRunner.todo
    BY <1>m DEF Sbx!IdInv
  <1>q. ASSUME \A q \in Actors : Own(xReq'[q], xEngine', xExecs'), Known(xKnown', xExecs'),
               Swp(xEngine', xRunner'.todo), Act(xActed')
        PROVE Sbx!OwnInv'
    BY <1>q DEF Sbx!OwnInv, Sbx!ActsOnOwn
  <1>r. ASSUME Keeps(xEngine', xExecs'), NEW p \in Actors, xReq'[p] = xReq[p]
        PROVE  Own(xReq'[p], xEngine', xExecs')
    <2>1. Own(xReq[p], xEngine, xExecs) BY <1>o
    <2>2. ASSUME xReq[p].pc = "call", NEW c \in xEngine', c.id = xReq[p].id
          PROVE  c.owner = xReq[p].fleet
      BY <1>k, <1>r, <2>1, <2>2
    <2>3. ASSUME xReq[p].pc = "answer", xReq[p].op # "remove", NEW e \in xExecs',
                 e.id = xReq[p].id
          PROVE  e.owner = xReq[p].fleet
      BY <1>k, <1>r, <2>1, <2>3
    <2> QED BY <1>r, <2>1, <2>2, <2>3
  <1>s. ASSUME Keeps(xEngine', xExecs'), xKnown' \subseteq xKnown
        PROVE  Known(xKnown', xExecs') BY <1>k, <1>s, <1>w
  <1>t. ASSUME Keeps(xEngine', xExecs'), xRunner' = xRunner
        PROVE  Swp(xEngine', xRunner'.todo) BY <1>k, <1>t, <1>w
  <1>d. ASSUME NEW q \in Actors,
               xReq'[q].pc \in {"none", "check", "create", "inspect", "record"} \/ (xReq'[q].pc = "answer" /\ xReq'[q].op = "remove"),
               
               xReq'[q].pc # "none" => xReq'[q].fleet \in SbxFleets /\ xReq'[q].name # ""
        PROVE Own(xReq'[q], xEngine', xExecs')
    BY <1>d
  <1> HIDE DEF New, Own, Known, Swp, Act
  <1>1. ASSUME NEW f \in SbxFleets,
               Sbx!Spawn(f) \/ Sbx!Exit(f) \/ Sbx!CloseList(f) \/ Sbx!CloseDelete(f) \/ Sbx!CloseForget(f)
        PROVE  Sbx!OwnInv'
    <2>1. xEngine' \subseteq xEngine /\ UNCHANGED <<xExecs, xKnown, xReq, xRunner, xActed>>
      BY <1>1 DEF Sbx!Spawn, Sbx!Exit, Sbx!CloseList, Sbx!CloseDelete, Sbx!CloseForget
    <2>2. Keeps(xEngine', xExecs') BY <2>1
    <2> QED BY <1>q, <1>r, <1>s, <1>t, <1>w, <2>1, <2>2
  <1>2. ASSUME NEW f \in SbxFleets, Sbx!Gone(f) PROVE Sbx!OwnInv'
    <2>1. xKnown' \subseteq xKnown /\ UNCHANGED <<xEngine, xExecs, xRunner, xActed>>
      BY <1>2 DEF Sbx!Gone
    <2>2. Keeps(xEngine', xExecs') BY <2>1
    <2>3. \A q \in Actors : Own(xReq'[q], xEngine', xExecs')
      <3>1. \A q \in Actors : /\ xReq'[q].pc = xReq[q].pc /\ xReq'[q].fleet = xReq[q].fleet /\ xReq'[q].op = xReq[q].op
                              /\ xReq'[q].id = xReq[q].id /\ xReq'[q].name = xReq[q].name
                                BY <1>2, SbxGoneL
      <3> QED BY <1>o, <2>1, <3>1 DEF Own
    <2> QED BY <1>q, <1>s, <1>t, <1>w, <2>1, <2>2, <2>3
  <1>3. ASSUME NEW q \in Actors, NEW f \in SbxFleets, Sbx!Send(q, f) PROVE Sbx!OwnInv'
    <2>1. UNCHANGED <<xEngine, xExecs, xKnown, xRunner, xActed>> BY <1>3 DEF Sbx!Send
    <2>2. Keeps(xEngine', xExecs') BY <2>1
    <2>3. xReq'[q].pc = "check" /\ xReq'[q].fleet \in SbxFleets /\ xReq'[q].name # "" /\ \A p \in Actors : p # q => xReq'[p] = xReq[p]
      <3>1. PICK op \in Sbx!Ops, n \in SbxNames, id \in 0 .. xNext.id :
               xReq' = [xReq EXCEPT ![q] = [pc |-> "check", fleet |-> f, pid |-> xPid[f], op |-> op, name |-> n, id |-> id, late |-> FALSE]]
        BY <1>3 DEF Sbx!Send
      <3>2. n # "" BY DEF Sbx!Bounds
      <3> QED BY <1>0, <3>1, <3>2
    <2> QED BY <1>d, <1>q, <1>r, <1>s, <1>t, <1>w, <2>1, <2>2, <2>3
  <1>4. ASSUME NEW q \in Actors, Sbx!Check(q) PROVE Sbx!OwnInv'
    <2>1. UNCHANGED <<xEngine, xExecs, xKnown, xRunner, xActed>> BY <1>4 DEF Sbx!Check
    <2>2. Keeps(xEngine', xExecs') BY <2>1
    <2>3. Sbx!Step(q, "create") \/ Sbx!Step(q, "inspect") \/ Sbx!Done(q)
      BY <1>4 DEF Sbx!Check, Sbx!Forwarded
    <2>4. xReq[q].fleet \in SbxFleets /\ xReq[q].name # ""
      BY <1>4 DEF Sbx!Check, Sbx!At, Sbx!OwnInv
    <2>5. /\ \A p \in Actors : p # q => xReq'[p] = xReq[p]
          /\ Own(xReq'[q], xEngine', xExecs')
      BY <1>d, <2>3, <2>4, SbxStepL, SbxDoneL
    <2> QED BY <1>q, <1>r, <1>s, <1>t, <1>w, <2>1, <2>2, <2>5
  <1>5. ASSUME NEW q \in Actors, Sbx!Create(q) PROVE Sbx!OwnInv'
    <2>1. UNCHANGED <<xExecs, xKnown, xRunner, xActed>> /\ xReq[q].pc = "create"
      BY <1>5, SbxCreateL
    <2>2. CASE Sbx!Done(q) /\ UNCHANGED <<xEngine, xNext, xExcused>>
      <3>1. Keeps(xEngine', xExecs') BY <2>1, <2>2
      <3>2. (\A p \in Actors : p # q => xReq'[p] = xReq[p]) /\ Own(xReq'[q], xEngine', xExecs')
        BY <1>d, <2>2, SbxDoneL
      <3> QED BY <1>q, <1>r, <1>s, <1>t, <1>w, <2>1, <3>1, <3>2
    <2>3. ASSUME NEW c \in Sbx!Containers, c.id = xNext.id + 1, xEngine' = xEngine \cup {c},
                 xReq' = [xReq EXCEPT ![q].pc = "record", ![q].id = xNext.id + 1]
          PROVE Sbx!OwnInv'
      <3>1. xNext.id + 1 \in Nat BY <1>0
      <3>2. Keeps(xEngine', xExecs') BY <2>1, <2>3 DEF New
      <3>3. xReq[q].fleet \in SbxFleets /\ xReq[q].name # "" BY <2>1 DEF Sbx!OwnInv
      <3>4. (\A p \in Actors : p # q => xReq'[p] = xReq[p]) /\ Own(xReq'[q], xEngine', xExecs')
        BY <1>d, <2>3, <3>1, <3>3, SbxStepIdL
      <3> QED BY <1>q, <1>r, <1>s, <1>t, <1>w, <2>1, <3>2, <3>4
    <2> QED BY <1>5, <2>2, <2>3, SbxCreateL
  <1>6. ASSUME NEW q \in Actors, Sbx!Record(q) PROVE Sbx!OwnInv'
    <2>1. UNCHANGED <<xEngine, xExecs, xKnown, xRunner, xActed>> /\ Sbx!Done(q)
      BY <1>6 DEF Sbx!Record
    <2>2. Keeps(xEngine', xExecs') BY <2>1
    <2>3. (\A p \in Actors : p # q => xReq'[p] = xReq[p]) /\ Own(xReq'[q], xEngine', xExecs')
      BY <1>d, <2>1, SbxDoneL
    <2> QED BY <1>q, <1>r, <1>s, <1>t, <1>w, <2>1, <2>2, <2>3
  <1>7. ASSUME NEW q \in Actors, Sbx!Inspect(q) PROVE Sbx!OwnInv'
    <2>1. UNCHANGED <<xEngine, xExecs, xKnown, xRunner, xActed>> BY <1>7 DEF Sbx!Inspect
    <2>2. Keeps(xEngine', xExecs') BY <2>1
    <2>3. xReq[q].fleet \in SbxFleets /\ xReq[q].name # ""
      BY <1>7 DEF Sbx!Inspect, Sbx!At, Sbx!OwnInv
    <2>4. (\A p \in Actors : p # q => xReq'[p] = xReq[p]) /\ Own(xReq'[q], xEngine', xExecs')
      <3>1. CASE Sbx!Done(q) BY <1>d, <3>1, SbxDoneL
      <3>2. ASSUME NEW c \in xEngine, c.owner = xReq[q].fleet,
                   xReq' = [xReq EXCEPT ![q].pc = "call", ![q].id = c.id]
            PROVE (\A p \in Actors : p # q => xReq'[p] = xReq[p]) /\ Own(xReq'[q], xEngine', xExecs')
        <4>1. c.id \in Nat BY <3>2 DEF Sbx!StateOK, Sbx!Containers
        <4>2. xReq'[q].pc = "call" /\ xReq'[q].fleet = xReq[q].fleet /\ xReq'[q].name = xReq[q].name /\
              xReq'[q].id = c.id
              /\ \A p \in Actors : p # q => xReq'[p] = xReq[p] BY <3>2, <4>1, SbxStepIdL
        <4>3. \A e \in xEngine : e.id = c.id => e.owner = xReq[q].fleet BY <3>2 DEF Sbx!IdInv
        <4> QED BY <2>1, <2>3, <4>2, <4>3 DEF Own
      <3> QED BY <1>7, <3>1, <3>2, SbxInspectL
    <2> QED BY <1>q, <1>r, <1>s, <1>t, <1>w, <2>1, <2>2, <2>4
  <1>8. ASSUME NEW q \in Actors, Sbx!Call(q) PROVE Sbx!OwnInv'
    <2>0. /\ xReq[q].pc = "call" /\ xEngine' \subseteq xEngine /\ UNCHANGED <<xKnown, xRunner>>
          /\ xActed' = xActed \cup {<<xReq[q].fleet, c.owner>> : c \in Sbx!Called(q)}
          /\ \A c \in Sbx!Called(q) : c.owner = xReq[q].fleet BY <1>8, SbxCallL
    <2>1. xReq[q].fleet \in SbxFleets /\ xReq[q].name # "" BY <2>0 DEF Sbx!OwnInv
    <2>2. Act(xActed') BY <1>w, <2>0 DEF Act
    <2>3. CASE /\ xExecs' = xExecs \cup {[id |-> xNext.id + 1, owner |-> c.owner] : c \in Sbx!Called(q)}
               /\ xReq' = [xReq EXCEPT ![q].pc = "answer", ![q].id = xNext.id + 1]
      <3>1. xNext.id + 1 \in Nat BY <1>0
      <3>2. \A e \in {[id |-> xNext.id + 1, owner |-> c.owner] : c \in Sbx!Called(q)} : e.id = New /\ e.owner = xReq[q].fleet
        BY <2>0 DEF New
      <3>3. Keeps(xEngine', xExecs') BY <2>0, <2>3, <3>2
      <3>4. xReq'[q].pc = "answer" /\ xReq'[q].fleet = xReq[q].fleet /\ xReq'[q].name = xReq[q].name /\
            xReq'[q].id = New
              /\ \A p \in Actors : p # q => xReq'[p] = xReq[p] BY <2>3, <3>1, SbxStepIdL DEF New
      <3>5. \A e \in xExecs : e.id # New BY <1>m DEF Sbx!IdInv
      <3>6. Own(xReq'[q], xEngine', xExecs') BY <2>1, <2>3, <3>2, <3>4, <3>5 DEF Own
      <3> QED BY <1>q, <1>r, <1>s, <1>t, <2>0, <2>2, <3>3, <3>4, <3>6
    <2>4. CASE xExecs' = xExecs /\ ((xReq[q].op = "remove" /\ Sbx!Step(q, "answer")) \/ Sbx!Done(q))
      <3>1. Keeps(xEngine', xExecs') BY <2>0, <2>4
      <3>2. (\A p \in Actors : p # q => xReq'[p] = xReq[p]) /\ Own(xReq'[q], xEngine', xExecs')
        BY <1>d, <2>1, <2>4, SbxStepL, SbxDoneL
      <3> QED BY <1>q, <1>r, <1>s, <1>t, <2>0, <2>2, <3>1, <3>2
    <2> QED BY <1>8, <2>3, <2>4, SbxCallL
  <1>9. ASSUME NEW q \in Actors, Sbx!Answer(q) PROVE Sbx!OwnInv'
    <2>1. UNCHANGED <<xEngine, xExecs, xRunner, xActed>> /\ Sbx!Done(q) BY <1>9 DEF Sbx!Answer
    <2>2. Keeps(xEngine', xExecs') BY <2>1
    <2>3. (\A p \in Actors : p # q => xReq'[p] = xReq[p]) /\ Own(xReq'[q], xEngine', xExecs')
      BY <1>d, <2>1, SbxDoneL
    <2>4. Known(xKnown', xExecs')
      <3>1. CASE xReq[q].op = "remove" BY <1>9, <1>s, <2>2, <3>1 DEF Sbx!Answer
      <3>2. CASE xReq[q].op # "remove"
        <4>1. \A e \in xExecs : e.id = xReq[q].id => e.owner = xReq[q].fleet
          BY <1>9, <1>o, <3>2 DEF Sbx!Answer, Sbx!At, Own
        <4>2. xKnown' = xKnown \cup {[ref |-> xReq[q].id, fleet |-> xReq[q].fleet]}
          BY <1>9, <3>2 DEF Sbx!Answer
        <4> QED BY <1>w, <2>1, <4>1, <4>2 DEF Known
      <3> QED BY <3>1, <3>2
    <2> QED BY <1>q, <1>r, <1>t, <1>w, <2>1, <2>2, <2>3, <2>4
  <1>10. ASSUME NEW f \in SbxFleets, NEW id \in 1 .. SbxMaxIds, Sbx!ExecStart(f, id)
         PROVE  Sbx!OwnInv'
    <2>1. UNCHANGED <<xEngine, xExecs, xKnown, xReq, xRunner>> BY <1>10 DEF Sbx!ExecStart
    <2>2. Keeps(xEngine', xExecs') BY <2>1
    <2>3. Act(xActed')
      <3>1. [ref |-> id, fleet |-> f] \in xKnown /\
            xActed' = xActed \cup {<<f, e.owner>> : e \in {x \in xExecs : x.id = id}}
        BY <1>10 DEF Sbx!ExecStart
      <3>2. \A e \in {x \in xExecs : x.id = id} : e.owner = f BY <1>w, <3>1 DEF Known
      <3> QED BY <1>w, <3>1, <3>2 DEF Act
    <2> QED BY <1>q, <1>r, <1>s, <1>t, <2>1, <2>2, <2>3
  <1>11. ASSUME NEW n \in SbxNames, Sbx!Foreign(n) PROVE Sbx!OwnInv'
    <2>1. UNCHANGED <<xExecs, xKnown, xReq, xRunner, xActed>> BY <1>11 DEF Sbx!Foreign
    <2>2. Keeps(xEngine', xExecs') BY <1>11, <2>1 DEF Sbx!Foreign, Sbx!FreshId, New
    <2> QED BY <1>q, <1>r, <1>s, <1>t, <1>w, <2>1, <2>2
  <1>12. CASE Sbx!Restart
    <2>1. UNCHANGED <<xEngine, xExecs, xActed>> /\ xKnown' = {} /\ xRunner'.todo = {}
      BY <1>12 DEF Sbx!Restart
    <2>2. \A q \in Actors : Own(xReq'[q], xEngine', xExecs')
      BY <1>12, <1>d, SbxNoReqL DEF Sbx!Restart
    <2>3. Known(xKnown', xExecs') /\ Swp(xEngine', xRunner'.todo) BY <2>1 DEF Known, Swp
    <2> QED BY <1>q, <1>w, <2>1, <2>2, <2>3
  <1>13. CASE Sbx!SweepList \/ Sbx!SweepDelete \/ Sbx!SweepEnd
    <2>1. UNCHANGED <<xExecs, xKnown, xReq>> /\ xEngine' \subseteq xEngine
      BY <1>13 DEF Sbx!SweepList, Sbx!SweepDelete, Sbx!SweepEnd
    <2>2. Keeps(xEngine', xExecs') BY <2>1
    <2>3. Swp(xEngine', xRunner'.todo) /\ Act(xActed')
      <3>0. xRunner \in Sbx!Runners BY DEF Sbx!StateOK
      <3>1. CASE Sbx!SweepList
        <4>1. xEngine' = xEngine /\ xActed' = xActed BY <3>1 DEF Sbx!SweepList
        <4>2. xRunner'.todo = {c.id : c \in Sbx!Installed} \/ xRunner'.todo = {}
          BY <3>1 DEF Sbx!SweepList, Sbx!Swept
        <4>3. \A c \in xEngine : c.id \in {d.id : d \in Sbx!Installed} => c.owner # "other"
          BY DEF Sbx!Installed, Sbx!IdInv
        <4> QED BY <1>w, <4>1, <4>2, <4>3 DEF Swp
      <3>2. CASE Sbx!SweepDelete
        <4>1. PICK id \in xRunner.todo :
                 \/ /\ xRunner' = [xRunner EXCEPT !.todo = @ \ {id}]
                    /\ xActed' = xActed \cup {<<"sweep", c.owner>> : c \in {x \in xEngine : x.id = id /\ x.owner = "other"}}
                 \/ /\ xRunner' = [xRunner EXCEPT !.todo = {}]
                    /\ xActed' = xActed BY <3>2 DEF Sbx!SweepDelete
        <4>2. xRunner'.todo \subseteq xRunner.todo BY <3>0, <4>1 DEF Sbx!Runners
        <4>3. {x \in xEngine : x.id = id /\ x.owner = "other"} = {} BY <1>w DEF Swp
        <4>4. xActed' = xActed BY <4>1, <4>3
        <4> QED BY <1>w, <2>1, <4>2, <4>4 DEF Swp
      <3>3. CASE Sbx!SweepEnd BY <1>w, <2>1, <3>3 DEF Sbx!SweepEnd, Swp
      <3> QED BY <1>13, <3>1, <3>2, <3>3
    <2> QED BY <1>q, <1>r, <1>s, <2>1, <2>2, <2>3
  <1>14. CASE UNCHANGED sbxVars BY <1>14 DEF sbxVars, Sbx!OwnInv, Sbx!ActsOnOwn
  <1> QED BY <1>1, <1>2, <1>3, <1>4, <1>5, <1>6, <1>7, <1>8, <1>9, <1>10, <1>11, <1>12, <1>13,
             <1>14 DEF Sbx!Next

(* Every step accounts for the containers it orphans. *)
LEMMA SbxOrphanStep ==
  ASSUME Sbx!Bounds, Sbx!StateOK, Sbx!IdInv, Sbx!OwnInv, Sbx!OrphanInv, [Sbx!Next]_sbxVars
  PROVE  Sbx!OrphanInv'
  <1>0. /\ xNext \in [id : Nat, pid : Nat] /\ xReq \in [Actors -> Sbx!Reqs]
        /\ xClose \in [SbxFleets -> Sbx!Closings]
        /\ xProc \in [SbxFleets -> {"none", "running", "exited"}] /\ xPid \in [SbxFleets -> Nat]
        /\ xRunner \in Sbx!Runners
        /\ xEngine \subseteq Sbx!Containers
    BY DEF Sbx!StateOK
  <1> DEFINE Flt(f, proc, pid, close) == /\ proc[f] = "none" => pid[f] = 0
                                         /\ proc[f] = "running" => pid[f] # 0
                                         /\ close[f] = Sbx!NotClosing \/ proc[f] = "none"
             Rq(r, proc) == /\ r.pc # "none" => r.pid # 0
                            /\ r.pc = "create" => r.late \/ proc[r.fleet] # "none"
             Idle(runner, req, proc, close) ==
                runner.pc # "up" => /\ \A q \in Actors : req[q].pc = "none"
                                    /\ \A f \in SbxFleets : proc[f] = "none" /\ close[f] = Sbx!NotClosing
             Acc(c, runner, proc, close, excused) ==
                \/ runner.pc # "up" \/ proc[c.owner] # "none"
                \/ close[c.owner].pc = "list" \/ c.id \in close[c.owner].todo \/ c.id \in excused
             Swd(runner, engine, excused) ==
                runner.pc = "delete" => \A c \in engine : c.owner # "other" => c.id \in runner.todo \cup excused
  <1>i. /\ \A f \in SbxFleets : Flt(f, xProc, xPid, xClose)
        /\ \A q \in Actors : Rq(xReq[q], xProc)
        /\ Idle(xRunner, xReq, xProc, xClose)
        /\ Swd(xRunner, xEngine, xExcused)
        /\ \A c \in xEngine : c.owner # "other" => Acc(c, xRunner, xProc, xClose, xExcused)
    BY DEF Sbx!OrphanInv, Sbx!OrphansAccounted, Sbx!Installed
  <1>n. \A c \in xEngine : c.owner # "other" => c.owner \in SbxFleets BY <1>0 DEF Sbx!Containers
  <1>q. ASSUME \A f \in SbxFleets : Flt(f, xProc', xPid', xClose'),
               \A q \in Actors : Rq(xReq'[q], xProc'),
               Idle(xRunner', xReq', xProc', xClose'),
               Swd(xRunner', xEngine', xExcused'),
               \A c \in xEngine' : c.owner # "other" => Acc(c, xRunner', xProc', xClose', xExcused')
        PROVE Sbx!OrphanInv'
    BY <1>q DEF Sbx!OrphanInv, Sbx!OrphansAccounted, Sbx!Installed
  <1> HIDE DEF Flt, Rq, Idle, Acc, Swd
  <1>1. ASSUME NEW f \in SbxFleets, Sbx!Spawn(f) PROVE Sbx!OrphanInv'
    <2>1. /\ UNCHANGED <<xEngine, xReq, xClose, xRunner, xExcused>> /\ xRunner.pc = "up"
          /\ xProc[f] = "none" /\ xClose[f] = Sbx!NotClosing
          /\ xProc' = [xProc EXCEPT ![f] = "running"] /\ xPid' = [xPid EXCEPT ![f] = xNext.pid + 1]
            BY <1>1 DEF Sbx!Spawn
    <2>2. xNext.pid + 1 # 0 BY <1>0
    <2>3. \A g \in SbxFleets : Flt(g, xProc', xPid', xClose') BY <1>0, <1>i, <2>1, <2>2 DEF Flt
    <2>4. \A g \in SbxFleets : xProc[g] # "none" => xProc'[g] # "none" BY <1>0, <2>1
    <2>5. \A q \in Actors : Rq(xReq'[q], xProc')
      <3>1. \A q \in Actors : xReq[q].pc # "none" => xReq[q].fleet \in SbxFleets
        BY DEF Sbx!OwnInv
      <3> QED BY <1>i, <2>1, <2>4, <3>1 DEF Rq
    <2>6. Idle(xRunner', xReq', xProc', xClose') /\ Swd(xRunner', xEngine', xExcused')
      BY <1>i, <2>1 DEF Idle, Swd
    <2>7. \A c \in xEngine' : c.owner # "other" => Acc(c, xRunner', xProc', xClose', xExcused')
      BY <1>i, <1>n, <2>1, <2>4 DEF Acc
    <2> QED BY <1>q, <2>3, <2>5, <2>6, <2>7
  <1>2. ASSUME NEW f \in SbxFleets, Sbx!Exit(f) PROVE Sbx!OrphanInv'
    <2>1. /\ UNCHANGED <<xEngine, xPid, xReq, xClose, xRunner, xExcused>> /\ xProc[f] = "running"
          /\ xProc' = [xProc EXCEPT ![f] = "exited"] BY <1>2 DEF Sbx!Exit
    <2>3. \A g \in SbxFleets : Flt(g, xProc', xPid', xClose') BY <1>0, <1>i, <2>1 DEF Flt
    <2>4. \A g \in SbxFleets : xProc[g] # "none" <=> xProc'[g] # "none" BY <1>0, <2>1
    <2>5. \A q \in Actors : Rq(xReq'[q], xProc')
      <3>1. \A q \in Actors : xReq[q].pc # "none" => xReq[q].fleet \in SbxFleets
        BY DEF Sbx!OwnInv
      <3> QED BY <1>i, <2>1, <2>4, <3>1 DEF Rq
    <2>6. Idle(xRunner', xReq', xProc', xClose') /\ Swd(xRunner', xEngine', xExcused')
      BY <1>i, <2>1, <2>4 DEF Idle, Swd
    <2>7. \A c \in xEngine' : c.owner # "other" => Acc(c, xRunner', xProc', xClose', xExcused')
      BY <1>i, <1>n, <2>1, <2>4 DEF Acc
    <2> QED BY <1>q, <2>3, <2>5, <2>6, <2>7
  <1>3. ASSUME NEW f \in SbxFleets, Sbx!Gone(f) PROVE Sbx!OrphanInv'
    <2>1. /\ UNCHANGED <<xEngine, xRunner, xExcused>> /\ xRunner.pc = "up"
          /\ xProc' = [xProc EXCEPT ![f] = "none"] /\ xPid' = [xPid EXCEPT ![f] = 0]
          /\ xClose' = [xClose EXCEPT ![f] = [pc |-> "list", todo |-> {}]] BY <1>3 DEF Sbx!Gone
    <2>3. \A g \in SbxFleets : Flt(g, xProc', xPid', xClose') BY <1>0, <1>i, <2>1 DEF Flt
    <2>5. ASSUME NEW q \in Actors PROVE Rq(xReq'[q], xProc')
      <3>1. xReq[q].pc # "none" => xReq[q].fleet \in SbxFleets BY DEF Sbx!OwnInv
      <3>2. /\ xReq'[q].pc = xReq[q].pc /\ xReq'[q].fleet = xReq[q].fleet /\ xReq'[q].pid = xReq[q].pid
            /\ xReq[q].late \/ (xReq[q].pc = "create" /\ xReq[q].fleet = f) => xReq'[q].late
              BY <1>3, SbxGoneL
      <3>3. \A g \in SbxFleets : g # f => xProc'[g] = xProc[g] BY <1>0, <2>1
      <3>4. Rq(xReq[q], xProc) BY <1>i
      <3> QED BY <3>1, <3>2, <3>3, <3>4 DEF Rq
    <2>6. Idle(xRunner', xReq', xProc', xClose') /\ Swd(xRunner', xEngine', xExcused')
      BY <1>i, <2>1 DEF Idle, Swd
    <2>7. ASSUME NEW c \in xEngine', c.owner # "other"
          PROVE  Acc(c, xRunner', xProc', xClose', xExcused')
      <3>1. c.owner \in SbxFleets /\ Acc(c, xRunner, xProc, xClose, xExcused)
        BY <1>i, <1>n, <2>1, <2>7
      <3>2. CASE c.owner = f BY <1>0, <2>1, <3>2 DEF Acc
      <3>3. CASE c.owner # f BY <1>0, <2>1, <3>1, <3>3 DEF Acc
      <3> QED BY <3>2, <3>3
    <2> QED BY <1>q, <2>3, <2>5, <2>6, <2>7
  (* The clean-up of f: a container of f stays listed, or is excused. *)
  <1>4. ASSUME NEW f \in SbxFleets,
               Sbx!CloseList(f) \/ Sbx!CloseDelete(f) \/ Sbx!CloseForget(f), 
               NEW k, xClose' = [xClose EXCEPT ![f] = k], xEngine' \subseteq xEngine, xExcused \subseteq xExcused',
               \A c \in xEngine' : c.owner = f => k.pc = "list" \/ c.id \in k.todo \/ c.id \in xExcused'
        PROVE Sbx!OrphanInv'
    <2>1. UNCHANGED <<xProc, xPid, xReq, xRunner>>
      BY <1>4 DEF Sbx!CloseList, Sbx!CloseDelete, Sbx!CloseForget
    <2>2. xClose[f] # Sbx!NotClosing
      BY <1>4 DEF Sbx!CloseList, Sbx!CloseDelete, Sbx!CloseForget, Sbx!NotClosing
    <2>3. xProc[f] = "none" /\ \A g \in SbxFleets : Flt(g, xProc', xPid', xClose')
      BY <1>0, <1>4, <1>i, <2>1, <2>2 DEF Flt
    <2>4. xRunner.pc = "up" BY <1>i, <2>2 DEF Idle
    <2>5. Idle(xRunner', xReq', xProc', xClose') /\ Swd(xRunner', xEngine', xExcused')
      BY <2>1, <2>4 DEF Idle, Swd
    <2>6. \A q \in Actors : Rq(xReq'[q], xProc') BY <1>i, <2>1
    <2>7. ASSUME NEW c \in xEngine', c.owner # "other"
          PROVE  Acc(c, xRunner', xProc', xClose', xExcused')
      <3>1. c.owner \in SbxFleets /\ Acc(c, xRunner, xProc, xClose, xExcused)
        BY <1>4, <1>i, <1>n, <2>7
      <3>2. CASE c.owner = f BY <1>0, <1>4, <3>2 DEF Acc
      <3>3. CASE c.owner # f BY <1>0, <1>4, <2>1, <3>1, <3>3 DEF Acc
      <3> QED BY <3>2, <3>3
    <2> QED BY <1>q, <2>3, <2>5, <2>6, <2>7
  <1>l. ASSUME NEW f \in SbxFleets, xClose[f].pc # "list", xClose[f].pc # "none"
        PROVE  \A c \in xEngine : c.owner = f => c.id \in xClose[f].todo \/ c.id \in xExcused
    <2>1. xClose[f] # Sbx!NotClosing BY <1>l DEF Sbx!NotClosing
    <2>2. xProc[f] = "none" /\ xRunner.pc = "up" /\ f # "other"
      BY <1>i, <2>1 DEF Flt, Idle, Sbx!Bounds
    <2> QED BY <1>i, <1>l, <2>2 DEF Acc
  <1>5. ASSUME NEW f \in SbxFleets, Sbx!CloseList(f) PROVE Sbx!OrphanInv'
    <2>0. xClose[f] \in Sbx!Closings /\ xEngine' = xEngine BY <1>0, <1>5 DEF Sbx!CloseList
    <2>1. CASE xClose' = [xClose EXCEPT ![f] = [pc |-> "delete", todo |-> {c.id : c \in Sbx!Labelled(f)}]] /\ UNCHANGED <<xExcused, xLeft>>
      <3>1. \A c \in xEngine' : c.owner = f => c.id \in {d.id : d \in Sbx!Labelled(f)}
        BY <2>0 DEF Sbx!Labelled
      <3> DEFINE k == [pc |-> "delete", todo |-> {c.id : c \in Sbx!Labelled(f)}]
      <3>2. k.todo = {c.id : c \in Sbx!Labelled(f)} /\ xClose' = [xClose EXCEPT ![f] = k]
        BY <2>1
      <3> HIDE DEF k
      <3> QED BY <1>4, <1>5, <2>0, <2>1, <3>1, <3>2
    <2>2. CASE /\ xClose' = [xClose EXCEPT ![f].pc = "delete"]
               /\ xExcused' = xExcused \cup {c.id : c \in Sbx!Labelled(f)}
      <3>1. \A c \in xEngine' : c.owner = f => c.id \in xExcused' BY <2>0, <2>2 DEF Sbx!Labelled
      <3>2. xClose' = [xClose EXCEPT ![f] = [xClose[f] EXCEPT !.pc = "delete"]] BY <2>2
      <3> QED BY <1>4, <1>5, <2>0, <2>2, <3>1, <3>2
    <2> QED BY <1>5, <2>1, <2>2 DEF Sbx!CloseList
  <1>6. ASSUME NEW f \in SbxFleets, Sbx!CloseDelete(f) PROVE Sbx!OrphanInv'
    <2>0. xClose[f] \in Sbx!Closings /\ xClose[f].pc = "delete"
      BY <1>0, <1>6 DEF Sbx!CloseDelete
    <2>1. \A c \in xEngine : c.owner = f => c.id \in xClose[f].todo \/ c.id \in xExcused
      BY <1>l, <2>0
    <2>2. PICK id \in xClose[f].todo :
             \/ /\ xClose' = [xClose EXCEPT ![f].todo = @ \ {id}]
                /\ xEngine' = {c \in xEngine : c.id # id} /\ xExcused' = xExcused
             \/ /\ xClose' = [xClose EXCEPT ![f].todo = @ \ {id}] /\ xExcused' = xExcused \cup {id}
                /\ xEngine' = xEngine
             \/ /\ xClose' = [xClose EXCEPT ![f].todo = {}]
                /\ xExcused' = xExcused \cup xClose[f].todo /\ xEngine' = xEngine
      BY <1>6 DEF Sbx!CloseDelete
    <2>3. ASSUME xClose' = [xClose EXCEPT ![f].todo = @ \ {id}],
                 (xEngine' = {c \in xEngine : c.id # id} /\ xExcused' = xExcused) \/ (xExcused' = xExcused \cup {id} /\ xEngine' = xEngine)
          PROVE Sbx!OrphanInv'
      <3> DEFINE k == [xClose[f] EXCEPT !.todo = xClose[f].todo \ {id}]
      <3>1. xClose' = [xClose EXCEPT ![f] = k] BY <2>3
      <3>2. k.todo = xClose[f].todo \ {id} BY <2>0 DEF Sbx!Closings
      <3> HIDE DEF k
      <3>3. \A c \in xEngine' : c.owner = f => c.id \in k.todo \/ c.id \in xExcused'
        BY <2>1, <2>3, <3>2
      <3> QED BY <1>4, <1>6, <2>3, <3>1, <3>3
    <2>4. ASSUME xClose' = [xClose EXCEPT ![f].todo = {}],
                 xExcused' = xExcused \cup xClose[f].todo, xEngine' = xEngine
          PROVE Sbx!OrphanInv'
      <3>1. xClose' = [xClose EXCEPT ![f] = [xClose[f] EXCEPT !.todo = {}]] BY <2>4
      <3>2. \A c \in xEngine' : c.owner = f => c.id \in xExcused' BY <2>1, <2>4
      <3> QED BY <1>4, <1>6, <2>4, <3>1, <3>2
    <2> QED BY <2>2, <2>3, <2>4
  <1>7. ASSUME NEW f \in SbxFleets, Sbx!CloseForget(f) PROVE Sbx!OrphanInv'
    <2>1. xClose[f].pc = "delete" /\ xClose[f].todo = {} /\
          xClose' = [xClose EXCEPT ![f] = Sbx!NotClosing] /\ UNCHANGED <<xEngine, xExcused>>
      BY <1>7 DEF Sbx!CloseForget
    <2>2. \A c \in xEngine' : c.owner = f => c.id \in xExcused' BY <1>l, <2>1
    <2> QED BY <1>4, <1>7, <2>1, <2>2
  (* A request moves: the fleets, the runner and the clean-ups stay as they are. *)
  <1>8. ASSUME NEW q \in Actors, xRunner.pc = "up", UNCHANGED <<xProc, xPid, xClose, xRunner>>,
               \A p \in Actors : p # q => xReq'[p] = xReq[p], 
               Rq(xReq'[q], xProc), xExcused \subseteq xExcused',
               \A c \in xEngine' : c \in xEngine \/ (c.owner \in SbxFleets /\ xProc[c.owner] # "none") \/ c.id \in xExcused'
        PROVE Sbx!OrphanInv'
    <2>1. \A p \in Actors : Rq(xReq'[p], xProc') BY <1>8, <1>i
    <2>2. Idle(xRunner', xReq', xProc', xClose') /\ Swd(xRunner', xEngine', xExcused')
      BY <1>8 DEF Idle, Swd
    <2>3. \A c \in xEngine' : c.owner # "other" => Acc(c, xRunner', xProc', xClose', xExcused')
      BY <1>8, <1>i DEF Acc
    <2>4. \A g \in SbxFleets : Flt(g, xProc', xPid', xClose') BY <1>8, <1>i
    <2> QED BY <1>q, <2>1, <2>2, <2>3, <2>4
  <1>u. ASSUME NEW q \in Actors, xReq[q].pc # "none"
        PROVE  xRunner.pc = "up" /\ xReq[q].pid # 0 /\ xReq[q].fleet \in SbxFleets
    BY <1>i, <1>u DEF Idle, Rq, Sbx!OwnInv
  <1>9. ASSUME NEW q \in Actors, NEW f \in SbxFleets, Sbx!Send(q, f) PROVE Sbx!OrphanInv'
    <2>1. xRunner.pc = "up" /\ xProc[f] = "running" /\
          UNCHANGED <<xEngine, xProc, xPid, xClose, xRunner, xExcused>>
      BY <1>9 DEF Sbx!Send
    <2>2. PICK op \in Sbx!Ops, n \in SbxNames, id \in 0 .. xNext.id :
             xReq' = [xReq EXCEPT ![q] = [pc |-> "check", fleet |-> f, pid |-> xPid[f], op |-> op, name |-> n, id |-> id, late |-> FALSE]]
      BY <1>9 DEF Sbx!Send
    <2>3. xReq'[q].pc = "check" /\ xReq'[q].pid = xPid[f] /\ \A p \in Actors : p # q => xReq'[p] = xReq[p]
      BY <1>0, <2>2
    <2>4. xPid[f] # 0 BY <1>i, <2>1 DEF Flt
    <2>5. Rq(xReq'[q], xProc) BY <2>3, <2>4 DEF Rq
    <2> QED BY <1>8, <2>1, <2>3, <2>5
  <1>10. ASSUME NEW q \in Actors, Sbx!Check(q) PROVE Sbx!OrphanInv'
    <2>1. xReq[q].pc = "check" /\ UNCHANGED <<xEngine, xProc, xPid, xClose, xRunner, xExcused>>
      BY <1>10 DEF Sbx!Check, Sbx!At
    <2>2. xRunner.pc = "up" /\ xReq[q].pid # 0 /\ xReq[q].fleet \in SbxFleets BY <1>u, <2>1
    <2>3. (\A p \in Actors : p # q => xReq'[p] = xReq[p]) /\ Rq(xReq'[q], xProc)
      <3>1. CASE Sbx!Done(q) BY <3>1, SbxDoneL DEF Rq
      <3>2. CASE xPid[xReq[q].fleet] = xReq[q].pid /\ (Sbx!Step(q, "create") \/ Sbx!Step(q, "inspect"))
        <4>1. xProc[xReq[q].fleet] # "none" BY <1>i, <2>2, <3>2 DEF Flt
        <4> QED BY <2>2, <3>2, <4>1, SbxStepL DEF Rq
      <3> QED BY <1>10, <3>1, <3>2 DEF Sbx!Check, Sbx!Forwarded
    <2> QED BY <1>8, <2>1, <2>2, <2>3
  <1>11. ASSUME NEW q \in Actors, Sbx!Create(q) PROVE Sbx!OrphanInv'
    <2>1. xReq[q].pc = "create" /\ UNCHANGED <<xProc, xPid, xClose, xRunner>>
      BY <1>11, SbxCreateL
    <2>2. xRunner.pc = "up" /\ xReq[q].pid # 0 /\ xReq[q].fleet \in SbxFleets BY <1>u, <2>1
    <2>3. xReq[q].late \/ xProc[xReq[q].fleet] # "none" BY <1>i, <2>1 DEF Rq
    <2>4. CASE Sbx!Done(q) /\ UNCHANGED <<xEngine, xNext, xExcused>>
      <3>1. Rq(xReq'[q], xProc) BY <2>4, SbxDoneL DEF Rq
      <3> QED BY <1>8, <2>1, <2>2, <2>4, <3>1, SbxDoneL
    <2>5. ASSUME NEW c \in Sbx!Containers, c.owner = xReq[q].fleet, c.id = xNext.id + 1,
                 xEngine' = xEngine \cup {c}, 
                 xReq' = [xReq EXCEPT ![q].pc = "record", ![q].id = xNext.id + 1],
                 xReq[q].late => xNext.id + 1 \in xExcused', xExcused \subseteq xExcused'
          PROVE Sbx!OrphanInv'
      <3>1. xNext.id + 1 \in Nat BY <1>0
      <3>2. (\A p \in Actors : p # q => xReq'[p] = xReq[p]) /\ Rq(xReq'[q], xProc)
        BY <2>2, <2>5, <3>1, SbxStepIdL DEF Rq
      <3>3. \A e \in xEngine' : e \in xEngine \/ (e.owner \in SbxFleets /\ xProc[e.owner] # "none") \/ e.id \in xExcused'
        BY <2>2, <2>3, <2>5
      <3> QED BY <1>8, <2>1, <2>2, <2>5, <3>2, <3>3
    <2> QED BY <1>11, <2>4, <2>5, SbxCreateL
  <1>12. ASSUME NEW q \in Actors, Sbx!Record(q) \/ Sbx!Answer(q) PROVE Sbx!OrphanInv'
    <2>1. xReq[q].pc # "none" /\ Sbx!Done(q) /\
          UNCHANGED <<xEngine, xProc, xPid, xClose, xRunner, xExcused>>
      BY <1>12 DEF Sbx!Record, Sbx!Answer, Sbx!At
    <2>2. Rq(xReq'[q], xProc) BY <2>1, SbxDoneL DEF Rq
    <2> QED BY <1>8, <1>u, <2>1, <2>2, SbxDoneL
  <1>13. ASSUME NEW q \in Actors, Sbx!Inspect(q) PROVE Sbx!OrphanInv'
    <2>1. xReq[q].pc # "none" /\ UNCHANGED <<xEngine, xProc, xPid, xClose, xRunner, xExcused>>
      BY <1>13 DEF Sbx!Inspect, Sbx!At
    <2>2. (\A p \in Actors : p # q => xReq'[p] = xReq[p]) /\ Rq(xReq'[q], xProc)
      <3>1. CASE Sbx!Done(q) BY <3>1, SbxDoneL DEF Rq
      <3>2. ASSUME NEW c \in xEngine, xReq' = [xReq EXCEPT ![q].pc = "call", ![q].id = c.id]
            PROVE (\A p \in Actors : p # q => xReq'[p] = xReq[p]) /\ Rq(xReq'[q], xProc)
        <4>1. c.id \in Nat BY <1>0, <3>2 DEF Sbx!Containers
        <4>2. xReq'[q].pc = "call" /\ xReq'[q].pid = xReq[q].pid /\ \A p \in Actors : p # q => xReq'[p] = xReq[p]
          BY <3>2, <4>1, SbxStepIdL
        <4> QED BY <1>u, <2>1, <4>2 DEF Rq
      <3> QED BY <1>13, <3>1, <3>2, SbxInspectL
    <2> QED BY <1>8, <1>u, <2>1, <2>2
  <1>14. ASSUME NEW q \in Actors, Sbx!Call(q) PROVE Sbx!OrphanInv'
    <2>1. xReq[q].pc # "none" /\ xEngine' \subseteq xEngine /\
          UNCHANGED <<xProc, xPid, xClose, xRunner, xExcused>>
      BY <1>14, SbxCallL
    <2>2. (\A p \in Actors : p # q => xReq'[p] = xReq[p]) /\ Rq(xReq'[q], xProc)
      <3>1. CASE Sbx!Done(q) BY <3>1, SbxDoneL DEF Rq
      <3>2. CASE Sbx!Step(q, "answer") BY <1>u, <2>1, <3>2, SbxStepL DEF Rq
      <3>3. CASE xReq' = [xReq EXCEPT ![q].pc = "answer", ![q].id = xNext.id + 1]
        <4>1. xNext.id + 1 \in Nat BY <1>0
        <4>2. xReq'[q].pc = "answer" /\ xReq'[q].pid = xReq[q].pid /\ \A p \in Actors : p # q => xReq'[p] = xReq[p]
          BY <3>3, <4>1, SbxStepIdL
        <4> QED BY <1>u, <2>1, <4>2 DEF Rq
      <3> QED BY <1>14, <3>1, <3>2, <3>3, SbxCallL
    <2> QED BY <1>8, <1>u, <2>1, <2>2
  <1>15. ASSUME NEW f \in SbxFleets, NEW id \in 1 .. SbxMaxIds, Sbx!ExecStart(f, id)
         PROVE  Sbx!OrphanInv'
    <2>1. UNCHANGED <<xEngine, xReq, xProc, xPid, xClose, xRunner, xExcused>>
      BY <1>15 DEF Sbx!ExecStart
    <2> QED BY <1>i, <1>q, <2>1
  <1>16. ASSUME NEW n \in SbxNames, Sbx!Foreign(n) PROVE Sbx!OrphanInv'
    <2>1. UNCHANGED <<xReq, xProc, xPid, xClose, xRunner, xExcused>> BY <1>16 DEF Sbx!Foreign
    <2>2. \A c \in xEngine' : c \in xEngine \/ c.owner = "other" BY <1>16 DEF Sbx!Foreign
    <2>3. Swd(xRunner', xEngine', xExcused') BY <1>i, <2>1, <2>2 DEF Swd
    <2> QED BY <1>i, <1>q, <2>1, <2>2, <2>3
  <1>17. CASE Sbx!Restart
    <2>1. /\ UNCHANGED <<xEngine, xExcused>> /\ xRunner'.pc = "list"
          /\ xProc' = [f \in SbxFleets |-> "none"] /\ xPid' = [f \in SbxFleets |-> 0]
          /\ xClose' = [f \in SbxFleets |-> Sbx!NotClosing] /\ xReq' = [q \in Actors |-> Sbx!NoReq]
            BY <1>17 DEF Sbx!Restart
    <2>2. \A f \in SbxFleets : Flt(f, xProc', xPid', xClose') BY <2>1 DEF Flt
    <2>3. \A q \in Actors : Rq(xReq'[q], xProc') BY <2>1, SbxNoReqL DEF Rq
    <2>4. Idle(xRunner', xReq', xProc', xClose') /\ Swd(xRunner', xEngine', xExcused')
      BY <2>1, SbxNoReqL DEF Idle, Swd
    <2>5. \A c \in xEngine' : c.owner # "other" => Acc(c, xRunner', xProc', xClose', xExcused')
      BY <2>1 DEF Acc
    <2> QED BY <1>q, <2>2, <2>3, <2>4, <2>5
  <1>18. ASSUME xRunner.pc # "up", UNCHANGED <<xReq, xProc, xPid, xClose>>,
                xEngine' \subseteq xEngine, 
                Swd(xRunner', xEngine', xExcused'),
                xRunner'.pc = "up" => \A c \in xEngine' : c.owner # "other" => c.id \in xExcused'
         PROVE Sbx!OrphanInv'
    <2>1. Idle(xRunner', xReq', xProc', xClose') BY <1>18, <1>i DEF Idle
    <2>2. \A c \in xEngine' : c.owner # "other" => Acc(c, xRunner', xProc', xClose', xExcused')
      BY <1>18 DEF Acc
    <2> QED BY <1>18, <1>i, <1>q, <2>1, <2>2
  <1>19. CASE Sbx!SweepList
    <2>1. xRunner.pc = "list" /\ UNCHANGED <<xEngine, xReq, xProc, xPid, xClose>>
      BY <1>19 DEF Sbx!SweepList
    <2>2. \/ xRunner' = [pc |-> "delete", todo |-> {c.id : c \in Sbx!Installed}]
          \/ xRunner' = [pc |-> "delete", todo |-> {}] /\
             xExcused' = xExcused \cup {c.id : c \in Sbx!Installed}
      BY <1>19 DEF Sbx!SweepList, Sbx!Swept
    <2>3. \A c \in xEngine : c.owner # "other" => c.id \in {d.id : d \in Sbx!Installed}
      BY DEF Sbx!Installed
    <2>4. Swd(xRunner', xEngine', xExcused') /\ xRunner'.pc = "delete"
      BY <2>1, <2>2, <2>3 DEF Swd
    <2> QED BY <1>18, <2>1, <2>4
  <1>20. CASE Sbx!SweepDelete
    <2>1. xRunner.pc = "delete" /\ UNCHANGED <<xReq, xProc, xPid, xClose>> /\ xEngine' \subseteq xEngine
      BY <1>20 DEF Sbx!SweepDelete
    <2>2. PICK id \in xRunner.todo :
             \/ /\ xRunner' = [xRunner EXCEPT !.todo = @ \ {id}]
                /\ xEngine' = {c \in xEngine : c.id # id} /\ xExcused' = xExcused \ {id}
             \/ /\ xRunner' = [xRunner EXCEPT !.todo = {}] /\ xExcused' = xExcused \cup xRunner.todo
                /\ xEngine' = xEngine
      BY <1>20 DEF Sbx!SweepDelete
    <2>3. xRunner'.pc = "delete" BY <1>0, <2>1, <2>2 DEF Sbx!Runners
    <2>4. \A c \in xEngine : c.owner # "other" => c.id \in xRunner.todo \cup xExcused
      BY <1>i, <2>1 DEF Swd
    <2>5. \/ /\ xRunner'.todo = xRunner.todo \ {id} /\ xEngine' = {c \in xEngine : c.id # id}
             /\ xExcused' = xExcused \ {id}
          \/ xExcused' = xExcused \cup xRunner.todo /\ xEngine' = xEngine
            BY <1>0, <2>2 DEF Sbx!Runners
    <2>6. Swd(xRunner', xEngine', xExcused') BY <2>4, <2>5 DEF Swd
    <2> QED BY <1>18, <2>1, <2>3, <2>6
  <1>21. CASE Sbx!SweepEnd
    <2>1. xRunner.pc = "delete" /\ xRunner.todo = {} /\ xRunner'.pc = "up" /\
          UNCHANGED <<xEngine, xReq, xProc, xPid, xClose, xExcused>>
      BY <1>21 DEF Sbx!SweepEnd
    <2>2. \A c \in xEngine : c.owner # "other" => c.id \in xExcused BY <1>i, <2>1 DEF Swd
    <2>3. Swd(xRunner', xEngine', xExcused') BY <2>1 DEF Swd
    <2> QED BY <1>18, <2>1, <2>2, <2>3
  <1>22. CASE UNCHANGED sbxVars
    <2>1. UNCHANGED <<xEngine, xReq, xProc, xPid, xClose, xRunner, xExcused>>
      BY <1>22 DEF sbxVars
    <2> QED BY <1>i, <1>q, <2>1
  <1> QED BY <1>1, <1>2, <1>3, <1>5, <1>6, <1>7, <1>9, <1>10, <1>11, <1>12, <1>13, <1>14, <1>15,
             <1>16, <1>17, <1>19, <1>20, <1>21, <1>22 DEF Sbx!Next

(* The inductive types imply the checked ones. *)
LEMMA SbxTypes == Sbx!StateOK /\ Sbx!IdInv /\ Sbx!OrphanInv => Sbx!TypeOK
  <1> SUFFICES ASSUME Sbx!StateOK, Sbx!IdInv, Sbx!OrphanInv PROVE Sbx!TypeOK OBVIOUS
  <1>1. \A c \in xEngine : c.owner \in SbxFleets \cup {"other"}
    BY DEF Sbx!StateOK, Sbx!Containers
  <1>2. \A r \in xReg \cup xKnown : r.fleet \in SbxFleets BY DEF Sbx!StateOK, Sbx!Refs
  <1> QED BY <1>1, <1>2 DEF Sbx!StateOK, Sbx!IdInv, Sbx!OrphanInv, Sbx!TypeOK

(* A step of the platform is a step of the sandboxes or leaves them alone. *)
LEMMA SbxNext == [Next]_allVars => [Sbx!Next]_sbxVars
  BY DEF Next, allVars, EnvStep, TelStep, SbxStep, CgStep, ErrStep, DomStep, InstStep,
         NoteStep, RenStep, EvStep, LogStep

(* The inductive invariant of the sandboxes. *)
LEMMA SbxInductive == Spec => [](Sbx!StateOK /\ Sbx!IdInv /\ Sbx!OwnInv /\ Sbx!OrphanInv)
  <1> DEFINE Inv == Sbx!StateOK /\ Sbx!IdInv /\ Sbx!OwnInv /\ Sbx!OrphanInv
  <1>1. Init => Inv BY SbxInitL DEF Init
  <1>2. Inv /\ [Next]_allVars => Inv'
    BY SbxBounds, SbxNext, SbxTypeStep, SbxIdStep, SbxOwnStep, SbxOrphanStep
  <1> QED BY <1>1, <1>2, PTL DEF Spec

(* A container outlives its fleet's process and its clean-up only when an   *)
(* engine call failed or its create was past the peer check as the fleet    *)
(* was unregistered (engine.rs close_fleet).                                *)
THEOREM OrphansAreAccounted == Spec => []OrphansAccounted
  <1>1. Sbx!OrphanInv => OrphansAccounted BY DEF Sbx!OrphanInv, OrphansAccounted
  <1> QED BY <1>1, SbxInductive, PTL

(* A fleet's calls act on containers of its own, though names are bound     *)
(* again between the ownership check and the call, and no sweep removes a   *)
(* container of another install (engine.rs container, sweep_boot).          *)
THEOREM SandboxCallsStayHome == Spec => []Sbx!ActsOnOwn
  <1>1. Sbx!OwnInv => Sbx!ActsOnOwn BY DEF Sbx!OwnInv
  <1> QED BY <1>1, SbxInductive, PTL


-----------------------------------------------------------------------------
(* Telemetry (Telemetry). *)
(* Division rounds down. *)
LEMMA TelDivL ==
  ASSUME NEW d \in Nat \ {0}, NEW t \in Nat
  PROVE  t \div d \in Nat /\ (t \div d) * d <= t /\ t < (t \div d) * d + d
  OBVIOUS

(* Multiples of a positive number are apart by at least that number. *)
LEMMA TelMulL ==
  ASSUME NEW d \in Nat \ {0}, NEW a \in Nat, NEW b \in Nat
  PROVE  /\ a * d \in Nat /\ (a + 1) * d = a * d + d
         /\ (a <= b => a * d <= b * d) /\ (a < b => a * d + d <= b * d)
         /\ (a * d < b * d + d => a <= b) /\ (a * d < b * d => a < b)
  <1>1. a * d \in Nat /\ b * d \in Nat OBVIOUS
  <1>2. (a + 1) * d = a * d + d OBVIOUS
  <1>3. a <= b => a * d <= b * d
    <2>1. ASSUME a <= b PROVE a * d <= b * d
      <3>1. b - a \in Nat /\ (b - a) * d \in Nat BY <2>1
      <3>2. b * d = a * d + (b - a) * d OBVIOUS
      <3> QED BY <1>1, <3>1, <3>2
    <2> QED BY <2>1
  <1>4. ASSUME a < b PROVE a * d + d <= b * d
    <2>1. b - (a + 1) \in Nat /\ (b - (a + 1)) * d \in Nat BY <1>4
    <2>2. b * d = (a + 1) * d + (b - (a + 1)) * d OBVIOUS
    <2> QED BY <1>1, <1>2, <2>1, <2>2
  <1>5. ASSUME b < a PROVE b * d + d <= a * d
    <2>1. a - (b + 1) \in Nat /\ (a - (b + 1)) * d \in Nat BY <1>5
    <2>2. a * d = (b + 1) * d + (a - (b + 1)) * d OBVIOUS
    <2>3. (b + 1) * d = b * d + d OBVIOUS
    <2> QED BY <1>1, <2>1, <2>2, <2>3
  <1>6. a * d < b * d + d => a <= b BY <1>1, <1>5
  <1>7. a * d < b * d => a < b
    <2>1. CASE a = b BY <1>1, <2>1
    <2>2. CASE b < a BY <1>1, <1>5, <2>2
    <2> QED BY <2>1, <2>2
  <1> QED BY <1>1, <1>2, <1>3, <1>4, <1>6, <1>7

(* Both names of Cardinality mean the same. *)
LEMMA TelCardL == \A S : Tel!Cardinality(S) = Cardinality(S)
  BY DEF Tel!Cardinality, Cardinality

(* What rounding a time down to its hour does. *)
LEMMA TelHourL ==
  ASSUME Tel!Bounds, NEW s \in Nat, NEW t \in Nat
  PROVE  /\ Tel!Hour(t) \in Nat /\ Tel!FloorHour(t) = Tel!Hour(t) * TelHourLen
         /\ Tel!FloorHour(t) \in Nat
         /\ Tel!FloorHour(t) <= t /\ t < Tel!FloorHour(t) + TelHourLen
         /\ (s <= t => Tel!Hour(s) <= Tel!Hour(t) /\ Tel!FloorHour(s) <= Tel!FloorHour(t))
         /\ (Tel!FloorHour(s) < Tel!FloorHour(t) => Tel!FloorHour(s) + TelHourLen <= Tel!FloorHour(t))
         /\ Tel!FloorHour(Tel!FloorHour(t)) = Tel!FloorHour(t)
  <1>0. TelHourLen \in Nat \ {0} BY DEF Tel!Bounds
  <1>1. \A u \in Nat : /\ Tel!Hour(u) \in Nat /\ Tel!FloorHour(u) = Tel!Hour(u) * TelHourLen /\ Tel!FloorHour(u) \in Nat
                       /\ Tel!FloorHour(u) <= u /\ u < Tel!FloorHour(u) + TelHourLen
    BY <1>0, TelDivL, TelMulL DEF Tel!Hour, Tel!FloorHour
  <1>2. \A u, v \in Nat : u <= v => Tel!Hour(u) <= Tel!Hour(v) /\ Tel!FloorHour(u) <= Tel!FloorHour(v)
    <2>1. SUFFICES ASSUME NEW u \in Nat, NEW v \in Nat, u <= v
                   PROVE  Tel!Hour(u) <= Tel!Hour(v) /\ Tel!FloorHour(u) <= Tel!FloorHour(v)
      OBVIOUS
    <2>0. /\ Tel!Hour(u) \in Nat /\ Tel!Hour(v) \in Nat
          /\ Tel!FloorHour(u) = Tel!Hour(u) * TelHourLen /\ Tel!FloorHour(v) = Tel!Hour(v) * TelHourLen
          /\ Tel!FloorHour(u) \in Nat /\ Tel!FloorHour(v) \in Nat /\ Tel!FloorHour(u) <= u
          /\ v < Tel!FloorHour(v) + TelHourLen
      BY <1>1, <2>1
    <2>2. Tel!Hour(u) * TelHourLen < Tel!Hour(v) * TelHourLen + TelHourLen BY <1>0, <2>0, <2>1
    <2>3. Tel!Hour(u) <= Tel!Hour(v) BY <1>0, <2>0, <2>2, TelMulL
    <2>4. Tel!Hour(u) * TelHourLen <= Tel!Hour(v) * TelHourLen BY <1>0, <2>0, <2>3, TelMulL
    <2> QED BY <2>0, <2>3, <2>4
  <1>3. Tel!FloorHour(s) < Tel!FloorHour(t) => Tel!FloorHour(s) + TelHourLen <= Tel!FloorHour(t)
    <2>1. Tel!Hour(s) \in Nat /\ Tel!Hour(t) \in Nat BY <1>1
    <2>2. Tel!Hour(s) * TelHourLen < Tel!Hour(t) * TelHourLen => Tel!Hour(s) < Tel!Hour(t)
      BY <1>0, <2>1, TelMulL
    <2>3. Tel!Hour(s) < Tel!Hour(t) => Tel!Hour(s) * TelHourLen + TelHourLen <= Tel!Hour(t) * TelHourLen
      BY <1>0, <2>1, TelMulL
    <2> QED BY <1>1, <2>2, <2>3
  <1>4. Tel!FloorHour(Tel!FloorHour(t)) = Tel!FloorHour(t)
    <2> DEFINE u == Tel!FloorHour(t)
    <2>1. u \in Nat /\ u <= t /\ u = Tel!Hour(t) * TelHourLen BY <1>1
    <2>2. Tel!Hour(u) \in Nat /\ Tel!Hour(t) \in Nat /\ Tel!FloorHour(u) = Tel!Hour(u) * TelHourLen /\
          u < Tel!FloorHour(u) + TelHourLen
      BY <1>1, <2>1
    <2>3. Tel!Hour(u) <= Tel!Hour(t) BY <1>2, <2>1
    <2>4. Tel!Hour(t) * TelHourLen < Tel!Hour(u) * TelHourLen + TelHourLen BY <2>1, <2>2
    <2>5. Tel!Hour(t) <= Tel!Hour(u) BY <1>0, <2>2, <2>4, TelMulL
    <2>6. Tel!Hour(u) = Tel!Hour(t) BY <2>2, <2>3, <2>5
    <2> QED BY <2>1, <2>2, <2>6
  <1> QED BY <1>1, <1>2, <1>3, <1>4

(* The times of an hour. *)
LEMMA TelAtHour ==
  ASSUME Tel!Bounds, NEW h \in Nat, NEW t \in Nat
  PROVE  /\ h * TelHourLen \in Nat /\ (h + 1) * TelHourLen = h * TelHourLen + TelHourLen
         /\ Tel!Hour(t) = h <=> h * TelHourLen <= t /\ t < h * TelHourLen + TelHourLen
  <1>0. TelHourLen \in Nat \ {0} BY DEF Tel!Bounds
  <1>1. Tel!Hour(t) \in Nat /\ Tel!Hour(t) * TelHourLen <= t /\
        t < Tel!Hour(t) * TelHourLen + TelHourLen
    BY TelHourL
  <1>2. h * TelHourLen \in Nat /\ (h + 1) * TelHourLen = h * TelHourLen + TelHourLen /\
        Tel!Hour(t) * TelHourLen \in Nat
    BY <1>0, <1>1, TelMulL
  <1>3. ASSUME h * TelHourLen <= t, t < h * TelHourLen + TelHourLen PROVE Tel!Hour(t) = h
    <2>1. h * TelHourLen < Tel!Hour(t) * TelHourLen + TelHourLen BY <1>0, <1>1, <1>2, <1>3
    <2>2. Tel!Hour(t) * TelHourLen < h * TelHourLen + TelHourLen BY <1>0, <1>1, <1>2, <1>3
    <2>3. h <= Tel!Hour(t) /\ Tel!Hour(t) <= h BY <1>0, <1>1, <2>1, <2>2, TelMulL
    <2> QED BY <1>1, <2>3
  <1> QED BY <1>1, <1>2, <1>3

(* A whole hour lies before or after a time on the hour. *)
LEMMA TelAligned ==
  ASSUME Tel!Bounds, NEW h \in Nat, NEW c \in Nat, c = Tel!FloorHour(c)
  PROVE  c <= h * TelHourLen \/ h * TelHourLen + TelHourLen <= c
  <1>0. TelHourLen \in Nat \ {0} BY DEF Tel!Bounds
  <1>1. Tel!Hour(c) \in Nat /\ c = Tel!Hour(c) * TelHourLen BY TelHourL
  <1>2. CASE Tel!Hour(c) <= h BY <1>0, <1>1, <1>2, TelMulL
  <1>3. CASE h < Tel!Hour(c) BY <1>0, <1>1, <1>3, TelMulL
  <1> QED BY <1>1, <1>2, <1>3

(* Times and hours are numbers. *)
LEMMA TelTimesL ==
  ASSUME Tel!Bounds
  PROVE  /\ Tel!Times \subseteq Nat /\ Tel!Hours \subseteq Nat /\ 0 \in Tel!Times /\ 0 \in Tel!Hours
         /\ \A t \in Tel!Times : Tel!Hour(t) \in Tel!Hours
  <1>1. TelMaxTime \in Nat BY DEF Tel!Bounds
  <1>2. Tel!Times \subseteq Nat /\ 0 \in Tel!Times /\ \A t \in Tel!Times : t <= TelMaxTime
    BY <1>1 DEF Tel!Times
  <1>3. Tel!Hour(TelMaxTime) \in Nat BY <1>1, TelHourL
  <1>4. \A t \in Tel!Times : Tel!Hour(t) \in Nat /\ Tel!Hour(t) <= Tel!Hour(TelMaxTime)
    BY <1>1, <1>2, TelHourL
  <1> QED BY <1>2, <1>3, <1>4 DEF Tel!Hours

(* The types of the clock, the marks and the counts. *)
LEMMA TelNums ==
  ASSUME Tel!Bounds, Tel!TypeOK
  PROVE  /\ mNow \in Nat /\ mNow <= TelMaxTime /\ TelMaxTime \in Nat /\ TelLag \in Nat /\ TelLag >= 1
         /\ TelHourLen \in Nat /\ TelHourLen >= 1
         /\ \A f \in TelFleets : /\ mMark[f] \in Int /\ mMem[f] \in Int /\ mMark[f] >= -1 /\ mMem[f] >= -1
                                 /\ mMem[f] <= TelMaxTime /\ mMark[f] <= TelMaxTime /\ mFrom[f] \in Nat
                                 /\ mLanded[f] \subseteq Tel!Times /\ mBuf[f] \subseteq Tel!Times
                                 /\ mCount[f] \in [Tel!Times -> Nat] /\ mStat[f] \in [Tel!Hours -> Nat]
  <1>1. TelMaxTime \in Nat /\ TelLag \in Nat /\ TelLag >= 1 /\ TelHourLen \in Nat /\ TelHourLen >= 1
    BY DEF Tel!Bounds
  <1>2. mNow \in Nat /\ mNow <= TelMaxTime BY <1>1 DEF Tel!TypeOK, Tel!Times
  <1>3. \A f \in TelFleets : mMark[f] \in -1 .. TelMaxTime /\ mMem[f] \in -1 .. TelMaxTime /\ mFrom[f] \in 0 .. TelMaxTime + 1
    BY DEF Tel!TypeOK
  <1>4. \A f \in TelFleets : /\ mLanded[f] \subseteq Tel!Times /\ mBuf[f] \subseteq Tel!Times
                             /\ mCount[f] \in [Tel!Times -> Nat] /\ mStat[f] \in [Tel!Hours -> Nat]
    BY DEF Tel!TypeOK
  <1> QED BY <1>1, <1>2, <1>3, <1>4

(* The window a fleet is folded over starts on the hour, is over, and covers an hour or all that is marked. *)
LEMMA TelChunkL ==
  ASSUME Tel!Bounds, Tel!TypeOK, Tel!CountInv, NEW f \in TelFleets, Tel!HasChunk(f)
  PROVE  /\ Tel!Chunk(f) = <<Tel!Chunk(f)[1], Tel!Chunk(f)[2]>> /\ Tel!Chunk(f)[1] \in Tel!Times
         /\ Tel!Chunk(f)[2] \in Tel!Times
         /\ Tel!Chunk(f)[1] < Tel!Chunk(f)[2] /\ Tel!Chunk(f)[2] + TelLag <= mNow
         /\ Tel!Chunk(f)[1] = Tel!FloorHour(Tel!Chunk(f)[1])
         /\ Tel!Chunk(f)[2] <= Tel!Chunk(f)[1] + TelHourLen
         /\ Tel!Chunk(f)[2] = Tel!Chunk(f)[1] + TelHourLen \/ mMark[f] <= Tel!Chunk(f)[2]
         /\ mMark[f] = -1 \/ Tel!Chunk(f)[1] <= mMark[f]
  <1> DEFINE a == Tel!IngestAfter(f)  c == Tel!Cutoff  start == Tel!FloorHour(a)
             end == Tel!Smaller(start + TelHourLen, Tel!FloorHour(c))
  <1>1. c = mNow - TelLag /\ c >= 0 /\ a >= 0 /\ Tel!Chunk(f)[1] < Tel!Chunk(f)[2]
    BY DEF Tel!HasChunk, Tel!Cutoff
  <1>2. /\ mNow \in Nat /\ mNow <= TelMaxTime /\ TelMaxTime \in Nat /\ TelLag \in Nat /\ TelLag >= 1
        /\ TelHourLen \in Nat /\ TelHourLen >= 1
        /\ mMark[f] \in Int /\ mMem[f] \in Int /\ mMark[f] >= -1 /\ mMem[f] >= -1
        /\ mMem[f] <= TelMaxTime
    BY TelNums
  <1>3. c \in Nat /\ c + TelLag = mNow /\ c <= TelMaxTime BY <1>1, <1>2
  <1>4. Tel!FloorHour(c) \in Nat /\ Tel!FloorHour(c) <= c /\ c < Tel!FloorHour(c) + TelHourLen
    BY <1>3, TelHourL
  <1>5. Tel!Marks BY DEF Tel!CountInv
  <1>6. (a = mMem[f] /\ mMem[f] >= 0) \/ (a = Tel!FloorHour(c) /\ mMem[f] < 0)
    <2>1. CASE mMem[f] >= 0
      <3>1. a = mMem[f] \/ a = -1 BY <2>1 DEF Tel!IngestAfter
      <3>2. a # -1 BY <1>1
      <3>3. a = mMem[f] BY <3>1, <3>2
      <3> QED BY <1>2, <2>1, <3>3
    <2>2. CASE ~(mMem[f] >= 0)
      <3>1. a = Tel!FloorHour(c) \/ a = -1 BY <2>2 DEF Tel!IngestAfter
      <3> QED BY <1>1, <1>2, <2>2, <3>1
    <2> QED BY <2>1, <2>2
  <1>7. a \in Nat /\ (mMark[f] = -1 \/ a <= mMark[f])
    <2>1. CASE a = mMem[f] /\ mMem[f] >= 0 BY <1>2, <1>5, <2>1 DEF Tel!Marks
    <2>2. CASE a = Tel!FloorHour(c) /\ mMem[f] < 0
      <3>1. mMem[f] = -1 BY <1>2, <2>2
      <3> QED BY <1>4, <1>5, <2>2, <3>1 DEF Tel!Marks
    <2> QED BY <1>6, <2>1, <2>2
  <1>8. start \in Nat /\ start <= a /\ Tel!FloorHour(start) = start BY <1>7, TelHourL
  <1>9. mMark[f] = -1 \/ start <= mMark[f] BY <1>2, <1>7, <1>8
  <1>10. mMark[f] <= c BY <1>2, <1>3, <1>5 DEF Tel!Marks
  <1>11. Tel!Chunk(f) = (IF start < Tel!FloorHour(c) THEN <<start, end>> ELSE <<start, c>>)
    BY DEF Tel!Chunk
  <1>12. CASE start < Tel!FloorHour(c)
    <2>1. start + TelHourLen <= Tel!FloorHour(c) BY <1>3, <1>7, <1>12, TelHourL
    <2>2. end = start + TelHourLen BY <1>2, <1>4, <1>8, <2>1 DEF Tel!Smaller
    <2>3. Tel!Chunk(f) = <<start, start + TelHourLen>> BY <1>11, <1>12, <2>2
    <2>4. /\ Tel!Chunk(f)[1] = start /\ Tel!Chunk(f)[2] = start + TelHourLen BY <2>3
    <2> HIDE DEF start, end, c
    <2>5. start \in Tel!Times /\ start + TelHourLen \in Tel!Times /\ start + TelHourLen + TelLag <= mNow
      BY <1>2, <1>3, <1>4, <1>8, <2>1 DEF Tel!Times
    <2> QED BY <1>1, <1>2, <1>8, <1>9, <2>3, <2>4, <2>5
  <1>13. CASE ~(start < Tel!FloorHour(c))
    <2>1. Tel!Chunk(f) = <<start, c>> /\ Tel!Chunk(f)[1] = start /\ Tel!Chunk(f)[2] = c
      BY <1>11, <1>13
    <2>2. c <= start + TelHourLen BY <1>2, <1>3, <1>4, <1>8, <1>13
    <2> HIDE DEF start, end, c
    <2>3. start \in Tel!Times /\ c \in Tel!Times BY <1>1, <1>2, <1>3, <1>8, <2>1 DEF Tel!Times
    <2> QED BY <1>1, <1>2, <1>3, <1>8, <1>9, <1>10, <2>1, <2>2, <2>3
  <1> QED BY <1>12, <1>13

(* A scan reads what has landed in its window. *)
LEMMA TelScanL ==
  ASSUME Tel!Bounds, Tel!TypeOK, Tel!CountInv, NEW f \in TelFleets, Tel!HasChunk(f)
  PROVE  LET w == [fleet |-> f, chunk |-> Tel!Chunk(f), rows |-> Tel!Rows(f)] IN w \in Tel!Works /\ Tel!Pending(w)
  <1> DEFINE w == [fleet |-> f, chunk |-> Tel!Chunk(f), rows |-> Tel!Rows(f)]
             c1 == Tel!Chunk(f)[1]  c2 == Tel!Chunk(f)[2]
  <1>1. /\ Tel!Chunk(f) \in Tel!Times \X Tel!Times /\ c1 \in Tel!Times /\ c2 \in Tel!Times /\ c1 < c2
        /\ c2 + TelLag <= mNow
        /\ c1 = Tel!FloorHour(c1) /\ c2 <= c1 + TelHourLen /\ (c2 = c1 + TelHourLen \/ mMark[f] <= c2)
        /\ (mMark[f] = -1 \/ c1 <= mMark[f])
    BY TelChunkL
  <1>2. Tel!Times \subseteq Nat /\ Tel!Hours \subseteq Nat BY TelTimesL
  <1>3. \A h \in Tel!Hours : Tel!CanonicalFiles(f, h) \subseteq SUBSET Tel!Times
    <2>1. \A h \in Tel!Hours : mDir[f][h] \in Tel!Dirs BY DEF Tel!TypeOK
    <2> QED BY <2>1 DEF Tel!CanonicalFiles, Tel!Dirs
  <1>4. Tel!Globs(f) \subseteq Tel!Hours BY DEF Tel!Globs
  <1>5. ASSUME NEW e \in Tel!Rows(f)
        PROVE  /\ e \in Tel!Hours \X (SUBSET Tel!Times) \X Tel!Times /\ <<e[1], e[2]>> \in Tel!Files(f)
               /\ e = <<e[1], e[2], e[3]>> /\ e[3] \in e[2] /\ Tel!InWindow(Tel!Chunk(f), e[3])
    <2>1. PICK h \in Tel!Globs(f) : e \in {h} \X Tel!CanonicalFiles(f, h) \X Tel!Times
      BY DEF Tel!Rows
    <2>2. e[3] \in e[2] /\ Tel!InWindow(Tel!Chunk(f), e[3]) BY DEF Tel!Rows
    <2>3. e = <<e[1], e[2], e[3]>> /\ e[1] = h /\ e[2] \in Tel!CanonicalFiles(f, h) /\
          e[3] \in Tel!Times
      BY <2>1
    <2>4. h \in Tel!Hours /\ e[2] \in SUBSET Tel!Times BY <1>3, <1>4, <2>1, <2>3
    <2>5. <<e[1], e[2]>> \in Tel!Files(f) BY <2>3, <2>4 DEF Tel!Files
    <2> QED BY <2>2, <2>3, <2>4, <2>5
  <1>6. w \in Tel!Works BY <1>1, <1>5 DEF Tel!Works
  <1>7. w.fleet = f /\ w.chunk = Tel!Chunk(f) /\ w.rows = Tel!Rows(f) OBVIOUS
  <1>8. Tel!InOneFile BY DEF Tel!CountInv
  <1>9. ASSUME NEW e \in Tel!Rows(f) PROVE e[3] \in mLanded[f]
    <2>1. <<e[1], e[2]>> \in Tel!Files(f) /\ e[3] \in <<e[1], e[2]>>[2] /\ e[3] \in Tel!Times
      BY <1>5
    <2>2. (\E p \in Tel!Files(f) : e[3] \in p[2]) => e[3] \in mLanded[f]
      BY <1>8, <2>1 DEF Tel!InOneFile
    <2> QED BY <2>1, <2>2
  <1>10. ASSUME NEW t \in mLanded[f], Tel!InWindow(Tel!Chunk(f), t)
         PROVE  \E e \in Tel!Rows(f) : e[3] = t
    <2>0. mLanded[f] \subseteq Tel!Times BY TelNums
    <2>a. t \in Tel!Times BY <2>0
    <2>b. t \in Nat BY <1>2, <2>a
    <2>1. t \in Tel!Times /\ t \in Nat /\ t + 1 \in Nat BY <2>a, <2>b
    <2>2. PICK e \in Tel!Files(f) : t \in e[2] BY <1>8, <2>1 DEF Tel!InOneFile
    <2>3. e[1] \in Tel!Hours /\ e[1] \in Nat /\ e[2] \in Tel!CanonicalFiles(f, e[1])
      BY <1>2, <2>2 DEF Tel!Files
    <2>4. Tel!Hour(t) <= e[1] /\ e[1] <= Tel!Hour(t + 1) BY <1>8, <2>1, <2>2 DEF Tel!InOneFile
    <2>5. c1 \in Nat /\ c2 \in Nat /\ c1 <= t /\ t + 1 <= c2
      <3>1. c1 \in Nat /\ c2 \in Nat BY <1>1, <1>2
      <3>2. c1 <= t /\ t < c2 BY <1>10 DEF Tel!InWindow
      <3> HIDE DEF c1, c2
      <3> QED BY <2>1, <3>1, <3>2
    <2>6. Tel!Hour(c1) <= Tel!Hour(t) /\ Tel!Hour(t + 1) <= Tel!Hour(c2) /\ Tel!Hour(c1) \in Nat /\
          Tel!Hour(t) \in Nat
          /\ Tel!Hour(t + 1) \in Nat /\ Tel!Hour(c2) \in Nat
      BY <2>1, <2>5, TelHourL
    <2>7. e[1] \in Tel!Globs(f)
      <3>1. Tel!Hour(c1) <= e[1] /\ e[1] <= Tel!Hour(c2) BY <2>3, <2>4, <2>6
      <3> QED BY <2>3, <3>1 DEF Tel!Globs
    <2> DEFINE x == <<e[1], e[2], t>>
    <2>8. x \in {e[1]} \X Tel!CanonicalFiles(f, e[1]) \X Tel!Times /\ x[3] = t /\ x[2] = e[2]
      BY <2>1, <2>3
    <2>9. x \in Tel!Rows(f) BY <1>10, <2>2, <2>7, <2>8 DEF Tel!Rows
    <2> QED BY <2>8, <2>9
  <1>11. ASSUME NEW d \in Tel!Rows(f), NEW e \in Tel!Rows(f), d[3] = e[3] PROVE d = e
    <2>1. <<d[1], d[2]>> \in Tel!Files(f) /\ <<e[1], e[2]>> \in Tel!Files(f) /\ d[3] \in d[2] /\
          d[3] \in e[2]
          /\ d[3] \in Tel!Times
      BY <1>5, <1>11
    <2>2. <<d[1], d[2]>> = <<e[1], e[2]>>
      <3>1. \A p, q \in Tel!Files(f) : d[3] \in p[2] /\ d[3] \in q[2] => p = q
        BY <1>8, <2>1 DEF Tel!InOneFile
      <3>2. <<d[1], d[2]>>[2] = d[2] /\ <<e[1], e[2]>>[2] = e[2] OBVIOUS
      <3> QED BY <2>1, <3>1, <3>2
    <2>3. d[1] = e[1] /\ d[2] = e[2] BY <2>2
    <2>4. d = <<d[1], d[2], d[3]>> /\ e = <<e[1], e[2], e[3]>> BY <1>5
    <2> QED BY <1>11, <2>3, <2>4
  <1>12. Tel!Pending(w)
    <2>1. \A e \in Tel!Rows(f) : Tel!InWindow(Tel!Chunk(f), e[3]) BY <1>5
    <2> HIDE DEF w
    <2> QED BY <1>1, <1>7, <1>9, <1>10, <1>11, <2>1 DEF Tel!Pending
  <1> QED BY <1>6, <1>12

(* A scan has one row for every minute that landed in its window. *)
LEMMA TelOneRow ==
  ASSUME Tel!Bounds, Tel!TypeOK, NEW w \in Tel!Works, Tel!Pending(w)
  PROVE  /\ \A t \in Tel!Minutes(w) : Tel!InMinute(w, t) = 1 /\ t \in mLanded[w.fleet] /\ Tel!InWindow(w.chunk, t) /\ t \in Tel!Times
         /\ \A t \in mLanded[w.fleet] : Tel!InWindow(w.chunk, t) => t \in Tel!Minutes(w)
  <1>1. /\ \A e \in w.rows : e[3] \in mLanded[w.fleet] /\ Tel!InWindow(w.chunk, e[3])
        /\ \A t \in mLanded[w.fleet] : Tel!InWindow(w.chunk, t) => \E e \in w.rows : e[3] = t
        /\ \A d, e \in w.rows : d[3] = e[3] => d = e
    BY DEF Tel!Pending
  <1>2. w.fleet \in TelFleets BY DEF Tel!Works
  <1>3. mLanded[w.fleet] \subseteq Tel!Times BY <1>2, TelNums
  <1>4. ASSUME NEW t \in Tel!Minutes(w)
        PROVE  Tel!InMinute(w, t) = 1 /\ t \in mLanded[w.fleet] /\ Tel!InWindow(w.chunk, t)
    <2>1. PICK d \in w.rows : d[3] = t BY DEF Tel!Minutes
    <2>2. {e \in w.rows : e[3] = t} = {d} BY <1>1, <2>1
    <2>3. Tel!InMinute(w, t) = 1 BY <2>2, FS_Singleton, TelCardL DEF Tel!InMinute
    <2> QED BY <1>1, <2>1, <2>3
  <1>5. ASSUME NEW t \in mLanded[w.fleet], Tel!InWindow(w.chunk, t) PROVE t \in Tel!Minutes(w)
    BY <1>1, <1>5 DEF Tel!Minutes
  <1> QED BY <1>3, <1>4, <1>5

(* The rows of an hour number the minutes of it in the window. *)
LEMMA TelHourCard ==
  ASSUME Tel!Bounds, Tel!TypeOK, NEW w \in Tel!Works, Tel!Pending(w), NEW h \in Tel!Hours
  PROVE  LET S == {t \in mLanded[w.fleet] : Tel!Hour(t) = h /\ Tel!InWindow(w.chunk, t)} IN
         Tel!InHour(w, h) = Cardinality(S) /\ Tel!InHour(w, h) \in Nat /\
         (Tel!InHour(w, h) = 0 <=> S = {})
  <1> DEFINE S == {t \in mLanded[w.fleet] : Tel!Hour(t) = h /\ Tel!InWindow(w.chunk, t)}
             T == {e \in w.rows : Tel!Hour(e[3]) = h}
             F == [t \in S |-> CHOOSE e \in w.rows : e[3] = t]
  <1>1. /\ \A e \in w.rows : e[3] \in mLanded[w.fleet] /\ Tel!InWindow(w.chunk, e[3])
        /\ \A t \in mLanded[w.fleet] : Tel!InWindow(w.chunk, t) => \E e \in w.rows : e[3] = t
        /\ \A d, e \in w.rows : d[3] = e[3] => d = e
    BY DEF Tel!Pending
  <1>2. w.fleet \in TelFleets BY DEF Tel!Works
  <1>3. S \subseteq Tel!Times BY <1>2, TelNums
  <1>4. IsFiniteSet(S)
    <2>1. IsFiniteSet(0 .. TelMaxTime) BY FS_Interval DEF Tel!Bounds
    <2> QED BY <1>3, <2>1, FS_Subset DEF Tel!Times
  <1>5. \A t \in S : F[t] \in w.rows /\ F[t][3] = t BY <1>1
  <1>6. \A t \in S : F[t] \in T BY <1>5
  <1>7. F \in [S -> T] BY <1>6
  <1>8. \A s, t \in S : F[s] = F[t] => s = t BY <1>5
  <1>9. \A e \in T : e[3] \in S /\ F[e[3]] = e
    <2>1. SUFFICES ASSUME NEW e \in T PROVE e[3] \in S /\ F[e[3]] = e OBVIOUS
    <2>2. e \in w.rows /\ e[3] \in S BY <1>1
    <2>3. F[e[3]] \in w.rows /\ F[e[3]][3] = e[3] BY <1>5, <2>2
    <2> QED BY <1>1, <2>2, <2>3
  <1> HIDE DEF S, T, F
  <1>10. F \in Bijection(S, T)
    BY <1>7, <1>8, <1>9 DEF Bijection, Injection, Surjection, IsInjective
  <1>11. IsFiniteSet(T) /\ Cardinality(T) = Cardinality(S)
    BY <1>4, <1>10, FS_Bijection DEF ExistsBijection
  <1>12. Cardinality(S) \in Nat /\ (Cardinality(S) = 0 <=> S = {})
    BY <1>4, FS_CardinalityType, FS_EmptySet
  <1>13. Tel!InHour(w, h) = Cardinality(T) BY TelCardL DEF Tel!InHour, T
  <1> QED BY <1>11, <1>12, <1>13, TelCardL DEF S

(* The window of a scan that waits to be committed. *)
LEMMA TelWorkL ==
  ASSUME Tel!Bounds, Tel!TypeOK, NEW w \in Tel!Works, Tel!Pending(w)
  PROVE  /\ w.fleet \in TelFleets /\ w.chunk[1] \in Tel!Times /\ w.chunk[2] \in Tel!Times
         /\ w.chunk[1] \in Nat /\ w.chunk[2] \in Nat
         /\ w.chunk[1] < w.chunk[2] /\ w.chunk[2] + TelLag <= mNow
         /\ w.chunk[1] = Tel!FloorHour(w.chunk[1])
         /\ w.chunk[2] <= w.chunk[1] + TelHourLen
         /\ w.chunk[2] = w.chunk[1] + TelHourLen \/ mMark[w.fleet] <= w.chunk[2]
         /\ mMark[w.fleet] = -1 \/ w.chunk[1] <= mMark[w.fleet]
  <1>1. w.fleet \in TelFleets /\ w.chunk \in Tel!Times \X Tel!Times BY DEF Tel!Works
  <1>2. w.chunk[1] \in Tel!Times /\ w.chunk[2] \in Tel!Times BY <1>1
  <1>3. Tel!Times \subseteq Nat BY TelTimesL
  <1> QED BY <1>1, <1>2, <1>3 DEF Tel!Pending

(* A window over a whole hour has all rows of the hour. *)
LEMMA TelHourRows ==
  ASSUME Tel!Bounds, Tel!TypeOK, NEW w \in Tel!Works, Tel!Pending(w), NEW h \in Tel!Hours
  PROVE  /\ Tel!InHour(w, h) \in Nat
         /\ Tel!InHour(w, h) # 0 => (w.chunk[1] = h * TelHourLen /\ \E t \in mLanded[w.fleet] : Tel!Hour(t) = h)
         /\ w.chunk[1] = h * TelHourLen /\ w.chunk[2] = h * TelHourLen + TelHourLen
            => Tel!InHour(w, h) = Cardinality({t \in mLanded[w.fleet] : Tel!Hour(t) = h})
  <1> DEFINE S == {t \in mLanded[w.fleet] : Tel!Hour(t) = h /\ Tel!InWindow(w.chunk, t)}
             c1 == w.chunk[1]  c2 == w.chunk[2]
  <1>1. Tel!InHour(w, h) = Cardinality(S) /\ Tel!InHour(w, h) \in Nat /\
        (Tel!InHour(w, h) = 0 <=> S = {})
    BY TelHourCard
  <1>2. c1 \in Nat /\ c2 \in Nat /\ c1 = Tel!FloorHour(c1) /\ c2 <= c1 + TelHourLen /\
        w.fleet \in TelFleets
    BY TelWorkL
  <1>3. h \in Nat /\ mLanded[w.fleet] \subseteq Nat
    <2>1. mLanded[w.fleet] \subseteq Tel!Times BY <1>2, TelNums
    <2> QED BY <2>1, TelTimesL
  <1>4. TelHourLen \in Nat /\ TelHourLen >= 1 /\ TelHourLen \in Nat \ {0} BY DEF Tel!Bounds
  <1>5. h * TelHourLen \in Nat BY <1>3, TelAtHour
  <1>6. \A t \in mLanded[w.fleet] : t \in Nat /\ (Tel!Hour(t) = h <=> h * TelHourLen <= t /\ t < h * TelHourLen + TelHourLen)
    BY <1>3, TelAtHour
  <1>7. ASSUME Tel!InHour(w, h) # 0
        PROVE  c1 = h * TelHourLen /\ \E t \in mLanded[w.fleet] : Tel!Hour(t) = h
    <2>1. PICK t \in mLanded[w.fleet] : Tel!Hour(t) = h /\ Tel!InWindow(w.chunk, t)
      BY <1>1, <1>7
    <2>2. t \in Nat /\ h * TelHourLen <= t /\ t < h * TelHourLen + TelHourLen BY <1>6, <2>1
    <2>3. c1 <= t /\ t < c2 BY <2>1 DEF Tel!InWindow
    <2>4. c1 <= h * TelHourLen \/ h * TelHourLen + TelHourLen <= c1 BY <1>2, <1>3, TelAligned
    <2>5. Tel!Hour(c1) \in Nat /\ c1 = Tel!Hour(c1) * TelHourLen BY <1>2, TelHourL
    <2>6. h * TelHourLen < Tel!Hour(c1) * TelHourLen + TelHourLen
      <3> HIDE DEF c1, c2
      <3> QED BY <1>2, <1>4, <1>5, <2>2, <2>3, <2>5
    <2>7. h <= Tel!Hour(c1) BY <1>3, <1>4, <2>5, <2>6, TelMulL
    <2>8. h * TelHourLen <= c1 BY <1>3, <1>4, <2>5, <2>7, TelMulL
    <2>9. c1 = h * TelHourLen
      <3> HIDE DEF c1, c2
      <3> QED BY <1>2, <1>4, <1>5, <2>2, <2>3, <2>4, <2>8
    <2> QED BY <2>1, <2>9
  <1>8. ASSUME c1 = h * TelHourLen, c2 = h * TelHourLen + TelHourLen
        PROVE  Tel!InHour(w, h) = Cardinality({t \in mLanded[w.fleet] : Tel!Hour(t) = h})
    <2>1. S = {t \in mLanded[w.fleet] : Tel!Hour(t) = h} BY <1>6, <1>8 DEF Tel!InWindow
    <2> QED BY <1>1, <2>1
  <1> QED BY <1>1, <1>7, <1>8

(* Every span stays in one file while the files and what has landed stay. *)
LEMMA TelKeepFiles ==
  ASSUME Tel!InOneFile, UNCHANGED mLanded, \A g \in TelFleets, h \in Tel!Hours : Tel!CanonicalFiles(g, h)' = Tel!CanonicalFiles(g, h)
  PROVE  Tel!InOneFile'
  <1>1. ASSUME NEW g \in TelFleets PROVE Tel!Files(g)' = Tel!Files(g) BY DEF Tel!Files
  <1> QED BY <1>1 DEF Tel!InOneFile

(* The counts stay right while nothing they depend on changes. *)
LEMMA TelKeepCounts ==
  ASSUME Tel!NoPhantoms, Tel!CountedOnce, UNCHANGED <<mCount, mStat, mMark, mFrom, mLanded>>
  PROVE  Tel!NoPhantoms' /\ Tel!CountedOnce'
  BY DEF Tel!NoPhantoms, Tel!CountedOnce

(* A scan stays good while its fleet's mark and what has landed stay. *)
LEMMA TelKeepScan ==
  ASSUME Tel!Bounds, Tel!TypeOK, NEW w \in Tel!Works, Tel!Pending(w), mNow' \in Nat, mNow <= mNow',
         UNCHANGED mLanded, mMark'[w.fleet] = mMark[w.fleet]
  PROVE  Tel!Pending(w)'
  <1>1. w.chunk[2] \in Nat /\ w.chunk[2] + TelLag <= mNow BY TelWorkL
  <1>2. mNow \in Nat /\ TelLag \in Nat BY TelNums
  <1>3. w.chunk[2] + TelLag <= mNow' BY <1>1, <1>2
  <1> QED BY <1>3 DEF Tel!Pending, Tel!InWindow, Tel!FloorHour, Tel!Hour

(* All scans stay good while the marks and what has landed stay. *)
LEMMA TelKeepScans ==
  ASSUME Tel!Bounds, Tel!TypeOK, Tel!Scans, mNow' \in Nat, mNow <= mNow', UNCHANGED <<mLanded, mMark>>, mTick'.todo \subseteq mTick.todo
  PROVE  Tel!Scans'
  <1>1. mTick.todo \subseteq Tel!Works BY DEF Tel!TypeOK, Tel!Ticks
  <1>2. ASSUME NEW w \in mTick'.todo PROVE Tel!Pending(w)'
    <2>1. w \in Tel!Works /\ Tel!Pending(w) BY <1>1 DEF Tel!Scans
    <2> QED BY <2>1, TelKeepScan
  <1>3. ASSUME NEW w \in mTick'.todo, NEW v \in mTick'.todo, v.fleet = w.fleet PROVE v = w
    BY <1>3 DEF Tel!Scans
  <1> QED BY <1>2, <1>3 DEF Tel!Scans

(* A step of a pass that touches no file and no count keeps the invariant. *)
LEMMA TelKeepRest ==
  ASSUME Tel!Bounds, Tel!TypeOK, Tel!CountInv, UNCHANGED <<mNow, mBuf, mDir, mLanded, mCount, mStat, mMark, mFrom>>,
         mTick'.todo \subseteq mTick.todo,
         mTick'.at = "fold" => mTick.at = "fold" /\ mTick'.fleet = mTick.fleet /\ mTick'.hour = mTick.hour,
         Tel!Marks'
  PROVE  Tel!CountInv'
  <1>1. Tel!Fresh' BY DEF Tel!CountInv, Tel!Fresh
  <1>2. Tel!InOneFile' BY TelKeepFiles DEF Tel!CountInv, Tel!CanonicalFiles
  <1>3. Tel!Compacted' BY DEF Tel!CountInv, Tel!Compacted, Tel!Hour
  <1>4. mNow \in Nat BY TelNums
  <1>5. Tel!Scans' BY <1>4, TelKeepScans DEF Tel!CountInv
  <1>6. Tel!NoPhantoms' /\ Tel!CountedOnce' BY TelKeepCounts DEF Tel!CountInv
  <1> QED BY <1>1, <1>2, <1>3, <1>5, <1>6 DEF Tel!CountInv

(* Marks stay behind a clock that moves on. *)
LEMMA TelKeepMarks ==
  ASSUME Tel!Bounds, Tel!TypeOK, Tel!Marks, UNCHANGED <<mMark, mFrom, mMem>>, mNow' \in Nat, mNow <= mNow'
  PROVE  Tel!Marks'
  <1>1. mNow \in Nat /\ TelLag \in Nat /\ \A f \in TelFleets : mMark[f] \in Int BY TelNums
  <1>2. ASSUME NEW f \in TelFleets, mMark[f] # -1 PROVE mMark[f] + TelLag <= mNow'
    <2>1. mMark[f] + TelLag <= mNow BY <1>2 DEF Tel!Marks
    <2> QED BY <1>1, <2>1
  <1> QED BY <1>2 DEF Tel!Marks

(* The types of the fields of a pass. *)
LEMMA TelTickFields ==
  ASSUME Tel!TypeOK
  PROVE  /\ mTick.left \in 0 .. TelMaxChunks /\ mTick.done \subseteq TelFleets
         /\ mTick.held \subseteq TelFleets \X Tel!Times
         /\ mTick.todo \subseteq Tel!Works /\ mTick.fleet \in TelFleets \cup {"none"}
         /\ mTick.hour \in Tel!Hours
         /\ mTick.tried \subseteq TelFleets \X Tel!Hours
         /\ mTick.at \in {"idle", "plan", "commit", "replay", "compact", "fold"}
  BY DEF Tel!TypeOK, Tel!Ticks

(* A fault is paid for. *)
LEMMA TelFaultL ==
  ASSUME Tel!Bounds, Tel!TypeOK, Tel!Faulty, Tel!Fault
  PROVE  mLeft' \in [spans : 0 .. TelMaxSpans, faults : 0 .. TelMaxFaults]
  <1>1. mLeft \in [spans : 0 .. TelMaxSpans, faults : 0 .. TelMaxFaults] /\ TelMaxFaults \in Nat /\
        mLeft.faults > 0
    BY DEF Tel!TypeOK, Tel!Bounds, Tel!Faulty
  <1>2. mLeft.faults - 1 \in 0 .. TelMaxFaults BY <1>1
  <1> QED BY <1>1, <1>2 DEF Tel!Fault

(* Initially nothing has landed and nothing is counted. *)
LEMMA TelInitL == Tel!Bounds /\ Tel!Init => Tel!TypeOK /\ Tel!CountInv
  <1> SUFFICES ASSUME Tel!Bounds, Tel!Init PROVE Tel!TypeOK /\ Tel!CountInv OBVIOUS
  <1>0. TelMaxTime \in Nat /\ TelMaxSpans \in Nat /\ TelMaxFaults \in Nat /\ TelMaxChunks \in Nat
    BY DEF Tel!Bounds
  <1>1. 0 \in Tel!Times /\ 0 \in Tel!Hours BY TelTimesL
  <1>2. Tel!NoDir \in Tel!Dirs BY DEF Tel!NoDir, Tel!Dirs
  <1>3. Tel!Idle \in Tel!Ticks BY <1>0, <1>1 DEF Tel!Idle, Tel!Ticks
  <1>4. /\ mNow \in Tel!Times /\ mLive \subseteq TelFleets /\ mBuf \in [TelFleets -> SUBSET Tel!Times]
        /\ mLanded \in [TelFleets -> SUBSET Tel!Times]
    BY <1>1 DEF Tel!Init
  <1>5. mDir \in [TelFleets -> [Tel!Hours -> Tel!Dirs]] BY <1>2 DEF Tel!Init
  <1>6. mCount \in [TelFleets -> [Tel!Times -> Nat]] /\ mStat \in [TelFleets -> [Tel!Hours -> Nat]]
    BY DEF Tel!Init
  <1>7. mMark \in [TelFleets -> -1 .. TelMaxTime] /\ mMem \in [TelFleets -> -1 .. TelMaxTime]
    BY <1>0 DEF Tel!Init
  <1>8. mFrom \in [TelFleets -> 0 .. TelMaxTime + 1] /\ mSealed \in [TelFleets -> Tel!Hours \cup {-1}]
    BY <1>0 DEF Tel!Init
  <1>9. mReplay \in [asked : BOOLEAN, seen : BOOLEAN]
    <2>1. FALSE \in BOOLEAN OBVIOUS
    <2>2. mReplay = [asked |-> FALSE, seen |-> FALSE] BY DEF Tel!Init
    <2> QED BY <2>1, <2>2
  <1>10. mLeft \in [spans : 0 .. TelMaxSpans, faults : 0 .. TelMaxFaults] BY <1>0 DEF Tel!Init
  <1>11. mTick \in Tel!Ticks BY <1>3 DEF Tel!Init
  <1>12. Tel!TypeOK BY <1>4, <1>5, <1>6, <1>7, <1>8, <1>9, <1>10, <1>11 DEF Tel!TypeOK
  <1>13. Tel!Fresh BY DEF Tel!Init, Tel!Fresh
  <1>14. \A f \in TelFleets, h \in Tel!Hours : Tel!CanonicalFiles(f, h) = {}
    BY DEF Tel!Init, Tel!CanonicalFiles, Tel!NoDir
  <1>15. \A f \in TelFleets : Tel!Files(f) = {} BY <1>14 DEF Tel!Files
  <1>16. Tel!InOneFile
    <2>1. \A f \in TelFleets : mLanded[f] = {} BY DEF Tel!Init
    <2> QED BY <1>15, <2>1 DEF Tel!InOneFile
  <1>17. Tel!Compacted BY DEF Tel!Init, Tel!Compacted, Tel!NoDir, Tel!Idle
  <1>18. Tel!Marks BY DEF Tel!Init, Tel!Marks
  <1>19. Tel!Scans BY DEF Tel!Init, Tel!Scans, Tel!Idle
  <1>20. Tel!NoPhantoms BY DEF Tel!Init, Tel!NoPhantoms
  <1>21. Tel!CountedOnce
    <2>1. ASSUME NEW f \in TelFleets, NEW t \in mFrom[f] .. mMark[f] - 1
          PROVE  FALSE BY <1>0 DEF Tel!Init
    <2>2. ASSUME NEW f \in TelFleets, NEW h \in Tel!Hours, mFrom[f] <= h * TelHourLen,
                 (h + 1) * TelHourLen <= mMark[f]
          PROVE  FALSE
      <3>1. h \in Nat BY TelTimesL
      <3>2. h * TelHourLen \in Nat /\ (h + 1) * TelHourLen = h * TelHourLen + TelHourLen
        BY <3>1, <1>0, TelAtHour
      <3>3. mMark[f] = -1 BY DEF Tel!Init
      <3>4. TelHourLen \in Nat BY DEF Tel!Bounds
      <3> QED BY <2>2, <3>2, <3>3, <3>4
    <2> QED BY <2>1, <2>2 DEF Tel!CountedOnce
  <1> QED BY <1>12, <1>13, <1>16, <1>17, <1>18, <1>19, <1>20, <1>21 DEF Tel!CountInv

(* The clock keeps the invariant. *)
LEMMA TelTickL ==
  ASSUME Tel!Bounds, Tel!TypeOK, Tel!CountInv, Tel!Tick
  PROVE  Tel!TypeOK' /\ Tel!CountInv'
  <1>1. mNow \in Nat /\ TelMaxTime \in Nat /\ mNow' = mNow + 1 /\ mNow < TelMaxTime
    BY TelNums DEF Tel!Tick
  <1>2. mNow' \in Tel!Times /\ mNow' \in Nat /\ mNow <= mNow' BY <1>1 DEF Tel!Times
  <1>3. Tel!TypeOK' BY <1>2 DEF Tel!Tick, Tel!TypeOK
  <1>4. Tel!Fresh'
    <2>1. ASSUME NEW f \in TelFleets, NEW t \in mBuf[f]
          PROVE  t <= mNow' /\ mNow' <= t + 1 /\ t \notin mLanded[f]
      <3>1. t \in Tel!Times BY TelNums
      <3>2. t \in Nat BY <3>1, TelTimesL
      <3>3. t <= mNow /\ t \notin mLanded[f] BY DEF Tel!CountInv, Tel!Fresh
      <3>4. t >= mNow BY DEF Tel!Tick
      <3> QED BY <1>1, <3>2, <3>3, <3>4
    <2>2. ASSUME NEW f \in TelFleets, NEW t \in mLanded[f] PROVE t <= mNow'
      <3>1. t \in Tel!Times BY TelNums
      <3>2. t \in Nat BY <3>1, TelTimesL
      <3>3. t <= mNow BY DEF Tel!CountInv, Tel!Fresh
      <3> QED BY <1>1, <3>2, <3>3
    <2> QED BY <2>1, <2>2 DEF Tel!Fresh, Tel!Tick
  <1>5. Tel!InOneFile' BY TelKeepFiles DEF Tel!CountInv, Tel!CanonicalFiles, Tel!Tick
  <1>6. Tel!Compacted'
    <2>1. Tel!Hour(mNow) \in Nat /\ Tel!Hour(mNow + 1) \in Nat /\ Tel!Hour(mNow) <= Tel!Hour(mNow + 1)
      BY <1>1, TelHourL
    <2>2. Tel!Hour(mNow)' = Tel!Hour(mNow + 1) BY <1>1 DEF Tel!Hour
    <2>3. \A h \in Tel!Hours : h < Tel!Hour(mNow) => h < Tel!Hour(mNow)'
      BY <2>1, <2>2, TelTimesL
    <2> QED BY <2>3 DEF Tel!CountInv, Tel!Compacted, Tel!Tick
  <1>7. Tel!Marks' BY <1>2, TelKeepMarks DEF Tel!CountInv, Tel!Tick
  <1>8. Tel!Scans' BY <1>2, TelKeepScans DEF Tel!CountInv, Tel!Tick
  <1>9. Tel!NoPhantoms' /\ Tel!CountedOnce' BY TelKeepCounts DEF Tel!CountInv, Tel!Tick
  <1> QED BY <1>3, <1>4, <1>5, <1>6, <1>7, <1>8, <1>9 DEF Tel!CountInv

(* A span that a fleet buffers keeps the invariant. *)
LEMMA TelEmitL ==
  ASSUME Tel!Bounds, Tel!TypeOK, Tel!CountInv, NEW f \in TelFleets, Tel!Emit(f)
  PROVE  Tel!TypeOK' /\ Tel!CountInv'
  <1>1. mNow \in Nat /\ mNow \in Tel!Times BY TelNums DEF Tel!TypeOK
  <1>2. mBuf' = [mBuf EXCEPT ![f] = @ \cup {mNow}] /\ mBuf \in [TelFleets -> SUBSET Tel!Times]
    BY DEF Tel!Emit, Tel!TypeOK
  <1>3. mBuf' \in [TelFleets -> SUBSET Tel!Times] BY <1>1, <1>2
  <1>4. mLeft' \in [spans : 0 .. TelMaxSpans, faults : 0 .. TelMaxFaults]
    <2>1. mLeft \in [spans : 0 .. TelMaxSpans, faults : 0 .. TelMaxFaults] /\ mLeft.spans > 0 /\
          TelMaxSpans \in Nat
      BY DEF Tel!TypeOK, Tel!Emit, Tel!Bounds
    <2>2. mLeft.spans - 1 \in 0 .. TelMaxSpans BY <2>1
    <2> QED BY <2>1, <2>2 DEF Tel!Emit
  <1>5. Tel!TypeOK' BY <1>3, <1>4 DEF Tel!TypeOK, Tel!Emit
  <1>6. Tel!Fresh'
    <2>1. ASSUME NEW g \in TelFleets, NEW t \in mBuf'[g]
          PROVE  t <= mNow /\ mNow <= t + 1 /\ t \notin mLanded[g]
      <3>1. CASE t \in mBuf[g] BY <3>1 DEF Tel!CountInv, Tel!Fresh
      <3>2. CASE t \notin mBuf[g]
        <4>1. g = f /\ t = mNow BY <1>2, <3>2
        <4> QED BY <1>1, <4>1 DEF Tel!Emit
      <3> QED BY <3>1, <3>2
    <2> QED BY <2>1 DEF Tel!CountInv, Tel!Fresh, Tel!Emit
  <1>7. Tel!InOneFile' BY TelKeepFiles DEF Tel!CountInv, Tel!CanonicalFiles, Tel!Emit
  <1>8. Tel!Compacted' BY DEF Tel!CountInv, Tel!Compacted, Tel!Emit, Tel!Hour
  <1>9. Tel!Marks' BY <1>1, TelKeepMarks DEF Tel!CountInv, Tel!Emit
  <1>10. Tel!Scans' BY <1>1, TelKeepScans DEF Tel!CountInv, Tel!Emit
  <1>11. Tel!NoPhantoms' /\ Tel!CountedOnce' BY TelKeepCounts DEF Tel!CountInv, Tel!Emit
  <1> QED BY <1>5, <1>6, <1>7, <1>8, <1>9, <1>10, <1>11 DEF Tel!CountInv

(* A fleet that comes or goes keeps the invariant. *)
LEMMA TelToggleL ==
  ASSUME Tel!Bounds, Tel!TypeOK, Tel!CountInv, NEW f \in TelFleets, Tel!Toggle(f)
  PROVE  Tel!TypeOK' /\ Tel!CountInv'
  <1>1. mLeft' \in [spans : 0 .. TelMaxSpans, faults : 0 .. TelMaxFaults]
    BY TelFaultL DEF Tel!Toggle
  <1>2. mLive' \subseteq TelFleets BY DEF Tel!Toggle, Tel!TypeOK
  <1>3. Tel!TypeOK' BY <1>1, <1>2 DEF Tel!Toggle, Tel!TypeOK
  <1>4. mNow \in Nat BY TelNums
  <1>5. Tel!Marks' BY <1>4, TelKeepMarks DEF Tel!CountInv, Tel!Toggle
  <1>6. Tel!CountInv' BY <1>5, TelKeepRest DEF Tel!Toggle
  <1> QED BY <1>3, <1>6

(* Asking for a replay keeps the invariant. *)
LEMMA TelAskReplayL ==
  ASSUME Tel!Bounds, Tel!TypeOK, Tel!CountInv, Tel!AskReplay
  PROVE  Tel!TypeOK' /\ Tel!CountInv'
  <1>1. mLeft' \in [spans : 0 .. TelMaxSpans, faults : 0 .. TelMaxFaults]
    BY TelFaultL DEF Tel!AskReplay
  <1>2. mReplay' \in [asked : BOOLEAN, seen : BOOLEAN]
    <2>1. mReplay \in [asked : BOOLEAN, seen : BOOLEAN] /\ TRUE \in BOOLEAN BY DEF Tel!TypeOK
    <2> QED BY <2>1 DEF Tel!AskReplay
  <1>3. Tel!TypeOK' BY <1>1, <1>2 DEF Tel!AskReplay, Tel!TypeOK
  <1>4. mNow \in Nat BY TelNums
  <1>5. Tel!Marks' BY <1>4, TelKeepMarks DEF Tel!CountInv, Tel!AskReplay
  <1>6. Tel!CountInv' BY <1>5, TelKeepRest DEF Tel!AskReplay
  <1> QED BY <1>3, <1>6

(* The start of a pass keeps the invariant. *)
LEMMA TelPassBeginL ==
  ASSUME Tel!Bounds, Tel!TypeOK, Tel!CountInv, Tel!PassBegin
  PROVE  Tel!TypeOK' /\ Tel!CountInv'
  <1>1. mTick' \in Tel!Ticks
    <2>1. mTick \in Tel!Ticks /\ TelMaxChunks \in 0 .. TelMaxChunks
      BY DEF Tel!TypeOK, Tel!Bounds
    <2> QED BY <2>1 DEF Tel!PassBegin, Tel!Ticks
  <1>2. mMem' = [f \in TelFleets |-> 0] \/ mMem' = mMem BY DEF Tel!PassBegin
  <1>3. mMem' \in [TelFleets -> -1 .. TelMaxTime]
    <2>1. 0 \in -1 .. TelMaxTime /\ mMem \in [TelFleets -> -1 .. TelMaxTime]
      BY DEF Tel!TypeOK, Tel!Bounds
    <2> QED BY <1>2, <2>1
  <1>4. mReplay' \in [asked : BOOLEAN, seen : BOOLEAN]
    <2>1. mReplay \in [asked : BOOLEAN, seen : BOOLEAN] /\ mReplay.asked \in BOOLEAN
      BY DEF Tel!TypeOK
    <2> QED BY <2>1 DEF Tel!PassBegin
  <1>5. Tel!TypeOK' BY <1>1, <1>3, <1>4 DEF Tel!TypeOK, Tel!PassBegin
  <1>6. Tel!Marks'
    <2>1. CASE mMem' = mMem
      <3>1. mNow \in Nat BY TelNums
      <3> QED BY <2>1, <3>1, TelKeepMarks DEF Tel!CountInv, Tel!PassBegin
    <2>2. CASE mMem' = [f \in TelFleets |-> 0]
      <3>1. ASSUME NEW f \in TelFleets, mMark[f] # -1
            PROVE  mMem'[f] # -1 /\ mMem'[f] <= mMark[f]
        <4>1. mMark[f] \in Int /\ mMark[f] >= -1 BY TelNums
        <4>2. mMem'[f] = 0 BY <2>2
        <4> QED BY <3>1, <4>1, <4>2
      <3> QED BY <3>1 DEF Tel!CountInv, Tel!Marks, Tel!PassBegin
    <2> QED BY <1>2, <2>1, <2>2
  <1>7. mTick'.at = "plan" /\ mTick'.todo = mTick.todo
    BY DEF Tel!PassBegin, Tel!TypeOK, Tel!Ticks
  <1>8. Tel!CountInv' BY <1>6, <1>7, TelKeepRest DEF Tel!PassBegin
  <1> QED BY <1>5, <1>8

(* The end of the commits keeps the invariant. *)
LEMMA TelCommitEndL ==
  ASSUME Tel!Bounds, Tel!TypeOK, Tel!CountInv, Tel!CommitEnd
  PROVE  Tel!TypeOK' /\ Tel!CountInv'
  <1>1. mTick' \in Tel!Ticks /\ mTick'.at = "plan" /\ mTick'.todo = mTick.todo
    BY DEF Tel!CommitEnd, Tel!TypeOK, Tel!Ticks
  <1>2. Tel!TypeOK' BY <1>1 DEF Tel!CommitEnd, Tel!TypeOK
  <1>3. mNow \in Nat BY TelNums
  <1>4. Tel!Marks' BY <1>3, TelKeepMarks DEF Tel!CountInv, Tel!CommitEnd
  <1>5. Tel!CountInv' BY <1>1, <1>4, TelKeepRest DEF Tel!CommitEnd
  <1> QED BY <1>2, <1>5

(* The end of a replay keeps the invariant. *)
LEMMA TelReplayEndL ==
  ASSUME Tel!Bounds, Tel!TypeOK, Tel!CountInv, Tel!ReplayEnd
  PROVE  Tel!TypeOK' /\ Tel!CountInv'
  <1>1. mTick' \in Tel!Ticks /\ mTick'.at = "compact" /\ mTick'.todo = mTick.todo
    BY DEF Tel!ReplayEnd, Tel!TypeOK, Tel!Ticks
  <1>2. mReplay' \in [asked : BOOLEAN, seen : BOOLEAN]
    <2>1. mReplay \in [asked : BOOLEAN, seen : BOOLEAN] /\ FALSE \in BOOLEAN BY DEF Tel!TypeOK
    <2>2. mReplay' = [asked |-> FALSE, seen |-> FALSE] \/ mReplay' = mReplay
      BY DEF Tel!ReplayEnd
    <2>3. [asked |-> FALSE, seen |-> FALSE] \in [asked : BOOLEAN, seen : BOOLEAN] BY <2>1
    <2> QED BY <2>1, <2>2, <2>3, Zenon
  <1>3. Tel!TypeOK' BY <1>1, <1>2 DEF Tel!ReplayEnd, Tel!TypeOK
  <1>4. mNow \in Nat BY TelNums
  <1>5. Tel!Marks' BY <1>4, TelKeepMarks DEF Tel!CountInv, Tel!ReplayEnd
  <1>6. Tel!CountInv' BY <1>1, <1>5, TelKeepRest DEF Tel!ReplayEnd
  <1> QED BY <1>3, <1>6

(* A backoff that ends keeps the invariant. *)
LEMMA TelBackoffL ==
  ASSUME Tel!Bounds, Tel!TypeOK, Tel!CountInv, Tel!BackoffExpires
  PROVE  Tel!TypeOK' /\ Tel!CountInv'
  <1>1. mTick' \in Tel!Ticks /\ mTick'.at = "idle" /\ mTick'.todo = mTick.todo
    BY DEF Tel!BackoffExpires, Tel!TypeOK, Tel!Ticks
  <1>2. Tel!TypeOK' BY <1>1 DEF Tel!BackoffExpires, Tel!TypeOK
  <1>3. mNow \in Nat BY TelNums
  <1>4. Tel!Marks' BY <1>3, TelKeepMarks DEF Tel!CountInv, Tel!BackoffExpires
  <1>5. Tel!CountInv' BY <1>1, <1>4, TelKeepRest DEF Tel!BackoffExpires
  <1> QED BY <1>2, <1>5

(* A pass that is not running has its type. *)
LEMMA TelIdleL ==
  ASSUME Tel!Bounds
  PROVE  Tel!Idle \in Tel!Ticks /\ Tel!Idle.at = "idle" /\ Tel!Idle.todo = {}
  <1>1. 0 \in Tel!Hours /\ 0 \in 0 .. TelMaxChunks BY TelTimesL DEF Tel!Bounds
  <1> QED BY <1>1 DEF Tel!Idle, Tel!Ticks

(* The end of a pass keeps the invariant. *)
LEMMA TelTickEndL ==
  ASSUME Tel!Bounds, Tel!TypeOK, Tel!CountInv, Tel!TickEnd
  PROVE  Tel!TypeOK' /\ Tel!CountInv'
  <1>1. mTick.held \subseteq TelFleets \X Tel!Times /\ mTick.tried \subseteq TelFleets \X Tel!Hours
    BY TelTickFields
  <1>2. mTick' = [Tel!Idle EXCEPT !.held = mTick.held, !.tried = mTick.tried] BY DEF Tel!TickEnd
  <1>3. mTick' \in Tel!Ticks /\ mTick'.at = "idle" /\ mTick'.todo = {}
    BY <1>1, <1>2, TelIdleL DEF Tel!Ticks
  <1>4. Tel!TypeOK' BY <1>3 DEF Tel!TickEnd, Tel!TypeOK
  <1>5. mNow \in Nat BY TelNums
  <1>6. Tel!Marks' BY <1>5, TelKeepMarks DEF Tel!CountInv, Tel!TickEnd
  <1>7. Tel!CountInv' BY <1>3, <1>6, TelKeepRest DEF Tel!TickEnd
  <1> QED BY <1>4, <1>7

(* A crash keeps the invariant. *)
LEMMA TelCrashL ==
  ASSUME Tel!Bounds, Tel!TypeOK, Tel!CountInv, Tel!Crash
  PROVE  Tel!TypeOK' /\ Tel!CountInv'
  <1>1. mLeft' \in [spans : 0 .. TelMaxSpans, faults : 0 .. TelMaxFaults]
    BY TelFaultL DEF Tel!Crash
  <1>2. mReplay' \in [asked : BOOLEAN, seen : BOOLEAN]
    <2>1. mReplay \in [asked : BOOLEAN, seen : BOOLEAN] /\ FALSE \in BOOLEAN BY DEF Tel!TypeOK
    <2> QED BY <2>1 DEF Tel!Crash
  <1>3. mTick' \in Tel!Ticks /\ mTick'.at = "idle" /\ mTick'.todo = {} BY TelIdleL DEF Tel!Crash
  <1>4. Tel!TypeOK' BY <1>1, <1>2, <1>3 DEF Tel!Crash, Tel!TypeOK
  <1>5. Tel!Marks'
    <2>1. ASSUME NEW f \in TelFleets, mMark[f] # -1 PROVE mMark[f] <= mMark[f]
      <3>1. mMark[f] \in Int BY TelNums
      <3> QED BY <3>1
    <2> QED BY <2>1 DEF Tel!Marks, Tel!CountInv, Tel!Crash
  <1>6. Tel!CountInv' BY <1>3, <1>5, TelKeepRest DEF Tel!Crash
  <1> QED BY <1>4, <1>6

(* Planning a pass keeps the invariant: its scans read what has landed. *)
LEMMA TelPlanL ==
  ASSUME Tel!Bounds, Tel!TypeOK, Tel!CountInv, Tel!Plan
  PROVE  Tel!TypeOK' /\ Tel!CountInv'
  <1> DEFINE bounds == {f \in TelFleets : Tel!HasChunk(f)}
             Scan(f) == [fleet |-> f, chunk |-> Tel!Chunk(f), rows |-> Tel!Rows(f)]
  <1>0. UNCHANGED <<mNow, mLive, mBuf, mDir, mLanded, mCount, mStat, mMark, mFrom, mMem, mSealed, mReplay>>
    BY DEF Tel!Plan
  <1>1. mNow \in Nat BY TelNums
  <1>2. Tel!Marks' BY <1>0, <1>1, TelKeepMarks DEF Tel!CountInv
  <1>3. CASE mTick.left = 0 \/ bounds = {}
    <2>1. mTick' = [mTick EXCEPT !.at = "replay"] /\ mLeft' = mLeft BY <1>3 DEF Tel!Plan
    <2>2. mTick' \in Tel!Ticks /\ mTick'.at = "replay" /\ mTick'.todo = mTick.todo
      BY <2>1 DEF Tel!TypeOK, Tel!Ticks
    <2>3. Tel!TypeOK' BY <1>0, <2>1, <2>2 DEF Tel!TypeOK
    <2>4. Tel!CountInv' BY <1>0, <1>2, <2>2, TelKeepRest
    <2> QED BY <2>3, <2>4
  <1>4. CASE ~(mTick.left = 0 \/ bounds = {})
    <2>1. PICK broken \in SUBSET bounds :
            /\ broken # {} => Tel!Faulty
            /\ IF broken = {} THEN UNCHANGED mLeft ELSE Tel!Fault
            /\ mTick' = [mTick EXCEPT
                   !.at = "commit", !.left = @ - 1,
                   !.done = @ \cup {f \in bounds : Tel!Chunk(f)[2] >= Tel!Cutoff},
                   !.held = @ \cup {<<f, Tel!Chunk(f)[1]>> : f \in broken},
                   !.todo = {[fleet |-> f, chunk |-> Tel!Chunk(f), rows |-> Tel!Rows(f)] : f \in bounds \ broken}]
      BY <1>4 DEF Tel!Plan
    <2>2. mLeft' \in [spans : 0 .. TelMaxSpans, faults : 0 .. TelMaxFaults]
      <3>1. CASE broken = {} BY <2>1, <3>1 DEF Tel!TypeOK
      <3>2. CASE broken # {} BY <2>1, <3>2, TelFaultL
      <3> QED BY <3>1, <3>2
    <2>3. \A f \in bounds : f \in TelFleets /\ Tel!HasChunk(f) OBVIOUS
    <2>4. \A f \in bounds : Tel!Chunk(f)[1] \in Tel!Times BY <2>3, TelChunkL
    <2>5. \A f \in bounds : Scan(f) \in Tel!Works /\ Tel!Pending(Scan(f)) BY <2>3, TelScanL
    <2>6. mTick.left - 1 \in 0 .. TelMaxChunks
      <3>1. mTick.left \in 0 .. TelMaxChunks /\ TelMaxChunks \in Nat
        BY TelTickFields DEF Tel!Bounds
      <3> QED BY <1>4, <3>1
    <2> DEFINE held == mTick.held \cup {<<f, Tel!Chunk(f)[1]>> : f \in broken}
               done == mTick.done \cup {f \in bounds : Tel!Chunk(f)[2] >= Tel!Cutoff}
               todo == {Scan(f) : f \in bounds \ broken}
    <2>7. held \subseteq TelFleets \X Tel!Times
      <3>1. mTick.held \subseteq TelFleets \X Tel!Times BY TelTickFields
      <3>2. ASSUME NEW f \in broken
            PROVE  <<f, Tel!Chunk(f)[1]>> \in TelFleets \X Tel!Times BY <2>3, <2>4
      <3> QED BY <3>1, <3>2
    <2>8. done \subseteq TelFleets
      <3>1. mTick.done \subseteq TelFleets BY TelTickFields
      <3> QED BY <3>1
    <2>9. todo \subseteq Tel!Works BY <2>5
    <2>10. mTick' = [mTick EXCEPT !.at = "commit", !.left = mTick.left - 1, !.done = done, !.held = held, !.todo = todo]
      BY <2>1 DEF Tel!TypeOK, Tel!Ticks
    <2>11. \A w \in todo : \E f \in bounds : w = Scan(f) OBVIOUS
    <2>12. mTick \in Tel!Ticks BY DEF Tel!TypeOK
    <2> HIDE DEF held, done, todo
    <2>13. mTick' \in Tel!Ticks /\ mTick'.at = "commit" /\ mTick'.todo = todo
      BY <2>6, <2>7, <2>8, <2>9, <2>10, <2>12 DEF Tel!Ticks
    <2>14. Tel!TypeOK' BY <1>0, <2>2, <2>13 DEF Tel!TypeOK
    <2>15. Tel!Scans'
      <3>1. ASSUME NEW w \in todo PROVE Tel!Pending(w)'
        <4>1. w \in Tel!Works /\ Tel!Pending(w) BY <2>5, <2>11
        <4> QED BY <1>0, <1>1, <4>1, TelKeepScan
      <3>2. ASSUME NEW w \in todo, NEW v \in todo, v.fleet = w.fleet PROVE v = w
        <4>1. PICK f \in bounds : w = Scan(f) BY <2>11
        <4>2. PICK g \in bounds : v = Scan(g) BY <2>11
        <4>3. w.fleet = f /\ v.fleet = g BY <4>1, <4>2
        <4> QED BY <3>2, <4>1, <4>2, <4>3
      <3> QED BY <2>13, <3>1, <3>2 DEF Tel!Scans
    <2>16. Tel!Fresh' BY <1>0 DEF Tel!CountInv, Tel!Fresh
    <2>17. Tel!InOneFile' BY <1>0, TelKeepFiles DEF Tel!CountInv, Tel!CanonicalFiles
    <2>18. Tel!Compacted' BY <1>0, <2>13 DEF Tel!CountInv, Tel!Compacted, Tel!Hour
    <2>19. Tel!NoPhantoms' /\ Tel!CountedOnce' BY <1>0, TelKeepCounts DEF Tel!CountInv
    <2> QED BY <1>2, <2>14, <2>15, <2>16, <2>17, <2>18, <2>19 DEF Tel!CountInv
  <1> QED BY <1>3, <1>4

(* A flush in time keeps the invariant: it lands where no fold has been. *)
LEMMA TelFlushL ==
  ASSUME Tel!Bounds, ~TelLateUpload, Tel!TypeOK, Tel!CountInv, NEW f \in TelFleets, Tel!Flush(f)
  PROVE  Tel!TypeOK' /\ Tel!CountInv'
  <1>a. PICK H \in Tel!Hours : H = Tel!Hour(mNow)
    <2>1. mNow \in Tel!Times BY DEF Tel!TypeOK
    <2> QED BY <2>1, TelTimesL
  <1>b. PICK B \in SUBSET Tel!Times : B = mBuf[f] BY DEF Tel!TypeOK
  <1> USE <1>a, <1>b
  <1> DEFINE dir == [mDir[f][H] EXCEPT !.src = @ \cup {B}]
  <1>0. UNCHANGED <<mNow, mLive, mCount, mStat, mMark, mFrom, mMem, mSealed, mTick, mReplay, mLeft>>
        /\ mLanded' = [mLanded EXCEPT ![f] = @ \cup B] /\ mBuf' = [mBuf EXCEPT ![f] = {}]
    BY DEF Tel!Flush
  <1>1. mDir' = [mDir EXCEPT ![f][H].src = @ \cup {B}] BY DEF Tel!Flush
  <1>2. mNow \in Nat /\ mNow \in Tel!Times /\ H \in Tel!Hours /\ H \in Nat /\ B \subseteq Tel!Times
    <2>1. mNow \in Tel!Times BY DEF Tel!TypeOK
    <2> QED BY <2>1, TelNums, TelTimesL
  <1>3. mDir \in [TelFleets -> [Tel!Hours -> Tel!Dirs]] /\ mDir[f] \in [Tel!Hours -> Tel!Dirs] /\
        mDir[f][H] \in Tel!Dirs
    BY <1>2 DEF Tel!TypeOK
  <1>4. dir \in Tel!Dirs /\ dir.has = mDir[f][H].has /\ dir.comp = mDir[f][H].comp /\
        dir.src = mDir[f][H].src \cup {B}
    BY <1>2, <1>3 DEF Tel!Dirs
  <1>5. mDir' = [mDir EXCEPT ![f] = [mDir[f] EXCEPT ![H] = dir]] BY <1>1, <1>2, <1>3
  <1> HIDE DEF dir
  <1>6. mDir' \in [TelFleets -> [Tel!Hours -> Tel!Dirs]] BY <1>2, <1>3, <1>4, <1>5
  <1>7. /\ mDir'[f][H] = dir /\ \A h \in Tel!Hours \ {H} : mDir'[f][h] = mDir[f][h]
        /\ \A g \in TelFleets \ {f} : mDir'[g] = mDir[g]
    BY <1>2, <1>3, <1>5
  <1>8. Tel!TypeOK'
    <2>1. mLanded' \in [TelFleets -> SUBSET Tel!Times] /\ mBuf' \in [TelFleets -> SUBSET Tel!Times]
      BY <1>0, <1>2 DEF Tel!TypeOK
    <2> QED BY <1>0, <1>6, <2>1 DEF Tel!TypeOK
  <1>9. mLanded'[f] = mLanded[f] \cup B /\ \A g \in TelFleets \ {f} : mLanded'[g] = mLanded[g]
    BY <1>0 DEF Tel!TypeOK
  <1>10. \A t \in B : t \in Nat /\ t + 1 \in Nat /\ t <= mNow /\ mNow <= t + 1 /\ t \notin mLanded[f]
    <2>1. \A t \in B : t \in Nat BY <1>2, TelTimesL
    <2> QED BY <2>1 DEF Tel!CountInv, Tel!Fresh
  <1>11. Tel!Fresh'
    <2>1. ASSUME NEW g \in TelFleets, NEW t \in mBuf'[g]
          PROVE  t <= mNow /\ mNow <= t + 1 /\ t \notin mLanded'[g]
      <3>1. g # f /\ t \in mBuf[g] BY <1>0 DEF Tel!TypeOK
      <3> QED BY <1>9, <3>1 DEF Tel!CountInv, Tel!Fresh
    <2>2. ASSUME NEW g \in TelFleets, NEW t \in mLanded'[g] PROVE t <= mNow
      <3>1. CASE t \in mLanded[g] BY <3>1 DEF Tel!CountInv, Tel!Fresh
      <3>2. CASE t \notin mLanded[g]
        <4>1. t \in B BY <1>9, <3>2
        <4> QED BY <1>10, <4>1
      <3> QED BY <3>1, <3>2
    <2> QED BY <1>0, <2>1, <2>2 DEF Tel!Fresh
  <1>12. ~mDir[f][H].has
    <2>1. mDir[f][H].has => H < H BY <1>2 DEF Tel!CountInv, Tel!Compacted
    <2> QED BY <1>2, <2>1
  <1>13. Tel!CanonicalFiles(f, H)' = Tel!CanonicalFiles(f, H) \cup {B}
    BY <1>4, <1>7, <1>12 DEF Tel!CanonicalFiles
  <1>14. \A h \in Tel!Hours \ {H} : Tel!CanonicalFiles(f, h)' = Tel!CanonicalFiles(f, h)
    BY <1>7 DEF Tel!CanonicalFiles
  <1>15. \A g \in TelFleets \ {f} : \A h \in Tel!Hours : Tel!CanonicalFiles(g, h)' = Tel!CanonicalFiles(g, h)
    BY <1>7 DEF Tel!CanonicalFiles
  <1>16. Tel!Files(f)' = Tel!Files(f) \cup {<<H, B>>}
    <2>1. ASSUME NEW e \in Tel!Files(f)' PROVE e \in Tel!Files(f) \cup {<<H, B>>}
      <3>1. e \in Tel!Hours \X (SUBSET Tel!Times) /\ e[2] \in Tel!CanonicalFiles(f, e[1])' /\
            e = <<e[1], e[2]>>
        BY DEF Tel!Files
      <3>2. CASE e[1] # H BY <1>14, <3>1, <3>2 DEF Tel!Files
      <3>3. CASE e[1] = H /\ e[2] = B BY <3>1, <3>3
      <3>4. CASE e[1] = H /\ e[2] # B BY <1>13, <3>1, <3>4 DEF Tel!Files
      <3> QED BY <3>2, <3>3, <3>4
    <2>2. ASSUME NEW e \in Tel!Files(f) PROVE e \in Tel!Files(f)'
      <3>1. e \in Tel!Hours \X (SUBSET Tel!Times) /\ e[2] \in Tel!CanonicalFiles(f, e[1])
        BY DEF Tel!Files
      <3>2. e[2] \in Tel!CanonicalFiles(f, e[1])' BY <1>13, <1>14, <3>1
      <3> QED BY <3>1, <3>2 DEF Tel!Files
    <2>3. <<H, B>> \in Tel!Files(f)' BY <1>2, <1>13 DEF Tel!Files
    <2> QED BY <2>1, <2>2, <2>3
  <1>17. Tel!InOneFile'
    <2>1. ASSUME NEW g \in TelFleets \ {f}
          PROVE  Tel!Files(g)' = Tel!Files(g) BY <1>15 DEF Tel!Files
    <2>2. Tel!InOneFile BY DEF Tel!CountInv
    <2>3. ASSUME NEW g \in TelFleets, NEW t \in Tel!Times
          PROVE  /\ t \in mLanded'[g] <=> \E e \in Tel!Files(g)' : t \in e[2]
                 /\ \A d, e \in Tel!Files(g)' : t \in d[2] /\ t \in e[2] => d = e
                 /\ \A e \in Tel!Files(g)' : t \in e[2] => Tel!Hour(t) <= e[1] /\ e[1] <= Tel!Hour(t + 1)
      <3>0. /\ t \in mLanded[g] <=> \E e \in Tel!Files(g) : t \in e[2]
            /\ \A d, e \in Tel!Files(g) : t \in d[2] /\ t \in e[2] => d = e
            /\ \A e \in Tel!Files(g) : t \in e[2] => Tel!Hour(t) <= e[1] /\ e[1] <= Tel!Hour(t + 1)
        BY <2>2 DEF Tel!InOneFile
      <3>1. CASE g # f BY <1>9, <2>1, <3>0, <3>1
      <3>2. CASE g = f /\ t \notin B BY <1>9, <1>16, <3>0, <3>2
      <3>3. CASE g = f /\ t \in B
        <4>1. t \notin mLanded[f] BY <1>10, <3>3
        <4>2. \A e \in Tel!Files(f) : t \notin e[2] BY <3>0, <3>3, <4>1
        <4>3. Tel!Hour(t) <= H /\ H <= Tel!Hour(t + 1) BY <1>2, <1>10, <3>3, TelHourL
        <4>4. \A e \in Tel!Files(f)' : t \in e[2] => e = <<H, B>> BY <1>16, <4>2
        <4>5. <<H, B>>[1] = H /\ <<H, B>>[2] = B /\ <<H, B>> \in Tel!Files(f)' BY <1>16
        <4>6. t \in mLanded'[f] BY <1>9, <3>3
        <4> QED BY <3>3, <4>3, <4>4, <4>5, <4>6
      <3> QED BY <3>1, <3>2, <3>3
    <2>4. \A t : Tel!Hour(t)' = Tel!Hour(t) BY DEF Tel!Hour
    <2> QED BY <2>3, <2>4 DEF Tel!InOneFile
  <1>18. Tel!Compacted'
    <2>1. ASSUME NEW g \in TelFleets, NEW h \in Tel!Hours
          PROVE  IF mDir'[g][h].has THEN h < Tel!Hour(mNow) /\ \A s \in mDir'[g][h].src : s \subseteq mDir'[g][h].comp
                 ELSE mDir'[g][h].comp = {}
      <3>1. CASE g = f /\ h = H BY <1>4, <1>7, <1>12, <3>1 DEF Tel!CountInv, Tel!Compacted
      <3>2. CASE ~(g = f /\ h = H)
        <4>1. mDir'[g][h] = mDir[g][h] BY <1>7, <3>2
        <4> QED BY <4>1 DEF Tel!CountInv, Tel!Compacted
      <3> QED BY <3>1, <3>2
    <2>2. \A g \in TelFleets, h \in Tel!Hours : mDir[g][h].has => mDir'[g][h].has
      <3>1. SUFFICES ASSUME NEW g \in TelFleets, NEW h \in Tel!Hours, mDir[g][h].has PROVE mDir'[g][h].has OBVIOUS
      <3>2. ~(g = f /\ h = H) BY <1>12, <3>1
      <3>3. mDir'[g][h] = mDir[g][h] BY <1>7, <3>2
      <3> QED BY <3>1, <3>3
    <2>3. mTick.hour \in Tel!Hours BY TelTickFields
    <2>4. mTick'.at = "fold" => mTick'.fleet \in TelFleets /\ mDir'[mTick'.fleet][mTick'.hour].has
      BY <1>0, <2>2, <2>3 DEF Tel!CountInv, Tel!Compacted
    <2> QED BY <1>0, <2>1, <2>4 DEF Tel!Compacted, Tel!Hour
  <1>19. Tel!Marks' BY <1>0, <1>2, TelKeepMarks DEF Tel!CountInv
  <1>20. ASSUME NEW g \in TelFleets, mMark[g] # -1, NEW t \in mLanded'[g], t < mMark[g]
         PROVE  t \in mLanded[g]
    <2>1. SUFFICES ASSUME t \notin mLanded[g] PROVE FALSE OBVIOUS
    <2>2. t \in B BY <1>9, <2>1
    <2>3. t \in Nat /\ mNow <= t + 1 BY <1>10, <2>2
    <2>4. mMark[g] + TelLag <= mNow BY <1>20 DEF Tel!CountInv, Tel!Marks
    <2>5. mMark[g] \in Int /\ TelLag \in Nat /\ TelLag >= 1 BY TelNums
    <2> QED BY <1>2, <1>20, <2>3, <2>4, <2>5
  <1>21. Tel!Scans'
    <2>1. ASSUME NEW w \in mTick.todo PROVE Tel!Pending(w)'
      <3>1. w \in Tel!Works /\ Tel!Pending(w) BY TelTickFields DEF Tel!CountInv, Tel!Scans
      <3>2. w.fleet \in TelFleets /\ w.chunk[2] \in Nat /\ w.chunk[2] + TelLag <= mNow
        BY <3>1, TelWorkL
      <3>3. ASSUME NEW t \in mLanded'[w.fleet], Tel!InWindow(w.chunk, t)
            PROVE  t \in mLanded[w.fleet]
        <4>1. SUFFICES ASSUME t \notin mLanded[w.fleet] PROVE FALSE OBVIOUS
        <4>2. t \in B BY <1>9, <3>2, <4>1
        <4>3. t \in Nat /\ mNow <= t + 1 BY <1>10, <4>2
        <4>4. t < w.chunk[2] BY <3>3 DEF Tel!InWindow
        <4>5. TelLag \in Nat /\ TelLag >= 1 BY TelNums
        <4> QED BY <1>2, <3>2, <4>3, <4>4, <4>5
      <3>4. mLanded[w.fleet] \subseteq mLanded'[w.fleet] BY <1>9, <3>2
      <3>5. /\ \A e \in w.rows : e[3] \in mLanded'[w.fleet] /\ Tel!InWindow(w.chunk, e[3])
            /\ \A t \in mLanded'[w.fleet] : Tel!InWindow(w.chunk, t) => \E e \in w.rows : e[3] = t
        BY <3>1, <3>3, <3>4 DEF Tel!Pending
      <3> QED BY <1>0, <3>1, <3>5 DEF Tel!Pending, Tel!InWindow, Tel!FloorHour, Tel!Hour
    <2> QED BY <1>0, <2>1 DEF Tel!CountInv, Tel!Scans
  <1>22. Tel!NoPhantoms'
    <2>1. \A g \in TelFleets : mLanded[g] \subseteq mLanded'[g] BY <1>9
    <2> QED BY <1>0, <2>1 DEF Tel!CountInv, Tel!NoPhantoms, Tel!Hour
  <1>23. Tel!CountedOnce'
    <2>0. \A g \in TelFleets : mLanded[g] \subseteq mLanded'[g] BY <1>9
    <2>1. ASSUME NEW g \in TelFleets, NEW t \in mFrom[g] .. mMark[g] - 1
          PROVE  mCount[g][t] = IF t \in mLanded'[g] THEN 1 ELSE 0
      <3>1. mFrom[g] \in Nat /\ mMark[g] \in Int BY TelNums
      <3>2. mMark[g] # -1 /\ t < mMark[g] BY <3>1
      <3>3. t \in mLanded'[g] <=> t \in mLanded[g] BY <1>20, <2>0, <3>2
      <3> QED BY <3>3 DEF Tel!CountInv, Tel!CountedOnce
    <2>2. ASSUME NEW g \in TelFleets, NEW h \in Tel!Hours, mFrom[g] <= h * TelHourLen,
                 (h + 1) * TelHourLen <= mMark[g]
          PROVE  mStat[g][h] = Cardinality({t \in mLanded'[g] : Tel!Hour(t) = h})
      <3>1. mFrom[g] \in Nat /\ mMark[g] \in Int /\ TelHourLen \in Nat BY TelNums
      <3>2. h \in Nat BY TelTimesL
      <3>3. h * TelHourLen \in Nat /\ (h + 1) * TelHourLen = h * TelHourLen + TelHourLen
        BY <3>2, <1>2, TelAtHour
      <3>4. mMark[g] # -1 BY <2>2, <3>1, <3>3
      <3>5. ASSUME NEW t \in mLanded'[g], Tel!Hour(t) = h PROVE t \in mLanded[g]
        <4>0. mLanded'[g] \subseteq Tel!Times BY <1>8 DEF Tel!TypeOK, Tel!Times
        <4>1. t \in Nat BY <4>0, TelTimesL
        <4>2. t < h * TelHourLen + TelHourLen BY <3>2, <3>5, <4>1, TelAtHour
        <4>3. t < mMark[g] BY <2>2, <3>1, <3>3, <4>1, <4>2
        <4> QED BY <1>20, <3>4, <4>3
      <3>6. {t \in mLanded'[g] : Tel!Hour(t) = h} = {t \in mLanded[g] : Tel!Hour(t) = h}
        BY <2>0, <3>5
      <3> QED BY <2>2, <3>6, TelCardL DEF Tel!CountInv, Tel!CountedOnce
    <2> QED BY <1>0, <2>1, <2>2, TelCardL DEF Tel!CountedOnce, Tel!Hour
  <1> QED BY <1>8, <1>11, <1>17, <1>18, <1>19, <1>21, <1>22, <1>23 DEF Tel!CountInv

(* A seal is an hour. *)
LEMMA TelSealL == ASSUME Tel!TypeOK, NEW f \in TelFleets, NEW h \in Tel!Hours, Tel!Seal(f, h)
               PROVE  mSealed' \in [TelFleets -> Tel!Hours \cup {-1}]
  BY DEF Tel!TypeOK, Tel!Seal

(* A step that only moves spans between files keeps the invariant. *)
LEMMA TelKeepMost ==
  ASSUME Tel!Bounds, Tel!TypeOK, Tel!CountInv, UNCHANGED <<mNow, mLive, mBuf, mLanded, mCount, mStat, mMark, mFrom, mMem, mReplay>>,
         mTick'.todo = mTick.todo, Tel!InOneFile', Tel!Compacted'
  PROVE  Tel!CountInv'
  <1>1. mNow \in Nat BY TelNums
  <1>2. Tel!Fresh' BY DEF Tel!CountInv, Tel!Fresh
  <1>3. Tel!Marks' BY <1>1, TelKeepMarks DEF Tel!CountInv
  <1>4. Tel!Scans' BY <1>1, TelKeepScans DEF Tel!CountInv
  <1>5. Tel!NoPhantoms' /\ Tel!CountedOnce' BY TelKeepCounts DEF Tel!CountInv
  <1> QED BY <1>2, <1>3, <1>4, <1>5 DEF Tel!CountInv

(* Copying an hour's files into one leaves every span in one canonical file. *)
LEMMA TelCopyL ==
  ASSUME Tel!Bounds, Tel!TypeOK, Tel!CountInv, NEW f \in TelFleets, NEW h \in Tel!Hours, h < Tel!Hour(mNow),
         mDir' = [mDir EXCEPT ![f][h] = [has |-> TRUE, comp |-> UNION (@.src \cup {@.comp}), src |-> @.src]],
         UNCHANGED <<mNow, mLanded>>, mTick'.fleet = f, mTick'.hour = h
  PROVE  mDir' \in [TelFleets -> [Tel!Hours -> Tel!Dirs]] /\ Tel!InOneFile' /\ Tel!Compacted'
  <1>a. PICK D \in Tel!Dirs : D = mDir[f][h] BY DEF Tel!TypeOK
  <1>b. PICK U \in SUBSET Tel!Times : U = UNION (D.src \cup {D.comp}) BY DEF Tel!Dirs
  <1> DEFINE dir == [has |-> TRUE, comp |-> U, src |-> D.src]
  <1>1. mDir \in [TelFleets -> [Tel!Hours -> Tel!Dirs]] /\ mDir[f] \in [Tel!Hours -> Tel!Dirs]
    BY DEF Tel!TypeOK
  <1>2. mDir' = [mDir EXCEPT ![f] = [mDir[f] EXCEPT ![h] = dir]] BY <1>a, <1>b, <1>1
  <1>3. dir \in Tel!Dirs /\ dir.has /\ dir.comp = U /\ dir.src = D.src
    <2>1. D.src \in SUBSET SUBSET Tel!Times /\ TRUE \in BOOLEAN BY DEF Tel!Dirs
    <2> QED BY <2>1 DEF Tel!Dirs
  <1>c. dir \in Tel!Dirs BY <1>3
  <1> HIDE DEF dir
  <1>4. mDir' \in [TelFleets -> [Tel!Hours -> Tel!Dirs]]
    <2> DEFINE row == [mDir[f] EXCEPT ![h] = dir]
    <2>1. row \in [Tel!Hours -> Tel!Dirs] BY <1>1, <1>c, Zenon
    <2>2. mDir' = [mDir EXCEPT ![f] = row] BY <1>2, Zenon
    <2> HIDE DEF row
    <2> QED BY <1>1, <2>1, <2>2, Zenon
  <1>5. /\ mDir'[f][h] = dir /\ \A g \in Tel!Hours \ {h} : mDir'[f][g] = mDir[f][g]
        /\ \A g \in TelFleets \ {f} : mDir'[g] = mDir[g]
    BY <1>1, <1>2
  <1>6. IF D.has THEN \A s \in D.src : s \subseteq D.comp ELSE D.comp = {}
    BY <1>a DEF Tel!CountInv, Tel!Compacted
  <1>7. Tel!CanonicalFiles(f, h)' = {U} BY <1>3, <1>5 DEF Tel!CanonicalFiles
  <1>8. \A t : t \in U <=> \E s \in Tel!CanonicalFiles(f, h) : t \in s
    BY <1>a, <1>b, <1>6 DEF Tel!CanonicalFiles
  <1>9. \A g \in Tel!Hours \ {h} : Tel!CanonicalFiles(f, g)' = Tel!CanonicalFiles(f, g)
    BY <1>5 DEF Tel!CanonicalFiles
  <1>10. \A g \in TelFleets \ {f} : \A k \in Tel!Hours : Tel!CanonicalFiles(g, k)' = Tel!CanonicalFiles(g, k)
    BY <1>5 DEF Tel!CanonicalFiles
  <1>11. \A e : e \in Tel!Files(f)' <=> e = <<h, U>> \/ (e \in Tel!Files(f) /\ e[1] # h)
    <2>1. ASSUME NEW e, e \in Tel!Files(f)'
          PROVE  e = <<h, U>> \/ (e \in Tel!Files(f) /\ e[1] # h)
      <3>1. e \in Tel!Hours \X (SUBSET Tel!Times) /\ e[2] \in Tel!CanonicalFiles(f, e[1])' /\
            e = <<e[1], e[2]>>
        BY <2>1 DEF Tel!Files
      <3>2. CASE e[1] # h BY <1>9, <3>1, <3>2 DEF Tel!Files
      <3>3. CASE e[1] = h
        <4>1. e[2] = U BY <1>7, <3>1, <3>3
        <4> QED BY <3>1, <3>3, <4>1
      <3> QED BY <3>2, <3>3
    <2>2. ASSUME NEW e, e \in Tel!Files(f), e[1] # h PROVE e \in Tel!Files(f)'
      <3>1. e \in Tel!Hours \X (SUBSET Tel!Times) /\ e[2] \in Tel!CanonicalFiles(f, e[1])
        BY <2>2 DEF Tel!Files
      <3>2. e[2] \in Tel!CanonicalFiles(f, e[1])' BY <1>9, <2>2, <3>1
      <3> QED BY <3>1, <3>2 DEF Tel!Files
    <2>3. <<h, U>> \in Tel!Files(f)' BY <1>7 DEF Tel!Files
    <2> QED BY <2>1, <2>2, <2>3
  <1>12. \A t : t \in U <=> \E e \in Tel!Files(f) : e[1] = h /\ t \in e[2]
    <2>1. ASSUME NEW t, NEW s \in Tel!CanonicalFiles(f, h), t \in s
          PROVE  \E e \in Tel!Files(f) : e[1] = h /\ t \in e[2]
      <3>1. s \in SUBSET Tel!Times
        <4>1. Tel!CanonicalFiles(f, h) \subseteq SUBSET Tel!Times
          BY <1>a DEF Tel!CanonicalFiles, Tel!Dirs
        <4> QED BY <4>1
      <3>2. <<h, s>> \in Tel!Files(f) /\ <<h, s>>[1] = h /\ t \in <<h, s>>[2]
        BY <2>1, <3>1 DEF Tel!Files
      <3> QED BY <3>2
    <2>2. ASSUME NEW t, NEW e \in Tel!Files(f), e[1] = h, t \in e[2]
          PROVE  \E s \in Tel!CanonicalFiles(f, h) : t \in s
      BY <2>2 DEF Tel!Files
    <2> QED BY <1>8, <2>1, <2>2
  <1>13. Tel!InOneFile'
    <2>1. ASSUME NEW g \in TelFleets \ {f}
          PROVE  Tel!Files(g)' = Tel!Files(g) BY <1>10 DEF Tel!Files
    <2>2. Tel!InOneFile BY DEF Tel!CountInv
    <2>3. ASSUME NEW g \in TelFleets, NEW t \in Tel!Times
          PROVE  /\ t \in mLanded[g] <=> \E e \in Tel!Files(g)' : t \in e[2]
                 /\ \A d, e \in Tel!Files(g)' : t \in d[2] /\ t \in e[2] => d = e
                 /\ \A e \in Tel!Files(g)' : t \in e[2] => Tel!Hour(t) <= e[1] /\ e[1] <= Tel!Hour(t + 1)
      <3>0. /\ t \in mLanded[g] <=> \E e \in Tel!Files(g) : t \in e[2]
            /\ \A d, e \in Tel!Files(g) : t \in d[2] /\ t \in e[2] => d = e
            /\ \A e \in Tel!Files(g) : t \in e[2] => Tel!Hour(t) <= e[1] /\ e[1] <= Tel!Hour(t + 1)
        BY <2>2 DEF Tel!InOneFile
      <3>1. CASE g # f BY <2>1, <3>0, <3>1
      <3>2. CASE g = f
        <4>0. <<h, U>>[1] = h /\ <<h, U>>[2] = U OBVIOUS
        <4>1. CASE t \in U
          <5>1. PICK d \in Tel!Files(f) : d[1] = h /\ t \in d[2] BY <1>12, <4>1
          <5>2. \A e \in Tel!Files(f) : t \in e[2] => e[1] = h BY <3>0, <3>2, <5>1
          <5>3. \A e \in Tel!Files(f)' : t \in e[2] => e = <<h, U>> BY <1>11, <5>2
          <5>4. <<h, U>> \in Tel!Files(f)' BY <1>11
          <5>5. t \in mLanded[f] /\ Tel!Hour(t) <= h /\ h <= Tel!Hour(t + 1) BY <3>0, <3>2, <5>1
          <5> QED BY <3>2, <4>0, <4>1, <5>3, <5>4, <5>5
        <4>2. CASE t \notin U
          <5>1. \A e \in Tel!Files(f) : t \in e[2] => e[1] # h BY <1>12, <4>2
          <5>2. \A e : e \in Tel!Files(f)' /\ t \in e[2] <=> e \in Tel!Files(f) /\ t \in e[2]
            BY <1>11, <4>0, <4>2, <5>1
          <5> QED BY <3>0, <3>2, <5>2
        <4> QED BY <4>1, <4>2
      <3> QED BY <3>1, <3>2
    <2>4. \A t : Tel!Hour(t)' = Tel!Hour(t) BY DEF Tel!Hour
    <2> QED BY <2>3, <2>4 DEF Tel!InOneFile
  <1>14. Tel!Compacted'
    <2>1. ASSUME NEW g \in TelFleets, NEW k \in Tel!Hours
          PROVE  IF mDir'[g][k].has THEN k < Tel!Hour(mNow) /\ \A s \in mDir'[g][k].src : s \subseteq mDir'[g][k].comp
                 ELSE mDir'[g][k].comp = {}
      <3>1. CASE g = f /\ k = h
        <4>1. mDir'[g][k] = dir BY <1>5, <3>1
        <4>2. \A s \in D.src : s \subseteq U BY <1>b
        <4> QED BY <1>3, <3>1, <4>1, <4>2
      <3>2. CASE ~(g = f /\ k = h)
        <4>1. mDir'[g][k] = mDir[g][k] BY <1>5, <3>2
        <4> QED BY <4>1 DEF Tel!CountInv, Tel!Compacted
      <3> QED BY <3>1, <3>2
    <2>2. mDir'[mTick'.fleet][mTick'.hour].has BY <1>3, <1>5
    <2> QED BY <2>1, <2>2 DEF Tel!Compacted, Tel!Hour
  <1> QED BY <1>4, <1>13, <1>14

(* The copy of a compaction keeps the invariant. *)
LEMMA TelCompactCopyL ==
  ASSUME Tel!Bounds, Tel!TypeOK, Tel!CountInv, NEW f \in TelFleets, NEW h \in Tel!Hours,
         Tel!CompactCopy(f, h)
                      PROVE  Tel!TypeOK' /\ Tel!CountInv'
  <1>0. UNCHANGED <<mNow, mLive, mBuf, mLanded, mCount, mStat, mMark, mFrom, mMem, mReplay>> /\
        mTick.at = "compact"
    BY DEF Tel!CompactCopy
  <1>1. h < Tel!Hour(mNow) BY DEF Tel!CompactCopy, Tel!Uncompacted
  <1>2. mTick \in Tel!Ticks BY DEF Tel!TypeOK
  <1>3. CASE /\ mDir' = [mDir EXCEPT ![f][h] = [has |-> TRUE, comp |-> UNION (@.src \cup {@.comp}), src |-> @.src]]
             /\ mTick' = [mTick EXCEPT !.at = "fold", !.fleet = f, !.hour = h]
             /\ UNCHANGED <<mSealed, mLeft>>
    <2>1. mTick' \in Tel!Ticks /\ mTick'.fleet = f /\ mTick'.hour = h /\ mTick'.todo = mTick.todo
      BY <1>2, <1>3 DEF Tel!Ticks
    <2>2. mDir' \in [TelFleets -> [Tel!Hours -> Tel!Dirs]] /\ Tel!InOneFile' /\ Tel!Compacted'
      BY <1>0, <1>1, <1>3, <2>1, TelCopyL
    <2>3. Tel!TypeOK' BY <1>0, <1>3, <2>1, <2>2 DEF Tel!TypeOK
    <2>4. Tel!CountInv' BY <1>0, <2>1, <2>2, TelKeepMost
    <2> QED BY <2>3, <2>4
  <1>4. CASE /\ Tel!Faulty /\ Tel!Fault /\ mTick' = [mTick EXCEPT !.tried = @ \cup {<<f, h>>}]
             /\ UNCHANGED <<mDir, mSealed>>
    <2>1. mTick' \in Tel!Ticks /\ mTick'.at = "compact" /\ mTick'.todo = mTick.todo
      BY <1>0, <1>2, <1>4 DEF Tel!Ticks
    <2>2. mLeft' \in [spans : 0 .. TelMaxSpans, faults : 0 .. TelMaxFaults] BY <1>4, TelFaultL
    <2>3. Tel!TypeOK' BY <1>0, <1>4, <2>1, <2>2 DEF Tel!TypeOK
    <2>4. mNow \in Nat BY TelNums
    <2>5. Tel!Marks' BY <1>0, <2>4, TelKeepMarks DEF Tel!CountInv
    <2>6. Tel!CountInv' BY <1>0, <1>4, <2>1, <2>5, TelKeepRest
    <2> QED BY <2>3, <2>6
  <1>5. CASE Tel!Seal(f, h) /\ UNCHANGED <<mDir, mTick, mLeft>>
    <2>1. mSealed' \in [TelFleets -> Tel!Hours \cup {-1}] BY <1>5, TelSealL
    <2>3. Tel!TypeOK' BY <1>0, <1>5, <2>1 DEF Tel!TypeOK
    <2>4. mNow \in Nat BY TelNums
    <2>5. Tel!Marks' BY <1>0, <2>4, TelKeepMarks DEF Tel!CountInv
    <2>6. Tel!CountInv' BY <1>0, <1>5, <2>5, TelKeepRest
    <2> QED BY <2>3, <2>6
  <1> QED BY <1>3, <1>4, <1>5 DEF Tel!CompactCopy

(* Deleting copied files leaves every span in one canonical file. *)
LEMMA TelDeleteL ==
  ASSUME Tel!Bounds, Tel!TypeOK, Tel!CountInv, NEW f \in TelFleets, NEW h \in Tel!Hours, mDir[f][h].has, NEW kept \in SUBSET mDir[f][h].src,
         mDir' = [mDir EXCEPT ![f][h].src = kept], UNCHANGED <<mNow, mLanded>>, mTick'.at = "compact"
  PROVE  mDir' \in [TelFleets -> [Tel!Hours -> Tel!Dirs]] /\ Tel!InOneFile' /\ Tel!Compacted'
  <1>a. PICK D \in Tel!Dirs : D = mDir[f][h] BY DEF Tel!TypeOK
  <1>b. PICK K \in SUBSET D.src : K = kept BY <1>a
  <1> DEFINE dir == [D EXCEPT !.src = K]
  <1>1. mDir \in [TelFleets -> [Tel!Hours -> Tel!Dirs]] /\ mDir[f] \in [Tel!Hours -> Tel!Dirs]
    BY DEF Tel!TypeOK
  <1>2. mDir' = [mDir EXCEPT ![f] = [mDir[f] EXCEPT ![h] = dir]] BY <1>a, <1>b, <1>1
  <1>3. dir \in Tel!Dirs /\ dir.has = D.has /\ dir.comp = D.comp /\ dir.src \subseteq D.src
    BY DEF Tel!Dirs
  <1> HIDE DEF dir
  <1>4. mDir' \in [TelFleets -> [Tel!Hours -> Tel!Dirs]] BY <1>1, <1>2, <1>3
  <1>5. /\ mDir'[f][h] = dir /\ \A g \in Tel!Hours \ {h} : mDir'[f][g] = mDir[f][g]
        /\ \A g \in TelFleets \ {f} : mDir'[g] = mDir[g]
    BY <1>1, <1>2
  <1>6. ASSUME NEW g \in TelFleets, NEW k \in Tel!Hours
        PROVE  Tel!CanonicalFiles(g, k)' = Tel!CanonicalFiles(g, k)
    <2>1. CASE g = f /\ k = h
      <3>1. mDir'[g][k].has = mDir[g][k].has /\ mDir[g][k].has /\ mDir'[g][k].comp = mDir[g][k].comp
        BY <1>a, <1>3, <1>5, <2>1
      <3> QED BY <3>1 DEF Tel!CanonicalFiles
    <2>2. CASE ~(g = f /\ k = h)
      <3>1. mDir'[g][k] = mDir[g][k] BY <1>5, <2>2
      <3> QED BY <3>1 DEF Tel!CanonicalFiles
    <2> QED BY <2>1, <2>2
  <1>7. Tel!InOneFile' BY <1>6, TelKeepFiles DEF Tel!CountInv
  <1>8. Tel!Compacted'
    <2>1. ASSUME NEW g \in TelFleets, NEW k \in Tel!Hours
          PROVE  IF mDir'[g][k].has THEN k < Tel!Hour(mNow) /\ \A s \in mDir'[g][k].src : s \subseteq mDir'[g][k].comp
                 ELSE mDir'[g][k].comp = {}
      <3>1. CASE g = f /\ k = h
        <4>1. mDir'[g][k] = dir BY <1>5, <3>1
        <4>2. IF D.has THEN h < Tel!Hour(mNow) /\ \A s \in D.src : s \subseteq D.comp ELSE D.comp = {}
          BY <1>a DEF Tel!CountInv, Tel!Compacted
        <4>3. D.has BY <1>a
        <4> QED BY <1>3, <3>1, <4>1, <4>2, <4>3
      <3>2. CASE ~(g = f /\ k = h)
        <4>1. mDir'[g][k] = mDir[g][k] BY <1>5, <3>2
        <4> QED BY <4>1 DEF Tel!CountInv, Tel!Compacted
      <3> QED BY <3>1, <3>2
    <2> QED BY <2>1 DEF Tel!Compacted, Tel!Hour
  <1> QED BY <1>4, <1>7, <1>8

(* The delete of a compaction keeps the invariant. *)
LEMMA TelCompactDeleteL ==
  ASSUME Tel!Bounds, Tel!TypeOK, Tel!CountInv, Tel!CompactDelete
  PROVE  Tel!TypeOK' /\ Tel!CountInv'
  <1>0. UNCHANGED <<mNow, mLive, mBuf, mLanded, mCount, mStat, mMark, mFrom, mMem, mReplay>> /\
        mTick.at = "fold"
    BY DEF Tel!CompactDelete
  <1>1. PICK f \in TelFleets : f = mTick.fleet BY <1>0 DEF Tel!CountInv, Tel!Compacted
  <1>2. PICK h \in Tel!Hours : h = mTick.hour BY TelTickFields
  <1>3. mDir[f][h].has BY <1>0, <1>1, <1>2 DEF Tel!CountInv, Tel!Compacted
  <1>4. mTick \in Tel!Ticks BY DEF Tel!TypeOK
  <1>5. CASE /\ mDir' = [mDir EXCEPT ![f][h].src = {}] /\ Tel!Seal(f, h)
             /\ mTick' = [mTick EXCEPT !.at = "compact"]
             /\ UNCHANGED mLeft
    <2>1. mTick' \in Tel!Ticks /\ mTick'.at = "compact" /\ mTick'.todo = mTick.todo
      BY <1>4, <1>5 DEF Tel!Ticks
    <2>2. {} \in SUBSET mDir[f][h].src OBVIOUS
    <2>3. mDir' \in [TelFleets -> [Tel!Hours -> Tel!Dirs]] /\ Tel!InOneFile' /\ Tel!Compacted'
      BY <1>0, <1>3, <1>5, <2>1, <2>2, TelDeleteL
    <2>4. mSealed' \in [TelFleets -> Tel!Hours \cup {-1}] BY <1>5, TelSealL
    <2>5. Tel!TypeOK' BY <1>0, <1>5, <2>1, <2>3, <2>4 DEF Tel!TypeOK
    <2>6. Tel!CountInv' BY <1>0, <2>1, <2>3, TelKeepMost
    <2> QED BY <2>5, <2>6
  <1>6. CASE /\ Tel!Faulty /\ Tel!Fault
             /\ \E kept \in SUBSET mDir[f][h].src : mDir' = [mDir EXCEPT ![f][h].src = kept]
             /\ mTick' = [mTick EXCEPT !.at = "compact", !.tried = @ \cup {<<f, h>>}]
             /\ UNCHANGED mSealed
    <2>a. mTick' = [mTick EXCEPT !.at = "compact", !.tried = @ \cup {<<f, h>>}] BY <1>6
    <2>b. mTick.tried \cup {<<f, h>>} \subseteq TelFleets \X Tel!Hours BY TelTickFields
    <2>1. mTick' \in Tel!Ticks /\ mTick'.at = "compact" /\ mTick'.todo = mTick.todo
      BY <1>4, <2>a, <2>b DEF Tel!Ticks
    <2>2. PICK kept \in SUBSET mDir[f][h].src : mDir' = [mDir EXCEPT ![f][h].src = kept] BY <1>6
    <2>3. mDir' \in [TelFleets -> [Tel!Hours -> Tel!Dirs]] /\ Tel!InOneFile' /\ Tel!Compacted'
      BY <1>0, <1>3, <2>1, <2>2, TelDeleteL
    <2>4. mLeft' \in [spans : 0 .. TelMaxSpans, faults : 0 .. TelMaxFaults] BY <1>6, TelFaultL
    <2>5. Tel!TypeOK' BY <1>0, <1>6, <2>1, <2>3, <2>4 DEF Tel!TypeOK
    <2>6. Tel!CountInv' BY <1>0, <2>1, <2>3, TelKeepMost
    <2> QED BY <2>5, <2>6
  <1> QED BY <1>1, <1>2, <1>5, <1>6 DEF Tel!CompactDelete

(* What replacing the counts of some minutes does. *)
LEMMA TelReplacedL ==
  ASSUME Tel!Bounds, Tel!TypeOK, NEW w \in Tel!Works, Tel!Pending(w), NEW M \in SUBSET Tel!Minutes(w), mCount' = Tel!Replaced(w, M)
  PROVE  /\ mCount' \in [TelFleets -> [Tel!Times -> Nat]]
         /\ \A t \in Tel!Times : mCount'[w.fleet][t] = IF t \in M THEN 1 ELSE mCount[w.fleet][t]
         /\ \A g \in TelFleets \ {w.fleet} : mCount'[g] = mCount[g]
  <1>1. w.fleet \in TelFleets BY TelWorkL
  <1>2. mCount \in [TelFleets -> [Tel!Times -> Nat]] /\ mCount[w.fleet] \in [Tel!Times -> Nat]
    BY <1>1 DEF Tel!TypeOK
  <1>3. \A t \in M : Tel!InMinute(w, t) = 1 BY TelOneRow
  <1> DEFINE R == [t \in Tel!Times |-> IF t \in M THEN Tel!InMinute(w, t) ELSE mCount[w.fleet][t]]
  <1>4. mCount' = [mCount EXCEPT ![w.fleet] = R] BY DEF Tel!Replaced
  <1>5. \A t \in Tel!Times : R[t] = IF t \in M THEN 1 ELSE mCount[w.fleet][t] BY <1>3
  <1>6. R \in [Tel!Times -> Nat] BY <1>2, <1>3
  <1> HIDE DEF R
  <1> QED BY <1>1, <1>2, <1>4, <1>5, <1>6

(* What replacing the counts of hours does. *)
LEMMA TelReplacedStatL ==
  ASSUME Tel!Bounds, Tel!TypeOK, NEW w \in Tel!Works, Tel!Pending(w), mStat' = Tel!ReplacedStat(w)
  PROVE  /\ mStat' \in [TelFleets -> [Tel!Hours -> Nat]]
         /\ \A h \in Tel!Hours : mStat'[w.fleet][h] = IF Tel!InHour(w, h) # 0 THEN Tel!InHour(w, h) ELSE mStat[w.fleet][h]
         /\ \A g \in TelFleets \ {w.fleet} : mStat'[g] = mStat[g]
  <1>1. w.fleet \in TelFleets BY TelWorkL
  <1>2. mStat \in [TelFleets -> [Tel!Hours -> Nat]] /\ mStat[w.fleet] \in [Tel!Hours -> Nat]
    BY <1>1 DEF Tel!TypeOK
  <1>3. \A h \in Tel!Hours : Tel!InHour(w, h) \in Nat BY TelHourRows
  <1> DEFINE R == [h \in Tel!Hours |-> IF Tel!InHour(w, h) # 0 THEN Tel!InHour(w, h) ELSE mStat[w.fleet][h]]
  <1>4. mStat' = [mStat EXCEPT ![w.fleet] = R] BY DEF Tel!ReplacedStat
  <1>5. \A h \in Tel!Hours : R[h] = IF Tel!InHour(w, h) # 0 THEN Tel!InHour(w, h) ELSE mStat[w.fleet][h] OBVIOUS
  <1>6. R \in [Tel!Hours -> Nat] BY <1>2, <1>3
  <1> HIDE DEF R
  <1> QED BY <1>1, <1>2, <1>4, <1>5, <1>6

(* A commit counts nothing that has not landed, wherever it stops. *)
LEMMA TelPhantomsL ==
  ASSUME Tel!Bounds, Tel!TypeOK, Tel!CountInv, NEW w \in Tel!Works, Tel!Pending(w), NEW M \in SUBSET Tel!Minutes(w), mCount' = Tel!Replaced(w, M),
         mStat' = Tel!ReplacedStat(w) \/ mStat' = mStat, UNCHANGED mLanded
  PROVE  Tel!NoPhantoms'
  <1>1. w.fleet \in TelFleets BY TelWorkL
  <1>2. /\ \A t \in Tel!Times : mCount'[w.fleet][t] = IF t \in M THEN 1 ELSE mCount[w.fleet][t]
        /\ \A g \in TelFleets \ {w.fleet} : mCount'[g] = mCount[g]
    BY TelReplacedL
  <1>3. \A t \in M : t \in mLanded[w.fleet] BY TelOneRow
  <1>4. Tel!NoPhantoms BY DEF Tel!CountInv
  <1>5. ASSUME NEW g \in TelFleets, NEW t \in Tel!Times, mCount'[g][t] # 0
        PROVE  mCount'[g][t] = 1 /\ t \in mLanded[g]
    <2>1. CASE g = w.fleet /\ t \in M BY <1>2, <1>3, <2>1
    <2>2. CASE ~(g = w.fleet /\ t \in M)
      <3>1. mCount'[g][t] = mCount[g][t] BY <1>2, <2>2
      <3> QED BY <1>4, <1>5, <3>1 DEF Tel!NoPhantoms
    <2> QED BY <2>1, <2>2
  <1>6. ASSUME NEW g \in TelFleets, NEW h \in Tel!Hours, mStat'[g][h] # 0
        PROVE  \E t \in mLanded[g] : Tel!Hour(t) = h
    <2>1. CASE mStat'[g][h] = mStat[g][h] BY <1>4, <1>6, <2>1 DEF Tel!NoPhantoms
    <2>2. CASE mStat'[g][h] # mStat[g][h]
      <3>1. mStat' = Tel!ReplacedStat(w) BY <2>2
      <3>2. g = w.fleet /\ Tel!InHour(w, h) # 0 BY <2>2, <3>1, TelReplacedStatL
      <3> QED BY <3>2, TelHourRows
    <2> QED BY <2>1, <2>2
  <1> QED BY <1>5, <1>6 DEF Tel!NoPhantoms, Tel!Hour

(* A commit that fails half-way keeps the invariant. *)
LEMMA TelCommitFailsL ==
  ASSUME Tel!Bounds, Tel!TypeOK, Tel!CountInv, NEW w \in mTick.todo, Tel!CommitFails(w)
  PROVE  Tel!TypeOK' /\ Tel!CountInv'
  <1>0. /\ UNCHANGED <<mNow, mLive, mBuf, mDir, mLanded, mMark, mFrom, mMem, mSealed, mReplay>>
        /\ mTick.at = "commit"
        /\ Tel!Faulty /\ Tel!Fault
        /\ mTick' = [mTick EXCEPT !.todo = @ \ {w}, !.held = @ \cup {<<w.fleet, w.chunk[1]>>}]
    BY DEF Tel!CommitFails
  <1>1. w \in Tel!Works /\ Tel!Pending(w) BY TelTickFields DEF Tel!CountInv, Tel!Scans
  <1>2. /\ w.fleet \in TelFleets /\ w.chunk[1] \in Tel!Times /\ w.chunk[1] \in Nat /\ w.chunk[2] \in Nat
        /\ w.chunk[2] <= w.chunk[1] + TelHourLen
        /\ w.chunk[2] = w.chunk[1] + TelHourLen \/ mMark[w.fleet] <= w.chunk[2]
    BY <1>1, TelWorkL
  <1>3. PICK M \in SUBSET Tel!Minutes(w) : mCount' = Tel!Replaced(w, M) BY DEF Tel!CommitFails
  <1>4. mStat' = Tel!ReplacedStat(w) \/ mStat' = mStat BY DEF Tel!CommitFails
  <1>5. mTick \in Tel!Ticks BY DEF Tel!TypeOK
  <1>6. mTick' \in Tel!Ticks /\ mTick'.at = "commit" /\ mTick'.todo \subseteq mTick.todo
    <2>1. mTick.held \cup {<<w.fleet, w.chunk[1]>>} \subseteq TelFleets \X Tel!Times
      <3>1. <<w.fleet, w.chunk[1]>> \in TelFleets \X Tel!Times BY <1>2
      <3> QED BY <3>1, TelTickFields
    <2>2. mTick' = [mTick EXCEPT !.todo = @ \ {w}, !.held = @ \cup {<<w.fleet, w.chunk[1]>>}]
      BY <1>0
    <2>3. mTick.todo \ {w} \subseteq Tel!Works BY TelTickFields
    <2> QED BY <1>0, <1>5, <2>1, <2>2, <2>3, ZenonT(40) DEF Tel!Ticks
  <1>7. mLeft' \in [spans : 0 .. TelMaxSpans, faults : 0 .. TelMaxFaults] BY <1>0, TelFaultL
  <1>8. mCount' \in [TelFleets -> [Tel!Times -> Nat]] BY <1>1, <1>3, TelReplacedL
  <1>9. mStat' \in [TelFleets -> [Tel!Hours -> Nat]]
    <2>1. CASE mStat' = Tel!ReplacedStat(w) BY <1>1, <2>1, TelReplacedStatL
    <2>2. CASE mStat' = mStat BY <2>2 DEF Tel!TypeOK
    <2> QED BY <1>4, <2>1, <2>2
  <1>10. Tel!TypeOK' BY <1>0, <1>6, <1>7, <1>8, <1>9 DEF Tel!TypeOK
  <1>11. mNow \in Nat BY TelNums
  <1>12. Tel!Fresh' BY <1>0 DEF Tel!CountInv, Tel!Fresh
  <1>13. Tel!InOneFile' BY <1>0, TelKeepFiles DEF Tel!CountInv, Tel!CanonicalFiles
  <1>14. Tel!Compacted' BY <1>0, <1>6 DEF Tel!CountInv, Tel!Compacted, Tel!Hour
  <1>15. Tel!Marks' BY <1>0, <1>11, TelKeepMarks DEF Tel!CountInv
  <1>16. Tel!Scans' BY <1>0, <1>6, <1>11, TelKeepScans DEF Tel!CountInv
  <1>17. Tel!NoPhantoms' BY <1>0, <1>1, <1>3, <1>4, TelPhantomsL
  <1>18. ASSUME NEW g \in TelFleets, NEW t \in mFrom[g] .. mMark[g] - 1
         PROVE  mCount'[g][t] = IF t \in mLanded[g] THEN 1 ELSE 0
    <2>1. mCount[g][t] = IF t \in mLanded[g] THEN 1 ELSE 0 BY DEF Tel!CountInv, Tel!CountedOnce
    <2>2. t \in Tel!Times
      <3>1. mFrom[g] \in Nat /\ mMark[g] \in Int /\ mMark[g] <= TelMaxTime /\ TelMaxTime \in Nat
        BY TelNums
      <3> QED BY <3>1 DEF Tel!Times
    <2>3. /\ \A u \in Tel!Times : mCount'[w.fleet][u] = IF u \in M THEN 1 ELSE mCount[w.fleet][u]
          /\ \A k \in TelFleets \ {w.fleet} : mCount'[k] = mCount[k]
      BY <1>1, <1>3, TelReplacedL
    <2>4. \A u \in M : u \in mLanded[w.fleet] BY <1>1, TelOneRow
    <2>5. CASE g = w.fleet /\ t \in M BY <2>2, <2>3, <2>4, <2>5
    <2>6. CASE ~(g = w.fleet /\ t \in M)
      <3>1. mCount'[g][t] = mCount[g][t] BY <2>2, <2>3, <2>6
      <3> QED BY <2>1, <3>1
    <2> QED BY <2>5, <2>6
  <1>19. ASSUME NEW g \in TelFleets, NEW h \in Tel!Hours, mFrom[g] <= h * TelHourLen,
                (h + 1) * TelHourLen <= mMark[g]
         PROVE  mStat'[g][h] = Cardinality({t \in mLanded[g] : Tel!Hour(t) = h})
    <2>1. mStat[g][h] = Cardinality({t \in mLanded[g] : Tel!Hour(t) = h})
      BY <1>19, TelCardL DEF Tel!CountInv, Tel!CountedOnce
    <2>2. CASE mStat'[g][h] = mStat[g][h] BY <2>1, <2>2
    <2>3. CASE mStat'[g][h] # mStat[g][h]
      <3>1. mStat' = Tel!ReplacedStat(w) BY <1>4, <2>3
      <3>2. g = w.fleet /\ Tel!InHour(w, h) # 0 /\ mStat'[g][h] = Tel!InHour(w, h)
        BY <1>1, <2>3, <3>1, TelReplacedStatL
      <3>3. w.chunk[1] = h * TelHourLen BY <1>1, <3>2, TelHourRows
      <3>4. h \in Nat BY TelTimesL
      <3>5. h * TelHourLen \in Nat /\ (h + 1) * TelHourLen = h * TelHourLen + TelHourLen
        BY <1>2, <3>4, TelAtHour
      <3>6. mMark[g] \in Int /\ TelHourLen \in Nat BY TelNums
      <3>7. w.chunk[2] = h * TelHourLen + TelHourLen BY <1>2, <1>19, <3>2, <3>3, <3>5, <3>6
      <3> QED BY <1>1, <3>2, <3>3, <3>7, TelHourRows
    <2> QED BY <2>2, <2>3
  <1>20. Tel!CountedOnce' BY <1>0, <1>18, <1>19, TelCardL DEF Tel!CountedOnce, Tel!Hour
  <1> QED BY <1>10, <1>12, <1>13, <1>14, <1>15, <1>16, <1>17, <1>20 DEF Tel!CountInv

(* A commit keeps the invariant: behind its new mark every minute counts once. *)
LEMMA TelCommitL ==
  ASSUME Tel!Bounds, Tel!TypeOK, Tel!CountInv, NEW w \in mTick.todo, Tel!Commit(w)
  PROVE  Tel!TypeOK' /\ Tel!CountInv'
  <1> DEFINE c1 == w.chunk[1]  c2 == w.chunk[2]
  <1>0. /\ UNCHANGED <<mNow, mLive, mBuf, mDir, mLanded, mSealed, mReplay, mLeft>>
        /\ mTick.at = "commit"
        /\ mCount' = Tel!Replaced(w, Tel!Minutes(w)) /\ mStat' = Tel!ReplacedStat(w)
        /\ mMark' = [mMark EXCEPT ![w.fleet] = c2] /\ mMem' = [mMem EXCEPT ![w.fleet] = c2]
        /\ mFrom' = [mFrom EXCEPT ![w.fleet] = Tel!Smaller(@, c1)]
        /\ mTick' = [mTick EXCEPT !.todo = @ \ {w}]
    BY DEF Tel!Commit, Tel!Stamped
  <1>1. w \in Tel!Works /\ Tel!Pending(w) BY TelTickFields DEF Tel!CountInv, Tel!Scans
  <1>2. /\ w.fleet \in TelFleets /\ c1 \in Tel!Times /\ c2 \in Tel!Times /\ c1 \in Nat /\ c2 \in Nat
        /\ c1 < c2 /\ c2 + TelLag <= mNow /\ c1 = Tel!FloorHour(c1) /\ c2 <= c1 + TelHourLen
        /\ (mMark[w.fleet] = -1 \/ c1 <= mMark[w.fleet])
    BY <1>1, TelWorkL
  <1>3. PICK f \in TelFleets : f = w.fleet BY <1>2
  <1>4. /\ mNow \in Nat /\ TelMaxTime \in Nat /\ TelHourLen \in Nat /\ TelHourLen >= 1
        /\ \A g \in TelFleets : mMark[g] \in Int /\ mMark[g] >= -1 /\ mFrom[g] \in Nat
    BY TelNums
  <1>5. mTick \in Tel!Ticks BY DEF Tel!TypeOK
  <1>6. mTick' \in Tel!Ticks /\ mTick'.at = "commit" /\ mTick'.todo = mTick.todo \ {w}
    <2>1. mTick' = [mTick EXCEPT !.todo = @ \ {w}] BY <1>0
    <2>3. mTick.todo \ {w} \subseteq Tel!Works BY TelTickFields
    <2> QED BY <1>0, <1>5, <2>1, <2>3 DEF Tel!Ticks
  <1>7. mCount' \in [TelFleets -> [Tel!Times -> Nat]] /\ mStat' \in [TelFleets -> [Tel!Hours -> Nat]]
    BY <1>0, <1>1, TelReplacedL, TelReplacedStatL
  <1>8. Tel!Smaller(mFrom[f], c1) \in Nat /\ Tel!Smaller(mFrom[f], c1) <= TelMaxTime + 1
        /\ (Tel!Smaller(mFrom[f], c1) = c1 \/ Tel!Smaller(mFrom[f], c1) = mFrom[f])
    <2>1. c1 <= TelMaxTime BY <1>2 DEF Tel!Times
    <2> QED BY <1>2, <1>4, <2>1 DEF Tel!Smaller
  <1>9. mMark' \in [TelFleets -> -1 .. TelMaxTime] /\ mMem' \in [TelFleets -> -1 .. TelMaxTime]
    <2>1. c2 \in -1 .. TelMaxTime BY <1>2 DEF Tel!Times
    <2>2. mMark \in [TelFleets -> -1 .. TelMaxTime] /\ mMem \in [TelFleets -> -1 .. TelMaxTime]
      BY DEF Tel!TypeOK
    <2>3. mMark' = [mMark EXCEPT ![w.fleet] = c2] /\ mMem' = [mMem EXCEPT ![w.fleet] = c2]
      BY <1>0
    <2> HIDE DEF c1, c2
    <2> QED BY <1>2, <2>1, <2>2, <2>3
  <1>10. mFrom' \in [TelFleets -> 0 .. TelMaxTime + 1]
    <2>1. Tel!Smaller(mFrom[f], c1) \in 0 .. TelMaxTime + 1 BY <1>4, <1>8
    <2>2. mFrom \in [TelFleets -> 0 .. TelMaxTime + 1] BY DEF Tel!TypeOK
    <2> QED BY <1>0, <1>3, <2>1, <2>2
  <1>11. Tel!TypeOK' BY <1>0, <1>6, <1>7, <1>9, <1>10 DEF Tel!TypeOK
  <1>12. /\ mMark'[f] = c2 /\ mMem'[f] = c2 /\ mFrom'[f] = Tel!Smaller(mFrom[f], c1)
         /\ \A g \in TelFleets \ {f} : mMark'[g] = mMark[g] /\ mMem'[g] = mMem[g] /\ mFrom'[g] = mFrom[g]
    BY <1>0, <1>3 DEF Tel!TypeOK
  <1>13. Tel!Fresh' BY <1>0 DEF Tel!CountInv, Tel!Fresh
  <1>14. Tel!InOneFile' BY <1>0, TelKeepFiles DEF Tel!CountInv, Tel!CanonicalFiles
  <1>15. Tel!Compacted' BY <1>0, <1>6 DEF Tel!CountInv, Tel!Compacted, Tel!Hour
  <1>16. Tel!Marks'
    <2>1. ASSUME NEW g \in TelFleets
          PROVE  /\ mMark'[g] = -1 => mFrom'[g] = TelMaxTime + 1
                 /\ mMark'[g] # -1 => mMark'[g] + TelLag <= mNow /\ mMem'[g] # -1 /\ mMem'[g] <= mMark'[g]
      <3>1. CASE g = f BY <1>2, <1>12, <3>1
      <3>2. CASE g # f BY <1>12, <3>2 DEF Tel!CountInv, Tel!Marks
      <3> QED BY <3>1, <3>2
    <2> QED BY <1>0, <2>1 DEF Tel!Marks
  <1>17. Tel!Scans'
    <2>1. ASSUME NEW v \in mTick'.todo PROVE Tel!Pending(v)'
      <3>1. v \in mTick.todo /\ v # w BY <1>6
      <3>2. v \in Tel!Works /\ Tel!Pending(v) BY <3>1, TelTickFields DEF Tel!CountInv, Tel!Scans
      <3>3. v.fleet # f BY <1>3, <3>1 DEF Tel!CountInv, Tel!Scans
      <3>4. v.fleet \in TelFleets BY <3>2 DEF Tel!Works
      <3>5. mMark'[v.fleet] = mMark[v.fleet] BY <1>12, <3>3, <3>4
      <3> QED BY <1>0, <1>4, <3>2, <3>5, TelKeepScan
    <2> QED BY <1>6, <2>1 DEF Tel!CountInv, Tel!Scans
  <1>18. Tel!NoPhantoms' BY <1>0, <1>1, TelPhantomsL
  <1>19. Tel!NoPhantoms /\ Tel!CountedOnce /\ Tel!Marks BY DEF Tel!CountInv
  <1>20. mFrom'[f] < c1 => mFrom'[f] = mFrom[f] /\ mMark[f] # -1 /\ c1 <= mMark[f]
    <2>1. SUFFICES ASSUME mFrom'[f] < c1 PROVE mFrom'[f] = mFrom[f] /\ mMark[f] # -1 /\
          c1 <= mMark[f] OBVIOUS
    <2>2. mFrom'[f] = mFrom[f] BY <1>2, <1>8, <1>12, <2>1
    <2>3. mMark[f] # -1
      <3>1. SUFFICES ASSUME mMark[f] = -1 PROVE FALSE OBVIOUS
      <3>2. mFrom[f] = TelMaxTime + 1 BY <1>19, <3>1 DEF Tel!Marks
      <3>3. c1 <= TelMaxTime BY <1>2 DEF Tel!Times
      <3> QED BY <1>2, <1>4, <2>1, <2>2, <3>2, <3>3
    <2> QED BY <1>2, <1>3, <2>2, <2>3
  <1>21. ASSUME NEW g \in TelFleets, NEW t \in mFrom'[g] .. mMark'[g] - 1
         PROVE  mCount'[g][t] = IF t \in mLanded[g] THEN 1 ELSE 0
    <2>0. mFrom'[g] \in Nat /\ mMark'[g] \in Int /\ mMark'[g] <= TelMaxTime
      <3>1. mFrom'[g] \in 0 .. TelMaxTime + 1 /\ mMark'[g] \in -1 .. TelMaxTime BY <1>9, <1>10
      <3> QED BY <1>4, <3>1
    <2>1. t \in Tel!Times /\ t \in Nat /\ mFrom'[g] <= t /\ t < mMark'[g]
      BY <1>4, <2>0 DEF Tel!Times
    <2>2. /\ \A u \in Tel!Times : mCount'[w.fleet][u] = IF u \in Tel!Minutes(w) THEN 1 ELSE mCount[w.fleet][u]
          /\ \A k \in TelFleets \ {w.fleet} : mCount'[k] = mCount[k]
      BY <1>0, <1>1, TelReplacedL
    <2>3. CASE g # f
      <3>1. mCount'[g] = mCount[g] /\ t \in mFrom[g] .. mMark[g] - 1 BY <1>3, <1>12, <2>2, <2>3
      <3> QED BY <1>19, <3>1, TelCardL DEF Tel!CountedOnce
    <2>4. CASE g = f /\ t \in Tel!Minutes(w)
      <3>1. t \in mLanded[w.fleet] BY <1>1, <2>4, TelOneRow
      <3> QED BY <1>3, <2>1, <2>2, <2>4, <3>1
    <2>5. CASE g = f /\ t \notin Tel!Minutes(w)
      <3>1. mCount'[g][t] = mCount[g][t] BY <1>3, <2>1, <2>2, <2>5
      <3>2. CASE Tel!InWindow(w.chunk, t)
        <4>1. t \notin mLanded[f] BY <1>1, <1>3, <2>5, <3>2, TelOneRow
        <4>2. mCount[f][t] = 0 BY <1>19, <2>1, <4>1 DEF Tel!NoPhantoms
        <4> QED BY <2>5, <3>1, <4>1, <4>2
      <3>3. CASE ~Tel!InWindow(w.chunk, t)
        <4>1. t < c2 /\ mFrom'[f] <= t BY <1>12, <2>1, <2>5
        <4>2. ~(c1 <= t) BY <3>3, <4>1 DEF Tel!InWindow
        <4>3. t < c1 BY <1>2, <2>1, <4>2
        <4>4. mFrom'[f] < c1 BY <1>2, <2>0, <2>1, <2>5, <4>1, <4>3
        <4>5. t \in mFrom[f] .. mMark[f] - 1 BY <1>2, <1>4, <1>20, <2>1, <4>1, <4>3, <4>4
        <4> QED BY <1>19, <2>5, <3>1, <4>5 DEF Tel!CountedOnce
      <3> QED BY <3>2, <3>3
    <2> QED BY <2>3, <2>4, <2>5
  <1>22. ASSUME NEW g \in TelFleets, NEW h \in Tel!Hours, mFrom'[g] <= h * TelHourLen,
                (h + 1) * TelHourLen <= mMark'[g]
         PROVE  mStat'[g][h] = Cardinality({t \in mLanded[g] : Tel!Hour(t) = h})
    <2>1. /\ \A k \in Tel!Hours : mStat'[w.fleet][k] = IF Tel!InHour(w, k) # 0 THEN Tel!InHour(w, k) ELSE mStat[w.fleet][k]
          /\ \A k \in TelFleets \ {w.fleet} : mStat'[k] = mStat[k]
      BY <1>0, <1>1, TelReplacedStatL
    <2>2. h \in Nat BY TelTimesL
    <2>3. h * TelHourLen \in Nat /\ (h + 1) * TelHourLen = h * TelHourLen + TelHourLen
      BY <1>4, <2>2, TelAtHour
    <2>4. CASE g # f
      <3>1. mStat'[g] = mStat[g] /\ mFrom[g] <= h * TelHourLen /\ (h + 1) * TelHourLen <= mMark[g]
        BY <1>3, <1>12, <1>22, <2>1, <2>4
      <3> QED BY <1>19, <3>1, TelCardL DEF Tel!CountedOnce
    <2>5. CASE g = f
      <3>0. h * TelHourLen + TelHourLen <= c2 BY <1>12, <1>22, <2>3, <2>5
      <3>1. CASE c1 <= h * TelHourLen
        <4>1. c1 = h * TelHourLen /\ c2 = h * TelHourLen + TelHourLen
          BY <1>2, <1>4, <2>3, <3>0, <3>1
        <4>2. Tel!InHour(w, h) = Cardinality({t \in mLanded[f] : Tel!Hour(t) = h})
          BY <1>1, <1>3, <4>1, TelHourRows
        <4>3. CASE Tel!InHour(w, h) # 0 BY <1>3, <2>1, <2>5, <4>2, <4>3
        <4>4. CASE Tel!InHour(w, h) = 0
          <5>1. mStat'[f][h] = mStat[f][h] BY <1>3, <2>1, <4>4
          <5>2. \A t \in mLanded[f] : Tel!Hour(t) # h
            <6>1. {t \in mLanded[w.fleet] : Tel!Hour(t) = h /\ Tel!InWindow(w.chunk, t)} = {}
              BY <1>1, <4>4, TelHourCard
            <6>2. ASSUME NEW t \in mLanded[f], Tel!Hour(t) = h PROVE Tel!InWindow(w.chunk, t)
              <7>0. mLanded[f] \subseteq Tel!Times BY TelNums
              <7>1. t \in Nat BY <7>0, TelTimesL
              <7>2. h * TelHourLen <= t /\ t < h * TelHourLen + TelHourLen
                BY <2>2, <6>2, <7>1, TelAtHour
              <7> QED BY <4>1, <7>2 DEF Tel!InWindow
            <6> QED BY <1>3, <6>1, <6>2
          <5>3. mStat[f][h] = 0 BY <1>19, <5>2 DEF Tel!NoPhantoms
          <5> QED BY <2>5, <4>2, <4>4, <5>1, <5>3
        <4> QED BY <4>3, <4>4
      <3>2. CASE h * TelHourLen + TelHourLen <= c1
        <4>0. mFrom'[f] \in Nat BY <1>8, <1>12
        <4>1. mFrom'[f] < c1 BY <1>2, <1>4, <1>22, <2>3, <2>5, <3>2, <4>0
        <4>2. mFrom[f] <= h * TelHourLen /\ (h + 1) * TelHourLen <= mMark[f]
          <5>1. mFrom'[f] = mFrom[f] /\ c1 <= mMark[f] BY <1>20, <4>1
          <5> QED BY <1>2, <1>4, <1>22, <2>3, <2>5, <3>2, <5>1
        <4>3. mStat[f][h] = Cardinality({t \in mLanded[f] : Tel!Hour(t) = h})
          BY <1>19, <4>2, TelCardL DEF Tel!CountedOnce
        <4>4. c1 # h * TelHourLen BY <1>2, <1>4, <2>3, <3>2
        <4>5. Tel!InHour(w, h) = 0 BY <1>1, <4>4, TelHourRows
        <4>6. mStat'[f][h] = mStat[f][h] BY <1>3, <2>1, <4>5
        <4> QED BY <2>5, <4>3, <4>6
      <3> QED BY <1>2, <2>2, <3>1, <3>2, TelAligned
    <2> QED BY <2>4, <2>5
  <1>23. Tel!CountedOnce' BY <1>0, <1>21, <1>22, TelCardL DEF Tel!CountedOnce, Tel!Hour
  <1> QED BY <1>11, <1>13, <1>14, <1>15, <1>16, <1>17, <1>18, <1>23 DEF Tel!CountInv

(* A step that leaves telemetry alone keeps the invariant. *)
LEMMA TelSameL ==
  ASSUME Tel!Bounds, Tel!TypeOK, Tel!CountInv, UNCHANGED telVars
  PROVE  Tel!TypeOK' /\ Tel!CountInv'
  <1>1. Tel!TypeOK' BY DEF telVars, Tel!TypeOK
  <1>2. mNow \in Nat BY TelNums
  <1>3. Tel!Marks' BY <1>2, TelKeepMarks DEF Tel!CountInv, telVars
  <1>4. Tel!CountInv' BY <1>3, TelKeepRest DEF telVars
  <1> QED BY <1>1, <1>4

(* Every step keeps the invariant while no upload is late. *)
LEMMA TelStepL ==
  ASSUME Tel!Bounds, ~TelLateUpload, Tel!TypeOK, Tel!CountInv, [Tel!Next]_telVars
  PROVE  Tel!TypeOK' /\ Tel!CountInv'
  <1>1. CASE Tel!Tick BY <1>1, TelTickL
  <1>2. ASSUME NEW f \in TelFleets, Tel!Emit(f)
        PROVE  Tel!TypeOK' /\ Tel!CountInv' BY <1>2, TelEmitL
  <1>3. ASSUME NEW f \in TelFleets, Tel!Flush(f)
        PROVE  Tel!TypeOK' /\ Tel!CountInv' BY <1>3, TelFlushL
  <1>4. ASSUME NEW f \in TelFleets, Tel!Toggle(f)
        PROVE  Tel!TypeOK' /\ Tel!CountInv' BY <1>4, TelToggleL
  <1>5. CASE Tel!AskReplay BY <1>5, TelAskReplayL
  <1>6. CASE Tel!BackoffExpires BY <1>6, TelBackoffL
  <1>7. CASE Tel!Crash BY <1>7, TelCrashL
  <1>8. CASE Tel!PassBegin BY <1>8, TelPassBeginL
  <1>9. CASE Tel!Plan BY <1>9, TelPlanL
  <1>10. CASE Tel!CommitEnd BY <1>10, TelCommitEndL
  <1>11. CASE Tel!ReplayEnd BY <1>11, TelReplayEndL
  <1>12. CASE Tel!TickEnd BY <1>12, TelTickEndL
  <1>13. CASE Tel!CompactDelete BY <1>13, TelCompactDeleteL
  <1>14. ASSUME NEW w \in mTick.todo, Tel!Commit(w)
         PROVE  Tel!TypeOK' /\ Tel!CountInv' BY <1>14, TelCommitL
  <1>15. ASSUME NEW w \in mTick.todo, Tel!CommitFails(w)
         PROVE  Tel!TypeOK' /\ Tel!CountInv' BY <1>15, TelCommitFailsL
  <1>16. ASSUME NEW f \in TelFleets, NEW h \in Tel!Hours, Tel!CompactCopy(f, h)
         PROVE  Tel!TypeOK' /\ Tel!CountInv' BY <1>16, TelCompactCopyL
  <1>17. CASE UNCHANGED telVars BY <1>17, TelSameL
  <1>18. CASE Tel!Step
    BY <1>8, <1>9, <1>10, <1>11, <1>12, <1>13, <1>14, <1>15, <1>16, <1>18 DEF Tel!Step
  <1> QED BY <1>1, <1>2, <1>3, <1>4, <1>5, <1>6, <1>7, <1>17, <1>18 DEF Tel!Next

(* A step of the platform is a step of telemetry or leaves it alone. *)
LEMMA TelNext == [Next]_allVars => [Tel!Next]_telVars
  BY DEF Next, allVars, EnvStep, TelStep, SbxStep, CgStep, ErrStep, DomStep, InstStep,
         NoteStep, RenStep, EvStep, LogStep

(* The inductive invariant of telemetry, while no upload is late. *)
LEMMA TelInductive == ASSUME ~TelLateUpload PROVE Spec => [](Tel!TypeOK /\ Tel!CountInv)
  <1> DEFINE Inv == Tel!TypeOK /\ Tel!CountInv
  <1>1. Init => Inv BY TelBounds, TelInitL DEF Init
  <1>2. Inv /\ [Next]_allVars => Inv' BY TelBounds, TelNext, TelStepL
  <1> QED BY <1>1, <1>2, PTL DEF Spec



(* Counters are right for every value of their constants, while no fleet    *)
(* uploads into the directory of an hour that is over: behind the mark every *)
(* minute and hour of telemetry counts what landed once, whatever a crash,  *)
(* a failed commit or a replay does (metrics/ingest.rs, db/metrics.rs); no  *)
(* line of the access log is lost, and one is counted again at most once    *)
(* for each failure (accesslog.rs tick); and writes of an insight or a      *)
(* profile that did not overlap are all in the row (db/events.rs).          *)
THEOREM CountersAreRight == ASSUME ~TelLateUpload PROVE Spec => []CountersRight
  <1>1. Tel!CountInv => Tel!CountedOnce BY DEF Tel!CountInv
  <1>2. Log!TypeOK /\ Log!LinesInv => Log!LinesCountedOnce BY LogBounds, LogOnce
  <1>3. Ev!SerialInv => Ev!SerialWritesCount BY DEF Ev!SerialInv
  <1>4. /\ Tel!CountInv
        /\ Log!TypeOK /\ Log!LinesInv
        /\ Ev!SerialInv
        => CountersRight
    BY <1>1, <1>2, <1>3 DEF CountersRight
  <1> QED BY <1>4, TelInductive, LogInductive, EvInductive, PTL


(* Every component of the platform keeps to its types, for every value of   *)
(* the constants, while no fleet uploads into the directory of an hour that  *)
(* is over: telemetry's types are kept together with its counts.            *)
THEOREM PlatformTypes == ASSUME ~TelLateUpload PROVE Spec => []TypeOK
  <1>1. Sbx!StateOK /\ Sbx!IdInv /\ Sbx!OwnInv /\ Sbx!OrphanInv => Sbx!TypeOK BY SbxTypes
  <1>2. Cg!StateOK /\ Cg!LeafInv /\ Cg!KillInv => Cg!TypeOK BY CgBounds, CgTypes
  <1>3. Inst!StateOK /\ Inst!LimitInv /\ Inst!UidInv => Inst!TypeOK BY InstBounds, InstTypes
  <1>4. /\ Env!TypeOK /\ Tel!TypeOK /\ Sbx!TypeOK /\ Cg!TypeOK /\ Err!TypeOK
        /\ Dom!TypeOK /\ Inst!TypeOK /\ Note!TypeOK /\ Ren!TypeOK /\ Ev!TypeOK /\ Log!TypeOK
        => TypeOK
    BY DEF TypeOK
  <1> QED
    BY <1>1, <1>2, <1>3, <1>4, EnvInductive, TelInductive, SbxInductive, CgInductive,
       ErrInductive, DomInductive, InstInductive, NoteInductive, RenInductive, EvInductive,
       LogInductive, PTL

=============================================================================
