-------------------------- MODULE SettlingProofs --------------------------
(* The safety behind what settles: the edge's table protocol implements     *)
(* EdgeServes step by step, and no sweep revokes a bucket key in use.       *)
EXTENDS MCSettling, TLAPS

-----------------------------------------------------------------------------
(* The edge's route table (EdgePush, EdgeServes). *)
(* The empty table, an edge that is down and a pusher at rest are well formed. *)
LEMMA EdgeTabL == /\ Edge!NoTable \in Edge!Tables /\ Edge!NoTable.gen = 0
                  /\ Edge!NoTable.says = Edge!Nothing /\ Edge!Nothing \notin Edge!Says
                  /\ Edge!Down \in Edge!Caddies /\ Edge!Down.tab = Edge!NoTable
                  /\ Edge!Down.read = Edge!NoTable /\ Edge!Down.at = "down"
                  /\ Edge!Free \in Edge!Pushes /\ Edge!Free.at = "free"
  <1>1. Edge!Nothing \notin Edge!Says BY DEF Edge!Nothing, Edge!Says
  <1>2. Edge!NoTable \in Edge!Tables /\ Edge!NoTable.gen = 0 /\ Edge!NoTable.says = Edge!Nothing
    BY DEF Edge!NoTable, Edge!Tables
  <1>3. Edge!Down \in Edge!Caddies /\ Edge!Down.tab = Edge!NoTable /\ Edge!Down.read = Edge!NoTable /\
        Edge!Down.at = "down"
    BY <1>2 DEF Edge!Down, Edge!Caddies
  <1> QED BY <1>1, <1>2, <1>3 DEF Edge!Free, Edge!Pushes

(* A fault or a change takes one from its own bound. *)
LEMMA EdgeLeftL == ASSUME Edge!Bounds, jLeft \in Edge!Lefts
  PROVE /\ Edge!Fault => jLeft' \in Edge!Lefts /\ jLeft'.changes = jLeft.changes
        /\ jLeft.changes > 0 => LET l == [jLeft EXCEPT !.changes = @ - 1] IN l \in Edge!Lefts /\ l.changes = jLeft.changes - 1
  <1>1. jLeft.changes \in 0 .. EdgeMaxChanges /\ jLeft.faults \in 0 .. EdgeMaxFaults
    BY DEF Edge!Lefts
  <1> QED BY <1>1 DEF Edge!Fault, Edge!Lefts, Edge!Bounds

(* Writing a table adds it to the history and keeps the ones before it. *)
LEMMA EdgeGrowL == ASSUME NEW h \in Seq(Edge!Says), NEW s \in Edge!Says
  PROVE /\ Append(h, s) \in Seq(Edge!Says) /\ Len(Append(h, s)) = Len(h) + 1
        /\ Append(h, s)[Len(h) + 1] = s
        /\ \A t : Edge!Wrote(h, t) => Edge!Wrote(Append(h, s), t)
  BY DEF Edge!Wrote

(* What the pusher holds at each of its steps. *)
LEMMA EdgePushL == ASSUME NEW p \in Edge!Pushes
  PROVE /\ p.at \in Edge!PushSteps
        /\ p.at = "rest" => p.apps \in 0 .. EdgeMaxChanges
        /\ p.at \in {"write", "send"} => p.table \in Edge!Tables /\ [p EXCEPT !.at = "send"] \in Edge!Pushes
              /\ [p EXCEPT !.at = "send"].at = "send" /\ [p EXCEPT !.at = "send"].table = p.table
  BY DEF Edge!Pushes, Edge!PushSteps

(* Initially nothing was written and nothing is served. *)
LEMMA EdgeInitL ==
  ASSUME Edge!Bounds, Edge!Init
  PROVE  Edge!StateOK /\ Edge!WroteInv /\ Edge!Promise!Init
  <1>1. jDb \in Edge!Says /\ jDb.apps + jDb.rest + jLeft.changes = EdgeMaxChanges /\
        jLeft \in Edge!Lefts
    BY DEF Edge!Init, Edge!Bounds, Edge!Says, Edge!Lefts
  <1>2. jFile = Edge!NoTable /\ jHist = << >> /\ jPush = Edge!Free /\ jCaddy = Edge!Down /\ jFlight = {}
    BY DEF Edge!Init
  <1>3. jHist \in Seq(Edge!Says) /\ Len(jHist) = 0 BY <1>2
  <1>4. Edge!StateOK BY <1>1, <1>2, <1>3, EdgeTabL DEF Edge!StateOK
  <1>5. Edge!WroteInv BY <1>2, <1>3, EdgeTabL DEF Edge!WroteInv
  <1>6. Edge!Promise!Init BY <1>2, EdgeTabL DEF Edge!Promise!Init
  <1> QED BY <1>4, <1>5, <1>6

(* Every step keeps the invariant and is a step of EdgeServes or none. *)
LEMMA EdgeSteps == ASSUME Edge!Bounds, Edge!StateOK, Edge!WroteInv, [Edge!Next]_edgeVars
  PROVE Edge!StateOK' /\ Edge!WroteInv' /\ [Edge!Promise!Next]_(Edge!Promise!vars)
  <1> DEFINE P(h, p) == /\ p \in Edge!Pushes
                        /\ p.at = "write" => p.table.gen = Len(h) + 1 /\ p.table.says \in Edge!Says
                        /\ p.at = "send" => Edge!Wrote(h, p.table)
             F(h, f) == f \in Edge!Tables /\ f.gen = Len(h) /\ (f = Edge!NoTable \/ Edge!Wrote(h, f))
             C(h, c) == /\ c \in Edge!Caddies /\ (c.tab = Edge!NoTable \/ Edge!Wrote(h, c.tab))
                        /\ (c.read = Edge!NoTable \/ Edge!Wrote(h, c.read))
                        /\ c.at = "down" => c.tab = Edge!NoTable
             G(h, fl) == fl \subseteq Edge!Tables /\ \A t \in fl : Edge!Wrote(h, t)
             D(d, l) == d \in Edge!Says /\ l \in Edge!Lefts /\
                        d.apps + d.rest + l.changes = EdgeMaxChanges
             H(h) == h \in Seq(Edge!Says)
             Inv == Edge!StateOK' /\ Edge!WroteInv'
             Same == UNCHANGED <<jHist, jCaddy>>
             Goal == Inv /\ [Edge!Promise!Next]_(Edge!Promise!vars)
  <1>t. H(jHist) /\ F(jHist, jFile) /\ P(jHist, jPush) /\ C(jHist, jCaddy) /\ G(jHist, jFlight) /\
        D(jDb, jLeft)
    BY DEF Edge!StateOK, Edge!WroteInv
  <1>n. Len(jHist) \in Nat BY <1>t
  <1>q. ASSUME H(jHist'), F(jHist', jFile'), P(jHist', jPush'), C(jHist', jCaddy'),
               G(jHist', jFlight'), D(jDb', jLeft')
        PROVE  Inv
    BY <1>q DEF Edge!StateOK, Edge!WroteInv
  <1>s. ASSUME Inv, Same PROVE Goal BY <1>s DEF Edge!Promise!vars
  <1>e. ASSUME Inv, jCaddy' = Edge!Down, jHist' = jHist PROVE Goal
    BY <1>e, EdgeTabL DEF Edge!Promise!Next, Edge!Promise!Exit
  <1>i. ASSUME NEW k \in Edge!Tables, Edge!Wrote(jHist, k), jHist' = jHist, jCaddy'.tab = k
        PROVE Edge!Promise!Install(k.gen) /\ k.gen \in 1 .. Len(jHist)
    BY <1>i DEF Edge!Promise!Install, Edge!Wrote
  <1>l. Edge!Fault => D(jDb, jLeft') BY <1>t, EdgeLeftL
  <1>f. P(jHist, Edge!Free) /\ C(jHist, Edge!Down) /\ G(jHist, {}) BY EdgeTabL
  <1> HIDE DEF P, F, C, G, D, H, Inv
  <1>d. ASSUME NEW t \in Edge!Tables, Edge!Wrote(jHist, t), Edge!Deliver(t), jCaddy.at # "down"
        PROVE C(jHist, jCaddy') /\ (jHist' = jHist /\ Inv => Goal)
    <2>0. jCaddy \in Edge!Caddies /\ (jCaddy.tab = Edge!NoTable \/ Edge!Wrote(jHist, jCaddy.tab))
      BY <1>t DEF C
    <2>1. CASE jCaddy' = jCaddy
      <3>1. C(jHist, jCaddy') BY <2>1, <1>t
      <3> QED BY <2>1, <3>1, <1>s
    <2>2. CASE Edge!Takes(jCaddy.tab, t) /\ jCaddy' = [jCaddy EXCEPT !.tab = t]
      <3>1. /\ jCaddy' \in Edge!Caddies /\ jCaddy'.tab = t /\ jCaddy'.at = jCaddy.at
            /\ jCaddy'.read = jCaddy.read
        BY <2>0, <2>2 DEF Edge!Caddies
      <3>2. C(jHist, jCaddy') BY <3>1, <1>d, <1>t DEF C
      <3>3. ASSUME jHist' = jHist, Inv PROVE Goal
        <4>1. Edge!Promise!Install(t.gen) /\ t.gen \in 1 .. Len(jHist) BY <3>1, <3>3, <1>d, <1>i
        <4>2. jCaddy.tab.gen \in Nat BY <2>0 DEF Edge!Caddies, Edge!Tables
        <4>3. t.gen \in jCaddy.tab.gen + 1 .. Len(jHist)
          BY <2>2, <4>1, <4>2, <1>n DEF Edge!Takes
        <4>4. (jCaddy'.at = "up") = (jCaddy.at = "up") BY <3>1
        <4>5. Edge!Promise!Advance BY <4>1, <4>3, <4>4 DEF Edge!Promise!Advance
        <4> QED BY <3>3, <4>5 DEF Edge!Promise!Next
      <3> QED BY <3>2, <3>3
    <2> QED BY <1>d, <2>1, <2>2 DEF Edge!Deliver
  <1>1. ASSUME NEW side \in {"apps", "rest"}, Edge!Change(side) PROVE Goal
    <2>1. UNCHANGED <<jFile, jHist, jPush, jCaddy, jFlight>> BY <1>1 DEF Edge!Change
    <2>2. jLeft.changes > 0 /\ jLeft' = [jLeft EXCEPT !.changes = @ - 1] /\
          jDb' = [jDb EXCEPT ![side] = @ + 1]
      BY <1>1 DEF Edge!Change
    <2>3. jDb \in Edge!Says /\ jDb.apps + jDb.rest + jLeft.changes = EdgeMaxChanges /\
          jLeft \in Edge!Lefts
      BY <1>t DEF D
    <2>4. jLeft' \in Edge!Lefts /\ jLeft'.changes = jLeft.changes - 1 BY <2>2, <2>3, EdgeLeftL
    <2>5. jDb.apps \in Nat /\ jDb.rest \in Nat /\ jLeft.changes \in Nat
      BY <2>3 DEF Edge!Says, Edge!Lefts
    <2>6. D(jDb', jLeft')
      <3>1. CASE side = "apps"
        <4>1. jDb' = [jDb EXCEPT !.apps = @ + 1] BY <2>2, <3>1
        <4>2. jDb' \in Edge!Says /\ jDb'.apps = jDb.apps + 1 /\ jDb'.rest = jDb.rest
          BY <2>2, <2>3, <2>5, <4>1 DEF Edge!Says, Edge!Bounds
        <4> QED BY <2>3, <2>4, <2>5, <4>2 DEF D, Edge!Bounds
      <3>2. CASE side = "rest"
        <4>1. jDb' = [jDb EXCEPT !.rest = @ + 1] BY <2>2, <3>2
        <4>2. jDb' \in Edge!Says /\ jDb'.rest = jDb.rest + 1 /\ jDb'.apps = jDb.apps
          BY <2>2, <2>3, <2>5, <4>1 DEF Edge!Says, Edge!Bounds
        <4> QED BY <2>3, <2>4, <2>5, <4>2 DEF D, Edge!Bounds
      <3> QED BY <3>1, <3>2
    <2>7. Inv BY <2>1, <2>6, <1>t, <1>q
    <2> QED BY <2>1, <2>7, <1>s
  <1>2. ASSUME Edge!Lock PROVE Goal
    <2>1. UNCHANGED <<jDb, jFile, jHist, jCaddy, jFlight, jLeft>> /\ jPush' = [at |-> "apps"]
      BY <1>2 DEF Edge!Lock
    <2>2. P(jHist, jPush') BY <2>1 DEF P, Edge!Pushes
    <2>3. Inv BY <2>1, <2>2, <1>t, <1>q
    <2> QED BY <2>1, <2>3, <1>s
  <1>3. ASSUME Edge!ReadApps PROVE Goal
    <2>1. UNCHANGED <<jDb, jFile, jHist, jCaddy, jFlight, jLeft>> /\
          jPush' = [at |-> "rest", apps |-> jDb.apps]
      BY <1>3 DEF Edge!ReadApps
    <2>2. jDb.apps \in 0 .. EdgeMaxChanges BY <1>t DEF D, Edge!Says
    <2>3. P(jHist, jPush') BY <2>1, <2>2 DEF P, Edge!Pushes
    <2>4. Inv BY <2>1, <2>3, <1>t, <1>q
    <2> QED BY <2>1, <2>4, <1>s
  <1>4. ASSUME Edge!ReadFails PROVE Goal
    <2>1. UNCHANGED <<jDb, jFile, jHist, jCaddy, jFlight>> /\ jPush' = Edge!Free /\ Edge!Fault
      BY <1>4 DEF Edge!ReadFails
    <2>2. Inv BY <2>1, <1>t, <1>f, <1>l, <1>q
    <2> QED BY <2>1, <2>2, <1>s
  <1>5. ASSUME Edge!ReadRest PROVE Goal
    <2> DEFINE says == [apps |-> jPush.apps, rest |-> jDb.rest]
               table == Edge!ApplyTable(jFile, says)
               at == IF table = jFile THEN "send" ELSE "write"
    <2>1. UNCHANGED <<jDb, jFile, jHist, jCaddy, jFlight, jLeft>> /\
          jPush' = [at |-> at, table |-> table]
      BY <1>5 DEF Edge!ReadRest
    <2>2. says \in Edge!Says
      <3>1. jPush.apps \in 0 .. EdgeMaxChanges BY <1>5, <1>t, EdgePushL DEF Edge!ReadRest, P
      <3>2. jDb.rest \in 0 .. EdgeMaxChanges BY <1>t DEF D, Edge!Says
      <3> QED BY <3>1, <3>2 DEF Edge!Says
    <2>3. jFile \in Edge!Tables /\ jFile.gen = Len(jHist) /\
          (jFile = Edge!NoTable \/ Edge!Wrote(jHist, jFile))
      BY <1>t DEF F
    <2>4. table.gen = (IF jFile.says = says THEN jFile.gen ELSE jFile.gen + 1) /\ table.says = says
      BY DEF Edge!ApplyTable
    <2>5. table \in Edge!Tables BY <2>2, <2>3, <1>n DEF Edge!ApplyTable, Edge!Tables
    <2>6. jFile.says = says => table = jFile
      <3>1. DOMAIN jFile = {"gen", "says"} BY <2>3 DEF Edge!Tables
      <3> QED BY <2>3, <3>1 DEF Edge!ApplyTable, Edge!Tables
    <2> HIDE DEF says, table
    <2>7. at = "send" => Edge!Wrote(jHist, table) BY <2>2, <2>3, <2>4, EdgeTabL
    <2>8. at = "write" => table.gen = Len(jHist) + 1 /\ table.says \in Edge!Says
      BY <2>2, <2>3, <2>4, <2>6
    <2>9. jPush'.at = at /\ jPush'.table = table /\ jPush' \in Edge!Pushes
      BY <2>1, <2>5 DEF Edge!Pushes
    <2>10. P(jHist, jPush') BY <2>7, <2>8, <2>9 DEF P
    <2>11. Inv BY <2>1, <2>10, <1>t, <1>q
    <2> QED BY <2>1, <2>11, <1>s
  <1>6. ASSUME Edge!Write PROVE Goal
    <2> DEFINE s == jPush.table.says
               h == Append(jHist, s)
    <2>1. /\ UNCHANGED <<jDb, jCaddy, jFlight, jLeft>> /\ jFile' = jPush.table /\ jHist' = h
          /\ jPush' = [jPush EXCEPT !.at = "send"]
          /\ jPush.at = "write"
      BY <1>6 DEF Edge!Write
    <2>2. jPush.table \in Edge!Tables /\ jPush.table.gen = Len(jHist) + 1 /\ s \in Edge!Says /\
          jPush \in Edge!Pushes
      BY <2>1, <1>t, EdgePushL DEF P
    <2>3. jPush' \in Edge!Pushes /\ jPush'.at = "send" /\ jPush'.table = jPush.table
      BY <2>1, <2>2, EdgePushL
    <2>4. /\ h \in Seq(Edge!Says) /\ Len(h) = Len(jHist) + 1 /\ h[Len(jHist) + 1] = s
          /\ \A t : Edge!Wrote(jHist, t) => Edge!Wrote(h, t)
      BY <2>2, <1>t, EdgeGrowL DEF H
    <2>5. Edge!Wrote(h, jPush.table) BY <2>2, <2>4, <1>n DEF Edge!Wrote
    <2> HIDE DEF h, s
    <2>6. H(h) BY <2>4 DEF H
    <2>7. F(h, jFile') BY <2>1, <2>2, <2>4, <2>5 DEF F
    <2>8. P(h, jPush') BY <2>3, <2>5 DEF P
    <2>9. C(h, jCaddy') BY <2>1, <2>4, <1>t DEF C
    <2>10. G(h, jFlight') BY <2>1, <2>4, <1>t DEF G
    <2>11. Inv BY <2>1, <2>6, <2>7, <2>8, <2>9, <2>10, <1>t, <1>q
    <2>12. Edge!Promise!Publish BY <2>1, <2>2 DEF h, Edge!Promise!Publish
    <2> QED BY <2>11, <2>12 DEF Edge!Promise!Next
  <1>7. ASSUME Edge!Send PROVE Goal
    <2>1. UNCHANGED <<jDb, jFile, jHist, jFlight, jLeft>> /\ jPush' = Edge!Free /\ jPush.at = "send"
      BY <1>7 DEF Edge!Send
    <2>2. jPush.table \in Edge!Tables /\ Edge!Wrote(jHist, jPush.table)
      BY <2>1, <1>t, EdgePushL DEF P
    <2>3. CASE jCaddy.at = "down" /\ jCaddy' = jCaddy
      <3>1. Inv BY <2>1, <2>3, <1>t, <1>f, <1>q
      <3> QED BY <2>1, <2>3, <3>1, <1>s
    <2>4. CASE jCaddy.at # "down" /\ Edge!Deliver(jPush.table)
      <3>1. C(jHist, jCaddy') /\ (jHist' = jHist /\ Inv => Goal) BY <2>2, <2>4, <1>d
      <3>2. Inv BY <2>1, <3>1, <1>t, <1>f, <1>q
      <3> QED BY <2>1, <3>1, <3>2
    <2> QED BY <1>7, <2>3, <2>4 DEF Edge!Send
  <1>8. ASSUME Edge!SendTimesOut PROVE Goal
    <2>1. UNCHANGED <<jDb, jFile, jHist, jCaddy>> /\ jPush' = Edge!Free /\ jPush.at = "send" /\
          Edge!Fault /\ jFlight' = jFlight \cup {jPush.table}
      BY <1>8 DEF Edge!SendTimesOut
    <2>2. jPush.table \in Edge!Tables /\ Edge!Wrote(jHist, jPush.table)
      BY <2>1, <1>t, EdgePushL DEF P
    <2>3. G(jHist, jFlight') BY <2>1, <2>2, <1>t DEF G
    <2>4. Inv BY <2>1, <2>3, <1>t, <1>f, <1>l, <1>q
    <2> QED BY <2>1, <2>4, <1>s
  <1>9. ASSUME NEW t \in jFlight, Edge!LandsLate(t) PROVE Goal
    <2>1. UNCHANGED <<jDb, jFile, jHist, jPush, jLeft>> /\ jFlight' = jFlight \ {t} /\
          jCaddy.at # "down" /\ Edge!Deliver(t)
      BY <1>9 DEF Edge!LandsLate
    <2>2. t \in Edge!Tables /\ Edge!Wrote(jHist, t) BY <1>t DEF G
    <2>3. C(jHist, jCaddy') /\ (jHist' = jHist /\ Inv => Goal) BY <2>1, <2>2, <1>d
    <2>4. G(jHist, jFlight') BY <2>1, <1>t DEF G
    <2>5. Inv BY <2>1, <2>3, <2>4, <1>t, <1>q
    <2> QED BY <2>1, <2>3, <2>5
  <1>10. ASSUME Edge!CaddyStarts PROVE Goal
    <2> DEFINE c == [at |-> "load", tab |-> Edge!NoTable, read |-> Edge!NoTable, sites |-> EdgeSites]
    <2>1. UNCHANGED <<jDb, jFile, jHist, jPush, jFlight, jLeft>> /\ jCaddy.at = "down" /\ jCaddy' = c
      BY <1>10 DEF Edge!CaddyStarts
    <2>2. c \in Edge!Caddies /\ c.at = "load" /\ c.tab = Edge!NoTable /\ c.read = Edge!NoTable
      BY EdgeTabL DEF Edge!Caddies, Edge!Bounds
    <2> HIDE DEF c
    <2>3. C(jHist, c) BY <2>2 DEF C
    <2>4. Inv BY <2>1, <2>3, <1>t, <1>q
    <2>5. jCaddy.tab = Edge!NoTable BY <2>1, <1>t DEF C
    <2>6. UNCHANGED Edge!Promise!vars BY <2>1, <2>2, <2>5 DEF Edge!Promise!vars
    <2> QED BY <2>4, <2>6
  <1>11. ASSUME Edge!LoadTable PROVE Goal
    <2>1. UNCHANGED <<jDb, jFile, jHist, jPush, jFlight, jLeft>> /\ jCaddy.at = "load" /\
          jCaddy' = [jCaddy EXCEPT !.read = jFile, !.at = "install"]
      BY <1>11 DEF Edge!LoadTable
    <2>2. jCaddy \in Edge!Caddies /\ jFile \in Edge!Tables /\
          (jFile = Edge!NoTable \/ Edge!Wrote(jHist, jFile))
      BY <1>t DEF C, F
    <2>3. jCaddy' \in Edge!Caddies /\ jCaddy'.at = "install" /\ jCaddy'.tab = jCaddy.tab /\
          jCaddy'.read = jFile
      BY <2>1, <2>2 DEF Edge!Caddies
    <2>4. C(jHist, jCaddy') BY <2>2, <2>3, <1>t DEF C
    <2>5. Inv BY <2>1, <2>4, <1>t, <1>q
    <2>6. UNCHANGED Edge!Promise!vars BY <2>1, <2>3 DEF Edge!Promise!vars
    <2> QED BY <2>5, <2>6
  <1>12. ASSUME Edge!Provision PROVE Goal
    <2> DEFINE tab == IF jCaddy.read = Edge!NoTable THEN jCaddy.tab ELSE jCaddy.read
               at == IF jCaddy.sites = 1 THEN "up" ELSE "load"
               n == jCaddy.sites - 1
    <2>1. /\ UNCHANGED <<jDb, jFile, jHist, jPush, jFlight, jLeft>> /\ jCaddy.at = "install"
          /\ jCaddy' = [jCaddy EXCEPT !.tab = tab, !.sites = n, !.at = at]
      BY <1>12 DEF Edge!Provision
    <2>2. jCaddy \in Edge!Caddies /\ (jCaddy.tab = Edge!NoTable \/ Edge!Wrote(jHist, jCaddy.tab)) /\
          (jCaddy.read = Edge!NoTable \/ Edge!Wrote(jHist, jCaddy.read))
      BY <1>t DEF C
    <2>3. tab \in Edge!Tables /\ at \in {"up", "load"} /\ n \in Int BY <2>2 DEF Edge!Caddies
    <2>4. tab = Edge!NoTable \/ Edge!Wrote(jHist, tab) BY <2>2
    <2>5. tab = jCaddy.tab \/ Edge!Wrote(jHist, tab) BY <2>2
    <2> HIDE DEF tab, at, n
    <2>6. jCaddy' \in Edge!Caddies /\ jCaddy'.at = at /\ jCaddy'.tab = tab /\ jCaddy'.read = jCaddy.read
      BY <2>1, <2>2, <2>3 DEF Edge!Caddies
    <2>7. C(jHist, jCaddy') BY <2>2, <2>3, <2>4, <2>6 DEF C
    <2>8. Inv BY <2>1, <2>7, <1>t, <1>q
    <2>9. CASE Edge!Wrote(jHist, tab)
      <3>1. Edge!Promise!Install(tab.gen) /\ tab.gen \in 1 .. Len(jHist)
        BY <2>1, <2>3, <2>6, <2>9, <1>i
      <3>2. Edge!Promise!Load BY <2>1, <2>6, <3>1 DEF Edge!Promise!Load
      <3> QED BY <2>8, <3>2 DEF Edge!Promise!Next
    <2>10. CASE tab = jCaddy.tab
      <3>1. CASE at = "up"
        <4>1. Edge!Promise!Ready BY <2>1, <2>6, <2>10, <3>1 DEF Edge!Promise!Ready
        <4> QED BY <2>8, <4>1 DEF Edge!Promise!Next
      <3>2. CASE at = "load"
        <4>1. UNCHANGED Edge!Promise!vars BY <2>1, <2>6, <2>10, <3>2 DEF Edge!Promise!vars
        <4> QED BY <2>8, <4>1
      <3> QED BY <2>3, <3>1, <3>2
    <2> QED BY <2>5, <2>9, <2>10
  <1>13. ASSUME Edge!CaddyExits PROVE Goal
    <2>1. UNCHANGED <<jDb, jFile, jHist, jPush>> /\ jCaddy' = Edge!Down /\ jFlight' = {} /\ Edge!Fault
      BY <1>13 DEF Edge!CaddyExits
    <2>2. Inv BY <2>1, <1>t, <1>f, <1>l, <1>q
    <2> QED BY <2>1, <2>2, <1>e
  <1>14. ASSUME Edge!RunnerDies PROVE Goal
    <2>1. UNCHANGED <<jDb, jFile, jHist>> /\ jPush' = Edge!Free /\ jCaddy' = Edge!Down /\
          jFlight' = {} /\ Edge!Fault
      BY <1>14 DEF Edge!RunnerDies
    <2>2. Inv BY <2>1, <1>t, <1>f, <1>l, <1>q
    <2> QED BY <2>1, <2>2, <1>e
  <1>15. ASSUME UNCHANGED edgeVars PROVE Goal
    <2>1. UNCHANGED <<jDb, jFile, jHist, jPush, jCaddy, jFlight, jLeft>> BY <1>15 DEF edgeVars
    <2>2. Inv BY <2>1, <1>t, <1>q
    <2> QED BY <2>1, <2>2, <1>s
  <1>16. Goal
    <2>1. Edge!Next \/ UNCHANGED edgeVars OBVIOUS
    <2> QED BY <2>1, <1>1, <1>2, <1>3, <1>4, <1>5, <1>6, <1>7, <1>8, <1>9, <1>10, <1>11, <1>12,
               <1>13, <1>14, <1>15 DEF Edge!Next, Edge!Pusher, Edge!Caddy
  <1> QED BY <1>16 DEF Inv

(* A step of the suite is a step of the edge, or leaves it alone. *)
LEMMA EdgeNext == [Next]_allVars => [Edge!Next]_edgeVars
  BY DEF Next, allVars, CredStep, TipsStep, PlaneStep, EdgeStep, LiveStep

(* What the edge table's protocol keeps: whatever the pusher holds, the      *)
(* file says, Caddy serves or has read, or is still in flight, is a table    *)
(* that was written, under the generation it was written with.               *)
LEMMA EdgeInductive == Spec => [](Edge!StateOK /\ Edge!WroteInv)
  <1> DEFINE Inv == Edge!StateOK /\ Edge!WroteInv
  <1>1. Init => Inv BY EdgeBounds, EdgeInitL DEF Init
  <1>2. Inv /\ [Next]_allVars => Inv' BY EdgeBounds, EdgeNext, EdgeSteps
  <1> QED BY <1>1, <1>2, PTL DEF Spec

(* For every number of changes, faults and handlers of the Caddy module:     *)
(* each step of push_routes and of Caddy is a step of EdgeServes or leaves   *)
(* it alone.  An edge that is up never goes back to an older table and       *)
(* serves only tables that were written, across pushes that time out and     *)
(* land late, Caddy's exits and the runner's (edge.rs push_routes,           *)
(* edge_supervisor.rs, the Caddy module's handlers).  That it ends on the    *)
(* last table is liveness and stays with TLC.                                *)
THEOREM EdgeServesInOrder == Spec => Edge!EdgeInOrder
  <1>1. Init => Edge!Promise!Init BY EdgeBounds, EdgeInitL DEF Init
  <1>2. Edge!StateOK /\ Edge!WroteInv /\ [Next]_allVars => [Edge!Promise!Next]_(Edge!Promise!vars)
    BY EdgeBounds, EdgeNext, EdgeSteps
  <1> QED BY <1>1, <1>2, EdgeInductive, PTL DEF Spec, Edge!EdgeInOrder


-----------------------------------------------------------------------------
(* Bucket credentials (Credentials). *)
(* The empty row, a call that is free and a sweep at rest are well formed. *)
LEMMA CredNoneL == /\ Cred!NoRow \in Cred!Rows /\ Cred!NoRow.state = "none"
                   /\ Cred!NoTask \in Cred!Calls /\ Cred!NoTask.at = "free"
                   /\ Cred!NoSweep \in Cred!Sweeps /\ Cred!NoSweep.at = "idle"
  <1>1. <<"none", 0>> \in Cred!Handles BY DEF Cred!Handles
  <1>2. Cred!NoRow \in Cred!Rows /\ Cred!NoRow.state = "none" BY <1>1 DEF Cred!NoRow, Cred!Rows
  <1>3. Cred!NoTask \in Cred!Calls /\ Cred!NoTask.at = "free" BY DEF Cred!NoTask, Cred!Calls
  <1>4. Cred!NoSweep \in Cred!Sweeps /\ Cred!NoSweep.at = "idle"
    BY DEF Cred!NoSweep, Cred!Sweeps
  <1> QED BY <1>2, <1>3, <1>4

(* Marking an app's rows changes no key, no handle and no empty row. *)
LEMMA CredMarkL == ASSUME NEW rows \in [CredApps -> Cred!Rows], NEW a \in CredApps
  PROVE /\ Cred!Marked(rows, a) \in [CredApps -> Cred!Rows]
        /\ \A b \in CredApps : /\ (Cred!Marked(rows, a)[b].state = "none") = (rows[b].state = "none")
                               /\ Cred!Marked(rows, a)[b].key = rows[b].key
                               /\ Cred!Marked(rows, a)[b].handle = rows[b].handle
  <1> DEFINE s == IF rows[a].state = "live" THEN "revoking" ELSE rows[a].state
             r == [rows[a] EXCEPT !.state = s]
  <1>1. rows[a] \in Cred!Rows OBVIOUS
  <1>2. s \in {"none", "live", "revoking"} /\ (s = "none") = (rows[a].state = "none")
    BY <1>1 DEF Cred!Rows
  <1>3. Cred!Marked(rows, a) = [rows EXCEPT ![a] = r] BY DEF Cred!Marked
  <1> HIDE DEF s
  <1>4. r \in Cred!Rows /\ r.state = s /\ r.key = rows[a].key /\ r.handle = rows[a].handle
    BY <1>1, <1>2 DEF Cred!Rows
  <1> HIDE DEF r
  <1>5. [rows EXCEPT ![a] = r] \in [CredApps -> Cred!Rows] BY <1>4
  <1>6. \A b \in CredApps : [rows EXCEPT ![a] = r][b] = IF b = a THEN r ELSE rows[b] OBVIOUS
  <1> QED BY <1>2, <1>3, <1>4, <1>5, <1>6

(* Deleting by handle empties the rows that have it and keeps the others. *)
LEMMA CredDropL == ASSUME NEW rows \in [CredApps -> Cred!Rows], NEW h
  PROVE /\ Cred!WithoutHandle(rows, h) \in [CredApps -> Cred!Rows]
        /\ \A b \in CredApps : Cred!WithoutHandle(rows, h)[b] = IF rows[b].handle = h THEN Cred!NoRow ELSE rows[b]
  BY CredNoneL DEF Cred!WithoutHandle

(* A random handle is a function of the key alone. *)
LEMMA CredRandomL == ASSUME ~FALSE, NEW id, NEW p PROVE Cred!HandleOf(id, p) = <<"random", id>>
  BY DEF Cred!HandleOf

(* Revoking a handle that no surviving live row has keeps their keys. *)
LEMMA CredKeepL == ASSUME Cred!HandleInv, NEW h, cKeys \ Cred!At(h) \subseteq cKeys',
    \A a \in CredApps : cRows[a].state = "live" /\ cRows'[a] = cRows[a] => cRows[a].handle # h
  PROVE Cred!KeepsLive
  <1> SUFFICES ASSUME NEW a \in CredApps, cRows[a].state = "live", cRows'[a] = cRows[a], NEW k \in cKeys, k.id = cRows[a].key
      PROVE k \in cKeys' BY DEF Cred!KeepsLive
  <1>1. k.handle = cRows[a].handle BY DEF Cred!HandleInv
  <1> QED BY <1>1 DEF Cred!At

(* A step that takes no key away keeps the live ones. *)
LEMMA CredSameL == ASSUME cKeys \subseteq cKeys' PROVE Cred!KeepsLive
  BY DEF Cred!KeepsLive

(* Initially there is no key, no row, no call and no sweep. *)
LEMMA CredInitL ==
  ASSUME Cred!Bounds, Cred!Init
  PROVE  Cred!StateOK /\ Cred!HandleInv /\ Cred!LockInv
  <1>1. Cred!StateOK BY CredNoneL DEF Cred!Init, Cred!Bounds, Cred!StateOK
  <1>2. /\ \A a \in CredApps : cRows[a].state = "none"
        /\ \A t \in CredTasks : cTask[t].at = "free"
        /\ \A s \in Cred!Sweepers : cSweep[s].at = "idle"
    BY CredNoneL DEF Cred!Init
  <1>3. Cred!HandleInv BY <1>2 DEF Cred!Init, Cred!HandleInv
  <1>4. Cred!LockInv BY <1>2 DEF Cred!LockInv
  <1> QED BY <1>1, <1>3, <1>4

(* Every step keeps the invariant and revokes no key a live row names. *)
LEMMA CredSteps ==
  ASSUME Cred!Bounds, ~FALSE, Cred!StateOK, Cred!HandleInv, Cred!LockInv, Cred!Next
  PROVE Cred!StateOK' /\ Cred!HandleInv' /\ Cred!LockInv' /\ Cred!KeepsLive
  <1> DEFINE A(app) == app \in [CredApps -> CredSlugs \cup {"none", "gone"}]
             R(rows, made) == /\ rows \in [CredApps -> Cred!Rows]
                              /\ \A a \in CredApps : rows[a].state # "none" =>
                                     rows[a].key \in 1 .. made /\
                                     rows[a].handle = <<"random", rows[a].key>>
             K(keys, made) == \A k \in keys : k.id \in 1 .. made /\ k.handle = <<"random", k.id>>
             T(task) == task \in [CredTasks -> Cred!Calls]
             J(task, rows, made) == \A t \in CredTasks : task[t].at = "insert" =>
                     task[t].key \in 1 .. made /\ \A a \in CredApps : rows[a].state # "none" => rows[a].key # task[t].key
             W(sweep) == sweep \in [Cred!Sweepers -> Cred!Sweeps]
             Held(task, lock) == /\ \A t \in CredTasks : task[t].at \in {"clear", "mint", "insert"} => lock = t /\ task[t].app \in CredApps
                                 /\ \A t \in CredTasks : task[t].at = "wait" => task[t].app \in CredApps
             Swept(sweep, lock) == \A s \in Cred!Sweepers : sweep[s].at = "sweep" => lock = s
             Weaker(rows, new) == /\ new \in [CredApps -> Cred!Rows]
                                  /\ \A a \in CredApps : new[a].state # "none" =>
                                         rows[a].state # "none" /\ new[a].key = rows[a].key /\
                                         new[a].handle = rows[a].handle
             Inv == Cred!StateOK' /\ Cred!HandleInv' /\ Cred!LockInv'
             Goal == Inv /\ Cred!KeepsLive
  <1>t. /\ A(cApp) /\ R(cRows, cMade) /\ K(cKeys, cMade) /\ T(cTask) /\ J(cTask, cRows, cMade)
        /\ W(cSweep)
        /\ Held(cTask, cLock) /\ Swept(cSweep, cLock) /\ cMade \in Nat /\ cStore \in CredStores
    BY DEF Cred!StateOK, Cred!HandleInv, Cred!LockInv
  <1>q. ASSUME A(cApp'), R(cRows', cMade'), K(cKeys', cMade'), T(cTask'),
               J(cTask', cRows', cMade'), W(cSweep'), 
               Held(cTask', cLock'), Swept(cSweep', cLock'), cMade' \in Nat, cStore' \in CredStores PROVE Inv
    BY <1>q DEF Cred!StateOK, Cred!HandleInv, Cred!LockInv
  <1>r. ASSUME NEW rows, R(rows, cMade) PROVE rows \in [CredApps -> Cred!Rows] BY <1>r
  <1>w. ASSUME NEW new, Weaker(cRows, new) PROVE R(new, cMade) /\ J(cTask, new, cMade)
    BY <1>w, <1>t
  <1>k. ASSUME NEW keys, keys \subseteq cKeys PROVE K(keys, cMade) BY <1>k, <1>t
  <1>m. ASSUME NEW a \in CredApps PROVE Weaker(cRows, Cred!Marked(cRows, a))
    <2>1. cRows \in [CredApps -> Cred!Rows] BY <1>t
    <2> QED BY <2>1, CredMarkL
  <1>x. ASSUME NEW h PROVE Weaker(cRows, Cred!WithoutHandle(cRows, h))
    <2>1. cRows \in [CredApps -> Cred!Rows] BY <1>t
    <2> QED BY <2>1, CredDropL, CredNoneL
  <1>h. ASSUME NEW h, cKeys \ Cred!At(h) \subseteq cKeys', cRows' = Cred!WithoutHandle(cRows, h)
        PROVE  Cred!KeepsLive
    <2>1. cRows \in [CredApps -> Cred!Rows] BY <1>t
    <2>2. \A a \in CredApps : cRows'[a] = IF cRows[a].handle = h THEN Cred!NoRow ELSE cRows[a]
      BY <1>h, <2>1, CredDropL
    <2> QED BY <1>h, <2>2, CredNoneL, CredKeepL
  <1>u. ASSUME NEW t \in CredTasks, NEW c \in Cred!Calls, cTask' = [cTask EXCEPT ![t] = c]
        PROVE T(cTask') /\ cTask'[t] = c /\ \A u \in CredTasks : u # t => cTask'[u] = cTask[u]
    BY <1>t, <1>u
  <1>v. ASSUME NEW s \in Cred!Sweepers, NEW c \in Cred!Sweeps,
               cSweep' = [cSweep EXCEPT ![s] = c]
        PROVE W(cSweep') /\ cSweep'[s] = c /\ \A u \in Cred!Sweepers : u # s => cSweep'[u] = cSweep[u]
    BY <1>t, <1>v
  <1>c. \A t \in CredTasks : cTask[t] \in Cred!Calls BY <1>t
  <1>s. \A s \in Cred!Sweepers : cSweep[s] \in Cred!Sweeps BY <1>t
  <1>n. \A t \in CredTasks : t \notin Cred!Sweepers /\ t # "none" BY DEF Cred!Bounds
  <1>p. \A s \in Cred!Sweepers : s # "none" BY DEF Cred!Sweepers
  <1>d. ASSUME NEW t \in CredTasks, cTask[t].at \in {"clear", "mint", "insert"}, Cred!Done(t)
        PROVE T(cTask') /\ (\A rows, made : J(cTask, rows, made) => J(cTask', rows, made)) /\
              Held(cTask', cLock') /\ Swept(cSweep, cLock')
    <2>1. cTask' = [cTask EXCEPT ![t] = Cred!NoTask] /\ cLock' = "none" BY <1>d DEF Cred!Done
    <2>2. T(cTask') /\ cTask'[t] = Cred!NoTask /\ \A u \in CredTasks : u # t => cTask'[u] = cTask[u]
      BY <2>1, <1>u, CredNoneL
    <2>3. cLock = t BY <1>d, <1>t
    <2>4. \A rows, made : J(cTask, rows, made) => J(cTask', rows, made) BY <2>2, CredNoneL
    <2>5. Held(cTask', cLock') BY <2>2, <2>3, <1>t, CredNoneL
    <2>6. Swept(cSweep, cLock') BY <2>3, <1>t, <1>n
    <2> QED BY <2>2, <2>4, <2>5, <2>6
  <1>b. ASSUME NEW t \in CredTasks, NEW c \in Cred!Calls, cTask' = [cTask EXCEPT ![t] = c],
               cLock' = cLock, c.at # "insert", 
               c.at \in {"clear", "mint", "insert"} => cTask[t].at \in {"clear", "mint", "insert"} /\ c.app = cTask[t].app,
               c.at = "wait" => c.app \in CredApps
        PROVE T(cTask') /\ (\A rows, made : J(cTask, rows, made) => J(cTask', rows, made)) /\
              Held(cTask', cLock')
    <2>1. T(cTask') /\ cTask'[t] = c /\ \A u \in CredTasks : u # t => cTask'[u] = cTask[u]
      BY <1>b, <1>u
    <2>2. \A rows, made : J(cTask, rows, made) => J(cTask', rows, made) BY <1>b, <2>1
    <2>3. Held(cTask', cLock') BY <1>b, <2>1, <1>t
    <2> QED BY <2>1, <2>2, <2>3
  <1>g. ASSUME NEW s \in Cred!Sweepers, NEW c \in Cred!Sweeps,
               cSweep' = [cSweep EXCEPT ![s] = c], c.at = "sweep" => cSweep[s].at = "sweep"
        PROVE W(cSweep') /\ Swept(cSweep', cLock)
    BY <1>g, <1>v, <1>t
  <1> HIDE DEF A, R, K, T, J, W, Held, Swept, Weaker, Inv
  <1>1. ASSUME NEW a \in CredApps, NEW slug \in CredSlugs,
               Cred!Create(a, slug) \/ Cred!Rename(a, slug)
        PROVE  Goal
    <2>1. UNCHANGED <<cRows, cKeys, cMade, cLock, cTask, cSweep, cStore>> /\
          cApp' = [cApp EXCEPT ![a] = slug]
      BY <1>1 DEF Cred!Create, Cred!Rename
    <2>2. A(cApp') BY <2>1, <1>t DEF A
    <2>3. Inv BY <2>1, <2>2, <1>t, <1>q
    <2> QED BY <2>1, <2>3, CredSameL
  <1>2. ASSUME NEW a \in CredApps, Cred!Delete(a) PROVE Goal
    <2>1. UNCHANGED <<cRows, cKeys, cMade, cLock, cTask, cSweep, cStore>> /\
          cApp' = [cApp EXCEPT ![a] = "gone"]
      BY <1>2 DEF Cred!Delete
    <2>2. A(cApp') BY <2>1, <1>t DEF A
    <2>3. Inv BY <2>1, <2>2, <1>t, <1>q
    <2> QED BY <2>1, <2>3, CredSameL
  <1>3. ASSUME NEW a \in CredApps, Cred!RevokeApp(a) PROVE Goal
    <2> DEFINE c == [cSweep["request"] EXCEPT !.at = "list"]
    <2>1. UNCHANGED <<cApp, cKeys, cMade, cLock, cTask, cStore>> /\ cRows' = Cred!Marked(cRows, a) /\
          cSweep' = [cSweep EXCEPT !["request"] = c]
      BY <1>3 DEF Cred!RevokeApp
    <2>2. "request" \in Cred!Sweepers BY DEF Cred!Sweepers
    <2>3. c \in Cred!Sweeps /\ c.at = "list" BY <2>2, <1>s DEF Cred!Sweeps
    <2> HIDE DEF c
    <2>4. W(cSweep') /\ Swept(cSweep', cLock) BY <2>1, <2>2, <2>3, <1>g
    <2>5. R(cRows', cMade) /\ J(cTask, cRows', cMade) BY <2>1, <1>m, <1>w
    <2>6. Inv BY <2>1, <2>4, <2>5, <1>t, <1>q
    <2> QED BY <2>1, <2>6, CredSameL
  <1>4. ASSUME NEW a \in CredApps, Cred!CleanupTimesOut(a) PROVE Goal
    <2>1. UNCHANGED <<cApp, cRows, cKeys, cMade, cLock, cTask, cSweep, cStore>>
      BY <1>4 DEF Cred!CleanupTimesOut
    <2>2. Inv BY <2>1, <1>t, <1>q
    <2> QED BY <2>1, <2>2, CredSameL
  <1>5. ASSUME NEW t \in CredTasks, NEW a \in CredApps, Cred!EnsureBegin(t, a) PROVE Goal
    <2> DEFINE c == [at |-> "wait", app |-> a, prefix |-> cApp[a], key |-> 0]
    <2>1. UNCHANGED <<cApp, cRows, cKeys, cMade, cLock, cSweep, cStore>> /\
          cTask' = [cTask EXCEPT ![t] = c] /\ cApp[a] \in CredSlugs
      BY <1>5 DEF Cred!EnsureBegin, Cred!Exists
    <2>2. c \in Cred!Calls /\ c.at = "wait" /\ c.app = a BY <2>1 DEF Cred!Calls
    <2> HIDE DEF c
    <2>3. T(cTask') /\ J(cTask', cRows, cMade) /\ Held(cTask', cLock') BY <2>1, <2>2, <1>b, <1>t
    <2>4. Inv BY <2>1, <2>3, <1>t, <1>q
    <2> QED BY <2>1, <2>4, CredSameL
  <1>6. ASSUME NEW t \in CredTasks, Cred!EnsureLookup(t) PROVE Goal
    <2>0. UNCHANGED <<cApp, cKeys, cMade, cSweep, cStore>> /\ cTask[t].at = "wait" /\ cLock = "none"
      BY <1>6 DEF Cred!EnsureLookup
    <2>1. CASE cTask' = [cTask EXCEPT ![t] = Cred!NoTask] /\ UNCHANGED <<cRows, cLock>>
      <3>1. T(cTask') /\ J(cTask', cRows, cMade) /\ Held(cTask', cLock')
        BY <2>1, CredNoneL, <1>b, <1>t
      <3>2. Inv BY <2>0, <2>1, <3>1, <1>t, <1>q
      <3> QED BY <2>0, <3>2, CredSameL
    <2>2. CASE cRows' = Cred!Marked(cRows, cTask[t].app) /\ cLock' = t /\
               cTask' = [cTask EXCEPT ![t] = [@ EXCEPT !.at = "clear"]]
      <3> DEFINE c == [cTask[t] EXCEPT !.at = "clear"]
      <3>1. cTask' = [cTask EXCEPT ![t] = c] BY <2>2
      <3>2. c \in Cred!Calls /\ c.at = "clear" /\ c.app = cTask[t].app BY <1>c DEF Cred!Calls
      <3> HIDE DEF c
      <3>3. T(cTask') /\ cTask'[t] = c /\ \A u \in CredTasks : u # t => cTask'[u] = cTask[u]
        BY <3>1, <3>2, <1>u
      <3>4. cTask[t].app \in CredApps BY <2>0, <1>t DEF Held
      <3>5. \A u \in CredTasks : cTask[u].at \notin {"clear", "mint", "insert"}
        BY <2>0, <1>t, <1>n DEF Held
      <3>6. Held(cTask', cLock') BY <2>2, <3>2, <3>3, <3>4, <3>5, <1>t DEF Held
      <3>7. Swept(cSweep, cLock') BY <2>0, <1>t, <1>p DEF Swept
      <3>8. R(cRows', cMade) BY <2>2, <3>4, <1>m, <1>w
      <3>9. J(cTask', cRows', cMade) BY <3>2, <3>3, <3>5 DEF J
      <3>10. Inv BY <2>0, <3>3, <3>6, <3>7, <3>8, <3>9, <1>t, <1>q
      <3> QED BY <2>0, <3>10, CredSameL
    <2> QED BY <1>6, <2>1, <2>2 DEF Cred!EnsureLookup
  <1>7. ASSUME NEW t \in CredTasks, Cred!EnsureClear(t) PROVE Goal
    <2>0. UNCHANGED <<cApp, cMade, cSweep, cStore>> /\ cTask[t].at = "clear"
      BY <1>7 DEF Cred!EnsureClear
    <2>1. CASE cTask' = [cTask EXCEPT ![t] = [@ EXCEPT !.at = "mint"]] /\
               UNCHANGED <<cRows, cKeys, cLock>>
      <3> DEFINE c == [cTask[t] EXCEPT !.at = "mint"]
      <3>1. cTask' = [cTask EXCEPT ![t] = c] BY <2>1
      <3>2. c \in Cred!Calls /\ c.at = "mint" /\ c.app = cTask[t].app BY <1>c DEF Cred!Calls
      <3> HIDE DEF c
      <3>3. T(cTask') /\ J(cTask', cRows, cMade) /\ Held(cTask', cLock')
        BY <2>0, <2>1, <3>1, <3>2, <1>b, <1>t
      <3>4. Inv BY <2>0, <2>1, <3>3, <1>t, <1>q
      <3> QED BY <2>1, <3>4, CredSameL
    <2>2. ASSUME NEW a \in Cred!Pending(t), cKeys' = Cred!Revoked(cRows[a].handle),
                 cRows' = Cred!WithoutHandle(cRows, cRows[a].handle), UNCHANGED <<cLock, cTask>>
          PROVE Goal
      <3> DEFINE h == cRows[a].handle
      <3>1. cKeys' = cKeys \ Cred!At(h) /\ cRows' = Cred!WithoutHandle(cRows, h)
        BY <2>2 DEF Cred!Revoked
      <3> HIDE DEF h
      <3>2. Cred!KeepsLive BY <3>1, <1>h
      <3>3. K(cKeys', cMade) BY <3>1, <1>k
      <3>4. R(cRows', cMade) /\ J(cTask, cRows', cMade) BY <3>1, <1>x, <1>w
      <3>5. Inv BY <2>0, <2>2, <3>3, <3>4, <1>t, <1>q
      <3> QED BY <3>2, <3>5
    <2>3. CASE Cred!Done(t) /\ UNCHANGED <<cRows, cKeys>>
      <3>1. T(cTask') /\ J(cTask', cRows, cMade) /\ Held(cTask', cLock') /\ Swept(cSweep, cLock')
        BY <2>0, <2>3, <1>d, <1>t
      <3>2. Inv BY <2>0, <2>3, <3>1, <1>t, <1>q
      <3> QED BY <2>3, <3>2, CredSameL
    <2> QED BY <1>7, <2>1, <2>2, <2>3 DEF Cred!EnsureClear
  <1>8. ASSUME NEW t \in CredTasks, Cred!EnsureMint(t) PROVE Goal
    <2> DEFINE id == cMade + 1
               handle == Cred!HandleOf(id, cTask[t].prefix)
               key == [id |-> id, handle |-> handle, prefix |-> cTask[t].prefix, store |-> cStore]
    <2>0. UNCHANGED <<cApp, cRows, cSweep, cStore>> /\ cTask[t].at = "mint" /\ cMade' = id
      BY <1>8 DEF Cred!EnsureMint
    <2>1. key.id = id /\ key.handle = <<"random", id>> /\ handle = <<"random", id>>
      BY CredRandomL
    <2>2. cKeys' \subseteq (cKeys \ Cred!At(handle)) \cup {key} /\
          cKeys \ Cred!At(handle) \subseteq cKeys'
      BY <1>8 DEF Cred!EnsureMint, Cred!Cleared, Cred!Revoked
    <2> HIDE DEF handle, key
    <2>3. id \in Nat /\ 1 .. cMade \subseteq 1 .. id /\ id \in 1 .. id /\ id \notin 1 .. cMade
      BY <1>t
    <2>4. K(cKeys', id) BY <2>1, <2>2, <2>3, <1>t DEF K
    <2>5. R(cRows, id) BY <2>3, <1>t DEF R
    <2>6. J(cTask, cRows, id) BY <2>3, <1>t DEF J
    <2>7. Cred!KeepsLive
      <3>1. \A a \in CredApps : cRows[a].state = "live" => cRows[a].handle # handle
        BY <2>1, <2>3, <1>t DEF R
      <3> QED BY <2>2, <3>1, CredKeepL
    <2>8. CASE cTask' = [cTask EXCEPT ![t] = [@ EXCEPT !.at = "insert", !.key = id]] /\
               UNCHANGED <<cLock>>
      <3> DEFINE c == [cTask[t] EXCEPT !.at = "insert", !.key = id]
      <3>1. cTask' = [cTask EXCEPT ![t] = c] BY <2>8
      <3>2. cTask[t] \in Cred!Calls /\ id \in Nat BY <2>3, <1>c
      <3> HIDE DEF id
      <3>3. c \in Cred!Calls /\ c.at = "insert" /\ c.app = cTask[t].app /\ c.key = id
        BY <3>2 DEF Cred!Calls
      <3> HIDE DEF c
      <3>4. T(cTask') /\ cTask'[t] = c /\ \A u \in CredTasks : u # t => cTask'[u] = cTask[u]
        BY <3>1, <3>3, <1>u
      <3>5. Held(cTask', cLock') BY <2>0, <2>8, <3>3, <3>4, <1>t DEF Held
      <3>6. \A a \in CredApps : cRows[a].state # "none" => cRows[a].key # id BY <2>3, <1>t DEF R
      <3>7. J(cTask', cRows, id) BY <2>3, <2>6, <3>3, <3>4, <3>6 DEF J
      <3>8. Inv BY <2>0, <2>3, <2>4, <2>5, <2>8, <3>4, <3>5, <3>7, <1>t, <1>q
      <3> QED BY <2>7, <3>8
    <2>9. CASE Cred!Done(t)
      <3>1. T(cTask') /\ J(cTask', cRows, id) /\ Held(cTask', cLock') /\ Swept(cSweep, cLock')
        BY <2>0, <2>6, <2>9, <1>d
      <3>2. Inv BY <2>0, <2>3, <2>4, <2>5, <3>1, <1>t, <1>q
      <3> QED BY <2>7, <3>2
    <2> QED BY <1>8, <2>8, <2>9 DEF Cred!EnsureMint
  <1>9. ASSUME NEW t \in CredTasks, Cred!EnsureInsert(t) PROVE Goal
    <2> DEFINE a == cTask[t].app
               handle == Cred!HandleOf(cTask[t].key, cTask[t].prefix)
               row == [state |-> "live", key |-> cTask[t].key, handle |-> handle, prefix |-> cTask[t].prefix, store |-> cStore, readable |-> TRUE]
    <2>0. UNCHANGED <<cApp, cMade, cSweep, cStore>> /\ cTask[t].at = "insert" /\ Cred!Done(t)
      BY <1>9 DEF Cred!EnsureInsert
    <2>1. handle = <<"random", cTask[t].key>> BY CredRandomL
    <2>2. cTask[t].key \in 1 .. cMade /\ \A b \in CredApps : cRows[b].state # "none" => cRows[b].key # cTask[t].key
      BY <2>0, <1>t DEF J
    <2>3. T(cTask') /\ (\A rows, made : J(cTask, rows, made) => J(cTask', rows, made)) /\
          Held(cTask', cLock') /\ Swept(cSweep, cLock')
      BY <2>0, <1>d
    <2>4. CASE cRows' = [cRows EXCEPT ![a] = row] /\ UNCHANGED <<cKeys>>
      <3>1. a \in CredApps /\ cTask[t] \in Cred!Calls BY <2>0, <1>t, <1>c DEF Held
      <3>2. handle \in Cred!Handles BY <2>1, <2>2, <1>t DEF Cred!Handles
      <3>3. cTask[t].key \in Nat /\ cTask[t].prefix \in CredSlugs \cup {"none"}
        BY <3>1 DEF Cred!Calls
      <3> HIDE DEF a, handle
      <3>4. row \in Cred!Rows /\ row.state = "live" /\ row.key = cTask[t].key /\ row.handle = handle
        BY <3>2, <3>3, <1>t DEF Cred!Rows
      <3> HIDE DEF row
      <3>5. cRows \in [CredApps -> Cred!Rows] BY <1>t DEF R
      <3>6. cRows' \in [CredApps -> Cred!Rows] /\ \A b \in CredApps : cRows'[b] = IF b = a THEN row ELSE cRows[b]
        BY <2>4, <3>1, <3>4, <3>5
      <3>7. R(cRows', cMade) BY <2>1, <2>2, <3>4, <3>6, <1>t DEF R
      <3>8. J(cTask', cRows', cMade)
        <4>1. cTask'[t].at # "insert" BY <2>0, <1>u, CredNoneL DEF Cred!Done
        <4>2. ASSUME NEW u \in CredTasks, u # t PROVE cTask'[u].at # "insert"
          <5>1. cTask'[u] = cTask[u] BY <2>0, <4>2, <1>u, CredNoneL DEF Cred!Done
          <5>2. cLock = t BY <2>0, <1>t DEF Held
          <5> QED BY <4>2, <5>1, <5>2, <1>t DEF Held
        <4> QED BY <4>1, <4>2 DEF J
      <3>9. Inv BY <2>0, <2>3, <2>4, <3>7, <3>8, <1>t, <1>q
      <3> QED BY <2>4, <3>9, CredSameL
    <2>5. CASE cKeys' = Cred!Revoked(handle) /\ UNCHANGED cRows
      <3>1. cKeys' = cKeys \ Cred!At(handle) BY <2>5 DEF Cred!Revoked
      <3> HIDE DEF handle
      <3>2. K(cKeys', cMade) BY <3>1, <1>k
      <3>3. \A b \in CredApps : cRows[b].state = "live" => cRows[b].handle # handle
        BY <2>1, <2>2, <1>t DEF R
      <3>4. Cred!KeepsLive BY <3>1, <3>3, CredKeepL
      <3>5. Inv BY <2>0, <2>3, <2>5, <3>2, <1>t, <1>q
      <3> QED BY <3>4, <3>5
    <2>6. CASE UNCHANGED <<cRows, cKeys>>
      <3>1. Inv BY <2>0, <2>3, <2>6, <1>t, <1>q
      <3> QED BY <2>6, <3>1, CredSameL
    <2> QED BY <1>9, <2>4, <2>5, <2>6 DEF Cred!EnsureInsert
  <1>10. ASSUME NEW s \in Cred!Sweepers, Cred!SweepList(s) PROVE Goal
    <2> DEFINE rs == {cRows[a] : a \in Cred!Of("revoking")}
               at == IF Cred!Of("revoking") = {} THEN Cred!AfterSweep(s) ELSE "wait"
               c == [cSweep[s] EXCEPT !.rows = rs, !.at = at]
    <2>1. UNCHANGED <<cApp, cRows, cKeys, cMade, cLock, cTask, cStore>> /\
          cSweep' = [cSweep EXCEPT ![s] = c]
      BY <1>10 DEF Cred!SweepList
    <2>2. rs \in SUBSET Cred!Rows BY <1>t DEF R, Cred!Of
    <2>3. at \in {"idle", "orphans", "wait"} BY DEF Cred!AfterSweep
    <2>4. cSweep[s] \in Cred!Sweeps BY <1>s
    <2> HIDE DEF rs, at
    <2>5. c \in Cred!Sweeps /\ c.at # "sweep" BY <2>2, <2>3, <2>4 DEF Cred!Sweeps
    <2> HIDE DEF c
    <2>6. W(cSweep') /\ Swept(cSweep', cLock) BY <2>1, <2>5, <1>g
    <2>7. Inv BY <2>1, <2>6, <1>t, <1>q
    <2> QED BY <2>1, <2>7, CredSameL
  <1>11. ASSUME NEW s \in Cred!Sweepers, Cred!SweepLock(s) PROVE Goal
    <2> DEFINE c == [cSweep[s] EXCEPT !.at = "sweep"]
    <2>1. UNCHANGED <<cApp, cRows, cKeys, cMade, cTask, cStore>> /\
          cSweep' = [cSweep EXCEPT ![s] = c] /\ cLock = "none" /\ cLock' = s
      BY <1>11 DEF Cred!SweepLock
    <2>2. c \in Cred!Sweeps BY <1>s DEF Cred!Sweeps
    <2> HIDE DEF c
    <2>3. W(cSweep') /\ \A u \in Cred!Sweepers : u # s => cSweep'[u] = cSweep[u]
      BY <2>1, <2>2, <1>v
    <2>4. Swept(cSweep', cLock') BY <2>1, <2>3, <1>t, <1>p DEF Swept
    <2>5. Held(cTask, cLock') BY <2>1, <1>t, <1>n DEF Held
    <2>6. Inv BY <2>1, <2>3, <2>4, <2>5, <1>t, <1>q
    <2> QED BY <2>1, <2>6, CredSameL
  <1>12. ASSUME NEW s \in Cred!Sweepers, Cred!SweepEnd(s) PROVE Goal
    <2> DEFINE at == Cred!AfterSweep(s)
               c == [cSweep[s] EXCEPT !.at = at]
    <2>1. /\ UNCHANGED <<cApp, cRows, cKeys, cMade, cTask, cStore>>
          /\ cSweep' = [cSweep EXCEPT ![s] = c]
          /\ cSweep[s].at = "sweep" /\ cLock' = "none"
      BY <1>12 DEF Cred!SweepEnd
    <2>2. at \in {"idle", "orphans"} BY DEF Cred!AfterSweep
    <2>3. cSweep[s] \in Cred!Sweeps BY <1>s
    <2> HIDE DEF at
    <2>4. c \in Cred!Sweeps /\ c.at # "sweep" BY <2>2, <2>3 DEF Cred!Sweeps
    <2> HIDE DEF c
    <2>5. W(cSweep') /\ cSweep'[s] = c /\ \A u \in Cred!Sweepers : u # s => cSweep'[u] = cSweep[u]
      BY <2>1, <2>4, <1>v
    <2>6. cLock = s BY <2>1, <1>t DEF Swept
    <2>7. Swept(cSweep', cLock') BY <2>4, <2>5, <2>6, <1>t DEF Swept
    <2>8. Held(cTask, cLock') BY <2>6, <1>t, <1>n DEF Held
    <2>9. Inv BY <2>1, <2>5, <2>7, <2>8, <1>t, <1>q
    <2> QED BY <2>1, <2>9, CredSameL
  <1>13. ASSUME NEW s \in Cred!Sweepers, NEW row \in cSweep[s].rows, Cred!SweepRow(s, row)
         PROVE  Goal
    <2> DEFINE left == cSweep[s].rows \ {row}
               c == [cSweep[s] EXCEPT !.rows = left]
               h == row.handle
    <2>1. UNCHANGED <<cApp, cMade, cLock, cTask, cStore>> /\ cSweep' = [cSweep EXCEPT ![s] = c]
      BY <1>13 DEF Cred!SweepRow
    <2>2. cSweep[s] \in Cred!Sweeps BY <1>s
    <2>3. left \in SUBSET Cred!Rows BY <2>2 DEF Cred!Sweeps
    <2> HIDE DEF left
    <2>4. c \in Cred!Sweeps /\ c.at = cSweep[s].at BY <2>2, <2>3 DEF Cred!Sweeps
    <2> HIDE DEF c
    <2>5. W(cSweep') /\ Swept(cSweep', cLock) BY <2>1, <2>4, <1>g
    <2>6. CASE cRows' = Cred!WithoutHandle(cRows, h) /\ cKeys \ Cred!At(h) \subseteq cKeys' /\
               cKeys' \subseteq cKeys
      <3> HIDE DEF h
      <3>1. Cred!KeepsLive BY <2>6, <1>h
      <3>2. K(cKeys', cMade) BY <2>6, <1>k
      <3>3. R(cRows', cMade) /\ J(cTask, cRows', cMade) BY <2>6, <1>x, <1>w
      <3>4. Inv BY <2>1, <2>5, <3>2, <3>3, <1>t, <1>q
      <3> QED BY <3>1, <3>4
    <2>7. CASE UNCHANGED <<cRows, cKeys>>
      <3>1. Inv BY <2>1, <2>5, <2>7, <1>t, <1>q
      <3> QED BY <2>7, <3>1, CredSameL
    <2> QED BY <1>13, <2>6, <2>7 DEF Cred!SweepRow, Cred!Revoked
  <1>14. ASSUME Cred!OrphanList PROVE Goal
    <2> DEFINE listed == Cred!Managed \ Cred!Named(cRows)
               at == IF listed = {} THEN "idle" ELSE "candidates"
               c == [at |-> at, rows |-> {}, handles |-> listed]
    <2>1. UNCHANGED <<cApp, cRows, cKeys, cMade, cLock, cTask, cStore>>
      BY <1>14 DEF Cred!OrphanList
    <2>2. "loop" \in Cred!Sweepers BY DEF Cred!Sweepers
    <2>3. listed \in SUBSET Cred!Handles
      <3>1. \A k \in cKeys : k.handle \in Cred!Handles BY <1>t DEF K, Cred!Handles
      <3> QED BY <3>1 DEF Cred!Managed
    <2>4. at \in {"idle", "candidates"} OBVIOUS
    <2>e. cSweep' = [cSweep EXCEPT !["loop"] = c] \/ cSweep' = [cSweep EXCEPT !["loop"] = Cred!NoSweep]
      BY <1>14 DEF Cred!OrphanList
    <2> HIDE DEF listed, at
    <2>5. c \in Cred!Sweeps /\ c.at # "sweep" BY <2>3, <2>4 DEF Cred!Sweeps
    <2> HIDE DEF c
    <2>6. W(cSweep') /\ Swept(cSweep', cLock) BY <2>2, <2>5, <2>e, CredNoneL, <1>g
    <2>7. Inv BY <2>1, <2>6, <1>t, <1>q
    <2> QED BY <2>1, <2>7, CredSameL
  <1>15. ASSUME NEW handle \in cSweep["loop"].handles, Cred!OrphanTake(handle) PROVE Goal
    <2> DEFINE left == cSweep["loop"].handles \ {handle}
               at == IF left = {} THEN "idle" ELSE "candidates"
               c == [cSweep["loop"] EXCEPT !.handles = left, !.at = at]
    <2>1. UNCHANGED <<cApp, cRows, cMade, cLock, cTask, cStore>> /\
          cSweep' = [cSweep EXCEPT !["loop"] = c]
      BY <1>15 DEF Cred!OrphanTake
    <2>2. "loop" \in Cred!Sweepers BY DEF Cred!Sweepers
    <2>3. cSweep["loop"] \in Cred!Sweeps BY <2>2, <1>s
    <2>4. left \in SUBSET Cred!Handles BY <2>3 DEF Cred!Sweeps
    <2>5. at \in {"idle", "candidates"} OBVIOUS
    <2> HIDE DEF left, at
    <2>6. c \in Cred!Sweeps /\ c.at = at BY <2>3, <2>4, <2>5 DEF Cred!Sweeps
    <2> HIDE DEF c
    <2>7. W(cSweep') /\ Swept(cSweep', cLock) BY <2>1, <2>2, <2>5, <2>6, <1>g
    <2>8. CASE handle \notin Cred!Named(cRows) /\ cKeys' = Cred!Revoked(handle)
      <3>1. cKeys' = cKeys \ Cred!At(handle) BY <2>8 DEF Cred!Revoked
      <3>2. K(cKeys', cMade) BY <3>1, <1>k
      <3>3. \A a \in CredApps : cRows[a].state = "live" => cRows[a].handle # handle
        BY <2>8 DEF Cred!Named
      <3>4. Cred!KeepsLive BY <3>1, <3>3, CredKeepL
      <3>5. Inv BY <2>1, <2>7, <3>2, <1>t, <1>q
      <3> QED BY <3>4, <3>5
    <2>9. CASE UNCHANGED cKeys
      <3>1. Inv BY <2>1, <2>7, <2>9, <1>t, <1>q
      <3> QED BY <2>9, <3>1, CredSameL
    <2> QED BY <1>15, <2>8, <2>9 DEF Cred!OrphanTake, Cred!Orphaned
  <1>16. ASSUME Cred!Restart PROVE Goal
    <2>1. PICK rotated \in BOOLEAN, lost \in SUBSET Cred!Of("live") :
              cRows' = [a \in CredApps |-> IF a \in lost THEN Cred!NoRow ELSE [cRows[a] EXCEPT !.readable = @ /\ ~rotated]]
      BY <1>16 DEF Cred!Restart
    <2>2. /\ UNCHANGED <<cApp, cKeys, cMade>> /\ cStore' \in CredStores /\ cLock' = "none"
          /\ cTask' = [t \in CredTasks |-> Cred!NoTask]
          /\ cSweep' = [s \in Cred!Sweepers |-> Cred!NoSweep]
      BY <1>16 DEF Cred!Restart
    <2>3. ASSUME NEW a \in CredApps PROVE
              LET r == [cRows[a] EXCEPT !.readable = @ /\ ~rotated] IN
              r \in Cred!Rows /\ r.state = cRows[a].state /\ r.key = cRows[a].key /\
              r.handle = cRows[a].handle
      <3> DEFINE b == cRows[a].readable /\ ~rotated
                 r == [cRows[a] EXCEPT !.readable = b]
      <3>1. cRows[a] \in Cred!Rows BY <1>t DEF R
      <3>2. b \in BOOLEAN OBVIOUS
      <3> HIDE DEF b
      <3>3. r \in Cred!Rows /\ r.state = cRows[a].state /\ r.key = cRows[a].key /\
            r.handle = cRows[a].handle
        BY <3>1, <3>2 DEF Cred!Rows
      <3> QED BY <3>3 DEF b
    <2>4. Weaker(cRows, cRows') BY <2>1, <2>3, CredNoneL DEF Weaker
    <2>5. R(cRows', cMade) BY <2>4, <1>w
    <2>6. T(cTask') /\ J(cTask', cRows', cMade) /\ Held(cTask', cLock')
      BY <2>2, CredNoneL DEF T, J, Held
    <2>7. W(cSweep') /\ Swept(cSweep', cLock') BY <2>2, CredNoneL DEF W, Swept
    <2>8. Inv BY <2>2, <2>5, <2>6, <2>7, <1>t, <1>q
    <2> QED BY <2>2, <2>8, CredSameL
  <1>17. Goal
    BY <1>1, <1>2, <1>3, <1>4, <1>5, <1>6, <1>7, <1>8, <1>9, <1>10, <1>11, <1>12, <1>13, <1>14,
       <1>15, <1>16 DEF Cred!Next, Cred!Step
  <1> QED BY <1>17 DEF Inv

(* A step that leaves the credentials alone keeps the invariant. *)
LEMMA CredStutter ==
  ASSUME Cred!StateOK, Cred!HandleInv, Cred!LockInv, UNCHANGED credVars
  PROVE  Cred!StateOK' /\ Cred!HandleInv' /\ Cred!LockInv'
  BY DEF Cred!StateOK, Cred!HandleInv, Cred!LockInv, credVars

(* A step of the suite is a step of the credentials, or leaves them alone. *)
LEMMA CredNext == [Next]_allVars => [Cred!Next]_credVars
  BY DEF Next, allVars, CredStep, TipsStep, PlaneStep, EdgeStep, LiveStep

(* What the credentials keep: a handle stands for one key and at most one    *)
(* row, a key in the hands of a call that has MUTATE is in no row, and       *)
(* MUTATE has one holder.                                                    *)
LEMMA CredInductive == Spec => [](Cred!StateOK /\ Cred!HandleInv /\ Cred!LockInv)
  <1> DEFINE Inv == Cred!StateOK /\ Cred!HandleInv /\ Cred!LockInv
  <1>1. Init => Inv BY CredBounds, CredInitL DEF Init
  <1>2. Inv /\ [Next]_allVars => Inv'
    <2>1. Inv /\ Cred!Next => Inv' BY CredBounds, CredSteps
    <2>2. Inv /\ UNCHANGED credVars => Inv' BY CredStutter
    <2> QED BY <2>1, <2>2, CredNext
  <1> QED BY <1>1, <1>2, PTL DEF Spec

(* For every set of apps, slugs, stores and concurrent calls: a key that a   *)
(* live row names is never revoked at the store, neither by a sweep working  *)
(* from rows it listed before it waited for MUTATE nor by the orphan sweep,  *)
(* whose listing may hold a key minted meanwhile (credentials.rs sweep,      *)
(* orphan_sweep; providers with random handles).                             *)
THEOREM LiveKeysAreKept == Spec => LiveKeysStay
  <1> DEFINE Inv == Cred!StateOK /\ Cred!HandleInv /\ Cred!LockInv
  <1>1. Inv /\ [Next]_allVars => [Cred!KeepsLive]_credVars
    <2>1. Inv /\ Cred!Next => Cred!KeepsLive BY CredBounds, CredSteps
    <2> QED BY <2>1, CredNext
  <1> QED BY <1>1, CredInductive, PTL
             DEF Spec, LiveKeysStay, Cred!LiveKeysStay, Cred!vars, credVars


=============================================================================
