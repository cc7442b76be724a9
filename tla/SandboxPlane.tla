---------------------------- MODULE SandboxPlane ----------------------------
(***************************************************************************)
(* The host side of sandboxes (host/sandbox/plane.rs, relay.rs, gateway.rs *)
(* ensure_table, and the task main.rs spawns): the bridges celld's         *)
(* containers sit on, the relay container, the redirect table and the      *)
(* status /ready shows, kept up by a pass every 30 s and by a relay pass   *)
(* of its own that a failed dial triggers.  Two installs share the engine; *)
(* each removes the relays whose owner is gone.                            *)
(*                                                                         *)
(* A container is a number, its image the version it was started from.     *)
(* One bridge stands for celld's two; its subnet is a number, 0 none.      *)
(***************************************************************************)
EXTENDS Naturals, FiniteSets

CONSTANTS
    Installs,   \* the noite containers on the engine
    Passes,     \* tasks that run relay::ensure, a function to the install
    MaxEvents   \* BOUND: installs recreated, bridges replaced, relays stopped,
                \* relay passes a failed dial triggers, docker commands that fail

VARIABLES
    pOwn,     \* install -> its container id and image
    pRelays,  \* the relay containers on the engine
    pBridge,  \* the subnet of celld's bridge, 0 while there is none
    pTable,   \* install -> the subnets of its redirect table, and whether it is known good
    pPass,    \* pass -> where it is
    pProbe,   \* install -> the recorded status
    pNext,    \* the last id and subnet given out
    pLeft     \* what is left of the bound

vars == <<pOwn, pRelays, pBridge, pTable, pPass, pProbe, pNext, pLeft>>

Tasks == DOMAIN Passes
Mine(t) == pOwn[Passes[t]]
Waiting == [pc |-> "wait", nets |-> {}, todo |-> {}, ours |-> FALSE]

Spend == pLeft > 0 /\ pLeft' = pLeft - 1
At(t, pc) == pPass[t].pc = pc
Go(t, pc) == pPass' = [pPass EXCEPT ![t].pc = pc]

(* Of the tasks of an install one is the refresh loop, the rest are passes *)
(* a failed dial triggers; only the loop does networks, table and status.  *)
Loop(t) == t = "loop" \/ t = "loop2"

Serving(i) == \E r \in pRelays : r.name = pOwn[i].id /\ r.image = pOwn[i].image /\ r.running

-----------------------------------------------------------------------------
(* The world: installs are recreated, with another id or, under a fixed    *)
(* hostname, with another image; relays stop; celld replaces a bridge.     *)

Recreate(i) ==
    /\ Spend
    /\ \/ pOwn' = [pOwn EXCEPT ![i].id = pNext + 1] /\ pNext' = pNext + 1
       \/ pOwn' = [pOwn EXCEPT ![i].image = @ + 1] /\ UNCHANGED pNext
    /\ pTable' = [pTable EXCEPT ![i] = [nets |-> {}, ok |-> FALSE]]
    /\ pPass' = [t \in Tasks |-> IF Passes[t] = i THEN Waiting ELSE pPass[t]]
    /\ pProbe' = [pProbe EXCEPT ![i] = "starting"]
    /\ UNCHANGED <<pRelays, pBridge>>

RelayStops(r) ==
    /\ Spend
    /\ r.running
    /\ pRelays' = (pRelays \ {r}) \cup {[r EXCEPT !.running = FALSE]}
    /\ UNCHANGED <<pOwn, pBridge, pTable, pPass, pProbe, pNext>>

BridgeMoves ==
    /\ Spend
    /\ pBridge' = pNext + 1
    /\ pNext' = pNext + 1
    /\ UNCHANGED <<pOwn, pRelays, pTable, pPass, pProbe>>

-----------------------------------------------------------------------------
(* ensure_networks: the bridge is inspected, or created and inspected; an  *)
(* engine that does not answer ends the pass with a status that says so.   *)
Networks(t) ==
    /\ Loop(t) /\ At(t, "wait")
    /\ \/ /\ pBridge' = IF pBridge = 0 THEN pNext + 1 ELSE pBridge
          /\ pNext' = IF pBridge = 0 THEN pNext + 1 ELSE pNext
          /\ pPass' = [pPass EXCEPT ![t].pc = "list", ![t].nets = {pBridge'}]
          /\ UNCHANGED <<pProbe, pLeft>>
       \/ /\ Spend
          /\ \/ /\ pProbe' = [pProbe EXCEPT ![Passes[t]] = "engine unreachable"]
                /\ UNCHANGED pPass
             \/ /\ pPass' = [pPass EXCEPT ![t].pc = "list", ![t].nets = {}]  \* created, its inspect failed
                /\ UNCHANGED pProbe
          /\ UNCHANGED <<pBridge, pNext>>
    /\ UNCHANGED <<pOwn, pRelays, pTable>>

(* trigger_relay_ensure, on a dial that found the relay unreachable.       *)
Trigger(t) ==
    /\ ~Loop(t) /\ At(t, "wait")
    /\ ~Serving(Passes[t])
    /\ Spend
    /\ Go(t, "list")
    /\ UNCHANGED <<pOwn, pRelays, pBridge, pTable, pProbe, pNext>>

(* relay::ensure: own_container (none ends it), the labelled containers    *)
(* and an inspect of each; one that fails is left out.                     *)
ListRelays(t) ==
    /\ At(t, "list")
    /\ \/ pPass' = [pPass EXCEPT ![t].pc = "each", ![t].todo = pRelays, ![t].ours = FALSE] /\ UNCHANGED pLeft
       \/ /\ Spend
          /\ \/ \E some \in SUBSET pRelays :
                    pPass' = [pPass EXCEPT ![t].pc = "each", ![t].todo = some, ![t].ours = FALSE]
             \/ pPass' = [pPass EXCEPT ![t].pc = IF Loop(t) THEN "table" ELSE "wait", ![t].ours = FALSE, ![t].todo = {}]
    /\ UNCHANGED <<pOwn, pRelays, pBridge, pTable, pProbe, pNext>>

(* Mutant: a relay under this name is kept whether or not it runs.         *)
KeptAnyway(t, r) == r.image = Mine(t).image

(* The relay under this install's name is kept when it runs from its image.*)
Kept(t, r) == r.image = Mine(t).image /\ r.running

OwnerExists(r) == \E i \in Installs : pOwn[i].id = r.owner

(* One relay of the list: kept; replaced; left to a live owner; removed    *)
(* once its owner is gone, or when the owner's inspect fails.  rm -f of a  *)
(* relay that is already gone does nothing, and may itself fail.           *)
EachRelay(t) ==
    /\ At(t, "each")
    /\ \E r \in pPass[t].todo :
           LET ours == r.name = Mine(t).id
               rest == pPass[t].todo \ {r} IN
           \/ /\ ours /\ Kept(t, r)
              /\ pPass' = [pPass EXCEPT ![t].todo = rest, ![t].ours = TRUE]
              /\ UNCHANGED <<pRelays, pLeft>>
           \/ /\ (ours /\ ~Kept(t, r)) \/ (~ours /\ ~OwnerExists(r))
              /\ pPass' = [pPass EXCEPT ![t].todo = rest]
              /\ \/ pRelays' = {x \in pRelays : x.id # r.id} /\ UNCHANGED pLeft
                 \/ Spend /\ UNCHANGED pRelays
           \/ /\ ~ours /\ OwnerExists(r)
              /\ pPass' = [pPass EXCEPT ![t].todo = rest]
              /\ \/ UNCHANGED <<pRelays, pLeft>>
                 \/ Spend /\ pRelays' = {x \in pRelays : x.id # r.id}
    /\ UNCHANGED <<pOwn, pBridge, pTable, pProbe, pNext>>

(* docker run when ours is not running: a container under the name, left   *)
(* behind or another pass's, makes it fail.                                *)
RunRelay(t) ==
    LET next == IF Loop(t) THEN "table" ELSE "wait" IN
    /\ At(t, "each")
    /\ pPass[t].todo = {}
    /\ \/ /\ pPass[t].ours
          /\ Go(t, next)
          /\ UNCHANGED <<pRelays, pNext, pLeft>>
       \/ /\ ~pPass[t].ours
          /\ \A r \in pRelays : r.name # Mine(t).id
          /\ pRelays' = pRelays \cup {[id |-> pNext + 1, name |-> Mine(t).id, owner |-> Mine(t).id, image |-> Mine(t).image,
                                       running |-> TRUE]}
          /\ pNext' = pNext + 1
          /\ pPass' = [pPass EXCEPT ![t].pc = next, ![t].ours = TRUE]
          /\ UNCHANGED pLeft
       \/ /\ ~pPass[t].ours
          /\ \/ (\E r \in pRelays : r.name = Mine(t).id) /\ UNCHANGED pLeft
             \/ Spend
          /\ Go(t, next)
          /\ UNCHANGED <<pRelays, pNext>>
    /\ UNCHANGED <<pOwn, pBridge, pTable, pProbe>>

(* Mutant: a table that was installed once is not installed again.         *)
TableStands(i, nets) == pTable[i].ok

(* Nothing known, or nothing moved, keeps the installed table.             *)
TableKept(i, nets) == nets = {} \/ (pTable[i].ok /\ pTable[i].nets = nets)

(* record, and the first problem sandbox_status shows of it.               *)
SandboxStatus(nets, relay, table) ==
    IF nets = {} THEN "celld networks unavailable"
    ELSE IF ~relay THEN "relay not running"
    ELSE IF ~table THEN "gateway table not installed" ELSE "ok"

(* gateway::ensure_table, and record: a table that stands; else nft, which *)
(* may fail and leave it not known good; then healthy, which may fail.     *)
EnsureTable(t) ==
    LET i == Passes[t]
        nets == pPass[t].nets
        relay == pPass[t].ours /\ Serving(i) IN
    /\ At(t, "table")
    /\ \/ /\ pTable' = IF TableKept(i, nets) THEN pTable ELSE [pTable EXCEPT ![i] = [nets |-> nets, ok |-> TRUE]]
          /\ UNCHANGED pLeft
       \/ /\ ~TableKept(i, nets)
          /\ Spend
          /\ pTable' = [pTable EXCEPT ![i].ok = FALSE]
    /\ pProbe' = [pProbe EXCEPT ![i] = SandboxStatus(nets, relay, pTable'[i].ok)]
    /\ pPass' = [pPass EXCEPT ![t] = Waiting]
    /\ UNCHANGED <<pOwn, pRelays, pBridge, pNext>>

-----------------------------------------------------------------------------
Init ==
    /\ pOwn = [i \in Installs |-> [id |-> i, image |-> 0]]
    /\ pRelays = {}
    /\ pBridge = 0
    /\ pTable = [i \in Installs |-> [nets |-> {}, ok |-> FALSE]]
    /\ pPass = [t \in Tasks |-> Waiting]
    /\ pProbe = [i \in Installs |-> "starting"]
    /\ pNext = Cardinality(Installs)
    /\ pLeft = MaxEvents

PassStep(t) == Networks(t) \/ ListRelays(t) \/ EachRelay(t) \/ RunRelay(t) \/ EnsureTable(t)

Next ==
    \/ \E t \in Tasks : PassStep(t) \/ Trigger(t)
    \/ \E i \in Installs : Recreate(i)
    \/ \E r \in pRelays : RelayStops(r)
    \/ BridgeMoves

(* The refresh loop never stops, and a pass that began goes on.            *)
Fairness == \A t \in Tasks : WF_vars(PassStep(t))
Spec == Init /\ [][Next]_vars /\ Fairness

-----------------------------------------------------------------------------
(* Relays, tables and passes are well formed, and no two containers share  *)
(* a name.                                                                 *)
TypeOK ==
    /\ \A r \in pRelays : r.id \in 1 .. pNext /\ r.running \in BOOLEAN
    /\ \A r, s \in pRelays : r.name = s.name => r = s
    /\ \A t \in Tasks : pPass[t].pc \in {"wait", "list", "each", "table"}
    /\ \A i \in Installs : pTable[i].ok \in BOOLEAN /\ pTable[i].nets \subseteq 1 .. pNext

(* Once nothing moves and no docker command fails any more, every install  *)
(* ends with its own relay running from its own image, a table for the     *)
(* bridge as it is, and a status that says so, whatever the other install  *)
(* and a second pass of its own did to the relays meanwhile (relay.rs      *)
(* ensure, gateway.rs ensure_table).                                       *)
PlaneSettles ==
    <>[](\A i \in Installs :
            /\ Serving(i)
            /\ pTable[i] = [nets |-> {pBridge}, ok |-> TRUE]
            /\ pProbe[i] = "ok")
=============================================================================
