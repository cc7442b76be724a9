----------------------------- MODULE Sandboxes -----------------------------
(***************************************************************************)
(* Sandbox containers of the fleets on one container engine               *)
(* (host/sandbox/engine.rs, engine/validate.rs, registry.rs and the        *)
(* supervisor's fleet_gone_cleanup): the engine proxy's requests, each a   *)
(* chain of engine calls with awaits between them, against fleets that     *)
(* exit and are spawned again, the clean-up of a fleet that is gone, and   *)
(* the boot sweep.  Another install shares the engine.                     *)
(*                                                                         *)
(* What a body may ask for (validate.rs) is kept to its verdict: a request *)
(* here is one the validation passed.  The gateway's dials are not         *)
(* modelled.                                                               *)
(***************************************************************************)
EXTENDS Naturals, FiniteSets

CONSTANTS
    Fleets,     \* fleet keys of this install
    Names,      \* container names a create may ask for
    Requests,   \* requests a runner serves at a time
    MaxIds,     \* BOUND: containers and execs created
    MaxSpawns,  \* BOUND: fleet processes spawned
    MaxReqs,    \* BOUND: requests
    MaxFaults,  \* BOUND: engine calls that fail, names taken over elsewhere
    MaxBoots    \* BOUND: restarts of the runner

VARIABLES
    xEngine,  \* the containers: id, name, owner label, whether the fence's
    xExecs,   \* the engine's execs: id and the container's owner
    xProc,    \* fleet -> its process: none, running or exited
    xPid,     \* fleet -> the registered pid, 0 when none
    xReg,     \* the registry: container refs recorded for a fleet
    xKnown,   \* exec ids remembered for a fleet
    xReq,     \* the requests
    xClose,   \* fleet -> where close_fleet is, and the ids it has listed
    xRunner,  \* where the runner is: up, or at its boot sweep
    xNext,    \* the last id and pid given out
    xActed,   \* history: (fleet, owner of what its request acted on)
    xExcused, \* history: containers a fault or a late create may leave
    xLeft     \* what is left of the bounds

vars == <<xEngine, xExecs, xProc, xPid, xReg, xKnown, xReq, xClose, xRunner, xNext, xActed, xExcused, xLeft>>

NoReq == [pc |-> "none", fleet |-> "", pid |-> 0, op |-> "", name |-> "", id |-> 0, late |-> FALSE]
NotClosing == [pc |-> "none", todo |-> {}]
Ops == {"create", "fence", "plain", "exec", "remove"}

Spend(k) == xLeft[k] > 0 /\ xLeft' = [xLeft EXCEPT ![k] = @ - 1]
Fault == Spend("faults")

(* owner(): the label is <install>:<fleet>; "other" stands for any label   *)
(* of another install.                                                     *)
Labelled(f) == {c \in xEngine : c.owner = f}
Installed == {c \in xEngine : c.owner # "other"}
FreshId == xNext.id + 1
At(q, pc) == xReq[q].pc = pc
Done(q) == xReq' = [xReq EXCEPT ![q] = NoReq]
Step(q, pc) == xReq' = [xReq EXCEPT ![q].pc = pc]

-----------------------------------------------------------------------------
(* Fleets.                                                                 *)

(* ensure_spawned: serve_fleet, the process, register_fleet; only once the *)
(* clean-up of the last process has returned.                              *)
Spawn(f) ==
    /\ xRunner.pc = "up"
    /\ xProc[f] = "none"
    /\ xClose[f] = NotClosing
    /\ Spend("spawns")
    /\ xProc' = [xProc EXCEPT ![f] = "running"]
    /\ xNext' = [xNext EXCEPT !.pid = @ + 1]
    /\ xPid' = [xPid EXCEPT ![f] = xNext.pid + 1]
    /\ UNCHANGED <<xEngine, xExecs, xReg, xKnown, xReq, xClose, xRunner, xActed, xExcused>>

Exit(f) ==
    /\ xProc[f] = "running"
    /\ xProc' = [xProc EXCEPT ![f] = "exited"]
    /\ UNCHANGED <<xEngine, xExecs, xPid, xReg, xKnown, xReq, xClose, xRunner, xNext, xActed, xExcused, xLeft>>

(* Creates of f that are past the peer check and not yet at the engine.    *)
Late(f) == {q \in Requests : xReq[q].fleet = f /\ xReq[q].pc = "create"}

(* fleet_gone_cleanup: unregister_fleet, and close_fleet to its first      *)
(* await (the accept loop, the execs).                                     *)
Gone(f) ==
    /\ xRunner.pc = "up"
    /\ xProc[f] = "exited"
    /\ xProc' = [xProc EXCEPT ![f] = "none"]
    /\ xPid' = [xPid EXCEPT ![f] = 0]
    /\ xKnown' = {k \in xKnown : k.fleet # f}
    /\ xClose' = [xClose EXCEPT ![f] = [pc |-> "list", todo |-> {}]]
    /\ xReq' = [q \in Requests |-> [xReq[q] EXCEPT !.late = @ \/ q \in Late(f)]]
    /\ UNCHANGED <<xEngine, xExecs, xReg, xRunner, xNext, xActed, xExcused, xLeft>>

(* list_labelled: an engine that cannot answer lists nothing.              *)
CloseList(f) ==
    /\ xClose[f].pc = "list"
    /\ \/ /\ xClose' = [xClose EXCEPT ![f] = [pc |-> "delete", todo |-> {c.id : c \in Labelled(f)}]]
          /\ UNCHANGED <<xExcused, xLeft>>
       \/ /\ Fault
          /\ xClose' = [xClose EXCEPT ![f].pc = "delete"]
          /\ xExcused' = xExcused \cup {c.id : c \in Labelled(f)}
    /\ UNCHANGED <<xEngine, xExecs, xProc, xPid, xReg, xKnown, xReq, xRunner, xNext, xActed>>

(* delete_container, one at a time; a failed one is logged and passed      *)
(* over, and the whole of it gives up after 10 s.                          *)
CloseDelete(f) ==
    /\ xClose[f].pc = "delete"
    /\ \E id \in xClose[f].todo :
           \/ /\ xClose' = [xClose EXCEPT ![f].todo = @ \ {id}]
              /\ xEngine' = {c \in xEngine : c.id # id}
              /\ UNCHANGED <<xExcused, xLeft>>
           \/ /\ Fault
              /\ \/ xClose' = [xClose EXCEPT ![f].todo = @ \ {id}] /\ xExcused' = xExcused \cup {id}
                 \/ xClose' = [xClose EXCEPT ![f].todo = {}] /\ xExcused' = xExcused \cup xClose[f].todo
              /\ UNCHANGED xEngine
    /\ UNCHANGED <<xExecs, xProc, xPid, xReg, xKnown, xReq, xRunner, xNext, xActed>>

CloseForget(f) ==
    /\ xClose[f] = [pc |-> "delete", todo |-> {}]
    /\ xReg' = {r \in xReg : r.fleet # f}
    /\ xClose' = [xClose EXCEPT ![f] = NotClosing]
    /\ UNCHANGED <<xEngine, xExecs, xProc, xPid, xKnown, xReq, xRunner, xNext, xActed, xExcused, xLeft>>

-----------------------------------------------------------------------------
(* Requests.                                                               *)

(* celld sends a request on its socket; classify and the validation accept *)
(* it.                                                                     *)
Send(q, f) ==
    /\ xRunner.pc = "up"
    /\ At(q, "none")
    /\ xProc[f] = "running"
    /\ Spend("reqs")
    /\ \E op \in Ops, n \in Names, id \in 0 .. xNext.id :
           /\ op \in {"create", "fence"} => id = 0
           /\ xReq' = [xReq EXCEPT ![q] = [pc |-> "check", fleet |-> f, pid |-> xPid[f], op |-> op, name |-> n, id |-> id, late |-> FALSE]]
    /\ UNCHANGED <<xEngine, xExecs, xProc, xPid, xReg, xKnown, xClose, xRunner, xNext, xActed, xExcused>>

(* forward: where a route goes.  The lists and the inspections of images   *)
(* and networks change nothing and are left out.                           *)
Forwarded(op) == IF op \in {"create", "fence"} THEN "create" ELSE "inspect"

(* Mutant: the peer is checked when the connection is accepted alone.      *)
CheckAtAccept(q) ==
    /\ At(q, "check")
    /\ Step(q, Forwarded(xReq[q].op))
    /\ UNCHANGED <<xEngine, xExecs, xProc, xPid, xReg, xKnown, xClose, xRunner, xNext, xActed, xExcused, xLeft>>

(* handle_request: only the fleet's registered process, at every request.  *)
Check(q) ==
    /\ At(q, "check")
    /\ IF xPid[xReq[q].fleet] = xReq[q].pid
       THEN Step(q, Forwarded(xReq[q].op))
       ELSE Done(q)
    /\ UNCHANGED <<xEngine, xExecs, xProc, xPid, xReg, xKnown, xClose, xRunner, xNext, xActed, xExcused, xLeft>>

(* An app container, and the fence installer, which has no name.           *)
AppContainer(q) == [id |-> FreshId, name |-> xReq[q].name, owner |-> xReq[q].fleet, fence |-> FALSE]
FenceContainer(q) == [id |-> FreshId, name |-> "", owner |-> xReq[q].fleet, fence |-> TRUE]

(* A name in use is refused by the engine.                                 *)
NameFree(n) == n = "" \/ \A c \in xEngine : c.name # n

(* create: the engine's answer may be lost after the container was made.   *)
Create(q) ==
    LET c == IF xReq[q].op = "fence" THEN FenceContainer(q) ELSE AppContainer(q) IN
    /\ At(q, "create")
    /\ \/ /\ NameFree(c.name)
          /\ Spend("ids")
          /\ xEngine' = xEngine \cup {c}
          /\ xNext' = [xNext EXCEPT !.id = FreshId]
          /\ xReq' = [xReq EXCEPT ![q].pc = "record", ![q].id = FreshId]
          /\ xExcused' = IF xReq[q].late THEN xExcused \cup {FreshId} ELSE xExcused
       \/ /\ ~NameFree(c.name) \/ xLeft.ids = 0
          /\ Done(q)
          /\ UNCHANGED <<xEngine, xNext, xExcused, xLeft>>
    /\ UNCHANGED <<xExecs, xProc, xPid, xReg, xKnown, xClose, xRunner, xActed>>

(* record_container, by the name or, of the fence, by the id; an answer    *)
(* that cannot be read records nothing.                                    *)
Record(q) ==
    /\ At(q, "record")
    /\ \/ xReg' = xReg \cup {[ref |-> xReq[q].id, fleet |-> xReq[q].fleet]} /\ UNCHANGED xLeft
       \/ Fault /\ UNCHANGED xReg
    /\ Done(q)
    /\ UNCHANGED <<xEngine, xExecs, xProc, xPid, xKnown, xClose, xRunner, xNext, xActed, xExcused>>

(* The containers the caller's reference, a name or an id, stands for.     *)
Meant(q) == {c \in xEngine : IF xReq[q].id = 0 THEN c.name = xReq[q].name ELSE c.id = xReq[q].id}

(* owned: the engine is asked; a missing container, a foreign one, and an  *)
(* exec into the fence are refused.  The inspected id goes on.             *)
Inspect(q) ==
    /\ At(q, "inspect")
    /\ IF \E c \in Meant(q) : c.owner = xReq[q].fleet /\ ~(c.fence /\ xReq[q].op = "exec")
       THEN LET c == CHOOSE c \in Meant(q) : TRUE IN
            /\ xReq' = [xReq EXCEPT ![q].pc = "call", ![q].id = c.id]
            /\ xReg' = xReg \cup {[ref |-> c.id, fleet |-> xReq[q].fleet]}
       ELSE Done(q) /\ UNCHANGED xReg
    /\ UNCHANGED <<xEngine, xExecs, xProc, xPid, xKnown, xClose, xRunner, xNext, xActed, xExcused, xLeft>>

(* Mutant: the call goes out by the name the caller gave.                  *)
CalledByName(q) == {c \in xEngine : c.name = xReq[q].name}

(* container and remove forward by the inspected canonical id.             *)
Called(q) == {c \in xEngine : c.id = xReq[q].id}

(* The engine's part of the call.                                          *)
Call(q) ==
    /\ At(q, "call")
    /\ xActed' = xActed \cup {<<xReq[q].fleet, c.owner>> : c \in Called(q)}
    /\ xEngine' = IF xReq[q].op = "remove" THEN xEngine \ Called(q) ELSE xEngine
    /\ IF xReq[q].op = "exec" /\ Called(q) # {} /\ xLeft.ids > 0
       THEN /\ Spend("ids")
            /\ xNext' = [xNext EXCEPT !.id = FreshId]
            /\ xExecs' = xExecs \cup {[id |-> FreshId, owner |-> c.owner] : c \in Called(q)}
            /\ xReq' = [xReq EXCEPT ![q].pc = "answer", ![q].id = FreshId]
       ELSE /\ UNCHANGED <<xNext, xExecs, xLeft>>
            /\ IF xReq[q].op = "remove" THEN Step(q, "answer") ELSE Done(q)
    /\ UNCHANGED <<xProc, xPid, xReg, xKnown, xClose, xRunner, xExcused>>

(* The answer: forget_container for a remove, remember_exec for an exec.   *)
Answer(q) ==
    /\ At(q, "answer")
    /\ IF xReq[q].op = "remove"
       THEN xReg' = {r \in xReg : r.ref # xReq[q].id} /\ UNCHANGED xKnown
       ELSE xKnown' = xKnown \cup {[ref |-> xReq[q].id, fleet |-> xReq[q].fleet]} /\ UNCHANGED xReg
    /\ Done(q)
    /\ UNCHANGED <<xEngine, xExecs, xProc, xPid, xClose, xRunner, xNext, xActed, xExcused, xLeft>>

(* exec_start, and the exec's inspect and resize: only an id remembered    *)
(* for the fleet.                                                          *)
ExecStart(f, id) ==
    /\ xRunner.pc = "up"
    /\ xProc[f] = "running"
    /\ [ref |-> id, fleet |-> f] \in xKnown
    /\ xActed' = xActed \cup {<<f, e.owner>> : e \in {x \in xExecs : x.id = id}}
    /\ UNCHANGED <<xEngine, xExecs, xProc, xPid, xReg, xKnown, xReq, xClose, xRunner, xNext, xExcused, xLeft>>

-----------------------------------------------------------------------------
(* The rest of the world, and the runner's life.                           *)

(* The other install creates and removes containers of its own.            *)
Foreign(n) ==
    /\ Fault
    /\ \/ /\ NameFree(n)
          /\ xLeft.ids > 0
          /\ xEngine' = xEngine \cup {[id |-> FreshId, name |-> n, owner |-> "other", fence |-> FALSE]}
          /\ xNext' = [xNext EXCEPT !.id = FreshId]
       \/ /\ xEngine' = {c \in xEngine : c.name # n}
          /\ xEngine' # xEngine
          /\ UNCHANGED xNext
    /\ UNCHANGED <<xExecs, xProc, xPid, xReg, xKnown, xReq, xClose, xRunner, xActed, xExcused>>

(* The runner dies, its fleets with it; registry and requests are memory.  *)
Restart ==
    /\ Spend("boots")
    /\ xProc' = [f \in Fleets |-> "none"]
    /\ xPid' = [f \in Fleets |-> 0]
    /\ xReg' = {} /\ xKnown' = {}
    /\ xReq' = [q \in Requests |-> NoReq]
    /\ xClose' = [f \in Fleets |-> NotClosing]
    /\ xRunner' = [pc |-> "list", todo |-> {}]
    /\ UNCHANGED <<xEngine, xExecs, xNext, xActed, xExcused>>

(* Mutant: the sweep goes by the fleet label, whatever install it names.   *)
SweptEverything == xEngine

(* sweep_boot lists by this install's label.                               *)
Swept == Installed

SweepList ==
    /\ xRunner.pc = "list"
    /\ \/ xRunner' = [pc |-> "delete", todo |-> {c.id : c \in Swept}] /\ UNCHANGED <<xExcused, xLeft>>
       \/ Fault /\ xRunner' = [pc |-> "delete", todo |-> {}] /\ xExcused' = xExcused \cup {c.id : c \in Installed}
    /\ UNCHANGED <<xEngine, xExecs, xProc, xPid, xReg, xKnown, xReq, xClose, xNext, xActed>>

(* delete_container; the boot pass gives up after 20 s.                    *)
SweepDelete ==
    /\ xRunner.pc = "delete"
    /\ \E id \in xRunner.todo :
           \/ /\ xRunner' = [xRunner EXCEPT !.todo = @ \ {id}]
              /\ xActed' = xActed \cup {<<"sweep", c.owner>> : c \in {x \in xEngine : x.id = id /\ x.owner = "other"}}
              /\ xEngine' = {c \in xEngine : c.id # id}
              /\ xExcused' = xExcused \ {id}
              /\ UNCHANGED xLeft
           \/ /\ Fault
              /\ xRunner' = [xRunner EXCEPT !.todo = {}]
              /\ xExcused' = xExcused \cup xRunner.todo
              /\ UNCHANGED <<xEngine, xActed>>
    /\ UNCHANGED <<xExecs, xProc, xPid, xReg, xKnown, xReq, xClose, xNext>>

SweepEnd ==
    /\ xRunner = [pc |-> "delete", todo |-> {}]
    /\ xRunner' = [pc |-> "up", todo |-> {}]
    /\ UNCHANGED <<xEngine, xExecs, xProc, xPid, xReg, xKnown, xReq, xClose, xNext, xActed, xExcused, xLeft>>

-----------------------------------------------------------------------------
Init ==
    /\ xEngine = {} /\ xExecs = {} /\ xReg = {} /\ xKnown = {} /\ xActed = {} /\ xExcused = {}
    /\ xProc = [f \in Fleets |-> "none"]
    /\ xPid = [f \in Fleets |-> 0]
    /\ xReq = [q \in Requests |-> NoReq]
    /\ xClose = [f \in Fleets |-> NotClosing]
    /\ xRunner = [pc |-> "up", todo |-> {}]
    /\ xNext = [id |-> 0, pid |-> 0]
    /\ xLeft = [ids |-> MaxIds, spawns |-> MaxSpawns, reqs |-> MaxReqs, faults |-> MaxFaults, boots |-> MaxBoots]

Next ==
    \/ \E f \in Fleets : Spawn(f) \/ Exit(f) \/ Gone(f) \/ CloseList(f) \/ CloseDelete(f) \/ CloseForget(f)
    \/ \E q \in Requests : Check(q) \/ Create(q) \/ Record(q) \/ Inspect(q) \/ Call(q) \/ Answer(q)
    \/ \E q \in Requests, f \in Fleets : Send(q, f)
    \/ \E f \in Fleets, id \in 1 .. MaxIds : ExecStart(f, id)
    \/ \E n \in Names : Foreign(n)
    \/ Restart \/ SweepList \/ SweepDelete \/ SweepEnd

Spec == Init /\ [][Next]_vars

-----------------------------------------------------------------------------
(* Ids are unique, and what is recorded names ids that were given out.     *)
TypeOK ==
    /\ \A c, d \in xEngine : c.id = d.id => c = d
    /\ \A c \in xEngine : c.owner \in Fleets \cup {"other"} /\ c.id \in 1 .. xNext.id
    /\ \A r \in xReg \cup xKnown : r.ref \in 1 .. xNext.id /\ r.fleet \in Fleets
    /\ xProc \in [Fleets -> {"none", "running", "exited"}]
    /\ \A f \in Fleets : xProc[f] = "running" => xPid[f] # 0

(* The states behind it.                                                   *)
Containers == [id : Nat, name : Names \cup {""}, owner : Fleets \cup {"other"}, fence : BOOLEAN]
Execs == [id : Nat, owner : Fleets \cup {"other"}]
Refs == [ref : Nat, fleet : Fleets]
Reqs == [pc : {"none", "check", "create", "record", "inspect", "call", "answer"},
         fleet : Fleets \cup {""}, pid : Nat, op : Ops \cup {""}, name : Names \cup {""},
         id : Nat, late : BOOLEAN]
Closings == [pc : {"none", "list", "delete"}, todo : SUBSET Nat]
Runners == [pc : {"up", "list", "delete"}, todo : SUBSET Nat]
Bounds == "other" \notin Fleets /\ "" \notin Names
StateOK ==
    /\ xEngine \subseteq Containers /\ xExecs \subseteq Execs
    /\ xReg \subseteq Refs /\ xKnown \subseteq Refs
    /\ xProc \in [Fleets -> {"none", "running", "exited"}] /\ xPid \in [Fleets -> Nat]
    /\ xReq \in [Requests -> Reqs] /\ xClose \in [Fleets -> Closings]
    /\ xRunner \in Runners /\ xNext \in [id : Nat, pid : Nat]

(* Ids are handed out once, and so is a name while its container is there. *)
IdInv ==
    /\ \A c, d \in xEngine : c.id = d.id \/ (c.name = d.name /\ c.name # "") => c = d
    /\ \A c \in xEngine \cup xExecs : c.id \in 1..xNext.id
    /\ \A r \in xReg \cup xKnown : r.ref \in 1..xNext.id
    /\ \A q \in Requests : xReq[q].pc \in {"record", "call", "answer"} => xReq[q].id \in 1..xNext.id
    /\ xRunner.todo \subseteq 1..xNext.id

(* A container outlives its fleet's process and its clean-up only when an  *)
(* engine call of the clean-up failed, or when its create was already past *)
(* the peer check as the fleet was unregistered (engine.rs close_fleet:    *)
(* "its containers on the engine ... and every record of them").           *)
OrphansAccounted ==
    \A c \in Installed :
        \/ xRunner.pc # "up"
        \/ xProc[c.owner] # "none"
        \/ xClose[c.owner].pc = "list" \/ c.id \in xClose[c.owner].todo
        \/ c.id \in xExcused

(* A fleet's calls act on containers of its own, though names are bound    *)
(* again between the ownership check and the call, and no sweep removes a  *)
(* container of another install (engine.rs container, sweep_boot).         *)
ActsOnOwn == \A p \in xActed : p[1] = p[2]

(* Why it does: what was inspected keeps its owner under its id, whatever   *)
(* its name is bound to by now; a sweep lists only this install's.         *)
OwnInv ==
    /\ \A q \in Requests : xReq[q].pc # "none" => xReq[q].fleet \in Fleets /\ xReq[q].name # ""
    /\ \A q \in Requests : xReq[q].pc = "call" =>
          \A c \in xEngine : c.id = xReq[q].id => c.owner = xReq[q].fleet
    /\ \A q \in Requests : xReq[q].pc = "answer" /\ xReq[q].op # "remove" =>
          \A e \in xExecs : e.id = xReq[q].id => e.owner = xReq[q].fleet
    /\ \A k \in xKnown, e \in xExecs : e.id = k.ref => e.owner = k.fleet
    /\ \A c \in xEngine : c.id \in xRunner.todo => c.owner # "other"
    /\ ActsOnOwn

(* Why orphans are accounted for: a create still ahead of the engine has    *)
(* either a process behind it or was marked when its fleet went, and a     *)
(* sweep starts from an idle runner.                                       *)
OrphanInv ==
    /\ \A f \in Fleets : /\ xProc[f] = "none" => xPid[f] = 0
                         /\ xProc[f] = "running" => xPid[f] # 0
                         /\ xClose[f] = NotClosing \/ xProc[f] = "none"
    /\ \A q \in Requests : /\ xReq[q].pc # "none" => xReq[q].pid # 0
                           /\ xReq[q].pc = "create" => xReq[q].late \/ xProc[xReq[q].fleet] # "none"
    /\ xRunner.pc # "up" => /\ \A q \in Requests : xReq[q].pc = "none"
                            /\ \A f \in Fleets : xProc[f] = "none" /\ xClose[f] = NotClosing
    /\ xRunner.pc = "delete" => \A c \in Installed : c.id \in xRunner.todo \cup xExcused
    /\ OrphansAccounted
=============================================================================
