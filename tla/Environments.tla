---------------------------- MODULE Environments ----------------------------
(***************************************************************************)
(* Preview environments: creation under the port allocator's lock, the     *)
(* workspace preview that creates its environment on first use, teardown   *)
(* (asked for, by a deleted ref, by expiry), the deploy that may race it,  *)
(* and the access gate of members-only environments                        *)
(* (service/environments.rs, db/environments.rs, db/alloc.rs,              *)
(* host/env_label.rs, host/env_teardown.rs, host/env_gate.rs).             *)
(*                                                                         *)
(* A label is a pair <<base, n>>: the sanitized name and its collision     *)
(* suffix (1: none).  Branch names may sanitize to one base.  A port pair  *)
(* is one number.                                                          *)
(***************************************************************************)
EXTENDS Integers, FiniteSets

CONSTANTS
    Refs,         \* branch refs and hidden preview refs
    Hidden,       \* the refs of Refs under refs/previews/
    Requests,     \* BOUND: requests in progress
    Visitors,     \* browsers
    MaxPairs,     \* port pairs in the configured range
    MaxPerApp,    \* RUNNER_MAX_ENVIRONMENTS_PER_APP
    MaxEnvs,      \* BOUND: environments ever created
    MaxBegins,   \* BOUND: requests begun
    MaxSpare     \* BOUND: failed S3 deletes, parkings, visibility changes and grants

VARIABLES
    eRow,      \* the environment rows, by id, in creation order
    eLive,     \* refs that exist in the repository
    eLock,     \* the request that holds PORT_ALLOC_LOCK, or "none"
    eReq,      \* the requests
    ePrefix,   \* bucket prefixes: the ids whose objects lie under a label
    eDep,      \* per id, its deploy: how far it got
    eToken,    \* grants and cookies browsers hold
    eGranted,  \* history: <<visitor, id>> the control UI vouched for
    eEntered,  \* history: <<visitor, id>> the gate let in or woke for
    eSpare    \* what is left of MaxSpare and MaxBegins

vars == <<eRow, eLive, eLock, eReq, ePrefix, eDep, eToken, eGranted, eEntered, eSpare>>

Ids == 1 .. MaxEnvs
Pairs == 1 .. MaxPairs

(* sanitize_label: every branch of these instances folds to one base; a    *)
(* preview's carries its user.                                             *)
Sanitize(ref) == IF ref \in Hidden THEN "user" ELSE "base"

Labels == {"base", "user"} \X (1 .. MaxEnvs)

NoRow == [at |-> "none", label |-> <<"base", 1>>, ref |-> "none", kind |-> "branch", pair |-> 0,
          public |-> FALSE, asleep |-> FALSE]
NoReq == [at |-> "free", ref |-> "none", pair |-> 0, id |-> 0]

Rows == {i \in Ids : eRow[i].at = "row"}
Ever == {i \in Ids : eRow[i].at # "none"}

(* get_environment_by_ref: any one row of the ref.                         *)
ByRef(ref) == {i \in Rows : eRow[i].ref = ref}

LowestOf(S) == CHOOSE x \in S : \A y \in S : x <= y

-----------------------------------------------------------------------------
(* create and preview.                                                     *)

(* check_caps, then the branch must resolve; nothing is locked yet.        *)
CapsAllow == Cardinality(Rows) < MaxPerApp

CreateBegin(q, ref) ==
    /\ eReq[q].at = "free"
    /\ eSpare.begins > 0 /\ eSpare' = [eSpare EXCEPT !.begins = @ - 1]
    /\ ref \notin Hidden
    /\ CapsAllow
    /\ ref \in eLive
    /\ eReq' = [eReq EXCEPT ![q] = [NoReq EXCEPT !.at = "checked", !.ref = ref]]
    /\ UNCHANGED <<eRow, eLive, eLock, ePrefix, eDep, eToken, eGranted, eEntered>>

(* source.preview: the environment of the hidden ref is reused, else one   *)
(* is created.  The snapshot is then published to the ref and deployed.    *)
PreviewBegin(q, ref) ==
    /\ eReq[q].at = "free"
    /\ eSpare.begins > 0 /\ eSpare' = [eSpare EXCEPT !.begins = @ - 1]
    /\ ref \in Hidden
    /\ IF ByRef(ref) # {}
       THEN \E i \in ByRef(ref) :
                eReq' = [eReq EXCEPT ![q] = [NoReq EXCEPT !.at = "snapshot", !.ref = ref, !.id = i]]
       ELSE /\ CapsAllow
            /\ eReq' = [eReq EXCEPT ![q] = [NoReq EXCEPT !.at = "checked", !.ref = ref]]
    /\ UNCHANGED <<eRow, eLive, eLock, ePrefix, eDep, eToken, eGranted, eEntered>>

(* next_ports_in: the lowest pair no row holds.                            *)
FreePairs == Pairs \ {eRow[i].pair : i \in Rows}

(* Mutant: the claim is dropped before the row is inserted.                *)
ClaimPortsBriefly(q) ==
    /\ eReq[q].at = "checked"
    /\ eLock = "none"
    /\ FreePairs # {}
    /\ eReq' = [eReq EXCEPT ![q] = [@ EXCEPT !.at = "claimed", !.pair = LowestOf(FreePairs)]]
    /\ UNCHANGED <<eRow, eLive, eLock, ePrefix, eDep, eToken, eGranted, eEntered, eSpare>>

(* claim_ports_in: the lock, then the pick; an exhausted range answers 409 *)
(* and lets the lock go.                                                   *)
ClaimPorts(q) ==
    /\ eReq[q].at = "checked"
    /\ eLock = "none"
    /\ IF FreePairs = {}
       THEN /\ eReq' = [eReq EXCEPT ![q] = NoReq]
            /\ UNCHANGED eLock
       ELSE /\ eReq' = [eReq EXCEPT ![q] = [@ EXCEPT !.at = "claimed", !.pair = LowestOf(FreePairs)]]
            /\ eLock' = q
    /\ UNCHANGED <<eRow, eLive, ePrefix, eDep, eToken, eGranted, eEntered, eSpare>>

(* unique_label: the base itself, else the first free suffix.              *)
UniqueLabel(base) ==
    <<base, LowestOf({n \in 1 .. MaxEnvs : \A i \in Rows : eRow[i].label # <<base, n>>})>>

(* create_environment: the row of a request, under a label free right now. *)
NewRow(q) ==
    [at |-> "row", label |-> UniqueLabel(Sanitize(eReq[q].ref)), ref |-> eReq[q].ref,
     kind |-> IF eReq[q].ref \in Hidden THEN "workspace" ELSE "branch",
     pair |-> eReq[q].pair, public |-> FALSE, asleep |-> FALSE]

(* The row lands under the claim, the claim goes, and *)
(* spawn_deploy writes the queued deploy; a preview snapshots first.       *)
Insert(q) ==
    /\ eReq[q].at = "claimed"
    /\ Ever # Ids
    /\ LET i == LowestOf(Ids \ Ever) IN
           /\ eRow' = [eRow EXCEPT ![i] = NewRow(q)]
           /\ IF eReq[q].ref \in Hidden
              THEN /\ eReq' = [eReq EXCEPT ![q] = [@ EXCEPT !.at = "snapshot", !.id = i]]
                   /\ UNCHANGED eDep
              ELSE /\ eReq' = [eReq EXCEPT ![q] = NoReq]
                   /\ eDep' = [eDep EXCEPT ![i] = "queued"]
    /\ eLock' = IF eLock = q THEN "none" ELSE eLock
    /\ UNCHANGED <<eLive, ePrefix, eToken, eGranted, eEntered, eSpare>>

(* web_commit_preview moves the hidden ref; the deploy is queued.          *)
Snapshot(q) ==
    /\ eReq[q].at = "snapshot"
    /\ eLive' = eLive \cup {eReq[q].ref}
    /\ eDep' = [eDep EXCEPT ![eReq[q].id] = "queued"]
    /\ eReq' = [eReq EXCEPT ![q] = NoReq]
    /\ UNCHANGED <<eRow, eLock, ePrefix, eToken, eGranted, eEntered, eSpare>>

-----------------------------------------------------------------------------
(* The environment's deploy.                                               *)

(* deploy_inner finds the row, builds and stages into the prefix: the row  *)
(* is read again only afterwards (load_deploy_target).                     *)
DeployStage(i) ==
    /\ eDep[i] = "queued"
    /\ IF i \in Rows
       THEN /\ ePrefix' = [ePrefix EXCEPT ![eRow[i].label] = @ \cup {i}]
            /\ eDep' = [eDep EXCEPT ![i] = "staged"]
       ELSE /\ eDep' = [eDep EXCEPT ![i] = "none"]
            /\ UNCHANGED ePrefix
    /\ UNCHANGED <<eRow, eLive, eLock, eReq, eToken, eGranted, eEntered, eSpare>>

(* A row deleted meanwhile fails the deploy; else mark_environment_deployed *)
(* clears the sleep.                                                       *)
DeployEnd(i) ==
    /\ eDep[i] = "staged"
    /\ eDep' = [eDep EXCEPT ![i] = "none"]
    /\ eRow' = IF i \in Rows THEN [eRow EXCEPT ![i].asleep = FALSE] ELSE eRow
    /\ UNCHANGED <<eLive, eLock, eReq, ePrefix, eToken, eGranted, eEntered, eSpare>>

-----------------------------------------------------------------------------
(* Teardown: no lock is taken, and two may run for one environment.        *)

(* delete, on_refs_deleted and sweep_expired_environments read the row.    *)
DeleteBegin(q, i) ==
    /\ eReq[q].at = "free"
    /\ eSpare.begins > 0 /\ eSpare' = [eSpare EXCEPT !.begins = @ - 1]
    /\ i \in Rows
    /\ eReq' = [eReq EXCEPT ![q] = [NoReq EXCEPT !.at = "stop", !.id = i]]
    /\ UNCHANGED <<eRow, eLive, eLock, ePrefix, eDep, eToken, eGranted, eEntered>>

(* A ref is deleted: one environment that tracks it is torn down.          *)
RefDeleted(q, ref) ==
    /\ eReq[q].at = "free"
    /\ eSpare.begins > 0 /\ eSpare' = [eSpare EXCEPT !.begins = @ - 1]
    /\ ref \in eLive
    /\ eLive' = eLive \ {ref}
    /\ IF ByRef(ref) = {}
       THEN UNCHANGED eReq
       ELSE \E i \in ByRef(ref) : eReq' = [eReq EXCEPT ![q] = [NoReq EXCEPT !.at = "stop", !.id = i]]
    /\ UNCHANGED <<eRow, eLock, ePrefix, eDep, eToken, eGranted, eEntered>>

(* The fleet stops, then clear_env_prefix empties the prefix; a failed     *)
(* delete ends the teardown with the row still there.                      *)
ClearPrefix(q, fails) ==
    /\ eReq[q].at = "stop"
    /\ fails => eSpare.ops > 0
    /\ eSpare' = IF fails THEN [eSpare EXCEPT !.ops = @ - 1] ELSE eSpare
    /\ IF fails
       THEN eReq' = [eReq EXCEPT ![q] = NoReq] /\ UNCHANGED ePrefix
       ELSE /\ eReq' = [eReq EXCEPT ![q].at = "cleared"]
            /\ ePrefix' = [ePrefix EXCEPT ![eRow[eReq[q].id].label] = {}]
    /\ UNCHANGED <<eRow, eLive, eLock, eDep, eToken, eGranted, eEntered>>

(* delete_environment: the row goes last.                                  *)
DropRow(q) ==
    /\ eReq[q].at = "cleared"
    /\ eRow' = [eRow EXCEPT ![eReq[q].id].at = "gone"]
    /\ eReq' = [eReq EXCEPT ![q] = NoReq]
    /\ UNCHANGED <<eLive, eLock, ePrefix, eDep, eToken, eGranted, eEntered, eSpare>>

-----------------------------------------------------------------------------
(* The gate.                                                               *)

SetPublic(i) ==
    /\ i \in Rows
    /\ eSpare.ops > 0
    /\ eRow' = [eRow EXCEPT ![i].public = ~@]
    /\ eSpare' = [eSpare EXCEPT !.ops = @ - 1]
    /\ UNCHANGED <<eLive, eLock, eReq, ePrefix, eDep, eToken, eGranted, eEntered>>

(* set_environment_asleep: the idle or the pressure sweep parks the fleet. *)
Park(i) ==
    /\ i \in Rows /\ ~eRow[i].asleep
    /\ eSpare.ops > 0
    /\ eRow' = [eRow EXCEPT ![i].asleep = TRUE]
    /\ eSpare' = [eSpare EXCEPT !.ops = @ - 1]
    /\ UNCHANGED <<eLive, eLock, eReq, ePrefix, eDep, eToken, eGranted, eEntered>>

(* environments.grant: the control UI checked the viewer's role and asks   *)
(* for a token of one existing environment.                                *)
Grant(v, i) ==
    /\ i \in Rows
    /\ eSpare.ops > 0
    /\ eSpare' = [eSpare EXCEPT !.ops = @ - 1]
    /\ eToken' = eToken \cup {[kind |-> "grant", v |-> v, id |-> i]}
    /\ eGranted' = eGranted \cup {<<v, i>>}
    /\ UNCHANGED <<eRow, eLive, eLock, eReq, ePrefix, eDep, eEntered>>

(* The row a host resolves to (environment_route).                         *)
Host(label) == {i \in Rows : eRow[i].label = label}

(* env_auth: a grant becomes a cookie only on its own environment's host.  *)
EnvAuth(v, label) ==
    /\ \E i \in Host(label) :
           /\ [kind |-> "grant", v |-> v, id |-> i] \in eToken
           /\ eToken' = eToken \cup {[kind |-> "cookie", v |-> v, id |-> i]}
    /\ UNCHANGED <<eRow, eLive, eLock, eReq, ePrefix, eDep, eGranted, eEntered, eSpare>>

(* Mutant: any gate cookie of this host is taken, whoever it was minted    *)
(* for.                                                                    *)
AdmitsByHost(v, i) ==
    \E t \in eToken : t.kind = "cookie" /\ t.v = v /\ eRow[t.id].label = eRow[i].label

(* verify_cookie: the cookie names the environment the host resolves to.   *)
Admits(v, i) == [kind |-> "cookie", v |-> v, id |-> i] \in eToken

(* env_gate: a members-only environment is entered, and woken, only with   *)
(* its cookie; without one the browser is sent to the control UI.          *)
Visit(v, label) ==
    /\ \E i \in Host(label) :
           /\ ~eRow[i].public
           /\ Admits(v, i)
           /\ eEntered' = eEntered \cup {<<v, i>>}
           /\ eRow' = [eRow EXCEPT ![i].asleep = FALSE]
    /\ UNCHANGED <<eLive, eLock, eReq, ePrefix, eDep, eToken, eGranted, eSpare>>

-----------------------------------------------------------------------------
Init ==
    /\ eRow = [i \in Ids |-> NoRow]
    /\ eLive = Refs \ Hidden
    /\ eLock = "none"
    /\ eReq = [q \in Requests |-> NoReq]
    /\ ePrefix = [l \in Labels |-> {}]
    /\ eDep = [i \in Ids |-> "none"]
    /\ eToken = {}
    /\ eGranted = {}
    /\ eEntered = {}
    /\ eSpare = [ops |-> MaxSpare, begins |-> MaxBegins]

RequestStep(q) ==
    \/ \E ref \in Refs : CreateBegin(q, ref) \/ PreviewBegin(q, ref) \/ RefDeleted(q, ref)
    \/ \E i \in Ids : DeleteBegin(q, i)
    \/ ClaimPorts(q)
    \/ Insert(q)
    \/ Snapshot(q)
    \/ \E fails \in BOOLEAN : ClearPrefix(q, fails)
    \/ DropRow(q)

Next ==
    \/ \E q \in Requests : RequestStep(q)
    \/ \E i \in Ids : DeployStage(i) \/ DeployEnd(i) \/ SetPublic(i) \/ Park(i)
    \/ \E v \in Visitors, i \in Ids : Grant(v, i)
    \/ \E v \in Visitors, l \in Labels : EnvAuth(v, l) \/ Visit(v, l)

Spec == Init /\ [][Next]_vars

-----------------------------------------------------------------------------
EnvRows == [at : {"none", "row", "gone"}, label : Labels, ref : Refs \cup {"none"},
            kind : {"branch", "workspace"}, pair : 0 .. MaxPairs, public : BOOLEAN,
            asleep : BOOLEAN]
EnvReqs == [at : {"free", "checked", "claimed", "snapshot", "stop", "cleared"},
            ref : Refs \cup {"none"}, pair : 0 .. MaxPairs, id : 0 .. MaxEnvs]
Tokens == [kind : {"grant", "cookie"}, v : Visitors, id : Ids]
Spares == [ops : 0 .. MaxSpare, begins : 0 .. MaxBegins]

(* What the proofs need of the constants.                                  *)
Bounds ==
    /\ Hidden \subseteq Refs /\ "none" \notin Requests
    /\ MaxPairs \in Nat /\ MaxPerApp \in Nat /\ MaxBegins \in Nat /\ MaxSpare \in Nat
    /\ MaxEnvs \in Nat \ {0}

TypeOK ==
    /\ eRow \in [Ids -> EnvRows]
    /\ eLive \subseteq Refs
    /\ eLock \in Requests \cup {"none"}
    /\ eReq \in [Requests -> EnvReqs]
    /\ ePrefix \in [Labels -> SUBSET Ids]
    /\ eDep \in [Ids -> {"none", "queued", "staged"}]
    /\ eToken \subseteq Tokens
    /\ eGranted \subseteq Visitors \X Ids /\ eEntered \subseteq Visitors \X Ids
    /\ eSpare \in Spares

(* Two environments never share a port pair or a host, however many are    *)
(* created at once and whichever are torn down in between.                 *)
HostsAndPortsDistinct ==
    \A i, j \in Rows : i # j => eRow[i].pair # eRow[j].pair /\ eRow[i].label # eRow[j].label

(* Nobody enters (or wakes) a members-only environment the control UI did  *)
(* not vouch for, even on a host whose label was used by another           *)
(* environment before.                                                     *)
OnlyVouchedEnter == eEntered \subseteq eGranted

(* Why hosts and ports stay apart: the pair of a request that claimed one  *)
(* is no row's, and nobody else claims until its row is in.                *)
ClaimInv ==
    /\ \A q \in Requests : eReq[q].at \in {"checked", "claimed", "snapshot"} => eReq[q].ref \in Refs
    /\ \A q \in Requests : eReq[q].at = "claimed" =>
          eLock = q /\ \A i \in Rows : eRow[i].pair # eReq[q].pair
    /\ HostsAndPortsDistinct

(* Why only the vouched-for enter: every token goes back to a grant.       *)
TokenInv == (\A t \in eToken : <<t.v, t.id>> \in eGranted) /\ OnlyVouchedEnter

(* What get_environment_by_ref says of its rows: one per ref.              *)
OneRowPerRef == \A i, j \in Rows : eRow[i].ref = eRow[j].ref => i = j
=============================================================================
