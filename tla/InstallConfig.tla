---------------------------- MODULE InstallConfig ----------------------------
(***************************************************************************)
(* An install across the configurations it is booted with: what from_env   *)
(* and validate (config.rs) make of the operator's environment, the rows   *)
(* that outlive a restart (a memory override per app, a build uid per      *)
(* app), and what the next boot makes of those rows: the cap of a fleet    *)
(* (supervisor.rs clamp_memory_mb), the uid of a build (db/alloc.rs), the  *)
(* egress policy over the build range (netisolation.rs) and the isolation  *)
(* self-check (isolation.rs).                                              *)
(*                                                                         *)
(* Memory is in MiB.  A knob the operator leaves alone is Unset, a value   *)
(* that does not parse is Malformed.                                       *)
(***************************************************************************)
EXTENDS Integers, FiniteSets

CONSTANTS
    Apps,        \* apps that are created, built, deleted
    Tried,       \* the environments it is booted with, of Environments
    Overrides,   \* per-app caps an admin asks for
    UidRange,    \* the build range
    MaxBoots, MaxOps

Unset == 99999
Malformed == 99998
NoUid == 0           \* `none`: uid drops disabled; also a row without one
NoOverride == 0
DefaultBase == 10030
DefaultFleetUid == 10020
Floor == 64          \* MIN_FLEET_MEMORY_MB and validate's own floor

VARIABLES
    iConf,    \* the running configuration, or Down
    iRows,    \* app -> what its rows hold, Gone when the app does not exist
    iFleets,  \* app -> the cap its fleet was spawned with, 0 when none runs
    iBuild,   \* app -> where its deploy's build is
    iNft,     \* the uids the installed egress table closes off
    iLeft

vars == <<iConf, iRows, iFleets, iBuild, iNft, iLeft>>

Down == [up |-> FALSE]
Gone == [live |-> FALSE]
Fresh == [live |-> TRUE, cap |-> NoOverride, uid |-> NoUid]
NoBuild == [step |-> "none"]

Larger(a, b) == IF a > b THEN a ELSE b
Smaller(a, b) == IF a < b THEN a ELSE b
Clamped(n, lo, hi) == Larger(lo, Smaller(n, hi))
-----------------------------------------------------------------------------
(* env_num, env_opt_uid: a blank knob is its default; a malformed one too, *)
(* with a boot problem beside it.                                          *)
Num(raw, default) == IF raw \in {Unset, Malformed} THEN default ELSE raw

(* What the operator may say of the Void proxy.                            *)
RawProxies ==
    [domain : {"", "bare", "noDot"}, relay : {"", "public", "loopback", "private"},
     mode : {"starttls", "plain", "bad"}, plain : {"", "on", "yes"},
     ai : {"", "httpsPublic", "httpsPrivate", "httpLoopback", "httpPublic", "notJson"},
     aiEnabled : {"", "on", "yes"}, aiPlain : {"", "on", "yes"}]

Environments ==
    [local : BOOLEAN, tenancy : {"", "single", "multi"}, dev_secrets : BOOLEAN,
     memory : Nat, ceiling : Nat, base : Nat, fleet : Nat,
     box : [total : Nat, cores : Nat],   \* total 0: unreadable
     slots : Nat, build : Nat, proxy : RawProxies]

(* parse_tenancy: without a say, single on the localhost family.           *)
Tenancy(e) == IF e.tenancy # "" THEN e.tenancy ELSE IF e.local THEN "single" ELSE "multi"

(* What the box suggests for a resident: a share of it within bounds, and  *)
(* a fixed budget when its memory is unreadable.                           *)
Share(total, part, lo, hi, unreadable) ==
    IF total = 0 THEN unreadable ELSE Clamped(total \div part, lo, hi)

DuckdbMemoryDefault(total) == Share(total, 10, 128, 1024, 256)
FleetLocalCacheDefault(total) == Share(total, 16, 64, 512, 128)
ControlMemoryDefault(total) == Share(total, 4, 256, 1024, 512)
ContainerShedDefault(total) == Share(total * 3, 4, 256, 8192, 0)

(* fleet_spawn_batch_default and build_concurrency_default agree.          *)
AtOnceDefault(cores) == IF cores <= 2 THEN 1 ELSE 2

(* build_memory_default_mb: a quarter of the box, and at least a GiB,      *)
(* stays resident, the rest is split between the concurrent builds; but    *)
(* never below 512 each.                                                   *)
Reserve(total) == Larger(total \div 4, 1024)
BuildMemoryDefault(total, slots) ==
    IF total = 0 THEN 1024
    ELSE Clamped(Larger(0, total - Reserve(total)) \div Larger(slots, 1), 512, 4096)

(* The memory section: caps of tenant fleets, and the budgets of what else *)
(* lives on the box.                                                       *)
Budgets(e) ==
    LET memory == Num(e.memory, 512)
        slots == Num(e.slots, AtOnceDefault(e.box.cores))
    IN [memory |-> memory, ceiling |-> Num(e.ceiling, memory), slots |-> slots,
        derived |-> e.build = Unset, build |-> Num(e.build, BuildMemoryDefault(e.box.total, slots)),
        duckdb |-> DuckdbMemoryDefault(e.box.total),
        cache |-> FleetLocalCacheDefault(e.box.total),
        control |-> ControlMemoryDefault(e.box.total),
        shed |-> ContainerShedDefault(e.box.total),
        batch |-> AtOnceDefault(e.box.cores)]

(* VoidProxyConfig::from_env: a mode that does not parse is starttls, a    *)
(* flag that is neither on nor off is off, each with a boot problem.       *)
Flag(raw) == raw = "on"

Proxy(p) ==
    [p EXCEPT !.mode = IF @ = "bad" THEN "starttls" ELSE @,
              !.plain = Flag(@), !.aiEnabled = Flag(@), !.aiPlain = Flag(@)]

ProxyProblems(p) == p.mode = "bad" \/ "yes" \in {p.plain, p.aiEnabled, p.aiPlain}

(* The sections after the memory: the users builds and fleets run as, and  *)
(* the Void proxy.                                                         *)
Users(e) ==
    [base |-> Num(e.base, DefaultBase), range |-> UidRange, fleet |-> Num(e.fleet, DefaultFleetUid)]

(* Config::from_env.                                                       *)
FromEnv(e) ==
    [up |-> TRUE, tenancy |-> Tenancy(e), box |-> e.box,
     budget |-> Budgets(e), users |-> Users(e), proxy |-> Proxy(e.proxy)]

(* proxy_egress_refusal: a fleet of a multi tenant install reaches neither *)
(* loopback nor private addresses.                                         *)
EgressRefusal(host) == host \in {"loopback", "private"}

(* The host and the scheme of an AI endpoint.                              *)
AiHost(ai) ==
    CASE ai \in {"httpsPublic", "httpPublic"} -> "public"
      [] ai = "httpsPrivate" -> "private"
      [] ai = "httpLoopback" -> "loopback"

(* VoidProxyConfig::validate.                                              *)
ProxyOk(p, tenancy) ==
    /\ p.domain # "noDot"
    /\ p.relay # "" => p.domain # ""
    /\ p.mode = "plain" => p.plain
    /\ tenancy = "multi" => ~EgressRefusal(p.relay)
    /\ p.ai # "" =>
          /\ p.aiEnabled
          /\ p.ai # "notJson"
          /\ p.ai \in {"httpLoopback", "httpPublic"} => p.aiPlain /\ AiHost(p.ai) = "loopback"
          /\ tenancy = "multi" => ~EgressRefusal(AiHost(p.ai))

(* Config::validate and the refusals of from_env before it.                *)
MemoryOk(c) ==
    LET b == c.budget IN
    /\ c.tenancy = "multi" => b.memory # 0
    /\ b.memory = 0 \/ b.memory >= Floor
    /\ ~(c.tenancy # "multi" /\ b.memory = 0) => b.ceiling >= Floor /\ b.ceiling >= b.memory

ResidentsOk(b) ==
    /\ b.duckdb >= 64 /\ b.cache >= 16 /\ b.control >= 128
    /\ b.batch # 0 /\ b.slots # 0
    /\ b.build = 0 \/ b.build >= 256

UidsOk(u) ==
    /\ u.range # 0
    /\ u.base # NoUid =>
          /\ u.base >= 1000 /\ u.base + u.range <= 65534
          /\ u.fleet = NoUid \/ ~(u.fleet >= u.base /\ u.fleet < u.base + u.range)

Valid(e) ==
    LET c == FromEnv(e) IN
    /\ ~e.local => ~e.dev_secrets
    /\ Malformed \notin {e.memory, e.ceiling, e.base, e.fleet, e.slots, e.build}
    /\ ~ProxyProblems(e.proxy)
    /\ MemoryOk(c) /\ ResidentsOk(c.budget) /\ UidsOk(c.users) /\ ProxyOk(c.proxy, c.tenancy)

(* What boots.                                                             *)
Bootable == {e \in Tried : Valid(e)}
-----------------------------------------------------------------------------
(* check_memory_override.                                                  *)
OverrideOk(v) ==
    v # NoOverride => v >= Floor /\ (iConf.tenancy = "multi" => v <= iConf.budget.ceiling)

(* Mutant: the stored override is taken as it is.                          *)
ClampVerbatim(stored) == IF stored = NoOverride THEN iConf.budget.memory ELSE stored

(* clamp_memory_mb: in multi a row stored before the ceiling was lowered   *)
(* is held under it.                                                       *)
ClampMemory(stored) ==
    LET uncapped == IF stored = NoOverride THEN iConf.budget.memory ELSE stored
    IN IF iConf.tenancy = "multi" THEN Smaller(uncapped, iConf.budget.ceiling) ELSE uncapped

(* pick_build_uid: the lowest uid of the range no row holds.               *)
UsedUids == {iRows[a].uid : a \in {x \in Apps : iRows[x].live}} \ {NoUid}
Free == (iConf.users.base .. iConf.users.base + iConf.users.range - 1) \ UsedUids
-----------------------------------------------------------------------------
TypeOK ==
    /\ iConf.up => iConf.budget.memory \in Nat /\ iConf.budget.ceiling \in Nat
    /\ \A a \in Apps : iRows[a].live => iRows[a].cap \in Overrides \cup {NoOverride}
    /\ iFleets \in [Apps -> Nat]
    /\ \A a \in Apps : iBuild[a].step \in {"none", "asked", "picked", "running"}
    /\ \A k \in DOMAIN iLeft : iLeft[k] >= 0

(* The states behind those types: a running configuration is one that      *)
(* booted, and a build belongs to an app that exists.                      *)
Confs == {FromEnv(e) : e \in Bootable}
LiveRows == [live : {TRUE}, cap : Overrides \cup {NoOverride}, uid : Nat]
Steps == {[step |-> "asked"]} \cup [step : {"picked", "running"}, uid : Nat]
Bounds ==
    /\ Tried \subseteq Environments /\ Overrides \subseteq Nat
    /\ UidRange \in Nat /\ MaxBoots \in Nat /\ MaxOps \in Nat
StateOK ==
    /\ iConf \in Confs \cup {Down}
    /\ iRows \in [Apps -> LiveRows \cup {Gone}]
    /\ iFleets \in [Apps -> Nat]
    /\ iBuild \in [Apps -> Steps \cup {NoBuild}]
    /\ \A a \in Apps : iBuild[a] # NoBuild => iRows[a].live
    /\ iLeft \in [boots : 0..MaxBoots, ops : 0..MaxOps]

Init ==
    /\ iConf = Down
    /\ iRows = [a \in Apps |-> Gone]
    /\ iFleets = [a \in Apps |-> 0]
    /\ iBuild = [a \in Apps |-> NoBuild]
    /\ iNft = {}
    /\ iLeft = [boots |-> MaxBoots, ops |-> MaxOps]

Spent(what) == iLeft[what] > 0 /\ iLeft' = [iLeft EXCEPT ![what] = @ - 1]
Up == iConf.up

(* main: from_env, then in multi the egress table over the build range,    *)
(* which needs CAP_NET_ADMIN.  Nothing of a refused environment starts.    *)
Boot(e, nft) ==
    /\ ~Up /\ Spent("boots")
    /\ iConf' = FromEnv(e)
    /\ iNft' = IF nft /\ Tenancy(e) = "multi" /\ FromEnv(e).users.base # NoUid
               THEN FromEnv(e).users.base .. FromEnv(e).users.base + UidRange - 1 ELSE {}
    /\ UNCHANGED <<iRows, iFleets, iBuild>>

(* self_check, the parts the configuration decides.                        *)
Blocked == Up /\ iConf.tenancy = "multi" /\ (iNft = {} \/ iConf.users.fleet = NoUid)

(* The container stops: fleets and builds die with the runner.             *)
Stop ==
    /\ Up
    /\ iConf' = Down
    /\ iFleets' = [a \in Apps |-> 0] /\ iBuild' = [a \in Apps |-> NoBuild] /\ iNft' = {}
    /\ UNCHANGED <<iRows, iLeft>>

Create(a) ==
    /\ Up /\ ~iRows[a].live /\ Spent("ops")
    /\ iRows' = [iRows EXCEPT ![a] = Fresh]
    /\ UNCHANGED <<iConf, iFleets, iBuild, iNft>>

(* delete waits out the app's deploy, stops its fleet, removes the row.    *)
Delete(a) ==
    /\ Up /\ iRows[a].live /\ iBuild[a] = NoBuild /\ Spent("ops")
    /\ iRows' = [iRows EXCEPT ![a] = Gone]
    /\ iFleets' = [iFleets EXCEPT ![a] = 0]
    /\ UNCHANGED <<iConf, iBuild, iNft>>

(* limits::set.                                                            *)
SetLimit(a, v) ==
    /\ Up /\ iRows[a].live /\ Spent("ops")
    /\ OverrideOk(v)
    /\ iRows' = [iRows EXCEPT ![a].cap = v]
    /\ UNCHANGED <<iConf, iFleets, iBuild, iNft>>

(* ensure_fleet takes the effective cap at the spawn; a later limit waits  *)
(* for the next one.                                                       *)
Spawn(a) ==
    /\ Up /\ iRows[a].live /\ iFleets[a] = 0
    /\ iFleets' = [iFleets EXCEPT ![a] = ClampMemory(iRows[a].cap)]
    /\ UNCHANGED <<iConf, iRows, iBuild, iNft, iLeft>>

(* A deploy reaches its build: refused in multi without uid drops.         *)
BuildAsked(a) ==
    /\ Up /\ iRows[a].live /\ iBuild[a] = NoBuild /\ Spent("ops")
    /\ ~(iConf.tenancy = "multi" /\ iConf.users.base = NoUid)
    /\ iBuild' = [iBuild EXCEPT ![a] = [step |-> "asked"]]
    /\ UNCHANGED <<iConf, iRows, iFleets, iNft>>

Running(a, uid) == iBuild' = [iBuild EXCEPT ![a] = [step |-> "running", uid |-> uid]]

(* ensure_app_build_uid: without a base no uid; the row's own uid when it  *)
(* has one; else the lowest free one, from a read of the rows.             *)
BuildUid(a) ==
    /\ Up /\ iBuild[a].step = "asked"
    /\ IF iConf.users.base = NoUid THEN Running(a, NoUid)
       ELSE IF iRows[a].uid # NoUid THEN Running(a, iRows[a].uid)
       ELSE iBuild' = [iBuild EXCEPT ![a] =
              IF Free = {} THEN NoBuild
              ELSE [step |-> "picked", uid |-> CHOOSE u \in Free : \A w \in Free : u <= w]]
    /\ UNCHANGED <<iConf, iRows, iFleets, iNft, iLeft>>

(* Mutant: the update is not guarded, and a refused one goes on.           *)
ClaimUidAnyway(a) ==
    /\ Up /\ iBuild[a].step = "picked"
    /\ iRows' = IF iBuild[a].uid \in UsedUids THEN iRows ELSE [iRows EXCEPT ![a].uid = iBuild[a].uid]
    /\ Running(a, iBuild[a].uid)
    /\ UNCHANGED <<iConf, iFleets, iNft, iLeft>>

(* The update of the row, which the unique index refuses when another app  *)
(* took the uid meanwhile: then pick again.                                *)
ClaimUid(a) ==
    /\ Up /\ iBuild[a].step = "picked"
    /\ IF iBuild[a].uid \in UsedUids
       THEN iBuild' = [iBuild EXCEPT ![a] = [step |-> "asked"]] /\ UNCHANGED iRows
       ELSE /\ iRows' = [iRows EXCEPT ![a].uid = iBuild[a].uid]
            /\ Running(a, iBuild[a].uid)
    /\ UNCHANGED <<iConf, iFleets, iNft, iLeft>>

BuildEnds(a) ==
    /\ iBuild[a].step = "running"
    /\ iBuild' = [iBuild EXCEPT ![a] = NoBuild]
    /\ UNCHANGED <<iConf, iRows, iFleets, iNft, iLeft>>

Next ==
    \/ \E e \in Bootable, nft \in BOOLEAN : Boot(e, nft)
    \/ Stop
    \/ \E a \in Apps : \/ Create(a) \/ Delete(a) \/ Spawn(a)
                       \/ BuildAsked(a) \/ BuildUid(a) \/ ClaimUid(a) \/ BuildEnds(a)
                       \/ \E v \in Overrides \cup {NoOverride} : SetLimit(a, v)

Spec == Init /\ [][Next]_vars
-----------------------------------------------------------------------------
Builds == {a \in Apps : iBuild[a].step = "running"}

(* Whatever configurations the install went through, a fleet of a multi    *)
(* tenant install runs under a cap, at least the floor celld boots in and  *)
(* at most the ceiling of the configuration it was spawned under: an       *)
(* override stored under a higher ceiling, or in single, never carries.    *)
FleetsCapped ==
    Up /\ iConf.tenancy = "multi" =>
        \A a \in Apps : iFleets[a] # 0 => iFleets[a] >= Floor /\ iFleets[a] <= iConf.budget.ceiling

(* The builds that may run at once fit beside the reserve of the residents *)
(* on every box that can give each of them the least a build gets, however *)
(* many slots the operator opens: the budget is split, not multiplied.     *)
BuildsFit ==
    Up /\ iConf.box.total # 0 =>
        LET most == iConf.box.total - Reserve(iConf.box.total) IN
        iConf.budget.derived /\ 512 * iConf.budget.slots <= most =>
            iConf.budget.slots * iConf.budget.build <= most

(* Builds of two apps never run as one user, though two deploys may pick   *)
(* the same free uid from their reads, and in multi no build runs as the   *)
(* runner.                                                                 *)
BuildsApart ==
    \A a, b \in Builds :
        /\ a # b /\ iBuild[a].uid = iBuild[b].uid => iBuild[a].uid = NoUid
        /\ iConf.tenancy = "multi" => iBuild[a].uid # NoUid

(* Why the caps hold: fleets die with the configuration they were spawned  *)
(* under, and no override below the floor is ever stored.                  *)
LimitInv ==
    /\ ~Up => \A a \in Apps : iFleets[a] = 0
    /\ \A a \in Apps : iRows[a].live => iRows[a].cap = NoOverride \/ iRows[a].cap >= Floor
    /\ FleetsCapped

(* Why builds stay apart: the rows, of which the index keeps uids unique,  *)
(* decide, and a build runs only as the uid of its app's row.              *)
UidInv ==
    /\ ~Up => \A a \in Apps : iBuild[a] = NoBuild
    /\ \A a, b \in Apps : iRows[a].live /\ iRows[b].live /\ a # b =>
          iRows[a].uid # iRows[b].uid \/ iRows[a].uid = NoUid
    /\ \A a \in Apps : iBuild[a].step = "picked" => iBuild[a].uid # NoUid
    /\ \A a \in Apps : iBuild[a].step = "running" => iBuild[a].uid \in {NoUid, iRows[a].uid}
    /\ Up /\ iConf.tenancy = "multi" => \A a \in Apps :
          /\ iBuild[a] # NoBuild => iConf.users.base # NoUid
          /\ iBuild[a].step = "running" => iBuild[a].uid # NoUid

(* isolation.rs: a failed self-check in multi "blocks /ready + builds",    *)
(* and netisolation.rs polices every uid a build may hold: no build runs   *)
(* in multi outside the table's range.                                     *)
BuildsPoliced ==
    /\ Blocked => Builds = {}
    /\ Up /\ iConf.tenancy = "multi" => \A a \in Builds : iBuild[a].uid \in iNft
=============================================================================
