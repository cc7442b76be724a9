---------------------------- MODULE DeployConfig ----------------------------
(***************************************************************************)
(* What one deploy of an app ships: the build and release steps on the     *)
(* worktree, the deploy root they leave, the settings rows that become     *)
(* Worker vars, and the secrets the runner provisions per fleet            *)
(* (host/deploy.rs deploy_inner up to the celld call, host/build_output.rs,*)
(* host/generated_config.rs, host/worker_vars.rs, host/void_deploy.rs,     *)
(* host/void_proxy.rs, host/void_sandbox.rs, host/fleet_env.rs, db/env.rs, *)
(* db/environments.rs).  Owners edit the rows meanwhile.                   *)
(*                                                                         *)
(* The two fleets of the app are "app" (production) and "env" (a preview); *)
(* the app claim runs their deploys one at a time.  A value is a number, 0 *)
(* no value.  Of the names only those with a rule of their own are kept:    *)
(* "AUTH" BETTER_AUTH_SECRET, "TOKEN" __VOID_PROXY_TOKEN, "ADM" the        *)
(* sandbox admission name, "KEY" the VOID_PROXY_* credentials.             *)
(***************************************************************************)
EXTENDS Integers, FiniteSets

CONSTANTS
    Edited,      \* BOUND: the names owners write and delete
    MaxEdits,    \* BOUND: settings written, deleted, tokens rotated
    MaxDeploys,  \* BOUND: deploys begun
    MaxFaults    \* BOUND: steps that fail

Fleets == {"app", "env"}
Names == {"AUTH", "TOKEN", "KEY", "ADM"}
Values == 0 .. MaxEdits + 3 * MaxDeploys
NoValues == [n \in Names |-> 0]

(* A row of app_env or environment_env: its value and its source marker.   *)
NoRow == [val |-> 0, src |-> "none"]
Sources == {"none", "user", "auth", "token", "adm"}

VARIABLES
    dRows,    \* the settings rows, per level
    dNext,    \* the last value given out
    dMinted,  \* history: values the runner minted, with the fleet they are for
    dDep,     \* the deploy under way
    dShip,    \* per fleet, what its last deploy handed to celld
    dLeft     \* what is left of the bounds

vars == <<dRows, dNext, dMinted, dDep, dShip, dLeft>>

(* What the build may leave: a Void output, a Wrangler config in dist, a   *)
(* redirect, one in the source tree, a static index page, several, none.   *)
Outputs == {{"void"}, {"dist"}, {"redirect"}, {"source"}, {"index"}, {"void", "dist", "source"}, {}}
Required == {{}, {"AUTH", "TOKEN", "KEY"}}

(* The worktree: what is in it, whether the root or its config leads       *)
(* outside (a link), and the secrets the config requires.                  *)
Trees == [at : Outputs, link : BOOLEAN, req : Required]
NoTree == [at |-> {}, link |-> FALSE, req |-> {}]

Idle == [pc |-> "idle", fleet |-> "app", tree |-> NoTree, built |-> FALSE, void |-> FALSE, req |-> {},
         own |-> {}, sandbox |-> FALSE, got |-> NoValues, token |-> 0, mine |-> 0]
Shipped == [done |-> FALSE, vars |-> NoValues, proxy |-> NoValues, adm |-> 0, req |-> {}, link |-> FALSE]

(* The steps of deploy_inner; a deploy that fails or ends is forgotten.    *)
At(pc) == dDep.pc = pc
Go(pc) == dDep' = [dDep EXCEPT !.pc = pc]
Ends == dDep' = Idle
Row(n) == dRows[dDep.fleet][n]

-----------------------------------------------------------------------------
(* Owners: the settings API, and the rotate-proxy-token command.           *)

Edit == dLeft.edits > 0 /\ dLeft' = [dLeft EXCEPT !.edits = @ - 1]

(* set_env and set_env_override: any valid name, the row is the user's.    *)
SetRow(f, n) ==
    /\ Edit
    /\ dNext' = dNext + 1
    /\ dRows' = [dRows EXCEPT ![f] = [@ EXCEPT ![n] = [val |-> dNext + 1, src |-> "user"]]]
    /\ UNCHANGED <<dMinted, dDep, dShip>>

DeleteRow(f, n) ==
    /\ Edit
    /\ dRows[f][n] # NoRow
    /\ dRows' = [dRows EXCEPT ![f] = [@ EXCEPT ![n] = NoRow]]
    /\ UNCHANGED <<dNext, dMinted, dDep, dShip>>

(* rotate_proxy_token overwrites whatever the row held.                    *)
Rotate(f) ==
    /\ Edit
    /\ dNext' = dNext + 1
    /\ dRows' = [dRows EXCEPT ![f] = [@ EXCEPT !["TOKEN"] = [val |-> dNext + 1, src |-> "token"]]]
    /\ dMinted' = dMinted \cup {[val |-> dNext + 1, fleet |-> f]}
    /\ UNCHANGED <<dDep, dShip>>

-----------------------------------------------------------------------------
(* Process env.                                                            *)

(* env_reserved: AUTH and KEY never reach a process.                       *)
Reserved == {"AUTH", "KEY"}

(* tenant_env: the user's rows that are not reserved.                      *)
TenantEnv(f) == [n \in Names |-> IF dRows[f][n].src = "user" /\ n \notin Reserved THEN dRows[f][n].val ELSE 0]

(* environment_tenant_env: the app's, then the overrides.  A fleet may be  *)
(* spawned in any state; tenant_fleet_env puts these first, so that every  *)
(* platform name (none of Names) wins.                                     *)
Over(low, high) == [n \in Names |-> IF high[n] # 0 THEN high[n] ELSE low[n]]
FleetEnv(f) == IF f = "env" THEN Over(TenantEnv("app"), TenantEnv("env")) ELSE TenantEnv("app")

-----------------------------------------------------------------------------
(* The worktree.                                                           *)

(* A build slot, the sha, the checkout, the tree given to the build uid.   *)
Begin(f) ==
    /\ At("idle")
    /\ dLeft.deploys > 0
    /\ dDep' = [Idle EXCEPT !.pc = "build", !.fleet = f]
    /\ dLeft' = [dLeft EXCEPT !.deploys = @ - 1]
    /\ UNCHANGED <<dRows, dNext, dMinted, dShip>>

(* Install and build, when the repository has a build step; else the tree  *)
(* is the commit's, which has neither of the generated outputs.  Nothing a *)
(* step started outlives it (killpg); it may time out, be killed for       *)
(* memory, or leave the tree over its quota.                               *)
Build ==
    /\ At("build")
    /\ \/ \E tree \in Trees, built \in BOOLEAN :
              /\ built \/ tree.at \cap {"void", "redirect"} = {}
              /\ dDep' = [dDep EXCEPT !.pc = "root", !.tree = tree, !.built = built]
          /\ UNCHANGED dLeft
       \/ /\ dLeft.faults > 0
          /\ dLeft' = [dLeft EXCEPT !.faults = @ - 1]
          /\ Ends
    /\ UNCHANGED <<dRows, dNext, dMinted, dShip>>

(* built_deploy_root: only after a build; Void's output, then dist, then   *)
(* Wrangler's redirect.                                                    *)
BuiltRoot(tree) ==
    IF "void" \in tree.at THEN "void" ELSE IF "dist" \in tree.at THEN "dist"
    ELSE IF "redirect" \in tree.at THEN "redirect" ELSE "none"

(* find_deploy_root: a config in the source tree, then the one in dist.    *)
FoundRoot(tree) ==
    IF "source" \in tree.at THEN "source" ELSE IF "dist" \in tree.at THEN "dist" ELSE "none"

(* generated_config::plan, when no config is found.                        *)
SourceRoot(tree) ==
    IF FoundRoot(tree) # "none" THEN FoundRoot(tree)
    ELSE IF "index" \in tree.at THEN "generated" ELSE "none"

(* celld_config_from: a built config is rewritten for celld, which refuses *)
(* the key `secrets`: what it requires is noted.  One whose Worker, assets *)
(* or containers lead outside the worktree (inside) fails.                 *)
Inside(tree) == ~tree.link
Rewritten(root, tree) ==
    IF root \notin {"void", "redirect"} THEN [ok |-> TRUE, req |-> {}]
    ELSE [ok |-> Inside(tree), req |-> tree.req]

(* The root is chosen, and a rewritten config's required secrets noted.    *)
ChooseRoot ==
    /\ At("root")
    /\ LET built == IF dDep.built THEN BuiltRoot(dDep.tree) ELSE "none"
           root == IF built # "none" THEN built ELSE SourceRoot(dDep.tree)
           config == Rewritten(built, dDep.tree) IN
       IF root = "none" \/ ~config.ok
       THEN Ends
       ELSE dDep' = [dDep EXCEPT !.pc = "release", !.void = (built = "void"), !.tree = [NoTree EXCEPT !.link = dDep.tree.link],
                                 !.built = FALSE, !.req = config.req]
    /\ UNCHANGED <<dRows, dNext, dMinted, dShip, dLeft>>

(* The release command, a tenant step that may replace the root, or none.  *)
Release ==
    /\ At("release")
    /\ \E link \in {dDep.tree.link, TRUE, FALSE} :
           dDep' = [dDep EXCEPT !.pc = "back", !.tree = [@ EXCEPT !.link = link]]
    /\ UNCHANGED <<dRows, dNext, dMinted, dShip, dLeft>>

(* What the config, read here for the first time, asks for.                *)
Taken(d) ==
    \E own \in {{}, {"ADM"}, {"KEY"}}, sandbox \in BOOLEAN :
        /\ sandbox => d.void
        /\ dDep' = [d EXCEPT !.pc = IF d.void THEN "auth" ELSE "load", !.own = own, !.sandbox = sandbox]

(* Mutant: the root is proved contained where it is chosen, not here.      *)
TakeBackUnchecked ==
    /\ At("back")
    /\ Taken(dDep)
    /\ UNCHANGED <<dRows, dNext, dMinted, dShip, dLeft>>

(* contained_deploy_root: the root and its config, resolved once more.     *)
Contained(tree) == ~tree.link

(* The tree is taken back from the build uid; then contained_deploy_root,  *)
(* the generated config, strip_runner_keys, and take_sandbox_entry for a   *)
(* Void app.                                                               *)
TakeBack ==
    /\ At("back")
    /\ IF Contained(dDep.tree) THEN Taken(dDep) ELSE Ends
    /\ UNCHANGED <<dRows, dNext, dMinted, dShip, dLeft>>

-----------------------------------------------------------------------------
(* Settings and provisioned rows.                                          *)

(* insert_provisioned: an existing row wins.                               *)
Insert(n, src) ==
    LET row == Row(n) IN
    /\ dNext' = dNext + 1
    /\ dRows' = IF row = NoRow THEN [dRows EXCEPT ![dDep.fleet] = [@ EXCEPT ![n] = [val |-> dNext + 1, src |-> src]]]
              ELSE dRows
    /\ dMinted' = dMinted \cup {[val |-> dNext + 1, fleet |-> dDep.fleet]}

(* ensure_auth_secret: the fleet's own row, then for a preview the app's.  *)
AuthRead ==
    /\ At("auth")
    /\ Go(IF Row("AUTH") # NoRow THEN "load" ELSE IF dDep.fleet = "env" THEN "authapp" ELSE "authmint")
    /\ UNCHANGED <<dRows, dNext, dMinted, dShip, dLeft>>

AuthApp ==
    /\ At("authapp")
    /\ Go(IF dRows["app"]["AUTH"].src \in {"none", "auth"} THEN "authmint" ELSE "load")
    /\ UNCHANGED <<dRows, dNext, dMinted, dShip, dLeft>>

AuthMint ==
    /\ At("authmint")
    /\ Insert("AUTH", "auth")
    /\ Go("load")
    /\ UNCHANGED <<dShip, dLeft>>

(* Mutant: a preview inherits the app's provisioned secret.                *)
InheritedWithAuth == [n \in Names |-> IF dRows["app"][n].src \in {"user", "auth"} THEN dRows["app"][n].val ELSE 0]

(* environment_worker_settings, the app's rows: only the user's.           *)
Inherited == [n \in Names |-> IF dRows["app"][n].src = "user" THEN dRows["app"][n].val ELSE 0]

(* worker_settings: the fleet's own rows, the auth secret's included.      *)
Own(f) == [n \in Names |-> IF dRows[f][n].src \in {"user", "auth"} THEN dRows[f][n].val ELSE 0]

(* Two reads for a preview, one for production.                            *)
Load ==
    /\ At("load")
    /\ dDep' = IF dDep.fleet = "env" THEN [dDep EXCEPT !.pc = "loadown", !.got = Inherited]
               ELSE [dDep EXCEPT !.pc = "check", !.got = Own("app")]
    /\ UNCHANGED <<dRows, dNext, dMinted, dShip, dLeft>>

LoadOwn ==
    /\ At("loadown")
    /\ dDep' = [dDep EXCEPT !.pc = "check", !.got = Over(dDep.got, Own("env"))]
    /\ UNCHANGED <<dRows, dNext, dMinted, dShip, dLeft>>

(* provisioned_names: what the runner injects on a Void app.               *)
Provisioned == IF dDep.void THEN {"TOKEN"} ELSE {}

(* Reserved Worker vars, on every app and on a Void app besides.           *)
WorkerReserved == {"TOKEN", "ADM"}
VoidReserved == WorkerReserved \cup {"KEY"}

Have == {n \in Names : dDep.got[n] # 0}
AppNames == IF dDep.void THEN Have \ {"KEY"} ELSE Have

(* check_required, on every setting, the proxy's included.                 *)
RequiredMet == dDep.req \subseteq Have \cup Provisioned

(* merge_settings: a reserved name in the settings, or in the config's own *)
(* vars, fails the deploy.                                                 *)
Mergeable == (AppNames \cup dDep.own) \cap WorkerReserved = {}

(* The proxy's settings are split off on a Void app before the merge.      *)
CheckAndMerge ==
    /\ At("check")
    /\ IF RequiredMet /\ Mergeable THEN Go(IF dDep.void THEN "token" ELSE "plan") ELSE Ends
    /\ UNCHANGED <<dRows, dNext, dMinted, dShip, dLeft>>

(* ensure_proxy_token: the fleet's row, or mint, insert and read again;    *)
(* a row that is not the runner's is refused both times.                   *)
TokenRead ==
    /\ At("token")
    /\ IF Row("TOKEN") = NoRow THEN Go("tokenmint")
       ELSE IF Row("TOKEN").src = "token"
       THEN dDep' = [dDep EXCEPT !.pc = "owned", !.token = Row("TOKEN").val]
       ELSE Ends
    /\ UNCHANGED <<dRows, dNext, dMinted, dShip, dLeft>>

TokenMint ==
    /\ At("tokenmint")
    /\ Insert("TOKEN", "token")
    /\ Go("tokenread")
    /\ UNCHANGED <<dShip, dLeft>>

(* Mutant: the row read again is not held to its source.                   *)
TokenRereadAny ==
    /\ At("tokenread")
    /\ IF Row("TOKEN") # NoRow
       THEN dDep' = [dDep EXCEPT !.pc = "owned", !.token = Row("TOKEN").val]
       ELSE Ends
    /\ UNCHANGED <<dRows, dNext, dMinted, dShip, dLeft>>

TokenReread ==
    /\ At("tokenread")
    /\ IF Row("TOKEN").src = "token"
       THEN dDep' = [dDep EXCEPT !.pc = "owned", !.token = Row("TOKEN").val]
       ELSE Ends
    /\ UNCHANGED <<dRows, dNext, dMinted, dShip, dLeft>>

(* merge_runner_owned, with the token in hand: what a Void app's config    *)
(* may not name besides.                                                   *)
MergeOwned ==
    /\ At("owned")
    /\ IF (AppNames \cup dDep.own) \cap VoidReserved # {} THEN Ends ELSE Go(IF dDep.sandbox THEN "adm" ELSE "plan")
    /\ UNCHANGED <<dRows, dNext, dMinted, dShip, dLeft>>

(* StagedSandbox::stage: the protocol check may refuse; then               *)
(* ensure_admission_name, whose second read looks at the value alone.      *)
AdmRead ==
    /\ At("adm")
    /\ IF Row("ADM") = NoRow THEN Go("admmint")
       ELSE IF Row("ADM").src = "adm" THEN dDep' = [dDep EXCEPT !.pc = "plan", !.mine = Row("ADM").val]
       ELSE Ends
    /\ UNCHANGED <<dRows, dNext, dMinted, dShip, dLeft>>

AdmMint ==
    /\ At("admmint")
    /\ Insert("ADM", "adm")
    /\ Go("admread")
    /\ UNCHANGED <<dShip, dLeft>>

AdmReread ==
    /\ At("admread")
    /\ IF Row("ADM") = NoRow THEN Ends ELSE dDep' = [dDep EXCEPT !.pc = "plan", !.mine = Row("ADM").val]
    /\ UNCHANGED <<dRows, dNext, dMinted, dShip, dLeft>>

(* The containers of the config: an entry celld cannot place, or a sandbox *)
(* image not pinned to its registry digest, refuses the deploy.            *)
Refusable(pc, next) ==
    /\ At(pc)
    /\ \/ Go(next) /\ UNCHANGED dLeft
       \/ /\ dLeft.faults > 0
          /\ dLeft' = [dLeft EXCEPT !.faults = @ - 1]
          /\ Ends
    /\ UNCHANGED <<dRows, dNext, dMinted, dShip>>

PlanContainers == Refusable("plan", "context")

(* prepare: a context or a Dockerfile that leads outside, or is too large; *)
(* check: an instruction or a base image that is not allowed; vet: a base  *)
(* image that cannot be pulled in time, runs triggers, or has no digest to *)
(* pin.                                                                    *)
PrepareImage == Refusable("context", "dockerfile")
CheckDockerfile == Refusable("dockerfile", "vet")
VetImages == Refusable("vet", "ship")

(* render: the scripts of the fleet are handed to celld, app and proxy     *)
(* with the one token, the proxy alone with the credentials.               *)
AppVars == [n \in Names |-> IF n = "TOKEN" THEN dDep.token ELSE IF n \in AppNames THEN dDep.got[n] ELSE 0]
ProxyVars ==
    [n \in Names |-> IF ~dDep.void THEN 0 ELSE IF n = "TOKEN" THEN dDep.token ELSE IF n = "KEY" THEN dDep.got[n] ELSE 0]

Ship ==
    /\ At("ship")
    /\ dShip' = [dShip EXCEPT ![dDep.fleet] = [done |-> TRUE, vars |-> AppVars, proxy |-> ProxyVars, adm |-> dDep.mine,
                                               req |-> dDep.req, link |-> dDep.tree.link]]
    /\ Ends
    /\ UNCHANGED <<dRows, dNext, dMinted, dLeft>>

-----------------------------------------------------------------------------
Init ==
    /\ dRows = [f \in Fleets |-> [n \in Names |-> NoRow]]
    /\ dNext = 0
    /\ dMinted = {}
    /\ dDep = Idle
    /\ dShip = [f \in Fleets |-> Shipped]
    /\ dLeft = [edits |-> MaxEdits, deploys |-> MaxDeploys, faults |-> MaxFaults]

DeployStep ==
    \/ Build \/ ChooseRoot \/ Release \/ TakeBack \/ AuthRead \/ AuthApp \/ AuthMint \/ Load \/ LoadOwn
    \/ CheckAndMerge \/ TokenRead \/ TokenMint \/ TokenReread \/ MergeOwned \/ AdmRead \/ AdmMint \/ AdmReread
    \/ PlanContainers \/ PrepareImage \/ CheckDockerfile \/ VetImages \/ Ship

Next ==
    \/ \E f \in Fleets : Begin(f) \/ Rotate(f)
    \/ \E f \in Fleets, n \in Edited : SetRow(f, n) \/ DeleteRow(f, n)
    \/ DeployStep

Spec == Init /\ [][Next]_vars

-----------------------------------------------------------------------------
Bounds == Edited \subseteq Names /\ MaxEdits \in Nat /\ MaxDeploys \in Nat

(* Rows, the deploy and what was shipped are well formed.                  *)
TypeOK ==
    /\ dRows \in [Fleets -> [Names -> [val : Values, src : Sources]]]
    /\ dNext \in Values
    /\ \A p \in dMinted : p.val \in Values /\ p.fleet \in Fleets
    /\ dDep.tree \in Trees /\ dDep.got \in [Names -> Values] /\ dDep.token \in Values /\ dDep.mine \in Values
    /\ \A f \in Fleets : dShip[f].vars \in [Names -> Values] /\ dShip[f].proxy \in [Names -> Values]

Holders(minted, v) == {p.fleet : p \in {q \in minted : q.val = v}}
MintedFor(v) == Holders(dMinted, v)

(* The records, over any bounds.                                           *)
Checked == {"token", "tokenmint", "tokenread", "owned", "adm", "admmint", "admread", "plan", "context",
            "dockerfile", "vet", "ship"}
Tokening == {"token", "tokenmint", "tokenread"}
InRoot == {"auth", "authapp", "authmint", "load", "loadown", "check"} \cup Checked
Rows == [val : Nat, src : Sources]
Deploys == [pc : {"idle", "build", "root", "release", "back"} \cup InRoot, fleet : Fleets, tree : Trees,
            built : BOOLEAN, void : BOOLEAN, req : Required, own : SUBSET Names, sandbox : BOOLEAN,
            got : [Names -> Nat], token : Nat, mine : Nat]
Ships == [done : BOOLEAN, vars : [Names -> Nat], proxy : [Names -> Nat], adm : Nat, req : Required, link : BOOLEAN]
StateOK ==
    /\ dRows \in [Fleets -> [Names -> Rows]] /\ dNext \in Nat /\ dDep \in Deploys
    /\ dShip \in [Fleets -> Ships]

(* What the runner minted for one fleet is never shipped to the other nor  *)
(* put into a process env, and the app and the proxy of one deploy hold    *)
(* one token, the runner's own, whatever rows are written, deleted and     *)
(* rotated while the deploy runs (void_deploy.rs ensure_auth_secret,       *)
(* ensure_proxy_token; db/env.rs tenant_env).                              *)
SecretsStayInFleet ==
    \A f \in Fleets :
        /\ \A n \in Names :
               /\ MintedFor(dShip[f].vars[n]) \subseteq {f}
               /\ MintedFor(FleetEnv(f)[n]) = {}
        /\ dShip[f].vars["TOKEN"] = dShip[f].proxy["TOKEN"]
        /\ dShip[f].vars["TOKEN"] # 0 => MintedFor(dShip[f].vars["TOKEN"]) = {f}

(* celld is handed a root that is inside the worktree, with a value        *)
(* for every secret the built config required, though tenant code ran      *)
(* after the root was chosen and rows changed after the check (deploy.rs   *)
(* 926-940, worker_vars.rs check_required).                                *)
ShipsVetted ==
    \A f \in Fleets : dShip[f].done =>
        /\ ~dShip[f].link
        /\ \A n \in dShip[f].req : dShip[f].vars[n] # 0 \/ dShip[f].proxy[n] # 0

(* Why: the root is resolved after the last tenant step, what was checked   *)
(* is what the deploy read once, and a token in hand is one that was given. *)
VetInv ==
    /\ dDep.pc \in InRoot => ~dDep.tree.link
    /\ dDep.pc \in Checked => RequiredMet /\ Mergeable
    /\ dDep.void /\ dDep.pc \in Checked \ Tokening => dDep.token # 0
    /\ \A f \in Fleets, n \in Names : dRows[f][n].src = "token" => dRows[f][n].val # 0
    /\ ShipsVetted

(* Why: a value is given out once; users' rows hold none of the runner's,  *)
(* the runner's rows only the ones for their fleet, and a deploy reads     *)
(* nothing else.                                                           *)
SecretInv ==
    /\ \A p \in dMinted : p.val \in 1 .. dNext
    /\ \A f \in Fleets, n \in Names :
           /\ dRows[f][n].val <= dNext /\ MintedFor(dRows[f][n].val) \subseteq {f}
           /\ dRows[f][n].src = "user" => MintedFor(dRows[f][n].val) = {}
           /\ dRows[f][n].src = "token" => MintedFor(dRows[f][n].val) = {f}
    /\ \A n \in Names : dDep.got[n] <= dNext /\ MintedFor(dDep.got[n]) \subseteq {dDep.fleet}
    /\ (dDep.pc \in Tokening => dDep.void) /\ (dDep.pc = "loadown" => dDep.fleet = "env")
    /\ dDep.token <= dNext
    /\ dDep.token # 0 => dDep.void /\ dDep.pc \in Checked /\ MintedFor(dDep.token) = {dDep.fleet}
    /\ \A f \in Fleets :
           /\ \A n \in Names : dShip[f].vars[n] <= dNext /\ MintedFor(dShip[f].vars[n]) \subseteq {f}
           /\ dShip[f].vars["TOKEN"] = dShip[f].proxy["TOKEN"]
           /\ dShip[f].vars["TOKEN"] # 0 => MintedFor(dShip[f].vars["TOKEN"]) = {f}

(* Why the values stay in their range: a deploy mints three at most, and   *)
(* what is shipped was given out.                                          *)
MintsLeft(pc) ==
    CASE pc \in {"build", "root", "release", "back", "auth", "authapp", "authmint"} -> 3
      [] pc \in {"load", "loadown", "check", "token", "tokenmint"} -> 2
      [] pc \in {"tokenread", "owned", "adm", "admmint"} -> 1
      [] OTHER -> 0
ValueInv ==
    /\ dLeft.edits \in Nat /\ dLeft.deploys \in Nat
    /\ dNext + dLeft.edits + 3 * dLeft.deploys + MintsLeft(dDep.pc) <= MaxEdits + 3 * MaxDeploys
    /\ dDep.mine <= dNext
    /\ \A f \in Fleets, n \in Names : dShip[f].proxy[n] <= dNext
    /\ \A p \in dMinted : p.fleet \in Fleets

(* ensure_admission_name's comment: "a user row under the name fails the   *)
(* deploy as reserved instead of being read or overwritten".               *)
AdmissionIsMinted ==
    \A f \in Fleets : dShip[f].adm # 0 => MintedFor(dShip[f].adm) = {f}
=============================================================================
