------------------------------ MODULE Domains ------------------------------
(***************************************************************************)
(* Hostnames: the custom-domain claims (service/domains.rs, dns.rs, the    *)
(* app_domain rows of db/apps.rs), the route table built from the rows     *)
(* (host/edge_table.rs build_table) and the three readers of a Host header *)
(* that must agree with it: the wake hop, the fallback page and the gate   *)
(* of on-demand TLS (host/edge.rs).                                        *)
(*                                                                         *)
(* A hostname is the sequence of its labels.  A request of the service is  *)
(* one step per await; the tenancy is "multi" unless Single.               *)
(***************************************************************************)
EXTENDS Integers, Sequences, FiniteSets, SequencesExt

CONSTANTS
    Apps,        \* app rows
    Requests,    \* concurrent calls of domains.add and domains.verify
    Slugs,       \* the slug of each app
    Extra,       \* CONTROL_EXTRA_HOSTS, each a DNS name
    Asked,       \* hostnames the panels ask for
    Control,     \* CONTROL_SUBDOMAIN ("" = the base domain itself)
    Single,      \* tenancy = single
    MaxClaims,   \* BOUND: claims made (each has its own token)
    MaxCalls,    \* BOUND: calls of the service
    MaxEdits     \* BOUND: changes of app, environment and DNS rows

VARIABLES
    nApp,        \* what the app row says of serving
    nEnv,        \* the environment row of each app, labelled "dev"
    nRows,       \* app_domain
    nDns,        \* TXT values at _noite-challenge.<host>
    nPublished,  \* every <<app, host>> whose token was ever published
    nReq,        \* calls in progress
    nLeft        \* what is left of the bounds

vars == <<nApp, nEnv, nRows, nDns, nPublished, nReq, nLeft>>

Base == <<"base">>
EnvLabel == "dev"
PreviewLabel == "app-0"
ReservedLabels == {"preview", PreviewLabel}
ReservedSlugs == {"_control", "app", "api", "git"}
Idle == [at |-> "idle"]
Ports == [stopped |-> FALSE, undeployed |-> FALSE, running |-> TRUE, asleep |-> TRUE]
States == DOMAIN Ports
EnvStates == {"none", "parked", "stopped", "live", "asleep"}

-----------------------------------------------------------------------------
(* Names of the platform.                                                  *)

(* control_hosts, tenant_bases: the configured domain first.               *)
ControlHosts == {IF Control = "" THEN Base ELSE <<Control>> \o Base} \cup ToSet(Extra)
TenantBases == <<Base>> \o Extra
Below(h, base) ==
    Len(h) > Len(base) /\ SubSeq(h, Len(h) - Len(base) + 1, Len(h)) = base
Rest(h, base) == SubSeq(h, 1, Len(h) - Len(base))

PlatformHostOfBase(h) == h = Base \/ Below(h, Base)
PlatformHost(h) ==
    \E base \in ToSet(TenantBases) : h = base \/ Below(h, base)

-----------------------------------------------------------------------------
(* What a Host header names.  Each reader scans the bases in order.        *)

None == "none"
FirstBase(h, Reads(_)) ==
    LET hits == {i \in DOMAIN TenantBases :
                    Below(h, TenantBases[i]) /\ Reads(Rest(h, TenantBases[i])) # None}
    IN  IF hits = {} THEN None
        ELSE Reads(Rest(h, TenantBases[CHOOSE i \in hits : \A j \in hits : i <= j]))

(* parse_edge_slug answers at the first base that is a suffix; the other   *)
(* two go on to the next base when the rest does not have their shape.     *)
ParseEdgeSlug(h) ==
    LET hits == {i \in DOMAIN TenantBases : Below(h, TenantBases[i])}
        rest == Rest(h, TenantBases[CHOOSE i \in hits : \A j \in hits : i <= j])
    IN  IF h \in ToSet(TenantBases) \/ hits = {} \/ Len(rest) # 1 THEN None
        ELSE IF rest[1] \in {Control, "api", "git"} THEN None
        ELSE rest[1]

PreviewRest(rest) ==
    IF Len(rest) = 3 /\ rest[1] = PreviewLabel /\ rest[2] = "preview" THEN rest[3] ELSE None
ParsePreviewSlug(h) == FirstBase(h, PreviewRest)

EnvRest(rest) ==
    IF Len(rest) = 2 /\ rest[1] \notin ReservedLabels THEN rest[2] ELSE None
ParseEnvHost(h) == FirstBase(h, EnvRest)
LabelOf(h) == h[1]

AppBySlug(s) == {a \in Apps : Slugs[a] = s}
AppByDomain(h) == {r.app : r \in {r \in nRows : r.host = h /\ r.status = "verified"}}
EnvironmentRoute(slug, label) ==
    {a \in AppBySlug(slug) : nEnv[a] # "none" /\ label = EnvLabel}

AppForHost(h) ==
    LET slug == ParseEdgeSlug(h) IN
    IF slug # None THEN AppBySlug(slug) ELSE AppByDomain(h)

(* /v1/edge/wake: the fleet a held request wakes.                          *)
WakeTarget(h) ==
    LET slug == ParseEnvHost(h) IN
    IF slug # None THEN {<<"env", a>> : a \in EnvironmentRoute(slug, LabelOf(h))}
    ELSE {<<"app", a>> : a \in AppForHost(h)}

(* /v1/edge/fallback: the page a host with no fleet behind it gets.        *)
PageOf(state) ==
    CASE state = "stopped" -> "paused"
      [] state \in {"undeployed", "parked"} -> "not deployed"
      [] OTHER -> "starting"
FallbackPage(h) ==
    LET slug == ParseEnvHost(h)
        found == IF slug # None THEN EnvironmentRoute(slug, LabelOf(h)) ELSE AppForHost(h)
    IN  IF found = {} THEN "not found"
        ELSE LET a == CHOOSE x \in found : TRUE
             IN  PageOf(IF slug # None THEN nEnv[a] ELSE nApp[a])

(* /v1/edge/tls-ask.                                                       *)
TlsAskStatic(h) ==
    h \in ControlHosts \cup {<<"api">> \o Base, <<"git">> \o Base}
TlsAsk(h) ==
    \/ TlsAskStatic(h)
    \/ /\ ParsePreviewSlug(h) # None
       /\ AppBySlug(ParsePreviewSlug(h)) # {}
    \/ /\ ParsePreviewSlug(h) = None
       /\ ParseEnvHost(h) # None
       /\ EnvironmentRoute(ParseEnvHost(h), LabelOf(h)) # {}
    \/ /\ ParsePreviewSlug(h) = None
       /\ ParseEnvHost(h) = None
       /\ ParseEdgeSlug(h) \notin ReservedSlugs
       /\ \E a \in AppForHost(h) : Ports[nApp[a]]

-----------------------------------------------------------------------------
(* build_table.  Exact hosts in the order the code inserts them: a later   *)
(* insert of the same host replaces the earlier one.                       *)

Serves(a) == Ports[nApp[a]]
EnvLive(a) == nEnv[a] \in {"live", "asleep"}
ControlRoute == [kind |-> "control"]
FleetRoute(kind, fleet, asleep) == [kind |-> kind, fleet |-> fleet, asleep |-> asleep]
HostsOf(parts) == {parts \o base : base \in ToSet(TenantBases)}

PlatformRoutes ==
    [h \in ControlHosts \cup {<<"api">> \o Base, <<"git">> \o Base} |-> ControlRoute]
TenantRoutes ==
    LET served == {a \in Apps : Serves(a)}
        hosts == UNION {HostsOf(<<Slugs[a]>>) : a \in served}
    IN  [h \in hosts |->
            LET a == CHOOSE x \in served : h \in HostsOf(<<Slugs[x]>>)
            IN  FleetRoute("tenant", <<"app", a>>, nApp[a] = "asleep")]
CustomRoutes ==
    LET rows == {r \in nRows : r.status = "verified" /\ Serves(r.app)} IN
    [h \in {r.host : r \in rows} |->
        LET a == (CHOOSE r \in rows : r.host = h).app
        IN  FleetRoute("custom", <<"app", a>>, nApp[a] = "asleep")]
EnvHosts(a) == HostsOf(<<EnvLabel, Slugs[a]>>)
EnvRoutes ==
    LET owners == {a \in Apps : nEnv[a] # "none"} IN
    [h \in UNION {EnvHosts(a) : a \in owners} |->
        LET a == CHOOSE x \in owners : h \in EnvHosts(x)
        IN  IF EnvLive(a) THEN FleetRoute("env", <<"env", a>>, nEnv[a] = "asleep")
            ELSE [kind |-> "env-parked"]]
PreviewRoutes ==
    [h \in UNION {HostsOf(<<PreviewLabel, "preview", Slugs[a]>>) : a \in Apps} |->
        [kind |-> "preview"]]

Over(f, g) == [h \in DOMAIN f \cup DOMAIN g |-> IF h \in DOMAIN g THEN g[h] ELSE f[h]]
BuildTable ==
    Over(Over(Over(Over(PlatformRoutes, TenantRoutes), CustomRoutes), PreviewRoutes), EnvRoutes)

-----------------------------------------------------------------------------
(* domains.add: refusals, then the two reads, then the insert.             *)

Call == nLeft' = [nLeft EXCEPT !.calls = @ - 1]
Step(q, r) == nReq' = [nReq EXCEPT ![q] = r]
Rivals(a, h) == {r \in nRows : r.host = h /\ r.app # a}
VerifiedRival(a, h) == \E r \in Rivals(a, h) : r.status = "verified"
Claims(a, h) == {r \in nRows : r.host = h /\ r.app = a}

(* A name the platform answers for is refused before any row is read.      *)
AddBegin(q, a, h) ==
    /\ nReq[q].at = "idle"
    /\ nLeft.calls > 0
    /\ Call
    /\ Step(q, IF PlatformHost(h) THEN Idle ELSE [at |-> "owner", app |-> a, host |-> h])
    /\ UNCHANGED <<nApp, nEnv, nRows, nDns, nPublished>>

AddOwner(q) ==
    /\ nReq[q].at = "owner"
    /\ Step(q, IF VerifiedRival(nReq[q].app, nReq[q].host) THEN Idle
               ELSE [nReq[q] EXCEPT !.at = "claim"])
    /\ UNCHANGED <<nApp, nEnv, nRows, nDns, nPublished, nLeft>>

(* A claim of our own is kept with its token.                              *)
AddClaim(q) ==
    /\ nReq[q].at = "claim"
    /\ Step(q, IF Claims(nReq[q].app, nReq[q].host) # {} THEN Idle
               ELSE [nReq[q] EXCEPT !.at = "insert"])
    /\ UNCHANGED <<nApp, nEnv, nRows, nDns, nPublished, nLeft>>

(* add_domain: the primary key (host, app) and the unique index over the   *)
(* verified rows are what the insert can run into.                         *)
NewStatus == IF Single THEN "verified" ELSE "pending"
UniqueViolation(a, h, status) ==
    \/ Claims(a, h) # {}
    \/ status = "verified" /\ \E r \in nRows : r.host = h /\ r.status = "verified"
AddInsert(q) ==
    LET a == nReq[q].app  h == nReq[q].host IN
    /\ nReq[q].at = "insert"
    /\ nLeft.claims > 0
    /\ nRows' = IF UniqueViolation(a, h, NewStatus) THEN nRows
                ELSE nRows \cup {[app |-> a, host |-> h, status |-> NewStatus,
                                  token |-> nLeft.claims]}
    /\ nLeft' = [nLeft EXCEPT !.claims = @ - 1]
    /\ Step(q, Idle)
    /\ UNCHANGED <<nApp, nEnv, nDns, nPublished>>

-----------------------------------------------------------------------------
(* domains.verify: the claim and its token are read first, the TXT lookup  *)
(* runs with no lock held, and the flip names the row by app and host.     *)

VerifyBegin(q, a, h) ==
    /\ nReq[q].at = "idle"
    /\ nLeft.calls > 0
    /\ Call
    /\ \/ /\ \A r \in Claims(a, h) : r.status = "verified"
          /\ Step(q, Idle)
       \/ \E r \in Claims(a, h) :
             /\ r.status = "pending"
             /\ Step(q, [at |-> "rival", app |-> a, host |-> h, token |-> r.token])
    /\ UNCHANGED <<nApp, nEnv, nRows, nDns, nPublished>>

VerifyOwner(q) ==
    /\ nReq[q].at = "rival"
    /\ Step(q, IF VerifiedRival(nReq[q].app, nReq[q].host) THEN Idle
               ELSE [nReq[q] EXCEPT !.at = "lookup"])
    /\ UNCHANGED <<nApp, nEnv, nRows, nDns, nPublished, nLeft>>

(* The records at the challenge name: unavailable or late, none at all, or *)
(* some, of which one must be this claim's token.                          *)
ProvenByAny(r, records) == records # {}
Proven(r, records) == r.token \in records
VerifyLookup(q) ==
    /\ nReq[q].at = "lookup"
    /\ \/ Step(q, Idle)
       \/ /\ Proven(nReq[q], nDns[nReq[q].host])
          /\ Step(q, [nReq[q] EXCEPT !.at = "flip"])
    /\ UNCHANGED <<nApp, nEnv, nRows, nDns, nPublished, nLeft>>

(* verify_domain: one transaction.  The index arbitrates, and the rivals'  *)
(* pending rows go with the flip.                                          *)
VerifyFlip(q) ==
    LET a == nReq[q].app  h == nReq[q].host
        mine == {r \in Claims(a, h) : r.status = "pending"}
        lost == \E r \in nRows : r.host = h /\ r.status = "verified"
    IN
    /\ nReq[q].at = "flip"
    /\ nRows' = IF mine = {} \/ lost THEN nRows
                ELSE {r \in nRows : r.host # h \/ r.status = "verified"}
                     \cup {[r EXCEPT !.status = "verified"] : r \in mine}
    /\ Step(q, Idle)
    /\ UNCHANGED <<nApp, nEnv, nDns, nPublished, nLeft>>

(* domains.remove is one DELETE.                                           *)
RemoveClaim(a, h) ==
    /\ Claims(a, h) # {}
    /\ nLeft.calls > 0
    /\ Call
    /\ nRows' = nRows \ Claims(a, h)
    /\ UNCHANGED <<nApp, nEnv, nDns, nPublished, nReq>>

-----------------------------------------------------------------------------
(* What the rest of the platform and the outside do meanwhile.             *)

Edit == nLeft.edits > 0 /\ nLeft' = [nLeft EXCEPT !.edits = @ - 1]

AppChanges(a, s) ==
    /\ Edit
    /\ nApp[a] # s
    /\ nApp' = [nApp EXCEPT ![a] = s]
    /\ UNCHANGED <<nEnv, nRows, nDns, nPublished, nReq>>

EnvChanges(a, s) ==
    /\ Edit
    /\ nEnv[a] # s
    /\ nEnv' = [nEnv EXCEPT ![a] = s]
    /\ UNCHANGED <<nApp, nRows, nDns, nPublished, nReq>>

(* The holder of a name publishes the token a claim shows, or replaces it. *)
Publish(r) ==
    /\ Edit
    /\ nDns' = [nDns EXCEPT ![r.host] = {r.token}]
    /\ nPublished' = nPublished \cup {<<r.app, r.host>>}
    /\ UNCHANGED <<nApp, nEnv, nRows, nReq>>

-----------------------------------------------------------------------------
Init ==
    /\ nApp = [a \in Apps |-> "running"]
    /\ nEnv = [a \in Apps |-> "none"]
    /\ nRows = {}
    /\ nDns = [h \in Asked |-> {}]
    /\ nPublished = {}
    /\ nReq = [q \in Requests |-> Idle]
    /\ nLeft = [claims |-> MaxClaims, calls |-> MaxCalls, edits |-> MaxEdits]

Next ==
    \/ \E q \in Requests :
          \/ \E a \in Apps, h \in Asked : AddBegin(q, a, h)
          \/ AddOwner(q) \/ AddClaim(q) \/ AddInsert(q)
          \/ \E a \in Apps , h \in Asked : VerifyBegin(q, a, h)
          \/ VerifyOwner(q) \/ VerifyLookup(q) \/ VerifyFlip(q)
    \/ \E a \in Apps , h \in Asked : RemoveClaim(a, h)
    \/ \E a \in Apps, s \in States : AppChanges(a, s)
    \/ \E a \in Apps, s \in EnvStates : EnvChanges(a, s)
    \/ \E r \in nRows : Publish(r)

Spec == Init /\ [][Next]_vars

-----------------------------------------------------------------------------
Claimed == [app : Apps, host : Asked, status : {"pending", "verified"}, token : 1 .. MaxClaims]
Adding == [at : {"owner", "claim", "insert"}, app : Apps, host : Asked]
Verifying == [at : {"rival", "lookup", "flip"}, app : Apps, host : Asked, token : 1 .. MaxClaims]
Lefts == [claims : 0 .. MaxClaims, calls : 0 .. MaxCalls, edits : 0 .. MaxEdits]

(* What the proofs need of the constants: slugs are unique and none of the *)
(* reserved ones, and a base is a sequence of labels.                      *)
Labels ==
    {"base", "api", "git", "preview", EnvLabel, PreviewLabel, Control}
        \cup {Slugs[a] : a \in Apps} \cup UNION {ToSet(h) : h \in ToSet(Extra)}
Bounds ==
    /\ MaxClaims \in Nat /\ MaxCalls \in Nat /\ MaxEdits \in Nat
    /\ \A a \in Apps : Slugs[a] \notin ReservedSlugs \cup {None}
    /\ \A a, b \in Apps : Slugs[a] = Slugs[b] => a = b
    /\ Extra \in Seq(Seq(Labels))

TypeOK ==
    /\ nApp \in [Apps -> States]
    /\ nEnv \in [Apps -> EnvStates]
    /\ nRows \subseteq Claimed
    /\ nDns \in [Asked -> SUBSET (1 .. MaxClaims)]
    /\ nReq \in [Requests -> {Idle} \cup Adding \cup Verifying]
    /\ nLeft \in Lefts

(* In multi tenancy only the holder of a name can make it serve: the app   *)
(* of a verified claim had a token of its own published in the name's DNS, *)
(* whatever was removed, claimed again or verified while verify waited on  *)
(* the lookup, and no two apps hold a verified claim of one name.          *)
VerifiedWasProven ==
    \A r \in nRows : r.status = "verified" =>
        /\ ~Single => <<r.app, r.host>> \in nPublished
        /\ ~VerifiedRival(r.app, r.host)

(* Why: a token is one claim's for ever, so a call that found its token in *)
(* the DNS found its own app's, however old the claim it read.             *)
Holders == nRows \cup {r \in {nReq[q] : q \in Requests} : r.at \in {"rival", "lookup", "flip"}}
TokenInv ==
    /\ \A x \in Holders : x.token > nLeft.claims
    /\ \A x, y \in Holders : x.token = y.token => x.app = y.app /\ x.host = y.host
    /\ \A h \in Asked : \A t \in nDns[h] :
          t > nLeft.claims /\ \A x \in Holders : x.token = t /\ x.host = h => <<x.app, h>> \in nPublished
    /\ \A q \in Requests : nReq[q].at = "flip" => <<nReq[q].app, nReq[q].host>> \in nPublished
    /\ VerifiedWasProven

(* The readers of a Host header agree with the table built from the same   *)
(* rows: a host routed to a fleet is one a certificate is minted for, the  *)
(* wake hop of an asleep route wakes that very fleet, a control host keeps *)
(* its route, and a host with no fleet behind it is never told to retry.   *)
ReadersAgree ==
    LET table == BuildTable IN
    /\ \A h \in DOMAIN table :
          LET r == table[h] IN
          /\ r.kind # "control" => TlsAsk(h) \/ r.kind = "env-parked"
          /\ r.kind \in {"tenant", "custom", "env"} => WakeTarget(h) = {r.fleet}
          /\ r.kind = "env-parked" => FallbackPage(h) \in {"paused", "not deployed"}
    /\ \A h \in ControlHosts : table[h] = ControlRoute
    /\ \A a \in Apps : ~Serves(a) =>
          \A h \in HostsOf(<<Slugs[a]>>) : FallbackPage(h) \in {"paused", "not deployed"}

(* What that takes of the configuration, which config.rs does not check:   *)
(* no base below another (tenant_bases), no app called like the control    *)
(* host's label (lifecycle.rs RESERVED_SLUGS) ...                          *)
NamesApart ==
    /\ \A b, c \in ToSet(TenantBases) : ~Below(b, c)
    /\ \A a \in Apps : Slugs[a] # Control

(* ... and of the claims: none is for a name of the platform.              *)
HostInv ==
    /\ \A r \in nRows : ~PlatformHost(r.host)
    /\ \A q \in Requests : nReq[q].at \in {"owner", "claim", "insert"} => ~PlatformHost(nReq[q].host)

(* "a rival verified row committed between the check above and now fails   *)
(* here on the partial unique index" (service/domains.rs add): no pending  *)
(* claim is left on a name a rival has verified.                           *)
NoDoomedClaim ==
    \A r \in nRows : r.status = "pending" => ~VerifiedRival(r.app, r.host)
=============================================================================
