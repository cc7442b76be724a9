--------------------------- MODULE ErrorTracking ---------------------------
(***************************************************************************)
(* Error tracking (host/errors.rs, db/errors.rs, service/errors.rs) with   *)
(* the access-log tail that gives an occurrence its request                *)
(* (host/accesslog.rs): occurrences from telemetry passes and from SDK     *)
(* envelopes are folded into one issue, whatever order telemetry, access   *)
(* lines, passes, replays and status changes come in.                      *)
(*                                                                         *)
(* One issue of one app: parsing and the fingerprint decide which issue,   *)
(* not what happens to it.  A failing request is its trace id; its span    *)
(* (or logged error) and its access line land in either order.  Which hour *)
(* a pass reads is the telemetry watermark's business (module Telemetry):  *)
(* here a pass reads any hour, so re-reads and replays are included.       *)
(***************************************************************************)
EXTENDS Naturals, FiniteSets, FiniteSetsExt, Functions

CONSTANTS
    HourLen,     \* clock steps in an hour bucket
    Keep,        \* EVENTS_PER_ISSUE
    MaxTime,     \* BOUND: clock
    MaxTraces,   \* BOUND: failing requests
    MaxSdk,      \* BOUND: SDK envelopes
    MaxOps       \* BOUND: status changes, retention passes, restarts, evictions

VARIABLES
    rReq,     \* trace -> when the request failed, how its error was reported, what has landed
    rIndex,   \* RequestIndex.map: traces whose line was tailed
    rPend,    \* RequestIndex.pending
    rIssue,   \* the app_error_issue row
    rHours,   \* app_error_hour: hour -> n
    rEvents,  \* app_error_event rows; id is the rowid
    rPass,    \* the ingest pass
    rSdk,     \* the SDK envelope being stored
    rFired,   \* latest occurrence stored since the last status change
    rLost,    \* traces whose index entry was evicted, skipped or lost to a restart
    rReports, \* SDK envelopes answered, per hour
    rNow, rLeft

vars == <<rReq, rIndex, rPend, rIssue, rHours, rEvents, rPass, rSdk, rFired, rLost, rReports, rNow, rLeft>>

Hour(t) == t \div HourLen
Hours == 0..Hour(MaxTime)
Traces == DOMAIN rReq
Idle == [pc |-> "idle", hour |-> 0, rows |-> {}, n |-> 0]
NoIssue == [on |-> FALSE, status |-> "open", at |-> 0, regressed |-> FALSE, last |-> 0, count |-> 0]

Op == rLeft.ops > 0 /\ rLeft' = [rLeft EXCEPT !.ops = @ - 1]

-----------------------------------------------------------------------------
(* Requests fail; their telemetry and their access line land later.        *)

World == <<rIndex, rPend, rIssue, rHours, rEvents, rPass, rSdk, rFired, rLost, rReports, rLeft>>

Fails(how) ==
    /\ Cardinality(Traces) < MaxTraces
    /\ rReq' = [i \in 1..Cardinality(Traces) + 1 |->
                   IF i \in Traces THEN rReq[i]
                   ELSE [ts |-> rNow, how |-> how, landed |-> FALSE, line |-> "no"]]
    /\ UNCHANGED <<World, rNow>>

Lands(i) ==
    /\ ~rReq[i].landed
    /\ rReq' = [rReq EXCEPT ![i].landed = TRUE]
    /\ UNCHANGED <<World, rNow>>

Logged(i) ==
    /\ rReq[i].line = "no"
    /\ rReq' = [rReq EXCEPT ![i].line = "written"]
    /\ UNCHANGED <<World, rNow>>

Tick ==
    /\ rNow < MaxTime
    /\ rNow' = rNow + 1
    /\ UNCHANGED <<rReq, World>>

-----------------------------------------------------------------------------
(* The access-log tail (accesslog::tick), in the metrics task, so never    *)
(* while a pass is under way.                                              *)

Backfilled(i) ==
    {IF e.trace = i /\ e.from = "telemetry" THEN [e EXCEPT !.req = TRUE] ELSE e : e \in rEvents}

TailLine(i) ==
    /\ rPass.pc = "idle" /\ rReq[i].line = "written"
    /\ rReq' = [rReq EXCEPT ![i].line = "tailed"]
    /\ rEvents' = IF i \in rPend THEN Backfilled(i) ELSE rEvents
    /\ rPend' = rPend \ {i}
    /\ rIndex' = rIndex \cup {i}
    /\ UNCHANGED <<rIssue, rHours, rPass, rSdk, rFired, rLost, rReports, rNow, rLeft>>

(* More new bytes than MAX_CATCHUP_BYTES: the lines are skipped. *)
BurstSkipped ==
    /\ rPass.pc = "idle" /\ \E i \in Traces : rReq[i].line = "written"
    /\ Op
    /\ rReq' = [i \in Traces |-> IF rReq[i].line = "written" THEN [rReq[i] EXCEPT !.line = "skipped"] ELSE rReq[i]]
    /\ UNCHANGED <<rIndex, rPend, rIssue, rHours, rEvents, rPass, rSdk, rFired, rLost, rReports, rNow>>

(* REQUEST_TTL or REQUEST_CAP. *)
Evict(i) ==
    /\ i \in rIndex \cup rPend
    /\ Op
    /\ rIndex' = rIndex \ {i} /\ rPend' = rPend \ {i}
    /\ rLost' = rLost \cup {i}
    /\ UNCHANGED <<rReq, rIssue, rHours, rEvents, rPass, rSdk, rFired, rReports, rNow>>

Restart ==
    /\ Op
    /\ rIndex' = {} /\ rPend' = {} /\ rLost' = Traces
    /\ rPass' = Idle /\ rSdk' = Idle
    /\ UNCHANGED <<rReq, rIssue, rHours, rEvents, rFired, rReports, rNow>>

-----------------------------------------------------------------------------
(* record: fold the issue, store the occurrence once, keep the newest.     *)

(* A variant that reads last_seen_us, which is still the old row's. *)
ReopensByRow(was, ts) == was.on /\ was.status = "resolved" /\ was.last > was.at
Reopens(was, ts) == was.on /\ was.status = "resolved" /\ ts > was.at

Folded(was, ts, n) ==
    IF ~was.on THEN [NoIssue EXCEPT !.on = TRUE, !.last = ts, !.count = n]
    ELSE [was EXCEPT !.last = IF ts >= @ THEN ts ELSE @,
                     !.regressed = @ \/ Reopens(was, ts),
                     !.at = IF Reopens(was, ts) THEN ts ELSE @,
                     !.status = IF Reopens(was, ts) THEN "open" ELSE @]

Stored(ts, trace) == \E e \in rEvents : e.ts = ts /\ e.trace = trace
NextId == 1 + Max({e.id : e \in rEvents} \cup {0})

(* The oldest timestamp goes first, and of one timestamp the earlier row.  *)
Oldest(es) == CHOOSE e \in es : \A d \in es : e.ts < d.ts \/ (e.ts = d.ts /\ e.id <= d.id)
Newest(es) == IF Cardinality(es) <= Keep THEN es ELSE es \ {Oldest(es)}

RecordOne(ts, trace, from, n, req) ==
    LET e == [id |-> NextId, ts |-> ts, trace |-> trace, from |-> from, req |-> req]
    IN  /\ rIssue' = Folded(rIssue, ts, n)
        /\ rEvents' = IF Stored(ts, trace) THEN rEvents ELSE Newest(rEvents \cup {e})
        /\ rFired' = IF ts > rFired THEN ts ELSE rFired

-----------------------------------------------------------------------------
(* One telemetry pass over one hour: failed spans of the hour are one row  *)
(* with the latest trace, logged errors are a row each.                    *)

In(h, how) == {i \in Traces : rReq[i].landed /\ Hour(rReq[i].ts) = h /\ rReq[i].how = how}
Latest(is) == CHOOSE i \in is : \A j \in is : rReq[i].ts > rReq[j].ts \/ (rReq[i].ts = rReq[j].ts /\ i >= j)
Rows(h) ==
    (IF In(h, "span") = {} THEN {} ELSE {[trace |-> Latest(In(h, "span")), n |-> Cardinality(In(h, "span"))]})
        \cup {[trace |-> i, n |-> 1] : i \in In(h, "log")}

PassReads(h) ==
    /\ rPass.pc = "idle" /\ Rows(h) # {}
    /\ rPass' = [pc |-> "record", hour |-> h, rows |-> Rows(h), n |-> 0]
    /\ UNCHANGED <<rReq, rIndex, rPend, rIssue, rHours, rEvents, rSdk, rFired, rLost, rReports, rNow, rLeft>>

(* take_request: a trace whose line is not tailed yet is marked pending. *)
PassRecords(row) ==
    /\ rPass.pc = "record" /\ row \in rPass.rows
    /\ RecordOne(rReq[row.trace].ts, row.trace, "telemetry", row.n, row.trace \in rIndex)
    /\ rPend' = IF row.trace \in rIndex THEN rPend ELSE rPend \cup {row.trace}
    /\ rPass' = [rPass EXCEPT !.rows = @ \ {row}, !.n = @ + row.n]
    /\ UNCHANGED <<rReq, rIndex, rHours, rSdk, rLost, rReports, rNow, rLeft>>

(* set_error_hour replaces the bucket. *)
HourSet(h, n) == [rHours EXCEPT ![h] = n]

PassSetsHour ==
    /\ rPass.pc = "record" /\ rPass.rows = {}
    /\ rHours' = HourSet(rPass.hour, rPass.n)
    /\ rPass' = [rPass EXCEPT !.pc = "refresh"]
    /\ UNCHANGED <<rReq, rIndex, rPend, rIssue, rEvents, rSdk, rFired, rLost, rReports, rNow, rLeft>>

Total == SumFunction(rHours)
Refreshed == IF rIssue.on THEN [rIssue EXCEPT !.count = Total] ELSE rIssue

PassRefreshes ==
    /\ rPass.pc = "refresh"
    /\ rIssue' = Refreshed
    /\ rPass' = Idle
    /\ UNCHANGED <<rReq, rIndex, rPend, rHours, rEvents, rSdk, rFired, rLost, rReports, rNow, rLeft>>

(* A write fails: the watermark stays and the chunk is read again. *)
PassFails ==
    /\ rPass.pc # "idle"
    /\ Op
    /\ rPass' = Idle
    /\ UNCHANGED <<rReq, rIndex, rPend, rIssue, rHours, rEvents, rSdk, rFired, rLost, rReports, rNow>>

-----------------------------------------------------------------------------
(* An SDK envelope: one event, its own URL, its own timestamp, then the    *)
(* hour bucket and the count of this envelope.                             *)

SdkRecords(ts) ==
    /\ rSdk.pc = "idle" /\ rLeft.sdk > 0
    /\ RecordOne(ts, 0, "sdk", 1, TRUE)
    /\ rSdk' = [pc |-> "hour", hour |-> Hour(ts), rows |-> {}, n |-> 1]
    /\ rLeft' = [rLeft EXCEPT !.sdk = @ - 1]
    /\ UNCHANGED <<rReq, rIndex, rPend, rHours, rPass, rLost, rReports, rNow>>

SdkSetsHour ==
    /\ rSdk.pc = "hour"
    /\ rHours' = HourSet(rSdk.hour, rSdk.n)
    /\ rSdk' = [rSdk EXCEPT !.pc = "refresh"]
    /\ UNCHANGED <<rReq, rIndex, rPend, rIssue, rEvents, rPass, rFired, rLost, rReports, rNow, rLeft>>

SdkAnswers ==
    /\ rSdk.pc = "refresh"
    /\ rIssue' = Refreshed
    /\ rReports' = [rReports EXCEPT ![rSdk.hour] = @ + 1]
    /\ rSdk' = Idle
    /\ UNCHANGED <<rReq, rIndex, rPend, rHours, rEvents, rPass, rFired, rLost, rNow, rLeft>>

-----------------------------------------------------------------------------
(* The console and retention.                                              *)

SetStatus(s) ==
    /\ rIssue.on /\ Op
    /\ rIssue' = [rIssue EXCEPT !.status = s, !.regressed = FALSE, !.at = rNow]
    /\ rFired' = 0
    /\ UNCHANGED <<rReq, rIndex, rPend, rHours, rEvents, rPass, rSdk, rLost, rReports, rNow>>

Retain(cut) ==
    /\ Op
    /\ rEvents' = {e \in rEvents : Hour(e.ts) >= cut}
    /\ rHours' = [h \in Hours |-> IF h < cut THEN 0 ELSE rHours[h]]
    /\ rReports' = [h \in Hours |-> IF h < cut THEN 0 ELSE rReports[h]]
    /\ rIssue' = IF rIssue.on /\ Hour(rIssue.last) < cut THEN NoIssue ELSE rIssue
    /\ rFired' = IF rIssue.on /\ Hour(rIssue.last) < cut THEN 0 ELSE rFired
    /\ UNCHANGED <<rReq, rIndex, rPend, rPass, rSdk, rLost, rNow>>

-----------------------------------------------------------------------------
Init ==
    /\ rReq = [i \in {} |-> [ts |-> 0, how |-> "span", landed |-> FALSE, line |-> "no"]]
    /\ rIndex = {} /\ rPend = {} /\ rLost = {}
    /\ rIssue = NoIssue
    /\ rHours = [h \in Hours |-> 0] /\ rReports = [h \in Hours |-> 0]
    /\ rEvents = {}
    /\ rPass = Idle /\ rSdk = Idle
    /\ rFired = 0 /\ rNow = 1
    /\ rLeft = [sdk |-> MaxSdk, ops |-> MaxOps]

Next ==
    \/ \E how \in {"span", "log"} : Fails(how)
    \/ \E i \in Traces : Lands(i) \/ Logged(i) \/ TailLine(i) \/ Evict(i)
    \/ BurstSkipped \/ Restart \/ Tick
    \/ \E h \in Hours : PassReads(h)
    \/ \E row \in rPass.rows : PassRecords(row)
    \/ PassSetsHour \/ PassRefreshes \/ PassFails
    \/ \E ts \in 1..rNow : SdkRecords(ts)
    \/ SdkSetsHour \/ SdkAnswers
    \/ \E s \in {"open", "resolved", "ignored"} : SetStatus(s)
    \/ \E cut \in 1..Hour(rNow) : Retain(cut)

Spec == Init /\ [][Next]_vars

-----------------------------------------------------------------------------
Bounds ==
    /\ HourLen \in Nat \ {0} /\ Keep \in Nat \ {0} /\ MaxTime \in Nat
    /\ MaxTraces \in Nat /\ MaxSdk \in Nat /\ MaxOps \in Nat
Requests == [ts : Nat, how : {"span", "log"}, landed : BOOLEAN,
             line : {"no", "written", "tailed", "skipped"}]
Occurrences == [id : Nat, ts : Nat, trace : Nat, from : {"telemetry", "sdk"}, req : BOOLEAN]

(* The rows of a pass are requests that failed, and so is every occurrence *)
(* that telemetry reported; an issue keeps no more than its newest.        *)
ClockOK ==
    /\ \E n \in 0..MaxTraces : rReq \in [1..n -> Requests]
    /\ DOMAIN rPass = DOMAIN Idle /\ \A row \in rPass.rows : row.trace \in Traces
    /\ DOMAIN rIssue = DOMAIN NoIssue /\ rIssue.at \in Nat
    /\ rIssue.status \in {"open", "resolved", "ignored"}
    /\ rFired \in Nat /\ rNow \in Nat
RowsOK ==
    /\ rIndex \subseteq Traces /\ rPend \subseteq Traces /\ rLost \subseteq Traces
    /\ rEvents \subseteq Occurrences
    /\ \A e \in rEvents : e.from = "telemetry" => e.trace \in Traces
    /\ rPass.pc \in {"idle", "record", "refresh"}
    /\ DOMAIN rSdk = DOMAIN Idle /\ rSdk.pc \in {"idle", "hour", "refresh"}
Kept == IsFiniteSet(rEvents) /\ Cardinality(rEvents) <= Keep
TypeOK == ClockOK /\ RowsOK /\ Kept

(* A stored occurrence has its request as soon as the request's access     *)
(* line has been tailed, whichever of the two came first and however often *)
(* its hour is read again, unless the index entry was evicted or lost      *)
(* (errors.rs take_request, accesslog.rs tick, backfill_error_request).    *)
RequestsJoin ==
    \A e \in rEvents :
        e.from = "telemetry" /\ rReq[e.trace].line = "tailed" /\ e.trace \notin rLost => e.req

(* What the join needs: a tailed line is in the index, and an occurrence   *)
(* without its request waits for a line that is still to be tailed.        *)
JoinInv ==
    /\ \A i \in Traces : rReq[i].line = "tailed" /\ i \notin rLost => i \in rIndex
    /\ \A e \in rEvents : e.from = "telemetry" /\ ~e.req /\ e.trace \notin rLost =>
                            e.trace \in rPend /\ rReq[e.trace].line # "tailed"

(* What the fold needs: an issue that does not exist reads open.           *)
FoldInv ==
    /\ rIssue.regressed => rIssue.status = "open"
    /\ ~rIssue.on => rIssue.status = "open"
    /\ rIssue.status = "resolved" => rFired <= rIssue.at

(* A resolved issue has stored no occurrence later than the moment it was  *)
(* resolved, and an issue marked regressed is one that was reopened, late  *)
(* telemetry, replays and SDK timestamps included (upsert_error_issue).    *)
ResolvedMeansQuiet ==
    /\ rIssue.status = "resolved" => rFired <= rIssue.at
    /\ rIssue.regressed => rIssue.status = "open"

(* The displayed count "stays exact" (db/errors.rs                         *)
(* refresh_error_issue_count): it never falls short of the SDK envelopes   *)
(* answered in the hours still retained.                                   *)
SdkReportsCounted ==
    rSdk.pc = "idle" /\ rPass.pc = "idle" => \A h \in Hours : rHours[h] >= rReports[h]
=============================================================================
