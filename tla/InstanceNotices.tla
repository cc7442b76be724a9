-------------------------- MODULE InstanceNotices --------------------------
(***************************************************************************)
(* The two outbound calls an install makes about itself: the daily         *)
(* heartbeat (host/telemetry_report.rs) and the release-list check behind  *)
(* the "new version" notice (host/update_check.rs), with the settings rows *)
(* they share (db/instance_setting.rs), the admin's toggles                *)
(* (service/telemetry.rs, service/update_check.rs), and upgrades of the    *)
(* image under a database that keeps the cached result.                    *)
(*                                                                         *)
(* A call is four steps: the decision, the request, the record of it, and  *)
(* for the check the cached result.  The payload of the heartbeat is left  *)
(* out; a release is its parsed version and whether it is promoted.        *)
(***************************************************************************)
EXTENDS Integers, Sequences, FiniteSets

CONSTANTS Versions,   \* release versions: [core, pre], pre a sequence of <<kind, n>>
          Day,        \* ticks between two calls
          MaxTime, MaxNews, MaxToggles, MaxFaults, MaxBoots

VARIABLES oNow, oImage,   \* the clock; the running version
          oRows,          \* instance_setting: [beat, beatAt, upd, updAt, result]
          oFeed,          \* GitHub's list: version -> "absent" | "pre" | "promoted"
          oCall,          \* the calls in progress: name -> [step, at, list]
          oLate,          \* requests that left after the admin's last opt-out
          oLeft

vars == <<oNow, oImage, oRows, oFeed, oCall, oLate, oLeft>>

(* "beat" and "tick" are the two schedulers' calls, "enable" the check that *)
(* turning the notice on hands to a task of its own.                        *)
Calls == {"beat", "tick", "enable"}
Never == 0
Nothing == [core |-> 0, pre |-> <<>>]
Dev == Nothing
NoCall == [step |-> "idle", at |-> 0, list |-> {}]

-----------------------------------------------------------------------------
(* ParsedVersion: semver order.  A final outranks its own pre-releases, a   *)
(* numeric identifier is below an alphanumeric one (kind 0 below kind 1),   *)
(* a longer pre-release part wins when the shared parts are equal.          *)
PartLess(a, b) == a[1] < b[1] \/ (a[1] = b[1] /\ a[2] < b[2])
PreLess(a, b) ==
    \/ \E i \in DOMAIN a \cap DOMAIN b :
          PartLess(a[i], b[i]) /\ \A j \in 1..(i - 1) : a[j] = b[j]
    \/ Len(a) < Len(b) /\ \A j \in DOMAIN a : a[j] = b[j]
Less(a, b) ==
    \/ a.core < b.core
    \/ a.core = b.core /\ a.pre # <<>> /\ (b.pre = <<>> \/ PreLess(a.pre, b.pre))

(* select_update over the promoted releases of a list. *)
Qualifies(current, v) ==
    /\ current # Dev
    /\ current.pre = <<>> => v.pre = <<>>
    /\ Less(current, v)
SelectUpdate(current, list) ==
    LET good == {v \in list : Qualifies(current, v)} IN
    IF good = {} THEN Nothing
    ELSE CHOOSE v \in good : \A w \in good : ~Less(v, w)

(* status_for: the cached release is put through the same rules again. *)
StatusAsCached(current, rows) == rows.result
StatusLatest(current, rows) ==
    IF rows.result = Nothing THEN Nothing ELSE SelectUpdate(current, {rows.result})

(* should_send and should_check: on (absent is on), not locked, and the     *)
(* last success absent or a day old.                                        *)
Old(last) == last = Never \/ oNow - last >= Day
DueEvenOff(c) == Old(IF c = "beat" THEN oRows.beatAt ELSE oRows.updAt)
BeatDue == oRows.beat # "0" /\ Old(oRows.beatAt)
CheckDue == oRows.upd # "0" /\ Old(oRows.updAt)
Due(c) == IF c = "beat" THEN BeatDue ELSE CheckDue

-----------------------------------------------------------------------------
Parts == Nat \X Nat
Semver == [core : Nat, pre : Seq(Parts)]
Bounds ==
    /\ Versions \subseteq Semver /\ IsFiniteSet(Versions) /\ Versions # {}
    /\ MaxTime \in Nat \ {0} /\ MaxNews \in Nat /\ MaxToggles \in Nat
    /\ MaxFaults \in Nat /\ MaxBoots \in Nat

Settings == {"absent", "0", "1"}
Rows == [beat : Settings, beatAt : 0..MaxTime, upd : Settings, updAt : 0..MaxTime,
         result : Versions \cup {Nothing}]
CallStates == [step : {"idle", "decided", "record", "result"}, at : 0..MaxTime,
               list : SUBSET Versions]
Lefts == [news : 0..MaxNews, toggles : 0..MaxToggles, faults : 0..MaxFaults, boots : 0..MaxBoots]

TypeOK ==
    /\ oNow \in 1..MaxTime /\ oImage \in Versions \cup {Dev}
    /\ oRows \in Rows
    /\ oFeed \in [Versions -> {"absent", "pre", "promoted"}]
    /\ oCall \in [Calls -> CallStates]
    /\ oLate \in [{"beat", "upd"} -> Nat]
    /\ oLeft \in Lefts

Init ==
    /\ oNow = 1
    /\ oImage = CHOOSE v \in Versions : \A w \in Versions : ~Less(w, v)
    /\ oRows = [beat |-> "absent", beatAt |-> Never, upd |-> "absent",
                updAt |-> Never, result |-> Nothing]
    /\ oFeed = [v \in Versions |-> "absent"]
    /\ oCall = [c \in Calls |-> NoCall]
    /\ oLate = [beat |-> 0, upd |-> 0]
    /\ oLeft = [news |-> MaxNews, toggles |-> MaxToggles, faults |-> MaxFaults, boots |-> MaxBoots]

Fault == oLeft' = [oLeft EXCEPT !.faults = @ - 1]
Spent == oLeft.faults > 0
At(c, s) == oCall' = [oCall EXCEPT ![c].step = s]
Done(c) == oCall' = [oCall EXCEPT ![c] = NoCall]
Row(c) == IF c = "beat" THEN "beat" ELSE "upd"
Off(c) == (IF c = "beat" THEN oRows.beat ELSE oRows.upd) = "0"

(* GitHub: a release is put out as a pre-release and promoted, promoted     *)
(* outright, or withdrawn (a draft is not in an anonymous list).            *)
Publish(v, s) ==
    /\ oFeed[v] # s /\ oLeft.news > 0
    /\ oFeed' = [oFeed EXCEPT ![v] = s]
    /\ oLeft' = [oLeft EXCEPT !.news = @ - 1]
    /\ UNCHANGED <<oNow, oImage, oRows, oCall, oLate>>

Tick ==
    /\ oNow < MaxTime
    /\ oNow' = oNow + 1
    /\ UNCHANGED <<oImage, oRows, oFeed, oCall, oLate, oLeft>>

(* run_scheduler: the hourly look. *)
Decide(c) ==
    /\ c \in {"beat", "tick"} /\ oCall[c].step = "idle"
    /\ Due(c)
    /\ oCall' = [oCall EXCEPT ![c] = [NoCall EXCEPT !.step = "decided", !.at = oNow]]
    /\ UNCHANGED <<oNow, oImage, oRows, oFeed, oLate, oLeft>>

Left(c) ==
    oLate' = [oLate EXCEPT ![Row(c)] = IF Off(c) THEN @ + 1 ELSE @]

(* The request: sent and answered, or failed on the way (retried at the     *)
(* next look, since nothing was recorded).                                  *)
SendBeat ==
    /\ oCall["beat"].step = "decided" /\ Left("beat")
    /\ \/ At("beat", "record") /\ UNCHANGED oLeft
       \/ Spent /\ Fault /\ Done("beat")
    /\ UNCHANGED <<oNow, oImage, oRows, oFeed>>

RecordSent ==
    /\ oCall["beat"].step = "record"
    /\ \/ oRows' = [oRows EXCEPT !.beatAt = oCall["beat"].at] /\ UNCHANGED oLeft
       \/ Spent /\ Fault /\ UNCHANGED oRows
    /\ Done("beat")
    /\ UNCHANGED <<oNow, oImage, oFeed, oLate>>

Fetch(c) ==
    /\ c # "beat" /\ oCall[c].step = "decided" /\ Left(c)
    /\ \/ /\ oCall' = [oCall EXCEPT ![c].step = "record",
                                    ![c].list = {v \in Versions : oFeed[v] = "promoted"}]
          /\ UNCHANGED oLeft
       \/ Spent /\ Fault /\ Done(c)
    /\ UNCHANGED <<oNow, oImage, oRows, oFeed>>

(* apply_fetch: the stamp first, then the result; a stamp that cannot be    *)
(* written drops the result too.                                            *)
StampCheck(c) ==
    /\ c # "beat" /\ oCall[c].step = "record"
    /\ \/ /\ oRows' = [oRows EXCEPT !.updAt = oCall[c].at]
          /\ At(c, "result") /\ UNCHANGED oLeft
       \/ Spent /\ Fault /\ Done(c) /\ UNCHANGED oRows
    /\ UNCHANGED <<oNow, oImage, oFeed, oLate>>

CacheResult(c) ==
    /\ c # "beat" /\ oCall[c].step = "result"
    /\ \/ /\ oRows' = [oRows EXCEPT !.result = SelectUpdate(oImage, oCall[c].list)]
          /\ UNCHANGED oLeft
       \/ Spent /\ Fault /\ UNCHANGED oRows
    /\ Done(c)
    /\ UNCHANGED <<oNow, oImage, oFeed, oLate>>

-----------------------------------------------------------------------------
(* The admin's toggles.  Turning the check on hands one check to a task at  *)
(* once, whatever the daily gate says.                                      *)
EnableCheck ==
    [oCall EXCEPT !["enable"] = [NoCall EXCEPT !.step = "decided", !.at = oNow]]

SetTelemetry(on) ==
    /\ oLeft.toggles > 0
    /\ oRows' = [oRows EXCEPT !.beat = IF on THEN "1" ELSE "0"]
    /\ oLate' = [oLate EXCEPT !["beat"] = 0]
    /\ oLeft' = [oLeft EXCEPT !.toggles = @ - 1]
    /\ UNCHANGED <<oNow, oImage, oFeed, oCall>>

SetUpdateCheck(on) ==
    /\ oLeft.toggles > 0 /\ oCall["enable"].step = "idle"
    /\ oRows' = [oRows EXCEPT !.upd = IF on THEN "1" ELSE "0"]
    /\ oLate' = [oLate EXCEPT !["upd"] = 0]
    /\ oCall' = IF on THEN EnableCheck ELSE oCall
    /\ oLeft' = [oLeft EXCEPT !.toggles = @ - 1]
    /\ UNCHANGED <<oNow, oImage, oFeed>>

(* Another image is started on the same database; calls in progress die. *)
Reboot(v) ==
    /\ oLeft.boots > 0
    /\ oImage' = v /\ oCall' = [c \in Calls |-> NoCall]
    /\ oLeft' = [oLeft EXCEPT !.boots = @ - 1]
    /\ UNCHANGED <<oNow, oRows, oFeed, oLate>>

Next ==
    \/ Tick
    \/ \E v \in Versions, s \in {"absent", "pre", "promoted"} : Publish(v, s)
    \/ \E c \in Calls : Decide(c) \/ Fetch(c) \/ StampCheck(c) \/ CacheResult(c)
    \/ SendBeat \/ RecordSent
    \/ \E on \in BOOLEAN : SetTelemetry(on) \/ SetUpdateCheck(on)
    \/ \E v \in Versions \cup {Dev} : Reboot(v)

Spec == Init /\ [][Next]_vars

-----------------------------------------------------------------------------
(* The notice an admin sees names a release that is newer than the image    *)
(* they run and of a channel they follow, also right after an upgrade, a    *)
(* downgrade or a switch to a dev build under the cached result of another  *)
(* image.                                                                   *)
NoticeIsNewer ==
    LET shown == StatusLatest(oImage, oRows) IN
    shown # Nothing => Less(oImage, shown) /\ oImage # Dev
                       /\ (oImage.pre = <<>> => shown.pre = <<>>)

(* After an opt-out nothing new leaves: at most the call each task had      *)
(* already decided on.                                                      *)
QuietAfterOptOut == oLate["beat"] <= 1 /\ oLate["upd"] <= 2

(* Why: while a switch is on nothing is late, and once it is off no call is *)
(* decided any more, so what may still leave are the calls decided before.  *)
Decided(c) == IF oCall[c].step = "decided" THEN 1 ELSE 0
OptOutInv ==
    /\ IF oRows.beat = "0" THEN oLate["beat"] + Decided("beat") <= 1 ELSE oLate["beat"] = 0
    /\ IF oRows.upd = "0" THEN oLate["upd"] + Decided("tick") + Decided("enable") <= 2
       ELSE oLate["upd"] = 0

(* "a no-op once the instance opts out": no request leaves after it. *)
SilentAfterOptOut == oLate["beat"] = 0 /\ oLate["upd"] = 0
=============================================================================
