----------------------------- MODULE AppEvents -----------------------------
(***************************************************************************)
(* What tenants report about their apps (service/events.rs, db/events.rs):  *)
(* an append-only event log, one property profile per user, one row per     *)
(* insight widget.  IdentifyCalls a profile and incrementing an insight read the  *)
(* row and write it back in a second statement.                             *)
(*                                                                         *)
(* One app, one profile, one widget.  Names, icons and descriptions are     *)
(* checked for shape before anything is written and are left out.  A        *)
(* number's display string is the i64 it is cast to, which saturates at     *)
(* both ends.  A value that is a string has no number (NULL).               *)
(***************************************************************************)
EXTENDS Integers, Sequences

CONSTANTS Callers, Props,        \* API calls, property keys
          Deltas, Values,        \* increments, and numbers a widget is set to
          IntMax, MaxCalls

(* Any increment is accepted, a negative one too; a number the set call       *)
(* prints as an i64 is below 1e15 and so is one.                            *)
I64 == (0 - IntMax - 1)..IntMax
Bounds ==
    /\ Props # {} /\ Deltas \subseteq Int /\ Values \subseteq I64
    /\ IntMax \in Nat /\ MaxCalls \in Nat

VARIABLES fHere,     \* the app's row exists
          fLog,      \* number of stored events
          fInsight,  \* [here, null, num, text]: null when the value is a string
          fProfile,  \* [here, props]: key -> value, 0 for none
          fCall,     \* calls between their two statements
          fDue,      \* what the acknowledged calls add up to
          fWanted,   \* the profile the acknowledged calls add up to
          fOverlap,  \* a call's two statements had another call's write between
          fLeft

vars == <<fHere, fLog, fInsight, fProfile, fCall, fDue, fWanted, fOverlap, fLeft>>

Nobody == [k \in Props |-> 0]
NoInsight == [here |-> FALSE, null |-> TRUE, num |-> 0, text |-> 0]
NoProfile == [here |-> FALSE, props |-> Nobody]
NoCall == [op |-> "none", delta |-> 0, key |-> CHOOSE k \in Props : TRUE,
           row |-> NoInsight, prev |-> NoProfile]
Insights == [here : BOOLEAN, null : BOOLEAN, num : Int, text : I64]
Profiles == [here : BOOLEAN, props : [Props -> 0..MaxCalls]]
IncCalls == [op : {"none", "inc"}, delta : Int, key : Props, row : Insights, prev : Profiles]
IdentifyCalls == [op : {"identify"}, delta : 0..MaxCalls, key : Props, row : Insights, prev : Profiles]
CallStates == IncCalls \cup IdentifyCalls

TypeOK ==
    /\ fHere \in BOOLEAN /\ fOverlap \in BOOLEAN /\ fLog \in 0..MaxCalls
    /\ fInsight \in Insights /\ fProfile \in Profiles /\ fCall \in [Callers -> CallStates]
    /\ fDue \in Int /\ fWanted \in [Props -> 0..MaxCalls] /\ fLeft \in 0..MaxCalls

Init ==
    /\ fHere = TRUE /\ fLog = 0 /\ fInsight = NoInsight /\ fProfile = NoProfile
    /\ fCall = [c \in Callers |-> NoCall]
    /\ fDue = 0 /\ fWanted = Nobody /\ fOverlap = FALSE /\ fLeft = MaxCalls

(* Each call looks the app up first. *)
Accepted == fHere /\ fLeft > 0 /\ fLeft' = fLeft - 1
Others(c, op) == \E d \in Callers \ {c} : fCall[d].op = op

(* Mutant: the sum is shown as it is, past what an i64 holds. *)
ShownWide(n) == n

(* format!("{}", next as i64) *)
Shown(n) ==
    CASE n > IntMax -> IntMax
      [] n < 0 - IntMax - 1 -> 0 - IntMax - 1
      [] OTHER -> n

Inserted == fLog + 1
LogEvent ==
    /\ Accepted /\ fLog' = Inserted
    /\ UNCHANGED <<fHere, fInsight, fProfile, fCall, fDue, fWanted, fOverlap>>

(* set_insight with a plain value, a number or a string: one upsert. *)
Upserted(null, n) == [here |-> TRUE, null |-> null, num |-> n, text |-> n]
SetInsight(null, n) ==
    /\ Accepted
    /\ fInsight' = Upserted(null, n)
    /\ fDue' = (IF null THEN 0 ELSE n)
    /\ fOverlap' = (fOverlap \/ \E c \in Callers : fCall[c].op = "inc")
    /\ UNCHANGED <<fHere, fLog, fProfile, fCall, fWanted>>

(* inc_app_insight: SELECT, then the upsert of what was read plus delta; a   *)
(* widget that is missing, or holds a string, counts from zero.             *)
IncRead(c, d) ==
    /\ fCall[c].op = "none" /\ Accepted
    /\ fCall' = [fCall EXCEPT ![c] = [NoCall EXCEPT !.op = "inc", !.delta = d, !.row = fInsight]]
    /\ UNCHANGED <<fHere, fLog, fInsight, fProfile, fDue, fWanted, fOverlap>>

Incremented(row, d) == IF row.here /\ ~row.null THEN row.num + d ELSE d
IncWrite(c) ==
    /\ fCall[c].op = "inc" /\ fCall' = [fCall EXCEPT ![c] = NoCall]
    /\ LET next == Incremented(fCall[c].row, fCall[c].delta) IN
       IF fHere
       THEN /\ fInsight' = [here |-> TRUE, null |-> FALSE, num |-> next, text |-> Shown(next)]
            /\ fDue' = fDue + fCall[c].delta
            /\ fOverlap' = (fOverlap \/ Others(c, "inc"))
       ELSE UNCHANGED <<fInsight, fDue, fOverlap>>
    /\ UNCHANGED <<fHere, fLog, fProfile, fWanted, fLeft>>

(* upsert_app_user_props: SELECT, merge by key, upsert. *)
IdentifyRead(c, k) ==
    /\ fCall[c].op = "none" /\ Accepted
    /\ fCall' = [fCall EXCEPT ![c] =
         [NoCall EXCEPT !.op = "identify", !.key = k, !.delta = fLeft, !.prev = fProfile]]
    /\ UNCHANGED <<fHere, fLog, fInsight, fProfile, fDue, fWanted, fOverlap>>

Merged(prev, k, v) == [prev.props EXCEPT ![k] = v]
IdentifyWrite(c) ==
    /\ fCall[c].op = "identify" /\ fCall' = [fCall EXCEPT ![c] = NoCall]
    /\ IF fHere
       THEN /\ fProfile' = [here |-> TRUE,
                            props |-> Merged(fCall[c].prev, fCall[c].key, fCall[c].delta)]
            /\ fWanted' = [fWanted EXCEPT ![fCall[c].key] = fCall[c].delta]
            /\ fOverlap' = (fOverlap \/ Others(c, "identify"))
       ELSE UNCHANGED <<fProfile, fWanted, fOverlap>>
    /\ UNCHANGED <<fHere, fLog, fInsight, fDue, fLeft>>

(* The app is deleted: its rows go with it, a late upsert fails on the       *)
(* foreign key.                                                             *)
AppDeleted ==
    /\ fHere /\ fHere' = FALSE /\ fLog' = 0
    /\ fInsight' = NoInsight /\ fProfile' = NoProfile /\ fDue' = 0 /\ fWanted' = Nobody
    /\ UNCHANGED <<fCall, fOverlap, fLeft>>

Next ==
    \/ LogEvent \/ AppDeleted \/ \E null \in BOOLEAN, n \in Values : SetInsight(null, n)
    \/ \E c \in Callers : \/ \E d \in Deltas : IncRead(c, d)
                          \/ \E k \in Props : IdentifyRead(c, k)
                          \/ IncWrite(c) \/ IdentifyWrite(c)

Spec == Init /\ [][Next]_vars

-----------------------------------------------------------------------------
Current == IF fInsight.null THEN 0 ELSE fInsight.num

(* As long as no two calls overlap, an insight is the sum of what was        *)
(* acknowledged since it was last set, whatever it held before, and a       *)
(* profile has the last acknowledged value of every key                     *)
(* (inc_app_insight, upsert_app_user_props).                                *)
SerialWritesCount == ~fOverlap => Current = fDue /\ fProfile.props = fWanted

(* What makes it inductive: with no overlap so far, a call between its two   *)
(* statements still holds the row as it is, a string's row counts as zero,  *)
(* and an event is paid for by a call.                                      *)
ReadsCurrent ==
    ~fOverlap /\ fHere =>
        \A c \in Callers : /\ fCall[c].op = "inc" => fCall[c].row = fInsight
                           /\ fCall[c].op = "identify" => fCall[c].prev = fProfile
SerialInv ==
    /\ SerialWritesCount /\ ReadsCurrent /\ fLog + fLeft <= MaxCalls
    /\ fInsight.here \/ fInsight.null

(* "Atomic increment of an insight" (db/events.rs, inc_app_insight):         *)
(* every acknowledged increment is in the number.                           *)
IncrementsKept == Current = fDue
=============================================================================
