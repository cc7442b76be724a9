----------------------------- MODULE EdgeServes -----------------------------
(***************************************************************************)
(* What the runner and Caddy promise together about the route table: the   *)
(* runner publishes a sequence of tables, and an edge that is up moves     *)
(* along that sequence, never back.  Only an edge that is starting may     *)
(* install any published table, and the edge ends on the last one.         *)
(***************************************************************************)
EXTENDS Integers, Sequences

CONSTANTS
    Tables,   \* what a table can say
    Nothing   \* what an edge with no table serves

VARIABLES
    published,  \* the tables, in the order they were published
    at,         \* the number of the table the edge serves, 0 for none
    serving,    \* what that table says
    up          \* the edge has finished starting

vars == <<published, at, serving, up>>

Init ==
    /\ published = <<>>
    /\ at = 0
    /\ serving = Nothing
    /\ up = FALSE

Publish ==
    /\ \E t \in Tables : published' = Append(published, t)
    /\ UNCHANGED <<at, serving, up>>

Install(k) == at' = k /\ serving' = published[k] /\ UNCHANGED published
Advance == \E k \in at + 1 .. Len(published) : Install(k) /\ UNCHANGED up
CatchUp == at < Len(published) /\ Install(Len(published)) /\ UNCHANGED up

Load == ~up /\ up' \in BOOLEAN /\ \E k \in 1 .. Len(published) : Install(k)
Ready == ~up /\ up' = TRUE /\ UNCHANGED <<published, at, serving>>
Exit ==
    /\ at' = 0
    /\ serving' = Nothing
    /\ up' = FALSE
    /\ UNCHANGED published

Next == Publish \/ Advance \/ Load \/ Ready \/ Exit
Spec == Init /\ [][Next]_vars /\ WF_vars(CatchUp)
=============================================================================
