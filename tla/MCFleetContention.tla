------------------------- MODULE MCFleetContention -------------------------
(* Two apps that compete, in one of two scenes: for the cold starts of a   *)
(* reconcile pass, with no visitor, or for a cold-start permit of their    *)
(* held requests, between two passes.                                      *)
EXTENDS MCFleetLifecycle

VARIABLE scene   \* "batch" | "permits"

ContentionInit ==
    \/ scene = "batch" /\ Init
    \/ scene = "permits" /\ InitAsleep

BatchNext == TickStep \/ ConfirmStep \/ LifeAny \/ PushPending \/ FleetAny \/ Restart
ContentionNext ==
    /\ \/ scene = "batch" /\ BatchNext
       \/ scene = "permits" /\ WakesOnly
    /\ UNCHANGED scene

ContentionSpec ==
    /\ ContentionInit
    /\ [][ContentionNext]_<<vars, scene>>
    /\ scene = "batch" => Fairness

\* With a batch of one, neither app starves: each that stays wanted ends up
\* healthy and routed, through crashes, refused spawns, lost pushes and a
\* restart of the runner (loop_.rs reconcile_once).
BatchStarvesNobody == scene = "batch" => WantedServes
=============================================================================
