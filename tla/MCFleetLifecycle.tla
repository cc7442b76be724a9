-------------------------- MODULE MCFleetLifecycle --------------------------
(* Instances of FleetLifecycle for TLC.                                    *)
EXTENDS FleetLifecycle, TLC

\* Every app starts running behind its proxy route.
InitRunning == /\ Init
               /\ \A a \in Apps : row[a] = RunningRow /\ edge[a] = "proxy"
RunningSpec == InitRunning /\ [][Next]_vars
FairRunning == RunningSpec /\ Fairness

\* Every app starts asleep behind its wake route, and wakes contend for
\* permits between two ticks.
InitAsleep    == /\ Init
                 /\ \A a \in Apps : row[a] = AsleepRow /\ edge[a] = "wake"
WakesOnly     == WakeAny \/ FleetAny

WakersAlike == Permutations(Wakers)
=============================================================================
