------------------------------ MODULE EdgePush ------------------------------
(***************************************************************************)
(* How a change of the rows reaches visitors: push_routes builds the table *)
(* under PUSH_LOCK from separate reads, numbers it against the table file, *)
(* writes the file and posts it to Caddy's admin API, whose handler keeps  *)
(* the newer of two tables (host/edge_table.rs; edge/edge.go, external to  *)
(* the runner).  Caddy is a supervised child that loads the file when it   *)
(* starts (host/children.rs).  Every lifecycle event and every tick of the *)
(* reconcile loop pushes; a tick is always to come.                        *)
(*                                                                         *)
(* The rows are two numbers that grow: app rows, and the rows of the other *)
(* three reads.  A table says which of each it was built from.             *)
(***************************************************************************)
EXTENDS Integers, Sequences, FiniteSets

CONSTANTS
    Sites,       \* edge_routes handlers of the static config, each loads the file
    MaxChanges,  \* BOUND: changes of the rows
    MaxFaults    \* BOUND: failing reads, lost answers, exits of Caddy and the runner

VARIABLES
    jDb,      \* the rows
    jFile,    \* the table file: [gen, says], gen 0 for none
    jHist,    \* what each generation said (history)
    jPush,    \* the holder of PUSH_LOCK
    jCaddy,   \* the Caddy process
    jFlight,  \* tables posted whose sender has given up
    jLeft     \* what is left of the bounds

vars == <<jDb, jFile, jHist, jPush, jCaddy, jFlight, jLeft>>

Nothing == [apps |-> -1, rest |-> -1]
Says == [apps : 0 .. MaxChanges, rest : 0 .. MaxChanges]
NoTable == [gen |-> 0, says |-> Nothing]
Free == [at |-> "free"]
Down == [at |-> "down", tab |-> NoTable, read |-> NoTable, sites |-> 0]

Fault == jLeft.faults > 0 /\ jLeft' = [jLeft EXCEPT !.faults = @ - 1]

-----------------------------------------------------------------------------
(* The rows change under the pushers.                                      *)
Change(part) ==
    /\ jLeft.changes > 0
    /\ jLeft' = [jLeft EXCEPT !.changes = @ - 1]
    /\ jDb' = [jDb EXCEPT ![part] = @ + 1]
    /\ UNCHANGED <<jFile, jHist, jPush, jCaddy, jFlight>>

-----------------------------------------------------------------------------
(* push_routes.                                                            *)

Lock ==
    /\ jPush.at = "free"
    /\ jPush' = [at |-> "apps"]
    /\ UNCHANGED <<jDb, jFile, jHist, jCaddy, jFlight, jLeft>>

ReadApps ==
    /\ jPush.at = "apps"
    /\ jPush' = [at |-> "rest", apps |-> jDb.apps]
    /\ UNCHANGED <<jDb, jFile, jHist, jCaddy, jFlight, jLeft>>

(* A read that fails gives the push up before anything is written.         *)
ReadFails ==
    /\ jPush.at \in {"apps", "rest"}
    /\ Fault
    /\ jPush' = Free
    /\ UNCHANGED <<jDb, jFile, jHist, jCaddy, jFlight>>

(* apply_table: the file's generation when nothing changed, else the next. *)
ApplyTableUnnumbered(prev, says) ==
    [gen |-> IF prev.gen = 0 THEN 1 ELSE prev.gen, says |-> says]
ApplyTable(prev, says) ==
    [gen |-> IF prev.says = says THEN prev.gen ELSE prev.gen + 1, says |-> says]

ReadRest ==
    LET table == ApplyTable(jFile, [apps |-> jPush.apps, rest |-> jDb.rest]) IN
    /\ jPush.at = "rest"
    /\ jPush' = [at |-> IF table = jFile THEN "send" ELSE "write", table |-> table]
    /\ UNCHANGED <<jDb, jFile, jHist, jCaddy, jFlight, jLeft>>

(* The temporary file is renamed over the old one.                         *)
Write ==
    /\ jPush.at = "write"
    /\ jFile' = jPush.table
    /\ jHist' = Append(jHist, jPush.table.says)
    /\ jPush' = [jPush EXCEPT !.at = "send"]
    /\ UNCHANGED <<jDb, jCaddy, jFlight, jLeft>>

(* handleAdmin: an older table is refused, an equal one is a no-op.        *)
TakesAny(cur, t) == cur.gen # t.gen
Takes(cur, t) == cur.gen < t.gen
Deliver(t) ==
    jCaddy' = IF Takes(jCaddy.tab, t) THEN [jCaddy EXCEPT !.tab = t] ELSE jCaddy

Send ==
    /\ jPush.at = "send"
    /\ IF jCaddy.at = "down" THEN UNCHANGED jCaddy ELSE Deliver(jPush.table)
    /\ jPush' = Free
    /\ UNCHANGED <<jDb, jFile, jHist, jFlight, jLeft>>

(* The ten seconds pass: the sender gives up, the request may still land.  *)
SendTimesOut ==
    /\ jPush.at = "send"
    /\ jCaddy.at # "down"
    /\ Fault
    /\ jFlight' = jFlight \cup {jPush.table}
    /\ jPush' = Free
    /\ UNCHANGED <<jDb, jFile, jHist, jCaddy>>

LandsLate(t) ==
    /\ jCaddy.at # "down"
    /\ Deliver(t)
    /\ jFlight' = jFlight \ {t}
    /\ UNCHANGED <<jDb, jFile, jHist, jPush, jLeft>>

-----------------------------------------------------------------------------
(* Caddy, restarted by Supervised after its backoff.  Every site reads the *)
(* file and installs what it read; the admin API answers meanwhile.        *)

CaddyStarts ==
    /\ jCaddy.at = "down"
    /\ jCaddy' = [at |-> "load", tab |-> NoTable, read |-> NoTable, sites |-> Sites]
    /\ UNCHANGED <<jDb, jFile, jHist, jPush, jFlight, jLeft>>

LoadTable ==
    /\ jCaddy.at = "load"
    /\ jCaddy' = [jCaddy EXCEPT !.read = jFile, !.at = "install"]
    /\ UNCHANGED <<jDb, jFile, jHist, jPush, jFlight, jLeft>>

(* Provision swaps with no look at the generation.                         *)
Provision ==
    /\ jCaddy.at = "install"
    /\ jCaddy' = [jCaddy EXCEPT
                     !.tab = IF jCaddy.read = NoTable THEN @ ELSE jCaddy.read,
                     !.sites = @ - 1,
                     !.at = IF jCaddy.sites = 1 THEN "up" ELSE "load"]
    /\ UNCHANGED <<jDb, jFile, jHist, jPush, jFlight, jLeft>>

CaddyExits ==
    /\ jCaddy.at # "down"
    /\ Fault
    /\ jCaddy' = Down
    /\ jFlight' = {}
    /\ UNCHANGED <<jDb, jFile, jHist, jPush>>

(* The container dies: lock, connections and Caddy go, the file stays.     *)
RunnerDies ==
    /\ Fault
    /\ jPush' = Free
    /\ jCaddy' = Down
    /\ jFlight' = {}
    /\ UNCHANGED <<jDb, jFile, jHist>>

-----------------------------------------------------------------------------
Init ==
    /\ jDb = [apps |-> 0, rest |-> 0]
    /\ jFile = NoTable
    /\ jHist = <<>>
    /\ jPush = Free
    /\ jCaddy = Down
    /\ jFlight = {}
    /\ jLeft = [changes |-> MaxChanges, faults |-> MaxFaults]

Pusher == Lock \/ ReadApps \/ ReadRest \/ Write \/ Send
Caddy == CaddyStarts \/ LoadTable \/ Provision
Next ==
    \/ \E part \in {"apps", "rest"} : Change(part)
    \/ Pusher \/ ReadFails \/ SendTimesOut
    \/ \E t \in jFlight : LandsLate(t)
    \/ Caddy \/ CaddyExits \/ RunnerDies

(* The loop ticks for ever, a push ends within its timeout, and Supervised *)
(* restarts Caddy after at most BACKOFF_MAX.                               *)
Fairness == WF_vars(Pusher) /\ WF_vars(Caddy)
Spec == Init /\ [][Next]_vars /\ Fairness

-----------------------------------------------------------------------------
PushSteps == {"free", "apps", "rest", "write", "send"}
TypeOK ==
    /\ jDb \in Says
    /\ jFile.gen = Len(jHist)
    /\ jPush.at \in PushSteps
    /\ jCaddy.at \in {"down", "load", "install", "up"}
    /\ \A t \in jFlight : t.gen \in 1 .. Len(jHist)

Promise == INSTANCE EdgeServes WITH
    Tables <- Says, Nothing <- Nothing, published <- jHist, at <- jCaddy.tab.gen,
    serving <- jCaddy.tab.says, up <- jCaddy.at = "up"

(* push_routes and Caddy implement EdgeServes: with pushes answered late,  *)
(* lost and repeated, and Caddy and the runner restarting in the middle,   *)
(* an edge that is up never goes back to an older table, every table it    *)
(* serves is one that was written, and it ends on the last one.            *)
EdgeKeepsPromise == Promise!Spec

(* Its safety part, and why it holds: a table in a file, a request, a push *)
(* past its write or an edge is the one written under its number.          *)
EdgeInOrder == Promise!Init /\ [][Promise!Next]_(Promise!vars)

Bounds == MaxChanges \in Nat /\ MaxFaults \in Nat /\ Sites \in Nat
Tables == [gen : Nat, says : Says \cup {Nothing}]
Wrote(hist, t) == t.gen \in 1 .. Len(hist) /\ t.says = hist[t.gen]
Pushes == [at : {"free", "apps"}] \cup [at : {"rest"}, apps : 0 .. MaxChanges] \cup [at : {"write", "send"}, table : Tables]
Caddies == [at : {"down", "load", "install", "up"}, tab : Tables, read : Tables, sites : Int]
Lefts == [changes : 0 .. MaxChanges, faults : 0 .. MaxFaults]
StateOK ==
    /\ jDb \in Says /\ jFile \in Tables /\ jHist \in Seq(Says) /\ jPush \in Pushes
    /\ jCaddy \in Caddies /\ jFlight \subseteq Tables /\ jLeft \in Lefts
    /\ jDb.apps + jDb.rest + jLeft.changes = MaxChanges
WroteInv ==
    /\ jFile.gen = Len(jHist) /\ (jFile = NoTable \/ Wrote(jHist, jFile))
    /\ jPush.at = "write" => jPush.table.gen = Len(jHist) + 1 /\ jPush.table.says \in Says
    /\ jPush.at = "send" => Wrote(jHist, jPush.table)
    /\ \A t \in jFlight : Wrote(jHist, t)
    /\ jCaddy.tab = NoTable \/ Wrote(jHist, jCaddy.tab)
    /\ jCaddy.read = NoTable \/ Wrote(jHist, jCaddy.read)
    /\ jCaddy.at = "down" => jCaddy.tab = NoTable

(* A change of the rows reaches visitors: once the rows rest, the edge     *)
(* ends up serving the table built from them, whatever push was lost.      *)
EdgeCatchesUp == <>[](jCaddy.at = "up" /\ jCaddy.tab.says = jDb)
=============================================================================
