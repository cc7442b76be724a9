---------------------------- MODULE LiveStreams ----------------------------
(***************************************************************************)
(* The live pages of the panel (api/sse.rs poll_stream, api/observe.rs     *)
(* app_logs_stream and the handlers that hand them a snapshot): a task per *)
(* stream takes snapshots, sends one when it changed, and sleeps until its *)
(* interval is over or, for the log tail, new logs are signalled.  The     *)
(* first frame has a budget; a stream that cannot meet it ends, and the    *)
(* client opens another.                                                   *)
(*                                                                         *)
(* A snapshot is the version of what it shows.  The budget is counted in   *)
(* intervals; a snapshot that does not answer uses up all of it.           *)
(***************************************************************************)
EXTENDS Integers, Sequences

CONSTANTS
    Streams,     \* a client's streams, one connection each at a time
    Capacity,    \* frames the channel holds
    Budget,      \* intervals until a first frame is due
    MaxChanges,  \* BOUND: changes of what the streams show
    MaxFaults,   \* BOUND: snapshots that fail or do not answer
    MaxOpens     \* BOUND: connections

None == 0 - 1
Error == 0 - 2
Partial == 0 - 3   \* a tail without the ingested lines
Frames == {None, Partial} \cup 0 .. MaxChanges

VARIABLES
    lData,    \* version of what a snapshot shows
    lGone,    \* the app was deleted
    lNote,    \* the log signal (a watch channel's version)
    lTask,    \* stream -> its task
    lWire,    \* stream -> frames sent and not read
    lClient,  \* stream -> [on, shown]: connected, the frame on the page
    lLeft

vars == <<lData, lGone, lNote, lTask, lWire, lClient, lLeft>>

NoTask == [pc |-> "off", page |-> "rows", got |-> None, last |-> None, sent |-> FALSE, spent |-> 0, seen |-> 0]
On(s) == lClient[s].on
Tails(s) == lTask[s].page = "logs"
At(s, pc) == lTask[s].pc = pc

TypeOK ==
    /\ lData \in 0 .. MaxChanges /\ lGone \in BOOLEAN /\ lNote \in 0 .. MaxChanges
    /\ \A s \in Streams :
          /\ lTask[s].pc \in {"off", "snap", "send", "fail", "wait", "exit", "hung"}
          /\ lTask[s].got \in Frames /\ lTask[s].last \in Frames /\ lTask[s].spent \in 0 .. Budget
          /\ lWire[s] \in Seq(Frames \cup {Error}) /\ Len(lWire[s]) <= Capacity + 1
          /\ lClient[s] \in [on : BOOLEAN, shown : Frames]
    /\ \A k \in DOMAIN lLeft : lLeft[k] >= 0

Init ==
    /\ lData = 0 /\ lGone = FALSE /\ lNote = 0
    /\ lTask = [s \in Streams |-> NoTask]
    /\ lWire = [s \in Streams |-> <<>>]
    /\ lClient = [s \in Streams |-> [on |-> FALSE, shown |-> None]]
    /\ lLeft = [faults |-> MaxFaults, opens |-> MaxOpens]

Spent(what) == lLeft[what] > 0 /\ lLeft' = [lLeft EXCEPT ![what] = @ - 1]
Becomes(s, task) == lTask' = [lTask EXCEPT ![s] = task]
-----------------------------------------------------------------------------
(* Rows change, lines are logged; the last change may be the delete.       *)
Change ==
    /\ lData < MaxChanges /\ ~lGone
    /\ lData' = lData + 1
    /\ lGone' \in BOOLEAN
    /\ UNCHANGED <<lNote, lTask, lWire, lClient, lLeft>>

(* persist_step, after the ingest that stored the lines; what a fleet      *)
(* wrote to its output is never signalled.                                 *)
Signal ==
    /\ lNote < lData
    /\ lNote' = lNote + 1
    /\ UNCHANGED <<lData, lGone, lTask, lWire, lClient, lLeft>>

(* A stream starts with the signals so far seen.                          *)
Opened(s, page) ==
    /\ ~On(s) /\ At(s, "off") /\ Spent("opens")
    /\ lClient' = [lClient EXCEPT ![s] = [on |-> TRUE, shown |-> None]]
    /\ Becomes(s, [NoTask EXCEPT !.pc = "snap", !.page = page, !.seen = lNote])
    /\ lWire' = [lWire EXCEPT ![s] = <<>>]
    /\ UNCHANGED <<lData, lGone, lNote>>

(* The handlers, once the app (and the environment asked for) was found.   *)
OpenState(s) == ~lGone /\ Opened(s, "state")
OpenDeploys(s) == ~lGone /\ Opened(s, "rows")
OpenEvents(s) == ~lGone /\ Opened(s, "rows")
OpenErrors(s) == ~lGone /\ Opened(s, "rows")
OpenLogs(s) == ~lGone /\ Opened(s, "logs")

(* A frame is due when the snapshot differs from the last one sent.        *)
Answered(s, frame) ==
    Becomes(s, IF lTask[s].last = frame THEN [lTask[s] EXCEPT !.pc = "wait", !.sent = TRUE]
               ELSE [lTask[s] EXCEPT !.pc = "send", !.got = frame])

(* The lists of a deleted app are empty, its state is nothing to show.     *)
Snapshot(s) ==
    /\ At(s, "snap")
    /\ IF lGone /\ lTask[s].page = "state" THEN Becomes(s, [lTask[s] EXCEPT !.pc = "fail"])
       ELSE Answered(s, lData)
    /\ UNCHANGED <<lData, lGone, lNote, lWire, lClient, lLeft>>

(* A read of the rows that fails: a page has no snapshot, the log tail     *)
(* shows the fleet's own lines and no others (merged_lines).               *)
SnapshotFails(s) ==
    /\ At(s, "snap") /\ Spent("faults")
    /\ IF Tails(s) THEN Answered(s, Partial) ELSE Becomes(s, [lTask[s] EXCEPT !.pc = "fail"])
    /\ UNCHANGED <<lData, lGone, lNote, lWire, lClient>>

(* A snapshot that does not answer is given up after SNAPSHOT_TIMEOUT,     *)
(* except the log tail's after its first frame: nothing bounds that one.   *)
SnapshotHangs(s) ==
    /\ At(s, "snap") /\ Spent("faults")
    /\ Becomes(s, IF Tails(s) /\ lTask[s].sent THEN [lTask[s] EXCEPT !.pc = "hung"]
                  ELSE [lTask[s] EXCEPT !.pc = "fail", !.spent = Budget])
    /\ UNCHANGED <<lData, lGone, lNote, lWire, lClient>>

(* Before the first frame a failure past the budget ends the stream with   *)
(* an error; afterwards the next interval tries again.                     *)
Failed(s) ==
    /\ At(s, "fail")
    /\ IF ~lTask[s].sent /\ lTask[s].spent >= Budget
       THEN /\ Becomes(s, [lTask[s] EXCEPT !.pc = "exit"])
            /\ lWire' = [lWire EXCEPT ![s] = IF On(s) THEN Append(@, Error) ELSE @]
       ELSE Becomes(s, [lTask[s] EXCEPT !.pc = "wait"]) /\ UNCHANGED lWire
    /\ UNCHANGED <<lData, lGone, lNote, lClient, lLeft>>

(* The send waits for room in the channel; a receiver that is gone ends    *)
(* the stream.                                                             *)
Send(s) ==
    /\ At(s, "send")
    /\ \/ ~On(s) /\ Becomes(s, [lTask[s] EXCEPT !.pc = "exit"]) /\ UNCHANGED lWire
       \/ /\ On(s) /\ Len(lWire[s]) < Capacity
          /\ Becomes(s, [lTask[s] EXCEPT !.pc = "wait", !.sent = TRUE, !.last = lTask[s].got])
          /\ lWire' = [lWire EXCEPT ![s] = Append(@, lTask[s].got)]
    /\ UNCHANGED <<lData, lGone, lNote, lClient, lLeft>>

Again(s, seen) ==
    Becomes(s, [lTask[s] EXCEPT !.pc = "snap", !.seen = seen,
                                !.spent = IF @ < Budget THEN @ + 1 ELSE @])

(* Mutant: the log tail sleeps until it is signalled.                      *)
IntervalOfPolls(s) ==
    /\ At(s, "wait") /\ ~Tails(s)
    /\ Again(s, lTask[s].seen)
    /\ UNCHANGED <<lData, lGone, lNote, lWire, lClient, lLeft>>

(* The select at the end of the loop: the interval (the tail's heartbeat), *)
(* the signal, the client gone.                                            *)
Interval(s) ==
    /\ At(s, "wait")
    /\ Again(s, lTask[s].seen)
    /\ UNCHANGED <<lData, lGone, lNote, lWire, lClient, lLeft>>

Notified(s) ==
    /\ At(s, "wait") /\ Tails(s) /\ lTask[s].seen # lNote
    /\ Again(s, lNote)
    /\ UNCHANGED <<lData, lGone, lNote, lWire, lClient, lLeft>>

Closed(s) ==
    /\ At(s, "wait") /\ ~On(s)
    /\ Becomes(s, [lTask[s] EXCEPT !.pc = "exit"])
    /\ UNCHANGED <<lData, lGone, lNote, lWire, lClient, lLeft>>

(* sse_exit, and the sender is dropped with the task.                      *)
Exit(s) ==
    /\ At(s, "exit")
    /\ Becomes(s, NoTask)
    /\ UNCHANGED <<lData, lGone, lNote, lWire, lClient, lLeft>>
-----------------------------------------------------------------------------
(* The client reads frames, and learns that the stream has ended.          *)
Receive(s) ==
    /\ On(s)
    /\ \/ /\ lWire[s] # <<>>
          /\ lClient' = [lClient EXCEPT ![s] =
                IF Head(lWire[s]) = Error THEN [@ EXCEPT !.on = FALSE]
                ELSE [@ EXCEPT !.shown = Head(lWire[s])]]
          /\ lWire' = [lWire EXCEPT ![s] = Tail(@)]
       \/ /\ lWire[s] = <<>> /\ At(s, "off")
          /\ lClient' = [lClient EXCEPT ![s].on = FALSE]
          /\ UNCHANGED lWire
    /\ UNCHANGED <<lData, lGone, lNote, lTask, lLeft>>

(* It goes away.                                                           *)
Leave(s) ==
    /\ On(s)
    /\ lClient' = [lClient EXCEPT ![s].on = FALSE]
    /\ lWire' = [lWire EXCEPT ![s] = <<>>]
    /\ UNCHANGED <<lData, lGone, lNote, lTask, lLeft>>

TaskStep(s) ==
    \/ Snapshot(s) \/ SnapshotFails(s) \/ SnapshotHangs(s) \/ Failed(s) \/ Send(s)
    \/ Interval(s) \/ Notified(s) \/ Closed(s) \/ Exit(s)

Next ==
    \/ Change \/ Signal
    \/ \E s \in Streams : OpenState(s) \/ OpenDeploys(s) \/ OpenEvents(s) \/ OpenErrors(s) \/ OpenLogs(s)
                          \/ TaskStep(s) \/ Receive(s) \/ Leave(s)

Spec == Init /\ [][Next]_vars
-----------------------------------------------------------------------------
(* What StreamsSettle leaves out.                                          *)
Abandoned(s) == At(s, "hung") \/ (lGone /\ lTask[s].page = "state")

(* A page that stays open ends up with the frame of what is there now, or  *)
(* with its stream ended so that it can open another, whatever snapshots   *)
(* fail and however slowly it reads; and a stream whose client left stops. *)
(* Left out are a later snapshot of the log tail that never answers and    *)
(* the state page of a deleted app, which navigates away.                  *)
StreamsSettle ==
    \A s \in Streams :
        /\ On(s) ~> (~On(s) \/ lClient[s].shown = lData \/ Abandoned(s))
        /\ ~On(s) ~> (On(s) \/ At(s, "off") \/ At(s, "hung"))
=============================================================================
