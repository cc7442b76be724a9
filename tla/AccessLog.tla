----------------------------- MODULE AccessLog -----------------------------
(***************************************************************************)
(* The tail of the edge's access log (host/accesslog.rs tick): each tick    *)
(* resumes at the offset a sidecar file keeps, counts the new lines of the  *)
(* tenants into hour buckets, saves the offset, and empties a log that has  *)
(* grown too large.  The edge appends all the while; the runner may die      *)
(* between any two steps, and the log may be replaced while it is down.     *)
(*                                                                         *)
(* The log is a sequence of cells: a line is its number followed by a       *)
(* newline cell, appended in one write.  A line's host, path, referrer and  *)
(* device only decide which rows it is added to: a line here is a tenant's  *)
(* or nobody's.                                                             *)
(***************************************************************************)
EXTENDS Integers, Sequences, FiniteSets

CONSTANTS CatchUp, TruncateAt,        \* MAX_CATCHUP_BYTES, TRUNCATE_BYTES, in cells
          Tenants,                    \* the lines that name a tenant's host
          MaxLines, MaxRotations, MaxFaults

NL == 0
Lines == 1..MaxLines
Bounds ==
    /\ CatchUp \in Nat /\ TruncateAt \in Nat /\ Tenants \subseteq Lines
    /\ MaxLines \in Nat /\ MaxRotations \in Nat /\ MaxFaults \in Nat

VARIABLES qLog,     \* [ino, cells]: the file Caddy appends to
          qSaved,   \* [ino, off]: the sidecar
          qTick,    \* the tick in progress
          qCount,   \* line -> how often its buckets were incremented
          qSkipped, \* lines a burst, a replaced log or a death mid-truncation cost
          qRaced,   \* lines that were appended between the size check and the truncation
          qWritten, \* lines appended so far
          qFails,   \* ticks that did not get to save their offset
          qLeft

vars == <<qLog, qSaved, qTick, qCount, qSkipped, qRaced, qWritten, qFails, qLeft>>

NoTick == [step |-> "idle", ino |-> 0, len |-> 0, off |-> 0, rest |-> <<>>, used |-> 0]
Cells == 0..2 * MaxLines
LinesIn(cells) == {cells[i] : i \in 1..Len(cells)} \ {NL}

Inodes == 0..MaxRotations + 1
Steps == {"idle", "read", "count", "check", "empty", "zero"}
Ticks == [step : Steps, ino : Inodes, len : Cells, off : Cells,
          rest : Seq(0..MaxLines), used : Cells]
TypeOK ==
    /\ qLog \in [ino : Inodes \ {0}, cells : Seq(0..MaxLines)]
    /\ qSaved \in [ino : Inodes, off : Cells]
    /\ qTick \in Ticks
    /\ qCount \in [Lines -> Nat] /\ qSkipped \subseteq Lines /\ qRaced \subseteq Lines
    /\ qWritten \in 0..MaxLines /\ qFails \in 0..MaxFaults
    /\ qLeft \in [rotations : 0..MaxRotations, faults : 0..MaxFaults]

Init ==
    /\ qLog = [ino |-> 1, cells |-> <<>>] /\ qSaved = [ino |-> 0, off |-> 0]
    /\ qTick = NoTick /\ qCount = [i \in Lines |-> 0]
    /\ qSkipped = {} /\ qRaced = {} /\ qWritten = 0 /\ qFails = 0
    /\ qLeft = [rotations |-> MaxRotations, faults |-> MaxFaults]

Go(step) == qTick' = [qTick EXCEPT !.step = step]
Fails == /\ qLeft.faults > 0 /\ qLeft' = [qLeft EXCEPT !.faults = @ - 1]
         /\ qFails' = qFails + 1

-----------------------------------------------------------------------------
(* The edge.                                                                *)

EdgeAppends ==
    /\ qWritten < MaxLines /\ qWritten' = qWritten + 1
    /\ qLog' = [qLog EXCEPT !.cells = @ \o <<qWritten + 1, NL>>]
    /\ qRaced' = IF qTick.step = "empty" THEN qRaced \cup {qWritten + 1} ELSE qRaced
    /\ UNCHANGED <<qSaved, qTick, qCount, qSkipped, qFails, qLeft>>

(* Caddy does not roll the log (SPEC.md); it is replaced when the containers  *)
(* are, with no tick in progress.                                           *)
LogReplaced ==
    /\ qLeft.rotations > 0 /\ qTick.step = "idle"
    /\ qLeft' = [qLeft EXCEPT !.rotations = @ - 1]
    /\ qSkipped' = qSkipped \cup LinesIn(qLog.cells)
    /\ qLog' = [ino |-> qLog.ino + 1, cells |-> <<>>]
    /\ UNCHANGED <<qSaved, qTick, qCount, qRaced, qWritten, qFails>>

-----------------------------------------------------------------------------
(* One tick.                                                                *)

(* Where to resume: another inode or a file shorter than the offset starts   *)
(* over, a burst is skipped.                                                *)
ResumeAtSaved == IF qSaved.off > Len(qLog.cells) THEN 0 ELSE qSaved.off
Resume ==
    IF (qSaved.ino # 0 /\ qSaved.ino # qLog.ino) \/ qSaved.off > Len(qLog.cells)
    THEN 0 ELSE qSaved.off
Stat ==
    /\ qTick.step = "idle" /\ Resume # Len(qLog.cells)
    /\ LET len == Len(qLog.cells)
           burst == len - Resume > CatchUp IN
       /\ qTick' = [NoTick EXCEPT !.step = "read", !.ino = qLog.ino, !.len = len,
                                  !.off = IF burst THEN len ELSE Resume]
       /\ qSkipped' = IF burst THEN qSkipped \cup LinesIn(SubSeq(qLog.cells, Resume + 1, len))
                      ELSE qSkipped
    /\ UNCHANGED <<qLog, qSaved, qCount, qRaced, qWritten, qFails, qLeft>>

(* The whole file is read, what was appended since the stat included. *)
Read ==
    /\ qTick.step = "read"
    /\ qTick' = [qTick EXCEPT !.step = "count",
                              !.rest = SubSeq(qLog.cells, qTick.off + 1, Len(qLog.cells))]
    /\ UNCHANGED <<qLog, qSaved, qCount, qSkipped, qRaced, qWritten, qFails, qLeft>>

(* One line: its bytes and a newline are consumed, its rows incremented.     *)
(* Empty pieces are passed over without being counted as consumed.          *)
(* parse_line: a tenant's, an environment's or the control UI's host. *)
Attributed(line) == line \in Tenants
Added(line) == [qCount EXCEPT ![line] = @ + 1]
LineOnly == 1
LineAndNewline == 2
CountLine ==
    /\ qTick.step = "count" /\ qTick.rest # <<>>
    /\ LET cell == qTick.rest[1] IN
       IF cell = NL
       THEN qTick' = [qTick EXCEPT !.rest = Tail(@)] /\ UNCHANGED qCount
       ELSE /\ qTick' = [qTick EXCEPT !.rest = SubSeq(@, 3, Len(@)), !.used = @ + LineAndNewline]
            /\ qCount' = IF Attributed(cell) THEN Added(cell) ELSE qCount
    /\ UNCHANGED <<qLog, qSaved, qSkipped, qRaced, qWritten, qFails, qLeft>>

(* An add that fails ends the tick before the offset is saved. *)
AddFails ==
    /\ qTick.step = "count" /\ qTick.rest # <<>> /\ Fails
    /\ qTick' = NoTick
    /\ UNCHANGED <<qLog, qSaved, qCount, qSkipped, qRaced, qWritten>>

SaveOffset ==
    /\ qTick.step = "count" /\ qTick.rest = <<>>
    /\ \/ /\ qSaved' = [ino |-> qTick.ino, off |-> qTick.off + qTick.used]
          /\ UNCHANGED <<qFails, qLeft>>
       \/ Fails /\ UNCHANGED qSaved
    /\ qTick' = IF qTick.len > TruncateAt THEN [qTick EXCEPT !.step = "check"] ELSE NoTick
    /\ UNCHANGED <<qLog, qCount, qSkipped, qRaced, qWritten>>

(* Truncate only when nothing was appended since the stat ... *)
AnySize == TRUE
SizeStands == Len(qLog.cells) = qTick.len
CheckSize ==
    /\ qTick.step = "check"
    /\ qTick' = IF SizeStands THEN [qTick EXCEPT !.step = "empty"] ELSE NoTick
    /\ UNCHANGED <<qLog, qSaved, qCount, qSkipped, qRaced, qWritten, qFails, qLeft>>

(* ... which another call does, a moment later. *)
Truncate ==
    /\ qTick.step = "empty" /\ Go("zero")
    /\ qLog' = [qLog EXCEPT !.cells = <<>>]
    /\ UNCHANGED <<qSaved, qCount, qSkipped, qRaced, qWritten, qFails, qLeft>>

SaveZero ==
    /\ qTick.step = "zero" /\ qTick' = NoTick
    /\ qSaved' = [ino |-> qTick.ino, off |-> 0]
    /\ UNCHANGED <<qLog, qCount, qSkipped, qRaced, qWritten, qFails, qLeft>>

(* Dying before the zero is saved leaves an offset into the emptied log: the *)
(* lines it grows up to there are passed over.                              *)
Crash ==
    /\ qTick.step # "idle" /\ Fails /\ qTick' = NoTick
    /\ qSkipped' = IF qTick.step = "zero" THEN Lines ELSE qSkipped
    /\ UNCHANGED <<qLog, qSaved, qCount, qRaced, qWritten>>

Next ==
    \/ EdgeAppends \/ LogReplaced
    \/ Stat \/ Read \/ CountLine \/ AddFails \/ SaveOffset
    \/ CheckSize \/ Truncate \/ SaveZero \/ Crash

Spec == Init /\ [][Next]_vars

-----------------------------------------------------------------------------
(* A line is counted again only by a tick that repeats one which failed      *)
(* before saving its offset, and a line the saved offset has passed was     *)
(* counted unless a burst, a new log, the moment before a truncation or a   *)
(* death right after one took it: across appends mid-tick, truncations and  *)
(* new logs the offset neither lags nor runs ahead (tick).                  *)
LinesCountedOnce ==
    /\ \A i \in Tenants : qCount[i] <= 1 + qFails
    /\ qTick.step = "idle" =>
         \A i \in Tenants : i <= qWritten /\ qCount[i] = 0 =>
            i \in qSkipped \cup qRaced \cup LinesIn(SubSeq(qLog.cells, Resume + 1, Len(qLog.cells)))

(* What makes it inductive.  The log holds the last lines written, two cells *)
(* each, so the lines past an offset follow from the offset alone; twice    *)
(* the number of the last line before it is Behind.                         *)
Behind(off) == 2 * qWritten - Len(qLog.cells) + off
Ahead(off) == {i \in Lines : i <= qWritten /\ 2 * i > Behind(off)}
Even(n) == \E k \in 0..n : n = 2 * k
LogShape ==
    \E n \in 0..qWritten :
        /\ Len(qLog.cells) = 2 * n
        /\ \A j \in 1..n : /\ qLog.cells[2 * j - 1] = qWritten - n + j
                           /\ qLog.cells[2 * j] = NL

(* The sidecar points between two lines of this log, or of an older one; an  *)
(* offset past the end is left by a death right after a truncation.         *)
SavedShape ==
    /\ Even(qSaved.off) /\ qSaved.ino <= qLog.ino /\ (qSaved.ino = 0 => qSaved.off = 0)
    /\ qSaved.ino = qLog.ino /\ qSaved.off > Len(qLog.cells) /\ qTick.step # "zero" =>
         qSkipped = Lines

(* The tick stands between two lines of what the log held when it was read,  *)
(* which is at least what it held at the stat.                              *)
Stands == qTick.off + qTick.used
TickShape ==
    /\ qTick.step # "idle" => qTick.ino = qLog.ino
    /\ qTick.step \in {"read", "count", "check"} =>
         /\ Even(qTick.off) /\ Even(qTick.used)
         /\ Stands <= Len(qLog.cells) /\ qTick.len <= Len(qLog.cells)
    /\ qTick.step = "read" => qTick.used = 0
    /\ qTick.step = "count" =>
         /\ Even(Len(qTick.rest)) /\ Stands + Len(qTick.rest) <= Len(qLog.cells)
         /\ \A i \in 1..Len(qTick.rest) : qTick.rest[i] = qLog.cells[Stands + i]
         /\ qTick.len <= Stands + Len(qTick.rest)
    /\ qTick.step = "check" => qTick.len <= Stands

(* What is ahead was not counted since the last failure ... *)
AtMost(lines, n) == \A i \in lines : qCount[i] <= n
NotYet ==
    /\ AtMost(Lines, 1 + qFails) /\ (\A i \in Lines : i > qWritten => qCount[i] = 0)
    /\ qTick.step \in {"idle", "check", "empty"} => AtMost(Ahead(Resume), qFails)
    /\ qTick.step \in {"read", "count"} => AtMost(Ahead(Stands), qFails)
    /\ qTick.step = "zero" => AtMost(Ahead(0), qFails)

(* ... and what is behind was, or was given up. *)
Missing(lines) ==
    \A i \in Tenants : i <= qWritten /\ qCount[i] = 0 => i \in qSkipped \cup qRaced \cup lines
Accounted ==
    /\ qTick.step # "zero" => Missing(Ahead(Resume))
    /\ qTick.step \in {"read", "count", "check"} => Missing(Ahead(Stands))
    /\ qTick.step = "empty" => Missing({})
    /\ qTick.step = "zero" => Missing(Ahead(0))
LinesInv ==
    /\ LogShape /\ SavedShape /\ TickShape /\ NotYet /\ Accounted
    /\ qFails + qLeft.faults <= MaxFaults /\ qLog.ino + qLeft.rotations <= MaxRotations + 1

(* "truncation still only fires when the size is unchanged since the read,   *)
(* closing the usual race" (host/accesslog.rs, header): no line is lost to  *)
(* a truncation.                                                            *)
TruncateLosesNothing ==
    qTick.step = "idle" =>
        \A i \in qRaced : qCount[i] > 0 \/ i \in LinesIn(qLog.cells) \/ i \notin Tenants
=============================================================================
