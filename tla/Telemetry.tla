----------------------------- MODULE Telemetry -----------------------------
(***************************************************************************)
(* The telemetry tick: hour-aligned ingest chunks over the Parquet files   *)
(* celld flushes into the bucket, the replace writers and the watermark,   *)
(* replay, and the compaction of completed hours (host/metrics/*.rs,       *)
(* db/metrics.rs, db/compaction.rs, host/s3.rs s3_rm_dir_except).          *)
(*                                                                         *)
(* Time is counted in minutes of HourLen to the hour.  A span is its       *)
(* minute: a fleet emits at most one per minute.  A file is the set of     *)
(* spans in it, an hour directory its compacted file (if any) and its      *)
(* sources.  Durations, span names, log lines and error groups ride in the *)
(* same chunk and are left out, as are the CPU samples.                    *)
(***************************************************************************)
EXTENDS Integers, FiniteSets

CONSTANTS
    Fleets,      \* telemetry_fleets: the fleet keys
    HourLen,     \* minutes to the hour
    Lag,         \* agg_lag_us: the window stops this far behind now
    MaxChunks,   \* MAX_CHUNKS_PER_PASS
    LateUpload,  \* celld may finish an upload after its hour has ended (external)
    MaxTime,     \* BOUND: minutes
    MaxSpans,    \* BOUND: spans emitted
    MaxFaults    \* BOUND: failing passes, writes, copies and deletes, stops, crashes and replays

VARIABLES
    mNow,      \* the clock
    mLive,     \* fleets with a process
    mBuf,      \* spans emitted and not flushed, per fleet
    mDir,      \* hour directories, per fleet and hour
    mLanded,   \* history: spans that reached a file
    mCount,    \* app_metric: requests per fleet and minute
    mStat,     \* app_span_stat: spans per fleet and hour
    mMark,     \* metric_watermark rows; -1: none
    mFrom,     \* history: where the fleet's first chunk began
    mMem,      \* the tick's copy of them (and, in a replay, ahead of the rows)
    mSealed,   \* metric_compaction: the last compacted hour; -1: none
    mTick,     \* the tick
    mReplay,   \* telemetry_replay: "none" or "asked"; and whether the tick saw it
    mLeft      \* what is left of MaxSpans and MaxFaults

vars == <<mNow, mLive, mBuf, mDir, mLanded, mCount, mStat, mMark, mFrom, mMem, mSealed, mTick, mReplay, mLeft>>

Times == 0 .. MaxTime
Hour(t) == t \div HourLen
Hours == 0 .. Hour(MaxTime)
FloorHour(t) == Hour(t) * HourLen
(* The lag exceeds the flush interval (agg_lag_us), which Tick takes to be  *)
(* a minute.                                                               *)
Bounds ==
    /\ HourLen \in Nat \ {0} /\ Lag \in Nat \ {0} /\ LateUpload \in BOOLEAN
    /\ MaxChunks \in Nat /\ MaxTime \in Nat /\ MaxSpans \in Nat /\ MaxFaults \in Nat
Smaller(a, b) == IF a < b THEN a ELSE b

NoDir == [has |-> FALSE, comp |-> {}, src |-> {}]
Idle == [at |-> "idle", left |-> 0, done |-> {}, held |-> {}, todo |-> {}, fleet |-> "none", hour |-> 0, tried |-> {}]

Faulty == mLeft.faults > 0
Fault == mLeft' = [mLeft EXCEPT !.faults = @ - 1]

-----------------------------------------------------------------------------
(* celld, as the runner relies on it.                                      *)

(* Every span is flushed before the window can name it.                    *)
Tick ==
    /\ mNow < MaxTime
    /\ \A f \in Fleets : \A t \in mBuf[f] : t >= mNow
    /\ mNow' = mNow + 1
    /\ UNCHANGED <<mLive, mBuf, mDir, mLanded, mCount, mStat, mMark, mFrom, mMem, mSealed, mTick, mReplay, mLeft>>

Emit(f) ==
    /\ f \in mLive
    /\ mLeft.spans > 0
    /\ mNow \notin mBuf[f] \cup mLanded[f]
    /\ mBuf' = [mBuf EXCEPT ![f] = @ \cup {mNow}]
    /\ mLeft' = [mLeft EXCEPT !.spans = @ - 1]
    /\ UNCHANGED <<mNow, mLive, mDir, mLanded, mCount, mStat, mMark, mFrom, mMem, mSealed, mTick, mReplay>>

(* A flush writes the buffer as one file of the running hour's directory,  *)
(* or of the hour the upload began in.                                     *)
Flush(f) ==
    /\ mBuf[f] # {}
    /\ \E h \in {Hour(mNow)} \cup (IF LateUpload THEN {Hour(t) : t \in mBuf[f]} ELSE {}) :
           mDir' = [mDir EXCEPT ![f][h].src = @ \cup {mBuf[f]}]
    /\ mLanded' = [mLanded EXCEPT ![f] = @ \cup mBuf[f]]
    /\ mBuf' = [mBuf EXCEPT ![f] = {}]
    /\ UNCHANGED <<mNow, mLive, mCount, mStat, mMark, mFrom, mMem, mSealed, mTick, mReplay, mLeft>>

(* The fleet is stopped (its node flushes on the way out) or started.      *)
Toggle(f) ==
    /\ Faulty
    /\ Fault
    /\ mBuf[f] = {}
    /\ mLive' = (mLive \ {f}) \cup ({f} \ mLive)
    /\ UNCHANGED <<mNow, mBuf, mDir, mLanded, mCount, mStat, mMark, mFrom, mMem, mSealed, mTick, mReplay>>

-----------------------------------------------------------------------------
(* ingest_step.                                                            *)

AskReplay ==
    /\ Faulty
    /\ Fault
    /\ mReplay' = [mReplay EXCEPT !.asked = TRUE]
    /\ UNCHANGED <<mNow, mLive, mBuf, mDir, mLanded, mCount, mStat, mMark, mFrom, mMem, mSealed, mTick>>

(* A pass begins.  A replay not seen yet rewinds every fleet to the        *)
(* retention floor, in memory only.                                        *)
PassBegin ==
    /\ mTick.at = "idle"
    /\ mTick' = [mTick EXCEPT !.at = "plan", !.left = MaxChunks, !.done = {}]
    /\ mMem' = IF mReplay.asked /\ ~mReplay.seen THEN [f \in Fleets |-> 0] ELSE mMem
    /\ mReplay' = [mReplay EXCEPT !.seen = mReplay.asked]
    /\ UNCHANGED <<mNow, mLive, mBuf, mDir, mLanded, mCount, mStat, mMark, mFrom, mSealed, mLeft>>

Cutoff == mNow - Lag

(* ingest_after: where the fleet's next chunk starts; -1: nothing to do.   *)
IngestAfter(f) ==
    IF mMem[f] >= 0
    THEN IF f \notin mLive /\ ~mReplay.asked /\ FloorHour(mMem[f]) >= FloorHour(Cutoff) THEN -1 ELSE mMem[f]
    ELSE IF f \in mLive \/ mReplay.asked THEN FloorHour(Cutoff) ELSE -1

(* plan_chunks, the first window: whole hours (CATCHUP_CHUNK_HOURS of      *)
(* them, here one), or the hour the cutoff is in, up to the cutoff.        *)
Chunk(f) ==
    LET start == FloorHour(IngestAfter(f))
        end == Smaller(start + HourLen, FloorHour(Cutoff)) IN
    IF start < FloorHour(Cutoff) THEN <<start, end>> ELSE <<start, Cutoff>>

HasChunk(f) ==
    /\ f \notin mTick.done
    /\ Cutoff >= 0
    /\ IngestAfter(f) >= 0
    /\ Chunk(f)[1] < Chunk(f)[2]
    /\ <<f, Chunk(f)[1]>> \notin mTick.held

(* telemetry_globs: the hour directories the window touches, its end's     *)
(* included.                                                               *)
Globs(f) == {h \in Hours : Hour(Chunk(f)[1]) <= h /\ h <= Hour(Chunk(f)[2])}

(* canonical_file_list_sql: an hour with a compacted file is that file.    *)
CanonicalFiles(f, h) == IF mDir[f][h].has THEN {mDir[f][h].comp} ELSE mDir[f][h].src

(* ingest_all: the rows of the window that the scan of those files yields, *)
(* one per file that has the span; the query counts them per minute and    *)
(* per hour.                                                               *)
InWindow(chunk, t) == chunk[1] <= t /\ t < chunk[2]
Rows(f) == {e \in UNION {{h} \X CanonicalFiles(f, h) \X Times : h \in Globs(f)} :
               e[3] \in e[2] /\ InWindow(Chunk(f), e[3])}
InMinute(w, t) == Cardinality({e \in w.rows : e[3] = t})
InHour(w, h) == Cardinality({e \in w.rows : Hour(e[3]) = h})
Minutes(w) == {e[3] : e \in w.rows}

(* One chunk for every fleet that has one: the shared pass, or (when it    *)
(* fails) one pass per fleet, of which any may fail and is backed off.     *)
Plan ==
    /\ mTick.at = "plan"
    /\ LET bounds == {f \in Fleets : HasChunk(f)} IN
       IF mTick.left = 0 \/ bounds = {}
       THEN /\ mTick' = [mTick EXCEPT !.at = "replay"]
            /\ UNCHANGED mLeft
       ELSE \E broken \in SUBSET bounds :
                /\ broken # {} => Faulty
                /\ IF broken = {} THEN UNCHANGED mLeft ELSE Fault
                /\ mTick' = [mTick EXCEPT
                       !.at = "commit", !.left = @ - 1,
                       !.done = @ \cup {f \in bounds : Chunk(f)[2] >= Cutoff},
                       !.held = @ \cup {<<f, Chunk(f)[1]>> : f \in broken},
                       !.todo = {[fleet |-> f, chunk |-> Chunk(f), rows |-> Rows(f)] : f \in bounds \ broken}]
    /\ UNCHANGED <<mNow, mLive, mBuf, mDir, mLanded, mCount, mStat, mMark, mFrom, mMem, mSealed, mReplay>>

(* replace_app_metric_usage and replace_span_stat: a bucket without rows   *)
(* is left alone.                                                          *)
Replaced(w, minutes) ==
    [mCount EXCEPT ![w.fleet] = [t \in Times |-> IF t \in minutes THEN InMinute(w, t) ELSE @[t]]]
ReplacedStat(w) ==
    [mStat EXCEPT ![w.fleet] = [h \in Hours |-> IF InHour(w, h) # 0 THEN InHour(w, h) ELSE @[h]]]

(* set_metric_watermarks.                                                  *)
Stamped(w) == [mMark EXCEPT ![w.fleet] = w.chunk[2]]

(* commit_chunk: the writers replace each minute that has rows, then the   *)
(* watermark moves, in the row and in memory.                              *)
Commit(w) ==
    /\ mTick.at = "commit"
    /\ w \in mTick.todo
    /\ mCount' = Replaced(w, Minutes(w))
    /\ mStat' = ReplacedStat(w)
    /\ mMark' = Stamped(w)
    /\ mMem' = [mMem EXCEPT ![w.fleet] = w.chunk[2]]
    /\ mFrom' = [mFrom EXCEPT ![w.fleet] = Smaller(@, w.chunk[1])]
    /\ mTick' = [mTick EXCEPT !.todo = @ \ {w}]
    /\ UNCHANGED <<mNow, mLive, mBuf, mDir, mLanded, mSealed, mReplay, mLeft>>

(* A write fails part of the way: the watermark is held.                   *)
CommitFails(w) ==
    /\ mTick.at = "commit"
    /\ w \in mTick.todo
    /\ Faulty
    /\ Fault
    /\ \/ \E minutes \in SUBSET Minutes(w) : mCount' = Replaced(w, minutes) /\ mStat' = mStat
       \/ mCount' = Replaced(w, Minutes(w)) /\ mStat' = ReplacedStat(w)
    /\ mTick' = [mTick EXCEPT !.todo = @ \ {w}, !.held = @ \cup {<<w.fleet, w.chunk[1]>>}]
    /\ UNCHANGED <<mNow, mLive, mBuf, mDir, mLanded, mMark, mFrom, mMem, mSealed, mReplay>>

CommitEnd ==
    /\ mTick.at = "commit"
    /\ mTick.todo = {}
    /\ mTick' = [mTick EXCEPT !.at = "plan"]
    /\ UNCHANGED <<mNow, mLive, mBuf, mDir, mLanded, mCount, mStat, mMark, mFrom, mMem, mSealed, mReplay, mLeft>>

(* The replay row goes once every fleet reached the cutoff's hour.         *)
ReplayEnd ==
    /\ mTick.at = "replay"
    /\ mReplay' = IF mReplay.seen /\ \A f \in Fleets : mMem[f] < 0 \/ mMem[f] >= FloorHour(Cutoff)
                  THEN [asked |-> FALSE, seen |-> FALSE] ELSE mReplay
    /\ mTick' = [mTick EXCEPT !.at = "compact"]
    /\ UNCHANGED <<mNow, mLive, mBuf, mDir, mLanded, mCount, mStat, mMark, mFrom, mMem, mSealed, mLeft>>

(* INGEST_RETRY_BACKOFF passes, and every 100 ticks the compaction         *)
(* attempts are forgotten (prune_step).                                    *)
BackoffExpires ==
    /\ mTick.at = "idle"
    /\ mTick.held # {} \/ mTick.tried # {}
    /\ mTick' = [mTick EXCEPT !.held = {}, !.tried = {}]
    /\ UNCHANGED <<mNow, mLive, mBuf, mDir, mLanded, mCount, mStat, mMark, mFrom, mMem, mSealed, mReplay, mLeft>>

-----------------------------------------------------------------------------
(* compact_step: completed hours past the durable mark, oldest first.      *)

Uncompacted(f) == {h \in Hours : mSealed[f] < h /\ h < Hour(mNow) /\ <<f, h>> \notin mTick.tried}

(* compaction_inputs: sources beside a compacted file, or two sources.     *)
Folds(d) == IF d.has THEN d.src # {} ELSE Cardinality(d.src) >= 2

Seal(f, h) == mSealed' = [mSealed EXCEPT ![f] = IF @ < h THEN h ELSE @]

(* One hour: nothing to fold seals it; else the union is copied over the   *)
(* compacted file (through a staging key when it is itself an input) and   *)
(* proved by a HEAD.                                                       *)
CompactCopy(f, h) ==
    /\ mTick.at = "compact"
    /\ h \in Uncompacted(f)
    /\ \A g \in Uncompacted(f) : h <= g
    /\ IF Folds(mDir[f][h])
       THEN \/ /\ mDir' = [mDir EXCEPT ![f][h] = [has |-> TRUE, comp |-> UNION (@.src \cup {@.comp}), src |-> @.src]]
               /\ mTick' = [mTick EXCEPT !.at = "fold", !.fleet = f, !.hour = h]
               /\ UNCHANGED <<mSealed, mLeft>>
            \/ /\ Faulty
               /\ Fault
               /\ mTick' = [mTick EXCEPT !.tried = @ \cup {<<f, h>>}]
               /\ UNCHANGED <<mDir, mSealed>>
       ELSE /\ Seal(f, h)
            /\ UNCHANGED <<mDir, mTick, mLeft>>
    /\ UNCHANGED <<mNow, mLive, mBuf, mLanded, mCount, mStat, mMark, mFrom, mMem, mReplay>>

(* s3_rm_dir_except lists the directory again and deletes everything but   *)
(* the compacted file; a failure may leave some and retries the hour.      *)
CompactDelete ==
    /\ mTick.at = "fold"
    /\ LET f == mTick.fleet
           h == mTick.hour IN
       \/ /\ mDir' = [mDir EXCEPT ![f][h].src = {}]
          /\ Seal(f, h)
          /\ mTick' = [mTick EXCEPT !.at = "compact"]
          /\ UNCHANGED mLeft
       \/ /\ Faulty
          /\ Fault
          /\ \E kept \in SUBSET mDir[f][h].src : mDir' = [mDir EXCEPT ![f][h].src = kept]
          /\ mTick' = [mTick EXCEPT !.at = "compact", !.tried = @ \cup {<<f, h>>}]
          /\ UNCHANGED mSealed
    /\ UNCHANGED <<mNow, mLive, mBuf, mLanded, mCount, mStat, mMark, mFrom, mMem, mReplay>>

TickEnd ==
    /\ mTick.at = "compact"
    /\ \A f \in Fleets : Uncompacted(f) = {}
    /\ mTick' = [Idle EXCEPT !.held = mTick.held, !.tried = mTick.tried]
    /\ UNCHANGED <<mNow, mLive, mBuf, mDir, mLanded, mCount, mStat, mMark, mFrom, mMem, mSealed, mReplay, mLeft>>

(* The runner dies and starts again: the rows are read back.               *)
Crash ==
    /\ Faulty
    /\ Fault
    /\ mTick' = Idle
    /\ mMem' = mMark
    /\ mReplay' = [mReplay EXCEPT !.seen = FALSE]
    /\ UNCHANGED <<mNow, mLive, mBuf, mDir, mLanded, mCount, mStat, mMark, mFrom, mSealed>>

-----------------------------------------------------------------------------
Init ==
    /\ mNow = 0
    /\ mLive = Fleets
    /\ mBuf = [f \in Fleets |-> {}]
    /\ mDir = [f \in Fleets |-> [h \in Hours |-> NoDir]]
    /\ mLanded = [f \in Fleets |-> {}]
    /\ mCount = [f \in Fleets |-> [t \in Times |-> 0]]
    /\ mStat = [f \in Fleets |-> [h \in Hours |-> 0]]
    /\ mMark = [f \in Fleets |-> -1]
    /\ mFrom = [f \in Fleets |-> MaxTime + 1]
    /\ mMem = [f \in Fleets |-> -1]
    /\ mSealed = [f \in Fleets |-> -1]
    /\ mTick = Idle
    /\ mReplay = [asked |-> FALSE, seen |-> FALSE]
    /\ mLeft = [spans |-> MaxSpans, faults |-> MaxFaults]

Step ==
    \/ PassBegin \/ Plan \/ CommitEnd \/ ReplayEnd \/ TickEnd \/ CompactDelete
    \/ \E w \in mTick.todo : Commit(w) \/ CommitFails(w)
    \/ \E f \in Fleets, h \in Hours : CompactCopy(f, h)

Next ==
    \/ Tick
    \/ \E f \in Fleets : Emit(f) \/ Flush(f) \/ Toggle(f)
    \/ AskReplay \/ BackoffExpires \/ Crash
    \/ Step

Spec == Init /\ [][Next]_vars

-----------------------------------------------------------------------------
(* Files, rows and watermarks are well formed.                             *)
Dirs == [has : BOOLEAN, comp : SUBSET Times, src : SUBSET SUBSET Times]
Works == [fleet : Fleets, chunk : Times \X Times, rows : SUBSET (Hours \X (SUBSET Times) \X Times)]
Ticks == [at : {"idle", "plan", "commit", "replay", "compact", "fold"},
          left : 0 .. MaxChunks, done : SUBSET Fleets, held : SUBSET (Fleets \X Times),
          todo : SUBSET Works, fleet : Fleets \cup {"none"}, hour : Hours,
          tried : SUBSET (Fleets \X Hours)]
TypeOK ==
    /\ mNow \in Times
    /\ mLive \subseteq Fleets
    /\ mBuf \in [Fleets -> SUBSET Times] /\ mLanded \in [Fleets -> SUBSET Times]
    /\ mDir \in [Fleets -> [Hours -> Dirs]]
    /\ mCount \in [Fleets -> [Times -> Nat]] /\ mStat \in [Fleets -> [Hours -> Nat]]
    /\ mMark \in [Fleets -> -1 .. MaxTime] /\ mMem \in [Fleets -> -1 .. MaxTime]
    /\ mFrom \in [Fleets -> 0 .. MaxTime + 1]
    /\ mSealed \in [Fleets -> Hours \cup {-1}]
    /\ mTick \in Ticks
    /\ mReplay \in [asked : BOOLEAN, seen : BOOLEAN]
    /\ mLeft \in [spans : 0 .. MaxSpans, faults : 0 .. MaxFaults]

(* From the fleet's first chunk to its committed watermark every minute    *)
(* and every whole hour counts each span that reached the bucket once:     *)
(* none is counted twice by a retry, a replay, a crash or                  *)
(* an interrupted compaction, and none is skipped by the lag, a stopped    *)
(* fleet or a fault of another fleet (ingest.rs commit_chunk, plan.rs      *)
(* plan_chunks, compact.rs compact_fleet).                                 *)
CountedOnce ==
    \A f \in Fleets :
        /\ \A t \in mFrom[f] .. mMark[f] - 1 : mCount[f][t] = IF t \in mLanded[f] THEN 1 ELSE 0
        /\ \A h \in Hours :
               mFrom[f] <= h * HourLen /\ (h + 1) * HourLen <= mMark[f]
               => mStat[f][h] = Cardinality({t \in mLanded[f] : Hour(t) = h})

(* What makes it inductive while uploads end in their hour.  A span is in    *)
(* a buffer for at most a minute and never again once it has landed, ...   *)
Fresh ==
    \A f \in Fleets :
        /\ \A t \in mBuf[f] : t <= mNow /\ mNow <= t + 1 /\ t \notin mLanded[f]
        /\ \A t \in mLanded[f] : t <= mNow

(* ... it landed in exactly one of the files the ingest reads, in the        *)
(* directory of its own hour or of the next minute's, ...                  *)
Files(f) == {e \in Hours \X (SUBSET Times) : e[2] \in CanonicalFiles(f, e[1])}
InOneFile ==
    \A f \in Fleets, t \in Times :
        /\ t \in mLanded[f] <=> \E e \in Files(f) : t \in e[2]
        /\ \A d, e \in Files(f) : t \in d[2] /\ t \in e[2] => d = e
        /\ \A e \in Files(f) : t \in e[2] => Hour(t) <= e[1] /\ e[1] <= Hour(t + 1)

(* ... and only hours that are over are compacted, into a file with all      *)
(* that was in their sources.                                              *)
Compacted ==
    /\ \A f \in Fleets, h \in Hours :
          IF mDir[f][h].has THEN h < Hour(mNow) /\ \A s \in mDir[f][h].src : s \subseteq mDir[f][h].comp
          ELSE mDir[f][h].comp = {}
    /\ mTick.at = "fold" => mTick.fleet \in Fleets /\ mDir[mTick.fleet][mTick.hour].has

(* The watermark is behind the lag; in memory it is no further. *)
Marks ==
    \A f \in Fleets :
        /\ mMark[f] = -1 => mFrom[f] = MaxTime + 1
        /\ mMark[f] # -1 => mMark[f] + Lag <= mNow /\ mMem[f] # -1 /\ mMem[f] <= mMark[f]

(* A scan waiting to be written has one row for each span of its window, and *)
(* its window is a whole hour, or ends past the watermark.                 *)
Pending(w) ==
    /\ w.chunk[1] < w.chunk[2] /\ w.chunk[2] + Lag <= mNow
    /\ w.chunk[1] = FloorHour(w.chunk[1])
    /\ w.chunk[2] <= w.chunk[1] + HourLen
    /\ w.chunk[2] = w.chunk[1] + HourLen \/ mMark[w.fleet] <= w.chunk[2]
    /\ mMark[w.fleet] = -1 \/ w.chunk[1] <= mMark[w.fleet]
    /\ \A e \in w.rows : e[3] \in mLanded[w.fleet] /\ InWindow(w.chunk, e[3])
    /\ \A t \in mLanded[w.fleet] : InWindow(w.chunk, t) => \E e \in w.rows : e[3] = t
    /\ \A d, e \in w.rows : d[3] = e[3] => d = e
Scans ==
    \A w \in mTick.todo : Pending(w) /\ \A v \in mTick.todo : v.fleet = w.fleet => v = w

(* Nothing is counted that did not land. *)
NoPhantoms ==
    \A f \in Fleets :
        /\ \A t \in Times : mCount[f][t] # 0 => mCount[f][t] = 1 /\ t \in mLanded[f]
        /\ \A h \in Hours : mStat[f][h] # 0 => \E t \in mLanded[f] : Hour(t) = h
CountInv == Fresh /\ InOneFile /\ Compacted /\ Marks /\ Scans /\ NoPhantoms /\ CountedOnce

(* The comment of compaction_inputs: a flush that lands between the copy   *)
(* and the delete is folded, never destroyed unread.                       *)
NeverDestroyed ==
    \A f \in Fleets : mLanded[f] \subseteq UNION {UNION (mDir[f][h].src \cup {mDir[f][h].comp}) : h \in Hours}
=============================================================================
