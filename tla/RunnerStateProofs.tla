------------------------- MODULE RunnerStateProofs -------------------------
(* Proofs about RunnerState, for every set of runners and every bound.     *)
EXTENDS RunnerState, TLAPS

(***************************************************************************)
(* Why a runner never uploads less than it uploaded before:                *)
(*   LockInv    who is past the snapshot lock holds it, in a live process; *)
(*   VolumeInv  the volume of a running process is there and holds all     *)
(*              that the runner last uploaded, and so does the volume a    *)
(*              boot restored;                                             *)
(*   ShotInv    a copy about to be uploaded lies between the two.          *)
(***************************************************************************)
LockInv ==
    \A r \in Runners, c \in Callers :
        /\ at[<<r, c>>] # "idle" => Running(r)
        /\ at[<<r, c>>] \in {"check", "vacuum", "upload", "meta"} => held[r] = c

VolumeInv ==
    /\ ~state.there => by = Nobody
    /\ \A r \in Runners :
        /\ Running(r) => vol[r].there
        /\ by = r /\ vol[r].there => state.has \subseteq vol[r].has
        /\ phase[r] \in {"meta", "owner", "connect"} /\ ~vol[r].there => by # r

ShotInv ==
    \A r \in Runners, c \in Callers :
        /\ at[<<r, c>>] \in {"upload", "meta"} => shot[<<r, c>>] \subseteq vol[r].has
        /\ at[<<r, c>>] = "upload" /\ by = r => state.has \subseteq shot[<<r, c>>]

KeepInv == TypeOK /\ LockInv /\ VolumeInv /\ ShotInv

-----------------------------------------------------------------------------
(* Type correctness.                                                       *)

LEMMA FileTypes == Missing \in Files /\ \A s \in SUBSET Writes : File(s) \in Files
  BY DEF Missing, File, Files

LEMMA InitTyped == Init => TypeOK
<1> SUFFICES ASSUME Init PROVE TypeOK
  OBVIOUS
<1> USE DEF Init
<1>1. vol \in [Runners -> Files] /\ state \in Files /\ meta \in Metas
  BY FileTypes DEF Metas
<1>2. hash \in [Runners -> Files] /\ seen \in [Runners -> Files]
  BY FileTypes
<1>3. phase \in [Runners -> Phases] /\ at \in [Snaps -> Labels]
  BY DEF Phases, Labels
<1>4. shot \in [Snaps -> SUBSET Writes] /\ held \in [Runners -> Callers \cup {"none"}]
  OBVIOUS
<1>5. /\ inst \in [Runners -> Nat] /\ gen \in [Runners -> Nat]
      /\ own \in [Runners -> BOOLEAN] /\ dirty \in [Runners -> BOOLEAN]
  OBVIOUS
<1>6. owner \in (Runners \cup {Nobody}) \X Nat /\ by \in Runners \cup {Nobody}
  OBVIOUS
<1>7. written \in 0 .. MaxWrites /\ boots \in Nat /\ faults \in Nat /\ cancels \in Nat
  BY StateBounds
<1> QED BY <1>1, <1>2, <1>3, <1>4, <1>5, <1>6, <1>7 DEF TypeOK

\* A PUT that lands as its caller goes away.
LEMMA AbandonedTyped ==
  ASSUME TypeOK, NEW r \in Runners, NEW c \in Callers
  PROVE  /\ Fresh(r, c) \in Metas
         /\ Abandoned(r, c) =>
              state' \in Files /\ by' \in Runners \cup {Nobody} /\ meta' \in Metas
<1>1. <<r, c>> \in Snaps /\ shot[<<r, c>>] \in SUBSET Writes
  BY DEF TypeOK, Snaps
<1>2. Fresh(r, c) \in Metas
  BY <1>1 DEF TypeOK, Fresh, Metas
<1> QED BY <1>1, <1>2, FileTypes DEF TypeOK, Abandoned

\* The boot, and the ways a process ends.
LEMMA ProcessTyped ==
  ASSUME TypeOK, NEW r \in Runners,
         \/ Boot(r) \/ BootStep(r) \/ Shutdown(r) \/ Exit(r) \/ Crash(r) \/ LoseVolume(r)
  PROVE  TypeOK'
<1> USE FileTypes DEF TypeOK, store, memory, spent, Goto, Phases, Labels, Fault
<1>1. CASE Boot(r)
  BY <1>1 DEF Boot
<1>2. CASE Restore(r)
  BY <1>2 DEF Restore
<1>3. CASE ClaimMeta(r)
  <2>1. meta.gen \in Nat /\ [there |-> meta.there, has |-> meta.has] \in Files
    BY DEF Metas, Files
  <2>2. gen' \in [Runners -> Nat] /\ hash' \in [Runners -> Files]
    BY <1>3, <2>1 DEF ClaimMeta
  <2>3. phase' \in [Runners -> Phases] /\ faults' \in Nat
    BY <1>3 DEF ClaimMeta
  <2> QED BY <1>3, <2>2, <2>3 DEF ClaimMeta
<1>4. CASE ClaimOwner(r)
  BY <1>4 DEF ClaimOwner, Me
<1>5. CASE Connect(r)
  BY <1>5 DEF Connect
<1>6. CASE Shutdown(r)
  BY <1>6 DEF Shutdown, Move
<1>7. CASE Exit(r)
  BY <1>7 DEF Exit, Halt
<1>8. CASE Crash(r)
  <2>1. state' \in Files /\ by' \in Runners \cup {Nobody} /\ meta' \in Metas
    BY <1>8, AbandonedTyped DEF Crash
  <2>2. owner' \in (Runners \cup {Nobody}) \X Nat
    BY <1>8 DEF Crash, Me
  <2>3. /\ phase' \in [Runners -> Phases] /\ own' \in [Runners -> BOOLEAN]
        /\ dirty' \in [Runners -> BOOLEAN] /\ gen' \in [Runners -> Nat]
        /\ hash' \in [Runners -> Files] /\ seen' \in [Runners -> Files]
        /\ held' \in [Runners -> Callers \cup {"none"}]
    BY <1>8 DEF Crash, Halt
  <2>4. at' \in [Snaps -> Labels] /\ shot' \in [Snaps -> SUBSET Writes]
    BY <1>8 DEF Crash, Halt
  <2> QED BY <1>8, <2>1, <2>2, <2>3, <2>4 DEF Crash
<1>9. CASE LoseVolume(r)
  BY <1>9 DEF LoseVolume
<1> QED BY <1>1, <1>2, <1>3, <1>4, <1>5, <1>6, <1>7, <1>8, <1>9 DEF BootStep

\* Writes, and the sync task that notices them.
LEMMA NoticeTyped ==
  ASSUME TypeOK, NEW r \in Runners, NEW b \in BOOLEAN, DbWrite(r, b) \/ Poll(r, b)
  PROVE  TypeOK'
<1> USE DEF TypeOK, store, spent
<1>1. CASE DbWrite(r, b)
  <2>1. written + 1 \in Writes /\ written' \in 0 .. MaxWrites
    BY <1>1, StateBounds DEF DbWrite, Writes
  <2>2. vol[r].has \cup {written + 1} \in SUBSET Writes
    BY <2>1 DEF Files
  <2>3. vol' \in [Runners -> Files]
    BY <1>1, <2>2 DEF DbWrite, Files
  <2> QED BY <1>1, <2>1, <2>3 DEF DbWrite
<1>2. CASE Poll(r, b)
  BY <1>2 DEF Poll, Labels
<1> QED BY <1>1, <1>2

\* A caller's step among the labels, and its return.
LEMMA MoveTyped ==
  ASSUME TypeOK, NEW r \in Runners, NEW c \in Callers
  PROVE  /\ \A l \in Labels : Move(r, c, l) => at' \in [Snaps -> Labels]
         /\ SnapEnd(r, c) => /\ at' \in [Snaps -> Labels]
                            /\ held' \in [Runners -> Callers \cup {"none"}]
                            /\ shot' \in [Snaps -> SUBSET Writes]
         /\ SnapFail(r, c) => dirty' \in [Runners -> BOOLEAN]
<1>1. \A l \in Labels : Move(r, c, l) => at' \in [Snaps -> Labels]
  BY DEF TypeOK, Move
<1>2. ASSUME SnapEnd(r, c) PROVE at' \in [Snaps -> Labels]
  BY <1>1, <1>2 DEF SnapEnd, Labels
<1>3. ASSUME SnapEnd(r, c) PROVE held' \in [Runners -> Callers \cup {"none"}]
  BY <1>3 DEF TypeOK, SnapEnd
<1>4. ASSUME SnapEnd(r, c) PROVE shot' \in [Snaps -> SUBSET Writes]
  BY <1>4 DEF TypeOK, SnapEnd
<1>5. SnapFail(r, c) => dirty' \in [Runners -> BOOLEAN]
  BY DEF TypeOK, SnapFail
<1> QED BY <1>1, <1>2, <1>3, <1>4, <1>5

\* Every caller of snapshot_now.
LEMMA SnapTyped ==
  ASSUME TypeOK, NEW r \in Runners, NEW c \in Callers,
         \/ SnapLock(r, c) \/ SnapStep(r, c) \/ AdminSnapshot(r) \/ AdminCancel(r)
  PROVE  TypeOK'
<1>0. /\ {"idle", "queued", "check", "vacuum", "upload", "meta"} \subseteq Labels
      /\ "admin" \in Callers
      /\ vol[r].has \in SUBSET Writes /\ shot[<<r, c>>] \in SUBSET Writes
  BY DEF Labels, Callers, Snaps, Files, TypeOK
<1> USE <1>0, MoveTyped DEF store, SnapFrame, Fault
<1>1. CASE SnapLock(r, c)
  BY <1>1 DEF SnapLock, TypeOK
<1>2. CASE SnapCheck(r, c)
  <2>1. at' \in [Snaps -> Labels] /\ held' \in [Runners -> Callers \cup {"none"}]
    BY <1>2 DEF SnapCheck, TypeOK
  <2>2. shot' \in [Snaps -> SUBSET Writes] /\ faults' \in Nat
    BY <1>2 DEF SnapCheck, TypeOK
  <2>3. dirty' \in [Runners -> BOOLEAN]
    BY <1>2 DEF SnapCheck, TypeOK
  <2>4. own' \in [Runners -> BOOLEAN]
    BY <1>2 DEF SnapCheck, TypeOK
  <2> QED BY <1>2, <2>1, <2>2, <2>3, <2>4 DEF SnapCheck, TypeOK
<1>3. CASE SnapVacuum(r, c)
  <2>1. /\ at' \in [Snaps -> Labels] /\ dirty' \in [Runners -> BOOLEAN]
        /\ held' \in [Runners -> Callers \cup {"none"}]
    BY <1>3 DEF SnapVacuum, SnapFail, TypeOK
  <2>2. shot' \in [Snaps -> SUBSET Writes]
    BY <1>3 DEF SnapVacuum, SnapFail, TypeOK
  <2>3. faults' \in Nat
    BY <1>3 DEF SnapVacuum, TypeOK
  <2> QED BY <1>3, <2>1, <2>2, <2>3 DEF SnapVacuum, TypeOK
<1>5. CASE SnapUpload(r, c)
  <2>1. /\ at' \in [Snaps -> Labels] /\ dirty' \in [Runners -> BOOLEAN]
        /\ held' \in [Runners -> Callers \cup {"none"}]
        /\ shot' \in [Snaps -> SUBSET Writes] /\ faults' \in Nat
    BY <1>5 DEF SnapUpload, SnapFail, TypeOK
  <2>2. state' \in Files /\ by' \in Runners \cup {Nobody}
    BY <1>5, FileTypes DEF SnapUpload, TypeOK
  <2> QED BY <1>5, <2>1, <2>2 DEF SnapUpload, TypeOK
<1>6. CASE SnapMeta(r, c)
  <2>1. meta' \in Metas
    BY <1>6, AbandonedTyped DEF SnapMeta, TypeOK
  <2>2. gen' \in [Runners -> Nat]
    BY <1>6 DEF SnapMeta, TypeOK
  <2>3. hash' \in [Runners -> Files]
    BY <1>6, FileTypes DEF SnapMeta, TypeOK
  <2>4. /\ at' \in [Snaps -> Labels] /\ dirty' \in [Runners -> BOOLEAN]
        /\ held' \in [Runners -> Callers \cup {"none"}]
        /\ shot' \in [Snaps -> SUBSET Writes] /\ faults' \in Nat
    BY <1>6 DEF SnapMeta, SnapFail, TypeOK
  <2> QED BY <1>6, <2>1, <2>2, <2>3, <2>4 DEF SnapMeta, TypeOK
<1>7. CASE AdminSnapshot(r)
  BY <1>7 DEF AdminSnapshot, TypeOK
<1>8. CASE AdminCancel(r)
  <2>1. at' \in [Snaps -> Labels] /\ cancels' \in Nat
    BY <1>8 DEF AdminCancel, TypeOK
  <2>2. held' \in [Runners -> Callers \cup {"none"}] /\ shot' \in [Snaps -> SUBSET Writes]
    BY <1>8 DEF AdminCancel, TypeOK
  <2>3. state' \in Files /\ by' \in Runners \cup {Nobody} /\ meta' \in Metas
    BY <1>8, AbandonedTyped DEF AdminCancel
  <2> QED BY <1>8, <2>1, <2>2, <2>3 DEF AdminCancel, TypeOK
<1> QED BY <1>1, <1>2, <1>3, <1>5, <1>6, <1>7, <1>8 DEF SnapStep

\* Every reachable state of the runners and their bucket is well typed,
\* however many runners share it.
THEOREM StateTyped == Spec => []TypeOK
<1>1. TypeOK /\ [Next]_vars => TypeOK'
  <2> SUFFICES ASSUME TypeOK, [Next]_vars PROVE TypeOK'
    OBVIOUS
  <2>1. CASE UNCHANGED vars
    BY <2>1 DEF vars, store, memory, spent, TypeOK
  <2>2. CASE Next
    <3>1. PICK r \in Runners : RunnerStep(r)
      BY <2>2 DEF Next
    <3>2. "tick" \in Callers
      BY DEF Callers
    <3> QED BY <3>1, <3>2, ProcessTyped, NoticeTyped, SnapTyped DEF RunnerStep
  <2> QED BY <2>1, <2>2
<1> QED BY <1>1, InitTyped, PTL DEF Spec

-----------------------------------------------------------------------------
(* Snapshots only grow.                                                    *)

\* The process of one runner moves; its snapshots stay where they are.
LEMMA BootKeeps ==
  ASSUME KeepInv, NEW r \in Runners, Boot(r) \/ BootStep(r) \/ LoseVolume(r)
  PROVE  (LockInv /\ VolumeInv /\ ShotInv)'
<1> USE DEF KeepInv, Running, Goto
<1>1. /\ UNCHANGED <<state, by, at, shot, held>> /\ ~Running(r)
      /\ \A q \in Runners \ {r} : phase'[q] = phase[q] /\ vol'[q] = vol[q]
  BY DEF TypeOK, store, memory, BootStep, Boot, Restore, ClaimMeta, ClaimOwner, Connect, LoseVolume
<1>2. \A c \in Callers : at[<<r, c>>] = "idle"
  BY <1>1 DEF LockInv
<1>3. LockInv'
  BY <1>1, <1>2 DEF LockInv
<1>4. ShotInv'
  BY <1>1, <1>2 DEF ShotInv
<1>5. VolumeInv'
  <2>1. CASE Boot(r)
    BY <1>1, <2>1 DEF Boot, TypeOK, VolumeInv
  <2>2. CASE Restore(r)
    BY <1>1, <2>2, RunnersAssumption DEF Restore, TypeOK, VolumeInv
  <2>3. CASE ClaimMeta(r)
    BY <1>1, <2>3 DEF ClaimMeta, TypeOK, VolumeInv
  <2>4. CASE ClaimOwner(r)
    BY <1>1, <2>4 DEF ClaimOwner, TypeOK, VolumeInv
  <2>5. CASE Connect(r)
    BY <1>1, <2>5 DEF Connect, File, TypeOK, VolumeInv
  <2>6. CASE LoseVolume(r)
    BY <1>1, <2>6 DEF LoseVolume, Missing, TypeOK, VolumeInv
  <2> QED BY <2>1, <2>2, <2>3, <2>4, <2>5, <2>6 DEF BootStep
<1> QED BY <1>3, <1>4, <1>5

\* The snapshot in the bucket stays, or r replaces it by one that holds more.
Grows(r) ==
    \/ UNCHANGED <<state, by>>
    \/ /\ by' = r /\ state'.there /\ Running(r) /\ vol[r].there
       /\ state'.has \subseteq vol[r].has
       /\ by = r => state.has \subseteq state'.has

LEMMA AbandonedGrows ==
  ASSUME KeepInv, NEW r \in Runners, NEW c \in Callers, Abandoned(r, c)
  PROVE  Grows(r)
<1>1. CASE at[<<r, c>>] = "upload" /\ state' = File(shot[<<r, c>>]) /\ by' = r
  <2>1. Running(r) /\ vol[r].there
    BY <1>1 DEF KeepInv, LockInv, VolumeInv
  <2>2. shot[<<r, c>>] \subseteq vol[r].has /\ (by = r => state.has \subseteq shot[<<r, c>>])
    BY <1>1 DEF KeepInv, ShotInv
  <2>3. state'.there /\ state'.has = shot[<<r, c>>]
    BY <1>1 DEF File
  <2> QED BY <1>1, <2>1, <2>2, <2>3 DEF Grows
<1>2. CASE UNCHANGED <<state, by>>
  BY <1>2 DEF Grows
<1> QED BY <1>1, <1>2 DEF Abandoned

\* What growing means for the volumes, when nothing else of them changes but
\* that r may go down.
LEMMA GrowsKeeps ==
  ASSUME KeepInv, NEW r \in Runners, Grows(r), UNCHANGED vol,
         UNCHANGED phase \/ phase' = [phase EXCEPT ![r] = "down"]
  PROVE  VolumeInv' /\ (by = by' => state.has \subseteq state'.has)
<1> USE DEF KeepInv, Running
<1>1. CASE UNCHANGED <<state, by>>
  BY <1>1 DEF VolumeInv, TypeOK
<1>2. CASE ~UNCHANGED <<state, by>>
  <2>1. /\ by' = r /\ state'.there /\ phase[r] \in {"up", "stopping"} /\ vol[r].there
        /\ state'.has \subseteq vol[r].has
        /\ by = r => state.has \subseteq state'.has
    BY <1>2 DEF Grows
  <2>2. phase'[r] \in {"up", "stopping", "down"}
        /\ \A q \in Runners \ {r} : phase'[q] = phase[q]
    BY <2>1 DEF TypeOK
  <2> QED BY <2>1, <2>2 DEF VolumeInv
<1> QED BY <1>1, <1>2

\* A process ends, or starts to.
LEMMA EndKeeps ==
  ASSUME KeepInv, NEW r \in Runners, Exit(r) \/ Crash(r) \/ Shutdown(r)
  PROVE  (LockInv /\ VolumeInv /\ ShotInv)' /\ (by = by' => state.has \subseteq state'.has)
<1> USE DEF KeepInv, Running, Goto, store
<1>1. CASE Exit(r) \/ Crash(r)
  <2>1. /\ UNCHANGED vol
        /\ phase' = [phase EXCEPT ![r] = "down"] /\ held' = [held EXCEPT ![r] = "none"]
        /\ \A c \in Callers : at'[<<r, c>>] = "idle"
        /\ \A q \in Runners \ {r}, c \in Callers :
             at'[<<q, c>>] = at[<<q, c>>] /\ shot'[<<q, c>>] = shot[<<q, c>>]
    BY <1>1 DEF Exit, Crash, Halt, Snaps
  <2>2. LockInv'
    <3> SUFFICES ASSUME NEW q \in Runners, NEW d \in Callers, q # r
                 PROVE  /\ at'[<<q, d>>] # "idle" => Running(q)'
                        /\ at'[<<q, d>>] \in {"check", "vacuum", "upload", "meta"}
                             => held'[q] = d
      BY <2>1 DEF LockInv
    <3>1. phase'[q] = phase[q] /\ held'[q] = held[q] /\ at'[<<q, d>>] = at[<<q, d>>]
      BY <2>1 DEF TypeOK
    <3> QED BY <3>1 DEF LockInv
  <2>3. Grows(r)
    BY <1>1, AbandonedGrows DEF Exit, Crash, Grows
  <2>4. VolumeInv' /\ (by = by' => state.has \subseteq state'.has)
    BY <2>1, <2>3, GrowsKeeps
  <2>5. ShotInv'
    <3> SUFFICES ASSUME NEW q \in Runners, NEW d \in Callers, q # r
                 PROVE  /\ at'[<<q, d>>] \in {"upload", "meta"}
                             => shot'[<<q, d>>] \subseteq vol'[q].has
                        /\ at'[<<q, d>>] = "upload" /\ by' = q
                             => state'.has \subseteq shot'[<<q, d>>]
      BY <2>1 DEF ShotInv
    <3> QED BY <2>1, <2>3 DEF ShotInv, Grows
  <2> QED BY <2>2, <2>4, <2>5
<1>2. CASE Shutdown(r)
  <2>1. LockInv'
    BY <1>2 DEF Shutdown, Move, LockInv, TypeOK, Snaps
  <2>2. VolumeInv'
    BY <1>2 DEF Shutdown, VolumeInv, TypeOK
  <2>3. ShotInv'
    BY <1>2 DEF Shutdown, Move, ShotInv, TypeOK, Snaps
  <2> QED BY <1>2, <2>1, <2>2, <2>3 DEF Shutdown
<1> QED BY <1>1, <1>2

\* A write grows the volume under a copy; a poll queues the sync task.
LEMMA NoticeKeeps ==
  ASSUME KeepInv, NEW r \in Runners, NEW b \in BOOLEAN, DbWrite(r, b) \/ Poll(r, b)
  PROVE  (LockInv /\ VolumeInv /\ ShotInv)'
<1> USE DEF KeepInv, Running, store
<1>1. CASE DbWrite(r, b)
  <2>1. /\ UNCHANGED <<state, by, phase, at, shot, held>>
        /\ \A q \in Runners : vol'[q].there = vol[q].there /\ vol[q].has \subseteq vol'[q].has
    BY <1>1 DEF DbWrite, TypeOK, Files
  <2> QED BY <2>1 DEF LockInv, VolumeInv, ShotInv
<1>2. CASE Poll(r, b)
  <2>1. UNCHANGED <<state, by, phase, vol, shot, held>>
    BY <1>2 DEF Poll
  <2>2. \/ UNCHANGED at
        \/ Running(r) /\ at' = [at EXCEPT ![<<r, "tick">>] = "queued"]
    BY <1>2 DEF Poll
  <2>3. CASE UNCHANGED at
    BY <2>1, <2>3 DEF LockInv, VolumeInv, ShotInv
  <2>4. CASE Running(r) /\ at' = [at EXCEPT ![<<r, "tick">>] = "queued"]
    <3>1. LockInv'
      BY <2>1, <2>4 DEF LockInv, TypeOK, Snaps
    <3>2. ShotInv'
      BY <2>1, <2>4 DEF ShotInv, TypeOK, Snaps
    <3> QED BY <2>1, <3>1, <3>2 DEF VolumeInv
  <2> QED BY <2>2, <2>3, <2>4
<1> QED BY <1>1, <1>2

\* What a caller's step changes of the others and of itself: it takes the free
\* lock, keeps it, or returns.
LEMMA SnapActs ==
  ASSUME KeepInv, NEW r \in Runners, NEW c \in Callers, SnapLock(r, c) \/ SnapStep(r, c)
  PROVE  /\ UNCHANGED <<vol, phase>> /\ Running(r)
         /\ \A q \in Runners, d \in Callers : <<q, d>> # <<r, c>> =>
              at'[<<q, d>>] = at[<<q, d>>] /\ shot'[<<q, d>>] = shot[<<q, d>>]
         /\ \A q \in Runners \ {r} : held'[q] = held[q]
         /\ \A d \in Callers \ {c} : at[<<r, d>>] \notin {"check", "vacuum", "upload", "meta"}
         /\ at'[<<r, c>>] \in {"check", "vacuum", "upload", "meta"} => held'[r] = c
<1> USE DEF KeepInv, SnapFrame, Move, SnapEnd, SnapFail, Callers
<1>1. Running(r)
  BY DEF LockInv, SnapLock, SnapStep, SnapCheck, SnapVacuum, SnapUpload, SnapMeta
<1>2. UNCHANGED <<vol, phase>>
  BY DEF SnapLock, SnapStep, SnapCheck, SnapVacuum, SnapUpload, SnapMeta
<1>3. \A d \in Callers \ {c} : at[<<r, d>>] \notin {"check", "vacuum", "upload", "meta"}
  BY DEF LockInv, LockFree, SnapLock, SnapStep, SnapCheck, SnapVacuum, SnapUpload, SnapMeta
<1>4. /\ \A q \in Runners \ {r} : held'[q] = held[q]
      /\ at'[<<r, c>>] \in {"check", "vacuum", "upload", "meta"} => held'[r] = c
  <2>0. <<r, c>> \in Snaps
    BY DEF Snaps
  <2>1. CASE SnapEnd(r, c)
    BY <2>0, <2>1 DEF TypeOK
  <2>2. CASE UNCHANGED held /\ at[<<r, c>>] \in {"check", "vacuum", "upload", "meta"}
    BY <2>2 DEF LockInv
  <2>3. CASE SnapLock(r, c)
    BY <2>3 DEF SnapLock, TypeOK
  <2>4. SnapStep(r, c) =>
          \/ SnapEnd(r, c)
          \/ UNCHANGED held /\ at[<<r, c>>] \in {"check", "vacuum", "upload", "meta"}
    BY DEF SnapStep, SnapCheck, SnapVacuum, SnapUpload, SnapMeta
  <2> QED BY <2>1, <2>2, <2>3, <2>4
<1>5. \A q \in Runners, d \in Callers : <<q, d>> # <<r, c>> =>
        at'[<<q, d>>] = at[<<q, d>>] /\ shot'[<<q, d>>] = shot[<<q, d>>]
  BY DEF TypeOK, Snaps, SnapLock, SnapStep, SnapCheck, SnapVacuum, SnapUpload, SnapMeta
<1> QED BY <1>1, <1>2, <1>3, <1>4, <1>5

\* A snapshot is copied from a volume that holds all the last one had, and
\* uploaded while nobody else of the runner uploads.
LEMMA SnapKeeps ==
  ASSUME KeepInv, NEW r \in Runners, NEW c \in Callers, SnapLock(r, c) \/ SnapStep(r, c)
  PROVE  /\ (LockInv /\ VolumeInv /\ ShotInv)'
         /\ by = by' => state.has \subseteq state'.has
<1> DEFINE Landed == SnapUpload(r, c) /\ state' = File(shot[<<r, c>>]) /\ by' = r
<1> USE DEF KeepInv
<1>1. /\ UNCHANGED <<vol, phase>> /\ Running(r)
      /\ \A q \in Runners, d \in Callers : <<q, d>> # <<r, c>> =>
           at'[<<q, d>>] = at[<<q, d>>] /\ shot'[<<q, d>>] = shot[<<q, d>>]
      /\ \A q \in Runners \ {r} : held'[q] = held[q]
      /\ \A d \in Callers \ {c} : at[<<r, d>>] \notin {"check", "vacuum", "upload", "meta"}
      /\ at'[<<r, c>>] \in {"check", "vacuum", "upload", "meta"} => held'[r] = c
  BY SnapActs
<1>2. LockInv'
  <2> SUFFICES ASSUME NEW q \in Runners, NEW d \in Callers
               PROVE  /\ at'[<<q, d>>] # "idle" => Running(q)'
                      /\ at'[<<q, d>>] \in {"check", "vacuum", "upload", "meta"} => held'[q] = d
    BY DEF LockInv
  <2>0. Running(q)' = Running(q)
    BY <1>1 DEF Running
  <2>1. CASE q = r /\ d = c
    BY <1>1, <2>0, <2>1
  <2>2. CASE q # r
    BY <1>1, <2>0, <2>2 DEF LockInv
  <2>3. CASE q = r /\ d # c
    BY <1>1, <2>0, <2>3
  <2> QED BY <2>1, <2>2, <2>3
<1>3. vol[r].there /\ (by = r => state.has \subseteq vol[r].has)
  BY <1>1 DEF VolumeInv
<1>4. <<r, c>> \in Snaps
  BY DEF Snaps
<1>5. CASE UNCHANGED <<state, by>> /\ ~Landed
  <2>1. VolumeInv'
    BY <1>1, <1>5 DEF VolumeInv, Running
  <2>2. /\ at'[<<r, c>>] \in {"upload", "meta"} => shot'[<<r, c>>] \subseteq vol[r].has
        /\ at'[<<r, c>>] = "upload" /\ by = r => state.has \subseteq shot'[<<r, c>>]
    <3>1. CASE SnapVacuum(r, c)
      BY <1>3, <1>4, <3>1 DEF SnapVacuum, SnapFail, SnapEnd, Move, TypeOK, Callers
    <3>2. CASE ~SnapVacuum(r, c)
      <4>1. at'[<<r, c>>] \notin {"upload", "meta"}
        BY <1>4, <1>5, <3>2 DEF SnapStep, SnapLock, SnapCheck, SnapUpload, SnapMeta, SnapFail,
           SnapEnd, Move, TypeOK, Callers
      <4> QED BY <4>1
    <3> QED BY <3>1, <3>2
  <2>3. ShotInv'
    <3> SUFFICES ASSUME NEW q \in Runners, NEW d \in Callers
                 PROVE  /\ at'[<<q, d>>] \in {"upload", "meta"}
                             => shot'[<<q, d>>] \subseteq vol'[q].has
                        /\ at'[<<q, d>>] = "upload" /\ by' = q
                             => state'.has \subseteq shot'[<<q, d>>]
      BY DEF ShotInv
    <3>1. CASE q = r /\ d = c
      BY <1>1, <1>5, <2>2, <3>1
    <3>2. CASE q # r
      BY <1>1, <1>5, <3>2 DEF ShotInv
    <3>3. CASE q = r /\ d # c
      BY <1>1, <3>3
    <3> QED BY <3>1, <3>2, <3>3
  <2> QED BY <1>2, <1>5, <2>1, <2>3
<1>6. CASE Landed
  <2>1. /\ shot[<<r, c>>] \subseteq vol[r].has
        /\ by = r => state.has \subseteq shot[<<r, c>>]
    BY <1>6 DEF SnapUpload, ShotInv
  <2>2. by' = r /\ state'.there /\ state'.has = shot[<<r, c>>] /\ phase[r] \in {"up", "stopping"}
    BY <1>1, <1>6 DEF File, Running
  <2>3. VolumeInv'
    BY <1>1, <1>3, <2>1, <2>2 DEF VolumeInv, Running
  <2>4. /\ at'[<<r, c>>] # "upload"
        /\ at'[<<r, c>>] = "meta" => shot'[<<r, c>>] = shot[<<r, c>>]
    BY <1>4, <1>6 DEF SnapUpload, SnapFail, SnapEnd, Move, TypeOK, Callers
  <2>5. ShotInv'
    <3> SUFFICES ASSUME NEW q \in Runners, NEW d \in Callers
                 PROVE  /\ at'[<<q, d>>] \in {"upload", "meta"}
                             => shot'[<<q, d>>] \subseteq vol'[q].has
                        /\ at'[<<q, d>>] = "upload" /\ by' = q
                             => state'.has \subseteq shot'[<<q, d>>]
      BY DEF ShotInv
    <3>1. CASE q = r /\ d = c
      BY <1>1, <2>1, <2>2, <2>4, <3>1
    <3>2. CASE q # r
      BY <1>1, <2>2, <3>2 DEF ShotInv
    <3>3. CASE q = r /\ d # c
      BY <1>1, <3>3
    <3> QED BY <3>1, <3>2, <3>3
  <2>6. by = by' => state.has \subseteq state'.has
    BY <2>1, <2>2
  <2> QED BY <1>2, <2>3, <2>5, <2>6
<1>7. UNCHANGED <<state, by>> \/ Landed
  BY DEF SnapLock, SnapStep, SnapCheck, SnapVacuum, SnapUpload, SnapMeta, store
<1> QED BY <1>5, <1>6, <1>7

\* The admin's request joins the queue, or goes away with what it holds.
LEMMA AdminKeeps ==
  ASSUME KeepInv, NEW r \in Runners, AdminSnapshot(r) \/ AdminCancel(r)
  PROVE  (LockInv /\ VolumeInv /\ ShotInv)' /\ (by = by' => state.has \subseteq state'.has)
<1> USE DEF KeepInv, Running, Move, SnapFrame, store
<1>1. CASE AdminSnapshot(r)
  BY <1>1 DEF AdminSnapshot, LockInv, VolumeInv, ShotInv, TypeOK, Snaps
<1>2. CASE AdminCancel(r)
  <2>0. "admin" \in Callers
    BY DEF Callers
  <2>1. LockInv'
    BY <1>2, <2>0 DEF AdminCancel, LockInv, TypeOK, Snaps
  <2>2. UNCHANGED <<vol, phase>> /\ Grows(r)
    BY <1>2, <2>0, AbandonedGrows DEF AdminCancel
  <2>3. VolumeInv' /\ (by = by' => state.has \subseteq state'.has)
    BY <2>2, GrowsKeeps
  <2>4. ShotInv'
    <3>1. /\ at'[<<r, "admin">>] = "idle"
          /\ \A q \in Runners, d \in Callers : q # r \/ d # "admin" =>
               at'[<<q, d>>] = at[<<q, d>>] /\ shot'[<<q, d>>] = shot[<<q, d>>]
      BY <1>2, <2>0 DEF AdminCancel, TypeOK, Snaps
    <3>2. CASE UNCHANGED <<state, by>>
      BY <2>2, <3>1, <3>2 DEF ShotInv
    <3>3. CASE at[<<r, "admin">>] = "upload"
      <4>1. \A d \in Callers \ {"admin"} : at[<<r, d>>] \notin {"upload", "meta"}
        BY <2>0, <3>3 DEF LockInv
      <4>2. UNCHANGED <<state, by>> \/ by' = r
        BY <2>2 DEF Grows
      <4> SUFFICES ASSUME NEW q \in Runners, NEW d \in Callers
                   PROVE  /\ at'[<<q, d>>] \in {"upload", "meta"}
                               => shot'[<<q, d>>] \subseteq vol'[q].has
                          /\ at'[<<q, d>>] = "upload" /\ by' = q
                               => state'.has \subseteq shot'[<<q, d>>]
        BY DEF ShotInv
      <4>3. CASE q = r
        BY <3>1, <4>1, <4>3
      <4>4. CASE q # r
        BY <2>2, <3>1, <4>2, <4>4 DEF ShotInv
      <4> QED BY <4>3, <4>4
    <3> QED BY <1>2, <3>2, <3>3 DEF AdminCancel, Abandoned
  <2> QED BY <2>1, <2>3, <2>4
<1> QED BY <1>1, <1>2

\* One step of any runner keeps the invariant and what the runner has uploaded.
LEMMA StepKeeps ==
  ASSUME KeepInv, [Next]_vars
  PROVE  (LockInv /\ VolumeInv /\ ShotInv)' /\ (by = by' => state.has \subseteq state'.has)
<1>1. CASE UNCHANGED vars
  BY <1>1 DEF vars, store, memory, KeepInv, LockInv, VolumeInv, ShotInv, Running
<1>2. ASSUME NEW r \in Runners, RunnerStep(r)
      PROVE  (LockInv /\ VolumeInv /\ ShotInv)' /\ (by = by' => state.has \subseteq state'.has)
  <2>1. CASE Boot(r) \/ BootStep(r) \/ LoseVolume(r)
    <3>1. UNCHANGED state
      BY <2>1 DEF Boot, BootStep, Restore, ClaimMeta, ClaimOwner, Connect, LoseVolume, store
    <3> QED BY <2>1, <3>1, BootKeeps
  <2>2. CASE Exit(r) \/ Crash(r) \/ Shutdown(r)
    BY <2>2, EndKeeps
  <2>3. CASE \E b \in BOOLEAN : DbWrite(r, b) \/ Poll(r, b)
    <3>1. UNCHANGED state
      BY <2>3 DEF DbWrite, Poll, store
    <3> QED BY <2>3, <3>1, NoticeKeeps
  <2>4. CASE AdminSnapshot(r) \/ AdminCancel(r)
    BY <2>4, AdminKeeps
  <2>5. CASE \E c \in Callers : SnapLock(r, c) \/ SnapStep(r, c)
    BY <2>5, SnapKeeps
  <2> QED BY <1>2, <2>1, <2>2, <2>3, <2>4, <2>5 DEF RunnerStep
<1> QED BY <1>1, <1>2 DEF Next

LEMMA InitKeeps == Init => LockInv /\ VolumeInv /\ ShotInv
  BY RunnersAssumption DEF Init, LockInv, VolumeInv, ShotInv, Running, Missing, Snaps

\* No runner ever replaces its own snapshot by one that holds less, whatever
\* fails, crashes or overlaps, and whichever runners share the bucket.
THEOREM SnapshotsGrow == Spec => SnapshotKeeps
<1>1. Init => LockInv /\ VolumeInv /\ ShotInv
  BY InitKeeps
<1>2. KeepInv /\ [Next]_vars =>
        (LockInv /\ VolumeInv /\ ShotInv)' /\ (by = by' => state.has \subseteq state'.has)
  BY StepKeeps
<1>3. KeepInv <=> TypeOK /\ LockInv /\ VolumeInv /\ ShotInv
  BY DEF KeepInv
<1> QED BY <1>1, <1>2, <1>3, StateTyped, PTL DEF Spec, SnapshotKeeps

-----------------------------------------------------------------------------
(* A skipped snapshot is in the bucket.                                    *)

(***************************************************************************)
(* Published(w): the bucket, its meta object, or a hash some runner goes   *)
(* by holds w, or is about to.  CopyInv: a runner's own snapshot, and the  *)
(* copy it is about to upload, hold all of its volume that was published   *)
(* or that another runner's volume has too: what is missing there the      *)
(* runner has written since, and nobody else can have.                     *)
(***************************************************************************)
Published(w) ==
    \/ w \in state.has \/ w \in meta.has
    \/ \E q \in Runners : w \in hash[q].has
    \/ \E s \in Snaps : at[s] = "meta" /\ w \in shot[s]

FreshInv ==
    /\ \A w \in Writes : Published(w) => w <= written
    /\ \A r \in Runners : \A w \in vol[r].has : w <= written

SavedInv == \A r \in Runners : by = r => \A w \in vol[r].has : Published(w) => w \in state.has

CopyInv ==
    \A s \in Snaps : at[s] = "upload" =>
        \A w \in vol[s[1]].has :
            Published(w) \/ (\E q \in Runners \ {s[1]} : w \in vol[q].has) => w \in shot[s]

\* A copy of r lands in the bucket.
Lands(r, s) == at[s] = "upload" /\ s[1] = r /\ state' = File(shot[s]) /\ by' = r

\* What a step of r that leaves the volumes alone does to all the places a
\* write can be published at, and to the copies about to be uploaded.
Sources(r) ==
    /\ UNCHANGED <<vol, written>>
    /\ UNCHANGED <<state, by>> \/ \E s \in Snaps : Lands(r, s)
    /\ UNCHANGED meta \/ \E s \in Snaps : at[s] = "meta" /\ meta'.has = shot[s]
    /\ \A q \in Runners : \/ hash'[q].has \in {hash[q].has, {}, meta.has}
                          \/ \E s \in Snaps : at[s] = "meta" /\ hash'[q].has = shot[s]
    /\ \A s \in Snaps : at'[s] = "meta" =>
          shot'[s] = shot[s] /\ (at[s] = "meta" \/ Lands(r, s))
    /\ \A s \in Snaps : at'[s] = "upload" =>
          \/ at[s] = "upload" /\ shot'[s] = shot[s]
          \/ shot'[s] = vol[s[1]].has

LEMMA SnapPairs ==
  /\ \A r \in Runners, c \in Callers : <<r, c>> \in Snaps /\ <<r, c>>[1] = r
  /\ \A s \in Snaps : \E r \in Runners, c \in Callers : s = <<r, c>>
  /\ \A s \in Snaps : s[1] \in Runners
  BY DEF Snaps

\* Only one copy of a runner is on its way.
LEMMA OneCopy ==
  ASSUME KeepInv, NEW s \in Snaps, NEW u \in Snaps, s[1] = u[1],
         at[s] \in {"upload", "meta"}, at[u] \in {"upload", "meta"}
  PROVE  s = u
<1>1. PICK r \in Runners, c \in Callers : s = <<r, c>> BY SnapPairs
<1>2. PICK d \in Callers : u = <<r, d>> BY <1>1, SnapPairs
<1>3. held[r] = c /\ held[r] = d BY <1>1, <1>2 DEF KeepInv, LockInv
<1> QED BY <1>1, <1>2, <1>3

\* A publication is an old one or the copy that has just landed.
LEMMA PublishedFrom ==
  ASSUME NEW r \in Runners, Sources(r), NEW w, Published(w)'
  PROVE  Published(w) \/ \E s \in Snaps : Lands(r, s) /\ w \in shot[s]
<1>1. CASE w \in state'.has
  BY <1>1 DEF Sources, Lands, File, Published
<1>2. CASE w \in meta'.has
  BY <1>2 DEF Sources, Published
<1>3. ASSUME NEW q \in Runners, w \in hash'[q].has PROVE Published(w)
  BY <1>3 DEF Sources, Published
<1>4. ASSUME NEW s \in Snaps, at'[s] = "meta", w \in shot'[s]
      PROVE  Published(w) \/ \E u \in Snaps : Lands(r, u) /\ w \in shot[u]
  BY <1>4 DEF Sources, Published
<1> QED BY <1>1, <1>2, <1>3, <1>4 DEF Published

\* Such a step keeps the three.
LEMMA SourcesKeep ==
  ASSUME KeepInv, FreshInv, SavedInv, CopyInv, NEW r \in Runners, Sources(r)
  PROVE  (FreshInv /\ SavedInv /\ CopyInv)'
<1>v. UNCHANGED <<vol, written>> BY DEF Sources
<1>p. \A w : Published(w)' => Published(w) \/ \E s \in Snaps : Lands(r, s) /\ w \in shot[s]
  BY PublishedFrom
<1>s. ASSUME NEW s \in Snaps, Lands(r, s)
      PROVE  /\ shot[s] \subseteq vol[r].has
             /\ \A w \in vol[r].has : Published(w) \/ (\E q \in Runners \ {r} : w \in vol[q].has) => w \in shot[s]
  <2>1. PICK c \in Callers : s = <<r, c>> BY <1>s, SnapPairs DEF Lands
  <2> QED BY <1>s, <2>1 DEF Lands, KeepInv, ShotInv, CopyInv
<1>1. FreshInv'
  <2>1. ASSUME NEW w \in Writes, Published(w)' PROVE w <= written
    BY <2>1, <1>p, <1>s DEF FreshInv
  <2> QED BY <2>1, <1>v DEF FreshInv
<1>2. SavedInv'
  <2> SUFFICES ASSUME NEW q \in Runners, by' = q, NEW w \in vol[q].has, Published(w)'
               PROVE  w \in state'.has
    BY <1>v DEF SavedInv
  <2>1. CASE UNCHANGED <<state, by>>
    <3>1. CASE Published(w) BY <2>1, <3>1 DEF SavedInv
    <3>2. ASSUME NEW s \in Snaps, Lands(r, s), w \in shot[s] PROVE w \in state'.has
      BY <3>2 DEF Lands, File
    <3> QED BY <3>1, <3>2, <1>p
  <2>2. ASSUME NEW s \in Snaps, Lands(r, s) PROVE w \in state'.has
    <3>1. q = r /\ state'.has = shot[s] BY <2>2 DEF Lands, File
    <3>2. \A u \in Snaps : Lands(r, u) => shot[u] = shot[s]
      BY <2>2, OneCopy DEF Lands
    <3> QED BY <3>1, <3>2, <2>2, <1>p, <1>s
  <2> QED BY <2>1, <2>2 DEF Sources
<1>3. CopyInv'
  <2> SUFFICES ASSUME NEW u \in Snaps, at'[u] = "upload", NEW w \in vol[u[1]].has,
                      Published(w)' \/ \E q \in Runners \ {u[1]} : w \in vol[q].has
               PROVE  w \in shot'[u]
    BY <1>v DEF CopyInv
  <2>1. CASE shot'[u] = vol[u[1]].has BY <2>1
  <2>2. CASE at[u] = "upload" /\ shot'[u] = shot[u]
    <3>1. CASE Published(w) \/ \E q \in Runners \ {u[1]} : w \in vol[q].has
      BY <2>2, <3>1 DEF CopyInv
    <3>2. ASSUME NEW s \in Snaps, Lands(r, s), w \in shot[s] PROVE w \in shot'[u]
      <4>1. CASE u[1] = r
        <5>1. u = s BY <2>2, <3>2, <4>1, OneCopy DEF Lands
        <5> QED BY <5>1, <2>2, <3>2
      <4>2. CASE u[1] # r
        <5>1. w \in vol[r].has BY <3>2, <1>s
        <5> QED BY <5>1, <4>2, <2>2, SnapPairs DEF CopyInv
      <4> QED BY <4>1, <4>2
    <3> QED BY <3>1, <3>2, <1>p
  <2> QED BY <2>1, <2>2 DEF Sources
<1> QED BY <1>1, <1>2, <1>3

\* A snapshot that goes on publishes only through its two PUTs.
LEMMA SnapSources ==
  ASSUME KeepInv, NEW r \in Runners, NEW c \in Callers, SnapLock(r, c) \/ SnapStep(r, c)
  PROVE  Sources(r)
<1> DEFINE me == <<r, c>>
<1>m. me \in Snaps /\ me[1] = r BY SnapPairs
<1> HIDE DEF me
<1>t. /\ at \in [Snaps -> Labels] /\ shot \in [Snaps -> SUBSET Writes] /\ hash \in [Runners -> Files]
  BY DEF KeepInv, TypeOK
<1>1. CASE SnapLock(r, c)
  <2>1. at' = [at EXCEPT ![me] = "check"] /\ UNCHANGED <<vol, written, state, by, meta, hash, shot>>
    BY <1>1 DEF SnapLock, Move, SnapFrame, store, me
  <2> QED BY <2>1, <1>m, <1>t DEF Sources
<1> DEFINE Ends == /\ at' = [at EXCEPT ![me] = IF c = "final" THEN "done" ELSE "idle"]
                   /\ shot' = [shot EXCEPT ![me] = {}]
<1>e. SnapEnd(r, c) => Ends BY DEF SnapEnd, Move, me
<1>f. Ends => /\ at'[me] \in {"done", "idle"}
              /\ \A s \in Snaps \ {me} : at'[s] = at[s] /\ shot'[s] = shot[s]
  BY <1>t, <1>m
<1>2. CASE SnapCheck(r, c)
  <2>1. UNCHANGED <<vol, written, state, by, meta, hash>> BY <1>2 DEF SnapCheck, SnapFrame, store
  <2>2. CASE Ends BY <2>1, <2>2, <1>f, <1>m DEF Sources
  <2>3. CASE at' = [at EXCEPT ![me] = "vacuum"] /\ UNCHANGED shot BY <2>1, <2>3, <1>m, <1>t DEF Sources
  <2> QED BY <1>2, <1>e, <2>2, <2>3 DEF SnapCheck, Move, me
<1>3. CASE SnapVacuum(r, c)
  <2>1. UNCHANGED <<vol, written, state, by, meta, hash>> BY <1>3 DEF SnapVacuum, SnapFrame, store
  <2>2. CASE Ends BY <2>1, <2>2, <1>f, <1>m DEF Sources
  <2>3. CASE at' = [at EXCEPT ![me] = "upload"] /\ shot' = [shot EXCEPT ![me] = vol[r].has]
    BY <2>1, <2>3, <1>m, <1>t DEF Sources
  <2> QED BY <1>3, <1>e, <2>2, <2>3 DEF SnapVacuum, SnapFail, Move, me
<1>4. CASE SnapUpload(r, c)
  <2>1. UNCHANGED <<vol, written, meta, hash>> /\ at[me] = "upload" BY <1>4 DEF SnapUpload, SnapFrame, me
  <2>2. UNCHANGED <<state, by>> \/ Lands(r, me) BY <1>4, <1>m DEF SnapUpload, Lands, me
  <2>3. CASE Ends BY <2>1, <2>2, <2>3, <1>f, <1>m DEF Sources
  <2>4. CASE at' = [at EXCEPT ![me] = "meta"] /\ UNCHANGED shot /\ Lands(r, me)
    BY <2>1, <2>4, <1>m, <1>t DEF Sources
  <2> QED BY <1>4, <1>e, <1>m, <2>3, <2>4 DEF SnapUpload, SnapFail, Move, Lands, me
<1>5. CASE SnapMeta(r, c)
  <2>1. UNCHANGED <<vol, written, state, by>> /\ at[me] = "meta" /\ Ends
    BY <1>5, <1>e DEF SnapMeta, SnapFail, SnapFrame, me
  <2>2. UNCHANGED meta \/ meta'.has = shot[me] BY <1>5 DEF SnapMeta, Fresh, me
  <2>3. \A q \in Runners : hash'[q].has = hash[q].has \/ hash'[q].has = shot[me]
    BY <1>5, <1>t DEF SnapMeta, File, me
  <2> QED BY <2>1, <2>2, <2>3, <1>f, <1>m DEF Sources
<1> QED BY <1>1, <1>2, <1>3, <1>4, <1>5 DEF SnapStep

\* The end of a process, the admin's request and the poller publish at most
\* what was on its way.
LEMMA OtherSources ==
  ASSUME KeepInv, NEW r \in Runners,
         \/ Exit(r) \/ Crash(r) \/ Shutdown(r) \/ AdminSnapshot(r) \/ AdminCancel(r)
         \/ Boot(r) \/ ClaimMeta(r) \/ ClaimOwner(r) \/ \E b \in BOOLEAN : Poll(r, b)
  PROVE  Sources(r)
<1>t. /\ at \in [Snaps -> Labels] /\ shot \in [Snaps -> SUBSET Writes] /\ hash \in [Runners -> Files]
  BY DEF KeepInv, TypeOK
<1>a. ASSUME NEW c \in Callers, Abandoned(r, c)
      PROVE  /\ UNCHANGED <<state, by>> \/ \E s \in Snaps : Lands(r, s)
             /\ UNCHANGED meta \/ \E s \in Snaps : at[s] = "meta" /\ meta'.has = shot[s]
  <2>1. <<r, c>> \in Snaps /\ <<r, c>>[1] = r BY SnapPairs
  <2> QED BY <1>a, <2>1 DEF Abandoned, Lands, Fresh
<1>h. Halt(r) => /\ \A q \in Runners : hash'[q].has \in {hash[q].has, {}}
                 /\ \A s \in Snaps : at'[s] = "idle" \/ (at'[s] = at[s] /\ shot'[s] = shot[s])
  BY <1>t DEF Halt, Missing
<1>1. CASE Exit(r)
  <2>1. UNCHANGED <<vol, written, state, by, meta>> /\ Halt(r) BY <1>1 DEF Exit, store, spent
  <2> QED BY <2>1, <1>h DEF Sources
<1>2. CASE Crash(r)
  <2>1. UNCHANGED <<vol, written>> /\ Halt(r) BY <1>2 DEF Crash, spent
  <2>2. PICK c \in Callers : Abandoned(r, c) BY <1>2 DEF Crash
  <2> QED BY <2>1, <2>2, <1>a, <1>h DEF Sources
<1>3. CASE Shutdown(r)
  <2>1. UNCHANGED <<vol, written, state, by, meta, hash, shot>> /\ at' = [at EXCEPT ![<<r, "final">>] = "queued"]
    BY <1>3 DEF Shutdown, Move, store, spent
  <2> QED BY <2>1, <1>t DEF Sources
<1>4. CASE AdminSnapshot(r)
  <2>1. UNCHANGED <<vol, written, state, by, meta, hash, shot>> /\ at' = [at EXCEPT ![<<r, "admin">>] = "queued"]
    BY <1>4 DEF AdminSnapshot, Move, SnapFrame, store
  <2> QED BY <2>1, <1>t DEF Sources
<1>5. CASE AdminCancel(r)
  <2>1. /\ UNCHANGED <<vol, written, hash>> /\ at' = [at EXCEPT ![<<r, "admin">>] = "idle"]
        /\ shot' = [shot EXCEPT ![<<r, "admin">>] = {}] /\ Abandoned(r, "admin")
    BY <1>5 DEF AdminCancel, Move, SnapFrame
  <2>2. "admin" \in Callers BY DEF Callers
  <2>3. \A s \in Snaps : at'[s] = "idle" \/ (at'[s] = at[s] /\ shot'[s] = shot[s]) BY <2>1, <1>t
  <2> QED BY <2>1, <2>2, <2>3, <1>a DEF Sources
<1>6. CASE Boot(r) \/ ClaimOwner(r)
  <2>1. UNCHANGED <<vol, written, state, by, meta, hash, at, shot>>
    BY <1>6 DEF Boot, ClaimOwner, store, memory, spent
  <2> QED BY <2>1 DEF Sources
<1>7. CASE ClaimMeta(r)
  <2>1. UNCHANGED <<vol, written, state, by, meta, at, shot>> BY <1>7 DEF ClaimMeta, store
  <2>2. \A q \in Runners : hash'[q].has \in {hash[q].has, meta.has} BY <1>7, <1>t DEF ClaimMeta
  <2> QED BY <2>1, <2>2 DEF Sources
<1>8. ASSUME NEW b \in BOOLEAN, Poll(r, b) PROVE Sources(r)
  <2>1. UNCHANGED <<vol, written, state, by, meta, hash, shot>> BY <1>8 DEF Poll, store, spent
  <2>2. at' = at \/ at' = [at EXCEPT ![<<r, "tick">>] = "queued"] BY <1>8 DEF Poll
  <2> QED BY <2>1, <2>2, <1>t DEF Sources
<1> QED BY <1>1, <1>2, <1>3, <1>4, <1>5, <1>6, <1>7, <1>8

\* A volume is restored from the bucket, created, written to or lost: what is
\* new there is published, or new to everybody.
LEMMA VolumeKeeps ==
  ASSUME KeepInv, FreshInv, SavedInv, CopyInv, NEW r \in Runners,
         Restore(r) \/ Connect(r) \/ LoseVolume(r) \/ \E b \in BOOLEAN : DbWrite(r, b)
  PROVE  (FreshInv /\ SavedInv /\ CopyInv)'
<1>t. /\ vol \in [Runners -> Files] /\ written \in 0 .. MaxWrites /\ state \in Files
      /\ at \in [Snaps -> Labels]
  BY DEF KeepInv, TypeOK
<1>1. UNCHANGED <<state, by, meta, hash, at, shot>>
  BY DEF Restore, Connect, LoseVolume, DbWrite, store, memory
<1>2. \A w : Published(w)' <=> Published(w) BY <1>1 DEF Published
<1>3. \A q \in Runners \ {r} : vol'[q] = vol[q]
  BY <1>t DEF Restore, Connect, LoseVolume, DbWrite
<1>4. CASE written' = written /\ (vol'[r].has \subseteq vol[r].has \/ (vol'[r].has = state.has /\ ~Running(r)))
  <2>1. \A w \in vol'[r].has : w \in vol[r].has \/ Published(w) BY <1>4 DEF Published
  <2>w. \A q \in Runners : vol'[q].has \subseteq Writes
    BY <1>4, <1>3, <1>t DEF Files
  <2>2. FreshInv' BY <1>2, <1>3, <1>4, <2>1, <2>w DEF FreshInv
  <2>3. SavedInv' BY <1>1, <1>2, <1>3, <1>4 DEF SavedInv
  <2>4. CopyInv'
    <3> SUFFICES ASSUME NEW u \in Snaps, at[u] = "upload", NEW w \in vol'[u[1]].has,
                        Published(w) \/ \E q \in Runners \ {u[1]} : w \in vol'[q].has
                 PROVE  w \in shot[u]
      BY <1>1, <1>2 DEF CopyInv
    <3>0. u[1] \in Runners BY SnapPairs
    <3>1. Running(u[1]) BY SnapPairs DEF KeepInv, LockInv
    <3>2. w \in vol[u[1]].has BY <3>0, <3>1, <1>3, <1>4
    <3>3. Published(w) \/ \E q \in Runners \ {u[1]} : w \in vol[q].has BY <1>3, <2>1
    <3> QED BY <3>2, <3>3 DEF CopyInv
  <2> QED BY <2>2, <2>3, <2>4
<1>5. CASE /\ written' = written + 1 /\ written + 1 \in Writes
           /\ vol'[r].has = vol[r].has \cup {written + 1}
  <2>0. ~Published(written + 1) BY <1>5, <1>t DEF FreshInv
  <2>1. \A q \in Runners : written + 1 \notin vol[q].has BY <1>t DEF FreshInv
  <2>w. \A q \in Runners : vol[q].has \subseteq Nat BY <1>t DEF Files, Writes
  <2>2. FreshInv'
    <3>1. ASSUME NEW w \in Writes, Published(w) PROVE w <= written' BY <3>1, <1>5, <1>t DEF FreshInv, Writes
    <3>2. ASSUME NEW q \in Runners, NEW w \in vol'[q].has PROVE w <= written'
      <4>1. w \in vol[q].has \/ w = written + 1 BY <1>3, <1>5
      <4> QED BY <4>1, <2>w, <1>5, <1>t DEF FreshInv
    <3> QED BY <3>1, <3>2, <1>2 DEF FreshInv
  <2>3. SavedInv' BY <1>1, <1>2, <1>3, <1>5, <2>0 DEF SavedInv
  <2>4. CopyInv'
    <3> SUFFICES ASSUME NEW u \in Snaps, at[u] = "upload", NEW w \in vol'[u[1]].has,
                        Published(w) \/ \E q \in Runners \ {u[1]} : w \in vol'[q].has
                 PROVE  w \in shot[u]
      BY <1>1, <1>2 DEF CopyInv
    <3>0. u[1] \in Runners BY SnapPairs
    <3>1. w # written + 1 BY <3>0, <2>0, <2>1, <1>3, <1>5
    <3>2. w \in vol[u[1]].has BY <3>0, <3>1, <1>3, <1>5
    <3>3. Published(w) \/ \E q \in Runners \ {u[1]} : w \in vol[q].has BY <3>1, <1>3, <1>5
    <3> QED BY <3>2, <3>3 DEF CopyInv
  <2> QED BY <2>2, <2>3, <2>4
<1>6. CASE Restore(r) BY <1>6, <1>4, <1>t DEF Restore, Running
<1>7. CASE Connect(r) BY <1>7, <1>4, <1>t DEF Connect, File, spent
<1>8. CASE LoseVolume(r) BY <1>8, <1>4, <1>t DEF LoseVolume, Missing
<1>9. ASSUME NEW b \in BOOLEAN, DbWrite(r, b) PROVE (FreshInv /\ SavedInv /\ CopyInv)'
  <2>1. written' = written + 1 /\ written < MaxWrites BY <1>9 DEF DbWrite
  <2>2. written + 1 \in Writes BY <2>1, <1>t, StateBounds DEF Writes
  <2>3. vol'[r].has = vol[r].has \cup {written + 1} BY <1>9, <1>t DEF DbWrite, Files
  <2> QED BY <2>1, <2>2, <2>3, <1>5
<1> QED BY <1>6, <1>7, <1>8, <1>9

\* One step of any runner keeps them.
LEMMA CopyStep ==
  ASSUME KeepInv, FreshInv, SavedInv, CopyInv, [Next]_vars
  PROVE  (FreshInv /\ SavedInv /\ CopyInv)'
<1>1. CASE UNCHANGED vars
  <2>1. UNCHANGED <<vol, state, by, meta, hash, at, shot, written>>
    BY <1>1 DEF vars, store, memory, spent
  <2> QED BY <2>1 DEF FreshInv, SavedInv, CopyInv, Published
<1>2. ASSUME NEW r \in Runners, RunnerStep(r) PROVE (FreshInv /\ SavedInv /\ CopyInv)'
  <2>1. \/ Restore(r) \/ Connect(r) \/ LoseVolume(r) \/ \E b \in BOOLEAN : DbWrite(r, b)
        \/ Sources(r)
    BY <1>2, SnapSources, OtherSources DEF RunnerStep, BootStep
  <2> QED BY <2>1, VolumeKeeps, SourcesKeep
<1> QED BY <1>1, <1>2 DEF Next

LEMMA CopyInit == Init => FreshInv /\ SavedInv /\ CopyInv
  BY RunnersAssumption DEF Init, FreshInv, SavedInv, CopyInv, Published, Missing

\* A snapshot is skipped as identical only if the bucket holds it, whichever
\* runners share the bucket, whatever upload fails half way, and wherever the
\* hash came from (state.rs snapshot_now, claim).
THEOREM SkipsAreSound == Spec => []SkipSound
<1>1. KeepInv /\ FreshInv /\ SavedInv /\ CopyInv => SkipSound
  <2> SUFFICES ASSUME KeepInv, SavedInv, NEW r \in Runners, hash[r].there, hash[r] = vol[r], by = r
               PROVE  state = vol[r]
    BY DEF SkipSound
  <2>1. \A w \in vol[r].has : Published(w) BY DEF Published
  <2>2. vol[r].has \subseteq state.has BY <2>1 DEF SavedInv
  <2>3. state.has \subseteq vol[r].has /\ state.there BY RunnersAssumption DEF KeepInv, VolumeInv
  <2>4. state \in Files /\ vol[r] \in Files BY DEF KeepInv, TypeOK
  <2> QED BY <2>2, <2>3, <2>4 DEF Files
<1>2. KeepInv /\ [Next]_vars => (LockInv /\ VolumeInv /\ ShotInv)' BY StepKeeps
<1>3. KeepInv /\ FreshInv /\ SavedInv /\ CopyInv /\ [Next]_vars => (FreshInv /\ SavedInv /\ CopyInv)' BY CopyStep
<1>4. KeepInv <=> TypeOK /\ LockInv /\ VolumeInv /\ ShotInv BY DEF KeepInv
<1> QED BY <1>1, <1>2, <1>3, <1>4, InitKeeps, CopyInit, StateTyped, PTL DEF Spec
=============================================================================
