-------------------------------- MODULE AppProofs --------------------------------
(***************************************************************************)
(* Proofs about the app around the core: the resumable download, for every *)
(* number of chunks, permits, retries and faults, and the account screen,  *)
(* the layout editor and the instance screens, for every set of accounts,  *)
(* layouts, versions and dashboards and any number of taps and kills.      *)
(***************************************************************************)
EXTENDS MCScreens, SubsequenceLemmas, FiniteSetTheorems, TLAPS

-----------------------------------------------------------------------------
(* The download. *)

USE DownloadAssumption

LEMMA ChunkFinite == IsFiniteSet(Chunk) /\ Cardinality(Chunk) = NumChunks
BY FS_Interval DEF Chunk

(* A set of chunks has at most NumChunks members. *)
LEMMA ChunkCount ==
  ASSUME NEW S \in SUBSET Chunk
  PROVE  Cardinality(S) \in 0 .. NumChunks
<1>1. IsFiniteSet(S) /\ Cardinality(S) <= NumChunks
  BY ChunkFinite, FS_Subset
<1>2. Cardinality(S) \in Nat
  BY <1>1, FS_CardinalityType
<1>. QED  BY <1>1, <1>2

LEMMA Owners == Main \in 0 .. Orphan /\ Orphan \in 0 .. Orphan /\ Chunk \subseteq 0 .. Orphan
BY DEF Main, Orphan, Chunk

LEMMA WriterType ==
  /\ \A i \in 0 .. Orphan, S \in SUBSET Chunk :
        [by |-> i, snap |-> S, open |-> FALSE] \in Writer
  /\ \A w \in Writer : [w EXCEPT !.open = TRUE] \in Writer
  /\ \A w \in Writer : [w EXCEPT !.by = Orphan] \in Writer
BY Owners DEF Writer

LEMMA ForgetType ==
  Forget => /\ task' \in [Chunk -> {"todo"}] /\ retries' = [c \in Chunk |-> 0]
            /\ completed' = {} /\ gate' \in 0 .. PersistEvery - 1
            /\ loaded' \in [Chunk -> 0 .. NumChunks]
BY DEF Forget, Resting, Zeros

(* Every step keeps the type; a retry count stops at MaxRetries + 1        *)
(* because the task that reaches it has failed.                            *)
RetriesOK == \A c \in Chunk : task[c] \in {"todo", "fetch"} => retries[c] <= MaxRetries

TypeInv == TypeOK /\ RetriesOK

LEMMA TypeInit == Init => TypeInv
<1>. SUFFICES ASSUME Init
              PROVE  TypeOK /\ RetriesOK
  BY DEF TypeInv
<1>1. RetriesOK
  BY DEF Init, RetriesOK, Zeros
<1>2. /\ part \in File /\ dest \in File /\ meta \in Meta
      /\ task \in [Chunk -> {"todo"}] /\ retries \in [Chunk -> 0 .. MaxRetries + 1]
      /\ loaded \in [Chunk -> 0 .. NumChunks]
  BY DEF Init, File, Meta, Absent, NoMeta, Zeros, Resting
<1>3. task \in [Chunk -> Running \cup {"todo", "skip", "done", "failed"}]
  BY <1>2
<1>4. shown \in [done : 0 .. NumChunks, finished : BOOLEAN]
  BY DEF Init, NoReport
<1>5. /\ late \subseteq Write /\ writers \subseteq Writer /\ completed \subseteq Chunk
      /\ lost \subseteq Chunk /\ main = "idle" /\ result = "none"
  BY DEF Init
<1>6. strayed \in BOOLEAN
  BY DEF Init
<1>7. gate \in 0 .. PersistEvery - 1 /\ faults \in 0 .. MaxFaults
  BY DEF Init
<1>. QED  BY <1>1, <1>2, <1>3, <1>4, <1>5, <1>6, <1>7 DEF TypeOK

LEMMA FaultType ==
  ASSUME TypeOK, NEW k, Fault(k)
  PROVE  faults' \in 0 .. MaxFaults
BY DEF TypeOK, Fault

LEMMA PatchType ==
  ASSUME NEW f \in File, NEW w \in Write
  PROVE  Patch(f, w) \in File
<1>1. (f.exact /\ ~w.long) \in BOOLEAN
  OBVIOUS
<1>2. (IF w.ok THEN f.good \cup w.chunks ELSE f.good \ w.chunks) \in SUBSET Chunk
  BY DEF File, Write
<1>. QED  BY <1>1, <1>2 DEF Patch, File

LEMMA BytesType ==
  ASSUME NEW S \in SUBSET Chunk, NEW ok \in BOOLEAN, NEW long \in BOOLEAN
  PROVE  /\ Bytes(S, ok, long) \in Write
         /\ Bytes(S, ok, long).file = "part" /\ Bytes(S, ok, long).chunks = S
         /\ Bytes(S, ok, long).ok = ok /\ Bytes(S, ok, long).long = long
BY DEF Bytes, Write

LEMMA ReceiveType ==
  ASSUME TypeOK, NEW c \in Chunk, NEW ok \in BOOLEAN, Receive(c, ok)
  PROVE  late' \subseteq Write
<1>1. Bytes({c}, ok, FALSE) \in Write
  BY BytesType
<1>. QED  BY <1>1 DEF Receive, TypeOK

(* A body of the length asked for covers its own chunk only. *)
LEMMA ReceiveIs ==
  ASSUME NEW c \in Chunk, NEW ok \in BOOLEAN, Receive(c, ok)
  PROVE  \A w \in late' : w \in late \/ (w.file = "part" /\ w.ok = ok /\ w.long = FALSE)
<1>. DEFINE w == Bytes({c}, ok, FALSE)
<1>1. w.file = "part" /\ w.ok = ok /\ w.long = FALSE
  BY DEF Bytes
<1>2. late' = late \cup {w}
  BY DEF Receive
<1>. HIDE DEF w
<1>. QED  BY <1>1, <1>2

(* The whole body written from a chunk on: what has landed of it and what  *)
(* has not are writes.                                                     *)
LEMMA WholeType ==
  ASSUME TypeOK, NEW c \in Chunk, FetchWhole(c)
  PROVE  /\ part' \in File
         /\ \E w \in Write : /\ late' = late \cup {w}
                            /\ w.file = "part" /\ (w.long => ~w.ok)
<1>1. PICK k \in c .. NumChunks :
         /\ part' = Patch(part, Bytes(c .. k - 1, c = 0, FALSE))
         /\ late' = late \cup {Bytes(k .. NumChunks - 1, c = 0, c # 0)}
  BY DEF FetchWhole
<1>2. c .. k - 1 \in SUBSET Chunk /\ k .. NumChunks - 1 \in SUBSET Chunk
  BY DEF Chunk
<1>3. Bytes(c .. k - 1, c = 0, FALSE) \in Write
  BY <1>2, BytesType
<1>4. part' \in File
  BY <1>1, <1>3, PatchType DEF TypeOK
<1>. DEFINE w == Bytes(k .. NumChunks - 1, c = 0, c # 0)
<1>5. w \in Write /\ w.file = "part" /\ w.ok = (c = 0) /\ w.long = (c # 0)
  BY <1>2, BytesType
<1>6. late' = late \cup {w}
  BY <1>1
<1>. HIDE DEF w
<1>. QED  BY <1>4, <1>5, <1>6

LEMMA OverwriteType ==
  ASSUME TypeOK, NEW S \in SUBSET Chunk
  PROVE  Overwrite(S) \in Meta
<1>1. Cardinality(S) \in 0 .. NumChunks
  BY ChunkCount
<1>. QED
  BY <1>1 DEF TypeOK, Overwrite, Meta

LEMMA TypeStep == TypeInv /\ [Next]_vars => TypeInv'
<1>. SUFFICES ASSUME TypeOK, RetriesOK, [Next]_vars
              PROVE  TypeOK' /\ RetriesOK'
  BY DEF TypeInv
<1>. USE DEF TypeOK, RetriesOK, history
<1>1. CASE Start
  BY <1>1 DEF Start, disk, memory, NoReport
<1>2. CASE StartFails
  BY <1>2, FaultType DEF StartFails, disk, memory, NoReport
<1>3. CASE LoadState
  <2>1. /\ completed' \in SUBSET Chunk
        /\ task' \in [Chunk -> Running \cup {"todo", "skip", "done", "failed"}]
    BY <1>3 DEF LoadState, Meta
  <2>. QED  BY <1>3, <2>1 DEF LoadState, disk, Zeros
<1>4. CASE Presize
  BY <1>4 DEF Presize, memory, Fresh, File
<1>5. CASE AllSpawned
  BY <1>5 DEF AllSpawned, disk, memory
<1>6. CASE JoinFails
  <2>1. writers' \subseteq Writer
    BY <1>6, WriterType DEF JoinFails, Dropped
  <2>. QED  BY <1>6, <2>1, ForgetType DEF JoinFails
<1>7. CASE JoinSucceeds
  <2>1. writers' \subseteq Writer
    BY <1>7, Owners, WriterType DEF JoinSucceeds, JoinAny
  <2>. QED  BY <1>7, <2>1 DEF JoinSucceeds, JoinAny, memory
<1>8. CASE Verify
  BY <1>8, ForgetType DEF Verify, disk, memory
<1>9. CASE Rename
  <2>1. late' \subseteq Write
    BY <1>9 DEF Rename, Write
  <2>2. dest' \in File /\ part' \in File
    BY <1>9 DEF Rename, Absent, File
  <2>. QED  BY <1>9, <2>1, <2>2 DEF Rename, memory
<1>10. CASE Unlink
  <2>1. meta' \in Meta /\ writers' \subseteq Writer
    BY <1>10 DEF Unlink, NoMeta, Meta
  <2>2. faults' \in 0 .. MaxFaults
    BY <1>10, FaultType DEF Unlink
  <2>. QED  BY <1>10, <2>1, <2>2, ForgetType DEF Unlink
<1>11. ASSUME NEW c \in Chunk, Spawn(c)
       PROVE  TypeOK' /\ RetriesOK'
  BY <1>11 DEF Spawn, disk, Running
<1>12. ASSUME NEW c \in Chunk, FetchGood(c)
       PROVE  TypeOK' /\ RetriesOK'
  <2>2. late' \subseteq Write
    BY <1>12, ReceiveType DEF FetchGood
  <2>3. /\ task' \in [Chunk -> Running \cup {"todo", "skip", "done", "failed"}]
        /\ \A d \in Chunk : task'[d] \in {"todo", "fetch"} => task'[d] = task[d]
    BY <1>12 DEF FetchGood, Receive, Advance, Running
  <2>. QED  BY <1>12, <2>2, <2>3 DEF FetchGood, Receive
<1>13. ASSUME NEW c \in Chunk, FetchBad(c)
       PROVE  TypeOK' /\ RetriesOK'
  <2>2. late' \subseteq Write
    BY <1>13, ReceiveType DEF FetchBad
  <2>3. /\ task' \in [Chunk -> Running \cup {"todo", "skip", "done", "failed"}]
        /\ \A d \in Chunk : task'[d] \in {"todo", "fetch"} => task'[d] = task[d]
    BY <1>13 DEF FetchBad, Receive, Advance, Running
  <2>. QED  BY <1>13, <2>2, <2>3, FaultType DEF FetchBad, Receive
<1>14. ASSUME NEW c \in Chunk, Retry(c), part' \in File, late' \subseteq Write,
              faults' \in 0 .. MaxFaults
       PROVE  TypeOK' /\ RetriesOK'
  <2>1. retries' \in [Chunk -> 0 .. MaxRetries + 1]
    BY <1>14 DEF Retry
  <2>2. /\ task' \in [Chunk -> Running \cup {"todo", "skip", "done", "failed"}]
        /\ \A d \in Chunk : task'[d] \in {"todo", "fetch"} => retries'[d] <= MaxRetries
    BY <1>14 DEF Retry
  <2>. QED  BY <1>14, <2>1, <2>2 DEF Retry
<1>15. ASSUME NEW c \in Chunk, FetchFails(c)
       PROVE  TypeOK' /\ RetriesOK'
  BY <1>15, <1>14, FaultType DEF FetchFails
<1>16. ASSUME NEW c \in Chunk, FetchWhole(c)
       PROVE  TypeOK' /\ RetriesOK'
  <2>1. part' \in File /\ late' \subseteq Write
    BY <1>16, WholeType
  <2>. QED  BY <1>16, <1>14, <2>1, FaultType DEF FetchWhole
<1>17. ASSUME NEW c \in Chunk, Count(c)
       PROVE  TypeOK' /\ RetriesOK'
  BY <1>17 DEF Count, Advance, disk, Running
<1>18. ASSUME NEW c \in Chunk, PassGate(c)
       PROVE  TypeOK' /\ RetriesOK'
  <2>1. gate' \in 0 .. PersistEvery - 1
    BY <1>18 DEF PassGate
  <2>2. writers' \subseteq Writer
    BY <1>18, Owners, WriterType DEF PassGate
  <2>3. /\ task' \in [Chunk -> Running \cup {"todo", "skip", "done", "failed"}]
        /\ \A d \in Chunk : task'[d] \in {"todo", "fetch"} => task'[d] = task[d]
    BY <1>18 DEF PassGate, Advance, Running
  <2>. QED  BY <1>18, <2>1, <2>2, <2>3 DEF PassGate
<1>19. ASSUME NEW c \in Chunk, ReadCount(c)
       PROVE  TypeOK' /\ RetriesOK'
  <2>1. Cardinality(completed) \in 0 .. NumChunks
    BY ChunkCount
  <2>. QED  BY <1>19, <2>1 DEF ReadCount, Advance, disk, Running
<1>20. ASSUME NEW c \in Chunk, Deliver(c)
       PROVE  TypeOK' /\ RetriesOK'
  BY <1>20 DEF Deliver, Advance, disk, Running
<1>21. CASE Persist
  <2>1. PICK w \in writers : OpenMeta(w) \/ WriteMeta(w)
    BY <1>21 DEF Persist
  <2>2. CASE OpenMeta(w)
    <3>1. writers' \subseteq Writer
      BY <2>2, WriterType DEF OpenMeta
    <3>. QED  BY <2>2, <3>1 DEF OpenMeta, NoMeta, Meta, memory
  <2>3. CASE WriteMeta(w)
    <3>1. w.snap \in SUBSET Chunk
      BY DEF Writer
    <3>2. meta' \in Meta
      BY <2>3, <3>1, OverwriteType DEF WriteMeta
    <3>3. /\ task' \in [Chunk -> Running \cup {"todo", "skip", "done", "failed"}]
          /\ \A d \in Chunk : task'[d] \in {"todo", "fetch"} => task'[d] = task[d]
      BY <2>3 DEF WriteMeta, Running
    <3>. QED  BY <2>3, <3>2, <3>3 DEF WriteMeta
  <2>. QED  BY <2>1, <2>2, <2>3
<1>22. CASE LandOne
  <2>1. PICK w \in late : Land(w)
    BY <1>22 DEF LandOne
  <2>2. part' \in File /\ dest' \in File /\ late' \subseteq Write
    BY <2>1, PatchType DEF Land
  <2>3. strayed' \in BOOLEAN
    BY <2>1 DEF Land
  <2>. QED  BY <2>1, <2>2, <2>3 DEF Land, memory
<1>23. CASE Crash
  <2>1. lost' \subseteq Chunk
    BY <1>23 DEF Crash, Coming, Write
  <2>. QED  BY <1>23, <2>1, FaultType, ForgetType DEF Crash, NoReport
<1>24. CASE UNCHANGED vars
  BY <1>24 DEF vars, disk, memory
<1>. QED
  BY <1>1, <1>2, <1>3, <1>4, <1>5, <1>6, <1>7, <1>8, <1>9, <1>10, <1>11, <1>12, <1>13,
     <1>15, <1>16, <1>17, <1>18, <1>19, <1>20, <1>21, <1>22, <1>23, <1>24
  DEF Next, Attempt, ChunkTask, Done

(* Every reachable state has its type. *)
THEOREM TypeCorrect == Spec => []TypeOK
<1>1. TypeInv => TypeOK
  BY DEF TypeInv
<1>. QED  BY TypeInit, TypeStep, <1>1, PTL DEF Spec

-----------------------------------------------------------------------------
(* Chunk tasks run only while the attempt spawns or joins them, and the    *)
(* flush the attempt awaits is handed to the pool once, while it awaits.   *)
Quiet == \A c \in Chunk : task[c] \in Running => main \in {"spawn", "join"}

FlushOwner ==
  /\ \A w \in writers : w.by = Main => main = "flush"
  /\ \A v, w \in writers : v.by = Main /\ w.by = Main => v = w

Discipline == Quiet /\ FlushOwner

LEMMA DisciplineInit == Init => Discipline
BY DEF Init, Discipline, Quiet, FlushOwner, Resting, Running

LEMMA DisciplineStep == TypeInv /\ Discipline /\ [Next]_vars => Discipline'
<1>. SUFFICES ASSUME TypeOK, Quiet, FlushOwner, [Next]_vars
              PROVE  Quiet' /\ FlushOwner'
  BY DEF TypeInv, Discipline
<1>1. Quiet'
  <2>. USE DEF Quiet
  <2>1. CASE Forget
    BY <2>1, ForgetType DEF Running
  <2>2. CASE Start \/ StartFails \/ Presize \/ Rename
    BY <2>2 DEF Start, StartFails, Presize, Rename, memory, Running
  <2>3. CASE LoadState
    BY <2>3 DEF LoadState, Running
  <2>4. CASE AllSpawned
    BY <2>4 DEF AllSpawned, memory
  <2>5. CASE JoinSucceeds
    BY <2>5 DEF JoinSucceeds, JoinAny, memory, Running
  <2>6. CASE JoinFails \/ Unlink \/ Crash
    BY <2>6, <2>1 DEF JoinFails, Unlink, Crash
  <2>7. CASE Verify
    BY <2>7, <2>1 DEF Verify, memory
  <2>8. ASSUME NEW c \in Chunk, Spawn(c)
        PROVE  Quiet'
    BY <2>8 DEF Spawn, TypeOK
  <2>9. ASSUME NEW c \in Chunk, FetchGood(c) \/ FetchBad(c) \/ Count(c) \/ PassGate(c)
                                 \/ ReadCount(c) \/ Deliver(c)
        PROVE  Quiet'
    BY <2>9 DEF FetchGood, FetchBad, Receive, Count, PassGate, ReadCount, Deliver,
                Advance, Running, TypeOK
  <2>10. ASSUME NEW c \in Chunk, FetchFails(c) \/ FetchWhole(c)
         PROVE  Quiet'
    BY <2>10 DEF FetchFails, FetchWhole, Retry, Running, TypeOK
  <2>11. ASSUME NEW w \in writers, OpenMeta(w)
         PROVE  Quiet'
    BY <2>11 DEF OpenMeta, memory
  <2>12. ASSUME NEW w \in writers, WriteMeta(w)
         PROVE  Quiet'
    BY <2>12 DEF WriteMeta, FlushOwner, Running, TypeOK
  <2>13. ASSUME NEW w \in late, Land(w)
         PROVE  Quiet'
    BY <2>13 DEF Land, memory
  <2>14. CASE UNCHANGED vars
    BY <2>14 DEF vars, memory
  <2>. QED
    BY <2>2, <2>3, <2>4, <2>5, <2>6, <2>7, <2>8, <2>9, <2>10, <2>11, <2>12, <2>13, <2>14
    DEF Next, Attempt, ChunkTask, Persist, LandOne, Done
<1>2. FlushOwner'
  <2>. USE DEF FlushOwner
  <2>1. CASE Start \/ StartFails \/ LoadState \/ Presize \/ AllSpawned \/ Verify \/ Rename
    BY <2>1 DEF Start, StartFails, LoadState, Presize, AllSpawned, Verify, Rename, disk
  <2>2. CASE JoinFails
    <3>1. \A w \in writers' : w.by = Orphan
      BY <2>2 DEF JoinFails, Dropped, TypeOK, Writer
    <3>. QED  BY <3>1 DEF Main, Orphan
  <2>3. CASE JoinSucceeds
    BY <2>3 DEF JoinSucceeds, JoinAny
  <2>4. CASE Unlink \/ Crash
    BY <2>4 DEF Unlink, Crash
  <2>5. ASSUME NEW c \in Chunk, Spawn(c) \/ FetchGood(c) \/ FetchBad(c) \/ FetchFails(c)
                 \/ FetchWhole(c) \/ Count(c) \/ ReadCount(c) \/ Deliver(c)
        PROVE  FlushOwner'
    BY <2>5 DEF Spawn, FetchGood, FetchBad, FetchFails, FetchWhole, Retry, Receive, Count,
                ReadCount, Deliver, disk
  <2>6. ASSUME NEW c \in Chunk, PassGate(c)
        PROVE  FlushOwner'
    <3>1. c # Main
      BY DEF Chunk, Main
    <3>2. \A w \in writers' : w \in writers \/ w.by = c
      BY <2>6 DEF PassGate
    <3>. QED  BY <2>6, <3>1, <3>2 DEF PassGate
  <2>7. ASSUME NEW w \in writers, OpenMeta(w)
        PROVE  FlushOwner'
    <3>. DEFINE o == [w EXCEPT !.open = TRUE]
    <3>1. o.by = w.by
      BY DEF TypeOK, Writer
    <3>2. writers' = (writers \ {w}) \cup {o} /\ main' = main
      BY <2>7 DEF OpenMeta
    <3>. QED  BY <3>1, <3>2
  <2>8. ASSUME NEW w \in writers, WriteMeta(w)
        PROVE  FlushOwner'
    BY <2>8 DEF WriteMeta
  <2>9. ASSUME NEW w \in late, Land(w)
        PROVE  FlushOwner'
    BY <2>9 DEF Land
  <2>10. CASE UNCHANGED vars
    BY <2>10 DEF vars, disk
  <2>. QED
    BY <2>1, <2>2, <2>3, <2>4, <2>5, <2>6, <2>7, <2>8, <2>9, <2>10
    DEF Next, Attempt, ChunkTask, Persist, LandOne, Done
<1>. QED  BY <1>1, <1>2

-----------------------------------------------------------------------------
(* A download with a checksum: what the hash passed is whole, and only a   *)
(* wrong write that lands later can change it.                             *)
VerifiedInv ==
  /\ \A w \in late : w.file = "dest" => dest.there
  /\ main = "rename" => part.there
  /\ main = "unlink" => dest.there
  /\ ~strayed => /\ main = "rename" => part = Intact
                 /\ dest \in {Absent, Intact}

LEMMA PatchIntact ==
  ASSUME NEW w \in Write, w.ok, ~w.long
  PROVE  Patch(Intact, w) = Intact
<1>1. Chunk \cup w.chunks = Chunk
  BY DEF Write
<1>2. Patch(Intact, w) = [Intact EXCEPT !.good = Chunk, !.exact = TRUE]
  BY <1>1 DEF Patch, Intact
<1>. QED  BY <1>2 DEF Intact

(* A write that goes on past the end of the file is a wrong one.           *)
LongIsWrong == \A w \in late : w.long => ~w.ok

LEMMA LongStep ==
  ASSUME TypeInv, LongIsWrong, [Next]_vars
  PROVE  LongIsWrong'
<1>. USE DEF LongIsWrong
<1>1. ASSUME NEW c \in Chunk, FetchWhole(c)
      PROVE  LongIsWrong'
  BY <1>1, WholeType DEF TypeInv
<1>2. ASSUME NEW c \in Chunk, FetchGood(c) \/ FetchBad(c)
      PROVE  LongIsWrong'
  BY <1>2, ReceiveIs DEF FetchGood, FetchBad
<1>3. CASE Rename
  BY <1>3 DEF Rename, TypeInv, TypeOK, Write
<1>4. CASE Start \/ StartFails \/ LoadState \/ Presize \/ AllSpawned \/ JoinFails
           \/ JoinSucceeds \/ Verify \/ Unlink \/ Crash \/ UNCHANGED vars
  BY <1>4 DEF Start, StartFails, LoadState, Presize, AllSpawned, JoinFails, JoinSucceeds,
              JoinAny, Verify, Unlink, Crash, vars, disk
<1>5. ASSUME NEW c \in Chunk, Spawn(c) \/ FetchFails(c) \/ Count(c) \/ PassGate(c)
                               \/ ReadCount(c) \/ Deliver(c)
      PROVE  LongIsWrong'
  BY <1>5 DEF Spawn, FetchFails, Count, PassGate, ReadCount, Deliver, disk
<1>6. ASSUME NEW w \in writers, OpenMeta(w) \/ WriteMeta(w)
      PROVE  LongIsWrong'
  BY <1>6 DEF OpenMeta, WriteMeta
<1>7. ASSUME NEW w \in late, Land(w)
      PROVE  LongIsWrong'
  BY <1>7 DEF Land
<1>. QED
  BY <1>1, <1>2, <1>3, <1>4, <1>5, <1>6, <1>7
  DEF Next, Attempt, ChunkTask, Persist, LandOne, Done

LEMMA VerifiedInit == Init => LongIsWrong /\ VerifiedInv
BY DEF Init, LongIsWrong, VerifiedInv

LEMMA VerifiedStep ==
  ASSUME Checked, TypeInv, Discipline, LongIsWrong, VerifiedInv, [Next]_vars
  PROVE  VerifiedInv'
<1>. USE DEF VerifiedInv, history
<1>1. CASE Start \/ StartFails \/ LoadState \/ AllSpawned \/ JoinFails \/ JoinSucceeds
  BY <1>1 DEF Start, StartFails, LoadState, AllSpawned, JoinFails, JoinSucceeds, JoinAny, disk
<1>2. CASE Presize
  BY <1>2 DEF Presize
<1>3. CASE Verify
  BY <1>3 DEF Verify, disk, Intact
<1>4. CASE Rename
  BY <1>4 DEF Rename
<1>5. CASE Unlink
  BY <1>5 DEF Unlink
<1>6. ASSUME NEW c \in Chunk, Spawn(c) \/ Count(c) \/ PassGate(c) \/ ReadCount(c) \/ Deliver(c)
      PROVE  VerifiedInv'
  BY <1>6 DEF Spawn, Count, PassGate, ReadCount, Deliver, disk
<1>7. ASSUME NEW c \in Chunk, FetchGood(c) \/ FetchBad(c)
      PROVE  VerifiedInv'
  <2>1. main \in {"spawn", "join"}
    BY <1>7 DEF FetchGood, FetchBad, Receive, Advance, Discipline, Quiet, Running
  <2>2. \A w \in late' : w \in late \/ w.file = "part"
    BY <1>7, ReceiveIs DEF FetchGood, FetchBad
  <2>. QED  BY <1>7, <2>1, <2>2 DEF FetchGood, FetchBad, Receive
<1>8. ASSUME NEW c \in Chunk, FetchFails(c) \/ FetchWhole(c)
      PROVE  VerifiedInv'
  <2>1. main \in {"spawn", "join"}
    BY <1>8 DEF FetchFails, FetchWhole, Retry, Discipline, Quiet, Running
  <2>2. \A w \in late' : w \in late \/ w.file = "part"
    BY <1>8, WholeType DEF FetchFails, TypeInv
  <2>3. UNCHANGED <<main, dest, strayed>>
    BY <1>8 DEF FetchFails, FetchWhole, Retry
  <2>. QED  BY <2>1, <2>2, <2>3
<1>9. ASSUME NEW w \in writers, OpenMeta(w) \/ WriteMeta(w)
      PROVE  VerifiedInv'
  BY <1>9 DEF OpenMeta, WriteMeta
<1>10. ASSUME NEW w \in late, Land(w)
       PROVE  VerifiedInv'
  <2>1. w \in Write
    BY DEF TypeInv, TypeOK
  <2>2. part'.there = part.there /\ dest'.there = dest.there
    BY <1>10 DEF Land, Patch, TypeInv, TypeOK, File
  <2>3. main' = main /\ late' \subseteq late
    BY <1>10 DEF Land
  <2>. SUFFICES ASSUME ~strayed'
                PROVE  (main = "rename" => part' = Intact) /\ dest' \in {Absent, Intact}
    BY <2>2, <2>3
  <2>4. ~strayed /\ (w.file = "dest" \/ main = "rename" => w.ok /\ ~w.long)
    BY <1>10 DEF Land, LongIsWrong
  <2>5. CASE w.file = "part"
    BY <1>10, <2>1, <2>4, <2>5, PatchIntact DEF Land
  <2>6. CASE w.file = "dest"
    <3>1. dest = Intact
      BY <2>4, <2>6 DEF Absent
    <3>. QED  BY <1>10, <2>1, <2>4, <2>6, <3>1, PatchIntact DEF Land
  <2>. QED  BY <2>1, <2>5, <2>6 DEF Write
<1>11. CASE Crash
  BY <1>11 DEF Crash
<1>12. CASE UNCHANGED vars
  BY <1>12 DEF vars, disk
<1>. QED
  BY <1>1, <1>2, <1>3, <1>4, <1>5, <1>6, <1>7, <1>8, <1>9, <1>10, <1>11, <1>12
  DEF Next, Attempt, ChunkTask, Persist, LandOne, Done

(* With a checksum the destination is absent or whole in every reachable   *)
(* state, whatever kills, retries, stale claims and writes that never      *)
(* landed left in the temp file, until a wrong body that was still on its  *)
(* way when the hash was computed lands.                                   *)
THEOREM VerifiedDeliveryHolds == Spec => []VerifiedDelivery
<1>. DEFINE I == TypeInv /\ Discipline /\ LongIsWrong /\ VerifiedInv
<1>1. CASE Checked
  <2>1. Init => I
    BY TypeInit, DisciplineInit, VerifiedInit
  <2>2. I /\ [Next]_vars => I'
    BY <1>1, TypeStep, DisciplineStep, LongStep, VerifiedStep
  <2>3. I => VerifiedDelivery
    BY DEF VerifiedInv, VerifiedDelivery
  <2>. QED  BY <2>1, <2>2, <2>3, PTL DEF Spec
<1>2. CASE ~Checked
  <2>1. VerifiedDelivery
    BY <1>2 DEF VerifiedDelivery
  <2>. QED  BY <2>1, PTL
<1>. QED  BY <1>1, <1>2

(* Every step of a checksummed download is a step of the promise or leaves *)
(* it as it was.                                                           *)
LEMMA PromiseStep ==
  ASSUME Checked, TypeInv, Discipline, LongIsWrong, VerifiedInv, VerifiedInv', [Next]_vars
  PROVE  [Promise!Next]_(Promise!vars)
<1>. USE DEF Promise!vars, history
<1>1. CASE Start
  BY <1>1 DEF Start, disk, Promise!Next, Promise!Ask
<1>2. CASE StartFails
  BY <1>2 DEF StartFails, disk, Promise!Next, Promise!Refuse
<1>3. CASE LoadState \/ Presize \/ AllSpawned \/ JoinSucceeds
  BY <1>3 DEF LoadState, Presize, AllSpawned, JoinSucceeds, JoinAny, disk
<1>4. CASE JoinFails
  BY <1>4 DEF JoinFails, Promise!Next, Promise!Fail
<1>5. CASE Verify
  BY <1>5 DEF Verify, disk, Promise!Next, Promise!Fail
<1>6. CASE Rename
  <2>1. dest'.there /\ (strayed' \/ dest' = Intact)
    BY <1>6 DEF Rename, VerifiedInv
  <2>. QED  BY <1>6, <2>1 DEF Rename, Promise!Next, Promise!Publish
<1>7. CASE Unlink
  <2>1. dest.there /\ (strayed \/ dest = Intact)
    BY <1>7 DEF Unlink, VerifiedInv, Absent
  <2>. QED  BY <1>7, <2>1 DEF Unlink, Promise!Next, Promise!Succeed
<1>8. ASSUME NEW c \in Chunk, ChunkTask(c)
      PROVE  UNCHANGED Promise!vars
  <2>1. UNCHANGED <<main, result, dest, strayed>>
    BY <1>8 DEF ChunkTask, Spawn, FetchGood, FetchBad, FetchFails, FetchWhole, Receive, Retry,
                Count, PassGate, ReadCount, Deliver, disk
  <2>. QED  BY <2>1
<1>9. ASSUME NEW w \in writers, OpenMeta(w) \/ WriteMeta(w)
      PROVE  UNCHANGED Promise!vars
  BY <1>9 DEF OpenMeta, WriteMeta, Discipline, FlushOwner
<1>10. ASSUME NEW w \in late, Land(w)
       PROVE  UNCHANGED Promise!vars
  <2>1. dest'.there = dest.there
    BY <1>10 DEF Land, Patch, TypeInv, TypeOK, File
  <2>2. /\ dest.there => strayed \/ dest = Intact
        /\ dest'.there => strayed' \/ dest' = Intact
    BY DEF VerifiedInv, Absent
  <2>3. UNCHANGED <<main, result>>
    BY <1>10 DEF Land
  <2>. QED  BY <2>1, <2>2, <2>3
<1>11. CASE Crash
  BY <1>11 DEF Crash, Promise!Next, Promise!Fail
<1>12. CASE UNCHANGED vars
  BY <1>12 DEF vars, disk
<1>. QED
  BY <1>1, <1>2, <1>3, <1>4, <1>5, <1>6, <1>7, <1>8, <1>9, <1>10, <1>11, <1>12
  DEF Next, Attempt, Persist, LandOne, Done

(* A checksummed download implements FileDelivery: the destination goes    *)
(* from absent to whole, "ok" is answered only once a whole file is there, *)
(* and it never goes back, but for what a stray write does to it.          *)
THEOREM KeepsPromiseHolds ==
  ASSUME Checked
  PROVE  Spec => KeepsPromise
<1>. DEFINE I == TypeInv /\ Discipline /\ LongIsWrong /\ VerifiedInv
<1>1. Init => I
  BY TypeInit, DisciplineInit, VerifiedInit
<1>2. I /\ [Next]_vars => I'
  BY TypeStep, DisciplineStep, LongStep, VerifiedStep
<1>3. Init => Promise!Init
  BY DEF Init, Promise!Init, Absent
<1>4. I /\ I' /\ [Next]_vars => [Promise!Next]_(Promise!vars)
  BY PromiseStep
<1>. QED  BY <1>1, <1>2, <1>3, <1>4, PTL DEF Spec, KeepsPromise, Promise!Spec

-----------------------------------------------------------------------------
(* Resuming.  Bodies are right and land in their own range: the server     *)
(* sends what it was asked for or fails.                                   *)
ResumeSetting == Faults \cap {"badbytes", "fullbody"} = {}

Past == {"skip", "counted", "persist", "report", "deliver", "done"}

(* The .part file and the writes under way: a file that has been pre-sized *)
(* keeps its length, and a write is good and has a file to reach.          *)
FilesInv ==
  /\ part.there => part.exact
  /\ ~part.there => part.good = {}
  /\ main \in {"spawn", "join", "flush", "verify", "rename"} => part.there
  /\ \A w \in late : /\ w.ok /\ ~w.long
                     /\ w.file = "part" => part.there
                     /\ w.file = "dest" => dest.there

ResumeInv ==
  /\ FilesInv
  /\ ResumeSound
  /\ ~dest.there => \A c \in Chunk : task[c] = "fetched" => c \in Accounted

LEMMA ResumeInit == Init => ResumeInv
BY DEF Init, ResumeInv, FilesInv, ResumeSound, Accounted, Coming, Absent, NoMeta, Resting

(* A write that lands passes its chunks from those on their way to those   *)
(* of the file.                                                            *)
LEMMA LandKeeps ==
  ASSUME TypeInv, FilesInv, NEW w \in late, Land(w)
  PROVE  /\ w.file = "part" => /\ part' = [part EXCEPT !.good = @ \cup w.chunks]
                               /\ dest' = dest
         /\ w.file = "dest" => part' = part /\ dest'.there = dest.there
         /\ Coming("part") \subseteq Coming("part")' \cup part'.good
         /\ part.good \subseteq part'.good
<1>1. w \in Write /\ w.ok /\ ~w.long
  BY DEF TypeInv, TypeOK, FilesInv
<1>2. part.exact \in BOOLEAN /\ part \in File /\ dest \in File
  BY DEF TypeInv, TypeOK, File
<1>3. CASE w.file = "part"
  <2>1. part' = Patch(part, w) /\ dest' = dest /\ late' = late \ {w}
    BY <1>3, Land(w) DEF Land
  <2>2. (part.exact /\ ~w.long) = part.exact
    BY <1>1, <1>2
  <2>3. part' = [part EXCEPT !.good = @ \cup w.chunks]
    BY <1>1, <1>2, <2>1, <2>2 DEF Patch, File
  <2>4. part'.good = part.good \cup w.chunks
    BY <1>2, <2>3 DEF File
  <2>. QED  BY <1>3, <2>1, <2>3, <2>4 DEF Coming
<1>4. CASE w.file = "dest"
  <2>1. part' = part /\ dest' = Patch(dest, w) /\ late' = late \ {w}
    BY <1>4, Land(w) DEF Land
  <2>2. dest'.there = dest.there
    BY <1>2, <2>1 DEF Patch, File
  <2>. QED  BY <1>4, <2>1, <2>2 DEF Coming
<1>. QED  BY <1>1, <1>3, <1>4 DEF Write

(* While the destination has not appeared, no step loses a chunk that is   *)
(* accounted for.                                                          *)
LEMMA AccountedGrows ==
  ASSUME ResumeSetting, TypeInv, Discipline, ResumeInv, [Next]_vars, ~dest'.there
  PROVE  ~dest.there /\ Accounted \subseteq Accounted'
<1>. USE DEF ResumeInv, FilesInv, history
<1>1. CASE Start \/ StartFails \/ LoadState \/ AllSpawned \/ JoinFails \/ JoinSucceeds
           \/ Verify \/ Unlink
  BY <1>1 DEF Start, StartFails, LoadState, AllSpawned, JoinFails, JoinSucceeds, JoinAny, Verify,
              Unlink, disk, Accounted, Coming
<1>2. CASE Presize
  BY <1>2 DEF Presize, Fresh, Accounted, Coming
<1>3. CASE Rename
  BY <1>3 DEF Rename
<1>4. ASSUME NEW c \in Chunk, Spawn(c) \/ FetchFails(c) \/ Count(c) \/ PassGate(c)
                               \/ ReadCount(c) \/ Deliver(c)
      PROVE  ~dest.there /\ Accounted \subseteq Accounted'
  BY <1>4 DEF Spawn, FetchFails, Retry, Count, PassGate, ReadCount, Deliver, disk, Accounted,
              Coming
<1>5. ASSUME NEW c \in Chunk, FetchGood(c)
      PROVE  ~dest.there /\ Accounted \subseteq Accounted'
  <2>1. late \subseteq late' /\ UNCHANGED <<part, dest, lost>>
    BY <1>5 DEF FetchGood, Receive
  <2>2. Coming("part") \subseteq Coming("part")'
    BY <2>1 DEF Coming
  <2>. QED  BY <2>1, <2>2 DEF Accounted
<1>6. ASSUME NEW c \in Chunk, FetchBad(c) \/ FetchWhole(c)
      PROVE  FALSE
  BY <1>6 DEF FetchBad, FetchWhole, Fault, ResumeSetting
<1>7. ASSUME NEW w \in writers, OpenMeta(w) \/ WriteMeta(w)
      PROVE  ~dest.there /\ Accounted \subseteq Accounted'
  BY <1>7 DEF OpenMeta, WriteMeta, Accounted, Coming
<1>8. ASSUME NEW w \in late, Land(w)
      PROVE  ~dest.there /\ Accounted \subseteq Accounted'
  <2>1. w.file \in {"part", "dest"} /\ lost' = lost
    BY <1>8 DEF Land, TypeInv, TypeOK, Write
  <2>. QED  BY <1>8, <2>1, LandKeeps DEF Accounted
<1>9. CASE Crash
  <2>1. /\ part' = part /\ dest' = dest
        /\ Coming("part") \subseteq lost' /\ lost \subseteq lost'
    BY <1>9 DEF Crash
  <2>. QED  BY <2>1 DEF Accounted
<1>10. CASE UNCHANGED vars
  BY <1>10 DEF vars, disk, Accounted, Coming
<1>. QED
  BY <1>1, <1>2, <1>3, <1>4, <1>5, <1>6, <1>7, <1>8, <1>9, <1>10
  DEF Next, Attempt, ChunkTask, Persist, LandOne, Done

LEMMA FilesStep ==
  ASSUME ResumeSetting, TypeInv, Discipline, FilesInv, [Next]_vars
  PROVE  FilesInv'
<1>. USE DEF FilesInv
<1>1. CASE Start \/ StartFails \/ LoadState \/ AllSpawned \/ JoinFails \/ JoinSucceeds
           \/ Verify \/ Unlink
  BY <1>1 DEF Start, StartFails, LoadState, AllSpawned, JoinFails, JoinSucceeds, JoinAny, Verify,
              Unlink, disk
<1>2. CASE Presize
  BY <1>2 DEF Presize, Fresh
<1>3. CASE Rename
  <2>1. \A w \in late' : w.ok /\ ~w.long /\ w.file = "dest"
    BY <1>3 DEF Rename, TypeInv, TypeOK, Write
  <2>. QED  BY <1>3, <2>1 DEF Rename, Absent
<1>4. ASSUME NEW c \in Chunk, Spawn(c) \/ FetchFails(c) \/ Count(c) \/ PassGate(c)
                               \/ ReadCount(c) \/ Deliver(c)
      PROVE  FilesInv'
  BY <1>4 DEF Spawn, FetchFails, Retry, Count, PassGate, ReadCount, Deliver, disk
<1>5. ASSUME NEW c \in Chunk, FetchGood(c)
      PROVE  FilesInv'
  <2>1. main \in {"spawn", "join"} /\ UNCHANGED <<main, part, dest>>
    BY <1>5 DEF FetchGood, Receive, Advance, Discipline, Quiet, Running
  <2>2. \A w \in late' : w \in late \/ (w.ok /\ ~w.long /\ w.file = "part")
    BY <1>5, ReceiveIs DEF FetchGood
  <2>. QED  BY <2>1, <2>2
<1>6. ASSUME NEW c \in Chunk, FetchBad(c) \/ FetchWhole(c)
      PROVE  FALSE
  BY <1>6 DEF FetchBad, FetchWhole, Fault, ResumeSetting
<1>7. ASSUME NEW w \in writers, OpenMeta(w) \/ WriteMeta(w)
      PROVE  FilesInv'
  BY <1>7 DEF OpenMeta, WriteMeta, Discipline, FlushOwner
<1>8. ASSUME NEW w \in late, Land(w)
      PROVE  FilesInv'
  <2>1. w.file \in {"part", "dest"} /\ main' = main /\ late' \subseteq late
    BY <1>8 DEF Land, TypeInv, TypeOK, Write
  <2>2. CASE w.file = "part"
    <3>1. part' = [part EXCEPT !.good = @ \cup w.chunks] /\ part.there
      BY <1>8, <2>2, LandKeeps
    <3>2. part'.there /\ part'.exact
      BY <3>1 DEF TypeInv, TypeOK, File
    <3>. QED  BY <1>8, <2>1, <2>2, <3>2, LandKeeps
  <2>3. CASE w.file = "dest"
    BY <1>8, <2>1, <2>3, LandKeeps
  <2>. QED  BY <2>1, <2>2, <2>3
<1>9. CASE Crash
  BY <1>9 DEF Crash
<1>10. CASE UNCHANGED vars
  BY <1>10 DEF vars, disk
<1>. QED
  BY <1>1, <1>2, <1>3, <1>4, <1>5, <1>6, <1>7, <1>8, <1>9, <1>10
  DEF Next, Attempt, ChunkTask, Persist, LandOne, Done

LEMMA ResumeStep ==
  ASSUME ResumeSetting, TypeInv, Discipline, ResumeInv, [Next]_vars
  PROVE  ResumeInv'
<1>1. FilesInv'
  BY FilesStep DEF ResumeInv
<1>. SUFFICES ASSUME ~dest'.there
              PROVE  /\ ResumeSound'
                     /\ \A c \in Chunk : task'[c] = "fetched" => c \in Accounted'
  BY <1>1 DEF ResumeInv, ResumeSound
<1>2. ~dest.there /\ Accounted \subseteq Accounted'
  BY AccountedGrows
<1>. DEFINE A == Accounted'
            Sound  == /\ meta'.claims \subseteq A /\ completed' \subseteq A
                      /\ \A w \in writers' : w.snap \subseteq A
            Landed == \A c \in Chunk : task'[c] = "fetched" => c \in A
<1>. SUFFICES Sound /\ Landed
  BY DEF ResumeSound
<1>3. /\ meta.claims \subseteq A /\ completed \subseteq A
      /\ \A w \in writers : w.snap \subseteq A
      /\ \A c \in Chunk : task[c] = "fetched" => c \in A
  BY <1>2 DEF ResumeInv, ResumeSound
<1>. HIDE DEF A
<1>4. CASE Start \/ StartFails \/ Presize \/ AllSpawned \/ Rename
  BY <1>3, <1>4 DEF Start, StartFails, Presize, AllSpawned, Rename, disk, memory
<1>5. CASE LoadState
  BY <1>3, <1>5 DEF LoadState, disk
<1>6. CASE JoinFails
  <2>1. \A w \in writers' : \E v \in writers : w.snap = v.snap
    BY <1>6 DEF JoinFails, Dropped, TypeInv, TypeOK, Writer
  <2>. QED  BY <1>3, <1>6, <2>1, ForgetType DEF JoinFails
<1>7. CASE JoinSucceeds
  BY <1>3, <1>7 DEF JoinSucceeds, JoinAny, memory
<1>8. CASE Verify
  BY <1>3, <1>8, ForgetType DEF Verify, disk, memory
<1>9. CASE Unlink
  BY <1>3, <1>9, ForgetType DEF Unlink, NoMeta
<1>10. ASSUME NEW c \in Chunk, Spawn(c) \/ FetchFails(c) \/ ReadCount(c) \/ Deliver(c)
       PROVE  Sound /\ Landed
  BY <1>3, <1>10 DEF Spawn, FetchFails, Retry, ReadCount, Deliver, Advance, disk,
                     TypeInv, TypeOK, Running
<1>11. ASSUME NEW c \in Chunk, Count(c)
       PROVE  Sound /\ Landed
  BY <1>3, <1>11 DEF Count, Advance, disk, TypeInv, TypeOK
<1>12. ASSUME NEW c \in Chunk, PassGate(c)
       PROVE  Sound /\ Landed
  <2>1. /\ meta' = meta /\ completed' = completed
        /\ \A w \in writers' : w \in writers \/ w.snap = completed
        /\ \A d \in Chunk : task'[d] = "fetched" => task[d] = "fetched"
    BY <1>12 DEF PassGate, Advance, TypeInv, TypeOK
  <2>. QED  BY <1>3, <2>1
<1>13. ASSUME NEW c \in Chunk, FetchGood(c)
       PROVE  Sound /\ Landed
  <2>1. c \in A
    <3>. DEFINE w == Bytes({c}, TRUE, FALSE)
    <3>1. w.file = "part" /\ w.ok /\ w.chunks = {c}
      BY BytesType
    <3>2. w \in late'
      BY <1>13 DEF FetchGood, Receive
    <3>. HIDE DEF w
    <3>. QED  BY <3>1, <3>2 DEF A, Accounted, Coming
  <2>2. /\ meta' = meta /\ completed' = completed /\ writers' = writers
        /\ \A d \in Chunk \ {c} : task'[d] = task[d]
    BY <1>13 DEF FetchGood, Receive, Advance, TypeInv, TypeOK
  <2>. QED  BY <1>3, <2>1, <2>2
<1>14. ASSUME NEW c \in Chunk, FetchBad(c) \/ FetchWhole(c)
       PROVE  FALSE
  BY <1>14 DEF FetchBad, FetchWhole, Fault, ResumeSetting
<1>15. ASSUME NEW w \in writers, OpenMeta(w)
       PROVE  Sound /\ Landed
  <2>1. [w EXCEPT !.open = TRUE].snap = w.snap
    BY DEF TypeInv, TypeOK, Writer
  <2>. QED  BY <1>3, <1>15, <2>1 DEF OpenMeta, NoMeta, memory
<1>16. ASSUME NEW w \in writers, WriteMeta(w)
       PROVE  Sound /\ Landed
  <2>1. meta'.claims \in {w.snap, {}}
    BY <1>16 DEF WriteMeta, Overwrite
  <2>2. /\ completed' = completed /\ writers' \subseteq writers
        /\ \A d \in Chunk : task'[d] = "fetched" => task[d] = "fetched"
    BY <1>16 DEF WriteMeta
  <2>. QED  BY <1>3, <2>1, <2>2
<1>17. ASSUME NEW w \in late, Land(w)
       PROVE  Sound /\ Landed
  BY <1>3, <1>17 DEF Land, memory
<1>18. CASE Crash
  BY <1>3, <1>18, ForgetType DEF Crash
<1>19. CASE UNCHANGED vars
  BY <1>3, <1>19 DEF vars, disk, memory
<1>. QED
  BY <1>4, <1>5, <1>6, <1>7, <1>8, <1>9, <1>10, <1>11, <1>12, <1>13, <1>14, <1>15, <1>16,
     <1>17, <1>18, <1>19
  DEF Next, Attempt, ChunkTask, Persist, LandOne, Done

(* Until the destination appears, a crash or a failure at any point leaves *)
(* a resume state that claims only chunks whose bytes the file has, or     *)
(* awaits, or lost to a kill.                                              *)
THEOREM ResumeSoundHolds ==
  ASSUME ResumeSetting
  PROVE  Spec => []ResumeSound
<1>1. Init => TypeInv /\ Discipline /\ ResumeInv
  BY TypeInit, DisciplineInit, ResumeInit
<1>2. TypeInv /\ Discipline /\ ResumeInv /\ [Next]_vars
        => (TypeInv /\ Discipline /\ ResumeInv)'
  BY TypeStep, DisciplineStep, ResumeStep
<1>3. ResumeInv => ResumeSound
  BY DEF ResumeInv
<1>. QED  BY <1>1, <1>2, <1>3, PTL DEF Spec

(* A task past its count has its chunk in the completed set, and the       *)
(* attempt goes on to the flush only with every chunk there.               *)
CountInv ==
  /\ \A c \in Chunk : task[c] \in Past => c \in completed
  /\ main \in {"flush", "verify", "rename"} => completed = Chunk

LEMMA CountStep ==
  ASSUME TypeInv, Discipline, CountInv, [Next]_vars
  PROVE  CountInv'
<1>. USE DEF CountInv, TypeInv, TypeOK
<1>1. CASE Forget /\ main' = "idle"
  BY <1>1, ForgetType DEF Past
<1>2. CASE Start \/ StartFails \/ Presize \/ AllSpawned \/ Rename
  BY <1>2 DEF Start, StartFails, Presize, AllSpawned, Rename, memory
<1>3. CASE LoadState
  BY <1>3 DEF LoadState, Past
<1>4. CASE JoinFails \/ Unlink \/ Crash
  BY <1>1, <1>4 DEF JoinFails, Unlink, Crash
<1>5. CASE JoinSucceeds
  <2>1. \A c \in Chunk : task[c] \in Past
    BY <1>5 DEF JoinSucceeds, JoinAny, Past
  <2>2. UNCHANGED <<task, completed>>
    BY <1>5 DEF JoinSucceeds, JoinAny, memory
  <2>3. completed = Chunk
    BY <2>1
  <2>. QED  BY <2>2, <2>3
<1>6. CASE Verify
  BY <1>1, <1>6 DEF Verify, memory
<1>7. ASSUME NEW c \in Chunk,
             Spawn(c) \/ FetchGood(c) \/ FetchBad(c) \/ FetchFails(c) \/ FetchWhole(c)
      PROVE  CountInv'
  <2>1. /\ main' = main /\ completed' = completed
        /\ \A d \in Chunk : task'[d] \in Past => task[d] \in Past
    BY <1>7 DEF Spawn, FetchGood, FetchBad, FetchFails, FetchWhole, Receive, Retry, Advance, Past
  <2>. QED  BY <2>1
<1>8. ASSUME NEW c \in Chunk, Count(c)
      PROVE  CountInv'
  BY <1>8 DEF Count, Advance
<1>9. ASSUME NEW c \in Chunk, PassGate(c) \/ ReadCount(c) \/ Deliver(c)
      PROVE  CountInv'
  <2>1. /\ main' = main /\ completed' = completed
        /\ \A d \in Chunk : task'[d] \in Past => task[d] \in Past
    BY <1>9 DEF PassGate, ReadCount, Deliver, Advance, Past
  <2>. QED  BY <2>1
<1>10. ASSUME NEW w \in writers, OpenMeta(w)
       PROVE  CountInv'
  BY <1>10 DEF OpenMeta, memory
<1>11. ASSUME NEW w \in writers, WriteMeta(w)
       PROVE  CountInv'
  <2>1. /\ completed' = completed
        /\ \A d \in Chunk : task'[d] \in Past => task[d] \in Past
    BY <1>11 DEF WriteMeta, Past
  <2>2. main' \in {"flush", "verify", "rename"} => main \in {"flush", "verify", "rename"}
    BY <1>11 DEF WriteMeta, Discipline, FlushOwner
  <2>. QED  BY <2>1, <2>2
<1>12. ASSUME NEW w \in late, Land(w)
       PROVE  CountInv'
  BY <1>12 DEF Land, memory
<1>13. CASE UNCHANGED vars
  BY <1>13 DEF vars, memory
<1>. QED
  BY <1>2, <1>3, <1>4, <1>5, <1>6, <1>7, <1>8, <1>9, <1>10, <1>11, <1>12, <1>13
  DEF Next, Attempt, ChunkTask, Persist, LandOne, Done

(* Only the rename brings a file to a destination that is absent, and with *)
(* every chunk counted the file it brings is complete.                     *)
LEMMA FirstDeliveryStep ==
  ASSUME ResumeSetting, TypeInv, Discipline, ResumeInv, CountInv, [Next]_vars,
         dest = Absent, dest' # Absent
  PROVE  dest'.exact /\ dest'.good \cup Coming("dest")' \cup lost' = Chunk
<1>. USE DEF history
<1>1. CASE Rename
  <2>1. Chunk \subseteq part.good \cup Coming("part") \cup lost
    BY <1>1 DEF Rename, CountInv, ResumeInv, ResumeSound, Accounted, Absent
  <2>2. dest' = part /\ lost' = lost /\ part.exact
    BY <1>1 DEF Rename, ResumeInv, FilesInv
  <2>3. Coming("part") \subseteq Coming("dest")'
    <3>1. ASSUME NEW w \in late, w.file = "part", w.ok
          PROVE  \E v \in late' : v.file = "dest" /\ v.ok /\ v.chunks = w.chunks
      <4>1. [w EXCEPT !.file = "dest"] \in late'
        BY <1>1, <3>1 DEF Rename
      <4>2. w \in Write
        BY DEF TypeInv, TypeOK
      <4>. QED  BY <3>1, <4>1, <4>2 DEF Write
    <3>. QED  BY <3>1 DEF Coming
  <2>4. part.good \subseteq Chunk /\ lost \subseteq Chunk
    BY DEF TypeInv, TypeOK, File
  <2>5. Coming("dest")' \subseteq Chunk
    <3>1. late' \subseteq Write
      BY TypeStep DEF TypeInv, TypeOK
    <3>. QED  BY <3>1 DEF Coming, Write
  <2>. QED  BY <2>1, <2>2, <2>3, <2>4, <2>5
<1>2. CASE Start \/ StartFails \/ LoadState \/ Presize \/ AllSpawned \/ JoinFails
           \/ JoinSucceeds \/ Verify \/ Unlink \/ Crash \/ UNCHANGED vars
  BY <1>2 DEF Start, StartFails, LoadState, Presize, AllSpawned, JoinFails, JoinSucceeds, JoinAny,
              Verify, Unlink, Crash, vars, disk
<1>3. ASSUME NEW c \in Chunk, ChunkTask(c)
      PROVE  dest' = dest
  BY <1>3 DEF ChunkTask, Spawn, FetchGood, FetchBad, FetchFails, FetchWhole, Receive, Retry,
              Count, PassGate, ReadCount, Deliver, disk
<1>4. ASSUME NEW w \in writers, OpenMeta(w) \/ WriteMeta(w)
      PROVE  dest' = dest
  BY <1>4 DEF OpenMeta, WriteMeta
<1>5. ASSUME NEW w \in late, Land(w)
      PROVE  dest' = dest
  <2>1. w.file = "part"
    BY DEF ResumeInv, FilesInv, Absent, TypeInv, TypeOK, Write
  <2>. QED  BY <1>5, <2>1 DEF Land
<1>. QED
  BY <1>1, <1>2, <1>3, <1>4, <1>5 DEF Next, Attempt, Persist, LandOne, Done

(* The first file that appears on a destination is complete, without any   *)
(* checksum, after any number of failed and killed attempts: what it lacks *)
(* is on its way to it, or was on its way when the process was killed.     *)
THEOREM FirstDeliveryCompleteHolds ==
  ASSUME ResumeSetting
  PROVE  Spec => FirstDeliveryComplete
<1>. DEFINE I == TypeInv /\ Discipline /\ ResumeInv /\ CountInv
<1>1. Init => I
  <2>1. Init => CountInv
    BY DEF Init, CountInv, Resting, Past
  <2>. QED  BY <2>1, TypeInit, DisciplineInit, ResumeInit
<1>2. I /\ [Next]_vars => I'
  BY TypeStep, DisciplineStep, ResumeStep, CountStep
<1>3. I /\ [Next]_vars
        => [dest = Absent /\ dest' # Absent
              => dest'.exact /\ dest'.good \cup Coming("dest")' \cup lost' = Chunk]_vars
  BY FirstDeliveryStep
<1>. QED  BY <1>1, <1>2, <1>3, PTL DEF Spec, FirstDeliveryComplete

-----------------------------------------------------------------------------
(* The report of the end comes after every chunk report of its attempt.    *)
LastInv == shown.finished => main = "idle"

LEMMA LastStep ==
  ASSUME TypeInv, Discipline, LastInv, [Next]_vars
  PROVE  LastInv' /\ (shown.finished => shown' = shown \/ shown' = NoReport)
<1>. USE DEF LastInv, NoReport
<1>1. CASE Start \/ StartFails
  BY <1>1 DEF Start, StartFails
<1>2. CASE LoadState \/ Presize \/ AllSpawned \/ JoinFails \/ JoinSucceeds \/ Verify
           \/ Rename
  BY <1>2 DEF LoadState, Presize, AllSpawned, JoinFails, JoinSucceeds, JoinAny, Verify, Rename
<1>3. CASE Unlink
  BY <1>3 DEF Unlink
<1>4. ASSUME NEW c \in Chunk, Deliver(c)
      PROVE  LastInv' /\ ~shown.finished
  <2>1. main \in {"spawn", "join"}
    BY <1>4 DEF Deliver, Advance, Discipline, Quiet, Running
  <2>. QED  BY <1>4, <2>1 DEF Deliver
<1>5. ASSUME NEW c \in Chunk,
             Spawn(c) \/ FetchGood(c) \/ FetchBad(c) \/ FetchFails(c) \/ FetchWhole(c)
             \/ Count(c) \/ PassGate(c) \/ ReadCount(c)
      PROVE  main' = main /\ shown' = shown
  BY <1>5 DEF Spawn, FetchGood, FetchBad, FetchFails, FetchWhole, Receive, Retry, Count,
              PassGate, ReadCount
<1>6. ASSUME NEW w \in writers, OpenMeta(w) \/ WriteMeta(w)
      PROVE  shown' = shown /\ (main = "idle" => main' = "idle")
  BY <1>6 DEF OpenMeta, WriteMeta, Discipline, FlushOwner
<1>7. ASSUME NEW w \in late, Land(w)
      PROVE  main' = main /\ shown' = shown
  BY <1>7 DEF Land
<1>8. CASE Crash
  BY <1>8 DEF Crash
<1>9. CASE UNCHANGED vars
  BY <1>9 DEF vars
<1>. QED
  BY <1>1, <1>2, <1>3, <1>4, <1>5, <1>6, <1>7, <1>8, <1>9
  DEF Next, Attempt, ChunkTask, Persist, LandOne, Done

(* No chunk report overtakes the report that an attempt has finished.      *)
THEOREM FinishedIsLastHolds == Spec => FinishedIsLast
<1>. DEFINE I == TypeInv /\ Discipline /\ LastInv
<1>1. Init => I
  BY TypeInit, DisciplineInit DEF Init, LastInv, NoReport
<1>2. I /\ [Next]_vars => I'
  BY TypeStep, DisciplineStep, LastStep
<1>3. I /\ [Next]_vars => [shown.finished => shown' = shown \/ shown' = NoReport]_vars
  BY LastStep
<1>. QED  BY <1>1, <1>2, <1>3, PTL DEF Spec, FinishedIsLast

HIDE DownloadAssumption

-----------------------------------------------------------------------------
(* Sequences of things with an id, as the picker, the editor and the list  *)
(* of instances keep them.                                                 *)

Elements(s) == {s[i] : i \in DOMAIN s}
IdsIn(s) == {s[i].id : i \in DOMAIN s}
OneEach(s) == \A i, j \in DOMAIN s : s[i].id = s[j].id => i = j
But(s, id) == Subsequence(s, {i \in DOMAIN s : s[i].id # id})

LEMMA SequenceOf ==
  ASSUME NEW v, IsSequence(v), NEW W, \A i \in DOMAIN v : v[i] \in W
  PROVE  v \in Seq(W)
  <1>1. Len(v) \in Nat /\ v = [i \in 1 .. Len(v) |-> v[i]]
    BY DEF IsSequence
  <1>2. v \in [1 .. Len(v) -> W]
    BY <1>1
  <1> QED BY <1>1, <1>2

LEMMA SeqWiden ==
  ASSUME NEW S, NEW v \in Seq(S), NEW W, \A i \in DOMAIN v : v[i] \in W
  PROVE  v \in Seq(W)
  <1>1. DOMAIN v = 1 .. Len(v) /\ Len(v) \in Nat
    BY Indices
  <1>2. v \in [1 .. Len(v) -> S]
    OBVIOUS
  <1>3. v \in [1 .. Len(v) -> W]
    BY <1>1, <1>2
  <1> QED BY <1>1, <1>3

(* What is left without an id is all the rest.                             *)
LEMMA ButKeeps ==
  ASSUME NEW S, NEW s \in Seq(S), NEW id
  PROVE  /\ But(s, id) \in Seq(S)
         /\ \A x : x \in Elements(But(s, id)) <=> x \in Elements(s) /\ x.id # id
         /\ IdsIn(But(s, id)) = IdsIn(s) \ {id}
         /\ OneEach(s) => OneEach(But(s, id))
  <1> DEFINE I == {i \in DOMAIN s : s[i].id # id}
             r == Subsequence(s, I)
  <1>1. DOMAIN s = 1 .. Len(s) /\ Len(s) \in Nat
    BY Indices
  <1>2. I \in SUBSET (1 .. Len(s))
    BY <1>1
  <1>3. r \in Seq(S) /\ \E e : Picks(e, r, s, I)
    <2> HIDE DEF I
    <2> QED BY <1>2, SubsequencePicks
  <1>4. DOMAIN r = 1 .. Len(r) /\ Len(r) \in Nat
    BY <1>3, Indices
  <1>5. PICK e : /\ e \in [1 .. Len(r) -> I]
                 /\ \A k, l \in 1 .. Len(r) : k < l => e[k] < e[l]
                 /\ \A i \in I : \E k \in 1 .. Len(r) : e[k] = i
                 /\ \A k \in 1 .. Len(r) : r[k] = s[e[k]]
    BY <1>3 DEF Picks
  <1>6. But(s, id) = r
    BY DEF But
  <1> HIDE DEF r
  <1>7. \A x : x \in Elements(r) <=> x \in Elements(s) /\ x.id # id
    <2>1. ASSUME NEW x \in Elements(r) PROVE x \in Elements(s) /\ x.id # id
      <3>1. PICK k \in 1 .. Len(r) : x = r[k]
        BY <1>4 DEF Elements
      <3>2. e[k] \in I /\ x = s[e[k]]
        BY <1>5, <3>1
      <3> QED BY <3>2 DEF Elements
    <2>2. ASSUME NEW x \in Elements(s), x.id # id PROVE x \in Elements(r)
      <3>1. PICK i \in DOMAIN s : x = s[i]
        BY DEF Elements
      <3>2. i \in I
        BY <2>2, <3>1
      <3>3. PICK k \in 1 .. Len(r) : e[k] = i
        BY <1>5, <3>2
      <3>4. r[k] = x
        BY <1>5, <3>1, <3>3
      <3> QED BY <1>4, <3>4 DEF Elements
    <2> QED BY <2>1, <2>2
  <1>8. IdsIn(r) = IdsIn(s) \ {id}
    BY <1>1, <1>4, <1>5 DEF IdsIn
  <1>9. ASSUME OneEach(s), NEW k \in 1 .. Len(r), NEW l \in 1 .. Len(r), r[k].id = r[l].id
        PROVE  k = l
    <2>1. e[k] \in I /\ e[l] \in I /\ r[k] = s[e[k]] /\ r[l] = s[e[l]]
      BY <1>5
    <2>2. e[k] = e[l] /\ e[k] \in Nat
      BY <1>1, <1>9, <2>1 DEF OneEach
    <2>3. ~(k < l) /\ ~(l < k)
      BY <1>5, <2>2
    <2> QED BY <2>3, <1>4
  <1>10. OneEach(s) => OneEach(r)
    BY <1>4, <1>9 DEF OneEach
  <1> QED BY <1>3, <1>6, <1>7, <1>8, <1>10

LEMMA AppendAdds ==
  ASSUME NEW S, NEW s \in Seq(S), NEW x \in S
  PROVE  /\ Append(s, x) \in Seq(S) /\ Len(Append(s, x)) = Len(s) + 1
         /\ Elements(Append(s, x)) = Elements(s) \cup {x}
         /\ IdsIn(Append(s, x)) = IdsIn(s) \cup {x.id}
         /\ OneEach(s) /\ x.id \notin IdsIn(s) => OneEach(Append(s, x))
  <1> DEFINE t == Append(s, x)
  <1>1. DOMAIN s = 1 .. Len(s) /\ Len(s) \in Nat
    BY Indices
  <1>2. /\ t \in Seq(S) /\ Len(t) = Len(s) + 1 /\ t[Len(s) + 1] = x
        /\ \A i \in 1 .. Len(s) : t[i] = s[i]
    OBVIOUS
  <1> HIDE DEF t
  <1>3. DOMAIN t = 1 .. Len(s) \cup {Len(s) + 1} /\ Len(s) + 1 \notin 1 .. Len(s)
    <2>1. DOMAIN t = 1 .. Len(t)
      BY <1>2, Indices
    <2> QED BY <2>1, <1>1, <1>2
  <1>4. Elements(t) = Elements(s) \cup {x}
    BY <1>1, <1>2, <1>3 DEF Elements
  <1>5. IdsIn(t) = IdsIn(s) \cup {x.id}
    BY <1>1, <1>2, <1>3 DEF IdsIn
  <1>6. OneEach(s) /\ x.id \notin IdsIn(s) => OneEach(t)
    BY <1>1, <1>2, <1>3 DEF IdsIn, OneEach
  <1> QED BY <1>2, <1>4, <1>5, <1>6 DEF t

(* A sequence in which no id is there twice has as many ids as elements.   *)
LEMMA OneEachCounts ==
  ASSUME NEW S, NEW s \in Seq(S)
  PROVE  /\ IsFiniteSet(IdsIn(s)) /\ Cardinality(IdsIn(s)) \in Nat
         /\ Cardinality(IdsIn(s)) <= Len(s)
         /\ Cardinality(IdsIn(s)) = Len(s) <=> OneEach(s)
  <1> DEFINE f == [i \in 1 .. Len(s) |-> s[i].id]
  <1>1. DOMAIN s = 1 .. Len(s) /\ Len(s) \in Nat
    BY Indices
  <1>2. IsFiniteSet(1 .. Len(s)) /\ Cardinality(1 .. Len(s)) = Len(s)
    BY <1>1, FS_Interval
  <1>3. f \in Surjection(1 .. Len(s), IdsIn(s))
    BY <1>1 DEF Surjection, IdsIn
  <1>4. f \in Injection(1 .. Len(s), IdsIn(s)) <=> OneEach(s)
    BY <1>1, <1>3 DEF Injection, IsInjective, OneEach, Surjection
  <1> HIDE DEF f
  <1>5. /\ IsFiniteSet(IdsIn(s)) /\ Cardinality(IdsIn(s)) <= Cardinality(1 .. Len(s))
        /\ Cardinality(IdsIn(s)) = Cardinality(1 .. Len(s)) <=> f \in Injection(1 .. Len(s), IdsIn(s))
    BY <1>2, <1>3, FS_Surjection
  <1> QED BY <1>2, <1>4, <1>5, FS_CardinalityType

(* Among more candidates than are taken there is a first free one.         *)
LEMMA FirstIsFree ==
  ASSUME NEW T, IsFiniteSet(T), NEW n \in Nat, NEW c, Cardinality(T) \in Nat,
         \A i, j \in n .. n + Cardinality(T) : c[i] = c[j] => i = j
  PROVE  \E m \in n .. n + Cardinality(T) :
           c[m] \notin T /\ \A j \in n .. m - 1 : c[j] \in T
  <1> DEFINE D == n .. n + Cardinality(T)
             f == [i \in D |-> c[i]]
             F == {i \in D : c[i] \notin T}
  <1>1. F # {}
    <2> SUFFICES ASSUME F = {} PROVE FALSE
      OBVIOUS
    <2>1. f \in Injection(D, T)
      BY DEF Injection, IsInjective
    <2>2. Cardinality(D) <= Cardinality(T)
      <3> HIDE DEF f, D
      <3> QED BY <2>1, FS_Injection
    <2>3. Cardinality(D) = Cardinality(T) + 1
      BY FS_Interval
    <2> QED BY <2>2, <2>3
  <1>2. F \in SUBSET Nat
    OBVIOUS
  <1>3. PICK m \in F : \A j \in F : m <= j
    BY <1>1, <1>2, Least
  <1>4. ASSUME NEW j \in n .. m - 1 PROVE c[j] \in T
    BY <1>3
  <1> QED BY <1>3, <1>4

-----------------------------------------------------------------------------
(* The account screen.  A coroutine that runs alone finds, from each read  *)
(* of loadAccounts on, what it has read before; and only one that was      *)
(* alone to its end leaves `settled'.                                      *)

Uuid == AccountUI!Uuids
Places ==
  {"none", "add", "remove", "refresh", "begin", "began", "complete", "completed", "spin", "unpick",
   "clear", "pick", "entry", "keep", "list", "show", "judge", "prefer", "match", "read", "store"}
Coroutine ==
  [pc : Places, id : Uuid \cup {NoAccount}, list : Seq(Uuid), alone : BOOLEAN, cut : BOOLEAN]

HoldsUuid == {"add", "remove", "complete", "spin", "completed", "pick", "entry", "keep"}

AccountTypes ==
  /\ core \in Seq(Uuid) /\ rows \in Seq(Uuid)
  /\ active \in [id : Uuid \cup {NoAccount}, account : Uuid \cup {NoAccount}]
  /\ kept \in Uuid \cup {NoAccount}
  /\ login \in {"idle", "signing", "awaiting", "error"}
  /\ job \in [Slot -> Coroutine] /\ settled \in BOOLEAN
  /\ \A s \in Slot : job[s].pc \in HoldsUuid => job[s].id \in Uuid

Chosen(u, as) == IF as = <<>> THEN u = NoAccount ELSE u \in Elements(as)

AloneSoFar(j, cs, rs, sel) ==
  /\ j.pc \in {"show", "judge", "prefer", "match", "read", "store"} => j.list = cs
  /\ j.pc \in {"judge", "prefer", "match", "read", "store"} => rs = cs
  /\ j.pc \in {"match", "read", "store"} => Chosen(sel.id, cs)
  /\ j.pc \in {"read", "store"} => sel.account = sel.id
  /\ j.pc = "store" => j.id = sel.id

AccountInv ==
  /\ AccountTypes /\ AccountUI!SpinnerHasCall
  /\ \A s \in Slot : job[s].alone =>
       /\ ~job[s].cut /\ AloneSoFar(job[s], core, rows, active)
       /\ \A r \in Slot \ {s} : job[r] = AccountUI!NoJob
  /\ settled =>
       /\ AccountUI!Resting
       /\ rows = core /\ active.account = active.id /\ active.id = kept
       /\ Chosen(active.id, core)

(* First finds an element of the set if there is one.                      *)
LEMMA FirstFinds ==
  ASSUME NEW us, NEW s \in Seq(Uuid)
  PROVE  LET u == AccountUI!First(us, s)
         IN  IF us \cap Elements(s) = {} THEN u = NoAccount ELSE u \in us \cap Elements(s)
  <1> DEFINE I == {i \in DOMAIN s : s[i] \in us}
  <1>1. AccountUI!First(us, s)
          = IF I = {} THEN NoAccount ELSE s[CHOOSE i \in I : \A j \in I : i <= j]
    BY DEF AccountUI!First
  <1>2. DOMAIN s \subseteq Nat
    BY Indices
  <1>3. CASE I = {}
    BY <1>1, <1>3 DEF Elements
  <1>4. CASE I # {}
    <2>1. \E i \in I : \A j \in I : i <= j
      BY <1>2, <1>4, Least
    <2>2. PICK i \in I : AccountUI!First(us, s) = s[i]
      BY <1>1, <1>4, <2>1
    <2> QED BY <2>2 DEF Elements
  <1> QED BY <1>3, <1>4

LEMMA EntryIsIt ==
  ASSUME NEW s \in Seq(Uuid), NEW u \in Uuid \cup {NoAccount}
  PROVE  /\ AccountUI!EntryOf(u, s) \in Uuid \cup {NoAccount}
         /\ Chosen(u, s) => AccountUI!EntryOf(u, s) = u
  <1>1. AccountUI!EntryOf(u, s) = AccountUI!First({u}, s)
    BY DEF AccountUI!EntryOf
  <1>2. LET v == AccountUI!First({u}, s)
        IN  IF {u} \cap Elements(s) = {} THEN v = NoAccount ELSE v \in {u} \cap Elements(s)
    BY FirstFinds
  <1>3. s = <<>> => Elements(s) = {}
    BY Indices DEF Elements
  <1> QED BY <1>1, <1>2, <1>3 DEF Chosen

(* What the screen prefers is one of the accounts, unless there is none.   *)
LEMMA PreferredIsThere ==
  ASSUME NEW s \in Seq(Uuid)
  PROVE  AccountUI!Preferred(s) \in Uuid \cup {NoAccount} /\ Chosen(AccountUI!Preferred(s), s)
  <1> DEFINE p == AccountUI!First(Premium, s)
             a == AccountUI!First(AccountUI!Uuids, s)
  <1>1. AccountUI!Preferred(s) = IF p # NoAccount THEN p ELSE a
    BY DEF AccountUI!Preferred
  <1>2. IF Premium \cap Elements(s) = {} THEN p = NoAccount ELSE p \in Premium \cap Elements(s)
    BY FirstFinds
  <1>3. IF AccountUI!Uuids \cap Elements(s) = {} THEN a = NoAccount
        ELSE a \in AccountUI!Uuids \cap Elements(s)
    BY FirstFinds
  <1>4. Elements(s) \subseteq Uuid
    BY Indices DEF Elements
  <1>5. s # <<>> => Elements(s) # {}
    <2>1. s # <<>> => 1 \in DOMAIN s
      BY Indices
    <2> QED BY <2>1 DEF Elements
  <1>6. s = <<>> => Elements(s) = {}
    BY Indices DEF Elements
  <1> HIDE DEF p, a
  <1> QED BY <1>1, <1>2, <1>3, <1>4, <1>5, <1>6 DEF Chosen, Uuid

LEMMA AfterCallIsList ==
  ASSUME AccountTypes, NEW s \in Slot
  PROVE  AccountUI!AfterCall(s) \in Seq(Uuid)
  <1>1. core \in Seq(Uuid)
    BY DEF AccountTypes
  <1>2. ASSUME NEW u PROVE AccountUI!Erased(u) \in Seq(Uuid)
    <2>1. DOMAIN core = 1 .. Len(core)
      BY <1>1, Indices
    <2> DEFINE I == {i \in DOMAIN core : core[i] # u}
    <2>2. I \in SUBSET (1 .. Len(core))
      BY <2>1
    <2>3. AccountUI!Erased(u) = Subsequence(core, I)
      BY DEF AccountUI!Erased, AccountUI!Subsequence, Subsequence
    <2> HIDE DEF I
    <2> QED BY <1>1, <2>2, <2>3, SubsequencePicks
  <1> QED BY <1>1, <1>2 DEF AccountUI!AfterCall, AccountUI!At, AccountTypes, HoldsUuid


LEMMA ListedIsChosen ==
  ASSUME NEW s \in Seq(Uuid), NEW u, AccountUI!Listed(u, s) PROVE Chosen(u, s)
  <1>1. PICK i \in DOMAIN s : u = s[i]
    BY DEF AccountUI!Listed, AccountUI!Range
  <1>2. s # <<>>
    BY <1>1, Indices
  <1> QED BY <1>1, <1>2 DEF Chosen, Elements

(* One coroutine goes on and is j then; what that asks of j and of what it *)
(* leaves behind.                                                          *)
GoesOn(s, j) ==
  /\ job[s].pc # "none" /\ job' = [job EXCEPT ![s] = j] /\ settled' = settled
  /\ j.alone => job[s].alone /\ ~j.cut /\ AloneSoFar(j, core', rows', active')
  /\ j.pc \in HoldsUuid => j.id \in Uuid
  /\ core' \in Seq(Uuid) /\ rows' \in Seq(Uuid)
  /\ active' \in [id : Uuid \cup {NoAccount}, account : Uuid \cup {NoAccount}]
  /\ kept' \in Uuid \cup {NoAccount}
  /\ login' \in {"idle", "signing", "awaiting", "error"}
  /\ login' = "signing" =>
       \/ j.pc \in {"began", "completed"}
       \/ login = "signing" /\ job[s].pc \notin {"began", "completed"}

LEMMA CoroutineGoesOn ==
  ASSUME AccountInv, NEW s \in Slot, NEW j \in Coroutine, GoesOn(s, j)
  PROVE  AccountInv'
  <1> USE DEF GoesOn
  <1>1. AccountTypes'
    BY DEF AccountInv, AccountTypes
  <1>2. job' = [r \in Slot |-> IF r = s THEN j ELSE job[r]]
    BY DEF AccountInv, AccountTypes
  <1>3. AccountUI!SpinnerHasCall'
    BY <1>2 DEF AccountInv, AccountUI!SpinnerHasCall
  <1>4. ~settled'
    BY DEF AccountInv, AccountUI!Resting, AccountUI!NoJob
  <1>5. ASSUME NEW r \in Slot, job'[r].alone
        PROVE  /\ ~job'[r].cut /\ AloneSoFar(job[r], core, rows, active)'
               /\ \A q \in Slot \ {r} : job'[q] = AccountUI!NoJob
    <2>1. CASE r = s
      <3>1. job'[r] = j /\ job[s].alone /\ ~j.cut /\ AloneSoFar(j, core', rows', active')
        BY <1>2, <1>5, <2>1
      <3>2. \A q \in Slot \ {r} : job'[q] = AccountUI!NoJob
        BY <1>2, <2>1, <3>1 DEF AccountInv
      <3> QED BY <3>1, <3>2, <2>1 DEF AloneSoFar
    <2>2. CASE r # s
      <3>1. job[r].alone /\ job[s] = AccountUI!NoJob
        BY <1>2, <1>5, <2>2 DEF AccountInv
      <3> QED BY <3>1 DEF AccountUI!NoJob
    <2> QED BY <2>1, <2>2
  <1> QED BY <1>1, <1>3, <1>4, <1>5 DEF AccountInv


LEMMA NoJobIsOne == AccountUI!NoJob \in Coroutine
  <1>1. <<>> \in Seq(Uuid)
    OBVIOUS
  <1>2. "none" \in Places
    BY DEF Places
  <1> QED BY <1>1, <1>2 DEF AccountUI!NoJob, Coroutine

LEMMA JobStepKeeps ==
  ASSUME AccountInv, NEW s \in Slot, AccountUI!JobStep(s) PROVE AccountInv'
  <1>0. /\ job \in [Slot -> Coroutine] /\ job[s] \in Coroutine
        /\ job[s].pc \in HoldsUuid => job[s].id \in Uuid
        /\ job[s].alone => ~job[s].cut /\ AloneSoFar(job[s], core, rows, active)
        /\ core \in Seq(Uuid) /\ rows \in Seq(Uuid)
        /\ active \in [id : Uuid \cup {NoAccount}, account : Uuid \cup {NoAccount}]
        /\ kept \in Uuid \cup {NoAccount}
        /\ login \in {"idle", "signing", "awaiting", "error"}
        /\ AccountUI!AfterCall(s) \in Seq(Uuid)
    BY AfterCallIsList DEF AccountInv, AccountTypes
  <1>1. CASE AccountUI!CallFails(s)
    <2>1. GoesOn(s, AccountUI!NoJob) /\ AccountUI!NoJob \in Coroutine
      BY <1>0, <1>1, NoJobIsOne
      DEF GoesOn, Coroutine, Places, AloneSoFar, HoldsUuid,
            AccountUI!CallFails, AccountUI!Done, AccountUI!At, AccountUI!NoJob
    <2> QED BY <2>1, CoroutineGoesOn
  <1>2. CASE AccountUI!CallIsCut(s)
    <2>1. GoesOn(s, AccountUI!NoJob) /\ AccountUI!NoJob \in Coroutine
      BY <1>0, <1>2, NoJobIsOne
      DEF GoesOn, Coroutine, Places, AloneSoFar, HoldsUuid,
            AccountUI!CallIsCut, AccountUI!Done, AccountUI!NoJob
    <2> QED BY <2>1, CoroutineGoesOn
  <1>3. CASE AccountUI!CallAdd(s)
    <2>1. GoesOn(s, [job[s] EXCEPT !.pc = "list"]) /\ [job[s] EXCEPT !.pc = "list"] \in Coroutine
      BY <1>0, <1>3, NoJobIsOne
      DEF GoesOn, Coroutine, Places, AloneSoFar, HoldsUuid,
            AccountUI!CallAdd, AccountUI!At, AccountUI!GoOn
    <2> QED BY <2>1, CoroutineGoesOn
  <1>4. CASE AccountUI!CallRemove(s)
    <2>1. ASSUME job' = [job EXCEPT ![s].pc = "unpick"] PROVE AccountInv'
      <3>1. GoesOn(s, [job[s] EXCEPT !.pc = "unpick"]) /\ [job[s] EXCEPT !.pc = "unpick"] \in Coroutine
        BY <1>0, <1>4, <2>1, NoJobIsOne
        DEF GoesOn, Coroutine, Places, AloneSoFar, HoldsUuid,
            AccountUI!CallRemove, AccountUI!At, AccountUI!GoOn, AccountUI!NoJob
      <3> QED BY <3>1, CoroutineGoesOn
    <2>2. ASSUME job' = [job EXCEPT ![s].pc = "list"] PROVE AccountInv'
      <3>1. GoesOn(s, [job[s] EXCEPT !.pc = "list"]) /\ [job[s] EXCEPT !.pc = "list"] \in Coroutine
        BY <1>0, <1>4, <2>2, NoJobIsOne
        DEF GoesOn, Coroutine, Places, AloneSoFar, HoldsUuid,
            AccountUI!CallRemove, AccountUI!At, AccountUI!GoOn, AccountUI!NoJob
      <3> QED BY <3>1, CoroutineGoesOn
    <2> QED BY <1>4, <2>1, <2>2 DEF AccountUI!CallRemove, AccountUI!At, AccountUI!GoOn
  <1>5. CASE AccountUI!Unpick(s)
    <2>1. ASSUME job' = [job EXCEPT ![s].pc = "clear"] PROVE AccountInv'
      <3>1. GoesOn(s, [job[s] EXCEPT !.pc = "clear"]) /\ [job[s] EXCEPT !.pc = "clear"] \in Coroutine
        BY <1>0, <1>5, <2>1, NoJobIsOne
        DEF GoesOn, Coroutine, Places, AloneSoFar, HoldsUuid,
            AccountUI!Unpick, AccountUI!At, AccountUI!GoOn, AccountUI!NoJob
      <3> QED BY <3>1, CoroutineGoesOn
    <2>2. ASSUME job' = [job EXCEPT ![s].pc = "list"] PROVE AccountInv'
      <3>1. GoesOn(s, [job[s] EXCEPT !.pc = "list"]) /\ [job[s] EXCEPT !.pc = "list"] \in Coroutine
        BY <1>0, <1>5, <2>2, NoJobIsOne
        DEF GoesOn, Coroutine, Places, AloneSoFar, HoldsUuid,
            AccountUI!Unpick, AccountUI!At, AccountUI!GoOn, AccountUI!NoJob
      <3> QED BY <3>1, CoroutineGoesOn
    <2> QED BY <1>5, <2>1, <2>2 DEF AccountUI!Unpick, AccountUI!At, AccountUI!GoOn
  <1>6. CASE AccountUI!Clear(s)
    <2>1. GoesOn(s, [job[s] EXCEPT !.pc = "list"]) /\ [job[s] EXCEPT !.pc = "list"] \in Coroutine
      BY <1>0, <1>6, NoJobIsOne
      DEF GoesOn, Coroutine, Places, AloneSoFar, HoldsUuid,
            AccountUI!Clear, AccountUI!At, AccountUI!GoOn
    <2> QED BY <2>1, CoroutineGoesOn
  <1>7. CASE AccountUI!CallRefresh(s)
    <2>1. GoesOn(s, [job[s] EXCEPT !.pc = "list"]) /\ [job[s] EXCEPT !.pc = "list"] \in Coroutine
      BY <1>0, <1>7, NoJobIsOne
      DEF GoesOn, Coroutine, Places, AloneSoFar, HoldsUuid,
            AccountUI!CallRefresh, AccountUI!At, AccountUI!GoOn
    <2> QED BY <2>1, CoroutineGoesOn
  <1>8. CASE AccountUI!BeginLogin(s)
    <2>1. GoesOn(s, [job[s] EXCEPT !.pc = "began"]) /\ [job[s] EXCEPT !.pc = "began"] \in Coroutine
      BY <1>0, <1>8, NoJobIsOne
      DEF GoesOn, Coroutine, Places, AloneSoFar, HoldsUuid,
            AccountUI!BeginLogin, AccountUI!At, AccountUI!GoOn
    <2> QED BY <2>1, CoroutineGoesOn
  <1>9. CASE AccountUI!CallBegin(s)
    <2>1. GoesOn(s, AccountUI!NoJob) /\ AccountUI!NoJob \in Coroutine
      BY <1>0, <1>9, NoJobIsOne
      DEF GoesOn, Coroutine, Places, AloneSoFar, HoldsUuid,
            AccountUI!CallBegin, AccountUI!At, AccountUI!Done, AccountUI!NoJob
    <2> QED BY <2>1, CoroutineGoesOn
  <1>10. CASE AccountUI!CompleteLogin(s)
    <2>1. ASSUME job' = [job EXCEPT ![s].pc = "spin"] PROVE AccountInv'
      <3>1. GoesOn(s, [job[s] EXCEPT !.pc = "spin"]) /\ [job[s] EXCEPT !.pc = "spin"] \in Coroutine
        BY <1>0, <1>10, <2>1, NoJobIsOne
        DEF GoesOn, Coroutine, Places, AloneSoFar, HoldsUuid,
            AccountUI!CompleteLogin, AccountUI!At, AccountUI!GoOn, AccountUI!Done, AccountUI!NoJob
      <3> QED BY <3>1, CoroutineGoesOn
    <2>2. ASSUME job' = [job EXCEPT ![s] = AccountUI!NoJob] PROVE AccountInv'
      <3>1. GoesOn(s, AccountUI!NoJob) /\ AccountUI!NoJob \in Coroutine
        BY <1>0, <1>10, <2>2, NoJobIsOne
        DEF GoesOn, Coroutine, Places, AloneSoFar, HoldsUuid,
            AccountUI!CompleteLogin, AccountUI!At, AccountUI!GoOn, AccountUI!Done, AccountUI!NoJob
      <3> QED BY <3>1, CoroutineGoesOn
    <2> QED BY <1>10, <2>1, <2>2 DEF AccountUI!CompleteLogin, AccountUI!At, AccountUI!GoOn, AccountUI!Done
  <1>11. CASE AccountUI!Spin(s)
    <2>1. GoesOn(s, [job[s] EXCEPT !.pc = "completed"]) /\ [job[s] EXCEPT !.pc = "completed"] \in Coroutine
      BY <1>0, <1>11, NoJobIsOne
      DEF GoesOn, Coroutine, Places, AloneSoFar, HoldsUuid,
            AccountUI!Spin, AccountUI!At, AccountUI!GoOn
    <2> QED BY <2>1, CoroutineGoesOn
  <1>12. CASE AccountUI!CallComplete(s)
    <2>1. GoesOn(s, [job[s] EXCEPT !.pc = "pick"]) /\ [job[s] EXCEPT !.pc = "pick"] \in Coroutine
      BY <1>0, <1>12, NoJobIsOne
      DEF GoesOn, Coroutine, Places, AloneSoFar, HoldsUuid,
            AccountUI!CallComplete, AccountUI!At, AccountUI!GoOn
    <2> QED BY <2>1, CoroutineGoesOn
  <1>13. CASE AccountUI!Pick(s)
    <2>1. GoesOn(s, [job[s] EXCEPT !.pc = "entry"]) /\ [job[s] EXCEPT !.pc = "entry"] \in Coroutine
      BY <1>0, <1>13, NoJobIsOne
      DEF GoesOn, Coroutine, Places, AloneSoFar, HoldsUuid,
            AccountUI!Pick, AccountUI!At, AccountUI!GoOn
    <2> QED BY <2>1, CoroutineGoesOn
  <1>14. CASE AccountUI!PickEntry(s)
    <2>1. GoesOn(s, [job[s] EXCEPT !.pc = "keep"]) /\ [job[s] EXCEPT !.pc = "keep"] \in Coroutine
      BY <1>0, <1>14, NoJobIsOne, EntryIsIt
      DEF GoesOn, Coroutine, Places, AloneSoFar, HoldsUuid,
            AccountUI!PickEntry, AccountUI!At, AccountUI!GoOn
    <2> QED BY <2>1, CoroutineGoesOn
  <1>15. CASE AccountUI!PickKeep(s)
    <2>1. GoesOn(s, [job[s] EXCEPT !.pc = "list"]) /\ [job[s] EXCEPT !.pc = "list"] \in Coroutine
      BY <1>0, <1>15, NoJobIsOne
      DEF GoesOn, Coroutine, Places, AloneSoFar, HoldsUuid,
            AccountUI!PickKeep, AccountUI!At, AccountUI!GoOn
    <2> QED BY <2>1, CoroutineGoesOn
  <1>16. CASE AccountUI!CallList(s)
    <2>1. ASSUME ~job[s].cut, job' = [job EXCEPT ![s].pc = "show", ![s].list = core] PROVE AccountInv'
      <3>1. GoesOn(s, [job[s] EXCEPT !.pc = "show", !.list = core]) /\ [job[s] EXCEPT !.pc = "show", !.list = core] \in Coroutine
        BY <1>0, <1>16, <2>1, NoJobIsOne
        DEF GoesOn, Coroutine, Places, AloneSoFar, HoldsUuid,
            AccountUI!CallList, AccountUI!At, AccountUI!NoJob
      <3> QED BY <3>1, CoroutineGoesOn
    <2>2. ASSUME job' = [job EXCEPT ![s].pc = "show", ![s].list = <<>>, ![s].alone = FALSE] PROVE AccountInv'
      <3>1. GoesOn(s, [job[s] EXCEPT !.pc = "show", !.list = <<>>, !.alone = FALSE]) /\ [job[s] EXCEPT !.pc = "show", !.list = <<>>, !.alone = FALSE] \in Coroutine
        BY <1>0, <1>16, <2>2, NoJobIsOne
        DEF GoesOn, Coroutine, Places, AloneSoFar, HoldsUuid,
            AccountUI!CallList, AccountUI!At, AccountUI!NoJob
      <3> QED BY <3>1, CoroutineGoesOn
    <2> QED BY <1>16, <2>1, <2>2 DEF AccountUI!CallList, AccountUI!At
  <1>17. CASE AccountUI!Show(s)
    <2>1. GoesOn(s, [job[s] EXCEPT !.pc = "judge"]) /\ [job[s] EXCEPT !.pc = "judge"] \in Coroutine
      BY <1>0, <1>17, NoJobIsOne
      DEF GoesOn, Coroutine, Places, AloneSoFar, HoldsUuid,
            AccountUI!Show, AccountUI!At, AccountUI!GoOn
    <2> QED BY <2>1, CoroutineGoesOn
  <1>18. CASE AccountUI!Judge(s)
    <2>1. ASSUME active.id # NoAccount, AccountUI!Listed(active.id, job[s].list) PROVE AccountInv'
      <3>1. GoesOn(s, [job[s] EXCEPT !.pc = "match"]) /\ [job[s] EXCEPT !.pc = "match"] \in Coroutine
        <4>1. Chosen(active.id, job[s].list)
          BY <1>0, <2>1, ListedIsChosen DEF Coroutine
        <4> QED
          BY <1>0, <1>18, <2>1, <4>1, NoJobIsOne
        DEF GoesOn, Coroutine, Places, AloneSoFar, HoldsUuid,
            AccountUI!Judge, AccountUI!At, AccountUI!GoOn, AccountUI!Listed, AccountUI!Range, AccountUI!NoJob
      <3> QED BY <3>1, CoroutineGoesOn
    <2>2. ASSUME ~(active.id # NoAccount /\ AccountUI!Listed(active.id, job[s].list)) PROVE AccountInv'
      <3>1. GoesOn(s, [job[s] EXCEPT !.pc = "prefer"]) /\ [job[s] EXCEPT !.pc = "prefer"] \in Coroutine
        BY <1>0, <1>18, <2>2, NoJobIsOne
        DEF GoesOn, Coroutine, Places, AloneSoFar, HoldsUuid,
            AccountUI!Judge, AccountUI!At, AccountUI!GoOn, AccountUI!Listed, AccountUI!Range, AccountUI!NoJob
      <3> QED BY <3>1, CoroutineGoesOn
    <2> QED BY <1>18, <2>1, <2>2 DEF AccountUI!Judge, AccountUI!At, AccountUI!GoOn, AccountUI!Listed, AccountUI!Range
  <1>19. CASE AccountUI!Prefer(s)
    <2>1. GoesOn(s, [job[s] EXCEPT !.pc = "match"]) /\ [job[s] EXCEPT !.pc = "match"] \in Coroutine
      <3>1. job[s].list \in Seq(Uuid)
        BY <1>0 DEF Coroutine
      <3> DEFINE l == job[s].list
                 j == [job[s] EXCEPT !.pc = "match"]
      <3>2. AccountUI!Preferred(l) \in Uuid \cup {NoAccount} /\ Chosen(AccountUI!Preferred(l), l)
        BY <3>1, PreferredIsThere
      <3>3. /\ job[s].pc = "prefer" /\ job' = [job EXCEPT ![s] = j]
            /\ active' = [active EXCEPT !.id = AccountUI!Preferred(l)]
            /\ UNCHANGED <<core, rows, kept, login, settled>>
        BY <1>0, <1>19 DEF AccountUI!Prefer, AccountUI!At, AccountUI!GoOn
      <3>4. /\ active'.id = AccountUI!Preferred(l)
            /\ active' \in [id : Uuid \cup {NoAccount}, account : Uuid \cup {NoAccount}]
        BY <1>0, <3>2, <3>3
      <3>5. j \in Coroutine
        BY <1>0 DEF Coroutine, Places
      <3>7. /\ j.pc = "match" /\ j.list = l
            /\ j.alone <=> job[s].alone
            /\ j.cut <=> job[s].cut
        BY <1>0 DEF Coroutine
      <3>6. j.alone => ~j.cut /\ AloneSoFar(j, core', rows', active')
        <4>1. job[s].alone => Chosen(active'.id, core')
          <5>1. job[s].alone => l = core
            BY <1>0, <3>3 DEF AloneSoFar
          <5> QED BY <3>2, <3>3, <3>4, <5>1
        <4> QED BY <1>0, <3>3, <3>7, <4>1 DEF AloneSoFar
      <3> QED BY <1>0, <3>3, <3>4, <3>5, <3>6, <3>7 DEF GoesOn, HoldsUuid
    <2> QED BY <2>1, CoroutineGoesOn
  <1>20. CASE AccountUI!Match(s)
    <2>1. GoesOn(s, [job[s] EXCEPT !.pc = "read"]) /\ [job[s] EXCEPT !.pc = "read"] \in Coroutine
      BY <1>0, <1>20, NoJobIsOne, EntryIsIt
      DEF GoesOn, Coroutine, Places, AloneSoFar, HoldsUuid,
            AccountUI!Match, AccountUI!At, AccountUI!GoOn
    <2> QED BY <2>1, CoroutineGoesOn
  <1>21. CASE AccountUI!ReadActive(s)
    <2>1. GoesOn(s, [job[s] EXCEPT !.pc = "store", !.id = active.id]) /\ [job[s] EXCEPT !.pc = "store", !.id = active.id] \in Coroutine
      BY <1>0, <1>21, NoJobIsOne
      DEF GoesOn, Coroutine, Places, AloneSoFar, HoldsUuid,
            AccountUI!ReadActive, AccountUI!At
    <2> QED BY <2>1, CoroutineGoesOn
  <1>22. CASE AccountUI!StoreActive(s)
    <2>1. /\ job[s].pc = "store" /\ kept' = job[s].id /\ settled' = job[s].alone
          /\ job' = [job EXCEPT ![s] = AccountUI!NoJob]
          /\ UNCHANGED <<core, rows, active, login>>
      BY <1>22 DEF AccountUI!StoreActive, AccountUI!At, AccountUI!Done
    <2>2. job' = [r \in Slot |-> IF r = s THEN AccountUI!NoJob ELSE job[r]]
      BY <1>0, <2>1
    <2>3. AccountTypes'
      <3>1. job' \in [Slot -> Coroutine] /\ kept' \in Uuid \cup {NoAccount} /\ settled' \in BOOLEAN
        BY <1>0, <2>1, <2>2, NoJobIsOne DEF Coroutine
      <3>2. \A r \in Slot : job'[r].pc \in HoldsUuid => job'[r].id \in Uuid
        BY <2>2 DEF AccountUI!NoJob, HoldsUuid, AccountInv, AccountTypes
      <3> QED BY <1>0, <2>1, <3>1, <3>2 DEF AccountTypes
    <2>4. AccountUI!SpinnerHasCall'
      BY <2>1, <2>2 DEF AccountInv, AccountUI!SpinnerHasCall
    <2>5. ASSUME NEW r \in Slot, job'[r].alone PROVE FALSE
      <3>1. r # s /\ job[r].alone
        BY <2>2, <2>5 DEF AccountUI!NoJob
      <3>2. job[s] = AccountUI!NoJob
        BY <3>1 DEF AccountInv
      <3> QED BY <2>1, <3>2 DEF AccountUI!NoJob
    <2>6. ASSUME settled'
          PROVE  /\ AccountUI!Resting' /\ Chosen(active.id, core)'
                 /\ rows' = core' /\ active'.account = active'.id /\ active'.id = kept'
      <3>1. job[s].alone /\ \A r \in Slot \ {s} : job[r] = AccountUI!NoJob
        BY <2>1, <2>6 DEF AccountInv
      <3>2. AccountUI!Resting'
        BY <2>2, <3>1 DEF AccountUI!Resting, AccountUI!NoJob
      <3>3. AloneSoFar(job[s], core, rows, active)
        BY <1>0, <3>1
      <3> QED BY <2>1, <3>2, <3>3 DEF AloneSoFar
    <2> QED BY <2>3, <2>4, <2>5, <2>6 DEF AccountInv
  <1> QED
    BY <1>1, <1>2, <1>3, <1>4, <1>5, <1>6, <1>7, <1>8, <1>9, <1>10, <1>11, <1>12, <1>13, <1>14,
       <1>15, <1>16, <1>17, <1>18, <1>19, <1>20, <1>21, <1>22
    DEF AccountUI!JobStep

(* A coroutine that begins is alone if nothing else runs, and then none of *)
(* the others is.                                                          *)
LEMMA StartKeeps ==
  ASSUME AccountInv, NEW pc \in Places \ {"none", "show", "judge", "prefer", "match", "read", "store"},
         NEW u \in Uuid \cup {NoAccount}, NEW cuts \in BOOLEAN,
         pc \in HoldsUuid => u \in Uuid, AccountUI!Start(pc, u, cuts)
  PROVE  AccountInv'
  <1>1. PICK s \in Slot :
          /\ job[s] = AccountUI!NoJob
          /\ job' = [r \in Slot |->
               IF r = s THEN [AccountUI!NoJob EXCEPT !.pc = pc, !.id = u, !.alone = AccountUI!Resting]
               ELSE [job[r] EXCEPT !.alone = FALSE,
                                   !.cut = @ \/ (cuts /\ job[r] # AccountUI!NoJob)]]
    BY DEF AccountUI!Start
  <1>2. settled' = FALSE /\ UNCHANGED <<core, rows, active, kept, login>>
    BY DEF AccountUI!Start
  <1>3. AccountUI!Resting \in BOOLEAN
    BY DEF AccountUI!Resting
  <1>4. /\ job \in [Slot -> Coroutine]
        /\ \A r \in Slot : job[r].pc \in HoldsUuid => job[r].id \in Uuid
    BY DEF AccountInv, AccountTypes
  <1>5. job' \in [Slot -> Coroutine]
    BY <1>1, <1>3, <1>4, NoJobIsOne DEF Coroutine
  <1>6. \A r \in Slot : job'[r].pc = (IF r = s THEN pc ELSE job[r].pc)
                        /\ job'[r].id = (IF r = s THEN u ELSE job[r].id)
    BY <1>1, <1>4, NoJobIsOne DEF Coroutine
  <1>7. AccountTypes'
    <2>1. \A r \in Slot : job'[r].pc \in HoldsUuid => job'[r].id \in Uuid
      BY <1>4, <1>6
    <2>2. settled' \in BOOLEAN
      BY <1>2
    <2>3. /\ core \in Seq(Uuid) /\ rows \in Seq(Uuid) /\ kept \in Uuid \cup {NoAccount}
          /\ active \in [id : Uuid \cup {NoAccount}, account : Uuid \cup {NoAccount}]
          /\ login \in {"idle", "signing", "awaiting", "error"}
      BY DEF AccountInv, AccountTypes
    <2> QED
      <3>1. core' \in Seq(Uuid) /\ rows' \in Seq(Uuid)
        BY <1>2, <2>3
      <3>2. active' \in [id : Uuid \cup {NoAccount}, account : Uuid \cup {NoAccount}]
        BY <1>2, <2>3
      <3>3. kept' \in Uuid \cup {NoAccount}
        BY <1>2, <2>3
      <3>4. login' \in {"idle", "signing", "awaiting", "error"}
        BY <1>2, <2>3
      <3> QED BY <1>5, <2>1, <2>2, <3>1, <3>2, <3>3, <3>4 DEF AccountTypes
  <1>8. AccountUI!SpinnerHasCall'
    <2>1. job[s].pc = "none"
      <3>1. job[s] = AccountUI!NoJob
        BY <1>1
      <3> QED BY <3>1 DEF AccountUI!NoJob
    <2>2. login = "signing" => \E r \in Slot : job[r].pc \in {"began", "completed"}
      BY DEF AccountInv, AccountUI!SpinnerHasCall
    <2>3. ASSUME NEW r \in Slot, job[r].pc \in {"began", "completed"}
          PROVE  job'[r].pc \in {"began", "completed"}
      BY <1>6, <2>1, <2>3
    <2> QED BY <1>2, <2>2, <2>3 DEF AccountUI!SpinnerHasCall
  <1>9. ASSUME NEW r \in Slot, job'[r].alone
        PROVE  /\ ~job'[r].cut /\ AloneSoFar(job[r], core, rows, active)'
               /\ \A q \in Slot \ {r} : job'[q] = AccountUI!NoJob
    <2>1. r = s /\ AccountUI!Resting
      <3>1. CASE r # s
        <4>1. job'[r] = [job[r] EXCEPT !.alone = FALSE,
                                       !.cut = @ \/ (cuts /\ job[r] # AccountUI!NoJob)]
          BY <1>1, <3>1
        <4>2. job[r] \in Coroutine
          BY <1>4
        <4> QED BY <4>1, <4>2, <1>9 DEF Coroutine
      <3>2. CASE r = s
        <4>1. job'[s] = [AccountUI!NoJob EXCEPT !.pc = pc, !.id = u, !.alone = AccountUI!Resting]
          BY <1>1
        <4>2. job'[s].alone = AccountUI!Resting
          BY <4>1 DEF AccountUI!NoJob
        <4> QED BY <4>2, <3>2, <1>9
      <3> QED BY <3>1, <3>2 DEF AccountUI!Resting
    <2>2. ASSUME NEW q \in Slot \ {s} PROVE job'[q] = AccountUI!NoJob
      <3>1. job[q] = AccountUI!NoJob
        BY <2>1 DEF AccountUI!Resting
      <3>2. job'[q] = [AccountUI!NoJob EXCEPT !.alone = FALSE,
                         !.cut = @ \/ (cuts /\ AccountUI!NoJob # AccountUI!NoJob)]
        BY <1>1, <3>1
      <3> QED BY <3>2 DEF AccountUI!NoJob
    <2>3. ~job'[s].cut
      BY <1>1 DEF AccountUI!NoJob
    <2>4. AloneSoFar(job[s], core, rows, active)'
      BY <1>6 DEF AloneSoFar
    <2> QED BY <2>1, <2>2, <2>3, <2>4
  <1> QED BY <1>2, <1>7, <1>8, <1>9 DEF AccountInv

LEMMA TapSelectKeeps ==
  ASSUME AccountInv, NEW u \in Uuid, AccountUI!TapSelect(u) PROVE AccountInv'
  <1>1. /\ u \in Elements(rows) /\ active' = [id |-> u, account |-> u] /\ kept' = u
        /\ job' = [s \in Slot |-> [job[s] EXCEPT !.alone = FALSE]]
        /\ UNCHANGED <<core, rows, login, settled>>
    BY DEF AccountUI!TapSelect, AccountUI!Range, Elements
  <1>2. /\ job \in [Slot -> Coroutine]
        /\ \A r \in Slot : job[r].pc \in HoldsUuid => job[r].id \in Uuid
    BY DEF AccountInv, AccountTypes
  <1>3. /\ job' \in [Slot -> Coroutine]
        /\ \A s \in Slot : job'[s].pc = job[s].pc /\ job'[s].id = job[s].id /\ ~job'[s].alone
    BY <1>1, <1>2 DEF Coroutine
  <1>4. AccountTypes'
    BY <1>1, <1>2, <1>3 DEF AccountInv, AccountTypes
  <1>5. AccountUI!SpinnerHasCall'
    BY <1>1, <1>3 DEF AccountInv, AccountUI!SpinnerHasCall
  <1>6. ASSUME settled
        PROVE  /\ AccountUI!Resting' /\ rows' = core' /\ active'.account = active'.id
               /\ active'.id = kept' /\ Chosen(active.id, core)'
    <2>1. AccountUI!Resting /\ rows = core
      BY <1>6 DEF AccountInv
    <2>2. AccountUI!Resting'
      <3>1. ASSUME NEW s \in Slot PROVE job'[s] = AccountUI!NoJob
        <4>1. job[s] = AccountUI!NoJob
          BY <2>1 DEF AccountUI!Resting
        <4>2. job'[s] = [AccountUI!NoJob EXCEPT !.alone = FALSE]
          BY <1>1, <4>1
        <4> QED BY <4>2 DEF AccountUI!NoJob
      <3> QED BY <3>1 DEF AccountUI!Resting, AccountUI!NoJob
    <2>3. core # <<>>
      BY <1>1, <2>1, Indices DEF Elements
    <2> QED BY <1>1, <2>1, <2>2, <2>3 DEF Chosen
  <1> QED BY <1>1, <1>3, <1>4, <1>5, <1>6 DEF AccountInv

LEMMA AccountNextKeeps ==
  ASSUME AccountInv, AccountUI!ScreenNext PROVE AccountInv'
  <1>1. CASE AccountUI!Appear
    BY <1>1, StartKeeps DEF AccountUI!Appear, Places, HoldsUuid
  <1>2. CASE AccountUI!Tap
    <2>1. ASSUME NEW u \in Cracked, AccountUI!Start("add", u, FALSE) PROVE AccountInv'
      BY <2>1, StartKeeps DEF Uuid, AccountUI!Uuids, Places
    <2>2. ASSUME NEW u \in AccountUI!Range(rows), NEW pc \in {"remove", "refresh"},
                 AccountUI!Start(pc, u, FALSE)
          PROVE  AccountInv'
      <3>1. u \in Uuid
        BY Indices DEF AccountUI!Range, AccountInv, AccountTypes
      <3>2. pc \in Places \ {"none", "show", "judge", "prefer", "match", "read", "store"}
        BY DEF Places
      <3> QED BY <2>2, <3>1, <3>2, StartKeeps
    <2>3. ASSUME AccountUI!Start("begin", NoAccount, FALSE) PROVE AccountInv'
      BY <2>3, StartKeeps DEF Places, HoldsUuid
    <2>4. ASSUME NEW u \in Premium, AccountUI!Start("complete", u, FALSE) PROVE AccountInv'
      BY <2>4, StartKeeps DEF Uuid, AccountUI!Uuids, Places
    <2> QED BY <1>2, <2>1, <2>2, <2>3, <2>4 DEF AccountUI!Tap
  <1>3. CASE AccountUI!CancelLogin
    <2>1. login' = "idle" /\ UNCHANGED <<core, rows, active, kept, job, settled>>
      BY <1>3 DEF AccountUI!CancelLogin
    <2>2. AccountTypes'
      BY <2>1 DEF AccountInv, AccountTypes
    <2>3. AccountUI!SpinnerHasCall'
      BY <2>1 DEF AccountUI!SpinnerHasCall
    <2>4. AccountUI!Resting' <=> AccountUI!Resting
      BY <2>1 DEF AccountUI!Resting
    <2> QED BY <2>1, <2>2, <2>3, <2>4 DEF AccountInv, AloneSoFar, Chosen
  <1>4. CASE \E u \in AccountUI!Uuids : AccountUI!TapSelect(u)
    BY <1>4, TapSelectKeeps DEF Uuid
  <1>5. CASE \E s \in Slot : AccountUI!JobStep(s)
    BY <1>5, JobStepKeeps
  <1> QED BY <1>1, <1>2, <1>3, <1>4, <1>5 DEF AccountUI!ScreenNext

LEMMA AccountInitHolds ==
  ASSUME Cracked # {}, AccountUI!ScreenInit PROVE AccountInv
  <1>1. (CHOOSE u \in Cracked : TRUE) \in Uuid
    <2>1. (CHOOSE u \in Cracked : TRUE) \in Cracked
      OBVIOUS
    <2> QED BY <2>1 DEF Uuid, AccountUI!Uuids
  <1>2. core \in Seq(Uuid) /\ rows \in Seq(Uuid)
    <2> DEFINE c == CHOOSE u \in Cracked : TRUE
    <2>1. core \in {<<>>, <<c>>} /\ rows = <<>>
      BY DEF AccountUI!ScreenInit
    <2> HIDE DEF c
    <2>2. <<>> \in Seq(Uuid)
      OBVIOUS
    <2>3. <<c>> \in Seq(Uuid)
      BY <1>1 DEF c
    <2> QED BY <2>1, <2>2, <2>3
  <1>3. job = [s \in Slot |-> AccountUI!NoJob] /\ login = "idle" /\ ~settled /\ settled \in BOOLEAN
    BY DEF AccountUI!ScreenInit
  <1>4. kept \in Uuid \cup {NoAccount} /\ active = [id |-> kept, account |-> NoAccount]
    BY DEF AccountUI!ScreenInit, Uuid
  <1>5. \A s \in Slot : job[s] = AccountUI!NoJob /\ ~job[s].alone /\ job[s].pc \notin HoldsUuid
    BY <1>3 DEF AccountUI!NoJob, HoldsUuid
  <1>6. AccountTypes
    BY <1>2, <1>3, <1>4, <1>5, NoJobIsOne DEF AccountTypes
  <1> QED BY <1>3, <1>5, <1>6 DEF AccountInv, AccountUI!SpinnerHasCall

LEMMA AccountInvMeans == AccountInv => AccountUI!AccountScreenSound
  <1> SUFFICES ASSUME AccountInv PROVE AccountUI!AccountScreenSound
    OBVIOUS
  <1>1. AccountTypes
    BY DEF AccountInv
  <1>2. AccountUI!Range(core) \subseteq Uuid /\ AccountUI!Range(rows) \subseteq Uuid
    BY <1>1, Indices DEF AccountUI!Range, AccountTypes
  <1>3. AccountUI!ScreenTypeOK
    BY <1>1, <1>2 DEF AccountUI!ScreenTypeOK, AccountTypes, Uuid, Coroutine
  <1>4. settled => AccountUI!Agreement
    BY DEF AccountInv, AccountUI!Agreement, Chosen, Elements, AccountUI!Range
  <1> QED BY <1>3, <1>4 DEF AccountInv, AccountUI!AccountScreenSound

-----------------------------------------------------------------------------
(* The instances and the screens over them.  The buttons of the wizard are *)
(* those of its last composition, so what was drawn says what may still    *)
(* have changed since; the detail screen holds a copy of what is stored.   *)

Version == GameVersions \cup {InstanceUI!Blank}
Build == (UNION {Builds[f] : f \in Family}) \cup {InstanceUI!NoBuild}
Word == (UNION {{v[i] : i \in DOMAIN v} : v \in GameVersions})
          \cup InstanceUI!AnyFamily \cup Build \cup Nat
Stages == {"loader", "game_version", "loader_version", "configure", "review"}

RequestType ==
  [loader : InstanceUI!AnyFamily, version : Version, build : Build, of : Version,
   named : BOOLEAN, custom : BOOLEAN, dir : BOOLEAN]
InstanceType ==
  [id : Seq(Word), loader : InstanceUI!AnyFamily, version : Version, build : Build, of : Version,
   named : BOOLEAN, custom : BOOLEAN, dir : BOOLEAN, played : BOOLEAN]
DrawingType == [step : Stages, ok : BOOLEAN, builds : SUBSET Build, of : Version]

WizardInv ==
  /\ step \in Stages /\ request \in RequestType /\ drawn \in DrawingType
  /\ request.build # InstanceUI!NoBuild => request.of = request.version
  /\ drawn.step = "loader_version" => drawn.of = request.version
  /\ drawn.step = "review" /\ drawn.ok => InstanceUI!IsValid(request)

Sound(x) ==
  /\ x.version # InstanceUI!Blank
  /\ x.loader # InstanceUI!Vanilla => x.build # InstanceUI!NoBuild
  /\ x.build # InstanceUI!NoBuild => x.of = x.version

(* What the detail screen shows but for the time of play.                  *)
SameBut(x, y) ==
  /\ x.id = y.id /\ x.loader = y.loader /\ x.version = y.version /\ x.build = y.build
  /\ x.of = y.of /\ x.named = y.named /\ x.custom = y.custom /\ x.dir = y.dir

DetailInv(list, shownDetail) ==
  /\ shownDetail = <<>> \/ \E x \in InstanceType : shownDetail = <<x>>
  /\ shownDetail # <<>> => \E x \in Elements(list) : SameBut(x, shownDetail[1])

ListInv(list) ==
  /\ list \in Seq(InstanceType) /\ OneEach(list)
  /\ \A x \in Elements(list) : Sound(x)

DashInv ==
  /\ launch \in [Dashboard -> {"idle", "launching", "running"}]
  /\ runJob \in [Dashboard -> {"none", "prepare", "run"}]
  /\ barrier \subseteq Dashboard
  /\ InstanceUI!IdleRunsNothing

InstanceInv == WizardInv /\ ListInv(instances) /\ DetailInv(instances, detail) /\ DashInv

-----------------------------------------------------------------------------
(* The wizard: every tap but create. *)
LEMMA DrawingIsDrawn ==
  ASSUME NEW s \in Stages, NEW r \in RequestType, InstanceUI!Vanilla \notin Family
  PROVE  InstanceUI!Drawing(s, r) \in DrawingType
  <1>1. InstanceUI!CanProceed(s, r) \in BOOLEAN
    BY DEF InstanceUI!CanProceed, InstanceUI!IsValid, InstanceUI!RequiresLoaderVersion, Stages, RequestType
  <1>2. InstanceUI!LoaderVersions(r) \subseteq Build
    BY DEF InstanceUI!LoaderVersions, RequestType, InstanceUI!AnyFamily, Build
  <1> QED BY <1>1, <1>2 DEF InstanceUI!Drawing, DrawingType, RequestType

LEMMA EmptyIsRequest == InstanceUI!EmptyRequest \in RequestType
  <1>1. /\ InstanceUI!Vanilla \in InstanceUI!AnyFamily /\ InstanceUI!Blank \in Version
        /\ InstanceUI!NoBuild \in Build
    BY DEF InstanceUI!AnyFamily, Version, Build
  <1> QED BY <1>1 DEF InstanceUI!EmptyRequest, RequestType

LEMMA WizardKeeps ==
  ASSUME WizardInv, InstanceUI!Vanilla \notin Family,
         \/ \E l \in InstanceUI!AnyFamily : InstanceUI!SetLoader(l)
         \/ \E v \in GameVersions \cup {InstanceUI!Blank} : InstanceUI!SetGameVersion(v)
         \/ \E b \in drawn.builds : InstanceUI!SetLoaderVersion(b)
         \/ InstanceUI!Configure \/ InstanceUI!Back \/ InstanceUI!Proceed \/ InstanceUI!Recompose
         \/ InstanceUI!LeaveWizard
  PROVE  WizardInv' /\ UNCHANGED <<instances, detail, launch, runJob, barrier>>
  <1>0. step \in Stages /\ request \in RequestType /\ drawn \in DrawingType
    BY DEF WizardInv
  <1>1. ASSUME NEW l \in InstanceUI!AnyFamily, InstanceUI!SetLoader(l)
        PROVE  WizardInv' /\ InstanceUI!OthersStay
    <2>1. /\ request' = [request EXCEPT !.loader = l,
                 !.build = IF l = InstanceUI!Vanilla THEN InstanceUI!NoBuild ELSE @,
                 !.of = IF l = InstanceUI!Vanilla THEN InstanceUI!Blank ELSE @]
          /\ UNCHANGED <<step, drawn>> /\ InstanceUI!OthersStay /\ drawn.step = "loader"
      BY <1>1 DEF InstanceUI!SetLoader, InstanceUI!Request
    <2>2. InstanceUI!NoBuild \in Build /\ InstanceUI!Blank \in Version
      BY DEF Build, Version
    <2>3. request' \in RequestType
      BY <1>0, <2>1, <2>2 DEF RequestType
    <2>4. /\ request'.version = request.version
          /\ request'.build # InstanceUI!NoBuild =>
               request'.build = request.build /\ request'.of = request.of
      BY <1>0, <2>1 DEF RequestType
    <2> QED BY <1>0, <2>1, <2>3, <2>4 DEF WizardInv
  <1>2. ASSUME NEW v \in GameVersions \cup {InstanceUI!Blank}, InstanceUI!SetGameVersion(v)
        PROVE  WizardInv' /\ InstanceUI!OthersStay
    <2>1. /\ request' = [request EXCEPT !.version = v, !.build = InstanceUI!NoBuild,
                                        !.of = InstanceUI!Blank]
          /\ UNCHANGED <<step, drawn>> /\ InstanceUI!OthersStay /\ drawn.step = "game_version"
      BY <1>2 DEF InstanceUI!SetGameVersion, InstanceUI!Request
    <2>2. InstanceUI!NoBuild \in Build /\ InstanceUI!Blank \in Version /\ v \in Version
      BY DEF Build, Version
    <2>3. request' \in RequestType
      BY <1>0, <2>1, <2>2 DEF RequestType
    <2>4. request'.build = InstanceUI!NoBuild
      BY <1>0, <2>1 DEF RequestType
    <2> QED BY <1>0, <2>1, <2>3, <2>4 DEF WizardInv
  <1>3. ASSUME NEW b \in drawn.builds, InstanceUI!SetLoaderVersion(b)
        PROVE  WizardInv' /\ InstanceUI!OthersStay
    BY <1>0, <1>3
    DEF WizardInv, InstanceUI!SetLoaderVersion, InstanceUI!Request, RequestType, DrawingType
  <1>4. ASSUME InstanceUI!Configure PROVE WizardInv' /\ InstanceUI!OthersStay
    BY <1>0, <1>4 DEF WizardInv, InstanceUI!Configure, InstanceUI!Request, RequestType
  <1>5. ASSUME InstanceUI!Back \/ InstanceUI!Proceed PROVE WizardInv' /\ InstanceUI!OthersStay
    BY <1>0, <1>5
    DEF WizardInv, InstanceUI!Back, InstanceUI!Proceed, InstanceUI!Turn, InstanceUI!NextStep,
        InstanceUI!PreviousStep, Stages
  <1>6. ASSUME InstanceUI!Recompose PROVE WizardInv' /\ InstanceUI!OthersStay
    <2>1. drawn' = InstanceUI!Drawing(step, request) /\ UNCHANGED <<step, request>>
          /\ InstanceUI!OthersStay
      BY <1>6 DEF InstanceUI!Recompose
    <2>2. drawn' \in DrawingType
      BY <1>0, <2>1, DrawingIsDrawn
    <2>3. drawn'.step = "review" /\ drawn'.ok => InstanceUI!IsValid(request)
      BY <2>1 DEF InstanceUI!Drawing, InstanceUI!CanProceed
    <2>4. drawn'.of = request.version
      BY <2>1 DEF InstanceUI!Drawing
    <2>5. InstanceUI!IsValid(request)' <=> InstanceUI!IsValid(request)
      BY <2>1 DEF InstanceUI!IsValid
    <2> QED BY <2>1, <2>2, <2>3, <2>4, <2>5 DEF WizardInv
  <1>7. ASSUME InstanceUI!LeaveWizard PROVE WizardInv' /\ InstanceUI!OthersStay
    <2>1. /\ step' = "loader" /\ request' = InstanceUI!EmptyRequest
          /\ drawn' = InstanceUI!Drawing("loader", InstanceUI!EmptyRequest)
          /\ InstanceUI!OthersStay
      BY <1>7 DEF InstanceUI!LeaveWizard
    <2>2. InstanceUI!EmptyRequest \in RequestType
      BY EmptyIsRequest
    <2>3. drawn' \in DrawingType
      BY <2>1, <2>2, DrawingIsDrawn DEF Stages
    <2>4. drawn'.step = "loader"
      BY <2>1 DEF InstanceUI!Drawing
    <2>5. request'.build = InstanceUI!NoBuild
      BY <2>1 DEF InstanceUI!EmptyRequest
    <2> QED BY <2>1, <2>2, <2>3, <2>4, <2>5 DEF WizardInv, Stages
  <1> QED
    BY <1>1, <1>2, <1>3, <1>4, <1>5, <1>6, <1>7 DEF InstanceUI!OthersStay, InstanceUI!dashVars


-----------------------------------------------------------------------------
(* The list: an id is looked for among more candidates than there are      *)
(* instances.                                                              *)
LEMMA DefaultIdIsWords ==
  ASSUME InstanceUI!InstanceAssumption, NEW r \in RequestType
  PROVE  InstanceUI!DefaultId(r) \in Seq(Word)
  <1>1. /\ r.loader \in Word /\ r.build \in Word
    BY DEF RequestType, Word
  <1>2. r.version \in Seq(Word)
    <2>1. CASE r.version = InstanceUI!Blank
      BY <2>1 DEF InstanceUI!Blank
    <2>2. CASE r.version \in GameVersions
      <3>1. InstanceUI!IsSequence(r.version)
        BY <2>2 DEF InstanceUI!InstanceAssumption
      <3>2. \A i \in DOMAIN r.version : r.version[i] \in Word
        BY <2>2 DEF Word
      <3> QED BY <3>1, <3>2, SequenceOf DEF InstanceUI!IsSequence, IsSequence
    <2> QED BY <2>1, <2>2 DEF RequestType, Version
  <1>3. <<r.loader>> \in Seq(Word) /\ <<r.build>> \in Seq(Word) /\ <<>> \in Seq(Word)
    BY <1>1
  <1>4. (IF r.build = InstanceUI!NoBuild THEN <<>> ELSE <<r.build>>) \in Seq(Word)
    BY <1>3
  <1> QED BY <1>2, <1>3, <1>4 DEF InstanceUI!DefaultId

LEMMA InstanceIdIsFree ==
  ASSUME InstanceUI!InstanceAssumption, request \in RequestType, instances \in Seq(InstanceType)
  PROVE  /\ InstanceUI!UniqueId(request) \in Seq(Word)
         /\ InstanceUI!UniqueId(request) \notin IdsIn(instances)
  <1> DEFINE d == InstanceUI!DefaultId(request)
             T == IdsIn(instances)
             c == [n \in Nat |-> IF n = 0 THEN d ELSE Append(d, n)]
             Free(n) == c[n] \notin T /\ \A m \in 0 .. n - 1 : c[m] \in T
  <1>1. d \in Seq(Word)
    BY DefaultIdIsWords
  <1>2. IsFiniteSet(T) /\ Cardinality(T) \in Nat /\ Cardinality(T) <= Len(instances)
        /\ Len(instances) \in Nat
    BY OneEachCounts
  <1> HIDE DEF d, T
  <1>3. \A n \in Nat : c[n] = IF n = 0 THEN d ELSE Append(d, n)
    OBVIOUS
  <1>4. \A n \in Nat : n \in Word
    BY DEF Word
  <1>5. ASSUME NEW i \in Nat, NEW j \in Nat, c[i] = c[j] PROVE i = j
    <2>1. ASSUME NEW n \in Nat \ {0}
          PROVE  /\ Append(d, n) \in Seq(Word) /\ Len(Append(d, n)) = Len(d) + 1
                 /\ Append(d, n)[Len(d) + 1] = n
      BY <1>1, <1>4
    <2>2. Len(d) \in Nat
      BY <1>1
    <2>3. CASE i # 0 /\ j # 0
      BY <1>3, <1>5, <2>1, <2>3
    <2>4. CASE i = 0 /\ j # 0
      BY <1>3, <1>5, <2>1, <2>2, <2>4
    <2>5. CASE i # 0 /\ j = 0
      BY <1>3, <1>5, <2>1, <2>2, <2>5
    <2> QED BY <2>3, <2>4, <2>5
  <1>6. \A n \in Nat : c[n] \in Seq(Word)
    BY <1>1, <1>3, <1>4
  <1> HIDE DEF c
  <1>7. \E n \in 0 .. Cardinality(T) : Free(n)
    <2>1. \A i, j \in 0 .. 0 + Cardinality(T) : c[i] = c[j] => i = j
      BY <1>2, <1>5
    <2>2. \E m \in 0 .. 0 + Cardinality(T) : c[m] \notin T /\ \A j \in 0 .. m - 1 : c[j] \in T
      BY <1>2, <2>1, FirstIsFree
    <2> QED BY <1>2, <2>2
  <1>8. \E n \in 0 .. Len(instances) : Free(n)
    BY <1>2, <1>7
  <1> DEFINE k == CHOOSE n \in 0 .. Len(instances) : Free(n)
  <1>9. k \in 0 .. Len(instances) /\ Free(k)
    BY <1>8
  <1>10. InstanceUI!UniqueId(request) = c[k]
    <2> DEFINE C(n) == IF n = 0 THEN d ELSE Append(d, n)
               q == CHOOSE n \in 0 .. Len(instances) :
                      C(n) \notin T /\ \A m \in 0 .. n - 1 : C(m) \in T
    <2>1. InstanceUI!UniqueId(request) = C(q)
      BY DEF InstanceUI!UniqueId, InstanceUI!Ids, IdsIn, d, T
    <2>2. \A n \in 0 .. Len(instances) :
            (C(n) \notin T /\ \A m \in 0 .. n - 1 : C(m) \in T) <=> Free(n)
      BY <1>2, <1>3
    <2>3. q = k
      BY <2>2
    <2>4. C(k) = c[k]
      BY <1>3, <1>9
    <2> QED BY <2>1, <2>3, <2>4
  <1> HIDE DEF k
  <1> QED BY <1>2, <1>6, <1>9, <1>10 DEF T

(* What Revised leaves: x for what had its id, all the rest as it was.     *)
LEMMA RevisedKeeps ==
  ASSUME NEW s \in Seq(InstanceType), NEW x \in InstanceType, OneEach(s), x.id \in IdsIn(s)
  PROVE  LET t == InstanceUI!Revised(s, x)
         IN  /\ t \in Seq(InstanceType) /\ OneEach(t) /\ x \in Elements(t)
             /\ \A y \in Elements(t) : y = x \/ (y \in Elements(s) /\ y.id # x.id)
             /\ \A y \in Elements(s) : y.id = x.id \/ y \in Elements(t)
  <1> DEFINE t == InstanceUI!Revised(s, x)
  <1>1. DOMAIN s = 1 .. Len(s) /\ Len(s) \in Nat /\ \A i \in DOMAIN s : s[i] \in InstanceType
    BY Indices
  <1>2. t = [i \in DOMAIN s |-> IF s[i].id = x.id THEN x ELSE s[i]]
    BY DEF InstanceUI!Revised
  <1> HIDE DEF t
  <1>3. DOMAIN t = DOMAIN s /\ \A i \in DOMAIN s : t[i] = IF s[i].id = x.id THEN x ELSE s[i]
    BY <1>2
  <1>4. t \in Seq(InstanceType)
    BY <1>1, <1>2
  <1>5. OneEach(t)
    BY <1>3 DEF OneEach
  <1>6. x \in Elements(t)
    <2>1. PICK i \in DOMAIN s : x.id = s[i].id
      BY DEF IdsIn
    <2>2. i \in DOMAIN t /\ t[i] = x
      BY <1>3, <2>1
    <2> QED BY <2>2 DEF Elements
  <1>7. \A y \in Elements(t) : y = x \/ (y \in Elements(s) /\ y.id # x.id)
    BY <1>3 DEF Elements
  <1>8. \A y \in Elements(s) : y.id = x.id \/ y \in Elements(t)
    BY <1>3 DEF Elements
  <1> QED BY <1>4, <1>5, <1>6, <1>7, <1>8 DEF t

(* The instance stored under an id is the one that has it.                 *)
LEMMA StoredIsIt ==
  ASSUME ListInv(instances), NEW id
  PROVE  /\ InstanceUI!At(id) # {} <=> id \in IdsIn(instances)
         /\ InstanceUI!At(id) # {} =>
              /\ InstanceUI!Stored(id) \in Elements(instances) /\ InstanceUI!Stored(id).id = id
              /\ InstanceUI!Stored(id) \in InstanceType
         /\ \A x \in Elements(instances) : x.id = id => x = InstanceUI!Stored(id)
  <1> DEFINE A == {i \in DOMAIN instances : instances[i].id = id}
             k == CHOOSE i \in A : TRUE
  <1>1. InstanceUI!At(id) = A /\ InstanceUI!Stored(id) = instances[k]
    BY DEF InstanceUI!At, InstanceUI!Stored
  <1>2. A # {} <=> id \in IdsIn(instances)
    BY DEF IdsIn
  <1>3. ASSUME A # {} PROVE k \in A
    BY <1>3
  <1> HIDE DEF k
  <1>4. \A i \in DOMAIN instances : instances[i] \in InstanceType
    BY Indices DEF ListInv
  <1>5. ASSUME NEW x \in Elements(instances), x.id = id PROVE x = instances[k]
    <2>1. PICK i \in DOMAIN instances : x = instances[i]
      BY DEF Elements
    <2>2. i \in A
      BY <1>5, <2>1
    <2> QED BY <1>3, <2>1, <2>2 DEF ListInv, OneEach
  <1> QED BY <1>1, <1>2, <1>3, <1>4, <1>5 DEF Elements


(* What a step leaves of each instance: the thing itself, perhaps played,  *)
(* unless it is the one the detail screen shows.                           *)
Kept(list, next, open) ==
  \A x \in Elements(list) :
    \/ x \in Elements(next) \/ [x EXCEPT !.played = TRUE] \in Elements(next)
    \/ open # <<>> /\ open[1].id = x.id

LEMMA CreateKeeps ==
  ASSUME InstanceInv, InstanceUI!InstanceAssumption, InstanceUI!Create
  PROVE  InstanceInv' /\ Kept(instances, instances', detail)
  <1> DEFINE id == InstanceUI!UniqueId(request)
             x  == InstanceUI!BuildInstance(request, id)
             t  == But(instances, id)
  <1>1. /\ request \in RequestType /\ instances \in Seq(InstanceType) /\ OneEach(instances)
        /\ drawn.step = "review" /\ drawn.ok
        /\ UNCHANGED <<step, request, drawn, detail, launch, runJob, barrier>>
    BY DEF InstanceInv, WizardInv, ListInv, InstanceUI!Create, InstanceUI!wizardVars,
           InstanceUI!dashVars
  <1>2. id \in Seq(Word) /\ id \notin IdsIn(instances)
    BY <1>1, InstanceIdIsFree
  <1>3. x \in InstanceType /\ x.id = id
    <2> HIDE DEF id
    <2> QED BY <1>1, <1>2 DEF InstanceUI!BuildInstance, RequestType, InstanceType
  <1>4. Sound(x)
    <2>1. InstanceUI!IsValid(request) /\ (request.build # InstanceUI!NoBuild => request.of = request.version)
      BY <1>1 DEF InstanceInv, WizardInv
    <2>2. x.version = request.version /\ x.loader = request.loader /\ x.build = request.build
          /\ x.of = request.of
      BY DEF InstanceUI!BuildInstance
    <2> HIDE DEF x
    <2> QED BY <2>1, <2>2 DEF Sound, InstanceUI!IsValid, InstanceUI!RequiresLoaderVersion
  <1>5. instances' = Append(t, x)
    <2>1. instances' = InstanceUI!Added(instances, x)
      BY DEF InstanceUI!Create
    <2>2. InstanceUI!Without(instances, x.id) = t
      BY <1>3 DEF InstanceUI!Without, InstanceUI!Subsequence, But, Subsequence
    <2> QED BY <2>1, <2>2 DEF InstanceUI!Added
  <1> HIDE DEF id, x
  <1>6. /\ t \in Seq(InstanceType) /\ IdsIn(t) = IdsIn(instances) \ {id} /\ OneEach(t)
        /\ \A y : y \in Elements(t) <=> y \in Elements(instances) /\ y.id # id
    BY <1>1, ButKeeps
  <1>7. Elements(t) = Elements(instances)
    BY <1>2, <1>6 DEF Elements, IdsIn
  <1> HIDE DEF t
  <1>8. /\ instances' \in Seq(InstanceType) /\ OneEach(instances')
        /\ Elements(instances') = Elements(instances) \cup {x}
    <2>1. x.id \notin IdsIn(t)
      BY <1>3, <1>6
    <2>2. /\ Append(t, x) \in Seq(InstanceType) /\ Elements(Append(t, x)) = Elements(t) \cup {x}
          /\ OneEach(Append(t, x))
      BY <1>3, <1>6, <2>1, AppendAdds
    <2> QED BY <1>5, <1>7, <2>2
  <1>9. ListInv(instances')
    BY <1>4, <1>8 DEF ListInv, InstanceInv
  <1>10. DetailInv(instances', detail)
    BY <1>8 DEF DetailInv, InstanceInv
  <1>11. WizardInv' /\ DashInv'
    BY <1>1 DEF InstanceInv, WizardInv, DashInv, InstanceUI!IdleRunsNothing, InstanceUI!IsValid,
                InstanceUI!RequiresLoaderVersion
  <1> QED BY <1>1, <1>8, <1>9, <1>10, <1>11 DEF InstanceInv, Kept

(* The detail screen. *)
LEMMA DetailKeeps ==
  ASSUME InstanceInv,
         \/ \E id \in InstanceUI!Ids(instances) : InstanceUI!Open(id)
         \/ InstanceUI!Edit \/ InstanceUI!DeleteDetail
  PROVE  InstanceInv' /\ Kept(instances, instances', detail)
  <1>1. /\ instances \in Seq(InstanceType) /\ OneEach(instances) /\ ListInv(instances)
        /\ DetailInv(instances, detail) /\ \A x \in Elements(instances) : Sound(x)
    BY DEF InstanceInv, ListInv
  <1>2. ASSUME ListInv(instances'), DetailInv(instances', detail'),
               Kept(instances, instances', detail),
               UNCHANGED <<step, request, drawn, launch, runJob, barrier>>
        PROVE  InstanceInv' /\ Kept(instances, instances', detail)
    BY <1>2 DEF InstanceInv, WizardInv, DashInv, InstanceUI!IdleRunsNothing, InstanceUI!IsValid,
                InstanceUI!RequiresLoaderVersion
  <1>3. ASSUME NEW id \in InstanceUI!Ids(instances), InstanceUI!Open(id)
        PROVE  InstanceInv' /\ Kept(instances, instances', detail)
    <2>1. /\ detail' = IF InstanceUI!At(id) = {} THEN <<>> ELSE <<InstanceUI!Stored(id)>>
          /\ UNCHANGED <<instances, step, request, drawn, launch, runJob, barrier>>
      BY <1>3 DEF InstanceUI!Open, InstanceUI!wizardVars, InstanceUI!dashVars
    <2>2. DetailInv(instances, detail')
      BY <1>1, <2>1, StoredIsIt DEF DetailInv, SameBut
    <2> QED BY <1>1, <1>2, <2>1, <2>2 DEF Kept
  <1>4. ASSUME InstanceUI!Edit PROVE InstanceInv' /\ Kept(instances, instances', detail)
    <2>0. detail # <<>>
      BY <1>4 DEF InstanceUI!Edit
    <2>1. PICK y \in InstanceType : detail = <<y>> /\ detail[1] = y
      BY <1>1, <2>0 DEF DetailInv
    <2>2. PICK z \in Elements(instances) : SameBut(z, y)
      BY <1>1, <2>1 DEF DetailInv
    <2>3. ASSUME NEW x \in InstanceType, InstanceUI!Update(x), x.id = y.id, x.loader = y.loader,
                 x.version = y.version, x.build = y.build, x.of = y.of
          PROVE  InstanceInv' /\ Kept(instances, instances', detail)
      <3>1. /\ detail' = <<x>> /\ instances' = InstanceUI!Revised(instances, x)
            /\ UNCHANGED <<step, request, drawn, launch, runJob, barrier>>
        BY <2>3 DEF InstanceUI!Update, InstanceUI!wizardVars, InstanceUI!dashVars
      <3>2. x.id \in IdsIn(instances)
        BY <2>2, <2>3 DEF SameBut, Elements, IdsIn
      <3>3. /\ instances' \in Seq(InstanceType) /\ OneEach(instances')
            /\ x \in Elements(instances')
            /\ \A q \in Elements(instances') : q = x \/ (q \in Elements(instances) /\ q.id # x.id)
            /\ \A q \in Elements(instances) : q.id = x.id \/ q \in Elements(instances')
        BY <1>1, <3>1, <3>2, RevisedKeeps
      <3>4. Sound(x)
        BY <1>1, <2>2, <2>3 DEF Sound, SameBut
      <3>5. ListInv(instances')
        BY <1>1, <3>3, <3>4 DEF ListInv
      <3>6. detail'[1] = x /\ SameBut(x, x)
        BY <3>1 DEF SameBut
      <3>7. DetailInv(instances', detail')
        BY <3>1, <3>3, <3>6 DEF DetailInv
      <3>8. Kept(instances, instances', detail)
        BY <2>1, <2>3, <3>3 DEF Kept
      <3> QED BY <1>2, <3>1, <3>5, <3>7, <3>8
    <2>4. ASSUME NEW n \in BOOLEAN, InstanceUI!Update([y EXCEPT !.named = n])
          PROVE  InstanceInv' /\ Kept(instances, instances', detail)
      BY <2>3, <2>4 DEF InstanceType
    <2>5. ASSUME NEW c \in BOOLEAN,
                 InstanceUI!Update([y EXCEPT !.custom = c, !.dir = c /\ @])
          PROVE  InstanceInv' /\ Kept(instances, instances', detail)
      BY <2>3, <2>5 DEF InstanceType
    <2>6. ASSUME NEW d \in BOOLEAN, InstanceUI!Update([y EXCEPT !.dir = d])
          PROVE  InstanceInv' /\ Kept(instances, instances', detail)
      BY <2>3, <2>6 DEF InstanceType
    <2> QED BY <1>4, <2>1, <2>4, <2>5, <2>6 DEF InstanceUI!Edit
  <1>5. ASSUME InstanceUI!DeleteDetail PROVE InstanceInv' /\ Kept(instances, instances', detail)
    <2> DEFINE id == detail[1].id
    <2>1. /\ detail # <<>> /\ detail' = <<>> /\ instances' = InstanceUI!Without(instances, id)
          /\ UNCHANGED <<step, request, drawn, launch, runJob, barrier>>
      BY <1>5 DEF InstanceUI!DeleteDetail, InstanceUI!wizardVars, InstanceUI!dashVars
    <2>2. InstanceUI!Without(instances, id) = But(instances, id)
      BY DEF InstanceUI!Without, InstanceUI!Subsequence, But, Subsequence
    <2> HIDE DEF id
    <2>3. /\ instances' \in Seq(InstanceType) /\ OneEach(instances')
          /\ \A x : x \in Elements(instances') <=> x \in Elements(instances) /\ x.id # id
      BY <1>1, <2>1, <2>2, ButKeeps
    <2>4. ListInv(instances')
      BY <1>1, <2>3 DEF ListInv
    <2>5. DetailInv(instances', detail')
      BY <2>1 DEF DetailInv
    <2>6. Kept(instances, instances', detail)
      BY <2>1, <2>3 DEF Kept, id
    <2> QED BY <1>2, <2>1, <2>4, <2>5, <2>6
  <1> QED BY <1>3, <1>4, <1>5

(* The dashboards. *)
LEMMA DashKeeps ==
  ASSUME InstanceInv, Home \in Dashboard,
         \/ InstanceUI!Stop
         \/ \E d \in Dashboard : InstanceUI!Prepared(d) \/ InstanceUI!Clear(d)
  PROVE  DashInv' /\ UNCHANGED <<instances, step, request, drawn, detail>>
  <1>1. /\ launch \in [Dashboard -> {"idle", "launching", "running"}]
        /\ runJob \in [Dashboard -> {"none", "prepare", "run"}]
        /\ barrier \subseteq Dashboard /\ InstanceUI!IdleRunsNothing
    BY DEF InstanceInv, DashInv
  <1>2. ASSUME NEW ds \in SUBSET Dashboard, InstanceUI!End(ds) PROVE DashInv'
    BY <1>1, <1>2 DEF InstanceUI!End, DashInv, InstanceUI!IdleRunsNothing
  <1>3. ASSUME InstanceUI!Stop PROVE DashInv' /\ UNCHANGED <<instances, step, request, drawn, detail>>
    BY <1>1, <1>2, <1>3 DEF InstanceUI!Stop, InstanceUI!wizardVars
  <1>4. ASSUME NEW d \in Dashboard, InstanceUI!Clear(d)
        PROVE  DashInv' /\ UNCHANGED <<instances, step, request, drawn, detail>>
    BY <1>2, <1>4 DEF InstanceUI!Clear, InstanceUI!wizardVars
  <1>5. ASSUME NEW d \in Dashboard, InstanceUI!Prepared(d)
        PROVE  DashInv' /\ UNCHANGED <<instances, step, request, drawn, detail>>
    BY <1>1, <1>5
    DEF InstanceUI!Prepared, InstanceUI!wizardVars, DashInv, InstanceUI!IdleRunsNothing
  <1> QED BY <1>3, <1>4, <1>5

LEMMA LaunchKeeps ==
  ASSUME InstanceInv, NEW d \in Dashboard, NEW id, InstanceUI!Launch(d, id)
  PROVE  InstanceInv' /\ Kept(instances, instances', detail)
  <1> DEFINE s == InstanceUI!Stored(id)
             x == [s EXCEPT !.played = TRUE]
  <1>1. /\ instances \in Seq(InstanceType) /\ OneEach(instances) /\ ListInv(instances)
        /\ DetailInv(instances, detail) /\ \A y \in Elements(instances) : Sound(y)
    BY DEF InstanceInv, ListInv
  <1>2. /\ InstanceUI!At(id) # {} /\ instances' = InstanceUI!Revised(instances, x)
        /\ launch' = [launch EXCEPT ![d] = "launching"]
        /\ runJob' = [runJob EXCEPT ![d] = "prepare"]
        /\ UNCHANGED <<barrier, step, request, drawn, detail>>
    BY DEF InstanceUI!Launch, InstanceUI!wizardVars
  <1>3. /\ s \in Elements(instances) /\ s.id = id /\ s \in InstanceType
        /\ \A y \in Elements(instances) : y.id = id => y = s
    BY <1>1, <1>2, StoredIsIt
  <1> HIDE DEF s
  <1>4. /\ x \in InstanceType /\ x.id = id /\ SameBut(s, x) /\ x = [s EXCEPT !.played = TRUE]
    BY <1>3 DEF InstanceType, SameBut
  <1>5. x.id \in IdsIn(instances)
    BY <1>3, <1>4 DEF Elements, IdsIn
  <1> HIDE DEF x
  <1>6. /\ instances' \in Seq(InstanceType) /\ OneEach(instances')
        /\ x \in Elements(instances')
        /\ \A q \in Elements(instances') : q = x \/ (q \in Elements(instances) /\ q.id # x.id)
        /\ \A q \in Elements(instances) : q.id = x.id \/ q \in Elements(instances')
    BY <1>1, <1>2, <1>4, <1>5, RevisedKeeps
  <1>7. Sound(x)
    BY <1>1, <1>3, <1>4 DEF Sound, SameBut
  <1>8. ListInv(instances')
    BY <1>1, <1>6, <1>7 DEF ListInv
  <1>9. DetailInv(instances', detail')
    <2>1. detail' = detail
      BY <1>2
    <2>2. ASSUME detail # <<>> PROVE \E q \in Elements(instances') : SameBut(q, detail[1])
      <3>1. PICK y \in Elements(instances) : SameBut(y, detail[1])
        BY <1>1, <2>2 DEF DetailInv
      <3>2. CASE y.id = id
        <4>1. y = s
          BY <1>3, <3>2
        <4>2. SameBut(x, detail[1])
          BY <1>4, <3>1, <4>1 DEF SameBut
        <4> QED BY <1>6, <4>2
      <3>3. CASE y.id # id
        BY <1>4, <1>6, <3>1, <3>3
      <3> QED BY <3>2, <3>3
    <2> QED BY <1>1, <2>1, <2>2 DEF DetailInv
  <1>10. Kept(instances, instances', detail)
    <2>1. ASSUME NEW y \in Elements(instances), y.id = x.id PROVE [y EXCEPT !.played = TRUE] = x
      <3>1. y = s
        BY <1>3, <1>4, <2>1
      <3> QED BY <1>4, <3>1
    <2> QED BY <1>6, <2>1 DEF Kept
  <1>11. DashInv'
    BY <1>2 DEF InstanceInv, DashInv, InstanceUI!IdleRunsNothing
  <1>12. WizardInv'
    BY <1>2 DEF InstanceInv, WizardInv, InstanceUI!IsValid, InstanceUI!RequiresLoaderVersion
  <1> QED BY <1>8, <1>9, <1>10, <1>11, <1>12 DEF InstanceInv

LEMMA InstanceNextKeeps ==
  ASSUME InstanceInv, InstanceUI!InstanceAssumption, InstanceUI!InstanceNext
  PROVE  InstanceInv' /\ Kept(instances, instances', detail)
  <1>1. ASSUME UNCHANGED <<instances, detail>>, WizardInv', DashInv'
        PROVE  InstanceInv' /\ Kept(instances, instances', detail)
    BY <1>1 DEF InstanceInv, Kept
  <1>2. ASSUME \/ \E l \in InstanceUI!AnyFamily : InstanceUI!SetLoader(l)
               \/ \E v \in GameVersions \cup {InstanceUI!Blank} : InstanceUI!SetGameVersion(v)
               \/ \E b \in drawn.builds : InstanceUI!SetLoaderVersion(b)
               \/ InstanceUI!Configure \/ InstanceUI!Back \/ InstanceUI!Proceed
               \/ InstanceUI!Recompose \/ InstanceUI!LeaveWizard
        PROVE  InstanceInv' /\ Kept(instances, instances', detail)
    <2>1. WizardInv' /\ UNCHANGED <<instances, detail, launch, runJob, barrier>>
      BY <1>2, WizardKeeps DEF InstanceInv, InstanceUI!InstanceAssumption
    <2>2. DashInv'
      BY <2>1 DEF InstanceInv, DashInv, InstanceUI!IdleRunsNothing
    <2> QED BY <1>1, <2>1, <2>2
  <1>3. ASSUME \/ InstanceUI!Stop
               \/ \E d \in Dashboard : InstanceUI!Prepared(d) \/ InstanceUI!Clear(d)
        PROVE  InstanceInv' /\ Kept(instances, instances', detail)
    <2>1. DashInv' /\ UNCHANGED <<instances, step, request, drawn, detail>>
      BY <1>3, DashKeeps DEF InstanceUI!InstanceAssumption
    <2>2. WizardInv'
      BY <2>1 DEF InstanceInv, WizardInv, InstanceUI!IsValid, InstanceUI!RequiresLoaderVersion
    <2> QED BY <1>1, <2>1, <2>2
  <1> QED
    BY <1>2, <1>3, CreateKeeps, DetailKeeps, LaunchKeeps DEF InstanceUI!InstanceNext

LEMMA InstanceInitHolds ==
  ASSUME InstanceUI!InstanceAssumption, InstanceUI!InstanceInit PROVE InstanceInv
  <1>1. PICK v \in GameVersions :
          instances = <<InstanceUI!Seed([InstanceUI!EmptyRequest EXCEPT !.version = v])>>
    BY DEF InstanceUI!InstanceInit
  <1> DEFINE r == [InstanceUI!EmptyRequest EXCEPT !.version = v]
             x == InstanceUI!Seed(r)
  <1>2. r \in RequestType
    <2>1. v \in Version
      BY DEF Version
    <2> QED BY <2>1, EmptyIsRequest DEF RequestType
  <1>3. r.version = v /\ r.loader = InstanceUI!Vanilla /\ r.build = InstanceUI!NoBuild
    BY DEF InstanceUI!EmptyRequest
  <1>4. InstanceUI!DefaultId(r) \in Seq(Word)
    BY <1>2, DefaultIdIsWords
  <1> HIDE DEF r
  <1>5. x \in InstanceType
    BY <1>2, <1>4 DEF InstanceUI!Seed, InstanceUI!BuildInstance, InstanceType, RequestType
  <1>6. Sound(x)
    BY <1>3 DEF InstanceUI!Seed, InstanceUI!BuildInstance, Sound, InstanceUI!InstanceAssumption
  <1> HIDE DEF x
  <1>7. instances = <<x>>
    BY <1>1 DEF x, r
  <1>8. instances \in Seq(InstanceType) /\ DOMAIN instances = {1} /\ instances[1] = x
    BY <1>5, <1>7
  <1>9. ListInv(instances)
    BY <1>6, <1>8 DEF ListInv, OneEach, Elements
  <1>10. WizardInv
    <2>1. /\ step = "loader" /\ request = InstanceUI!EmptyRequest
          /\ drawn = InstanceUI!Drawing("loader", InstanceUI!EmptyRequest)
      BY DEF InstanceUI!InstanceInit
    <2>2. InstanceUI!EmptyRequest \in RequestType /\ step \in Stages
      BY <2>1, EmptyIsRequest DEF Stages
    <2>3. drawn \in DrawingType
      BY <2>1, <2>2, DrawingIsDrawn DEF InstanceUI!InstanceAssumption
    <2>4. drawn.step = "loader"
      BY <2>1 DEF InstanceUI!Drawing
    <2>5. request.build = InstanceUI!NoBuild
      BY <2>1 DEF InstanceUI!EmptyRequest
    <2> QED BY <2>1, <2>2, <2>3, <2>4, <2>5 DEF WizardInv
  <1>11. DashInv /\ DetailInv(instances, detail)
    BY DEF InstanceUI!InstanceInit, DashInv, InstanceUI!IdleRunsNothing, DetailInv
  <1> QED BY <1>9, <1>10, <1>11 DEF InstanceInv

LEMMA InstanceInvMeans == InstanceInv => InstanceUI!InstancesSound
  <1> SUFFICES ASSUME InstanceInv PROVE InstanceUI!InstancesSound
    OBVIOUS
  <1>1. instances \in Seq(InstanceType) /\ OneEach(instances) /\ ListInv(instances)
        /\ DetailInv(instances, detail)
    BY DEF InstanceInv, ListInv
  <1>2. InstanceUI!EachItsOwn
    <2>1. Cardinality(IdsIn(instances)) = Len(instances)
      BY <1>1, OneEachCounts
    <2> QED BY <2>1 DEF InstanceUI!EachItsOwn, InstanceUI!Ids, IdsIn, InstanceUI!Cardinality,
                       Cardinality
  <1>3. InstanceUI!WizardIsSound
    BY <1>1 DEF InstanceInv, WizardInv, ListInv, Sound, Elements, InstanceUI!WizardIsSound
  <1>4. InstanceUI!InstanceTypeOK
    <2>1. Len(detail) <= 1
      <3>1. CASE detail = <<>>
        BY <3>1
      <3>2. ASSUME NEW x \in InstanceType, detail = <<x>> PROVE Len(detail) <= 1
        <4>1. Len(<<x>>) = 1
          OBVIOUS
        <4> QED BY <3>2, <4>1
      <3> QED BY <1>1, <3>1, <3>2 DEF DetailInv
    <2> QED BY <2>1 DEF InstanceInv, WizardInv, DashInv, Stages, RequestType, InstanceUI!InstanceTypeOK
  <1>5. ASSUME detail # <<>>
        PROVE  /\ InstanceUI!At(detail[1].id) # {}
               /\ [InstanceUI!Stored(detail[1].id) EXCEPT !.played = detail[1].played] = detail[1]
    <2>1. PICK y \in InstanceType : detail[1] = y
      BY <1>1, <1>5 DEF DetailInv
    <2>2. PICK z \in Elements(instances) : SameBut(z, y)
      BY <1>1, <1>5, <2>1 DEF DetailInv
    <2>3. z \in InstanceType /\ z.id \in IdsIn(instances)
      BY <1>1, Indices DEF Elements, IdsIn
    <2>4. InstanceUI!At(z.id) # {} /\ z = InstanceUI!Stored(z.id)
      BY <1>1, <2>3, StoredIsIt
    <2>5. [z EXCEPT !.played = y.played] = y
      BY <2>1, <2>2, <2>3 DEF SameBut, InstanceType
    <2> QED BY <2>1, <2>2, <2>4, <2>5 DEF SameBut
  <1>6. InstanceUI!IdleRunsNothing
    BY DEF InstanceInv, DashInv
  <1> QED BY <1>2, <1>3, <1>4, <1>5, <1>6 DEF InstanceUI!InstancesSound, InstanceUI!DetailIsStored


-----------------------------------------------------------------------------
(* The editor of control layouts.  What it needs of a store is the same in *)
(* memory, on disk and between the two edits of a call; index and bodies   *)
(* differ at most in the entry such a call is about, and a kill can leave  *)
(* one more of those behind.                                               *)

Name == Title \cup {Catalog[i].name : i \in DOMAIN Catalog}
IdWord == (UNION {{n[i] : i \in DOMAIN n} : n \in Name})
            \cup (UNION {{Catalog[i].id[k] : k \in DOMAIN Catalog[i].id} : i \in DOMAIN Catalog})
            \cup {"custom"} \cup Nat
Shapes == UNION {Elements(Catalog[i].elements) : i \in DOMAIN Catalog}
ElementWord == (UNION {{e.id[k] : k \in DOMAIN e.id} : e \in Shapes}) \cup ElementKind \cup Nat

LayoutId == Seq(IdWord)
ElementType == [id : Seq(ElementWord), look : Look]
LayoutType == [id : LayoutId, name : Name, elements : Seq(ElementType), editable : BOOLEAN]
EntryType == [id : LayoutId, name : Name]
PrefsType == [layout : LayoutId, rest : {0, 1}]

LayoutOK(l) ==
  /\ l \in LayoutType /\ OneEach(l.elements)
  /\ l.editable => l.id \notin IdsIn(Catalog)

IndexOK(index) ==
  index \in Seq(EntryType) /\ OneEach(index) /\ IdsIn(index) \cap IdsIn(Catalog) = {}

StoreOK(s) ==
  /\ IndexOK(s.index) /\ IsFiniteSet(DOMAIN s.body)
  /\ \A id \in DOMAIN s.body :
       /\ id \notin IdsIn(Catalog)
       /\ s.body[id] # <<>> => LayoutOK(s.body[id]) /\ s.body[id].id = id

Odd(s) == (IdsIn(s.index) \ DOMAIN s.body) \cup (DOMAIN s.body \ IdsIn(s.index))

StorageInv ==
  /\ StoreOK(saved) /\ StoreOK(savedOnDisk) /\ editorKills \in Nat
  /\ Cardinality(Odd(saved)) <= editorKills /\ Cardinality(Odd(savedOnDisk)) <= editorKills + 1

ShownInv ==
  /\ LayoutOK(layout) /\ (~dirty => layout = EditorUI!Reload(saved, layout.id))
  /\ picked = <<>> \/ picked \in IdsIn(layout.elements)
  /\ dirty \in BOOLEAN

PrefsInv ==
  /\ prefs \in PrefsType /\ prefsOnDisk \in PrefsType /\ shownPrefs \in PrefsType
  /\ prefs.rest = shownPrefs.rest

EditorInv ==
  /\ StorageInv /\ ShownInv /\ PrefsInv
  /\ IndexOK(listed) /\ edits \in 0 .. MaxEdits

LEMMA RangeIsElements == \A s : EditorUI!Range(s) = Elements(s)
  BY DEF EditorUI!Range, Elements

LEMMA NamesAreWords ==
  ASSUME EditorUI!EditorAssumption, NEW n \in Name PROVE n \in Seq(IdWord)
  <1>1. n \in Title \cup {l.name : l \in EditorUI!Range(Catalog)}
    BY DEF Name, EditorUI!Range
  <1>2. IsSequence(n)
    BY <1>1 DEF EditorUI!EditorAssumption, EditorUI!IsSequence, IsSequence
  <1>3. \A i \in DOMAIN n : n[i] \in IdWord
    BY DEF IdWord
  <1> QED BY <1>2, <1>3, SequenceOf

LEMMA CatalogIsTyped ==
  ASSUME EditorUI!EditorAssumption
  PROVE  /\ Catalog \in Seq(LayoutType) /\ OneEach(Catalog)
         /\ 1 \in DOMAIN Catalog
         /\ \A i \in DOMAIN Catalog : LayoutOK(Catalog[i]) /\ ~Catalog[i].editable
  <1> DEFINE R == EditorUI!Range(Catalog)
  <1>1. IsSequence(Catalog) /\ Catalog # <<>>
    BY DEF EditorUI!EditorAssumption, EditorUI!IsSequence, IsSequence
  <1>2. OneEach(Catalog)
    BY DEF EditorUI!EditorAssumption, OneEach
  <1>3. ASSUME NEW i \in DOMAIN Catalog PROVE LayoutOK(Catalog[i]) /\ ~Catalog[i].editable
    <2> DEFINE l == Catalog[i]
    <2>1. l \in R
      BY DEF EditorUI!Range
    <2>2. /\ l = [id |-> l.id, name |-> l.name, elements |-> l.elements, editable |-> FALSE]
          /\ IsSequence(l.id)
          /\ IsSequence(l.elements)
          /\ OneEach(l.elements)
          /\ \A e \in EditorUI!Range(l.elements) :
               /\ e = [id |-> e.id, look |-> e.look] /\ IsSequence(e.id)
               /\ e.look \in Look
      BY <2>1 DEF EditorUI!EditorAssumption, OneEach, EditorUI!IsSequence, IsSequence
    <2>3. l.id \in LayoutId
      <3>1. \A k \in DOMAIN l.id : l.id[k] \in IdWord
        BY DEF IdWord
      <3> QED BY <2>2, <3>1, SequenceOf DEF LayoutId
    <2>4. l.name \in Name
      BY DEF Name
    <2>5. l.elements \in Seq(ElementType)
      <3>1. ASSUME NEW k \in DOMAIN l.elements PROVE l.elements[k] \in ElementType
        <4> DEFINE e == l.elements[k]
        <4>1. e \in EditorUI!Range(l.elements) /\ e \in Shapes
          BY DEF EditorUI!Range, Shapes, Elements
        <4>2. \A m \in DOMAIN e.id : e.id[m] \in ElementWord
          BY <4>1 DEF ElementWord
        <4>3. e = [id |-> e.id, look |-> e.look] /\ IsSequence(e.id) /\ e.look \in Look
          BY <2>2, <4>1
        <4>4. e.id \in Seq(ElementWord)
          BY <4>2, <4>3, SequenceOf
        <4> HIDE DEF e
        <4>5. e \in ElementType
          BY <4>3, <4>4 DEF ElementType
        <4> QED BY <4>5 DEF e
      <3> QED BY <2>2, <3>1, SequenceOf
    <2> HIDE DEF l
    <2>6. ~l.editable /\ l \in LayoutType
      <3>1. l = [id |-> l.id, name |-> l.name, elements |-> l.elements, editable |-> FALSE]
        BY <2>2
      <3>2. l.editable = FALSE
        BY <3>1
      <3>3. [id |-> l.id, name |-> l.name, elements |-> l.elements, editable |-> FALSE] \in LayoutType
        BY <2>3, <2>4, <2>5 DEF LayoutType
      <3>4. l \in LayoutType
        BY <3>1, <3>3
      <3> QED BY <3>2, <3>4
    <2>7. LayoutOK(l) /\ ~l.editable
      BY <2>2, <2>6 DEF LayoutOK
    <2> QED BY <2>7 DEF l
  <1>4. Catalog \in Seq(LayoutType)
    BY <1>1, <1>3, SequenceOf DEF LayoutOK
  <1>5. 1 \in DOMAIN Catalog
    <2>1. DOMAIN Catalog = 1 .. Len(Catalog) /\ Len(Catalog) \in Nat
      BY <1>4, Indices
    <2> QED BY <1>1, <1>4, <2>1
  <1> QED BY <1>2, <1>3, <1>4, <1>5

LEMMA LayoutIsNotNil == ASSUME NEW l \in LayoutType PROVE l # <<>>
  <1>1. DOMAIN l = {"id", "name", "elements", "editable"}
    BY DEF LayoutType
  <1>2. DOMAIN <<>> = {}
    OBVIOUS
  <1> QED BY <1>1, <1>2

(* The first free id that FirstFree looks for is there, and free.          *)
LEMMA FirstFreeIsFree ==
  ASSUME NEW T, IsFiniteSet(T), NEW n \in Nat, NEW W, Nat \subseteq W, NEW stem \in Seq(W)
  PROVE  LET id == EditorUI!FirstFree(stem, n, T) IN id \in Seq(W) /\ id \notin T
  <1> DEFINE c == [m \in Nat |-> Append(stem, m)]
             Free(m) == Append(stem, m) \notin T /\ \A j \in n .. m - 1 : Append(stem, j) \in T
             k == CHOOSE m \in n .. n + Cardinality(T) : Free(m)
  <1>1. Cardinality(T) \in Nat
    BY FS_CardinalityType
  <1>2. ASSUME NEW m \in Nat
        PROVE  /\ Append(stem, m) \in Seq(W) /\ Append(stem, m)[Len(stem) + 1] = m
               /\ c[m] = Append(stem, m)
    <2>1. m \in W
      OBVIOUS
    <2> QED BY <2>1
  <1>3. \A i, j \in n .. n + Cardinality(T) : c[i] = c[j] => i = j
    <2>1. \A i \in n .. n + Cardinality(T) : i \in Nat
      BY <1>1
    <2> QED BY <1>2, <2>1
  <1> HIDE DEF c
  <1>4. \E m \in n .. n + Cardinality(T) : c[m] \notin T /\ \A j \in n .. m - 1 : c[j] \in T
    BY <1>1, <1>3, FirstIsFree
  <1>5. \E m \in n .. n + Cardinality(T) : Free(m)
    <2>1. PICK m \in n .. n + Cardinality(T) : c[m] \notin T /\ \A j \in n .. m - 1 : c[j] \in T
      BY <1>4
    <2>2. m \in Nat /\ \A j \in n .. m - 1 : j \in Nat
      BY <1>1
    <2> QED BY <1>2, <2>1, <2>2
  <1>6. k \in n .. n + Cardinality(T) /\ Free(k)
    BY <1>5
  <1>7. EditorUI!FirstFree(stem, n, T) = Append(stem, k)
    BY DEF EditorUI!FirstFree, EditorUI!Cardinality, Cardinality
  <1> HIDE DEF k
  <1>8. k \in Nat
    BY <1>1, <1>6
  <1> QED BY <1>2, <1>6, <1>7, <1>8

LEMMA ElementIdIsFree ==
  ASSUME NEW els \in Seq(ElementType), NEW prefix \in ElementKind
  PROVE  LET id == EditorUI!UniqueElementId(prefix, els)
         IN  id \in Seq(ElementWord) /\ id \notin IdsIn(els)
  <1>1. IsFiniteSet(IdsIn(els))
    BY OneEachCounts
  <1>2. <<prefix>> \in Seq(ElementWord) /\ Nat \subseteq ElementWord
    BY DEF ElementWord
  <1>3. Len(els) + 1 \in Nat
    OBVIOUS
  <1>4. EditorUI!Ids(els) = IdsIn(els)
    BY DEF EditorUI!Ids, IdsIn
  <1> DEFINE stem == <<prefix>>
  <1>5. EditorUI!UniqueElementId(prefix, els) = EditorUI!FirstFree(stem, Len(els) + 1, IdsIn(els))
    BY <1>4 DEF EditorUI!UniqueElementId
  <1> HIDE DEF stem
  <1>6. stem \in Seq(ElementWord)
    BY <1>2 DEF stem
  <1> QED BY <1>1, <1>2, <1>3, <1>5, <1>6, FirstFreeIsFree

LEMMA LayoutIdIsFree ==
  ASSUME EditorUI!EditorAssumption, StoreOK(saved), NEW slug \in Name
  PROVE  LET id == EditorUI!UniqueId(slug)
         IN  id \in LayoutId /\ id \notin IdsIn(Catalog) /\ id \notin IdsIn(saved.index)
  <1> DEFINE T == IdsIn(Catalog) \cup IdsIn(saved.index)
             base == EditorUI!Custom(slug)
  <1>1. IsFiniteSet(T)
    <2>1. IsFiniteSet(IdsIn(Catalog))
      BY CatalogIsTyped, OneEachCounts
    <2>2. IsFiniteSet(IdsIn(saved.index))
      BY OneEachCounts DEF StoreOK, IndexOK
    <2> QED BY <2>1, <2>2, FS_Union
  <1>2. base \in Seq(IdWord) /\ Nat \subseteq IdWord
    <2>1. slug \in Seq(IdWord)
      BY NamesAreWords
    <2>2. "custom" \in IdWord /\ Nat \subseteq IdWord
      BY DEF IdWord
    <2>3. <<"custom">> \in Seq(IdWord)
      BY <2>2
    <2> QED BY <2>1, <2>2, <2>3 DEF EditorUI!Custom
  <1>3. EditorUI!UniqueId(slug) = IF base \notin T THEN base ELSE EditorUI!FirstFree(base, 1, T)
    BY DEF EditorUI!UniqueId, EditorUI!Ids, IdsIn
  <1>4. EditorUI!FirstFree(base, 1, T) \in Seq(IdWord) /\ EditorUI!FirstFree(base, 1, T) \notin T
    <2> HIDE DEF base, T
    <2>1. 1 \in Nat
      OBVIOUS
    <2> QED BY <1>1, <1>2, <2>1, FirstFreeIsFree
  <1> QED BY <1>2, <1>3, <1>4 DEF LayoutId


(* What a call leaves between its two edits and after them: the body cut,  *)
(* then its entry; the body put, then its entry.                           *)
Cut(s, id) == [index |-> s.index, body |-> EditorUI!Drop(s.body, id)]
Gone(s, id) == [index |-> But(s.index, id), body |-> EditorUI!Drop(s.body, id)]
Half(s, l) == [index |-> s.index, body |-> EditorUI!Put(s.body, l.id, l)]
Whole(s, l) ==
  [index |-> Append(But(s.index, l.id), [id |-> l.id, name |-> l.name]),
   body  |-> EditorUI!Put(s.body, l.id, l)]

Near(s, t) == StoreOK(t) /\ \E id : Odd(t) \subseteq Odd(s) \cup {id}
Bodies(s, t, ids) ==
  \A k \in ids : k \in DOMAIN s.body /\ s.body[k] # <<>> =>
    k \in DOMAIN t.body /\ t.body[k] = s.body[k]

LEMMA WithoutIsBut == \A s, id : EditorUI!Without(s, id) = But(s, id)
  BY DEF EditorUI!Without, EditorUI!Subsequence, But, Subsequence

LEMMA CutKeeps ==
  ASSUME NEW s, StoreOK(s), NEW id
  PROVE  /\ StoreOK(Cut(s, id)) /\ Odd(Cut(s, id)) \subseteq Odd(s) \cup {id}
         /\ StoreOK(Gone(s, id)) /\ Odd(Gone(s, id)) \subseteq Odd(s)
         /\ \A ids : id \notin ids => Bodies(s, Gone(s, id), ids)
  <1> DEFINE b == EditorUI!Drop(s.body, id)
             x == But(s.index, id)
  <1>1. DOMAIN b = DOMAIN s.body \ {id} /\ \A k \in DOMAIN b : b[k] = s.body[k]
    BY DEF EditorUI!Drop
  <1>2. IsFiniteSet(DOMAIN b)
    BY <1>1, FS_Subset DEF StoreOK
  <1>3. x \in Seq(EntryType) /\ OneEach(x) /\ IdsIn(x) = IdsIn(s.index) \ {id}
    BY ButKeeps DEF StoreOK, IndexOK
  <1>4. IndexOK(x)
    BY <1>3 DEF StoreOK, IndexOK
  <1>5. /\ Cut(s, id).index = s.index /\ Cut(s, id).body = b
        /\ Gone(s, id).index = x /\ Gone(s, id).body = b
    BY DEF Cut, Gone
  <1> HIDE DEF b, x
  <1>6. StoreOK(Cut(s, id)) /\ StoreOK(Gone(s, id))
    BY <1>1, <1>2, <1>4, <1>5 DEF StoreOK
  <1>7. Odd(Cut(s, id)) \subseteq Odd(s) \cup {id} /\ Odd(Gone(s, id)) \subseteq Odd(s)
    BY <1>1, <1>3, <1>5 DEF Odd
  <1>8. \A ids : id \notin ids => Bodies(s, Gone(s, id), ids)
    BY <1>1, <1>5 DEF Bodies
  <1> QED BY <1>6, <1>7, <1>8

LEMMA PutKeeps ==
  ASSUME NEW s, StoreOK(s), NEW l, LayoutOK(l), l.editable
  PROVE  /\ StoreOK(Half(s, l)) /\ Odd(Half(s, l)) \subseteq Odd(s) \cup {l.id}
         /\ StoreOK(Whole(s, l)) /\ Odd(Whole(s, l)) \subseteq Odd(s)
         /\ l.id \in DOMAIN Whole(s, l).body /\ Whole(s, l).body[l.id] = l
         /\ \A ids : l.id \notin ids => Bodies(s, Whole(s, l), ids)
  <1> DEFINE id == l.id
             b == EditorUI!Put(s.body, id, l)
             y == But(s.index, id)
             e == [id |-> id, name |-> l.name]
             x == Append(y, e)
  <1>1. /\ DOMAIN b = DOMAIN s.body \cup {id}
        /\ \A k \in DOMAIN b : b[k] = IF k = id THEN l ELSE s.body[k]
    BY DEF EditorUI!Put
  <1>2. IsFiniteSet(DOMAIN b)
    BY <1>1, FS_AddElement DEF StoreOK
  <1>3. y \in Seq(EntryType) /\ OneEach(y) /\ IdsIn(y) = IdsIn(s.index) \ {id}
    BY ButKeeps DEF StoreOK, IndexOK
  <1>4. e \in EntryType /\ e.id = id
    BY DEF LayoutOK, LayoutType, EntryType
  <1>5. /\ Half(s, l).index = s.index /\ Half(s, l).body = b
        /\ Whole(s, l).index = x /\ Whole(s, l).body = b
    BY DEF Half, Whole
  <1> HIDE DEF b, y, e
  <1>6. x \in Seq(EntryType) /\ OneEach(x) /\ IdsIn(x) = IdsIn(s.index) \cup {id}
    <2>1. e.id \notin IdsIn(y)
      BY <1>3, <1>4
    <2>2. x \in Seq(EntryType) /\ OneEach(x) /\ IdsIn(x) = IdsIn(y) \cup {e.id}
      BY <1>3, <1>4, <2>1, AppendAdds
    <2> QED BY <1>3, <1>4, <2>2
  <1> HIDE DEF x
  <1>7. id \notin IdsIn(Catalog)
    BY DEF LayoutOK
  <1>8. IndexOK(x)
    BY <1>6, <1>7 DEF StoreOK, IndexOK
  <1>9. StoreOK(Half(s, l)) /\ StoreOK(Whole(s, l))
    BY <1>1, <1>2, <1>5, <1>7, <1>8 DEF StoreOK
  <1>10. Odd(Half(s, l)) \subseteq Odd(s) \cup {id} /\ Odd(Whole(s, l)) \subseteq Odd(s)
    BY <1>1, <1>5, <1>6 DEF Odd
  <1>11. \A ids : id \notin ids => Bodies(s, Whole(s, l), ids)
    BY <1>1, <1>5 DEF Bodies
  <1> QED BY <1>1, <1>5, <1>9, <1>10, <1>11

LEMMA OddCounts ==
  ASSUME NEW s, StoreOK(s), NEW t, NEW n \in Nat, Cardinality(Odd(s)) <= n
  PROVE  /\ Odd(t) \subseteq Odd(s) => Cardinality(Odd(t)) <= n
         /\ Near(s, t) => Cardinality(Odd(t)) <= n + 1
  <1>1. IsFiniteSet(Odd(s)) /\ Cardinality(Odd(s)) \in Nat
    <2>1. IsFiniteSet(IdsIn(s.index)) /\ IsFiniteSet(DOMAIN s.body)
      BY OneEachCounts DEF StoreOK, IndexOK
    <2>2. IsFiniteSet(IdsIn(s.index) \cup DOMAIN s.body)
      BY <2>1, FS_Union
    <2>3. Odd(s) \subseteq IdsIn(s.index) \cup DOMAIN s.body
      BY DEF Odd
    <2>4. IsFiniteSet(Odd(s))
      BY <2>2, <2>3, FS_Subset
    <2> QED BY <2>4, FS_CardinalityType
  <1>2. ASSUME Odd(t) \subseteq Odd(s) PROVE Cardinality(Odd(t)) <= n
    <2>1. Cardinality(Odd(t)) <= Cardinality(Odd(s)) /\ Cardinality(Odd(t)) \in Nat
      BY <1>1, <1>2, FS_Subset, FS_CardinalityType
    <2> QED BY <1>1, <2>1
  <1>3. ASSUME NEW id, Odd(t) \subseteq Odd(s) \cup {id} PROVE Cardinality(Odd(t)) <= n + 1
    <2> DEFINE u == Odd(s) \cup {id}
    <2>0. /\ IsFiniteSet(u)
          /\ Cardinality(u) = IF id \in Odd(s) THEN Cardinality(Odd(s)) ELSE Cardinality(Odd(s)) + 1
      <3> DEFINE o == Odd(s)
      <3> HIDE DEF o
      <3> QED BY <1>1, FS_AddElement DEF o
    <2>1. IsFiniteSet(u) /\ Cardinality(u) <= Cardinality(Odd(s)) + 1 /\ Cardinality(u) \in Nat
      BY <1>1, <2>0
    <2> HIDE DEF u
    <2>2. Odd(t) \subseteq u
      BY <1>3 DEF u
    <2>3. Cardinality(Odd(t)) <= Cardinality(u) /\ Cardinality(Odd(t)) \in Nat
      BY <2>1, <2>2, FS_Subset, FS_CardinalityType
    <2> QED BY <1>1, <2>1, <2>3
  <1> QED BY <1>2, <1>3 DEF Near

(* A layout of the catalog is found there, whatever the store holds.       *)
LEMMA BuiltInIsFound ==
  ASSUME EditorUI!EditorAssumption, NEW id
  PROVE  /\ EditorUI!BuiltIn(id) # {} <=> id \in IdsIn(Catalog)
         /\ \A s : \A i \in DOMAIN Catalog :
              Catalog[i].id = id => EditorUI!Reload(s, id) = Catalog[i]
  <1> DEFINE B == EditorUI!BuiltIn(id)
  <1>1. \A l : l \in B <=> \E j \in DOMAIN Catalog : Catalog[j].id = id /\ l = Catalog[j]
    BY DEF EditorUI!BuiltIn
  <1>2. B # {} <=> id \in IdsIn(Catalog)
    BY <1>1 DEF IdsIn
  <1>3. ASSUME NEW s, NEW i \in DOMAIN Catalog, Catalog[i].id = id
        PROVE  EditorUI!Reload(s, id) = Catalog[i]
    <2>1. B = {Catalog[i]}
      BY <1>1, <1>3, CatalogIsTyped DEF OneEach
    <2>2. (CHOOSE l \in B : TRUE) = Catalog[i]
      BY <2>1
    <2> QED BY <2>1, <2>2 DEF EditorUI!Reload
  <1> QED BY <1>2, <1>3

LEMMA ReloadIsLayout ==
  ASSUME EditorUI!EditorAssumption, NEW s, StoreOK(s), NEW id
  PROVE  LET l == EditorUI!Reload(s, id)
         IN  /\ LayoutOK(l) /\ EditorUI!Reload(s, l.id) = l
             /\ \/ \A t : EditorUI!Reload(t, l.id) = l
                \/ l.id = id /\ id \in DOMAIN s.body /\ s.body[id] = l /\ l # <<>>
  <1> DEFINE l == EditorUI!Reload(s, id)
  <1>1. ASSUME NEW i \in DOMAIN Catalog, l = Catalog[i]
        PROVE  LayoutOK(l) /\ \A t : EditorUI!Reload(t, l.id) = l
    <2> HIDE DEF l
    <2> QED BY <1>1, CatalogIsTyped, BuiltInIsFound
  <1>2. CASE id \in IdsIn(Catalog)
    <2>1. \E i \in DOMAIN Catalog : l = Catalog[i]
      BY <1>2, BuiltInIsFound DEF IdsIn
    <2> QED BY <1>1, <2>1
  <1>3. CASE id \notin IdsIn(Catalog)
    <2>1. EditorUI!BuiltIn(id) = {}
      BY <1>3, BuiltInIsFound
    <2>2. CASE EditorUI!Body(s, id) \in {{}, {EditorUI!Nil}}
      <3>1. l = Catalog[1]
        BY <2>1, <2>2 DEF EditorUI!Reload
      <3> QED BY <1>1, <3>1, CatalogIsTyped
    <2>3. CASE EditorUI!Body(s, id) \notin {{}, {EditorUI!Nil}}
      <3>1. l = s.body[id]
        BY <2>1, <2>3 DEF EditorUI!Reload
      <3>2. id \in DOMAIN s.body /\ s.body[id] # <<>>
        BY <2>3 DEF EditorUI!Body, EditorUI!Nil
      <3>3. LayoutOK(l) /\ l.id = id
        BY <3>1, <3>2 DEF StoreOK
      <3> QED BY <3>1, <3>2, <3>3
    <2> QED BY <2>2, <2>3
  <1> QED BY <1>2, <1>3

(* What is stored under an id of no layout of the catalog is reloaded.     *)
LEMMA StoredIsReloaded ==
  ASSUME EditorUI!EditorAssumption, NEW s, NEW id, id \notin IdsIn(Catalog),
         id \in DOMAIN s.body, s.body[id] # <<>>
  PROVE  EditorUI!Reload(s, id) = s.body[id]
  <1>1. EditorUI!BuiltIn(id) = {}
    BY BuiltInIsFound
  <1>2. EditorUI!Body(s, id) \notin {{}, {EditorUI!Nil}}
    BY DEF EditorUI!Body, EditorUI!Nil
  <1> QED BY <1>1, <1>2 DEF EditorUI!Reload

LEMMA LoadKeeps ==
  ASSUME EditorUI!EditorAssumption, NEW s, StoreOK(s), NEW id
  PROVE  LET ld   == EditorUI!Load(s, id)
             last == EditorUI!Last(ld)
             l    == EditorUI!Reload(s, id)
         IN  /\ \A t \in EditorUI!Range(ld) : Near(s, t)
             /\ StoreOK(last) /\ Odd(last) \subseteq Odd(s)
             /\ LayoutOK(l) /\ EditorUI!Reload(last, l.id) = l
             /\ \A ids : Bodies(s, last, ids)
             /\ <<s>> \o Tail(ld) = ld
             /\ id \in IdsIn(Catalog) => ld = <<s>>
  <1> DEFINE ld   == EditorUI!Load(s, id)
             last == EditorUI!Last(ld)
             l    == EditorUI!Reload(s, id)
  <1>1. Near(s, s)
    BY DEF Near
  <1>2. \A ids : Bodies(s, s, ids)
    BY DEF Bodies
  <1>3. LayoutOK(l) /\ EditorUI!Reload(s, l.id) = l
    BY ReloadIsLayout
  <1>4. id \in IdsIn(Catalog) => ~EditorUI!Broken(s, id)
    BY BuiltInIsFound DEF EditorUI!Broken
  <1>5. CASE ~EditorUI!Broken(s, id)
    <2>1. ld = <<s>>
      BY <1>5 DEF EditorUI!Load
    <2>2. last = s /\ EditorUI!Range(ld) = {s} /\ <<s>> \o Tail(ld) = ld
      <3>1. Len(<<s>>) = 1 /\ DOMAIN <<s>> = {1} /\ <<s>>[1] = s /\ Tail(<<s>>) = <<>>
            /\ <<s>> \o <<>> = <<s>>
        OBVIOUS
      <3> QED BY <2>1, <3>1 DEF EditorUI!Last, EditorUI!Range
    <2> HIDE DEF ld, last, l
    <2>3. /\ \A t \in EditorUI!Range(ld) : Near(s, t)
          /\ StoreOK(last) /\ Odd(last) \subseteq Odd(s)
          /\ EditorUI!Reload(last, l.id) = l /\ \A ids : Bodies(s, last, ids)
      BY <1>1, <1>2, <1>3, <2>2
    <2> QED BY <1>3, <2>1, <2>2, <2>3 DEF ld, last, l
  <1>6. CASE EditorUI!Broken(s, id)
    <2>1. id \in DOMAIN s.body /\ s.body[id] = <<>> /\ id \notin IdsIn(Catalog)
      BY <1>6, BuiltInIsFound DEF EditorUI!Broken, EditorUI!Body, EditorUI!Nil
    <2>2. ld = <<s, Cut(s, id), Gone(s, id)>>
      <3> DEFINE cut == EditorUI!StoreWith(s.index, EditorUI!Drop(s.body, id))
      <3>1. ld = <<s, cut, [cut EXCEPT !.index = EditorUI!Without(@, id)]>>
        BY <1>6 DEF EditorUI!Load
      <3>2. cut = Cut(s, id)
        BY DEF EditorUI!StoreWith, Cut
      <3>3. [cut EXCEPT !.index = EditorUI!Without(@, id)] = Gone(s, id)
        BY <3>2, WithoutIsBut DEF Cut, Gone
      <3> HIDE DEF cut
      <3> QED BY <3>1, <3>2, <3>3
    <2> DEFINE c == Cut(s, id)
               g == Gone(s, id)
    <2>3. last = g /\ EditorUI!Range(ld) = {s, c, g} /\ <<s>> \o Tail(ld) = ld
      <3> HIDE DEF c, g
      <3>1. /\ Len(<<s, c, g>>) = 3 /\ DOMAIN <<s, c, g>> = 1 .. 3 /\ <<s, c, g>>[1] = s
            /\ <<s, c, g>>[2] = c /\ <<s, c, g>>[3] = g /\ Tail(<<s, c, g>>) = <<c, g>>
            /\ <<s>> \o <<c, g>> = <<s, c, g>>
        <4>1. Len(<<s, c, g>>) = 3 /\ DOMAIN <<s, c, g>> = 1 .. 3
          OBVIOUS
        <4>2. <<s, c, g>>[1] = s /\ <<s, c, g>>[2] = c /\ <<s, c, g>>[3] = g
          OBVIOUS
        <4>3. Tail(<<s, c, g>>) = <<c, g>>
          OBVIOUS
        <4>4. <<s>> \o <<c, g>> = <<s, c, g>>
          <5> DEFINE S == {s, c, g}
                     a == <<s>>
                     b == <<c, g>>
                     abc == <<s, c, g>>
                     ab == a \o b
          <5>1. a \in Seq(S) /\ b \in Seq(S) /\ abc \in Seq(S)
            OBVIOUS
          <5>2. /\ Len(a) = 1 /\ a[1] = s /\ Len(b) = 2 /\ b[1] = c /\ b[2] = g
                /\ Len(abc) = 3 /\ abc[1] = s /\ abc[2] = c /\ abc[3] = g
            OBVIOUS
          <5> HIDE DEF a, b, abc, S
          <5>3. ab \in Seq(S) /\ Len(ab) = 3 /\ ab[1] = s /\ ab[2] = c /\ ab[3] = g
            <6>1. /\ ab \in Seq(S) /\ Len(ab) = Len(a) + Len(b)
                  /\ \A i \in 1 .. Len(a) + Len(b) :
                       ab[i] = IF i <= Len(a) THEN a[i] ELSE b[i - Len(a)]
              BY <5>1, ConcatProperties
            <6> HIDE DEF ab
            <6>2. Len(ab) = 3 /\ \A i \in 1 .. 3 : ab[i] = IF i <= 1 THEN a[i] ELSE b[i - 1]
              BY <5>2, <6>1
            <6> QED BY <5>2, <6>1, <6>2
          <5> HIDE DEF ab
          <5>4. \A i \in 1 .. 3 : ab[i] = abc[i]
            BY <5>2, <5>3
          <5>5. ab = abc
            BY <5>1, <5>2, <5>3, <5>4, SeqEqual
          <5> QED BY <5>5 DEF a, b, abc, ab
        <4> QED BY <4>1, <4>2, <4>3, <4>4
      <3>2. ld = <<s, c, g>>
        BY <2>2 DEF c, g
      <3>3. 1 .. 3 = {1, 2, 3}
        OBVIOUS
      <3> HIDE DEF ld
      <3>4. last = g /\ <<s>> \o Tail(ld) = ld
        BY <3>1, <3>2 DEF EditorUI!Last
      <3>5. EditorUI!Range(ld) = {s, c, g}
        BY <3>1, <3>2, <3>3 DEF EditorUI!Range
      <3> QED BY <3>4, <3>5
    <2>4. /\ StoreOK(c) /\ Odd(c) \subseteq Odd(s) \cup {id}
          /\ StoreOK(g) /\ Odd(g) \subseteq Odd(s)
          /\ \A ids : id \notin ids => Bodies(s, g, ids)
      BY CutKeeps
    <2>5. \A ids : Bodies(s, g, ids)
      <3>1. ASSUME NEW ids PROVE Bodies(s, g, ids)
        <4>1. Bodies(s, g, ids \ {id})
          BY <2>4
        <4> HIDE DEF g
        <4> QED BY <2>1, <4>1 DEF Bodies
      <3> QED BY <3>1
    <2> HIDE DEF c, g, ld, last
    <2>6. Near(s, c) /\ Near(s, g)
      BY <2>4 DEF Near
    <2>7. EditorUI!Reload(last, l.id) = l
      <3>1. s.body[id] # l \/ l = <<>>
        BY <2>1
      <3>2. \A t : EditorUI!Reload(t, l.id) = l
        BY <2>1, ReloadIsLayout
      <3> QED BY <3>2
    <2> HIDE DEF l
    <2>8. /\ \A t \in EditorUI!Range(ld) : Near(s, t)
          /\ StoreOK(last) /\ Odd(last) \subseteq Odd(s)
          /\ EditorUI!Reload(last, l.id) = l /\ \A ids : Bodies(s, last, ids)
      BY <1>1, <2>3, <2>4, <2>5, <2>6, <2>7
    <2> QED BY <1>3, <2>1, <2>3, <2>8 DEF ld, last, l
  <1> QED BY <1>4, <1>5, <1>6


-----------------------------------------------------------------------------
(* One tap after another. *)
LEMMA TapCounts ==
  ASSUME EditorUI!EditorAssumption, edits \in 0 .. MaxEdits, EditorUI!Tap
  PROVE  edits' \in 0 .. MaxEdits
  BY DEF EditorUI!EditorAssumption, EditorUI!Tap

LEMMA ApplyKeeps ==
  ASSUME StorageInv, NEW states, EditorUI!Apply(states), UNCHANGED editorKills,
         \A t \in EditorUI!Range(states) : Near(saved, t),
         StoreOK(EditorUI!Last(states)), Odd(EditorUI!Last(states)) \subseteq Odd(saved)
  PROVE  StorageInv' /\ saved' = EditorUI!Last(states)
  <1>1. saved' = EditorUI!Last(states) /\ savedOnDisk' \in {savedOnDisk} \cup EditorUI!Range(states)
    BY DEF EditorUI!Apply
  <1>2. StoreOK(saved') /\ Cardinality(Odd(saved')) <= editorKills
    BY <1>1, OddCounts DEF StorageInv
  <1>3. StoreOK(savedOnDisk') /\ Cardinality(Odd(savedOnDisk')) <= editorKills + 1
    <2>1. CASE savedOnDisk' = savedOnDisk
      BY <2>1 DEF StorageInv
    <2>2. CASE savedOnDisk' \in EditorUI!Range(states)
      <3>1. Near(saved, savedOnDisk')
        BY <2>2
      <3> QED BY <3>1, OddCounts DEF StorageInv, Near
    <2> QED BY <1>1, <2>1, <2>2
  <1>4. StoreOK(saved)' /\ StoreOK(savedOnDisk)' /\ Odd(saved)' = Odd(saved')
        /\ Odd(savedOnDisk)' = Odd(savedOnDisk')
    BY <1>2, <1>3 DEF StoreOK, IndexOK, LayoutOK, IdsIn, OneEach, Odd
  <1> QED BY <1>1, <1>2, <1>3, <1>4 DEF StorageInv

(* loadLayout, on what the call before it left. *)
LEMMA LoadLayoutKeeps ==
  ASSUME EditorUI!EditorAssumption, EditorInv, NEW states, NEW id,
         EditorUI!LoadLayout(states, id), UNCHANGED <<editorKills, shownPrefs>>,
         StoreOK(EditorUI!Last(states)), Odd(EditorUI!Last(states)) \subseteq Odd(saved),
         LET all == states \o Tail(EditorUI!Load(EditorUI!Last(states), id))
         IN  /\ \A t \in EditorUI!Range(all) : Near(saved, t)
             /\ EditorUI!Last(all) = EditorUI!Last(EditorUI!Load(EditorUI!Last(states), id))
  PROVE  StorageInv' /\ ShownInv' /\ PrefsInv'
         /\ saved' = EditorUI!Last(EditorUI!Load(EditorUI!Last(states), id))
  <1> DEFINE s0   == EditorUI!Last(states)
             ld   == EditorUI!Load(s0, id)
             all  == states \o Tail(ld)
             last == EditorUI!Last(ld)
             l    == EditorUI!Reload(s0, id)
  <1>1. /\ StoreOK(last) /\ Odd(last) \subseteq Odd(s0) /\ LayoutOK(l)
        /\ EditorUI!Reload(last, l.id) = l
    BY LoadKeeps
  <1>2. /\ EditorUI!Apply(all) /\ layout' = l /\ dirty' = FALSE /\ picked' = <<>>
        /\ prefs' = [prefs EXCEPT !.layout = l.id] /\ prefsOnDisk' \in {prefsOnDisk, prefs'}
    BY DEF EditorUI!LoadLayout, EditorUI!Show, EditorUI!Nil, EditorUI!ApplyActiveLayoutId,
           EditorUI!Persist
  <1>3. Odd(last) \subseteq Odd(saved) /\ EditorUI!Last(all) = last
        /\ \A t \in EditorUI!Range(all) : Near(saved, t)
    BY <1>1
  <1>4. StorageInv
    BY DEF EditorInv
  <1> HIDE DEF s0, ld, all, last, l
  <1>5. StorageInv' /\ saved' = last
    BY <1>1, <1>2, <1>3, <1>4, ApplyKeeps
  <1>6. LayoutOK(layout)'
    BY <1>1, <1>2 DEF LayoutOK, OneEach, IdsIn
  <1>7. layout' = EditorUI!Reload(saved', layout'.id)
    BY <1>1, <1>2, <1>5
  <1>8. EditorUI!Reload(saved, layout.id)' = EditorUI!Reload(saved', layout'.id)
    BY DEF EditorUI!Reload, EditorUI!Body, EditorUI!BuiltIn, EditorUI!Nil
  <1>9. ShownInv'
    BY <1>2, <1>6, <1>7, <1>8 DEF ShownInv
  <1>10. PrefsInv'
    <2>1. l.id \in LayoutId
      BY <1>1 DEF LayoutOK, LayoutType
    <2>2. prefs' \in PrefsType /\ prefs'.rest = prefs.rest
      BY <1>2, <2>1 DEF EditorInv, PrefsInv, PrefsType
    <2> QED BY <1>2, <2>2 DEF EditorInv, PrefsInv
  <1> QED BY <1>5, <1>9, <1>10 DEF last, ld, s0

(* PickLayout and resetCurrent. *)
LEMMA PickKeeps ==
  ASSUME EditorUI!EditorAssumption, EditorInv, NEW id, EditorUI!Tap,
         EditorUI!LoadLayout(<<saved>>, id), UNCHANGED <<listed, shownPrefs, editorKills>>
  PROVE  EditorInv' /\ \A ids : Bodies(saved, saved', ids)
  <1> DEFINE states == <<saved>>
             ld     == EditorUI!Load(saved, id)
  <1>1. EditorUI!Last(states) = saved
    BY DEF EditorUI!Last
  <1>2. StoreOK(saved)
    BY DEF EditorInv, StorageInv
  <1>3. /\ \A t \in EditorUI!Range(ld) : Near(saved, t)
        /\ \A ids : Bodies(saved, EditorUI!Last(ld), ids)
        /\ states \o Tail(ld) = ld
    BY <1>2, LoadKeeps
  <1>4. EditorUI!LoadLayout(states, id)
    OBVIOUS
  <1> HIDE DEF states
  <1>5. LET all == states \o Tail(EditorUI!Load(EditorUI!Last(states), id))
        IN  /\ \A t \in EditorUI!Range(all) : Near(saved, t)
            /\ EditorUI!Last(all) = EditorUI!Last(EditorUI!Load(EditorUI!Last(states), id))
    BY <1>1, <1>3
  <1>6. StorageInv' /\ ShownInv' /\ PrefsInv' /\ saved' = EditorUI!Last(ld)
    <2>1. StoreOK(EditorUI!Last(states)) /\ Odd(EditorUI!Last(states)) \subseteq Odd(saved)
      BY <1>1, <1>2
    <2>2. /\ StorageInv' /\ ShownInv' /\ PrefsInv'
          /\ saved' = EditorUI!Last(EditorUI!Load(EditorUI!Last(states), id))
      BY <1>4, <1>5, <2>1, LoadLayoutKeeps
    <2> QED BY <1>1, <2>2
  <1>7. edits' \in 0 .. MaxEdits /\ IndexOK(listed)'
    BY TapCounts DEF EditorInv, IndexOK, IdsIn, OneEach
  <1> QED BY <1>3, <1>6, <1>7 DEF EditorInv

LEMMA DeleteKeeps ==
  ASSUME EditorUI!EditorAssumption, EditorInv, EditorUI!DeleteCurrent
  PROVE  EditorInv' /\ \A ids : layout.id \notin ids => Bodies(saved, saved', ids)
  <1> DEFINE id     == layout.id
             c      == Cut(saved, id)
             g      == Gone(saved, id)
             states == EditorUI!Delete(id)
             first  == Catalog[1].id
  <1>1. states = <<c, g>>
    <2> DEFINE cut == EditorUI!StoreWith(saved.index, EditorUI!Drop(saved.body, id))
    <2>1. states = <<cut, [cut EXCEPT !.index = EditorUI!Without(@, id)]>>
      BY DEF EditorUI!Delete
    <2>2. cut = c
      BY DEF EditorUI!StoreWith, Cut
    <2>3. [cut EXCEPT !.index = EditorUI!Without(@, id)] = g
      BY <2>2, WithoutIsBut DEF Cut, Gone
    <2> HIDE DEF cut, c, g
    <2> QED BY <2>1, <2>2, <2>3
  <1>2. StoreOK(saved) /\ IndexOK(listed)
    BY DEF EditorInv, StorageInv
  <1>3. /\ StoreOK(c) /\ Odd(c) \subseteq Odd(saved) \cup {id}
        /\ StoreOK(g) /\ Odd(g) \subseteq Odd(saved)
        /\ \A ids : id \notin ids => Bodies(saved, g, ids)
    BY <1>2, CutKeeps
  <1>4. /\ EditorUI!Tap /\ EditorUI!LoadLayout(states, first)
        /\ listed' = EditorUI!Last(states).index /\ UNCHANGED <<shownPrefs, editorKills>>
    BY DEF EditorUI!DeleteCurrent
  <1>5. Near(saved, c) /\ Near(saved, g)
    BY <1>3 DEF Near
  <1> HIDE DEF c, g, states, first
  <1>6. /\ EditorUI!Last(states) = g /\ EditorUI!Range(states) = {c, g}
        /\ states \o <<>> = states /\ EditorUI!Last(<<g>>) = g /\ Tail(<<g>>) = <<>>
    <2>1. /\ Len(<<c, g>>) = 2 /\ <<c, g>>[1] = c /\ <<c, g>>[2] = g /\ DOMAIN <<c, g>> = 1 .. 2
          /\ <<c, g>> \in Seq({c, g})
      OBVIOUS
    <2>2. 1 .. 2 = {1, 2}
      OBVIOUS
    <2>3. <<c, g>> \o <<>> = <<c, g>>
      BY <2>1, ConcatEmptySeq
    <2>4. EditorUI!Last(<<g>>) = g /\ Tail(<<g>>) = <<>>
      BY DEF EditorUI!Last
    <2> QED BY <1>1, <2>1, <2>2, <2>3, <2>4 DEF EditorUI!Last, EditorUI!Range
  <1>7. EditorUI!Load(g, first) = <<g>>
    <2>1. first \in IdsIn(Catalog)
      BY CatalogIsTyped DEF first, IdsIn
    <2> QED BY <1>3, <2>1, LoadKeeps
  <1>8. LET all == states \o Tail(EditorUI!Load(EditorUI!Last(states), first))
        IN  /\ \A t \in EditorUI!Range(all) : Near(saved, t)
            /\ EditorUI!Last(all) = EditorUI!Last(EditorUI!Load(EditorUI!Last(states), first))
    BY <1>5, <1>6, <1>7
  <1>9. StorageInv' /\ ShownInv' /\ PrefsInv' /\ saved' = g
    <2>1. StoreOK(EditorUI!Last(states)) /\ Odd(EditorUI!Last(states)) \subseteq Odd(saved)
      BY <1>3, <1>6
    <2>2. /\ StorageInv' /\ ShownInv' /\ PrefsInv'
          /\ saved' = EditorUI!Last(EditorUI!Load(EditorUI!Last(states), first))
      BY <1>4, <1>8, <2>1, LoadLayoutKeeps
    <2> QED BY <1>6, <1>7, <2>2
  <1>10. IndexOK(listed')
    BY <1>3, <1>4, <1>6 DEF StoreOK
  <1>11. edits' \in 0 .. MaxEdits
    BY <1>4, TapCounts DEF EditorInv
  <1>12. IndexOK(listed)'
    BY <1>10 DEF IndexOK, IdsIn, OneEach
  <1> QED BY <1>3, <1>9, <1>11, <1>12 DEF EditorInv

(* saveCurrent: under the id shown, or under one that is free.             *)
LEMMA SaveKeeps ==
  ASSUME EditorUI!EditorAssumption, EditorInv, NEW asCopy \in BOOLEAN,
         EditorUI!SaveCurrent(asCopy)
  PROVE  /\ EditorInv'
         /\ \A ids : layout.id \notin ids \/ asCopy = TRUE =>
              Bodies(saved, saved', ids \cap IdsIn(saved.index))
  <1> DEFINE id == IF layout.editable /\ ~asCopy THEN layout.id ELSE EditorUI!UniqueId(layout.name)
             l  == [layout EXCEPT !.id = id, !.editable = TRUE]
             h  == Half(saved, l)
             w  == Whole(saved, l)
             states == EditorUI!Save(l)
  <1>1. StoreOK(saved) /\ LayoutOK(layout) /\ layout \in LayoutType /\ StorageInv
    BY DEF EditorInv, StorageInv, ShownInv, LayoutOK
  <1>2. id \in LayoutId /\ id \notin IdsIn(Catalog)
    <2>1. CASE layout.editable /\ ~asCopy
      BY <1>1, <2>1 DEF LayoutOK, LayoutType
    <2>2. CASE ~(layout.editable /\ ~asCopy)
      <3>1. layout.name \in Name
        BY <1>1 DEF LayoutType
      <3> QED BY <1>1, <2>2, <3>1, LayoutIdIsFree
    <2> QED BY <2>1, <2>2
  <1>3. \A ids : layout.id \notin ids \/ asCopy = TRUE => id \notin ids \cap IdsIn(saved.index)
    <2>1. CASE layout.editable /\ ~asCopy
      BY <2>1
    <2>2. CASE ~(layout.editable /\ ~asCopy)
      <3>1. layout.name \in Name
        BY <1>1 DEF LayoutType
      <3> QED BY <1>1, <2>2, <3>1, LayoutIdIsFree
    <2> QED BY <2>1, <2>2
  <1>4. /\ EditorUI!Tap /\ EditorUI!Apply(states) /\ listed' = EditorUI!Last(states).index
        /\ layout' = l /\ dirty' = FALSE
        /\ prefs' = [prefs EXCEPT !.layout = id] /\ prefsOnDisk' \in {prefsOnDisk, prefs'}
        /\ UNCHANGED <<picked, shownPrefs, editorKills>>
    BY DEF EditorUI!SaveCurrent, EditorUI!Show, EditorUI!ApplyActiveLayoutId, EditorUI!Persist
  <1> HIDE DEF id
  <1>5. /\ l \in LayoutType /\ l.id = id /\ l.editable = TRUE /\ l.elements = layout.elements
    BY <1>1, <1>2 DEF LayoutType
  <1>6. states = <<h, w>>
    <2> HIDE DEF l
    <2> DEFINE put == EditorUI!StoreWith(saved.index, EditorUI!Put(saved.body, l.id, l))
               e   == [id |-> l.id, name |-> l.name]
    <2>1. states = <<put, [put EXCEPT !.index = Append(EditorUI!Without(@, l.id), e)]>>
      BY DEF EditorUI!Save
    <2>2. put = h
      BY DEF EditorUI!StoreWith, Half
    <2>3. [put EXCEPT !.index = Append(EditorUI!Without(@, l.id), e)] = w
      BY <2>2, WithoutIsBut DEF Half, Whole
    <2> HIDE DEF put, h, w, e
    <2> QED BY <2>1, <2>2, <2>3
  <1> HIDE DEF l
  <1>7. LayoutOK(l)
    BY <1>1, <1>2, <1>5 DEF LayoutOK
  <1>8. /\ StoreOK(h) /\ Odd(h) \subseteq Odd(saved) \cup {l.id}
        /\ StoreOK(w) /\ Odd(w) \subseteq Odd(saved)
        /\ l.id \in DOMAIN w.body /\ w.body[l.id] = l
        /\ \A ids : l.id \notin ids => Bodies(saved, w, ids)
    BY <1>1, <1>5, <1>7, PutKeeps
  <1> HIDE DEF h, w, states
  <1>9. Near(saved, h) /\ Near(saved, w)
    BY <1>8 DEF Near
  <1>10. EditorUI!Last(states) = w /\ EditorUI!Range(states) = {h, w}
    <2>1. /\ Len(<<h, w>>) = 2 /\ <<h, w>>[1] = h /\ <<h, w>>[2] = w /\ DOMAIN <<h, w>> = 1 .. 2
      OBVIOUS
    <2>2. 1 .. 2 = {1, 2}
      OBVIOUS
    <2> QED BY <1>6, <2>1, <2>2 DEF EditorUI!Last, EditorUI!Range
  <1>11. StorageInv' /\ saved' = w
    BY <1>1, <1>4, <1>8, <1>9, <1>10, ApplyKeeps
  <1>12. ShownInv'
    <2>1. EditorUI!Reload(w, l.id) = l
      BY <1>2, <1>5, <1>8, LayoutIsNotNil, StoredIsReloaded
    <2>2. EditorUI!Reload(saved, layout.id)' = EditorUI!Reload(saved', layout'.id)
      BY DEF EditorUI!Reload, EditorUI!Body, EditorUI!BuiltIn, EditorUI!Nil
    <2>3. LayoutOK(layout)'
      BY <1>4, <1>7 DEF LayoutOK, OneEach, IdsIn
    <2>4. (picked = <<>> \/ picked \in IdsIn(layout.elements))'
      BY <1>4, <1>5 DEF EditorInv, ShownInv
    <2> QED BY <1>4, <1>11, <2>1, <2>2, <2>3, <2>4 DEF ShownInv
  <1>13. PrefsInv'
    BY <1>2, <1>4 DEF EditorInv, PrefsInv, PrefsType
  <1>14. edits' \in 0 .. MaxEdits
    BY <1>4, TapCounts DEF EditorInv
  <1>15. IndexOK(listed)'
    <2>1. IndexOK(listed')
      BY <1>4, <1>8, <1>10 DEF StoreOK
    <2> QED BY <2>1 DEF IndexOK, IdsIn, OneEach
  <1> QED BY <1>3, <1>5, <1>8, <1>11, <1>12, <1>13, <1>14, <1>15 DEF EditorInv


LEMMA StorageStays ==
  ASSUME StorageInv, IndexOK(listed), UNCHANGED <<listed, saved, savedOnDisk, editorKills>>
  PROVE  StorageInv' /\ IndexOK(listed)'
  <1>0. StoreOK(saved') /\ StoreOK(savedOnDisk')
    BY DEF StorageInv
  <1>1. StoreOK(saved)'
    BY <1>0 DEF StoreOK, IndexOK, LayoutOK, IdsIn, OneEach
  <1>2. StoreOK(savedOnDisk)'
    BY <1>0 DEF StoreOK, IndexOK, LayoutOK, IdsIn, OneEach
  <1>3. Odd(saved)' = Odd(saved) /\ Odd(savedOnDisk)' = Odd(savedOnDisk)
    BY DEF Odd, IdsIn
  <1>4. IndexOK(listed)'
    BY DEF IndexOK, IdsIn, OneEach
  <1> QED BY <1>1, <1>2, <1>3, <1>4 DEF StorageInv

(* The edits of what is shown, none of which touches the store.            *)
LEMMA ShownKeeps ==
  ASSUME EditorUI!EditorAssumption, EditorInv, ShownInv', edits' \in 0 .. MaxEdits,
         UNCHANGED <<listed, saved, savedOnDisk, prefs, prefsOnDisk, shownPrefs, editorKills>>
  PROVE  EditorInv'
  <1>1. StorageInv' /\ IndexOK(listed)'
    BY StorageStays DEF EditorInv
  <1> QED BY <1>1 DEF EditorInv, PrefsInv

LEMMA SelectKeeps ==
  ASSUME EditorUI!EditorAssumption, EditorInv,
         NEW id \in EditorUI!Ids(layout.elements), EditorUI!SelectElement(id)
  PROVE  EditorInv' /\ UNCHANGED saved
  <1>1. /\ picked' = id
        /\ UNCHANGED <<layout, listed, dirty, saved, savedOnDisk, prefs, prefsOnDisk, shownPrefs,
                       edits, editorKills>>
    BY DEF EditorUI!SelectElement, EditorUI!savedVars, EditorUI!prefsVars
  <1>2. id \in IdsIn(layout.elements)
    BY DEF EditorUI!Ids, IdsIn
  <1>3. EditorUI!Reload(saved, layout.id)' = EditorUI!Reload(saved, layout.id)
    BY <1>1 DEF EditorUI!Reload, EditorUI!Body, EditorUI!BuiltIn, EditorUI!Nil
  <1>4. LayoutOK(layout)' /\ (picked \in IdsIn(layout.elements))'
    BY <1>1, <1>2 DEF EditorInv, ShownInv, LayoutOK, OneEach, IdsIn
  <1>5. ShownInv'
    BY <1>1, <1>3, <1>4 DEF EditorInv, ShownInv
  <1> QED BY <1>1, <1>5, ShownKeeps DEF EditorInv

(* Elements put in the place of those shown.                               *)
LEMMA ElementsKeep ==
  ASSUME EditorUI!EditorAssumption, EditorInv, NEW els \in Seq(ElementType), OneEach(els),
         EditorUI!Tap, EditorUI!Elements(els), picked' = <<>> \/ picked' \in IdsIn(els),
         UNCHANGED <<listed, saved, savedOnDisk, prefs, prefsOnDisk, shownPrefs, editorKills>>
  PROVE  EditorInv' /\ layout'.elements = els
  <1>1. layout' = [layout EXCEPT !.elements = els] /\ dirty' = TRUE
    BY DEF EditorUI!Elements, EditorUI!Show
  <1>2. layout \in LayoutType /\ LayoutOK(layout)
    BY DEF EditorInv, ShownInv, LayoutOK
  <1>3. /\ layout' \in LayoutType /\ layout'.elements = els /\ layout'.id = layout.id
        /\ layout'.editable = layout.editable
    BY <1>1, <1>2 DEF LayoutType
  <1>4. LayoutOK(layout)'
    BY <1>2, <1>3 DEF LayoutOK, OneEach, IdsIn
  <1>5. ShownInv'
    BY <1>1, <1>3, <1>4 DEF ShownInv, IdsIn
  <1>6. edits' \in 0 .. MaxEdits
    BY TapCounts DEF EditorInv
  <1> QED BY <1>3, <1>5, <1>6, ShownKeeps

(* A new element goes beside every other.                                  *)
LEMMA AddElementKeeps ==
  ASSUME EditorUI!EditorAssumption, EditorInv, NEW prefix \in ElementKind,
         EditorUI!AddElement(prefix)
  PROVE  /\ EditorInv' /\ UNCHANGED saved
         /\ Elements(layout.elements) \subseteq Elements(layout'.elements)
         /\ Len(layout'.elements) > Len(layout.elements)
  <1> DEFINE els == layout.elements
             id  == EditorUI!UniqueElementId(prefix, els)
             e   == [id |-> id, look |-> EditorUI!Fresh]
             t   == But(els, id)
             new == Append(t, e)
  <1>1. /\ EditorUI!Tap /\ EditorUI!Elements(EditorUI!WithElement(els, e)) /\ picked' = id
        /\ UNCHANGED <<listed, saved, savedOnDisk, prefs, prefsOnDisk, shownPrefs, editorKills>>
    BY DEF EditorUI!AddElement, EditorUI!savedVars, EditorUI!prefsVars
  <1>2. els \in Seq(ElementType) /\ OneEach(els)
    BY DEF EditorInv, ShownInv, LayoutOK, LayoutType
  <1>3. id \in Seq(ElementWord) /\ id \notin IdsIn(els)
    BY <1>2, ElementIdIsFree
  <1> HIDE DEF id
  <1>4. e \in ElementType /\ e.id = id
    <2>1. EditorUI!Fresh \in Look
      BY DEF EditorUI!Fresh, EditorUI!EditorAssumption
    <2> QED BY <1>3, <2>1 DEF ElementType
  <1>5. EditorUI!WithElement(els, e) = new
    BY <1>4, WithoutIsBut DEF EditorUI!WithElement
  <1> HIDE DEF e, t, els
  <1>6. /\ t \in Seq(ElementType) /\ OneEach(t) /\ IdsIn(t) = IdsIn(els) \ {id}
        /\ \A x : x \in Elements(t) <=> x \in Elements(els) /\ x.id # id
    BY <1>2, ButKeeps DEF t
  <1>7. Elements(t) = Elements(els)
    BY <1>3, <1>6 DEF Elements, IdsIn
  <1>8. Len(t) = Len(els)
    <2>1. IdsIn(t) = IdsIn(els)
      BY <1>3, <1>6
    <2> QED BY <1>2, <1>6, <2>1, OneEachCounts
  <1>9. /\ new \in Seq(ElementType) /\ Len(new) = Len(t) + 1 /\ OneEach(new)
        /\ Elements(new) = Elements(t) \cup {e} /\ IdsIn(new) = IdsIn(t) \cup {id}
    <2>1. e.id \notin IdsIn(t)
      BY <1>4, <1>6
    <2>2. /\ new \in Seq(ElementType) /\ Len(new) = Len(t) + 1 /\ OneEach(new)
          /\ Elements(new) = Elements(t) \cup {e} /\ IdsIn(new) = IdsIn(t) \cup {e.id}
      BY <1>4, <1>6, <2>1, AppendAdds
    <2> QED BY <1>4, <2>2
  <1> HIDE DEF new
  <1>10. EditorInv' /\ layout'.elements = new
    BY <1>1, <1>5, <1>9, ElementsKeep
  <1>11. Len(els) \in Nat
    BY <1>2
  <1> QED BY <1>1, <1>7, <1>8, <1>9, <1>10, <1>11 DEF els

LEMMA EditElementKeeps ==
  ASSUME EditorUI!EditorAssumption, EditorInv, NEW id, NEW l \in Look,
         EditorUI!EditElement(id, l)
  PROVE  EditorInv' /\ UNCHANGED saved
  <1> DEFINE els == layout.elements
             new == [i \in DOMAIN els |->
                       IF els[i].id = id THEN [els[i] EXCEPT !.look = l] ELSE els[i]]
  <1>1. /\ EditorUI!Tap /\ EditorUI!Elements(new) /\ picked' = picked
        /\ UNCHANGED <<listed, saved, savedOnDisk, prefs, prefsOnDisk, shownPrefs, editorKills>>
    BY DEF EditorUI!EditElement, EditorUI!savedVars, EditorUI!prefsVars
  <1>2. /\ els \in Seq(ElementType) /\ OneEach(els)
        /\ picked = <<>> \/ picked \in IdsIn(els)
    BY DEF EditorInv, ShownInv, LayoutOK, LayoutType
  <1> HIDE DEF els
  <1>3. DOMAIN els = 1 .. Len(els) /\ Len(els) \in Nat /\ \A i \in DOMAIN els : els[i] \in ElementType
    BY <1>2, Indices
  <1>4. DOMAIN new = DOMAIN els /\ \A i \in DOMAIN els : new[i] \in ElementType /\ new[i].id = els[i].id
    BY <1>3 DEF ElementType
  <1>5. new \in Seq(ElementType)
    <2>1. new = [i \in 1 .. Len(els) |-> new[i]]
      BY <1>3
    <2> HIDE DEF new
    <2>2. new \in [1 .. Len(els) -> ElementType]
      BY <1>3, <1>4, <2>1
    <2> QED BY <1>3, <2>2
  <1> HIDE DEF new
  <1>6. OneEach(new) /\ IdsIn(new) = IdsIn(els)
    BY <1>2, <1>4 DEF OneEach, IdsIn
  <1>7. picked' = <<>> \/ picked' \in IdsIn(new)
    BY <1>1, <1>2, <1>6
  <1> QED BY <1>1, <1>5, <1>6, <1>7, ElementsKeep

LEMMA RemoveElementKeeps ==
  ASSUME EditorUI!EditorAssumption, EditorInv, EditorUI!RemoveElement
  PROVE  EditorInv' /\ UNCHANGED saved
  <1> DEFINE els == layout.elements
             new == But(els, picked)
  <1>1. /\ EditorUI!Tap /\ EditorUI!Elements(EditorUI!Without(els, picked)) /\ picked' = <<>>
        /\ UNCHANGED <<listed, saved, savedOnDisk, prefs, prefsOnDisk, shownPrefs, editorKills>>
    BY DEF EditorUI!RemoveElement, EditorUI!savedVars, EditorUI!prefsVars, EditorUI!Nil
  <1>2. els \in Seq(ElementType) /\ OneEach(els)
    BY DEF EditorInv, ShownInv, LayoutOK, LayoutType
  <1>3. EditorUI!Elements(new)
    BY <1>1, WithoutIsBut
  <1> HIDE DEF els
  <1>4. new \in Seq(ElementType) /\ OneEach(new)
    BY <1>2, ButKeeps
  <1> HIDE DEF new
  <1> QED BY <1>1, <1>3, <1>4, ElementsKeep

LEMMA SetNameKeeps ==
  ASSUME EditorUI!EditorAssumption, EditorInv, NEW name \in Title, EditorUI!SetName(name)
  PROVE  EditorInv' /\ UNCHANGED saved
  <1>1. /\ EditorUI!Tap /\ layout' = [layout EXCEPT !.name = name] /\ dirty' = TRUE
        /\ picked' = picked
        /\ UNCHANGED <<listed, saved, savedOnDisk, prefs, prefsOnDisk, shownPrefs, editorKills>>
    BY DEF EditorUI!SetName, EditorUI!Show, EditorUI!savedVars, EditorUI!prefsVars
  <1>2. layout \in LayoutType /\ LayoutOK(layout)
    BY DEF EditorInv, ShownInv, LayoutOK
  <1>3. name \in Name
    BY DEF Name
  <1>4. /\ layout' \in LayoutType /\ layout'.elements = layout.elements /\ layout'.id = layout.id
        /\ layout'.editable = layout.editable
    BY <1>1, <1>2, <1>3 DEF LayoutType
  <1>5. LayoutOK(layout)'
    BY <1>2, <1>4 DEF LayoutOK, OneEach, IdsIn
  <1>6. ShownInv'
    BY <1>1, <1>4, <1>5 DEF EditorInv, ShownInv, IdsIn
  <1>7. edits' \in 0 .. MaxEdits
    BY <1>1, TapCounts DEF EditorInv
  <1> QED BY <1>1, <1>6, <1>7, ShownKeeps

(* A view model starts on a store: the one in memory, or after a kill the  *)
(* one on disk, which it then holds.                                       *)
LEMMA OpenKeeps ==
  ASSUME EditorUI!EditorAssumption, NEW s, StoreOK(s), NEW p, NEW writes, EditorUI!Open(s, p, writes)
  PROVE  /\ StoreOK(saved') /\ Odd(saved') \subseteq Odd(s) /\ ShownInv' /\ IndexOK(listed)'
         /\ savedOnDisk' \in writes \/ Near(s, savedOnDisk')
         /\ \A ids : Bodies(s, saved', ids)
  <1> DEFINE ld   == EditorUI!Load(s, p.layout)
             last == EditorUI!Last(ld)
             l    == EditorUI!Reload(s, p.layout)
  <1>1. /\ \A t \in EditorUI!Range(ld) : Near(s, t)
        /\ StoreOK(last) /\ Odd(last) \subseteq Odd(s)
        /\ LayoutOK(l) /\ EditorUI!Reload(last, l.id) = l
        /\ \A ids : Bodies(s, last, ids)
    BY LoadKeeps
  <1>2. /\ saved' = last /\ listed' = saved'.index /\ savedOnDisk' \in writes \cup EditorUI!Range(ld)
        /\ layout' = l /\ dirty' = FALSE /\ picked' = <<>>
    BY DEF EditorUI!Open, EditorUI!Show, EditorUI!Nil
  <1> HIDE DEF ld, last, l
  <1>3. ShownInv'
    <2>1. EditorUI!Reload(saved, layout.id)' = EditorUI!Reload(saved', layout'.id)
      BY DEF EditorUI!Reload, EditorUI!Body, EditorUI!BuiltIn, EditorUI!Nil
    <2>2. LayoutOK(layout)'
      BY <1>1, <1>2 DEF LayoutOK, OneEach, IdsIn
    <2>3. EditorUI!Reload(saved', layout'.id) = layout'
      BY <1>1, <1>2
    <2> QED BY <1>2, <2>1, <2>2, <2>3 DEF ShownInv
  <1>4. IndexOK(listed)'
    <2>1. IndexOK(listed')
      BY <1>1, <1>2 DEF StoreOK
    <2> QED BY <2>1 DEF IndexOK, IdsIn, OneEach
  <1> QED BY <1>1, <1>2, <1>3, <1>4

LEMMA OpenEditorKeeps ==
  ASSUME EditorUI!EditorAssumption, EditorInv, EditorUI!OpenEditor
  PROVE  EditorInv' /\ \A ids : Bodies(saved, saved', ids)
  <1>1. /\ EditorUI!Tap /\ EditorUI!Open(saved, prefs, {savedOnDisk})
        /\ UNCHANGED <<prefs, prefsOnDisk, shownPrefs, editorKills>>
    BY DEF EditorUI!OpenEditor, EditorUI!prefsVars
  <1>2. StorageInv /\ StoreOK(saved)
    BY DEF EditorInv, StorageInv
  <1>3. /\ StoreOK(saved') /\ Odd(saved') \subseteq Odd(saved) /\ ShownInv' /\ IndexOK(listed)'
        /\ savedOnDisk' = savedOnDisk \/ Near(saved, savedOnDisk')
        /\ \A ids : Bodies(saved, saved', ids)
    <2>1. \A x : x \in {savedOnDisk} <=> x = savedOnDisk
      OBVIOUS
    <2> DEFINE writes == {savedOnDisk}
    <2>2. EditorUI!Open(saved, prefs, writes)
      BY <1>1
    <2> HIDE DEF writes
    <2>3. /\ StoreOK(saved') /\ Odd(saved') \subseteq Odd(saved) /\ ShownInv' /\ IndexOK(listed)'
          /\ savedOnDisk' \in writes \/ Near(saved, savedOnDisk')
          /\ \A ids : Bodies(saved, saved', ids)
      BY <1>2, <2>2, OpenKeeps
    <2> QED BY <2>1, <2>3 DEF writes
  <1>4. Cardinality(Odd(saved')) <= editorKills
    BY <1>2, <1>3, OddCounts DEF StorageInv
  <1>5. StoreOK(savedOnDisk') /\ Cardinality(Odd(savedOnDisk')) <= editorKills + 1
    <2>1. CASE savedOnDisk' = savedOnDisk
      BY <1>2, <2>1 DEF StorageInv
    <2>2. CASE Near(saved, savedOnDisk')
      BY <1>2, <2>2, OddCounts DEF StorageInv, Near
    <2> QED BY <1>3, <2>1, <2>2
  <1>6. StoreOK(saved)' /\ StoreOK(savedOnDisk)' /\ Odd(saved)' = Odd(saved')
        /\ Odd(savedOnDisk)' = Odd(savedOnDisk')
    BY <1>3, <1>5 DEF StoreOK, IndexOK, LayoutOK, IdsIn, OneEach, Odd
  <1>7. StorageInv'
    BY <1>1, <1>2, <1>4, <1>5, <1>6 DEF StorageInv
  <1>8. edits' \in 0 .. MaxEdits
    BY <1>1, TapCounts DEF EditorInv
  <1> QED BY <1>1, <1>3, <1>7, <1>8 DEF EditorInv, PrefsInv

LEMMA KillKeeps ==
  ASSUME EditorUI!EditorAssumption, EditorInv, EditorUI!KillEditor PROVE EditorInv'
  <1>1. /\ editorKills' = editorKills + 1 /\ EditorUI!Open(savedOnDisk, prefsOnDisk, {})
        /\ prefs' = prefsOnDisk /\ shownPrefs' = prefsOnDisk
        /\ UNCHANGED <<prefsOnDisk, edits>>
    BY DEF EditorUI!KillEditor
  <1>2. StorageInv /\ StoreOK(savedOnDisk)
    BY DEF EditorInv, StorageInv
  <1>3. /\ StoreOK(saved') /\ Odd(saved') \subseteq Odd(savedOnDisk) /\ ShownInv'
        /\ IndexOK(listed)' /\ Near(savedOnDisk, savedOnDisk')
    <2> DEFINE writes == {}
    <2>1. EditorUI!Open(savedOnDisk, prefsOnDisk, writes)
      BY <1>1
    <2>2. savedOnDisk' \notin writes
      OBVIOUS
    <2> HIDE DEF writes
    <2> QED BY <1>2, <2>1, <2>2, OpenKeeps
  <1>4. editorKills \in Nat /\ editorKills + 1 \in Nat /\ Cardinality(Odd(savedOnDisk)) <= editorKills + 1
    BY <1>2 DEF StorageInv
  <1>5. /\ Cardinality(Odd(saved')) <= editorKills + 1
        /\ Cardinality(Odd(savedOnDisk')) <= (editorKills + 1) + 1
    BY <1>2, <1>3, <1>4, OddCounts
  <1>6. StoreOK(saved)' /\ StoreOK(savedOnDisk)' /\ Odd(saved)' = Odd(saved')
        /\ Odd(savedOnDisk)' = Odd(savedOnDisk')
    BY <1>3 DEF Near, StoreOK, IndexOK, LayoutOK, IdsIn, OneEach, Odd
  <1>7. StorageInv'
    BY <1>1, <1>4, <1>5, <1>6 DEF StorageInv
  <1> QED BY <1>1, <1>3, <1>7 DEF EditorInv, PrefsInv

(* The settings screen. *)
LEMMA SettingsKeep ==
  ASSUME EditorUI!EditorAssumption, EditorInv, EditorUI!ChangeSettings \/ EditorUI!OpenSettings
  PROVE  EditorInv' /\ UNCHANGED saved
  <1>1. PrefsInv
    BY DEF EditorInv
  <1>2. ASSUME PrefsInv', EditorUI!Tap,
               UNCHANGED <<layout, listed, picked, dirty, saved, savedOnDisk, editorKills>>
        PROVE  EditorInv' /\ UNCHANGED saved
    <2>1. edits' \in 0 .. MaxEdits
      BY <1>2, TapCounts DEF EditorInv
    <2>2. StorageInv' /\ IndexOK(listed)'
      BY <1>2, StorageStays DEF EditorInv
    <2>3. ShownInv'
      BY <1>2 DEF EditorInv, ShownInv, LayoutOK, IdsIn, OneEach, EditorUI!Reload, EditorUI!Body,
                  EditorUI!BuiltIn, EditorUI!Nil
    <2> QED BY <1>2, <2>1, <2>2, <2>3 DEF EditorInv
  <1>3. ASSUME NEW p \in PrefsType, EditorUI!Commit(p) PROVE EditorInv' /\ UNCHANGED saved
    <2>1. /\ EditorUI!Tap /\ shownPrefs' = p /\ prefs' = p /\ prefsOnDisk' \in {prefsOnDisk, p}
          /\ UNCHANGED <<layout, listed, picked, dirty, saved, savedOnDisk, editorKills>>
      BY <1>3 DEF EditorUI!Commit, EditorUI!Persist, EditorUI!savedVars
    <2>2. PrefsInv'
      BY <1>1, <2>1 DEF PrefsInv
    <2> QED BY <1>2, <2>1, <2>2
  <1>4. \A i \in DOMAIN Catalog : Catalog[i].id \in LayoutId
    BY CatalogIsTyped DEF LayoutOK, LayoutType
  <1>5. CASE EditorUI!ChangeSettings
    <2>1. ASSUME NEW id \in EditorUI!Ids(Catalog), EditorUI!Commit([shownPrefs EXCEPT !.layout = id])
          PROVE  EditorInv' /\ UNCHANGED saved
      <3>1. [shownPrefs EXCEPT !.layout = id] \in PrefsType
        BY <1>1, <1>4 DEF PrefsInv, PrefsType, EditorUI!Ids
      <3> QED BY <1>3, <2>1, <3>1
    <2>2. ASSUME EditorUI!Commit([shownPrefs EXCEPT !.rest = 1])
          PROVE  EditorInv' /\ UNCHANGED saved
      <3>1. [shownPrefs EXCEPT !.rest = 1] \in PrefsType
        BY <1>1 DEF PrefsInv, PrefsType
      <3> QED BY <1>3, <2>2, <3>1
    <2>3. ASSUME EditorUI!Commit(EditorUI!Settings(Catalog[1].id, 0))
          PROVE  EditorInv' /\ UNCHANGED saved
      <3>1. Catalog[1].id \in LayoutId
        BY <1>4, CatalogIsTyped
      <3>2. EditorUI!Settings(Catalog[1].id, 0) \in PrefsType
        BY <3>1 DEF EditorUI!Settings, PrefsType
      <3> QED BY <1>3, <2>3, <3>2
    <2> QED BY <1>5, <2>1, <2>2, <2>3 DEF EditorUI!ChangeSettings
  <1>6. CASE EditorUI!OpenSettings
    <2>1. /\ EditorUI!Tap /\ shownPrefs' = prefs /\ UNCHANGED <<prefs, prefsOnDisk>>
          /\ UNCHANGED <<layout, listed, picked, dirty, saved, savedOnDisk, editorKills>>
      BY <1>6 DEF EditorUI!OpenSettings, EditorUI!savedVars, EditorUI!prefsVars
    <2>2. PrefsInv'
      BY <1>1, <2>1 DEF PrefsInv
    <2> QED BY <1>2, <2>1, <2>2
  <1> QED BY <1>5, <1>6


LEMMA KeepsIsBodies ==
  \A ids : EditorUI!Keeps(ids) <=> Bodies(saved, saved', ids \cap IdsIn(saved.index))
  BY DEF EditorUI!Keeps, EditorUI!Ids, EditorUI!Nil, Bodies, IdsIn

LEMMA EditorNextKeeps ==
  ASSUME EditorUI!EditorAssumption, EditorInv, EditorUI!EditorNext
  PROVE  /\ EditorInv'
         /\ editorKills' = editorKills =>
              \A ids : layout.id \notin ids => Bodies(saved, saved', ids \cap IdsIn(saved.index))
  <1> DEFINE Kept1 == \A ids : layout.id \notin ids => Bodies(saved, saved', ids \cap IdsIn(saved.index))
  <1>1. ASSUME saved' = saved PROVE Kept1
    BY <1>1 DEF Bodies
  <1>2. ASSUME NEW id, EditorUI!PickLayout(id) PROVE EditorInv' /\ Kept1
    BY <1>2, PickKeeps DEF EditorUI!PickLayout
  <1>3. ASSUME EditorUI!ResetCurrent PROVE EditorInv' /\ Kept1
    BY <1>3, PickKeeps DEF EditorUI!ResetCurrent
  <1>4. ASSUME EditorUI!DeleteCurrent PROVE EditorInv' /\ Kept1
    BY <1>4, DeleteKeeps
  <1>5. ASSUME NEW asCopy \in BOOLEAN, EditorUI!SaveCurrent(asCopy) PROVE EditorInv' /\ Kept1
    BY <1>5, SaveKeeps
  <1>6. ASSUME EditorUI!OpenEditor PROVE EditorInv' /\ Kept1
    BY <1>6, OpenEditorKeeps
  <1>7. ASSUME EditorUI!KillEditor PROVE EditorInv' /\ editorKills' # editorKills
    <2>1. editorKills' = editorKills + 1 /\ editorKills \in Nat
      BY <1>7 DEF EditorUI!KillEditor, EditorInv, StorageInv
    <2> QED BY <1>7, <2>1, KillKeeps
  <1>8. ASSUME \/ \E id \in EditorUI!Ids(layout.elements) :
                    EditorUI!SelectElement(id) \/ \E l \in Look : EditorUI!EditElement(id, l)
               \/ \E prefix \in ElementKind : EditorUI!AddElement(prefix)
               \/ EditorUI!RemoveElement
               \/ \E name \in Title : EditorUI!SetName(name)
               \/ EditorUI!ChangeSettings \/ EditorUI!OpenSettings
        PROVE  EditorInv' /\ saved' = saved
    BY <1>8, SelectKeeps, EditElementKeeps, AddElementKeeps, RemoveElementKeeps, SetNameKeeps,
       SettingsKeep
  <1> HIDE DEF Kept1
  <1>9. EditorInv' /\ (editorKills' = editorKills => Kept1)
    BY <1>1, <1>2, <1>3, <1>4, <1>5, <1>6, <1>7, <1>8 DEF EditorUI!EditorNext
  <1> QED BY <1>9 DEF Kept1

LEMMA EditorInitHolds ==
  ASSUME EditorUI!EditorAssumption, EditorUI!EditorInit PROVE EditorInv
  <1>1. /\ savedOnDisk = saved /\ prefs = EditorUI!Settings(Catalog[1].id, 0)
        /\ prefsOnDisk = prefs /\ shownPrefs = prefs
        /\ layout = Catalog[1] /\ listed = saved.index /\ picked = <<>> /\ dirty = FALSE
        /\ edits = MaxEdits /\ editorKills = 0
    BY DEF EditorUI!EditorInit, EditorUI!Nil
  <1>2. StoreOK(saved) /\ Odd(saved) = {}
    <2>1. CASE saved = EditorUI!StoreWith(<<>>, <<>>)
      <3>1. saved.index = <<>> /\ saved.body = <<>>
        BY <2>1 DEF EditorUI!StoreWith
      <3>2. DOMAIN saved.index = {} /\ DOMAIN saved.body = {} /\ saved.index \in Seq(EntryType)
        BY <3>1
      <3> QED BY <3>2, FS_EmptySet DEF StoreOK, IndexOK, OneEach, IdsIn, Odd
    <2>2. ASSUME NEW n \in Title,
                 saved = EditorUI!StoreWith(<<[id |-> EditorUI!Custom(n), name |-> n]>>,
                                            [id \in {EditorUI!Custom(n)} |-> EditorUI!Nil])
          PROVE  StoreOK(saved) /\ Odd(saved) = {}
      <3> DEFINE id == EditorUI!Custom(n)
                 e  == [id |-> id, name |-> n]
      <3>1. id \in LayoutId /\ n \in Name
        <4>1. n \in Name
          BY DEF Name
        <4>2. n \in Seq(IdWord)
          BY <4>1, NamesAreWords
        <4>3. "custom" \in IdWord
          BY DEF IdWord
        <4>4. <<"custom">> \in Seq(IdWord)
          BY <4>3
        <4> QED BY <4>1, <4>2, <4>4 DEF EditorUI!Custom, LayoutId
      <3>2. id \notin IdsIn(Catalog)
        BY DEF EditorUI!EditorAssumption, EditorUI!Ids, IdsIn
      <3> HIDE DEF id
      <3>3. e \in EntryType /\ e.id = id
        BY <3>1 DEF EntryType
      <3>4. /\ saved.index = <<e>> /\ DOMAIN saved.body = {id} /\ saved.body[id] = <<>>
        BY <2>2 DEF EditorUI!StoreWith, EditorUI!Nil, id
      <3> HIDE DEF e
      <3>5. /\ saved.index \in Seq(EntryType) /\ DOMAIN saved.index = {1} /\ saved.index[1] = e
        BY <3>3, <3>4
      <3>6. IdsIn(saved.index) = {id} /\ OneEach(saved.index)
        BY <3>3, <3>5 DEF IdsIn, OneEach
      <3>7. IsFiniteSet(DOMAIN saved.body)
        BY <3>4, FS_Singleton
      <3>8. IndexOK(saved.index)
        BY <3>2, <3>5, <3>6 DEF IndexOK
      <3> QED BY <3>2, <3>4, <3>6, <3>7, <3>8 DEF StoreOK, Odd
    <2> QED BY <2>1, <2>2 DEF EditorUI!EditorInit
  <1>3. LayoutOK(layout) /\ Catalog[1].id \in LayoutId
    BY <1>1, CatalogIsTyped DEF LayoutOK, LayoutType
  <1>4. layout = EditorUI!Reload(saved, layout.id)
    BY <1>1, CatalogIsTyped, BuiltInIsFound
  <1>5. Cardinality(Odd(saved)) = 0
    BY <1>2, FS_EmptySet
  <1>6. PrefsInv
    BY <1>1, <1>3 DEF EditorUI!Settings, PrefsInv, PrefsType
  <1>7. StorageInv
    BY <1>1, <1>2, <1>5 DEF StorageInv
  <1>8. ShownInv
    BY <1>1, <1>3, <1>4 DEF ShownInv
  <1> QED BY <1>1, <1>2, <1>6, <1>7, <1>8 DEF EditorInv, StoreOK, EditorUI!EditorAssumption

LEMMA EditorInvMeans ==
  ASSUME EditorUI!EditorAssumption, EditorInv PROVE EditorUI!EditorSound
  <1>1. StoreOK(saved) /\ IndexOK(listed) /\ LayoutOK(layout)
    BY DEF EditorInv, StorageInv, ShownInv
  <1>2. EditorUI!EditorTypeOK
    BY <1>1 DEF EditorInv, PrefsInv, PrefsType, ShownInv, StoreOK, EditorUI!EditorTypeOK, EditorUI!Nil
  <1>3. ASSUME NEW S, NEW s \in Seq(S), OneEach(s) PROVE EditorUI!Distinct(s)
    <2>1. Cardinality(IdsIn(s)) = Len(s)
      BY <1>3, OneEachCounts
    <2> QED BY <2>1 DEF EditorUI!Distinct, EditorUI!Ids, IdsIn, EditorUI!Cardinality, Cardinality
  <1>4. EditorUI!IdsAreUnique
    <2>1. EditorUI!Distinct(layout.elements)
      <3>1. layout.elements \in Seq(ElementType) /\ OneEach(layout.elements)
        BY <1>1 DEF LayoutOK, LayoutType
      <3> QED BY <1>3, <3>1
    <2>2. EditorUI!Distinct(Catalog \o listed)
      <3> DEFINE S == LayoutType \cup EntryType
                 t == Catalog \o listed
      <3>1. Catalog \in Seq(S) /\ listed \in Seq(S)
        <4>1. \A i \in DOMAIN Catalog : Catalog[i] \in S
          BY CatalogIsTyped, Indices
        <4>2. \A i \in DOMAIN listed : listed[i] \in S
          BY <1>1, Indices DEF IndexOK
        <4> QED BY <1>1, <4>1, <4>2, CatalogIsTyped, SeqWiden DEF IndexOK
      <3>2. /\ DOMAIN Catalog = 1 .. Len(Catalog) /\ Len(Catalog) \in Nat
            /\ DOMAIN listed = 1 .. Len(listed) /\ Len(listed) \in Nat
        BY <3>1, Indices
      <3> HIDE DEF S
      <3>3. /\ t \in Seq(S) /\ Len(t) = Len(Catalog) + Len(listed)
            /\ \A i \in 1 .. Len(Catalog) + Len(listed) :
                 t[i] = IF i <= Len(Catalog) THEN Catalog[i] ELSE listed[i - Len(Catalog)]
        BY <3>1, ConcatProperties
      <3> HIDE DEF t
      <3>4. DOMAIN t = 1 .. Len(Catalog) + Len(listed)
        BY <3>3, Indices
      <3>5. ASSUME NEW i \in DOMAIN t, NEW j \in DOMAIN t, t[i].id = t[j].id PROVE i = j
        <4>1. ASSUME NEW k \in DOMAIN t
              PROVE  \/ k \in DOMAIN Catalog /\ t[k] = Catalog[k]
                     \/ k - Len(Catalog) \in DOMAIN listed /\ t[k] = listed[k - Len(Catalog)]
          BY <3>2, <3>3, <3>4
        <4>2. OneEach(Catalog) /\ OneEach(listed) /\ IdsIn(listed) \cap IdsIn(Catalog) = {}
          BY <1>1, CatalogIsTyped DEF IndexOK
        <4>3. i \in Nat /\ j \in Nat
          BY <3>2, <3>4
        <4>4. CASE i \in DOMAIN Catalog /\ t[i] = Catalog[i]
          BY <3>5, <4>1, <4>2, <4>4 DEF OneEach, IdsIn
        <4>5. CASE i - Len(Catalog) \in DOMAIN listed /\ t[i] = listed[i - Len(Catalog)]
          <5>1. CASE j \in DOMAIN Catalog /\ t[j] = Catalog[j]
            BY <3>5, <4>2, <4>5, <5>1 DEF IdsIn
          <5>2. CASE j - Len(Catalog) \in DOMAIN listed /\ t[j] = listed[j - Len(Catalog)]
            <6>1. i - Len(Catalog) = j - Len(Catalog)
              BY <3>5, <4>2, <4>5, <5>2 DEF OneEach
            <6> QED BY <3>2, <4>3, <6>1
          <5> QED BY <4>1, <5>1, <5>2
        <4> QED BY <4>1, <4>4, <4>5
      <3>6. OneEach(t)
        BY <3>5 DEF OneEach
      <3>7. EditorUI!Distinct(t)
        BY <1>3, <3>3, <3>6
      <3> QED BY <3>7 DEF t
    <2>3. picked # EditorUI!Nil => picked \in EditorUI!Ids(layout.elements)
      BY DEF EditorInv, ShownInv, EditorUI!Nil, EditorUI!Ids, IdsIn
    <2> QED BY <2>1, <2>2, <2>3 DEF EditorUI!IdsAreUnique
  <1>5. EditorUI!CleanIsStored
    BY DEF EditorInv, ShownInv, EditorUI!CleanIsStored
  <1>6. EditorUI!IndexMatches
    BY DEF EditorInv, StorageInv, Odd, EditorUI!IndexMatches, EditorUI!Ids, IdsIn,
           EditorUI!Cardinality, Cardinality
  <1>7. EditorUI!SettingsAgree
    BY DEF EditorInv, PrefsInv, EditorUI!SettingsAgree
  <1> QED BY <1>2, <1>4, <1>5, <1>6, <1>7 DEF EditorUI!EditorSound

-----------------------------------------------------------------------------
(* The app.  Each group of screens runs in behaviours of its own, and      *)
(* stays where it started in the others.                                   *)
ScreensInv == AccountInv /\ EditorInv /\ InstanceInv

Replaced ==
  /\ editorKills' = editorKills => EditorUI!Keeps(DOMAIN saved.body \ {layout.id})
  /\ EditorUI!SaveCurrent(TRUE) => EditorUI!Keeps({layout.id})
  /\ (\E prefix \in ElementKind : EditorUI!AddElement(prefix)) =>
       /\ EditorUI!Range(layout.elements) \subseteq EditorUI!Range(layout'.elements)
       /\ Len(layout'.elements) > Len(layout.elements)

Lost ==
  \A x \in InstanceUI!Range(instances) :
    \/ {x, [x EXCEPT !.played = TRUE]} \cap InstanceUI!Range(instances') # {}
    \/ detail # <<>> /\ detail[1].id = x.id

LEMMA EditorTapReplacesNothing ==
  ASSUME EditorUI!EditorAssumption, EditorInv, EditorUI!EditorNext PROVE Replaced
  <1>1. editorKills' = editorKills => EditorUI!Keeps(DOMAIN saved.body \ {layout.id})
    <2>1. ASSUME editorKills' = editorKills, NEW ids, layout.id \notin ids
          PROVE  Bodies(saved, saved', ids \cap IdsIn(saved.index))
      BY <2>1, EditorNextKeeps
    <2> DEFINE ids == DOMAIN saved.body \ {layout.id}
    <2>2. layout.id \notin ids
      OBVIOUS
    <2> HIDE DEF ids
    <2>3. editorKills' = editorKills => EditorUI!Keeps(ids)
      BY <2>1, <2>2, KeepsIsBodies
    <2> QED BY <2>3 DEF ids
  <1>2. ASSUME EditorUI!SaveCurrent(TRUE) PROVE EditorUI!Keeps({layout.id})
    <2>1. ASSUME NEW ids PROVE Bodies(saved, saved', ids \cap IdsIn(saved.index))
      BY <1>2, SaveKeeps
    <2> QED BY <2>1, KeepsIsBodies
  <1>3. ASSUME NEW prefix \in ElementKind, EditorUI!AddElement(prefix)
        PROVE  /\ EditorUI!Range(layout.elements) \subseteq EditorUI!Range(layout'.elements)
               /\ Len(layout'.elements) > Len(layout.elements)
    BY <1>3, AddElementKeeps, RangeIsElements
  <1> QED BY <1>1, <1>2, <1>3 DEF Replaced

LEMMA InstanceTapLosesNothing ==
  ASSUME InstanceUI!InstanceAssumption, InstanceInv, InstanceUI!InstanceNext PROVE Lost
  <1>1. Kept(instances, instances', detail)
    BY InstanceNextKeeps
  <1>2. \A s : InstanceUI!Range(s) = Elements(s)
    BY DEF InstanceUI!Range, Elements
  <1> QED BY <1>1, <1>2 DEF Kept, Lost

LEMMA ScreensInit == AppInit => ScreensInv
  BY AccountInitHolds, EditorInitHolds, InstanceInitHolds, ScreensAssumption
  DEF AppInit, ScreensInv, AccountUI!AccountAssumption


LEMMA AccountsStay == AccountInv /\ UNCHANGED accountVars => AccountInv'
  BY DEF AccountInv, AccountTypes, accountVars, AccountUI!SpinnerHasCall, AccountUI!Resting,
         AloneSoFar, Chosen, Elements

LEMMA EditorStays == EditorInv /\ UNCHANGED editorVars => EditorInv'
  <1> SUFFICES ASSUME EditorInv, UNCHANGED editorVars PROVE EditorInv'
    OBVIOUS
  <1>1. UNCHANGED <<layout, listed, picked, dirty, saved, savedOnDisk, prefs, prefsOnDisk,
                    shownPrefs, edits, editorKills>>
    BY DEF editorVars
  <1>2. StorageInv' /\ IndexOK(listed)'
    BY <1>1, StorageStays DEF EditorInv
  <1>3. LayoutOK(layout)'
    BY <1>1 DEF EditorInv, ShownInv, LayoutOK, IdsIn, OneEach
  <1>4. EditorUI!Reload(saved, layout.id)' = EditorUI!Reload(saved, layout.id)
    BY <1>1 DEF EditorUI!Reload, EditorUI!Body, EditorUI!BuiltIn, EditorUI!Nil
  <1>5. ShownInv'
    BY <1>1, <1>3, <1>4 DEF EditorInv, ShownInv, IdsIn
  <1> QED BY <1>1, <1>2, <1>5 DEF EditorInv, PrefsInv

LEMMA InstancesStay == InstanceInv /\ UNCHANGED instanceVars => InstanceInv'
  <1> SUFFICES ASSUME InstanceInv, UNCHANGED instanceVars PROVE InstanceInv'
    OBVIOUS
  <1>1. UNCHANGED <<instances, step, request, drawn, detail, launch, runJob, barrier, screenTaps>>
    BY DEF instanceVars
  <1>2. WizardInv'
    BY <1>1 DEF InstanceInv, WizardInv, InstanceUI!IsValid, InstanceUI!RequiresLoaderVersion
  <1>3. ListInv(instances)' /\ DetailInv(instances, detail)'
    BY <1>1 DEF InstanceInv, ListInv, DetailInv, OneEach, Elements, Sound, SameBut
  <1>4. DashInv'
    BY <1>1 DEF InstanceInv, DashInv, InstanceUI!IdleRunsNothing
  <1> QED BY <1>2, <1>3, <1>4 DEF InstanceInv

LEMMA ScreensNext == ScreensInv /\ [AppNext]_appVars => ScreensInv'
  <1> SUFFICES ASSUME ScreensInv, [AppNext]_appVars PROVE ScreensInv'
    OBVIOUS
  <1>1. AccountUI!ScreenNext \/ UNCHANGED accountVars
    BY DEF AppNext, appVars
  <1>2. EditorUI!EditorNext \/ UNCHANGED editorVars
    BY DEF AppNext, appVars
  <1>3. InstanceUI!InstanceNext \/ UNCHANGED instanceVars
    BY DEF AppNext, appVars
  <1>4. AccountInv'
    BY <1>1, AccountNextKeeps, AccountsStay DEF ScreensInv
  <1>5. EditorInv'
    BY <1>2, EditorNextKeeps, EditorStays, ScreensAssumption DEF ScreensInv
  <1>6. InstanceInv'
    BY <1>3, InstanceNextKeeps, InstancesStay, ScreensAssumption DEF ScreensInv
  <1> QED BY <1>4, <1>5, <1>6 DEF ScreensInv

LEMMA ScreensMeans == ScreensInv => ScreensSound
  BY AccountInvMeans, EditorInvMeans, InstanceInvMeans, ScreensAssumption
  DEF ScreensInv, ScreensSound

LEMMA ScreensStep ==
  ScreensInv /\ [AppNext]_appVars => [Replaced]_(EditorUI!editorVars) /\ [Lost]_(InstanceUI!instanceVars)
  <1> SUFFICES ASSUME ScreensInv, [AppNext]_appVars
               PROVE  [Replaced]_(EditorUI!editorVars) /\ [Lost]_(InstanceUI!instanceVars)
    OBVIOUS
  <1>1. EditorUI!EditorNext \/ UNCHANGED editorVars
    BY DEF AppNext, appVars
  <1>2. InstanceUI!InstanceNext \/ UNCHANGED instanceVars
    BY DEF AppNext, appVars
  <1>3. UNCHANGED editorVars => UNCHANGED EditorUI!editorVars
    BY DEF editorVars, EditorUI!editorVars, EditorUI!savedVars, EditorUI!prefsVars
  <1>4. UNCHANGED instanceVars => UNCHANGED InstanceUI!instanceVars
    BY DEF instanceVars, InstanceUI!instanceVars, InstanceUI!wizardVars, InstanceUI!dashVars
  <1>5. EditorUI!EditorNext => Replaced
    BY EditorTapReplacesNothing, ScreensAssumption DEF ScreensInv
  <1>6. InstanceUI!InstanceNext => Lost
    BY InstanceTapLosesNothing, ScreensAssumption DEF ScreensInv
  <1> QED BY <1>1, <1>2, <1>3, <1>4, <1>5, <1>6

(* However their coroutines, kills and late taps fall, the screens agree   *)
(* with what they show and with what is kept: no spinner without a call,   *)
(* list and selection as the core has them, layouts and instances whole.   *)
THEOREM ScreensSoundHolds == AppSpec => []ScreensSound
  BY ScreensInit, ScreensNext, ScreensMeans, PTL DEF AppSpec

(* No tap replaces or loses a saved layout, an element of one or an        *)
(* instance that the screen does not show.                                 *)
THEOREM ScreensKeepHolds == AppSpec => ScreensKeep
  <1>1. AppSpec => []ScreensInv
    BY ScreensInit, ScreensNext, PTL DEF AppSpec
  <1>2. AppSpec => [][Replaced]_(EditorUI!editorVars) /\ [][Lost]_(InstanceUI!instanceVars)
    BY <1>1, ScreensStep, PTL DEF AppSpec
  <1>3. EditorUI!NothingReplaced <=> [][Replaced]_(EditorUI!editorVars)
    BY DEF EditorUI!NothingReplaced, Replaced
  <1>4. InstanceUI!InstancesKept <=> [][Lost]_(InstanceUI!instanceVars)
    BY DEF InstanceUI!InstancesKept, Lost
  <1> QED BY <1>2, <1>3, <1>4 DEF ScreensKeep
===================================================================================
