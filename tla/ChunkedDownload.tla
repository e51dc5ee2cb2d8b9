--------------------------- MODULE ChunkedDownload ---------------------------
(***************************************************************************)
(* The resumable, chunked download of one file (download/manager.rs): the  *)
(* .part file, its .part.meta side-car, the chunk tasks that run in        *)
(* parallel behind a semaphore, the retries, the throttled persistence of  *)
(* the resume state, the verification and the rename onto the destination. *)
(*                                                                         *)
(* Attempts to fetch the same destination follow one another; between two  *)
(* steps of an attempt the process may be killed.  A file is abstracted to *)
(* whether it has the expected length and to the set of chunks of it that  *)
(* hold the bytes they should; a hole, a partial body and wrong bytes are  *)
(* all "not good".                                                         *)
(*                                                                         *)
(* A chunk is written through tokio's File, which completes a write when   *)
(* it has accepted the buffer and lets the next write of the same file     *)
(* wait for it; download_chunk neither flushes nor syncs.  So the last     *)
(* write of every body may reach the file late: after its chunk is counted *)
(* and claimed, after the hash, after the rename, or, when the process is  *)
(* killed, never.                                                          *)
(***************************************************************************)
EXTENDS Integers, FiniteSets

CONSTANTS
  NumChunks,     \* chunks in the plan of the file
  Concurrency,   \* DownloadOptions::concurrency, permits of the semaphore
  MaxRetries,    \* DownloadOptions::max_retries, per chunk
  PersistEvery,  \* DownloadOptions::meta_persist_every
  Checked,       \* TRUE if the task carries a checksum
  Redownload,    \* TRUE if a delivered file may be downloaded again
  Faults,        \* the kinds of fault that may happen
  MaxFaults      \* bound: faults in a behaviour

FaultKinds == {"net", "badbytes", "fullbody", "unlink", "crash"}

ASSUME DownloadAssumption ==
  /\ NumChunks \in Nat \ {0}
  /\ Concurrency \in Nat \ {0}
  /\ MaxRetries \in Nat
  /\ PersistEvery \in Nat \ {0}
  /\ Checked \in BOOLEAN /\ Redownload \in BOOLEAN
  /\ Faults \subseteq FaultKinds
  /\ MaxFaults \in Nat

Chunk  == 0 .. NumChunks - 1
Main   == NumChunks        \* owner of the final flush of the resume state
Orphan == NumChunks + 1    \* owner of a write whose chunk task was aborted

VARIABLES
  main,       \* where the attempt is ("idle": none is running)
  result,     \* how the last attempt ended
  part,       \* the .part file
  dest,       \* the destination file
  meta,       \* the .part.meta file: chunks it claims, bytes it has
  late,       \* writes accepted for a file that have not reached it (alike ones as one)
  writers,    \* writes of .part.meta handed to the blocking pool
  task,       \* where the task of each chunk is
  retries,    \* failed fetches of each chunk in this attempt
  completed,  \* the set of completed chunks, shared by the tasks
  gate,       \* persist_gate modulo PersistEvery
  loaded,     \* the cumulative count a task read for its progress report
  shown,      \* the last progress report delivered
  strayed,    \* history: a wrong body reached a file after its hash
  lost,       \* history: chunks accepted that a kill kept from their file
  faults      \* faults that may still happen

history == <<strayed, lost>>
disk   == <<part, dest, meta, late, writers, history>>
memory == <<task, retries, completed, gate, loaded>>
vars   == <<main, result, disk, memory, shown, faults>>

-----------------------------------------------------------------------------
(* Files *)

Absent == [there |-> FALSE, exact |-> FALSE, good |-> {}]
Fresh  == [there |-> TRUE,  exact |-> TRUE,  good |-> {}]
Intact == [there |-> TRUE,  exact |-> TRUE,  good |-> Chunk]

File    == [there : BOOLEAN, exact : BOOLEAN, good : SUBSET Chunk]
Meta    == [claims : SUBSET Chunk, bytes : 0 .. NumChunks + 1]
NoMeta  == [claims |-> {}, bytes |-> 0]   \* missing or truncated: loads as new
(* A write: the chunks it covers, whether its bytes are theirs, and        *)
(* whether it goes on past the end of the file.                            *)
Write   == [file : {"part", "dest"}, chunks : SUBSET Chunk, ok : BOOLEAN, long : BOOLEAN]
Writer  == [by : 0 .. Orphan, snap : SUBSET Chunk, open : BOOLEAN]

Running == {"fetch", "fetched", "counted", "persist", "report", "deliver"}
Active  == {c \in Chunk : task[c] \in Running}

Fault(k) == k \in Faults /\ faults > 0 /\ faults' = faults - 1

(* std::fs::write truncates when it opens; a shorter snapshot written over *)
(* a longer one leaves the tail of the longer, which does not parse.       *)
Overwrite(snap) ==
  LET size == Cardinality(snap) + 1
  IN  IF meta.bytes <= size THEN [claims |-> snap, bytes |-> size]
                            ELSE [claims |-> {}, bytes |-> meta.bytes]

Bytes(chunks, ok, long) == [file |-> "part", chunks |-> chunks, ok |-> ok, long |-> long]

Patch(file, w) ==
  [file EXCEPT !.good  = IF w.ok THEN @ \cup w.chunks ELSE @ \ w.chunks,
               !.exact = @ /\ ~w.long]

(* The chunks whose right bytes are on their way to a file. *)
Coming(file) == UNION {w.chunks : w \in {x \in late : x.file = file /\ x.ok}}

-----------------------------------------------------------------------------
TypeOK ==
  /\ main \in {"idle", "load", "presize", "spawn", "join", "flush", "verify",
               "rename", "unlink"}
  /\ result \in {"none", "ok", "err", "crash"}
  /\ part \in File /\ dest \in File /\ meta \in Meta
  /\ late \subseteq Write
  /\ writers \subseteq Writer
  /\ task \in [Chunk -> Running \cup {"todo", "skip", "done", "failed"}]
  /\ retries \in [Chunk -> 0 .. MaxRetries + 1]
  /\ completed \subseteq Chunk
  /\ gate \in 0 .. PersistEvery - 1
  /\ loaded \in [Chunk -> 0 .. NumChunks]
  /\ shown \in [done : 0 .. NumChunks, finished : BOOLEAN]
  /\ strayed \in BOOLEAN /\ lost \subseteq Chunk
  /\ faults \in 0 .. MaxFaults

NoReport == [done |-> 0, finished |-> FALSE]
Zeros    == [c \in Chunk |-> 0]
Resting  == [c \in Chunk |-> "todo"]

Init ==
  /\ main = "idle" /\ result = "none"
  /\ part = Absent /\ dest = Absent /\ meta = NoMeta
  /\ late = {} /\ writers = {}
  /\ task = Resting /\ retries = Zeros /\ completed = {} /\ gate = 0
  /\ loaded = Zeros /\ shown = NoReport
  /\ strayed = FALSE /\ lost = {}
  /\ faults = MaxFaults

(* What an attempt keeps in memory goes when it returns or is killed. *)
Forget ==
  /\ task' = Resting /\ retries' = Zeros /\ completed' = {}
  /\ gate' = 0 /\ loaded' = Zeros

-----------------------------------------------------------------------------
(* The attempt: download, resolve, download_chunked, finalize *)

Start ==  \* size known, or the probe answered with range support
  /\ main = "idle" /\ (result = "ok" => Redownload)
  /\ main' = "load" /\ result' = "none" /\ shown' = NoReport
  /\ UNCHANGED <<disk, memory, faults>>

StartFails ==  \* the probing request failed
  /\ main = "idle" /\ (result = "ok" => Redownload)
  /\ Fault("net")
  /\ result' = "err" /\ shown' = NoReport
  /\ UNCHANGED <<main, disk, memory>>

LoadState ==  \* a meta file that is missing or does not parse claims nothing
  /\ main = "load"
  /\ main' = "presize"
  /\ completed' = meta.claims
  /\ task' = [c \in Chunk |-> IF c \in meta.claims THEN "skip" ELSE "todo"]
  /\ retries' = Zeros /\ gate' = 0 /\ loaded' = Zeros
  /\ UNCHANGED <<result, disk, shown, faults>>

PresizeAlways ==  \* mutant: the length of the file found is not looked at
  /\ main = "presize"
  /\ main' = "spawn" /\ part' = Fresh
  /\ UNCHANGED <<result, dest, meta, late, writers, history, memory, shown, faults>>

PresizeDropsOld ==  \* mutant: the old destination is removed at the start
  /\ main = "presize"
  /\ main' = "spawn" /\ dest' = Absent
  /\ part' = IF part.there /\ part.exact THEN part ELSE Fresh
  /\ UNCHANGED <<result, meta, late, writers, history, memory, shown, faults>>

Presize ==  \* a file of another length is truncated; what meta claims stays
  /\ main = "presize"
  /\ main' = "spawn"
  /\ part' = IF part.there /\ part.exact THEN part ELSE Fresh
  /\ UNCHANGED <<result, dest, meta, late, writers, history, memory, shown, faults>>

SpawnLeaksPermit(c) ==  \* mutant: a failed task keeps its permit
  /\ main = "spawn" /\ task[c] = "todo"
  /\ \A d \in 0 .. c - 1 : task[d] # "todo"
  /\ Cardinality({d \in Chunk : task[d] \in Running \cup {"failed"}}) < Concurrency
  /\ task' = [task EXCEPT ![c] = "fetch"]
  /\ UNCHANGED <<main, result, disk, retries, completed, gate, loaded, shown, faults>>

Spawn(c) ==  \* in plan order, each with a permit acquired beforehand
  /\ main = "spawn" /\ task[c] = "todo"
  /\ \A d \in 0 .. c - 1 : task[d] # "todo"
  /\ Cardinality(Active) < Concurrency
  /\ task' = [task EXCEPT ![c] = "fetch"]
  /\ UNCHANGED <<main, result, disk, retries, completed, gate, loaded, shown, faults>>

AllSpawned ==
  /\ main = "spawn" /\ \A c \in Chunk : task[c] # "todo"
  /\ main' = "join"
  /\ UNCHANGED <<result, disk, memory, shown, faults>>

(* The tasks still running are dropped; what they handed to the blocking   *)
(* pool is not.                                                            *)
Dropped == {[w EXCEPT !.by = Orphan] : w \in writers}

JoinFails ==
  /\ main = "join" /\ \E c \in Chunk : task[c] = "failed"
  /\ main' = "idle" /\ result' = "err"
  /\ writers' = Dropped /\ Forget
  /\ UNCHANGED <<part, dest, meta, late, history, shown, faults>>

JoinAny(ends) ==
  /\ main = "join" /\ \A c \in Chunk : task[c] \in ends
  /\ main' = "flush"
  /\ writers' = writers \cup {[by |-> Main, snap |-> completed, open |-> FALSE]}
  /\ UNCHANGED <<result, part, dest, meta, late, history, memory, shown, faults>>

JoinBlind == JoinAny({"done", "skip", "failed"})  \* mutant: errors not looked at

JoinSucceeds ==  \* all chunks done: the final flush of the resume state
  JoinAny({"done", "skip"})

VerifyLength ==  \* mutant: only the length is compared
  /\ main = "verify"
  /\ IF Checked /\ ~part.exact
     THEN main' = "idle" /\ result' = "err" /\ Forget
     ELSE main' = "rename" /\ UNCHANGED <<result, memory>>
  /\ UNCHANGED <<disk, shown, faults>>

Verify ==
  /\ main = "verify"
  /\ IF Checked /\ part # Intact
     THEN main' = "idle" /\ result' = "err" /\ Forget
     ELSE main' = "rename" /\ UNCHANGED <<result, memory>>
  /\ UNCHANGED <<disk, shown, faults>>

Rename ==  \* writes still under way follow the file to its new name
  /\ main = "rename"
  /\ main' = "unlink"
  /\ dest' = part /\ part' = Absent
  /\ late' = {[w EXCEPT !.file = "dest"] : w \in {x \in late : x.file = "part"}}
  /\ UNCHANGED <<result, meta, writers, history, memory, shown, faults>>

Unlink ==  \* remove .part.meta, report the end and return
  /\ main = "unlink"
  /\ main' = "idle" /\ result' = "ok" /\ Forget
  /\ shown' = [done |-> NumChunks, finished |-> TRUE]
  /\ \/ /\ meta' = NoMeta
        /\ writers' = {w \in writers : ~w.open}
        /\ UNCHANGED faults
     \/ /\ Fault("unlink")
        /\ UNCHANGED <<meta, writers>>
  /\ UNCHANGED <<part, dest, late, history>>

-----------------------------------------------------------------------------
(* A chunk task: download_chunk *)

Advance(c, from, to) ==
  /\ task[c] = from
  /\ task' = [task EXCEPT ![c] = to]

Retry(c) ==  \* one more failed attempt, and the task gives up past MaxRetries
  /\ task[c] = "fetch"
  /\ retries' = [retries EXCEPT ![c] = @ + 1]
  /\ task' = IF retries[c] + 1 > MaxRetries
             THEN [task EXCEPT ![c] = "failed"] ELSE task
  /\ UNCHANGED <<main, result, dest, meta, writers, history, completed, gate, loaded, shown>>

(* What is left of a body of the length asked for is on its way when its   *)
(* chunk is taken for fetched.                                             *)
Receive(c, ok) ==
  /\ Advance(c, "fetch", "fetched")
  /\ late' = late \cup {Bytes({c}, ok, FALSE)}
  /\ UNCHANGED <<main, result, part, dest, meta, writers, history, retries, completed,
                 gate, loaded, shown>>

FetchGood(c) == Receive(c, TRUE) /\ UNCHANGED faults

FetchBad(c) == Fault("badbytes") /\ Receive(c, FALSE)

FetchFailsKept(c) ==  \* mutant: a body of another length is accepted
  /\ Fault("net")
  /\ Advance(c, "fetch", "fetched")
  /\ UNCHANGED <<main, result, disk, retries, completed, gate, loaded, shown>>

FetchFails(c) ==  \* transport error, or a shorter body: right as far as it goes
  /\ Fault("net")
  /\ Retry(c)
  /\ UNCHANGED <<part, late>>

(* Status 200: the whole body, written from the chunk's offset on, is too  *)
(* long and refused.  Its last buffer covers the chunks from k on.         *)
FetchWhole(c) ==
  /\ NumChunks > 1
  /\ Fault("fullbody")
  /\ Retry(c)
  /\ \E k \in c .. NumChunks :
       /\ part' = Patch(part, Bytes(c .. k - 1, c = 0, FALSE))
       /\ late' = late \cup {Bytes(k .. NumChunks - 1, c = 0, c # 0)}

Count(c) ==
  /\ Advance(c, "fetched", "counted")
  /\ completed' = completed \cup {c}
  /\ UNCHANGED <<main, result, disk, retries, gate, loaded, shown, faults>>

PassGate(c) ==  \* every PersistEvery-th completion persists a snapshot
  /\ gate' = (gate + 1) % PersistEvery
  /\ IF gate' = 0
     THEN /\ Advance(c, "counted", "persist")
          /\ writers' = writers \cup {[by |-> c, snap |-> completed, open |-> FALSE]}
     ELSE /\ Advance(c, "counted", "report")
          /\ UNCHANGED writers
  /\ UNCHANGED <<main, result, part, dest, meta, late, history, retries, completed,
                 loaded, shown, faults>>

ReadCount(c) ==
  /\ Advance(c, "report", "deliver")
  /\ loaded' = [loaded EXCEPT ![c] = Cardinality(completed)]
  /\ UNCHANGED <<main, result, disk, retries, completed, gate, shown, faults>>

DeliverEnd(c) ==  \* mutant: a chunk that reads the full count reports the end
  /\ Advance(c, "deliver", "done")
  /\ shown' = [done |-> loaded[c], finished |-> loaded[c] = NumChunks]
  /\ UNCHANGED <<main, result, disk, retries, completed, gate, loaded, faults>>

Deliver(c) ==
  /\ Advance(c, "deliver", "done")
  /\ shown' = [done |-> loaded[c], finished |-> FALSE]
  /\ UNCHANGED <<main, result, disk, retries, completed, gate, loaded, faults>>

-----------------------------------------------------------------------------
(* The blocking pool: persist_meta_blocking and the writes of tokio's File *)

OpenMeta(w) ==
  /\ ~w.open
  /\ meta' = NoMeta
  /\ writers' = (writers \ {w}) \cup {[w EXCEPT !.open = TRUE]}
  /\ UNCHANGED <<main, result, part, dest, late, history, memory, shown, faults>>

WriteMeta(w) ==  \* the task, or the attempt, that awaits the write goes on
  /\ w.open
  /\ meta' = Overwrite(w.snap)
  /\ writers' = writers \ {w}
  /\ task' = [c \in Chunk |-> IF c = w.by /\ task[c] = "persist"
                              THEN "report" ELSE task[c]]
  /\ main' = IF w.by = Main THEN "verify" ELSE main
  /\ UNCHANGED <<result, part, dest, late, history, retries, completed, gate, loaded, shown,
                 faults>>

Land(w) ==  \* a write reaches the file it was made to
  /\ late' = late \ {w}
  /\ strayed' = (strayed \/ (~w.ok /\ (w.file = "dest" \/ main = "rename")))
  /\ IF w.file = "part"
     THEN part' = Patch(part, w) /\ UNCHANGED dest
     ELSE dest' = Patch(dest, w) /\ UNCHANGED part
  /\ UNCHANGED <<main, result, meta, writers, lost, memory, shown, faults>>

(* The process is killed: what is on disk is all that is left. *)
Crash ==
  /\ Fault("crash")
  /\ main' = "idle"
  /\ result' = IF main = "idle" THEN result ELSE "crash"
  /\ late' = {} /\ writers' = {} /\ Forget
  /\ lost' = lost \cup Coming("part") \cup Coming("dest")
  /\ shown' = NoReport
  /\ UNCHANGED <<part, dest, meta, strayed>>

-----------------------------------------------------------------------------
Attempt == Start \/ StartFails \/ LoadState \/ Presize \/ AllSpawned \/ JoinFails
           \/ JoinSucceeds \/ Verify \/ Rename \/ Unlink
ChunkTask(c) == Spawn(c) \/ FetchGood(c) \/ FetchBad(c) \/ FetchFails(c)
                \/ FetchWhole(c) \/ Count(c) \/ PassGate(c) \/ ReadCount(c) \/ Deliver(c)
Persist == \E w \in writers : OpenMeta(w) \/ WriteMeta(w)
LandOne == \E w \in late : Land(w)
Done == main = "idle" /\ result = "ok" /\ ~Redownload /\ UNCHANGED vars

Next == Attempt \/ (\E c \in Chunk : ChunkTask(c)) \/ Persist \/ LandOne \/ Crash \/ Done

Spec == Init /\ [][Next]_vars

(* The runtime polls every task and the pool runs every job; the caller    *)
(* asks again after a failure.  Faults are never forced.                   *)
Progress == LoadState \/ Presize \/ AllSpawned \/ JoinFails \/ JoinSucceeds
            \/ Verify \/ Rename \/ Unlink
Steps(c) == Spawn(c) \/ FetchGood(c) \/ Count(c) \/ PassGate(c) \/ ReadCount(c)
            \/ Deliver(c)
Fairness ==
  /\ WF_vars(Start)
  /\ WF_vars(Progress)
  /\ \A c \in Chunk : WF_vars(Steps(c))
  /\ WF_vars(Persist) /\ WF_vars(LandOne)
FairSpec == Spec /\ Fairness

-----------------------------------------------------------------------------
(* With a checksum, a file on the destination is whole, and stays whole,   *)
(* whatever holes stale claims, lost writes and failed attempts left in    *)
(* the temp file (finalize hashes it before the rename).  The hash sees    *)
(* only what has landed: the exception is a wrong body whose last write    *)
(* was still on its way then.                                              *)
VerifiedDelivery == Checked /\ ~strayed => dest \in {Absent, Intact}

(* A checksummed download implements the promise of FileDelivery, for a    *)
(* file that is whole but for what such a stray write did to it.           *)
Promise == INSTANCE FileDelivery WITH
             asked <- main # "idle", answer <- result,
             delivered <- dest.there /\ (strayed \/ dest = Intact)
KeepsPromise == Promise!Spec

(* Until the destination first appears, the resume state on disk and in    *)
(* memory claims only chunks whose bytes are in the .part file, or on      *)
(* their way to it, or were on their way when the process was killed.      *)
Accounted == part.good \cup Coming("part") \cup lost
ResumeSound ==
  ~dest.there => /\ meta.claims \subseteq Accounted
                 /\ completed \subseteq Accounted
                 /\ \A w \in writers : w.snap \subseteq Accounted

(* Without a checksum, the file that first appears on the destination has  *)
(* its length, and every chunk that is not in it yet is on its way to it   *)
(* or was lost with a kill: however many attempts it took, none was        *)
(* skipped that had not been fetched.                                      *)
FirstDeliveryComplete ==
  [][dest = Absent /\ dest' # Absent
       => dest'.exact /\ dest'.good \cup Coming("dest")' \cup lost' = Chunk]_vars

(* The report of the end is the last report of an attempt: no chunk report *)
(* that was read before overtakes it.                                      *)
FinishedIsLast ==
  [][shown.finished => shown' = shown \/ shown' = NoReport]_vars

(* Every attempt ends: permits come back on every path, retries are        *)
(* bounded, and nothing the attempt awaits is lost.                        *)
AttemptEnds == main # "idle" ~> main = "idle"

(* After transport faults that stop, asking again delivers the file.       *)
EventuallyDelivered == <>(result = "ok" /\ dest = Intact)

(* No attempt hangs, and one of them delivers. *)
AttemptsDeliver == AttemptEnds /\ EventuallyDelivered

(* A success answers for the bytes: when download returns Ok, and no kill  *)
(* has cut off a write, the destination holds the whole file or the rest   *)
(* of it is on its way.                                                    *)
OkMeansIntact ==
  result = "ok" /\ lost = {} => dest.exact /\ dest.good \cup Coming("dest") = Chunk
=============================================================================
