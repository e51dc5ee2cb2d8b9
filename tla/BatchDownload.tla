---------------------------- MODULE BatchDownload ----------------------------
(***************************************************************************)
(* A batch of downloads (DownloadManager::download_all_concurrent) of files *)
(* whose server ignores Range, so that each is fetched in one request and  *)
(* written straight into its .part file (download_single).  The batch loop *)
(* takes a permit per task before it spawns it; a task gives its permit    *)
(* back when it ends; the loop then collects the answers as they come.     *)
(*                                                                         *)
(* A file is the sequence of the pieces of the body it holds; a handle     *)
(* names the file and not the path, so a file that was renamed can still   *)
(* be written by a task that opened it before.  Files of chunked downloads *)
(* are the subject of ChunkedDownload.                                     *)
(***************************************************************************)
EXTENDS Integers, Sequences, FiniteSets, SequencesExt

CONSTANTS
  NumTasks,    \* tasks of the batch, in the order of the slice
  Dest,        \* destinations
  DestOf,      \* destination of each task
  Limit,       \* DownloadOptions::max_batch_concurrency (at least 1)
  MaxRetries,  \* DownloadOptions::max_retries
  Pieces,      \* network buffers in the body of a file
  Checked,     \* the tasks that carry a checksum
  MaxFaults    \* bound: faults in a behaviour

Task == 1 .. NumTasks

ASSUME BatchAssumption ==
  /\ NumTasks \in Nat /\ Limit \in Nat \ {0}
  /\ DestOf \in [Task -> Dest]
  /\ MaxRetries \in Nat /\ Pieces \in Nat \ {0} /\ MaxFaults \in Nat
  /\ Checked \subseteq Task

VARIABLES
  next,     \* the next task the batch loop enqueues; NumTasks + 1: it joins
  permits,  \* free permits of the semaphore
  stage,    \* where each task is
  tries,    \* failed fetches of each task
  fetched,      \* pieces of the current body each task has written
  at,       \* offset of the handle of each task
  handle,   \* the file each task has open
  answer,   \* what each task will answer: [ok, size]
  out,      \* the results collected so far
  temp,     \* file under the .part name of each destination
  dest,     \* file under the name of each destination
  content,  \* what each file holds
  faults    \* faults that may still happen

batch == <<next, out>>
tasks == <<stage, tries, fetched, at, handle, answer>>
names == <<temp, dest>>
batchVars  == <<batch, permits, tasks, names, content, faults>>

-----------------------------------------------------------------------------
None  == 0      \* no file; a task that creates a file creates the file named t
Bad   == 0      \* a piece that is not what the server holds
Body  == [i \in 1 .. Pieces |-> i]
MaxLength == (MaxRetries + 1) * Pieces

Failed == [ok |-> FALSE, size |-> 0]

UnderWay  == {t \in Task : stage[t] \notin {"waiting", "ended", "joined"}}
Done   == next > NumTasks /\ \A t \in Task : stage[t] = "joined"
Alone(t) == \A u \in Task \ {t} : DestOf[u] # DestOf[t]

TypeOK ==
  /\ next \in 1 .. NumTasks + 1 /\ permits \in 0 .. Limit
  /\ stage \in [Task -> {"waiting", "resolve", "open", "fetch", "verify",
                         "rename", "ended", "joined"}]
  /\ tries \in [Task -> 0 .. MaxRetries + 1] /\ fetched \in [Task -> 0 .. Pieces]
  /\ at \in [Task -> 0 .. MaxLength]
  /\ handle \in [Task -> {None} \cup Task]
  /\ answer \in [Task -> [ok : BOOLEAN, size : 0 .. Pieces]]
  /\ \A i \in DOMAIN out : out[i] \in [task : Task, ok : BOOLEAN, size : 0 .. Pieces]
  /\ temp \in [Dest -> {None} \cup Task] /\ dest \in [Dest -> {None} \cup Task]
  /\ \A f \in Task : content[f] \in BoundedSeq({Bad} \cup 1 .. Pieces, MaxLength)
  /\ faults \in 0 .. MaxFaults

Init ==
  /\ next = 1 /\ out = <<>> /\ permits = Limit
  /\ stage = [t \in Task |-> "waiting"]
  /\ tries = [t \in Task |-> 0] /\ fetched = tries /\ at = tries /\ handle = tries
  /\ answer = [t \in Task |-> Failed]
  /\ temp = [d \in Dest |-> None] /\ dest = temp
  /\ content = [f \in Task |-> <<>>]
  /\ faults = MaxFaults

-----------------------------------------------------------------------------
(* The batch loop *)

EnqueueForgetsPermit ==   \* mutant: the spawned task does not own its permit
  /\ next <= NumTasks /\ permits > 0
  /\ permits' = permits
  /\ stage' = [stage EXCEPT ![next] = "resolve"]
  /\ next' = next + 1
  /\ UNCHANGED <<out, tries, fetched, at, handle, answer, names, content, faults>>

(* download_all_concurrent: acquire_owned, then spawn. *)
Enqueue ==
  /\ next <= NumTasks /\ permits > 0
  /\ permits' = permits - 1
  /\ stage' = [stage EXCEPT ![next] = "resolve"]
  /\ next' = next + 1
  /\ UNCHANGED <<out, tries, fetched, at, handle, answer, names, content, faults>>

JoinAborts(t) ==   \* mutant: the first failure aborts the rest, as in download_chunked
  /\ next > NumTasks /\ stage[t] = "ended"
  /\ out' = Append(out, [task |-> t, ok |-> answer[t].ok, size |-> answer[t].size])
  /\ LET hit == IF answer[t].ok THEN {} ELSE UnderWay
     IN  /\ stage' = [u \in Task |-> IF u = t THEN "joined"
                                     ELSE IF u \in hit THEN "ended" ELSE stage[u]]
         /\ permits' = permits + Cardinality(hit)
  /\ UNCHANGED <<next, tries, fetched, at, handle, answer, names, content, faults>>

(* join_next hands over the answer of a task that has ended. *)
Join(t) ==
  /\ next > NumTasks /\ stage[t] = "ended"
  /\ out' = Append(out, [task |-> t, ok |-> answer[t].ok, size |-> answer[t].size])
  /\ stage' = [stage EXCEPT ![t] = "joined"]
  /\ UNCHANGED <<next, permits, tries, fetched, at, handle, answer, names, content, faults>>

EndKeepsPermitOnError(t, a) ==   \* mutant: only success gives the permit back
  /\ stage' = [stage EXCEPT ![t] = "ended"]
  /\ answer' = [answer EXCEPT ![t] = a]
  /\ permits' = IF a.ok THEN permits + 1 ELSE permits

(* A task ends: it answers and drops its permit. *)
EndWith(t, a) ==
  /\ stage' = [stage EXCEPT ![t] = "ended"]
  /\ answer' = [answer EXCEPT ![t] = a]
  /\ permits' = permits + 1

-----------------------------------------------------------------------------
(* One task *)

Go(t, s) == stage' = [stage EXCEPT ![t] = s] /\ UNCHANGED <<answer, permits>>

Fault == faults > 0 /\ faults' = faults - 1

(* resolve: the one-byte probe is answered without Range, or fails. *)
Resolve(t) ==
  /\ stage[t] = "resolve"
  /\ \/ Go(t, "open") /\ UNCHANGED faults
     \/ Fault /\ EndWith(t, Failed)
  /\ UNCHANGED <<batch, tries, fetched, at, handle, names, content>>

(* OpenOptions create + truncate on the .part name. *)
Open(t) ==
  LET d == DestOf[t]
      f == IF temp[d] = None THEN t ELSE temp[d]
  IN  /\ stage[t] = "open"
      /\ Go(t, "fetch")
      /\ temp' = [temp EXCEPT ![d] = f]
      /\ handle' = [handle EXCEPT ![t] = f]
      /\ content' = [content EXCEPT ![f] = <<>>]
      /\ UNCHANGED <<batch, tries, fetched, at, dest, faults>>

(* A write beyond the end of a file another task truncated leaves a hole. *)
WriteAt(s, pos, piece) ==
  [i \in 1 .. IF Len(s) > pos THEN Len(s) ELSE pos + 1 |->
     IF i = pos + 1 THEN piece ELSE IF i <= Len(s) THEN s[i] ELSE Bad]

(* fetch_range_into: one more buffer of the body is written, where the     *)
(* handle stands.                                                          *)
Receive(t) ==
  /\ stage[t] = "fetch" /\ fetched[t] < Pieces
  /\ \E piece \in {fetched[t] + 1, Bad} :
       /\ IF piece = Bad THEN Fault ELSE UNCHANGED faults
       /\ content' = [content EXCEPT ![handle[t]] = WriteAt(@, at[t], piece)]
  /\ fetched' = [fetched EXCEPT ![t] = @ + 1] /\ at' = [at EXCEPT ![t] = @ + 1]
  /\ UNCHANGED <<batch, permits, stage, tries, handle, answer, names>>

(* retry_fetch_into after a failed fetch: what was written stays, and the  *)
(* next fetch starts again from the first byte of the body.                *)
FetchFails(t) ==
  /\ stage[t] = "fetch" /\ Fault
  /\ tries' = [tries EXCEPT ![t] = @ + 1] /\ fetched' = [fetched EXCEPT ![t] = 0]
  /\ IF tries'[t] > MaxRetries THEN EndWith(t, Failed) ELSE Go(t, "fetch")
  /\ UNCHANGED <<batch, at, handle, names, content>>

(* The body is complete: sync_all, and the handle is dropped. *)
FetchEnds(t) ==
  /\ stage[t] = "fetch" /\ fetched[t] = Pieces
  /\ Go(t, "verify")
  /\ handle' = [handle EXCEPT ![t] = None]
  /\ UNCHANGED <<batch, tries, fetched, at, names, content, faults>>

VerifyLength(t) ==   \* mutant: the length alone is checked
  LET f == temp[DestOf[t]]
  IN  /\ stage[t] = "verify"
      /\ IF t \notin Checked \/ (f # None /\ Len(content[f]) = Pieces)
           THEN Go(t, "rename") ELSE EndWith(t, Failed)
      /\ UNCHANGED <<batch, tries, fetched, at, handle, names, content, faults>>

(* finalize: the checksum of whatever the .part name names. *)
Verify(t) ==
  LET f == temp[DestOf[t]]
  IN  /\ stage[t] = "verify"
      /\ IF t \notin Checked \/ (f # None /\ content[f] = Body)
           THEN Go(t, "rename") ELSE EndWith(t, Failed)
      /\ UNCHANGED <<batch, tries, fetched, at, handle, names, content, faults>>

(* finalize: rename onto the destination, which fails if the name is gone, *)
(* then remove the side-car of an earlier chunked attempt.                 *)
Rename(t) ==
  LET d == DestOf[t]
  IN  /\ stage[t] = "rename"
      /\ IF temp[d] = None
           THEN EndWith(t, Failed) /\ UNCHANGED names
           ELSE /\ EndWith(t, [ok |-> TRUE, size |-> Pieces])
                /\ dest' = [dest EXCEPT ![d] = temp[d]]
                /\ temp' = [temp EXCEPT ![d] = None]
      /\ UNCHANGED <<batch, tries, fetched, at, handle, content, faults>>

Step(t) == Resolve(t) \/ Open(t) \/ Receive(t) \/ FetchEnds(t)
             \/ Verify(t) \/ Rename(t)

Finished == Done /\ UNCHANGED batchVars

Next ==
  \/ Enqueue \/ Finished
  \/ \E t \in Task : Join(t) \/ Step(t) \/ FetchFails(t)

(* Every task the executor runs goes on, and so does the batch loop.  A    *)
(* fetch may always fail instead, as long as the faults last.              *)
Spec ==
  /\ Init /\ [][Next]_batchVars
  /\ WF_batchVars(Enqueue)
  /\ \A t \in Task : WF_batchVars(Join(t)) /\ WF_batchVars(Step(t))
-----------------------------------------------------------------------------
(* Properties *)

(* However the tasks end, no more than Limit of them are under way at once. *)
InFlightBounded == Cardinality(UnderWay) <= Limit

(* "A failure of one task does not abort the others": a task that has its  *)
(* destination to itself is refused only for a fault of its own, so the    *)
(* refusals never outnumber the faults.                                    *)
FailuresAreTheirOwn ==
  Cardinality({t \in Task : /\ Alone(t) /\ stage[t] \in {"ended", "joined"}
                            /\ ~answer[t].ok}) <= MaxFaults - faults

(* A checksummed task that has its destination to itself and answered "ok" *)
(* left the whole body there, whatever was retried and received.           *)
OkIsWhole ==
  \A t \in Checked : Alone(t) /\ answer[t].ok => content[dest[DestOf[t]]] = Body

(* The batch returns, with an answer for every task: no failure keeps the  *)
(* permit a task that waits in the loop needs.                             *)
BatchReturns == <>(Done /\ {out[i].task : i \in DOMAIN out} = Task)

(* Of a batch at any moment: the limit holds, a refusal is the task's own, *)
(* and what was answered "ok" is the whole body.                           *)
BatchInv == TypeOK /\ InFlightBounded /\ FailuresAreTheirOwn /\ OkIsWhole
=============================================================================
