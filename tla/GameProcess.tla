----------------------------- MODULE GameProcess ------------------------------
(***************************************************************************)
(* The supervision of a game process (launch/process.rs): the child writes *)
(* lines into two bounded pipes, a task per pipe pumps them into a channel *)
(* and the owner of the GameProcess records them - wait_with until the     *)
(* process is gone - or stops, kills or drops it.                          *)
(*                                                                         *)
(* The lines of a stream are numbered as they are written.  wait_with may  *)
(* be dropped between two lines, as a caller does that wants to stop.      *)
(*                                                                         *)
(* A process the game leaves may hold the pipes in silence, an heir, or    *)
(* write a line in every DRAIN_AFTER_EXIT for as long as it lives, a       *)
(* chatterer: of its lines only the first MaxLines are told apart, the     *)
(* others just start the silence again that the draining waits for.        *)
(***************************************************************************)
EXTENDS Integers, Sequences, CrashDiagnosis

CONSTANTS
  MaxLines,   \* bound: lines written to each stream
  PipeSize,   \* lines a pipe holds
  Capacity,   \* lines the log buffer retains
  Says,       \* the text of each line the game may write
  Forks,      \* TRUE if the game may leave a process that holds its pipes
  Timely      \* TRUE if a line in a pipe is always pumped within the drain

Stream == {"stdout", "stderr"}
Line   == [stream : Stream, n : 1 .. MaxLines]

ASSUME ProcessAssumption ==
  /\ DOMAIN Says = Line
  /\ MaxLines \in Nat /\ PipeSize \in Nat \ {0} /\ Capacity \in Nat \ {0}
  /\ Forks \in BOOLEAN /\ Timely \in BOOLEAN

VARIABLES
  game,      \* "alive", or how the child ended
  writers,   \* who holds the write ends of the pipes: the child, or who it left
  signal,    \* the strongest signal sent to the child
  reaped,    \* TRUE if its status was collected: its pid is free again
  written,   \* lines written to each pipe
  last,      \* history: lines written when the game ended
  pumped,    \* lines read from each pipe and sent to the channel
  open,      \* pipes whose pump is running
  channel,   \* the channel of captured lines
  log,       \* the log buffer: lines retained, lines dropped
  heard,     \* the lines handed to the caller, over all its calls
  owner,     \* what the owner of the GameProcess is doing
  asked      \* stop_requested

child == <<game, writers, signal, reaped>>
pipes == <<written, last, pumped, open, channel>>
view  == <<log, heard>>
vars  == <<child, pipes, view, owner, asked>>

Heirs    == {"heir", "chatterer"}
Ends     == {"clean", "failed", "crashed", "terminated", "killed"}

TypeOK ==
  /\ game \in {"alive"} \cup Ends
  /\ writers \subseteq {"child"} \cup Heirs
  /\ signal \in {"none", "term", "kill"} /\ reaped \in BOOLEAN
  /\ written \in [Stream -> 0 .. MaxLines] /\ last \in [Stream -> 0 .. MaxLines]
  /\ pumped \in [Stream -> 0 .. MaxLines]
  /\ open \subseteq Stream
  /\ channel \in Seq(Line) /\ heard \in Seq(Line)
  /\ log.kept \in Seq(Line) /\ Len(log.kept) <= Capacity /\ log.dropped \in Nat
  /\ owner \in {"idle", "watch", "drain", "reap", "stop", "kill", "done", "dropped"}
  /\ asked \in BOOLEAN

Init ==
  /\ game = "alive" /\ writers = {"child"} /\ signal = "none" /\ reaped = FALSE
  /\ written = [s \in Stream |-> 0] /\ last = written /\ pumped = [s \in Stream |-> 0]
  /\ open = Stream /\ channel = <<>>
  /\ log = [kept |-> <<>>, dropped |-> 0] /\ heard = <<>>
  /\ owner = "idle" /\ asked = FALSE

-----------------------------------------------------------------------------
(* The game *)

Write(s) ==  \* blocks while the pipe is full
  /\ writers # {}
  /\ written[s] < MaxLines /\ written[s] - pumped[s] < PipeSize
  /\ written' = [written EXCEPT ![s] = @ + 1]
  /\ UNCHANGED <<child, last, pumped, open, channel, view, owner, asked>>

CloseOutput ==
  /\ game = "alive" /\ writers' = {} /\ writers # {}
  /\ UNCHANGED <<game, signal, reaped, pipes, view, owner, asked>>

End(how) ==
  /\ game = "alive"
  /\ game' = how /\ last' = written
  /\ \/ writers' = writers \ {"child"}
     \/ Forks /\ "child" \in writers /\ \E h \in Heirs : writers' = {h}
  /\ UNCHANGED <<signal, reaped, written, pumped, open, channel, view, owner, asked>>

Exit == \E how \in Ends : End(how)  \* by itself or by a signal, whoever sent it
Die  == signal = "kill" /\ End("killed")

HeirExits ==
  /\ writers \subseteq Heirs /\ writers # {} /\ writers' = {}
  /\ UNCHANGED <<game, signal, reaped, pipes, view, owner, asked>>

-----------------------------------------------------------------------------
(* pump, one task per pipe *)

Pump(s) ==
  /\ s \in open /\ pumped[s] < written[s] /\ owner # "dropped"
  /\ pumped' = [pumped EXCEPT ![s] = @ + 1]
  /\ channel' = Append(channel, [stream |-> s, n |-> pumped[s] + 1])
  /\ UNCHANGED <<child, written, last, open, view, owner, asked>>

PumpEnds(s) ==  \* end of file, or a line that nobody receives any more
  /\ s \in open
  /\ \/ writers = {} /\ pumped[s] = written[s]
     \/ owner = "dropped" /\ pumped[s] < written[s]
  /\ open' = open \ {s}
  /\ UNCHANGED <<child, written, last, pumped, channel, view, owner, asked>>

-----------------------------------------------------------------------------
(* LogBuffer::push and record *)

PushFirst(b, l) ==  \* mutant: the new line is pushed before the test
  IF Len(b.kept) > Capacity
    THEN [kept |-> Append(Tail(b.kept), l), dropped |-> b.dropped + 1]
    ELSE [b EXCEPT !.kept = Append(@, l)]

PushUncounted(b, l) ==  \* mutant: an evicted line is not counted
  IF Len(b.kept) = Capacity
    THEN [b EXCEPT !.kept = Append(Tail(@), l)]
    ELSE [b EXCEPT !.kept = Append(@, l)]

BufferPush(b, l) ==
  IF Len(b.kept) = Capacity
    THEN [kept |-> Append(Tail(b.kept), l), dropped |-> b.dropped + 1]
    ELSE [b EXCEPT !.kept = Append(@, l)]

RecordTwice ==  \* mutant: the line stays in the channel when wait_with is dropped
  /\ channel # <<>>
  /\ \E rest \in {channel, Tail(channel)} : channel' = rest
  /\ heard' = Append(heard, Head(channel))
  /\ log' = BufferPush(log, Head(channel))
  /\ UNCHANGED <<child, written, last, pumped, open, asked>>

Record ==
  /\ channel # <<>>
  /\ channel' = Tail(channel)
  /\ heard' = Append(heard, Head(channel))
  /\ log' = BufferPush(log, Head(channel))
  /\ UNCHANGED <<child, written, last, pumped, open, asked>>

PipesClosed == channel = <<>> /\ open = {}

(* take_log, and the diagnosis of what it retained: nothing it is made     *)
(* from changes when the exit has been reported.                           *)
Texts(lines) == [i \in DOMAIN lines |-> Says[lines[i]]]
Verdict == Diagnose(game, Texts(log.kept), asked)

Finish ==
  /\ owner' = "done"
  /\ UNCHANGED <<pipes, view, asked>>

-----------------------------------------------------------------------------
(* The owner: next_line, wait_with *)

NextLine == owner = "idle" /\ Record /\ UNCHANGED owner

Watch ==
  /\ owner = "idle" /\ owner' = "watch"
  /\ UNCHANGED <<child, pipes, view, asked>>

WatchLine == owner \in {"watch", "drain"} /\ Record /\ UNCHANGED owner

WatchDropped ==
  /\ owner \in {"watch", "drain", "reap"} /\ owner' = "idle"
  /\ UNCHANGED <<child, pipes, view, asked>>

WatchClosed ==  \* recv answered None: only the status is awaited
  /\ owner = "watch" /\ PipesClosed
  /\ owner' = "reap"
  /\ UNCHANGED <<child, pipes, view, asked>>

Reap ==
  /\ owner = "reap" /\ game # "alive"
  /\ reaped' = TRUE /\ Finish
  /\ UNCHANGED <<game, writers, signal>>

WatchExitAtOnce ==  \* mutant: no draining after the exit
  /\ owner = "watch" /\ channel = <<>> /\ open # {} /\ game # "alive"
  /\ reaped' = TRUE /\ Finish
  /\ UNCHANGED <<game, writers, signal>>

WatchExit ==  \* biased: only when no line is waiting
  /\ owner = "watch" /\ channel = <<>> /\ open # {} /\ game # "alive"
  /\ owner' = "drain" /\ reaped' = TRUE
  /\ UNCHANGED <<game, writers, signal, pipes, view, asked>>

Chatter == "chatterer" \in writers

DrainUntilClosed ==  \* mutant: recv without the timeout
  /\ owner = "drain" /\ PipesClosed
  /\ Finish /\ UNCHANGED child

DrainEnds ==  \* the pipes closed, or no line came for DRAIN_AFTER_EXIT
  /\ owner = "drain" /\ channel = <<>> /\ ~Chatter
  /\ Timely => \A s \in open : pumped[s] = written[s]
  /\ Finish /\ UNCHANGED child

-----------------------------------------------------------------------------
(* The owner: stop, kill, drop *)

StopUnmarked ==  \* mutant: stop_requested is not set
  /\ owner = "idle" /\ owner' = "stop"
  /\ signal' = IF signal = "none" THEN "term" ELSE signal
  /\ UNCHANGED <<game, writers, reaped, pipes, view, asked>>

Stop ==
  /\ owner = "idle" /\ owner' = "stop" /\ asked' = TRUE
  /\ signal' = IF signal = "none" THEN "term" ELSE signal
  /\ UNCHANGED <<game, writers, reaped, pipes, view>>

StopWorks ==
  /\ owner = "stop" /\ game # "alive"
  /\ owner' = "idle" /\ reaped' = TRUE
  /\ UNCHANGED <<game, writers, signal, pipes, view, asked>>

GraceOverGivesUp ==  \* mutant: no escalation
  /\ owner = "stop"
  /\ owner' = "idle"
  /\ UNCHANGED <<child, pipes, view, asked>>

GraceOver ==  \* the timer may also beat the exit
  /\ owner = "stop"
  /\ owner' = "kill" /\ signal' = "kill"
  /\ UNCHANGED <<game, writers, reaped, pipes, view, asked>>

Kill ==
  /\ owner = "idle" /\ owner' = "kill" /\ asked' = TRUE
  /\ signal' = "kill"
  /\ UNCHANGED <<game, writers, reaped, pipes, view>>

KillWorks ==
  /\ owner = "kill" /\ game # "alive"
  /\ owner' = "idle" /\ reaped' = TRUE
  /\ UNCHANGED <<game, writers, signal, pipes, view, asked>>

DropFrom(states) ==  \* kill_on_drop; the receiver goes too
  /\ owner \in states /\ owner' = "dropped"
  /\ signal' = IF reaped THEN signal ELSE "kill"
  /\ channel' = <<>>
  /\ UNCHANGED <<game, writers, reaped, written, last, pumped, open, view, asked>>

Drop == DropFrom({"idle", "done"})

-----------------------------------------------------------------------------
Game  == (\E s \in Stream : Write(s)) \/ CloseOutput \/ Exit \/ Die \/ HeirExits
Pumps == \E s \in Stream : Pump(s) \/ PumpEnds(s)
Wait  == WatchLine \/ WatchClosed \/ Reap \/ WatchExit \/ DrainEnds
Owner == NextLine \/ Watch \/ WatchDropped \/ Wait \/ Stop \/ StopWorks \/ GraceOver
         \/ Kill \/ KillWorks \/ Drop

Next == Game \/ Pumps \/ Owner
Spec == Init /\ [][Next]_vars

(* The runtime polls the pumps and what the owner awaits, timers fire, and *)
(* SIGKILL is not refused.  Nothing makes the game exit by itself, handle  *)
(* SIGTERM or write, nor the owner call anything.                          *)
Fairness ==
  /\ \A s \in Stream : WF_vars(Pump(s)) /\ WF_vars(PumpEnds(s))
  /\ WF_vars(Wait) /\ WF_vars(StopWorks \/ GraceOver) /\ WF_vars(KillWorks)
  /\ WF_vars(Die)
FairSpec == Spec /\ Fairness

-----------------------------------------------------------------------------
Of(s, lines) == Subsequence(lines, {i \in DOMAIN lines : lines[i].stream = s})

HeardInOrder ==
  \A s \in Stream : \A i \in DOMAIN Of(s, heard) : Of(s, heard)[i].n = i
LogIsTail ==
  /\ log.dropped + Len(log.kept) = Len(heard)
  /\ \A i \in DOMAIN log.kept : log.kept[i] = heard[log.dropped + i]

(* The caller hears each stream from its first line on, in order, with no  *)
(* line lost, doubled or swapped, however often it drops wait_with or      *)
(* mixes it with next_line, stop and kill; and the log buffer is the end   *)
(* of what was heard, with an exact count of the lines it dropped.         *)
LogIsFaithful == TypeOK /\ HeardInOrder /\ LogIsTail

(* When the exit is reported, every line the game wrote before it ended    *)
(* has been heard, if what is in a pipe is pumped within the draining      *)
(* time; a process the game left may go on writing.                        *)
NothingLostAtExit ==
  owner = "done" /\ Timely => \A s \in Stream : Len(Of(s, heard)) >= last[s]

(* A game that was signalled by the owner is never reported as crashed,    *)
(* whatever became of it between the request and the report.               *)
StoppedIsNoCrash ==
  owner = "done" /\ signal # "none" =>
    Verdict.category \in {"CleanExit", "UserTerminated"}

(* Stopping ends the game, also one that ignores SIGTERM or is stuck in a  *)
(* write; so does dropping the GameProcess.                                *)
StopEndsGame == owner \in {"stop", "kill", "dropped"} ~> game # "alive"

(* A game that ended is reported to the owner that keeps waiting for it,   *)
(* also while a process it left holds the pipes open, and at the latest    *)
(* when a process it left that writes without a pause is gone: while that  *)
(* one writes, every line starts the timeout of the draining again.        *)
ExitIsReported ==
  owner \in {"watch", "drain", "reap"} /\ game # "alive" ~>
    owner \notin {"watch", "drain", "reap"} \/ Chatter
=============================================================================
