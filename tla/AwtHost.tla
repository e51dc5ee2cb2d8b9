------------------------------- MODULE AwtHost --------------------------------
(***************************************************************************)
(* The link of an AWT session to the game JVM (launch/awt_host.rs): two    *)
(* pump threads over a pair of FIFOs, a stop flag, and the close of the    *)
(* FFI layer, which holds the session slot while it joins the pumps: no    *)
(* input and no poll runs meanwhile.                                       *)
(*                                                                         *)
(* The JVM is external: what awt_bridge writes and reads.  It may never    *)
(* start, stop reading, paint at a size of its own, send frames that do    *)
(* not decode, cut the stream, or exit.                                    *)
(***************************************************************************)
EXTENDS AwtSession

CONSTANTS
  PipeSize,  \* records, or frames, that a FIFO holds
  Scenarios  \* bound: first size of the desktop and of the JVM, and how many
             \* inputs, frames and resizes a behaviour has

ASSUME HostAssumption ==
  /\ PipeSize \in Nat \ {0}
  /\ Scenarios \subseteq [desktop : Sizes, view : Sizes, inputs : Nat, frames : Nat, resizes : Nat]

VARIABLES
  framePump,  \* the thread that reads frames
  eventPump,  \* the thread that writes records
  batch,      \* records it drained and has not written
  stop,       \* the stop flag
  closing,    \* the progress of stop_and_join
  jvm,        \* the game JVM
  pressed,    \* inputs that are down for the JVM
  view,       \* the size it paints at
  events,     \* the FIFO of records
  frames,     \* the FIFO of frames
  left        \* the rest of the scenario

host == <<framePump, eventPump, batch, stop, closing>>
game == <<jvm, pressed, view, events, frames>>
vars == <<input, pixels, host, game, left>>

Frame == UNION {[kind : {"good", "invalid", "desync"}, size : {s},
                 damage : (SUBSET (1 .. s)) \ {{}}] : s \in Sizes}

TypeOK ==
  /\ SessionTypeOK
  /\ framePump \in {"none", "opening", "running", "done"}
  /\ eventPump \in {"none", "opening", "running", "writing", "done"}
  /\ batch \in Seq(Record) /\ (batch # <<>> => eventPump = "writing")
  /\ stop \in BOOLEAN
  /\ closing \in {"no", "join", "closed"}
  /\ jvm \in {"absent", "up", "gone"}
  /\ pressed \subseteq Tracked \cup Keys /\ view \in Sizes
  /\ events \in Seq(Record) /\ Len(events) <= PipeSize
  /\ frames \in Seq(Frame) /\ Len(frames) <= PipeSize
  /\ left \in [desktop : Sizes, view : Sizes, inputs : Nat, frames : Nat, resizes : Nat]

Init ==
  /\ left \in Scenarios
  /\ SessionInit(left.desktop)
  /\ framePump = "none" /\ eventPump = "none" /\ batch = <<>>
  /\ stop = FALSE /\ closing = "no"
  /\ jvm = "absent" /\ pressed = {} /\ view = left.view
  /\ events = <<>> /\ frames = <<>>

Spend(what) == left[what] > 0 /\ left' = [left EXCEPT ![what] = @ - 1]

-----------------------------------------------------------------------------
(* The surface, through the FFI: only while nobody closes the session *)

Input ==
  /\ closing = "no" /\ Spend("inputs")
  /\ \/ \E b \in Buttons : PointerDown(b)
     \/ \E b \in Buttons, near \in BOOLEAN : PointerUp(b, near)
     \/ \E k \in Modifiers \cup Keys : KeyDown(k) \/ KeyUp(k)
     \/ PointerMove \/ Scroll \/ TypeText
     \/ ReleaseAll \/ FocusLost \/ FocusGained \/ ResetInput
  /\ UNCHANGED <<host, game>>

Reshape ==
  /\ closing = "no" /\ Spend("resizes")
  /\ Repaint \/ \E s \in Sizes : Configure(s)
  /\ UNCHANGED <<host, game>>

Draw == closing = "no" /\ (Poll \/ Refresh) /\ UNCHANGED <<host, game, left>>

Attach ==  \* attach_transport: a second one is refused
  /\ closing = "no" /\ framePump = "none"
  /\ framePump' = "opening" /\ eventPump' = "opening"
  /\ UNCHANGED <<batch, stop, closing, input, pixels, game, left>>

Close ==  \* stop_and_join raises the flag ...
  /\ closing = "no" /\ closing' = "join" /\ stop' = TRUE
  /\ UNCHANGED <<framePump, eventPump, batch, input, pixels, game, left>>

Closed ==  \* ... and waits for the two threads
  /\ closing = "join" /\ closing' = "closed"
  /\ {framePump, eventPump} \subseteq {"none", "done"}
  /\ UNCHANGED <<framePump, eventPump, batch, stop, input, pixels, game, left>>

-----------------------------------------------------------------------------
(* pump_frames *)

OpenFrames ==  \* with O_NONBLOCK the reading end opens at once
  /\ framePump = "opening" /\ framePump' = "running"
  /\ UNCHANGED <<eventPump, batch, stop, closing, input, pixels, game, left>>

PumpFrame ==  \* a read that began before the stop still delivers its frame
  /\ framePump = "running" /\ frames # <<>> /\ frames' = Tail(frames)
  /\ CASE Head(frames).kind = "good"    -> SubmitFrame(Head(frames)) /\ UNCHANGED framePump
       [] Head(frames).kind = "invalid" -> UNCHANGED <<input, pixels, framePump>>
       [] Head(frames).kind = "desync"  -> framePump' = "done" /\ UNCHANGED <<input, pixels>>
  /\ UNCHANGED <<eventPump, batch, stop, closing, jvm, pressed, view, events, left>>

FrameEnds ==  \* the stop, at the top of the loop or in the reader, or the end of file
  /\ framePump = "running" /\ (stop \/ (frames = <<>> /\ jvm = "gone"))
  /\ framePump' = "done"
  /\ UNCHANGED <<eventPump, batch, stop, closing, input, pixels, game, left>>

-----------------------------------------------------------------------------
(* pump_events *)

OpenEvents ==  \* ENXIO until the JVM has opened its end
  /\ eventPump = "opening" /\ jvm = "up" /\ eventPump' = "running"
  /\ UNCHANGED <<framePump, batch, stop, closing, input, pixels, game, left>>

EventDeaf ==  \* mutant: the flag is not tested while the FIFO cannot be opened
  /\ eventPump = "running" /\ stop /\ eventPump' = "done"
  /\ UNCHANGED <<framePump, batch, stop, closing, input, pixels, game, left>>

EventStops ==  \* not while it writes
  /\ eventPump \in {"opening", "running"} /\ stop /\ eventPump' = "done"
  /\ UNCHANGED <<framePump, batch, stop, closing, input, pixels, game, left>>

Drain ==
  /\ eventPump = "running" /\ ~ stop /\ outbox # <<>>
  /\ eventPump' = "writing" /\ batch' = outbox /\ outbox' = <<>>
  /\ lost' = [lost EXCEPT !.burst = 0]
  /\ UNCHANGED <<held, origin, pixels, framePump, stop, closing, game, left>>

WriteOnce ==  \* mutant: write in the place of write_all
  /\ eventPump = "writing" /\ jvm # "gone" /\ Len(events) < PipeSize
  /\ events' = Append(events, Head(batch)) /\ batch' = <<>> /\ eventPump' = "running"
  /\ UNCHANGED <<framePump, stop, closing, input, pixels, jvm, pressed, view, frames, left>>

WriteRecord ==  \* blocks while the FIFO is full, also after a stop
  /\ eventPump = "writing" /\ jvm # "gone" /\ Len(events) < PipeSize
  /\ events' = Append(events, Head(batch)) /\ batch' = Tail(batch)
  /\ eventPump' = IF Tail(batch) = <<>> THEN "running" ELSE "writing"
  /\ UNCHANGED <<framePump, stop, closing, input, pixels, jvm, pressed, view, frames, left>>

WriteFails ==  \* the records are counted as lost
  /\ eventPump = "writing" /\ jvm = "gone" /\ eventPump' = "done" /\ batch' = <<>>
  /\ UNCHANGED <<framePump, stop, closing, input, pixels, game, left>>

OpenFails ==  \* of either channel, for a reason of the system's
  /\ \/ framePump = "opening" /\ framePump' = "done" /\ UNCHANGED eventPump
     \/ eventPump = "opening" /\ eventPump' = "done" /\ UNCHANGED framePump
  /\ UNCHANGED <<batch, stop, closing, input, pixels, game, left>>

-----------------------------------------------------------------------------
(* The game JVM *)

JvmStarts ==
  /\ jvm = "absent" /\ framePump # "none" /\ jvm' = "up"
  /\ UNCHANGED <<pressed, view, events, frames, host, input, pixels, left>>

JvmReads ==
  /\ jvm = "up" /\ events # <<>> /\ events' = Tail(events)
  /\ LET r == Head(events)
     IN  /\ pressed' = CASE r.id = "pressed"  -> pressed \cup {r.of}
                         [] r.id = "released" -> pressed \ {r.of}
                         [] OTHER             -> pressed
         /\ view' = IF r.id = "resized" THEN r.to ELSE view
  /\ UNCHANGED <<jvm, frames, host, input, pixels, left>>

JvmPaints ==  \* an interval of tiles; a frame that does not decode; a bad header
  /\ jvm = "up" /\ Len(frames) < PipeSize /\ Spend("frames")
  /\ \E kind \in {"good", "invalid", "desync"}, a, b \in 1 .. view :
       /\ a <= b /\ (kind # "good" => a = b)
       /\ frames' = Append(frames, [kind |-> kind, size |-> view, damage |-> a .. b])
  /\ UNCHANGED <<jvm, pressed, view, events, host, input, pixels>>

JvmResizes ==  \* cacio restarted at another resolution
  /\ jvm = "up" /\ Spend("resizes") /\ view' \in Sizes \ {view}
  /\ UNCHANGED <<jvm, pressed, events, frames, host, input, pixels>>

JvmExits ==  \* perhaps in the middle of its last frame
  /\ jvm = "up" /\ jvm' = "gone" /\ events' = <<>>
  /\ \/ UNCHANGED frames
     \/ frames # <<>> /\ frames' = [frames EXCEPT ![Len(frames)].kind = "desync"]
  /\ UNCHANGED <<pressed, view, host, input, pixels, left>>

-----------------------------------------------------------------------------
FramePump == OpenFrames \/ PumpFrame \/ FrameEnds
EventPump == OpenEvents \/ EventStops \/ Drain \/ WriteRecord \/ WriteFails
Surface   == Input \/ Reshape \/ Draw \/ Attach \/ Close \/ Closed
Game      == JvmStarts \/ JvmReads \/ JvmPaints \/ JvmResizes \/ JvmExits

Next == FramePump \/ EventPump \/ OpenFails \/ Surface \/ Game
Spec == Init /\ [][Next]_vars

\* The threads run and the call that closes goes on.  Nothing is asked of the
\* JVM: it may stop reading whenever it likes.
FairSpec == Spec /\ WF_vars(FramePump) /\ WF_vars(EventPump) /\ WF_vars(Closed)

-----------------------------------------------------------------------------
(* What the JVM will have pressed once it has read the first n records *)

Stream == events \o batch \o outbox

After(s, n) ==
  LET about(x) == {i \in 1 .. n : About(s[i], x)}
  IN  {x \in Tracked : IF about(x) = {} THEN x \in pressed ELSE s[Max(about(x))].id = "pressed"}

\* While the JVM runs, the records on their way bring it to the buttons and
\* modifiers that the translator believes held, through focus loss, resizes
\* and a full outbox; an input whose newest record was shed is excepted.
InputConverges ==
  jvm # "gone" => After(Stream, Len(Stream)) \ lost.adrift = held \ lost.adrift

\* If nothing but motion was shed, the modifiers of every record on its way
\* are those in force when the JVM gets to it, and a motion is a drag
\* exactly if a button is down by then.
ModifiersAreTrue ==
  jvm # "gone" /\ ~ lost.shed /\ ~ lost.reset =>
    LET s == Stream
    IN  \A i \in DOMAIN s :
          /\ s[i].mods = After(s, i)
          /\ s[i].id \in {"moved", "dragged"} => (s[i].id = "dragged" <=> s[i].mods \cap Buttons # {})

\* However much the user moves, a press, a release, a click or a resize is
\* shed only when MaxPending of their kind wait since the last drain.
MotionCostsNoPress == [][lost'.shed => lost.shed \/ lost'.burst = MaxPending]_vars

\* A tile of the framebuffer that differs from the canvas is dirty, and will
\* be copied: no order of frames, polls and resizes drops it, except a poll
\* into the framebuffer of another desktop.
StaleIsDirty == buffer.size = size /\ ~ buffer.skewed => buffer.stale \subseteq dirty

\* A close ends, wherever its stop finds the pumps: frames on their way, a
\* channel nobody has opened, records half written.  One case is left, in
\* which it never does: the pump is in write_all for good, on a FIFO that is
\* full because a living JVM has stopped reading.
StalledWrite == eventPump = "writing" /\ Len(events) = PipeSize /\ jvm = "up"
StopReturns == <>[]StalledWrite \/ (closing = "join" ~> closing = "closed")

\* Once nothing is held any more, nothing stays down in a JVM that has read
\* what reached it, unless the link ends or the outbox lost a release.
NothingStaysPressed ==
  <>[](held = {}) =>
    <>[](\/ pressed \cap Tracked \subseteq lost.adrift \/ events # <<>>
         \/ jvm = "gone" \/ closing # "no")

(* Of the session at any moment: what is on its way brings the JVM to the  *)
(* buttons and modifiers held, each record carries those of its time, and  *)
(* what the buffer lacks of the desktop is known to be dirty.              *)
AwtInv == TypeOK /\ InputConverges /\ ModifiersAreTrue /\ StaleIsDirty
===============================================================================
