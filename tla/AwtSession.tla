------------------------------ MODULE AwtSession ------------------------------
(***************************************************************************)
(* One AWT session (launch/fakefx.rs over launch/awt.rs): touches and keys *)
(* become AWT records in a bounded outbox, frames of the game JVM become   *)
(* pixels, and the Compose surface (AwtSurfaceViewModel.kt) copies what is *)
(* dirty into its framebuffer.  AwtHost.tla connects it to the JVM.        *)
(*                                                                         *)
(* A desktop is a row of `size' tiles.  Whether a point lies inside the    *)
(* desktop, and whether a release is near its press, are choices.  Every   *)
(* submit is followed by a present, so the two buffers of the canvas agree *)
(* whenever the lock of the session is free and are not told apart.        *)
(***************************************************************************)
EXTENDS Integers, Sequences, SequencesExt, Subsequences

CONSTANTS
  Buttons,       \* mouse buttons
  Modifiers,     \* keys that getModifiersEx() reports
  Keys,          \* keys it does not report
  ReleaseOrder,  \* the buttons and modifiers in the order release_all visits
  MaxPending,    \* records the outbox holds
  Sizes          \* bound: sizes of the desktop, in tiles

Tracked == Buttons \cup Modifiers

ASSUME SessionAssumption ==
  /\ Buttons \cap Modifiers = {} /\ Tracked \cap Keys = {}
  /\ ReleaseOrder \in Seq(Tracked) /\ ToSet(ReleaseOrder) = Tracked
  /\ Len(ReleaseOrder) = Cardinality(Tracked)
  /\ MaxPending \in Nat \ {0}
  /\ Sizes \subseteq Nat \ {0} /\ Sizes # {}

VARIABLES
  held,    \* buttons and modifiers the translator believes to be down
  origin,  \* the button of press_origin, or "none"
  outbox,  \* records that wait for the event pump
  lost,    \* history: what the outbox shed or forgot
  size,    \* tiles of the canvas
  dirty,   \* tiles published but not consumed
  buffer   \* the framebuffer of the surface

input  == <<held, origin, outbox, lost>>
pixels == <<size, dirty, buffer>>

Motion == {"moved", "dragged", "wheel"}
\* Clicks, characters and focus changes leave nothing down: "other".
Record ==
  [id : {"pressed", "released"}, of : Tracked \cup Keys, mods : SUBSET Tracked, to : {0}]
  \cup [id : Motion \cup {"other"}, of : {"none"}, mods : SUBSET Tracked, to : {0}]
  \cup [id : {"resized"}, of : {"none"}, mods : {{}}, to : Sizes]

SessionTypeOK ==
  /\ held \subseteq Tracked /\ origin \in Buttons \cup {"none"}
  /\ outbox \in Seq(Record) /\ Len(outbox) <= MaxPending
  /\ lost \in [adrift : SUBSET Tracked, shed : BOOLEAN, reset : BOOLEAN, burst : 0 .. MaxPending]
  /\ size \in Sizes /\ dirty \subseteq 1 .. size
  /\ buffer.size \in Sizes /\ buffer.stale \subseteq 1 .. buffer.size
  /\ buffer.skewed \in BOOLEAN

SessionInit(s) ==
  /\ held = {} /\ origin = "none" /\ outbox = <<>>
  /\ lost = [adrift |-> {}, shed |-> FALSE, reset |-> FALSE, burst |-> 0]
  /\ size = s /\ dirty = 1 .. s
  /\ buffer = [size |-> s, stale |-> 1 .. s, skewed |-> FALSE]

-----------------------------------------------------------------------------
(* The outbox: enqueue and shed_one.  `lost.adrift' holds the inputs whose *)
(* newest press or release was shed, `lost.burst' counts the records other *)
(* than motion queued since the outbox was last drained.                   *)

Rec(h, id, of) == [id |-> id, of |-> of, mods |-> h, to |-> 0]

About(r, x) == r.id \in {"pressed", "released"} /\ r.of = x

ShedOldest(q) == 1  \* mutant: no preference for motion

ShedIndex(q) ==
  LET motion == {i \in DOMAIN q : q[i].id \in Motion}
  IN  IF motion # {} THEN Min(motion) ELSE 1

OfferAll(s, r) == [s EXCEPT !.box = Append(@, r)]  \* mutant: no limit

Offer(s, r) ==
  LET full == Len(s.box) >= MaxPending
      gone == s.box[ShedIndex(s.box)]
      rest == IF full THEN RemoveAt(s.box, ShedIndex(s.box)) ELSE s.box
      away == {x \in Tracked : full /\ About(gone, x) /\ ~ \E i \in DOMAIN rest : About(rest[i], x)}
  IN  [box    |-> Append(rest, r),
       adrift |-> (s.adrift \cup away) \ {x \in Tracked : About(r, x)},
       shed   |-> s.shed \/ (full /\ gone.id \notin Motion),
       burst  |-> IF r.id \in Motion THEN s.burst ELSE Min({s.burst + 1, MaxPending})]

Offered(s, records) ==  \* one after the other
  LET after[n \in 0 .. Len(records)] ==
        IF n = 0 THEN s ELSE Offer(after[n - 1], records[n])
  IN  after[Len(records)]

Enqueue(records) ==
  LET s == Offered([box |-> outbox, adrift |-> lost.adrift,
                    shed |-> lost.shed, burst |-> lost.burst], records)
  IN  /\ outbox' = s.box
      /\ lost' = [lost EXCEPT !.adrift = s.adrift, !.shed = s.shed, !.burst = s.burst]

-----------------------------------------------------------------------------
(* AwtInputTranslator *)

Dragging == held \cap Buttons # {}

PointerDown(b) ==  \* outside the desktop only while dragging, else no event
  /\ held' = held \cup {b} /\ origin' = b
  /\ Enqueue(<<Rec(held', "pressed", b)>>)
  /\ UNCHANGED pixels

ReleaseFirst(b, near) ==  \* mutant: the record is made before the button is cleared
  /\ held' = held \ {b} /\ origin' = "none"
  /\ Enqueue(<<Rec(held, "released", b)>>
             \o IF near /\ origin = b THEN <<Rec(held', "other", "none")>> ELSE <<>>)
  /\ UNCHANGED pixels

PointerUp(b, near) ==
  /\ held' = held \ {b} /\ origin' = "none"
  /\ Enqueue(<<Rec(held', "released", b)>>
             \o IF near /\ origin = b THEN <<Rec(held', "other", "none")>> ELSE <<>>)
  /\ UNCHANGED pixels

PointerMove ==
  /\ Enqueue(<<Rec(held, IF Dragging THEN "dragged" ELSE "moved", "none")>>)
  /\ UNCHANGED <<held, origin, pixels>>

Scroll == Enqueue(<<Rec(held, "wheel", "none")>>) /\ UNCHANGED <<held, origin, pixels>>

KeyDown(k) ==
  /\ held' = held \cup ({k} \cap Modifiers)
  /\ Enqueue(<<Rec(held', "pressed", k)>>)
  /\ UNCHANGED <<origin, pixels>>

KeyUp(k) ==
  /\ held' = held \ {k}
  /\ Enqueue(<<Rec(held', "released", k)>>)
  /\ UNCHANGED <<origin, pixels>>

TypeText == Enqueue(<<Rec(held, "other", "none")>>) /\ UNCHANGED <<held, origin, pixels>>

ForgetAll(tail) ==  \* mutant: the state is cleared and no release is sent
  /\ held' = {} /\ origin' = "none"
  /\ Enqueue(tail)

ReleaseThen(tail) ==  \* the records of release_all, then those of its caller
  LET down == Subsequence(ReleaseOrder, {i \in DOMAIN ReleaseOrder : ReleaseOrder[i] \in held})
      ups  == [i \in DOMAIN down |-> Rec(held \ {down[j] : j \in 1 .. i}, "released", down[i])]
  IN  /\ held' = {} /\ origin' = "none"
      /\ Enqueue(ups \o tail)

ReleaseAll == ReleaseThen(<<>>) /\ UNCHANGED pixels

FocusLost   == ReleaseThen(<<Rec({}, "other", "none")>>) /\ UNCHANGED pixels
FocusGained == Enqueue(<<Rec(held, "other", "none")>>) /\ UNCHANGED <<held, origin, pixels>>

ResetInput ==  \* the JVM is not told
  /\ held' = {} /\ origin' = "none" /\ outbox' = <<>>
  /\ lost' = [lost EXCEPT !.adrift = Tracked, !.reset = TRUE, !.burst = 0]
  /\ UNCHANGED pixels

-----------------------------------------------------------------------------
(* The canvas and the framebuffer.  `buffer.stale' are the tiles that      *)
(* differ from the canvas; `buffer.skewed' says that they were written     *)
(* with the stride of another desktop since the canvas was last all dirty. *)

AllDirty(s, b) == dirty' = 1 .. s /\ buffer' = [b EXCEPT !.stale = 1 .. b.size, !.skewed = FALSE]

Hull(T) == Min(T) .. Max(T)

ResizeInput(s) == ReleaseThen(<<[Rec({}, "resized", "none") EXCEPT !.to = s]>>)

FitBuffer(b, s) ==  \* applyInfo: a new framebuffer when the length differs
  IF b.size = s THEN b ELSE [b EXCEPT !.size = s, !.stale = 1 .. s]

SubmitFrame(f) ==  \* a frame of another size is adopted with that size
  IF f.size = size
    THEN /\ dirty' = Hull(dirty \cup f.damage)
         /\ buffer' = [buffer EXCEPT !.stale = @ \cup (f.damage \cap 1 .. buffer.size)]
         /\ UNCHANGED <<size, input>>
    ELSE size' = f.size /\ AllDirty(f.size, buffer) /\ ResizeInput(f.size)

Configure(s) ==  \* resize_screen by the user, then applyInfo
  /\ s # size /\ size' = s
  /\ AllDirty(s, FitBuffer(buffer, s))
  /\ ResizeInput(s)

Repaint == \* fill or clear, then applyInfo
  /\ AllDirty(size, FitBuffer(buffer, size))
  /\ UNCHANGED <<size, input>>

Refresh ==  \* info, a rotation or another configure: applyInfo alone
  /\ buffer.size # size /\ buffer' = FitBuffer(buffer, size)
  /\ UNCHANGED <<size, dirty, input>>

TakeFirst ==  \* mutant: the damage is taken before the copy may fail
  /\ dirty # {} /\ dirty' = {}
  /\ buffer' = IF buffer.size = size THEN [buffer EXCEPT !.stale = @ \ dirty] ELSE buffer
  /\ UNCHANGED <<size, input>>

Poll ==  \* an error, which changes nothing, while the buffer is too small
  /\ dirty # {} /\ buffer.size >= size
  /\ dirty' = {}
  /\ buffer' = IF buffer.size = size THEN [buffer EXCEPT !.stale = @ \ dirty]
               ELSE [buffer EXCEPT !.stale = 1 .. buffer.size, !.skewed = TRUE]
  /\ UNCHANGED <<size, input>>
===============================================================================
