------------------------------- MODULE EventBus -------------------------------
(***************************************************************************)
(* The process-wide event bus (event.rs): threads publish events, each of  *)
(* which gets the next sequence number and is delivered, on the publishing *)
(* thread and with no lock held, to the sink that was subscribed when the  *)
(* number was given.  Subscribers are the Kotlin RcEventBus, through the   *)
(* JNI wrapper (ffi.rs), and callbacks of the C ABI (capi.rs).  A sink may *)
(* re-enter the bus; one that panics is as good as one that returns.       *)
(***************************************************************************)
EXTENDS Integers, Sequences

CONSTANTS
  Thread,     \* threads that publish
  Sink,       \* possible subscribers
  Reentrant,  \* those that publish from their callback
  NoSink, NoThread,
  Event       \* what is published

ASSUME BusAssumption ==
  /\ Reentrant \subseteq Sink
  /\ NoSink \notin Sink /\ NoThread \notin Thread

VARIABLES
  sink,     \* the current subscriber
  seq,      \* the next sequence number
  lock,     \* the thread in the section that the seq mutex protects
  stack,    \* the publish calls of each thread, the innermost first
  got,      \* what each sink was given, in the order of the calls
  since     \* history: the next number when the current sink subscribed

bus == <<sink, seq, lock, stack, got, since>>

Frame    == [at : {"called", "numbered", "captured", "inside"},
             event : Event, seq : Nat, to : Sink \cup {NoSink}]
Delivery == [seq : Nat, event : Event]

Top(t)     == Head(stack[t])
At(t, pc)  == stack[t] # <<>> /\ Top(t).at = pc
Push(t, f) == stack' = [stack EXCEPT ![t] = <<f>> \o @]
Pop(t)     == stack' = [stack EXCEPT ![t] = Tail(@)]
SetTop(t, f) == stack' = [stack EXCEPT ![t] = <<f>> \o Tail(@)]

BusTypeOK ==
  /\ sink \in Sink \cup {NoSink}
  /\ seq \in Nat /\ since \in Nat
  /\ lock \in Thread \cup {NoThread}
  /\ stack \in [Thread -> Seq(Frame)]
  /\ got \in [Sink -> Seq(Delivery)]

BusInit ==
  /\ sink \in Sink \cup {NoSink}
  /\ seq = 0 /\ since = 0 /\ lock = NoThread
  /\ stack = [t \in Thread |-> <<>>]
  /\ got = [s \in Sink |-> <<>>]

-----------------------------------------------------------------------------
(* Subscribing.  The sink mutex is never held across another step.         *)

Subscribe(s) ==
  /\ sink' = s /\ since' = seq
  /\ UNCHANGED <<seq, lock, stack, got>>

Unsubscribe ==
  /\ sink' = NoSink
  /\ UNCHANGED <<seq, lock, stack, got, since>>

-----------------------------------------------------------------------------
(* publish: number under the seq mutex, clone the sink, release, emit *)

Call(t, e) ==
  /\ Push(t, [at |-> "called", event |-> e, seq |-> 0, to |-> NoSink])
  /\ UNCHANGED <<sink, seq, lock, got, since>>

Publish(t, e) == stack[t] = <<>> /\ Call(t, e)

NumberUnlocked(t) ==  \* mutant: the number is read before the lock is taken
  /\ At(t, "called")
  /\ lock' = t
  /\ SetTop(t, [Top(t) EXCEPT !.at = "numbered", !.seq = seq])
  /\ UNCHANGED <<sink, seq, got, since>>

Number(t) ==
  /\ At(t, "called") /\ lock = NoThread
  /\ lock' = t
  /\ SetTop(t, [Top(t) EXCEPT !.at = "numbered", !.seq = seq])
  /\ UNCHANGED <<sink, seq, got, since>>

(* The clone of the subscriber; with nobody there the call is over. *)
Keep(t, to) ==
  IF to = NoSink THEN Pop(t)
                 ELSE SetTop(t, [Top(t) EXCEPT !.at = "captured", !.to = to])

CaptureHoldsLock(t) ==  \* mutant: the lock is kept while the sink runs
  /\ At(t, "numbered")
  /\ seq' = Top(t).seq + 1
  /\ Keep(t, sink)
  /\ UNCHANGED <<sink, lock, got, since>>

CaptureTries(t) ==  \* mutant: try_lock on the sink, and no sink if it is busy
  /\ At(t, "numbered")
  /\ seq' = Top(t).seq + 1 /\ lock' = NoThread
  /\ \E to \in {sink, NoSink} : Keep(t, to)
  /\ UNCHANGED <<sink, got, since>>

Capture(t) ==
  /\ At(t, "numbered")
  /\ seq' = Top(t).seq + 1 /\ lock' = NoThread
  /\ Keep(t, sink)
  /\ UNCHANGED <<sink, got, since>>

Emit(t) ==  \* the callback of a sink that does not re-enter the bus is one step
  /\ At(t, "captured")
  /\ got' = [got EXCEPT ![Top(t).to] =
               Append(@, [seq |-> Top(t).seq, event |-> Top(t).event])]
  /\ IF Top(t).to \in Reentrant THEN SetTop(t, [Top(t) EXCEPT !.at = "inside"])
                                ELSE Pop(t)
  /\ UNCHANGED <<sink, seq, lock, since>>

Reenter(t, e) ==  \* the sink publishes from its callback
  /\ At(t, "inside")
  /\ Call(t, e)

Return(t) ==  \* the callback returned, or panicked and was caught
  /\ At(t, "inside")
  /\ Pop(t)
  /\ UNCHANGED <<sink, seq, lock, got, since>>

Proceed(t) == Number(t) \/ Capture(t) \/ Emit(t) \/ Return(t)

BusNext ==
  \/ \E s \in Sink : Subscribe(s)
  \/ Unsubscribe
  \/ \E t \in Thread : Proceed(t) \/ \E e \in Event : Publish(t, e) \/ Reenter(t, e)

BusSpec     == BusInit /\ [][BusNext]_bus

-----------------------------------------------------------------------------
Numbers(s)  == {got[s][i].seq : i \in DOMAIN got[s]}
InFlight(s) == {Top(t).seq : t \in {u \in Thread : At(u, "captured") /\ Top(u).to = s}}

(* No two deliveries, to the same subscriber or to two, carry the same     *)
(* number: publish reads and bumps the counter under one lock, and a sink  *)
(* that replaces another takes over no event the other was given.          *)
DeliveredOnce ==
  \A s, r \in Sink : \A i \in DOMAIN got[s], k \in DOMAIN got[r] :
    got[s][i].seq = got[r][k].seq => s = r /\ i = k

(* The current subscriber has been given, or is about to be given by the   *)
(* thread that published it, every event numbered since it subscribed,     *)
(* whatever publishers, subscribe and unsubscribe calls are interleaved.   *)
SubscriberMissesNothing ==
  sink # NoSink =>
    \A n \in since .. seq - 1 : n \in Numbers(sink) \cup InFlight(sink)
=============================================================================
