------------------------------ MODULE TaskProofs -------------------------------
(***************************************************************************)
(* Proofs about what runs in the background.                               *)
(*                                                                         *)
(* The event bus and the background jobs that publish through it, for      *)
(* every number of threads, jobs, subscribers and steps, and however often *)
(* subscribers come and go: numbering and delivery for the bus with        *)
(* whatever publishers it has, then that jobs are such publishers and what *)
(* a subscriber hears of each of them.                                     *)
(*                                                                         *)
(* The batch download: BatchInv for every number of tasks, destinations    *)
(* and their sharing, limits, retries, pieces and faults.                  *)
(***************************************************************************)
EXTENDS Jobs, BatchDownload, SequenceTheorems, FiniteSetTheorems, TLAPS

-----------------------------------------------------------------------------
(* The bus: what holds of the stacks, the numbers and the deliveries.      *)

(* Only the innermost publish call of a thread is at work: the others wait *)
(* inside the callbacks it was made from.                                  *)
InsideBelow ==
  \A t \in Thread : \A i \in 2 .. Len(stack[t]) : stack[t][i].at = "inside"

(* A thread in the numbering section owns the lock and has the number that *)
(* is next; nobody else owns it.                                           *)
LockHeld ==
  \A t \in Thread : /\ At(t, "numbered") <=> lock = t
                    /\ At(t, "numbered") => Top(t).seq = seq

(* A captured event has a number that was given, and somebody to go to.    *)
Captured == {t \in Thread : At(t, "captured")}
InHand ==
  /\ \A t \in Captured : Top(t).to \in Sink /\ Top(t).seq < seq
  /\ \A t, u \in Captured : Top(t).seq = Top(u).seq => t = u

(* What was delivered has a number that was given and is in no hand.       *)
Given ==
  \A s \in Sink : \A i \in DOMAIN got[s] :
    /\ got[s][i].seq < seq
    /\ \A t \in Captured : Top(t).seq # got[s][i].seq

BusInv == /\ BusTypeOK /\ InsideBelow /\ LockHeld /\ InHand /\ Given
          /\ DeliveredOnce /\ SubscriberMissesNothing

-----------------------------------------------------------------------------
(* The jobs: which event a job is publishing and what was heard of it.     *)

(* A job's own publish call is the outermost; an echo may sit on it.       *)
Base(j) == stack[j][Len(stack[j])]
Pending(j) == stack[j] # <<>> /\ Base(j).at # "inside"

Depth ==
  \A j \in Job : Len(stack[j]) <= 2 /\ (Len(stack[j]) = 2 => Top(j).event = Echo)

(* The events a job may be publishing where it is.                         *)
Own(j) ==
  CASE pc[j] = "announce" -> {Ev(j, "started", 0)}
    [] pc[j] = "next"     -> {Ev(j, "progress", step[j])}
    [] pc[j] = "ending"   -> {Ev(j, w, step[j]) : w \in Outcomes}
    [] OTHER              -> {}

OwnCall == \A j \in Job : stack[j] # <<>> => Base(j).event \in Own(j)

InLoop == \A j \in Job : pc[j] \in {"work", "next"} => step[j] <= Steps[j]

(* The stage up to which a job can have been heard, before and after the   *)
(* delivery of what it is publishing, and the last step it can have        *)
(* reported.                                                               *)
Before(j) == IF pc[j] = "announce" THEN -1 ELSE step[j] - 1
After(j) ==
  CASE pc[j] \in {"new", "spawn"}   -> -1
    [] pc[j] = "announce"           -> 0
    [] pc[j] \in {"poll", "work"}   -> step[j] - 1
    [] pc[j] = "next"               -> step[j]
    [] pc[j] \in {"ending", "over"} -> Steps[j] + 1
Heard(j)  == IF Pending(j) THEN Before(j) ELSE After(j)
Passed(j) == IF pc[j] \in {"work", "next", "ending", "over"} THEN step[j] ELSE step[j] - 1

HeardOf(e) ==
  e.job # NoJob => /\ e.job \in Job /\ Stage(e) \in Int
                   /\ Stage(e) <= Heard(e.job)
                   /\ e.what = "progress" => e.step <= Passed(e.job)
HeardSoFar == \A s \in Sink : \A i \in DOMAIN got[s] : HeardOf(got[s][i].event)

(* The request found the job before the step it may still report.          *)
AskedInTime ==
  \A j \in Job : flag[j] /\ pc[j] \in {"work", "next"} => step[j] <= askedAt[j]

Registered ==
  \A s \in Scope : registry[s] # NoJob => ScopeOf[registry[s]] = s

(* As long as nobody moved, the subscriber gets every event, the outcomes  *)
(* among them.                                                             *)
OutcomeAt(j) ==
  \E i \in DOMAIN got[sink] :
    got[sink][i].event.job = j /\ got[sink][i].event.what \in Outcomes
Attentive ==
  moves = 0 =>
    /\ sink # NoSink
    /\ \A t \in Captured : Top(t).to = sink
    /\ \A j \in Job : pc[j] = "over" \/ (pc[j] = "ending" /\ ~Pending(j)) => OutcomeAt(j)

JobsSound ==
  /\ JobsTypeOK /\ Depth /\ OwnCall /\ InLoop /\ HeardSoFar /\ StreamInOrder
  /\ AskedInTime /\ CancelIsPrompt /\ Registered /\ NoStaleFlag /\ Attentive
-----------------------------------------------------------------------------
(* Sequences whose first element comes, changes or goes.                   *)
LEMMA Pushed ==
  ASSUME NEW S, NEW s \in Seq(S), NEW f \in S
  PROVE  /\ <<f>> \o s \in Seq(S) /\ <<f>> \o s # <<>>
         /\ Len(<<f>> \o s) = Len(s) + 1
         /\ Head(<<f>> \o s) = f /\ (<<f>> \o s)[1] = f
         /\ \A i \in 1 .. Len(s) : (<<f>> \o s)[i + 1] = s[i]
  <1> DEFINE r == <<f>> \o s
  <1>1. <<f>> \in Seq(S) /\ Len(<<f>>) = 1 /\ <<f>>[1] = f
    OBVIOUS
  <1>2. /\ r \in Seq(S) /\ Len(r) = 1 + Len(s) /\ Len(s) \in Nat
        /\ \A i \in 1 .. 1 + Len(s) : r[i] = IF i <= 1 THEN <<f>>[i] ELSE s[i - 1]
    BY <1>1, ConcatProperties, LenProperties
  <1>3. r[1] = f
    BY <1>1, <1>2
  <1>4. ASSUME NEW i \in 1 .. Len(s) PROVE r[i + 1] = s[i]
    BY <1>2
  <1>5. r # <<>> /\ Head(r) = r[1]
    BY <1>2
  <1> QED BY <1>2, <1>3, <1>4, <1>5

LEMMA Popped ==
  ASSUME NEW S, NEW s \in Seq(S), s # <<>>
  PROVE  /\ Tail(s) \in Seq(S) /\ Len(Tail(s)) = Len(s) - 1 /\ Len(s) \in Nat \ {0}
         /\ Head(s) = s[1] /\ s[1] \in S
         /\ \A i \in 1 .. Len(s) - 1 : Tail(s)[i] = s[i + 1]
         /\ Tail(s) # <<>> => Len(s) >= 2 /\ Head(Tail(s)) = s[2]
  <1>1. Len(s) \in Nat \ {0} /\ Head(s) = s[1] /\ s[1] \in S
    OBVIOUS
  <1>2. /\ Tail(s) \in Seq(S) /\ Len(Tail(s)) = Len(s) - 1
        /\ \A i \in 1 .. Len(Tail(s)) : Tail(s)[i] = s[i + 1]
    BY HeadTailProperties
  <1>3. Tail(s) # <<>> => Len(Tail(s)) # 0 /\ Head(Tail(s)) = Tail(s)[1]
    BY <1>2
  <1> QED BY <1>1, <1>2, <1>3

LEMMA Replaced ==
  ASSUME NEW S, NEW s \in Seq(S), s # <<>>, NEW f \in S
  PROVE  /\ <<f>> \o Tail(s) \in Seq(S) /\ <<f>> \o Tail(s) # <<>>
         /\ Len(<<f>> \o Tail(s)) = Len(s)
         /\ Head(<<f>> \o Tail(s)) = f /\ (<<f>> \o Tail(s))[1] = f
         /\ \A i \in 2 .. Len(s) : (<<f>> \o Tail(s))[i] = s[i]
  <1>1. /\ Tail(s) \in Seq(S) /\ Len(Tail(s)) = Len(s) - 1 /\ Len(s) \in Nat \ {0}
        /\ \A i \in 1 .. Len(s) - 1 : Tail(s)[i] = s[i + 1]
    BY Popped
  <1>2. \A i \in 1 .. Len(s) - 1 : (<<f>> \o Tail(s))[i + 1] = s[i + 1]
    BY <1>1, Pushed
  <1>3. ASSUME NEW i \in 2 .. Len(s) PROVE (<<f>> \o Tail(s))[i] = s[i]
    <2>1. i - 1 \in 1 .. Len(s) - 1 /\ (i - 1) + 1 = i
      BY <1>1
    <2> QED BY <1>2, <2>1
  <1> QED BY <1>1, <1>3, Pushed

-----------------------------------------------------------------------------
(* What the three changes of a stack do to the bus.                        *)
Others(t) == \A u \in Thread \ {t} : stack'[u] = stack[u]

LEMMA AfterPush ==
  ASSUME BusTypeOK, InsideBelow, NEW t \in Thread, NEW f \in Frame, Push(t, f),
         stack[t] = <<>> \/ At(t, "inside")
  PROVE  /\ stack' \in [Thread -> Seq(Frame)] /\ InsideBelow' /\ Others(t)
         /\ stack'[t] # <<>> /\ Head(stack'[t]) = f
         /\ Len(stack'[t]) = Len(stack[t]) + 1
         /\ \A i \in 1 .. Len(stack[t]) : stack'[t][i + 1] = stack[t][i]
         /\ stack'[t][1] = f
  <1>1. stack[t] \in Seq(Frame) /\ stack' = [stack EXCEPT ![t] = <<f>> \o @]
    BY DEF BusTypeOK, Push
  <1>2. stack'[t] = <<f>> \o stack[t] /\ Others(t)
    BY <1>1 DEF BusTypeOK, Others
  <1>3. stack'[t] \in Seq(Frame) /\ Len(stack'[t]) = Len(stack[t]) + 1
    BY <1>1, <1>2, Pushed
  <1>4. stack' \in [Thread -> Seq(Frame)]
    BY <1>1, <1>3 DEF BusTypeOK
  <1>5. ASSUME NEW i \in 2 .. Len(stack'[t]) PROVE stack'[t][i].at = "inside"
    <2>1. /\ i - 1 \in 1 .. Len(stack[t]) /\ (i - 1) + 1 = i
          /\ Len(stack[t]) \in Nat
      BY <1>1, <1>3, LenProperties
    <2>2. stack'[t][i] = stack[t][i - 1]
      BY <1>1, <1>2, <2>1, Pushed
    <2>3. stack[t][i - 1].at = "inside"
      <3>1. CASE i = 2
        <4>1. stack[t] # <<>>
          BY <2>1, <3>1
        <4> QED BY <1>1, <3>1, <4>1, Popped DEF At, Top
      <3>2. CASE i # 2
        <4>1. i - 1 \in 2 .. Len(stack[t])
          BY <2>1, <3>2
        <4> QED BY <4>1 DEF InsideBelow
      <3> QED BY <3>1, <3>2
    <2> QED BY <2>2, <2>3
  <1>6. InsideBelow'
    BY <1>2, <1>5 DEF InsideBelow, Others
  <1> QED BY <1>1, <1>2, <1>3, <1>4, <1>6, Pushed

LEMMA AfterSetTop ==
  ASSUME BusTypeOK, InsideBelow, NEW t \in Thread, NEW f \in Frame, SetTop(t, f),
         stack[t] # <<>>
  PROVE  /\ stack' \in [Thread -> Seq(Frame)] /\ InsideBelow' /\ Others(t)
         /\ stack'[t] # <<>> /\ Head(stack'[t]) = f
         /\ Len(stack'[t]) = Len(stack[t])
         /\ \A i \in 2 .. Len(stack[t]) : stack'[t][i] = stack[t][i]
         /\ stack'[t][1] = f
  <1>1. stack[t] \in Seq(Frame) /\ stack' = [stack EXCEPT ![t] = <<f>> \o Tail(@)]
    BY DEF BusTypeOK, SetTop
  <1>2. stack'[t] = <<f>> \o Tail(stack[t]) /\ Others(t)
    BY <1>1 DEF BusTypeOK, Others
  <1>3. /\ stack'[t] \in Seq(Frame) /\ Len(stack'[t]) = Len(stack[t])
        /\ \A i \in 2 .. Len(stack[t]) : stack'[t][i] = stack[t][i]
    BY <1>1, <1>2, Replaced
  <1>4. stack' \in [Thread -> Seq(Frame)]
    BY <1>1, <1>3 DEF BusTypeOK
  <1>5. InsideBelow'
    BY <1>2, <1>3 DEF InsideBelow, Others
  <1> QED BY <1>1, <1>2, <1>3, <1>4, <1>5, Replaced

(* The call below was waiting inside its callback.                         *)
LEMMA AfterPop ==
  ASSUME BusTypeOK, InsideBelow, NEW t \in Thread, Pop(t), stack[t] # <<>>
  PROVE  /\ stack' \in [Thread -> Seq(Frame)] /\ InsideBelow' /\ Others(t)
         /\ stack'[t] # <<>> => Head(stack'[t]).at = "inside"
         /\ Len(stack'[t]) = Len(stack[t]) - 1
         /\ \A i \in 1 .. Len(stack[t]) - 1 : stack'[t][i] = stack[t][i + 1]
  <1>1. stack[t] \in Seq(Frame) /\ stack' = [stack EXCEPT ![t] = Tail(@)]
    BY DEF BusTypeOK, Pop
  <1>2. stack'[t] = Tail(stack[t]) /\ Others(t)
    BY <1>1 DEF BusTypeOK, Others
  <1>3. /\ stack'[t] \in Seq(Frame) /\ Len(stack'[t]) = Len(stack[t]) - 1
        /\ Len(stack[t]) \in Nat \ {0}
        /\ \A i \in 1 .. Len(stack[t]) - 1 : stack'[t][i] = stack[t][i + 1]
        /\ stack'[t] # <<>> => Len(stack[t]) >= 2 /\ Head(stack'[t]) = stack[t][2]
    BY <1>1, <1>2, Popped
  <1>4. stack' \in [Thread -> Seq(Frame)]
    BY <1>1, <1>3 DEF BusTypeOK
  <1>5. stack'[t] # <<>> => Head(stack'[t]).at = "inside"
    BY <1>3 DEF InsideBelow
  <1>6. ASSUME NEW i \in 2 .. Len(stack'[t]) PROVE stack'[t][i].at = "inside"
    <2>1. i \in 1 .. Len(stack[t]) - 1 /\ i + 1 \in 2 .. Len(stack[t])
      BY <1>3
    <2> QED BY <1>3, <2>1 DEF InsideBelow
  <1>7. InsideBelow'
    BY <1>2, <1>6 DEF InsideBelow, Others
  <1> QED BY <1>2, <1>3, <1>4, <1>5, <1>7

-----------------------------------------------------------------------------
(* The steps of the bus.                                                   *)

LEMMA TopFrame ==
  ASSUME BusTypeOK, NEW t \in Thread, stack[t] # <<>>
  PROVE  Top(t) \in Frame
  BY Popped DEF BusTypeOK, Top

LEMMA Deliveries ==
  ASSUME BusTypeOK, NEW s \in Sink
  PROVE  /\ got[s] \in Seq(Delivery) /\ Len(got[s]) \in Nat /\ DOMAIN got[s] = 1 .. Len(got[s])
         /\ \A i \in DOMAIN got[s] : got[s][i] \in Delivery
  <1>1. got[s] \in Seq(Delivery)
    BY DEF BusTypeOK
  <1> QED BY <1>1, LenProperties, ElementOfSeq

LEMMA TopOfOthers ==
  ASSUME NEW t \in Thread, Others(t), NEW u \in Thread \ {t}
  PROVE  stack'[u] = stack[u] /\ Top(u)' = Top(u) /\ \A p : At(u, p)' = At(u, p)
  BY DEF Others, Top, At

(* Nothing comes into a hand, is given or numbered.                        *)
LEMMA Quiet ==
  ASSUME BusInv, Captured' = Captured, \A u \in Captured : Top(u)' = Top(u),
         seq' = seq, got' = got,
         UNCHANGED <<sink, since>> \/ since' = seq \/ sink' = NoSink
  PROVE  InHand' /\ Given' /\ DeliveredOnce' /\ SubscriberMissesNothing'
  <1>1. InHand'
    BY DEF BusInv, InHand
  <1>2. Given'
    BY DEF BusInv, Given
  <1>3. DeliveredOnce'
    BY DEF BusInv, DeliveredOnce
  <1>4. ASSUME NEW s \in Sink PROVE InFlight(s)' = InFlight(s) /\ Numbers(s)' = Numbers(s)
    <2>1. InFlight(s) = {Top(u).seq : u \in {v \in Captured : Top(v).to = s}}
      BY DEF InFlight, Captured
    <2>2. InFlight(s)' = {Top(u)'.seq : u \in {v \in Captured' : Top(v)'.to = s}}
      BY DEF InFlight, Captured
    <2>3. Numbers(s)' = Numbers(s)
      BY DEF Numbers
    <2> QED BY <2>1, <2>2, <2>3
  <1>5. SubscriberMissesNothing'
    <2>1. CASE UNCHANGED <<sink, since>>
      BY <1>4, <2>1 DEF BusInv, BusTypeOK, SubscriberMissesNothing
    <2>2. CASE since' = seq
      <3>1. since' .. seq' - 1 = {}
        BY <2>2 DEF BusInv, BusTypeOK
      <3> QED BY <3>1 DEF SubscriberMissesNothing
    <2>3. CASE sink' = NoSink
      BY <2>3 DEF SubscriberMissesNothing
    <2> QED BY <2>1, <2>2, <2>3
  <1> QED BY <1>1, <1>2, <1>3, <1>5

LEMMA CallKeeps ==
  ASSUME BusInv, NEW t \in Thread, NEW e \in Event, Call(t, e),
         stack[t] = <<>> \/ At(t, "inside")
  PROVE  BusInv'
  <1> DEFINE f == [at |-> "called", event |-> e, seq |-> 0, to |-> NoSink]
  <1>1. f \in Frame /\ f.at = "called"
    BY DEF Frame
  <1>2. Push(t, f) /\ UNCHANGED <<sink, seq, lock, got, since>>
    BY DEF Call
  <1> HIDE DEF f
  <1>3. /\ stack' \in [Thread -> Seq(Frame)] /\ InsideBelow' /\ Others(t)
        /\ stack'[t] # <<>> /\ Head(stack'[t]) = f
    BY <1>1, <1>2, AfterPush DEF BusInv
  <1>4. ~At(t, "captured") /\ ~At(t, "numbered")
    BY DEF At
  <1>5. ~At(t, "captured")' /\ ~At(t, "numbered")'
    BY <1>1, <1>3 DEF At, Top
  <1>6. Captured' = Captured /\ \A u \in Captured : Top(u)' = Top(u)
    BY <1>3, <1>4, <1>5, TopOfOthers DEF Captured
  <1>7. LockHeld'
    BY <1>2, <1>3, <1>4, <1>5, TopOfOthers DEF BusInv, LockHeld
  <1>8. BusTypeOK'
    BY <1>2, <1>3 DEF BusInv, BusTypeOK
  <1> QED BY <1>2, <1>3, <1>6, <1>7, <1>8, Quiet DEF BusInv

LEMMA NumberKeeps ==
  ASSUME BusInv, NEW t \in Thread, Number(t)
  PROVE  BusInv'
  <1> DEFINE f == [Top(t) EXCEPT !.at = "numbered", !.seq = seq]
  <1>1. stack[t] # <<>> /\ Top(t).at = "called" /\ Top(t) \in Frame
    BY TopFrame DEF BusInv, Number, At
  <1>2. f \in Frame /\ f.at = "numbered" /\ f.seq = seq
    BY <1>1 DEF Frame, BusInv, BusTypeOK
  <1>3. SetTop(t, f) /\ lock = NoThread /\ lock' = t /\ UNCHANGED <<sink, seq, got, since>>
    BY DEF Number
  <1> HIDE DEF f
  <1>4. /\ stack' \in [Thread -> Seq(Frame)] /\ InsideBelow' /\ Others(t)
        /\ stack'[t] # <<>> /\ Head(stack'[t]) = f
    BY <1>1, <1>2, <1>3, AfterSetTop DEF BusInv
  <1>5. ~At(t, "captured") /\ ~At(t, "captured")'
    BY <1>1, <1>2, <1>4 DEF At, Top
  <1>6. At(t, "numbered")' /\ Top(t)'.seq = seq
    BY <1>2, <1>4 DEF At, Top
  <1>7. Captured' = Captured /\ \A u \in Captured : Top(u)' = Top(u)
    BY <1>4, <1>5, TopOfOthers DEF Captured
  <1>8. \A u \in Thread \ {t} : ~At(u, "numbered")'
    BY <1>3, <1>4, TopOfOthers, BusAssumption DEF BusInv, LockHeld
  <1>9. LockHeld'
    BY <1>3, <1>6, <1>8 DEF LockHeld
  <1>10. BusTypeOK'
    BY <1>3, <1>4 DEF BusInv, BusTypeOK
  <1> QED BY <1>3, <1>4, <1>7, <1>9, <1>10, Quiet DEF BusInv

LEMMA ReturnKeeps ==
  ASSUME BusInv, NEW t \in Thread, Return(t)
  PROVE  BusInv'
  <1>1. stack[t] # <<>> /\ Top(t).at = "inside" /\ Pop(t) /\ UNCHANGED <<sink, seq, lock, got, since>>
    BY DEF Return, At
  <1>2. /\ stack' \in [Thread -> Seq(Frame)] /\ InsideBelow' /\ Others(t)
        /\ stack'[t] # <<>> => Head(stack'[t]).at = "inside"
    BY <1>1, AfterPop DEF BusInv
  <1>3. ~At(t, "captured") /\ ~At(t, "numbered") /\ ~At(t, "captured")' /\ ~At(t, "numbered")'
    BY <1>1, <1>2 DEF At, Top
  <1>4. Captured' = Captured /\ \A u \in Captured : Top(u)' = Top(u)
    BY <1>2, <1>3, TopOfOthers DEF Captured
  <1>5. LockHeld'
    BY <1>1, <1>2, <1>3, TopOfOthers DEF BusInv, LockHeld
  <1>6. BusTypeOK'
    BY <1>1, <1>2 DEF BusInv, BusTypeOK
  <1> QED BY <1>1, <1>2, <1>4, <1>5, <1>6, Quiet DEF BusInv

(* The number is given: it is in a hand unless nobody subscribed.          *)
LEMMA CaptureKeeps ==
  ASSUME BusInv, NEW t \in Thread, Capture(t)
  PROVE  BusInv'
  <1> DEFINE f == [Top(t) EXCEPT !.at = "captured", !.to = sink]
  <1>1. /\ stack[t] # <<>> /\ Top(t).at = "numbered" /\ Top(t) \in Frame
        /\ Top(t).seq = seq /\ lock = t
    BY TopFrame DEF BusInv, Capture, LockHeld, At
  <1>2. seq' = seq + 1 /\ lock' = NoThread /\ UNCHANGED <<sink, got, since>> /\ seq \in Nat
    BY <1>1 DEF Capture, BusInv, BusTypeOK
  <1>3. f \in Frame /\ f.at = "captured" /\ f.to = sink /\ f.seq = seq
    BY <1>1 DEF Frame, BusInv, BusTypeOK
  <1>4. IF sink = NoSink THEN Pop(t) ELSE SetTop(t, f)
    BY DEF Capture, Keep
  <1> HIDE DEF f
  <1>5. /\ stack' \in [Thread -> Seq(Frame)] /\ InsideBelow' /\ Others(t)
        /\ sink = NoSink /\ stack'[t] # <<>> => Head(stack'[t]).at = "inside"
        /\ sink # NoSink => stack'[t] # <<>> /\ Head(stack'[t]) = f
    BY <1>1, <1>3, <1>4, AfterPop, AfterSetTop DEF BusInv
  <1>6. /\ ~At(t, "captured") /\ ~At(t, "numbered")'
        /\ At(t, "captured")' => sink # NoSink /\ Top(t)' = f
        /\ sink # NoSink => At(t, "captured")' /\ Top(t)' = f
    BY <1>1, <1>3, <1>5 DEF At, Top
  <1>7. Captured \subseteq Thread \ {t} /\ Captured' = IF sink = NoSink THEN Captured ELSE Captured \cup {t}
    BY <1>5, <1>6, TopOfOthers DEF Captured
  <1>8. \A u \in Captured : Top(u)' = Top(u)
    BY <1>5, <1>7, TopOfOthers
  <1>9. BusTypeOK'
    BY <1>2, <1>5 DEF BusInv, BusTypeOK
  <1>10. LockHeld'
    BY <1>1, <1>2, <1>5, <1>6, TopOfOthers, BusAssumption DEF BusInv, LockHeld
  <1>11. \A u \in Captured : Top(u).seq \in Nat /\ Top(u).seq < seq
    BY TopFrame DEF BusInv, InHand, Captured, At, Frame
  <1>12. InHand'
    <2>1. \A u \in Captured' : Top(u)'.to \in Sink /\ Top(u)'.seq < seq'
      BY <1>2, <1>3, <1>6, <1>7, <1>8, <1>11 DEF BusInv, InHand, BusTypeOK
    <2>2. \A u, v \in Captured' : Top(u)'.seq = Top(v)'.seq => u = v
      BY <1>3, <1>6, <1>7, <1>8, <1>11 DEF BusInv, InHand
    <2> QED BY <2>1, <2>2 DEF InHand
  <1>13. \A s \in Sink : \A i \in DOMAIN got[s] : got[s][i].seq \in Nat /\ got[s][i].seq < seq
    BY Deliveries DEF BusInv, Given, Delivery
  <1>14. Given'
    BY <1>2, <1>3, <1>6, <1>7, <1>8, <1>13 DEF BusInv, Given
  <1>15. DeliveredOnce'
    BY <1>2 DEF BusInv, DeliveredOnce
  <1>16. SubscriberMissesNothing'
    <2> SUFFICES ASSUME sink # NoSink, NEW n \in since .. seq
                 PROVE  n \in Numbers(sink)' \cup InFlight(sink)'
      BY <1>2 DEF SubscriberMissesNothing
    <2>1. CASE n = seq
      <3>1. t \in Thread /\ At(t, "captured")' /\ Top(t)'.to = sink' /\ Top(t)'.seq = n
        BY <1>2, <1>3, <1>6, <2>1
      <3> QED BY <3>1 DEF InFlight
    <2>2. CASE n # seq
      <3>1. n \in since .. seq - 1
        BY <1>2, <2>2 DEF BusInv, BusTypeOK
      <3>2. CASE n \in Numbers(sink)
        BY <1>2, <3>2 DEF Numbers
      <3>3. CASE n \in InFlight(sink)
        <4>1. PICK u \in Thread : At(u, "captured") /\ Top(u).to = sink /\ Top(u).seq = n
          BY <3>3 DEF InFlight
        <4>2. At(u, "captured")' /\ Top(u)' = Top(u)
          BY <1>7, <1>8, <4>1 DEF Captured
        <4> QED BY <1>2, <4>1, <4>2 DEF InFlight
      <3> QED BY <3>1, <3>2, <3>3 DEF BusInv, SubscriberMissesNothing
    <2> QED BY <2>1, <2>2
  <1> QED BY <1>5, <1>9, <1>10, <1>12, <1>14, <1>15, <1>16 DEF BusInv

(* What Emit does to the deliveries.                                       *)
LEMMA Delivered ==
  ASSUME BusTypeOK, NEW r \in Sink, NEW d \in Delivery, got' = [got EXCEPT ![r] = Append(@, d)]
  PROVE  /\ got' \in [Sink -> Seq(Delivery)]
         /\ \A s \in Sink \ {r} : got'[s] = got[s]
         /\ DOMAIN got'[r] = 1 .. Len(got[r]) + 1 /\ DOMAIN got[r] = 1 .. Len(got[r])
         /\ Len(got[r]) \in Nat
         /\ got'[r][Len(got[r]) + 1] = d
         /\ \A i \in DOMAIN got[r] : got'[r][i] = got[r][i]
  <1>1. got[r] \in Seq(Delivery) /\ Len(got[r]) \in Nat /\ DOMAIN got[r] = 1 .. Len(got[r])
    BY Deliveries
  <1>2. got'[r] = Append(got[r], d) /\ \A s \in Sink \ {r} : got'[s] = got[s]
    BY DEF BusTypeOK
  <1>3. got'[r] \in Seq(Delivery) /\ Len(got'[r]) = Len(got[r]) + 1
    BY <1>1, <1>2, AppendProperties
  <1>4. got' \in [Sink -> Seq(Delivery)]
    BY <1>2, <1>3 DEF BusTypeOK
  <1>5. DOMAIN got'[r] = 1 .. Len(got[r]) + 1
    BY <1>3, LenProperties
  <1>6. /\ got'[r][Len(got[r]) + 1] = d
        /\ \A i \in DOMAIN got[r] : got'[r][i] = got[r][i]
    BY <1>1, <1>2, AppendProperties
  <1> QED BY <1>1, <1>2, <1>4, <1>5, <1>6

LEMMA NewOrOld ==
  ASSUME BusTypeOK, NEW r \in Sink, NEW d \in Delivery, got' = [got EXCEPT ![r] = Append(@, d)]
  PROVE  /\ \A s \in Sink : \A i \in DOMAIN got'[s] :
              \/ s = r /\ i = Len(got[r]) + 1 /\ got'[s][i] = d
              \/ /\ i \in DOMAIN got[s] /\ got'[s][i] = got[s][i]
                 /\ s = r => i < Len(got[r]) + 1
         /\ \A s \in Sink : \A i \in DOMAIN got[s] : i \in DOMAIN got'[s] /\ got'[s][i] = got[s][i]
         /\ Len(got[r]) + 1 \in DOMAIN got'[r] /\ got'[r][Len(got[r]) + 1] = d
  <1> DEFINE n == Len(got[r]) + 1
  <1>1. /\ \A s \in Sink \ {r} : got'[s] = got[s]
        /\ DOMAIN got'[r] = 1 .. Len(got[r]) + 1 /\ DOMAIN got[r] = 1 .. Len(got[r])
        /\ Len(got[r]) \in Nat
        /\ got'[r][Len(got[r]) + 1] = d
        /\ \A i \in DOMAIN got[r] : got'[r][i] = got[r][i]
    BY Delivered
  <1>2. /\ DOMAIN got'[r] = 1 .. n /\ DOMAIN got[r] = 1 .. n - 1 /\ n \in Nat \ {0}
        /\ got'[r][n] = d
    BY <1>1
  <1> HIDE DEF n
  <1>3. ASSUME NEW s \in Sink, NEW i \in DOMAIN got'[s]
        PROVE  \/ s = r /\ i = n /\ got'[s][i] = d
               \/ /\ i \in DOMAIN got[s] /\ got'[s][i] = got[s][i]
                  /\ s = r => i < n
    <2>1. CASE s = r
      <3>1. i = n \/ (i \in DOMAIN got[r] /\ i < n)
        BY <1>2, <2>1
      <3> QED BY <1>1, <1>2, <2>1, <3>1
    <2>2. CASE s # r
      BY <1>1, <2>2
    <2> QED BY <2>1, <2>2
  <1>4. ASSUME NEW s \in Sink, NEW i \in DOMAIN got[s]
        PROVE  i \in DOMAIN got'[s] /\ got'[s][i] = got[s][i]
    <2>1. CASE s = r
      <3>1. i \in 1 .. n
        BY <1>2, <2>1
      <3> QED BY <1>1, <1>2, <2>1, <3>1
    <2>2. CASE s # r
      BY <1>1, <2>2
    <2> QED BY <2>1, <2>2
  <1>5. n \in DOMAIN got'[r]
    BY <1>2
  <1> QED BY <1>2, <1>3, <1>4, <1>5 DEF n

(* The number goes from the hand to the sink it was captured for.          *)
LEMMA EmitKeeps ==
  ASSUME BusInv, NEW t \in Thread, Emit(t)
  PROVE  BusInv'
  <1> DEFINE f == [Top(t) EXCEPT !.at = "inside"]
             r == Top(t).to
             d == [seq |-> Top(t).seq, event |-> Top(t).event]
             n == Len(got[r]) + 1
  <1>1. stack[t] # <<>> /\ Top(t).at = "captured" /\ Top(t) \in Frame /\ t \in Captured
    BY TopFrame DEF BusInv, Emit, At, Captured
  <1>2. r \in Sink /\ d \in Delivery /\ d.seq = Top(t).seq /\ d.seq < seq /\ d.seq \in Nat
    BY <1>1 DEF BusInv, InHand, Frame, Delivery
  <1>3. f \in Frame /\ f.at = "inside"
    BY <1>1 DEF Frame
  <1>4. /\ got' = [got EXCEPT ![r] = Append(@, d)]
        /\ SetTop(t, f) \/ Pop(t)
        /\ UNCHANGED <<sink, seq, lock, since>>
    BY DEF Emit
  <1> HIDE DEF f
  <1>5. /\ stack' \in [Thread -> Seq(Frame)] /\ InsideBelow' /\ Others(t)
        /\ stack'[t] # <<>> => Head(stack'[t]).at = "inside"
    BY <1>1, <1>3, <1>4, AfterPop, AfterSetTop DEF BusInv
  <1>6. ~At(t, "numbered") /\ ~At(t, "captured")' /\ ~At(t, "numbered")'
    BY <1>1, <1>5 DEF At, Top
  <1>7. Captured' = Captured \ {t} /\ \A u \in Captured' : Top(u)' = Top(u)
    BY <1>5, <1>6, TopOfOthers DEF Captured
  <1>8. /\ got' \in [Sink -> Seq(Delivery)]
        /\ \A s \in Sink : \A i \in DOMAIN got'[s] :
             \/ s = r /\ i = n /\ got'[s][i] = d
             \/ i \in DOMAIN got[s] /\ got'[s][i] = got[s][i]
        /\ \A s \in Sink : \A i \in DOMAIN got[s] : i \in DOMAIN got'[s] /\ got'[s][i] = got[s][i]
        /\ n \in DOMAIN got'[r] /\ got'[r][n] = d
    <2> HIDE DEF r, d
    <2>1. BusTypeOK
      BY DEF BusInv
    <2>2. got' \in [Sink -> Seq(Delivery)]
      BY <1>2, <1>4, <2>1, Delivered
    <2>3. /\ \A s \in Sink : \A i \in DOMAIN got'[s] :
               \/ s = r /\ i = n /\ got'[s][i] = d
               \/ /\ i \in DOMAIN got[s] /\ got'[s][i] = got[s][i]
                  /\ s = r => i < n
          /\ \A s \in Sink : \A i \in DOMAIN got[s] : i \in DOMAIN got'[s] /\ got'[s][i] = got[s][i]
          /\ n \in DOMAIN got'[r] /\ got'[r][n] = d
      BY <1>2, <1>4, <2>1, NewOrOld
    <2> QED BY <2>2, <2>3
  <1> HIDE DEF r, n
  <1>9. ASSUME NEW s \in Sink, NEW i \in DOMAIN got'[s]
        PROVE  \/ s = r /\ i = n /\ got'[s][i] = d
               \/ i \in DOMAIN got[s] /\ got'[s][i] = got[s][i]
    BY <1>8
  <1>10. ASSUME NEW s \in Sink, NEW i \in DOMAIN got[s]
         PROVE  i \in DOMAIN got'[s] /\ got'[s][i] = got[s][i] /\ got[s][i].seq # d.seq
    BY <1>1, <1>2, <1>8 DEF BusInv, Given
  <1> HIDE DEF d
  <1>11. BusTypeOK'
    BY <1>4, <1>5, <1>8 DEF BusInv, BusTypeOK
  <1>12. LockHeld'
    BY <1>4, <1>5, <1>6, TopOfOthers DEF BusInv, LockHeld
  <1>13. InHand'
    BY <1>4, <1>7 DEF BusInv, InHand
  <1>14. Given'
    <2> SUFFICES ASSUME NEW s \in Sink, NEW i \in DOMAIN got'[s]
                 PROVE  got'[s][i].seq < seq' /\ \A u \in Captured' : Top(u)'.seq # got'[s][i].seq
      BY DEF Given
    <2>1. CASE got'[s][i] = d
      BY <1>1, <1>2, <1>4, <1>7, <2>1 DEF BusInv, InHand
    <2>2. CASE i \in DOMAIN got[s] /\ got'[s][i] = got[s][i]
      BY <1>4, <1>7, <2>2 DEF BusInv, Given
    <2> QED BY <1>9, <2>1, <2>2
  <1>15. DeliveredOnce'
    BY <1>9, <1>10 DEF BusInv, DeliveredOnce
  <1>16. SubscriberMissesNothing'
    <2> SUFFICES ASSUME sink # NoSink, NEW k \in since .. seq - 1
                 PROVE  k \in Numbers(sink)' \cup InFlight(sink)'
      BY <1>4 DEF SubscriberMissesNothing
    <2>1. sink \in Sink
      BY DEF BusInv, BusTypeOK
    <2>2. CASE k \in Numbers(sink)
      <3>1. PICK i \in DOMAIN got[sink] : got[sink][i].seq = k
        BY <2>2 DEF Numbers
      <3>2. i \in DOMAIN got'[sink] /\ got'[sink][i].seq = k
        BY <1>10, <2>1, <3>1
      <3> QED BY <1>4, <3>2 DEF Numbers
    <2>3. CASE k \in InFlight(sink)
      <3>1. PICK u \in Thread : At(u, "captured") /\ Top(u).to = sink /\ Top(u).seq = k
        BY <2>3 DEF InFlight
      <3>2. CASE u = t
        <4>1. sink = r /\ n \in DOMAIN got'[sink] /\ got'[sink][n].seq = k
          BY <1>2, <1>8, <3>1, <3>2 DEF r
        <4> QED BY <1>4, <4>1 DEF Numbers
      <3>3. CASE u # t
        <4>1. At(u, "captured")' /\ Top(u)' = Top(u)
          BY <1>7, <3>1, <3>3 DEF Captured
        <4> QED BY <1>4, <3>1, <4>1 DEF InFlight
      <3> QED BY <3>2, <3>3
    <2> QED BY <2>2, <2>3 DEF BusInv, SubscriberMissesNothing
  <1> QED BY <1>5, <1>11, <1>12, <1>13, <1>14, <1>15, <1>16 DEF BusInv

LEMMA SubscribingKeeps ==
  ASSUME BusInv, Unsubscribe \/ \E s \in Sink : Subscribe(s)
  PROVE  BusInv'
  <1>1. /\ UNCHANGED <<seq, lock, stack, got>>
        /\ \/ since' = since /\ sink' = NoSink
           \/ since' = seq /\ sink' \in Sink
    BY DEF Subscribe, Unsubscribe
  <1>2. BusTypeOK' /\ InsideBelow' /\ LockHeld'
    BY <1>1 DEF BusInv, BusTypeOK, InsideBelow, LockHeld, At, Top
  <1>3. Captured' = Captured /\ \A u \in Captured : Top(u)' = Top(u)
    BY <1>1 DEF Captured, At, Top
  <1> QED BY <1>1, <1>2, <1>3, Quiet DEF BusInv

LEMMA BusStart == BusInit => BusInv
  <1> SUFFICES ASSUME BusInit PROVE BusInv
    OBVIOUS
  <1>1. \A t \in Thread : stack[t] = <<>> /\ Len(stack[t]) = 0
    BY DEF BusInit
  <1>2. \A s \in Sink : got[s] = <<>> /\ DOMAIN got[s] = {}
    <2>1. DOMAIN <<>> = {}
      OBVIOUS
    <2> QED BY <2>1 DEF BusInit
  <1>3. BusTypeOK
    BY DEF BusInit, BusTypeOK
  <1>4. Captured = {} /\ LockHeld /\ InsideBelow
    BY <1>1, BusAssumption DEF BusInit, Captured, At, LockHeld, InsideBelow
  <1>5. Given /\ DeliveredOnce /\ InHand
    BY <1>2, <1>4 DEF Given, DeliveredOnce, InHand
  <1>6. SubscriberMissesNothing
    BY DEF BusInit, SubscriberMissesNothing
  <1> QED BY <1>3, <1>4, <1>5, <1>6 DEF BusInv

LEMMA BusKeeps ==
  ASSUME BusInv, [BusNext]_bus PROVE BusInv'
  <1>1. ASSUME NEW t \in Thread, Proceed(t) PROVE BusInv'
    BY <1>1, NumberKeeps, CaptureKeeps, EmitKeeps, ReturnKeeps DEF Proceed
  <1>2. ASSUME NEW t \in Thread, NEW e \in Event, Publish(t, e) \/ Reenter(t, e) PROVE BusInv'
    BY <1>2, CallKeeps DEF Publish, Reenter
  <1>3. CASE UNCHANGED bus
    <2>1. /\ BusTypeOK' /\ InsideBelow' /\ LockHeld'
          /\ Captured' = Captured /\ \A u \in Captured : Top(u)' = Top(u)
      BY <1>3 DEF bus, BusInv, BusTypeOK, InsideBelow, LockHeld, Captured, At, Top
    <2> QED BY <1>3, <2>1, Quiet DEF bus, BusInv
  <1> QED BY <1>1, <1>2, <1>3, SubscribingKeeps DEF BusNext

(* Whatever threads publish, subscribe, unsubscribe and re-enter the bus,  *)
(* however deep: no number is delivered twice (publish reads and bumps     *)
(* next_seq under its mutex), and the subscriber is given every number     *)
(* since it subscribed or somebody has it in hand for it.                  *)
THEOREM BusDelivers == BusSpec => [](DeliveredOnce /\ SubscriberMissesNothing)
  <1>1. BusInv => DeliveredOnce /\ SubscriberMissesNothing
    BY DEF BusInv
  <1> QED BY <1>1, BusStart, BusKeeps, PTL DEF BusSpec

-----------------------------------------------------------------------------
(* Jobs as threads of the bus.                                             *)

LEMMA JobFacts ==
  /\ Job = Thread /\ NoJob \notin Job /\ ScopeOf \in [Job -> Scope]
  /\ \A j \in Job : Steps[j] \in Nat \ {0} /\ ScopeOf[j] \in Scope
  /\ Echo \in Event /\ Echo.job = NoJob
  BY JobsAssumption

LEMMA OwnIsEvent ==
  ASSUME JobsTypeOK, NEW j \in Job
  PROVE  /\ Ev(j, "started", 0) \in Event /\ Ev(j, "progress", step[j]) \in Event
         /\ \A w \in Outcomes : Ev(j, w, step[j]) \in Event
  <1>1. 0 \in 0 .. Steps[j] + 1 /\ step[j] \in 0 .. Steps[j] + 1
    BY JobFacts DEF JobsTypeOK
  <1> QED BY <1>1, EventAssumption

LEMMA JobsStepBus == ASSUME JobsTypeOK, [JobsNext]_vars PROVE [BusNext]_bus
  <1> USE JobFacts
  <1>1. ASSUME NEW j \in Job, NEW e \in Event, Publish(j, e) PROVE BusNext
    BY <1>1 DEF BusNext
  <1>2. ASSUME NEW j \in Job, Run(j) PROVE [BusNext]_bus
    <2>1. CASE Announce(j)
      BY <1>1, <2>1, OwnIsEvent DEF Announce
    <2>2. CASE ObserveCancel(j)
      BY <1>1, <2>2, OwnIsEvent DEF ObserveCancel, Outcomes
    <2>3. CASE Fail(j)
      BY <1>1, <2>3, OwnIsEvent DEF Fail, Outcomes
    <2>4. CASE Report(j)
      BY <1>1, <2>4, OwnIsEvent DEF Report
    <2>5. CASE Complete(j)
      BY <1>1, <2>5, OwnIsEvent DEF Complete, Outcomes
    <2>6. CASE Spawn(j) \/ Work(j) \/ Next1(j) \/ DropGuard(j)
      BY <2>6 DEF Spawn, Work, Next1, DropGuard
    <2> QED BY <1>2, <2>1, <2>2, <2>3, <2>4, <2>5, <2>6 DEF Run
  <1>3. ASSUME NEW j \in Job, Register(j) \/ BusStep(j) \/ EchoFrom(j) PROVE [BusNext]_bus
    BY <1>3 DEF Register, BusStep, EchoFrom, BusNext
  <1>4. ASSUME NEW s \in Scope, Cancel(s) PROVE [BusNext]_bus
    BY <1>4 DEF Cancel
  <1>5. CASE Move(Unsubscribe) \/ \E s \in Sink : Move(Subscribe(s))
    BY <1>5 DEF Move, BusNext
  <1>6. CASE UNCHANGED vars
    BY <1>6 DEF vars
  <1> QED BY <1>2, <1>3, <1>4, <1>5, <1>6 DEF JobsNext

-----------------------------------------------------------------------------
(* What was heard of a job, against where it is.                           *)

LEMMA Bounds ==
  ASSUME JobsTypeOK, NEW j \in Job
  PROVE  /\ Before(j) \in Int /\ After(j) \in Int /\ Heard(j) \in Int /\ Passed(j) \in Int
         /\ step[j] \in Nat \ {0} /\ step[j] <= Steps[j] + 1 /\ askedAt[j] \in Nat
  <1>1. /\ step[j] \in 1 .. Steps[j] + 1 /\ Steps[j] \in Nat /\ askedAt[j] \in 0 .. Steps[j] + 1
        /\ pc[j] \in {"new", "spawn", "announce", "poll", "work", "next", "ending", "over"}
    BY JobFacts DEF JobsTypeOK
  <1>2. Before(j) \in Int /\ After(j) \in Int /\ Passed(j) \in Int
    BY <1>1 DEF Before, After, Passed
  <1> QED BY <1>1, <1>2 DEF Heard

(* An event that a job publishes is the next that may be heard of it.      *)
LEMMA OwnStage ==
  ASSUME JobsTypeOK, NEW j \in Job, NEW e \in Own(j)
  PROVE  /\ e.job = j /\ j # NoJob /\ e # Echo
         /\ Stage(e) = After(j) /\ Before(j) < After(j)
         /\ e.what = "progress" => pc[j] = "next" /\ e.step = step[j]
         /\ pc[j] = "ending" => e.what \in Outcomes
         /\ pc[j] \in {"announce", "next", "ending"}
  <1>1. step[j] \in 1 .. Steps[j] + 1 /\ Steps[j] \in Nat
    BY JobFacts DEF JobsTypeOK
  <1>2. CASE pc[j] = "announce"
    BY <1>1, <1>2, JobFacts DEF Own, Ev, Stage, After, Before
  <1>3. CASE pc[j] = "next"
    BY <1>1, <1>3, JobFacts DEF Own, Ev, Stage, After, Before
  <1>4. CASE pc[j] = "ending"
    <2>1. PICK w \in Outcomes : e = Ev(j, w, step[j])
      BY <1>4 DEF Own
    <2> QED BY <1>1, <1>4, <2>1, JobFacts DEF Ev, Outcomes, Stage, After, Before
  <1> QED BY <1>2, <1>3, <1>4 DEF Own

(* Nothing of a job depends on the stack of another.                       *)
LEMMA Elsewhere ==
  ASSUME NEW j \in Job, Others(j), NEW k \in Job \ {j}, pc'[k] = pc[k], step'[k] = step[k]
  PROVE  /\ stack'[k] = stack[k] /\ Top(k)' = Top(k)
         /\ Base(k)' = Base(k) /\ Pending(k)' = Pending(k)
         /\ Own(k)' = Own(k) /\ Heard(k)' = Heard(k) /\ Passed(k)' = Passed(k)
  <1>1. stack'[k] = stack[k]
    BY JobFacts DEF Others
  <1>2. Base(k)' = Base(k) /\ Pending(k)' = Pending(k) /\ Top(k)' = Top(k)
    BY <1>1 DEF Base, Pending, Top
  <1> QED BY <1>1, <1>2 DEF Own, Heard, Before, After, Passed

LEMMA HeardGrows ==
  ASSUME JobsTypeOK, JobsTypeOK', NEW e, HeardOf(e),
         \A k \in Job : Heard(k) <= Heard(k)' /\ Passed(k) <= Passed(k)'
  PROVE  HeardOf(e)'
  <1> SUFFICES ASSUME e.job # NoJob
               PROVE  /\ e.job \in Job /\ Stage(e) \in Int /\ Stage(e) <= Heard(e.job)'
                      /\ e.what = "progress" => e.step <= Passed(e.job)'
    BY DEF HeardOf
  <1>1. /\ e.job \in Job /\ Stage(e) \in Int /\ Stage(e) <= Heard(e.job)
        /\ e.what = "progress" => e.step <= Passed(e.job) /\ e.step = Stage(e)
    BY DEF HeardOf, Stage
  <1>2. /\ Heard(e.job) \in Int /\ Heard(e.job)' \in Int
        /\ Passed(e.job) \in Int /\ Passed(e.job)' \in Int
    <2> DEFINE k == e.job
    <2>1. k \in Job /\ Steps[k] \in Nat
      BY <1>1, JobFacts
    <2> HIDE DEF k
    <2>2. /\ step'[k] \in 1 .. Steps[k] + 1
          /\ pc'[k] \in {"new", "spawn", "announce", "poll", "work", "next", "ending", "over"}
      BY <2>1 DEF JobsTypeOK
    <2>3. Before(k)' \in Int /\ After(k)' \in Int /\ Passed(k)' \in Int
      BY <2>1, <2>2 DEF Before, After, Passed
    <2>4. Heard(k)' \in Int
      BY <2>3 DEF Heard
    <2> QED BY <2>1, <2>3, <2>4, Bounds DEF k
  <1> QED BY <1>1, <1>2

(* What was delivered is what it was, of jobs that only get further.       *)
LEMMA SameDeliveries ==
  ASSUME JobsSound, JobsTypeOK', got' = got,
         \A k \in Job : Heard(k) <= Heard(k)' /\ Passed(k) <= Passed(k)'
  PROVE  /\ HeardSoFar' /\ StreamInOrder'
         /\ UNCHANGED <<flag, askedAt>> => CancelIsPrompt'
  <1>1. HeardSoFar'
    BY HeardGrows DEF JobsSound, HeardSoFar
  <1>2. StreamInOrder'
    BY DEF JobsSound, StreamInOrder
  <1>3. UNCHANGED <<flag, askedAt>> => CancelIsPrompt'
    BY DEF JobsSound, CancelIsPrompt
  <1> QED BY <1>1, <1>2, <1>3

-----------------------------------------------------------------------------
(* A job that moves on between two publish calls.                          *)
LEMMA MovesOn ==
  ASSUME JobsSound, JobsTypeOK', NEW j \in Job, NEW q,
         UNCHANGED <<bus, flag, askedAt, moves>>, stack[j] = <<>>,
         pc' = [pc EXCEPT ![j] = q], \A k \in Job \ {j} : step'[k] = step[k],
         After(j) <= After(j)', Passed(j) <= Passed(j)',
         q = "over" => pc[j] = "ending", q # "ending"
  PROVE  /\ Depth' /\ OwnCall' /\ HeardSoFar' /\ StreamInOrder' /\ CancelIsPrompt'
         /\ Attentive'
  <1>1. UNCHANGED <<sink, seq, lock, stack, got, since>> /\ Others(j)
    BY DEF bus, Others
  <1>2. pc'[j] = q /\ \A k \in Job \ {j} : pc'[k] = pc[k]
    BY DEF JobsSound, JobsTypeOK
  <1>3. ~Pending(j) /\ ~Pending(j)' /\ Heard(j) = After(j) /\ Heard(j)' = After(j)'
    BY <1>1 DEF Pending, Heard
  <1>4. \A k \in Job \ {j} : /\ Base(k)' = Base(k) /\ Pending(k)' = Pending(k) /\ Own(k)' = Own(k)
                             /\ Heard(k)' = Heard(k) /\ Passed(k)' = Passed(k)
    BY <1>1, <1>2, Elsewhere
  <1>5. \A k \in Job : Heard(k) <= Heard(k)' /\ Passed(k) <= Passed(k)'
    BY <1>3, <1>4, Bounds DEF JobsSound
  <1>6. HeardSoFar' /\ StreamInOrder' /\ CancelIsPrompt'
    BY <1>1, <1>5, SameDeliveries
  <1>7. Depth'
    BY <1>1 DEF JobsSound, Depth, Top
  <1>8. OwnCall'
    BY <1>1, <1>4 DEF JobsSound, OwnCall
  <1>9. Attentive'
    <2>1. \A k \in Job : OutcomeAt(k)' = OutcomeAt(k)
      BY <1>1 DEF OutcomeAt
    <2>2. Captured' = Captured /\ \A t \in Captured : Top(t)' = Top(t)
      BY <1>1 DEF Captured, At, Top
    <2> QED BY <1>1, <1>2, <1>3, <1>4, <2>1, <2>2 DEF JobsSound, Attentive
  <1> QED BY <1>6, <1>7, <1>8, <1>9

(* A job that calls publish: what may be heard of it stays the same until  *)
(* the event is delivered.                                                 *)
LEMMA Publishes ==
  ASSUME BusInv, JobsSound, JobsTypeOK', NEW j \in Job, NEW e \in Event, NEW q,
         Publish(j, e), UNCHANGED <<step, flag, askedAt, moves>>,
         pc' = [pc EXCEPT ![j] = q], e \in Own(j)',
         After(j) <= Before(j)', Passed(j) <= Passed(j)', q # "over"
  PROVE  /\ Depth' /\ OwnCall' /\ HeardSoFar' /\ StreamInOrder' /\ CancelIsPrompt'
         /\ Attentive'
  <1> DEFINE f == [at |-> "called", event |-> e, seq |-> 0, to |-> NoSink]
  <1>1. f \in Frame /\ f.at = "called" /\ f.event = e
    BY DEF Frame
  <1>2. stack[j] = <<>> /\ Push(j, f) /\ UNCHANGED <<sink, seq, lock, got, since>>
    BY DEF Publish, Call
  <1> HIDE DEF f
  <1>3. Others(j) /\ stack'[j] # <<>> /\ Len(stack'[j]) = 1 /\ stack'[j][1] = f /\ Head(stack'[j]) = f
    <2>1. Len(stack[j]) = 0 /\ j \in Thread
      BY <1>2, JobFacts
    <2>2. /\ Others(j) /\ stack'[j] # <<>> /\ Head(stack'[j]) = f /\ stack'[j][1] = f
          /\ Len(stack'[j]) = Len(stack[j]) + 1
      BY <1>1, <1>2, <2>1, AfterPush DEF BusInv
    <2> QED BY <2>1, <2>2
  <1>4. pc'[j] = q /\ \A k \in Job \ {j} : pc'[k] = pc[k]
    BY DEF JobsSound, JobsTypeOK
  <1>5. Base(j)' = f /\ Pending(j)' /\ ~Pending(j)
    BY <1>1, <1>2, <1>3 DEF Base, Pending
  <1>6. Heard(j) = After(j) /\ Heard(j)' = Before(j)'
    BY <1>5 DEF Heard
  <1>7. \A k \in Job \ {j} : /\ Base(k)' = Base(k) /\ Pending(k)' = Pending(k) /\ Own(k)' = Own(k)
                             /\ Heard(k)' = Heard(k) /\ Passed(k)' = Passed(k)
                             /\ stack'[k] = stack[k] /\ Top(k)' = Top(k)
    BY <1>3, <1>4, Elsewhere
  <1>8. ASSUME NEW k \in Job PROVE Heard(k) <= Heard(k)' /\ Passed(k) <= Passed(k)'
    <2>1. CASE k = j
      BY <1>6, <2>1
    <2>2. CASE k # j
      BY <1>7, <2>2, Bounds DEF JobsSound
    <2> QED BY <2>1, <2>2
  <1>9. HeardSoFar' /\ StreamInOrder' /\ CancelIsPrompt'
    BY <1>2, <1>8, SameDeliveries
  <1>10. Depth'
    <2>1. Len(stack'[j]) <= 2 /\ Len(stack'[j]) # 2
      BY <1>3
    <2>2. \A k \in Job \ {j} : Len(stack'[k]) <= 2 /\ (Len(stack'[k]) = 2 => Top(k)'.event = Echo)
      BY <1>7 DEF JobsSound, Depth
    <2> QED BY <2>1, <2>2 DEF Depth
  <1>11. OwnCall'
    BY <1>1, <1>5, <1>7 DEF JobsSound, OwnCall
  <1>12. Attentive'
    <2>1. \A k \in Job : OutcomeAt(k)' = OutcomeAt(k)
      BY <1>2 DEF OutcomeAt
    <2>2. ~At(j, "captured") /\ ~At(j, "captured")'
      BY <1>1, <1>2, <1>3 DEF At, Top
    <2>3. Captured' = Captured /\ \A t \in Captured : Top(t)' = Top(t)
      BY <1>3, <2>2, TopOfOthers, JobFacts DEF Captured
    <2> QED BY <1>2, <1>4, <1>5, <1>7, <2>1, <2>3 DEF JobsSound, Attentive
  <1> QED BY <1>9, <1>10, <1>11, <1>12

(* The registry when only j changes place.                                 *)
LEMMA RegistryKept ==
  ASSUME JobsSound, NEW j \in Job, NEW q, registry' = registry,
         pc' = [pc EXCEPT ![j] = q], q \notin {"new", "over"}
  PROVE  Registered' /\ NoStaleFlag'
  BY DEF JobsSound, JobsTypeOK, Registered, NoStaleFlag, Alive

LEMMA RegisterKeeps ==
  ASSUME BusInv', JobsSound, NEW j \in Job, Register(j) PROVE JobsSound'
  <1>1. /\ pc[j] = "new" /\ registry' = [registry EXCEPT ![ScopeOf[j]] = j]
        /\ pc' = [pc EXCEPT ![j] = "spawn"]
        /\ UNCHANGED <<bus, step, flag, moves, askedAt>>
    BY DEF Register, Goto
  <1>2. JobsTypeOK'
    BY <1>1, JobFacts DEF JobsSound, JobsTypeOK, BusInv
  <1>3. pc'[j] = "spawn" /\ \A k \in Job \ {j} : pc'[k] = pc[k]
    BY <1>1 DEF JobsSound, JobsTypeOK
  <1>4. stack[j] = <<>>
    BY <1>1, OwnStage DEF JobsSound, OwnCall
  <1>5. After(j) <= After(j)' /\ Passed(j) <= Passed(j)'
    BY <1>1, <1>3, Bounds DEF JobsSound, After, Passed
  <1>6. /\ Depth' /\ OwnCall' /\ HeardSoFar' /\ StreamInOrder' /\ CancelIsPrompt'
        /\ Attentive'
    BY <1>1, <1>2, <1>4, <1>5, MovesOn
  <1>7. InLoop' /\ AskedInTime'
    BY <1>1, <1>3 DEF JobsSound, InLoop, AskedInTime
  <1>8. Registered' /\ NoStaleFlag'
    BY <1>1, <1>3, JobFacts DEF JobsSound, JobsTypeOK, Registered, NoStaleFlag, Alive
  <1> QED BY <1>2, <1>6, <1>7, <1>8 DEF JobsSound

LEMMA RunKeeps ==
  ASSUME BusInv, BusInv', JobsSound, NEW j \in Job, Run(j) PROVE JobsSound'
  <1>1. /\ Steps[j] \in Nat \ {0} /\ step[j] \in 1 .. Steps[j] + 1
        /\ \A k \in Job : step[k] \in 1 .. Steps[k] + 1 /\ askedAt[k] \in 0 .. Steps[k] + 1
        /\ pc \in [Job -> {"new", "spawn", "announce", "poll", "work", "next", "ending", "over"}]
    BY JobFacts DEF JobsSound, JobsTypeOK
  <1>2. pc[j] \notin {"announce", "next", "ending"} => stack[j] = <<>>
    BY OwnStage DEF JobsSound, OwnCall
  <1>3. CASE Announce(j)
    <2>1. /\ pc[j] = "spawn" /\ Publish(j, Ev(j, "started", 0)) /\ Ev(j, "started", 0) \in Event
          /\ pc' = [pc EXCEPT ![j] = "announce"] /\ pc'[j] = "announce"
          /\ UNCHANGED <<step, flag, registry, moves, askedAt>>
      BY <1>1, <1>3, OwnIsEvent DEF Announce, Goto, JobsSound
    <2>2. JobsTypeOK'
      BY <1>1, <2>1 DEF JobsSound, JobsTypeOK, BusInv
    <2>3. /\ Ev(j, "started", 0) \in Own(j)' /\ After(j) <= Before(j)' /\ Passed(j) <= Passed(j)'
      BY <1>1, <2>1 DEF Own, After, Before, Passed
    <2>4. InLoop' /\ AskedInTime'
      BY <2>1 DEF JobsSound, JobsTypeOK, InLoop, AskedInTime
    <2> QED BY <2>1, <2>2, <2>3, <2>4, Publishes, RegistryKept DEF JobsSound
  <1>4. CASE Spawn(j)
    <2>1. /\ pc[j] = "announce" /\ stack[j] = <<>>
          /\ pc' = [pc EXCEPT ![j] = "poll"] /\ pc'[j] = "poll"
          /\ UNCHANGED <<bus, step, flag, registry, moves, askedAt>>
      BY <1>1, <1>4 DEF Spawn, Goto, Idle
    <2>2. JobsTypeOK'
      BY <1>1, <2>1 DEF JobsSound, JobsTypeOK, BusInv
    <2>3. After(j) <= After(j)' /\ Passed(j) <= Passed(j)'
      BY <1>1, <2>1 DEF After, Passed
    <2>4. InLoop' /\ AskedInTime'
      BY <2>1 DEF JobsSound, JobsTypeOK, InLoop, AskedInTime
    <2> QED BY <2>1, <2>2, <2>3, <2>4, MovesOn, RegistryKept DEF JobsSound
  <1>5. CASE ObserveCancel(j) \/ Fail(j) \/ Complete(j)
    <2>1. PICK w \in Outcomes :
            /\ pc[j] = "poll" /\ Publish(j, Ev(j, w, step[j])) /\ Ev(j, w, step[j]) \in Event
            /\ pc' = [pc EXCEPT ![j] = "ending"] /\ pc'[j] = "ending"
            /\ UNCHANGED <<step, flag, registry, moves, askedAt>>
      BY <1>1, <1>5, OwnIsEvent DEF ObserveCancel, Fail, Complete, Goto, Outcomes, JobsSound
    <2>2. JobsTypeOK'
      BY <1>1, <2>1 DEF JobsSound, JobsTypeOK, BusInv
    <2>3. /\ Ev(j, w, step[j]) \in Own(j)' /\ After(j) <= Before(j)' /\ Passed(j) <= Passed(j)'
      BY <1>1, <2>1 DEF Own, After, Before, Passed
    <2>4. InLoop' /\ AskedInTime'
      BY <2>1 DEF JobsSound, JobsTypeOK, InLoop, AskedInTime
    <2> QED BY <2>1, <2>2, <2>3, <2>4, Publishes, RegistryKept DEF JobsSound
  <1>6. CASE Work(j)
    <2>1. /\ pc[j] = "poll" /\ step[j] <= Steps[j] /\ ~flag[j]
          /\ pc' = [pc EXCEPT ![j] = "work"] /\ pc'[j] = "work"
          /\ UNCHANGED <<bus, step, flag, registry, moves, askedAt>>
      BY <1>1, <1>6 DEF Work, Goto
    <2>2. JobsTypeOK'
      BY <1>1, <2>1 DEF JobsSound, JobsTypeOK, BusInv
    <2>3. After(j) <= After(j)' /\ Passed(j) <= Passed(j)'
      BY <1>1, <2>1 DEF After, Passed
    <2>4. InLoop' /\ AskedInTime'
      BY <2>1 DEF JobsSound, JobsTypeOK, InLoop, AskedInTime
    <2> QED BY <1>2, <2>1, <2>2, <2>3, <2>4, MovesOn, RegistryKept DEF JobsSound
  <1>7. CASE Report(j)
    <2>1. /\ pc[j] = "work" /\ Publish(j, Ev(j, "progress", step[j]))
          /\ Ev(j, "progress", step[j]) \in Event
          /\ pc' = [pc EXCEPT ![j] = "next"] /\ pc'[j] = "next"
          /\ UNCHANGED <<step, flag, registry, moves, askedAt>>
      BY <1>1, <1>7, OwnIsEvent DEF Report, Goto, JobsSound
    <2>2. JobsTypeOK'
      BY <1>1, <2>1 DEF JobsSound, JobsTypeOK, BusInv
    <2>3. Ev(j, "progress", step[j]) \in Own(j)' /\ After(j) <= Before(j)' /\ Passed(j) <= Passed(j)'
      BY <1>1, <2>1 DEF Own, After, Before, Passed
    <2>4. InLoop' /\ AskedInTime'
      BY <2>1 DEF JobsSound, JobsTypeOK, InLoop, AskedInTime
    <2> QED BY <2>1, <2>2, <2>3, <2>4, Publishes, RegistryKept DEF JobsSound
  <1>8. CASE Next1(j)
    <2>1. /\ pc[j] = "next" /\ stack[j] = <<>> /\ step[j] <= Steps[j]
          /\ step' = [step EXCEPT ![j] = step[j] + 1]
          /\ pc' = [pc EXCEPT ![j] = "poll"] /\ pc'[j] = "poll"
          /\ UNCHANGED <<bus, flag, registry, moves, askedAt>>
      BY <1>1, <1>8 DEF Next1, Goto, Idle, JobsSound, InLoop
    <2>2. \A k \in Job : step'[k] \in 1 .. Steps[k] + 1 /\ (k # j => step'[k] = step[k])
      <3>1. ASSUME NEW k \in Job \ {j} PROVE step'[k] = step[k]
        BY <2>1 DEF JobsSound, JobsTypeOK
      <3>2. step'[j] = step[j] + 1
        BY <2>1 DEF JobsSound, JobsTypeOK
      <3> QED BY <1>1, <2>1, <3>1, <3>2
    <2>3. JobsTypeOK'
      BY <1>1, <2>1, <2>2 DEF JobsSound, JobsTypeOK, BusInv
    <2>4. step'[j] = step[j] + 1
      BY <2>1 DEF JobsSound, JobsTypeOK
    <2>5. After(j) <= After(j)' /\ Passed(j) <= Passed(j)'
      BY <1>1, <2>1, <2>4 DEF After, Passed
    <2>6. InLoop' /\ AskedInTime'
      BY <2>1, <2>2 DEF JobsSound, JobsTypeOK, InLoop, AskedInTime
    <2> QED BY <2>1, <2>2, <2>3, <2>5, <2>6, MovesOn, RegistryKept DEF JobsSound
  <1>9. CASE DropGuard(j)
    <2>1. /\ pc[j] = "ending" /\ stack[j] = <<>>
          /\ registry' = [registry EXCEPT ![ScopeOf[j]] = NoJob]
          /\ pc' = [pc EXCEPT ![j] = "over"] /\ pc'[j] = "over"
          /\ UNCHANGED <<bus, step, flag, moves, askedAt>>
      BY <1>1, <1>9 DEF DropGuard, Goto, Idle
    <2>2. JobsTypeOK'
      BY <1>1, <2>1 DEF JobsSound, JobsTypeOK, BusInv
    <2>3. After(j) <= After(j)' /\ Passed(j) <= Passed(j)'
      BY <1>1, <2>1 DEF After, Passed
    <2>4. InLoop' /\ AskedInTime'
      BY <2>1 DEF JobsSound, JobsTypeOK, InLoop, AskedInTime
    <2>5. Registered' /\ NoStaleFlag'
      <3> SUFFICES ASSUME NEW s \in Scope, registry'[s] # NoJob
                   PROVE  ScopeOf[registry'[s]] = s /\ pc'[registry'[s]] \notin {"new", "over"}
        BY DEF Registered, NoStaleFlag, Alive
      <3>1. registry'[s] = registry[s] /\ s # ScopeOf[j] /\ registry[s] \in Job
        BY <2>1, JobFacts DEF JobsSound, JobsTypeOK
      <3>2. ScopeOf[registry[s]] = s /\ Alive(registry[s]) /\ registry[s] # j
        BY <3>1 DEF JobsSound, Registered, NoStaleFlag
      <3>3. pc'[registry[s]] = pc[registry[s]]
        BY <1>1, <2>1, <3>2
      <3> QED BY <3>1, <3>2, <3>3 DEF Alive
    <2> QED BY <2>1, <2>2, <2>3, <2>4, <2>5, MovesOn DEF JobsSound
  <1> QED BY <1>3, <1>4, <1>5, <1>6, <1>7, <1>8, <1>9 DEF Run

LEMMA CancelKeeps ==
  ASSUME BusInv', JobsSound, NEW s \in Scope, Cancel(s) PROVE JobsSound'
  <1> DEFINE j == registry[s]
             asked == IF flag[j] THEN askedAt[j]
                      ELSE IF pc[j] \in {"work", "next", "ending"} THEN step[j] ELSE step[j] - 1
  <1>1. j \in Job /\ Alive(j)
    BY DEF Cancel, JobsSound, JobsTypeOK, NoStaleFlag
  <1>2. /\ step[j] \in 1 .. Steps[j] + 1 /\ askedAt[j] \in 0 .. Steps[j] + 1
        /\ Steps[j] \in Nat \ {0}
    BY <1>1, JobFacts DEF JobsSound, JobsTypeOK
  <1>3. asked \in 0 .. Steps[j] + 1 /\ asked \in Nat
    BY <1>2
  <1>4. /\ flag' = [flag EXCEPT ![j] = TRUE] /\ askedAt' = [askedAt EXCEPT ![j] = asked]
        /\ UNCHANGED <<bus, pc, step, registry, moves>>
    BY DEF Cancel
  <1>5. ~flag[j] => asked = Passed(j)
    BY <1>1 DEF Alive, Passed
  <1> HIDE DEF j, asked
  <1>6. /\ flag'[j] = TRUE /\ askedAt'[j] = asked
        /\ flag[j] => asked = askedAt[j]
        /\ \A k \in Job \ {j} : flag'[k] = flag[k] /\ askedAt'[k] = askedAt[k]
    BY <1>1, <1>4 DEF JobsSound, JobsTypeOK, asked
  <1>7. UNCHANGED <<sink, seq, lock, stack, got, since>>
    BY <1>4 DEF bus
  <1>8. JobsTypeOK'
    <2>1. \A k \in Job : step'[k] \in 1 .. Steps[k] + 1 /\ askedAt'[k] \in 0 .. Steps[k] + 1
      BY <1>1, <1>3, <1>4, <1>6 DEF JobsSound, JobsTypeOK
    <2>2. askedAt' \in [Job -> Nat] /\ flag' \in [Job -> BOOLEAN]
      BY <1>1, <1>3, <1>4 DEF JobsSound, JobsTypeOK
    <2> QED BY <1>4, <2>1, <2>2 DEF JobsSound, JobsTypeOK, BusInv
  <1>9. \A k \in Job : Heard(k)' = Heard(k) /\ Passed(k)' = Passed(k)
    BY <1>4, <1>7 DEF Heard, Before, After, Passed, Pending, Base
  <1>10. HeardSoFar' /\ StreamInOrder'
    <2>1. \A k \in Job : Heard(k) <= Heard(k)' /\ Passed(k) <= Passed(k)'
      BY <1>9, Bounds DEF JobsSound
    <2> QED BY <1>7, <1>8, <2>1, SameDeliveries
  <1>11. CancelIsPrompt'
    <2> SUFFICES ASSUME NEW r \in Sink, NEW k \in Job, NEW i \in DOMAIN got[r],
                        got[r][i].event.job = k, got[r][i].event.what = "progress", flag'[k]
                 PROVE  got[r][i].event.step <= askedAt'[k]
      BY <1>7 DEF CancelIsPrompt
    <2>1. CASE flag[k]
      <3>1. askedAt'[k] = askedAt[k]
        <4>1. CASE k = j
          BY <1>6, <2>1, <4>1
        <4>2. CASE k # j
          BY <1>6, <4>2
        <4> QED BY <4>1, <4>2
      <3> QED BY <2>1, <3>1 DEF JobsSound, CancelIsPrompt
    <2>2. CASE ~flag[k]
      <3>1. k = j
        BY <1>6, <2>2
      <3>2. askedAt'[k] = Passed(k)
        BY <1>5, <1>6, <2>2, <3>1
      <3> QED BY <3>2, JobFacts DEF JobsSound, HeardSoFar, HeardOf
    <2> QED BY <2>1, <2>2
  <1>12. AskedInTime'
    <2> SUFFICES ASSUME NEW k \in Job, flag'[k], pc[k] \in {"work", "next"}
                 PROVE  step[k] <= askedAt'[k]
      BY <1>4 DEF AskedInTime
    <2>1. CASE k # j
      BY <1>6, <2>1 DEF JobsSound, AskedInTime
    <2>2. CASE k = j /\ flag[j]
      BY <1>6, <2>2 DEF JobsSound, AskedInTime
    <2>3. CASE k = j /\ ~flag[j]
      BY <1>2, <1>5, <1>6, <2>3 DEF Passed
    <2> QED BY <2>1, <2>2, <2>3
  <1>13. Depth' /\ OwnCall' /\ InLoop'
    BY <1>4, <1>7 DEF JobsSound, Depth, OwnCall, InLoop, Own, Base, Top
  <1>14. Registered' /\ NoStaleFlag'
    BY <1>4 DEF JobsSound, Registered, NoStaleFlag, Alive
  <1>15. Attentive'
    BY <1>4, <1>7 DEF JobsSound, Attentive, Captured, At, Top, Pending, Base, OutcomeAt
  <1> QED BY <1>8, <1>10, <1>11, <1>12, <1>13, <1>14, <1>15 DEF JobsSound

-----------------------------------------------------------------------------
(* The steps of the bus, seen from the job that publishes.                 *)

(* With an echo on it, a job's own call is inside the callback.            *)
LEMMA OneOrTwo ==
  ASSUME BusInv, JobsSound, NEW j \in Job, stack[j] # <<>>
  PROVE  /\ Top(j) \in Frame /\ stack[j] \in Seq(Frame)
         /\ \/ Len(stack[j]) = 1 /\ Base(j) = Top(j) /\ Top(j).event \in Own(j) /\ Top(j).event # Echo
            \/ Len(stack[j]) = 2 /\ Base(j) = stack[j][2] /\ ~Pending(j) /\ Top(j).event = Echo
  <1>1. stack[j] \in Seq(Frame) /\ Top(j) \in Frame
    BY TopFrame, JobFacts DEF BusInv, BusTypeOK
  <1>2. Len(stack[j]) \in {1, 2} /\ Top(j) = stack[j][1]
    <2>1. Len(stack[j]) \in Nat \ {0} /\ Head(stack[j]) = stack[j][1]
      BY <1>1, Popped
    <2>2. Len(stack[j]) <= 2
      BY DEF JobsSound, Depth
    <2>3. \A n \in Nat \ {0} : n <= 2 => n \in {1, 2}
      OBVIOUS
    <2>4. Len(stack[j]) \in {1, 2}
      BY <2>1, <2>2, <2>3
    <2> QED BY <2>1, <2>4 DEF Top
  <1>3. CASE Len(stack[j]) = 1
    BY <1>1, <1>2, <1>3, OwnStage DEF JobsSound, OwnCall, Base
  <1>4. CASE Len(stack[j]) = 2
    <2>1. Base(j) = stack[j][2] /\ stack[j][2].at = "inside"
      BY <1>4, JobFacts DEF Base, BusInv, InsideBelow
    <2> QED BY <1>1, <1>4, <2>1 DEF JobsSound, Depth, Pending
  <1> QED BY <1>2, <1>3, <1>4

LEMMA DepthKept ==
  ASSUME JobsSound, NEW j \in Job, Others(j), Len(stack'[j]) <= 2,
         Len(stack'[j]) = 2 => Top(j)'.event = Echo
  PROVE  Depth'
  <1>1. \A k \in Job \ {j} : stack'[k] = stack[k] /\ Top(k)' = Top(k)
    BY JobFacts DEF Others, Top
  <1>2. \A k \in Job \ {j} : Len(stack'[k]) <= 2 /\ (Len(stack'[k]) = 2 => Top(k)'.event = Echo)
    BY <1>1 DEF JobsSound, Depth
  <1> QED BY <1>2 DEF Depth

LEMMA TopChanges ==
  ASSUME BusInv, JobsSound, NEW j \in Job, stack[j] # <<>>,
         NEW f \in Frame, SetTop(j, f), f.event = Top(j).event, Top(j).at # "inside"
  PROVE  /\ Others(j) /\ Depth' /\ stack'[j] # <<>> /\ Top(j)' = f
         /\ Base(j)'.event = Base(j).event
         /\ Pending(j)' <=> (Pending(j) /\ f.at # "inside")
  <1>1. /\ Others(j) /\ stack'[j] # <<>> /\ Len(stack'[j]) = Len(stack[j])
        /\ \A i \in 2 .. Len(stack[j]) : stack'[j][i] = stack[j][i]
        /\ stack'[j][1] = f /\ Head(stack'[j]) = f
    BY AfterSetTop, JobFacts DEF BusInv
  <1>2. Depth'
    <2>1. Len(stack'[j]) <= 2 /\ (Len(stack'[j]) = 2 => Top(j)'.event = Echo)
      BY <1>1 DEF JobsSound, Depth, Top
    <2> QED BY <1>1, <2>1, DepthKept
  <1>3. CASE Len(stack[j]) = 1 /\ Base(j) = Top(j) /\ Top(j).event \in Own(j)
    <2>1. Base(j)' = f
      BY <1>1, <1>3 DEF Base
    <2> QED BY <1>1, <1>2, <1>3, <2>1 DEF Pending, Top
  <1>4. CASE Len(stack[j]) = 2 /\ Base(j) = stack[j][2] /\ ~Pending(j)
    <2>1. Base(j)' = Base(j)
      BY <1>1, <1>4 DEF Base
    <2>2. ~Pending(j)'
      BY <1>4, <2>1 DEF Pending
    <2> QED BY <1>1, <1>2, <1>4, <2>1, <2>2 DEF Top
  <1> QED BY <1>3, <1>4, OneOrTwo

LEMMA TopGoes ==
  ASSUME BusInv, JobsSound, NEW j \in Job, stack[j] # <<>>, Pop(j)
  PROVE  /\ Others(j) /\ Depth' /\ ~Pending(j)'
         /\ stack'[j] # <<>> => Base(j)'.event = Base(j).event
  <1>1. /\ Others(j) /\ Len(stack'[j]) = Len(stack[j]) - 1 /\ stack'[j] \in Seq(Frame)
        /\ \A i \in 1 .. Len(stack[j]) - 1 : stack'[j][i] = stack[j][i + 1]
    BY AfterPop, JobFacts DEF BusInv
  <1>2. CASE Len(stack[j]) = 1
    <2>1. Len(stack'[j]) = 0 /\ stack'[j] = <<>>
      BY <1>1, <1>2
    <2>2. ~Pending(j)'
      BY <2>1 DEF Pending
    <2>3. Len(stack'[j]) <= 2 /\ Len(stack'[j]) # 2
      BY <2>1
    <2>4. Depth'
      BY <1>1, <2>3, DepthKept
    <2> QED BY <1>1, <2>1, <2>2, <2>4
  <1>3. CASE Len(stack[j]) = 2 /\ Base(j) = stack[j][2] /\ ~Pending(j)
    <2>1. Len(stack'[j]) = 1 /\ Base(j)' = Base(j)
      BY <1>1, <1>3 DEF Base
    <2>2. ~Pending(j)'
      BY <1>3, <2>1 DEF Pending
    <2>3. Len(stack'[j]) <= 2 /\ Len(stack'[j]) # 2
      BY <2>1
    <2>4. Depth'
      BY <1>1, <2>3, DepthKept
    <2> QED BY <1>1, <2>1, <2>2, <2>4
  <1> QED BY <1>2, <1>3, OneOrTwo

(* A change of j's stack that keeps its own call on it, or ends it.        *)
LEMMA StackStep ==
  ASSUME BusInv', JobsSound, NEW j \in Job, UNCHANGED jobs, Others(j), stack[j] # <<>>,
         stack'[j] # <<>> => Base(j)'.event = Base(j).event,
         Pending(j)' => Pending(j)
  PROVE  /\ JobsTypeOK' /\ OwnCall' /\ InLoop' /\ AskedInTime' /\ Registered' /\ NoStaleFlag'
         /\ \A k \in Job : Heard(k) <= Heard(k)' /\ Passed(k) <= Passed(k)'
         /\ \A k \in Job \ {j} : Pending(k)' = Pending(k)
  <1>1. UNCHANGED <<pc, step, flag, registry, moves, askedAt>>
    BY DEF jobs
  <1>2. JobsTypeOK'
    BY <1>1 DEF JobsSound, JobsTypeOK, BusInv
  <1>3. InLoop' /\ AskedInTime' /\ Registered' /\ NoStaleFlag'
    BY <1>1 DEF JobsSound, InLoop, AskedInTime, Registered, NoStaleFlag, Alive
  <1>4. \A k \in Job \ {j} : /\ stack'[k] = stack[k] /\ Base(k)' = Base(k) /\ Pending(k)' = Pending(k)
                             /\ Heard(k)' = Heard(k)
    BY <1>1, Elsewhere
  <1>5. \A k \in Job : /\ Before(k)' = Before(k) /\ After(k)' = After(k)
                       /\ Own(k)' = Own(k) /\ Passed(k)' = Passed(k)
    BY <1>1 DEF Before, After, Own, Passed
  <1>6. Before(j) < After(j)
    BY OwnStage DEF JobsSound, OwnCall
  <1>7. Heard(j) <= Heard(j)'
    <2>1. CASE Pending(j)' /\ Pending(j)
      BY <1>5, <2>1, Bounds DEF Heard, JobsSound
    <2>2. CASE ~Pending(j)' /\ ~Pending(j)
      BY <1>5, <2>2, Bounds DEF Heard, JobsSound
    <2>3. CASE ~Pending(j)' /\ Pending(j)
      BY <1>5, <1>6, <2>3, Bounds DEF Heard, JobsSound
    <2> QED BY <2>1, <2>2, <2>3
  <1>8. ASSUME NEW k \in Job PROVE Heard(k) <= Heard(k)' /\ Passed(k) <= Passed(k)'
    <2>1. CASE k = j
      BY <1>5, <1>7, <2>1, Bounds DEF JobsSound
    <2>2. CASE k # j
      BY <1>4, <1>5, <2>2, Bounds DEF JobsSound
    <2> QED BY <2>1, <2>2
  <1>9. OwnCall'
    <2>1. stack'[j] # <<>> => Base(j)'.event \in Own(j)'
      BY <1>5 DEF JobsSound, OwnCall
    <2>2. \A k \in Job \ {j} : stack'[k] # <<>> => Base(k)'.event \in Own(k)'
      BY <1>4, <1>5 DEF JobsSound, OwnCall
    <2> QED BY <2>1, <2>2 DEF OwnCall
  <1> QED BY <1>2, <1>3, <1>4, <1>8, <1>9

(* Such a change while nothing is delivered or captured.                   *)
LEMMA Undelivered ==
  ASSUME BusInv', JobsSound, NEW j \in Job, UNCHANGED jobs, Others(j), stack[j] # <<>>,
         stack'[j] # <<>> => Base(j)'.event = Base(j).event,
         Pending(j)' <=> Pending(j), Depth', UNCHANGED <<got, sink>>,
         ~At(j, "captured"), ~At(j, "captured")'
  PROVE  JobsSound'
  <1>1. /\ JobsTypeOK' /\ OwnCall' /\ InLoop' /\ AskedInTime' /\ Registered' /\ NoStaleFlag'
        /\ \A k \in Job : Heard(k) <= Heard(k)' /\ Passed(k) <= Passed(k)'
        /\ \A k \in Job \ {j} : Pending(k)' = Pending(k)
    BY StackStep
  <1>2. HeardSoFar' /\ StreamInOrder' /\ CancelIsPrompt'
    BY <1>1, SameDeliveries DEF jobs
  <1>3. Captured' = Captured /\ \A t \in Captured : Top(t)' = Top(t)
    BY TopOfOthers, JobFacts DEF Captured
  <1>4. \A k \in Job : OutcomeAt(k)' = OutcomeAt(k)
    BY DEF OutcomeAt
  <1>5. Attentive'
    BY <1>1, <1>3, <1>4 DEF JobsSound, Attentive, jobs
  <1> QED BY <1>1, <1>2, <1>5 DEF JobsSound

LEMMA JobNumberKeeps ==
  ASSUME BusInv, BusInv', JobsSound, NEW j \in Job, Number(j), UNCHANGED jobs
  PROVE  JobsSound'
  <1> DEFINE f == [Top(j) EXCEPT !.at = "numbered", !.seq = seq]
  <1>1. stack[j] # <<>> /\ Top(j).at = "called" /\ Top(j) \in Frame
    BY OneOrTwo DEF Number, At
  <1>2. f \in Frame /\ f.at = "numbered" /\ f.event = Top(j).event
    BY <1>1 DEF Frame, BusInv, BusTypeOK
  <1>3. SetTop(j, f) /\ UNCHANGED <<got, sink>>
    BY DEF Number
  <1> HIDE DEF f
  <1>4. /\ Others(j) /\ Depth' /\ stack'[j] # <<>> /\ Top(j)' = f
        /\ Base(j)'.event = Base(j).event /\ (Pending(j)' <=> Pending(j))
    BY <1>1, <1>2, <1>3, TopChanges
  <1>5. ~At(j, "captured") /\ ~At(j, "captured")'
    BY <1>1, <1>2, <1>4 DEF At
  <1> QED BY <1>1, <1>3, <1>4, <1>5, Undelivered

LEMMA JobReturnKeeps ==
  ASSUME BusInv, BusInv', JobsSound, NEW j \in Job, Return(j), UNCHANGED jobs
  PROVE  JobsSound'
  <1>1. stack[j] # <<>> /\ Top(j).at = "inside" /\ Pop(j) /\ UNCHANGED <<got, sink>>
    BY DEF Return, At
  <1>2. /\ Others(j) /\ Depth' /\ ~Pending(j)'
        /\ stack'[j] # <<>> => Base(j)'.event = Base(j).event
    BY <1>1, TopGoes
  <1>3. ~Pending(j)
    BY <1>1, OneOrTwo DEF Pending
  <1>4. ~At(j, "captured") /\ ~At(j, "captured")'
    <2>1. stack'[j] # <<>> => Head(stack'[j]).at = "inside"
      BY <1>1, AfterPop, JobFacts DEF BusInv
    <2> QED BY <1>1, <2>1 DEF At, Top
  <1> QED BY <1>1, <1>2, <1>3, <1>4, Undelivered

LEMMA EchoKeeps ==
  ASSUME BusInv, BusInv', JobsSound, NEW j \in Job, EchoFrom(j)
  PROVE  JobsSound'
  <1> DEFINE f == [at |-> "called", event |-> Echo, seq |-> 0, to |-> NoSink]
  <1>1. /\ stack[j] # <<>> /\ Top(j).event # Echo /\ At(j, "inside") /\ Push(j, f)
        /\ UNCHANGED <<got, sink>> /\ UNCHANGED jobs
    BY DEF EchoFrom, Reenter, Call
  <1>2. f \in Frame /\ f.at = "called" /\ f.event = Echo
    BY JobFacts DEF Frame
  <1> HIDE DEF f
  <1>3. Len(stack[j]) = 1 /\ Base(j) = Top(j) /\ Base(j) = stack[j][1]
    BY <1>1, OneOrTwo DEF Base
  <1>4. /\ Others(j) /\ stack'[j] # <<>> /\ Head(stack'[j]) = f
        /\ Len(stack'[j]) = 2 /\ stack'[j][2] = stack[j][1]
    <2>1. /\ Others(j) /\ stack'[j] # <<>> /\ Head(stack'[j]) = f
          /\ Len(stack'[j]) = Len(stack[j]) + 1
          /\ \A i \in 1 .. Len(stack[j]) : stack'[j][i + 1] = stack[j][i]
      BY <1>1, <1>2, AfterPush, JobFacts DEF BusInv
    <2>2. 1 \in 1 .. Len(stack[j])
      BY <1>3
    <2>3. stack'[j][1 + 1] = stack[j][1]
      BY <2>1, <2>2
    <2> QED BY <1>3, <2>1, <2>3
  <1>5. Base(j)' = Base(j)
    BY <1>3, <1>4 DEF Base
  <1>6. Pending(j)' <=> Pending(j)
    BY <1>1, <1>4, <1>5 DEF Pending
  <1>7. Depth'
    <2>1. Top(j)'.event = Echo
      BY <1>2, <1>4 DEF Top
    <2>2. Len(stack'[j]) <= 2
      BY <1>4
    <2> QED BY <1>4, <2>1, <2>2, DepthKept
  <1>8. ~At(j, "captured") /\ ~At(j, "captured")'
    BY <1>1, <1>2, <1>4 DEF At, Top
  <1> QED BY <1>1, <1>4, <1>5, <1>6, <1>7, <1>8, Undelivered

(* Nobody is there to be told, or the event is in hand for the subscriber. *)
LEMMA JobCaptureKeeps ==
  ASSUME BusInv, BusInv', JobsSound, NEW j \in Job, Capture(j), UNCHANGED jobs
  PROVE  JobsSound'
  <1> DEFINE f == [Top(j) EXCEPT !.at = "captured", !.to = sink]
  <1>1. stack[j] # <<>> /\ Top(j).at = "numbered" /\ Top(j) \in Frame
    BY OneOrTwo DEF Capture, At
  <1>2. f \in Frame /\ f.at = "captured" /\ f.event = Top(j).event /\ f.to = sink
    BY <1>1 DEF Frame, BusInv, BusTypeOK
  <1>3. /\ IF sink = NoSink THEN Pop(j) ELSE SetTop(j, f)
        /\ UNCHANGED <<got, sink>>
    BY DEF Capture, Keep
  <1> HIDE DEF f
  <1>4. CASE sink = NoSink
    <2>1. /\ Others(j) /\ Depth' /\ ~Pending(j)'
          /\ stack'[j] # <<>> => Base(j)'.event = Base(j).event
      BY <1>1, <1>3, <1>4, TopGoes
    <2>2. /\ JobsTypeOK' /\ OwnCall' /\ InLoop' /\ AskedInTime' /\ Registered' /\ NoStaleFlag'
          /\ \A k \in Job : Heard(k) <= Heard(k)' /\ Passed(k) <= Passed(k)'
      BY <1>1, <2>1, StackStep
    <2>3. HeardSoFar' /\ StreamInOrder' /\ CancelIsPrompt'
      BY <1>3, <2>2, SameDeliveries DEF jobs
    <2>4. moves # 0 /\ moves' = moves
      BY <1>4 DEF JobsSound, Attentive, jobs
    <2> QED BY <2>1, <2>2, <2>3, <2>4 DEF JobsSound, Attentive
  <1>5. CASE sink # NoSink
    <2>1. /\ Others(j) /\ Depth' /\ stack'[j] # <<>> /\ Top(j)' = f
          /\ Base(j)'.event = Base(j).event /\ (Pending(j)' <=> Pending(j))
      BY <1>1, <1>2, <1>3, <1>5, TopChanges
    <2>2. /\ JobsTypeOK' /\ OwnCall' /\ InLoop' /\ AskedInTime' /\ Registered' /\ NoStaleFlag'
          /\ \A k \in Job : Heard(k) <= Heard(k)' /\ Passed(k) <= Passed(k)'
          /\ \A k \in Job \ {j} : Pending(k)' = Pending(k)
      BY <1>1, <2>1, StackStep
    <2>3. HeardSoFar' /\ StreamInOrder' /\ CancelIsPrompt'
      BY <1>3, <2>2, SameDeliveries DEF jobs
    <2>4. \A k \in Job : OutcomeAt(k)' = OutcomeAt(k)
      BY <1>3 DEF OutcomeAt
    <2>5. ASSUME NEW t \in Captured' PROVE (t \in Captured /\ Top(t)' = Top(t)) \/ Top(t)'.to = sink
      BY <1>2, <2>1, TopOfOthers, JobFacts DEF Captured
    <2>6. Attentive'
      <3> SUFFICES ASSUME moves' = 0
                   PROVE /\ sink' # NoSink
                         /\ \A t \in Captured' : Top(t)'.to = sink'
                         /\ \A k \in Job : pc'[k] = "over" \/ (pc'[k] = "ending" /\ ~Pending(k)') => OutcomeAt(k)'
        BY DEF Attentive
      <3>1. moves = 0 /\ pc' = pc
        BY DEF jobs
      <3>2. \A t \in Captured' : Top(t)'.to = sink'
        BY <1>3, <2>5, <3>1 DEF JobsSound, Attentive
      <3>3. \A k \in Job : pc[k] = "over" \/ (pc[k] = "ending" /\ ~Pending(k)') => OutcomeAt(k)'
        BY <2>1, <2>2, <2>4, <3>1 DEF JobsSound, Attentive
      <3> QED BY <1>3, <1>5, <3>1, <3>2, <3>3
    <2> QED BY <2>1, <2>2, <2>3, <2>6 DEF JobsSound
  <1> QED BY <1>4, <1>5

(* A delivery that is no news of a job, or the next of its own.            *)
LEMMA NextInStream ==
  ASSUME JobsSound, JobsTypeOK', NEW r \in Sink, NEW d \in Delivery,
         got' = [got EXCEPT ![r] = Append(@, d)], UNCHANGED jobs,
         \A k \in Job : Heard(k) <= Heard(k)' /\ Passed(k) <= Passed(k)',
         d.event.job # NoJob =>
           /\ d.event.job \in Job
           /\ Stage(d.event) \in Int
           /\ Heard(d.event.job) < Stage(d.event) /\ Stage(d.event) <= Heard(d.event.job)'
           /\ d.event.what = "progress" =>
                /\ d.event.step <= Passed(d.event.job)'
                /\ flag[d.event.job] => d.event.step <= askedAt[d.event.job]
  PROVE  HeardSoFar' /\ StreamInOrder' /\ CancelIsPrompt'
  <1> DEFINE n == Len(got[r]) + 1
  <1>1. BusTypeOK /\ JobsTypeOK
    BY DEF JobsSound, JobsTypeOK
  <1>2. /\ \A s \in Sink : \A i \in DOMAIN got'[s] :
              \/ s = r /\ i = n /\ got'[s][i] = d
              \/ /\ i \in DOMAIN got[s] /\ got'[s][i] = got[s][i]
                 /\ s = r => i < n
        /\ n \in Nat
        /\ \A s \in Sink : DOMAIN got'[s] \subseteq Nat
    <2>1. got' \in [Sink -> Seq(Delivery)] /\ Len(got[r]) \in Nat
      BY <1>1, Delivered
    <2>2. \A s \in Sink : DOMAIN got'[s] \subseteq Nat
      <3> SUFFICES ASSUME NEW s \in Sink PROVE DOMAIN got'[s] \subseteq Nat
        OBVIOUS
      <3>1. got'[s] \in Seq(Delivery)
        BY <2>1
      <3> QED BY <3>1, LenProperties
    <2> QED BY <1>1, <2>1, <2>2, NewOrOld
  <1> HIDE DEF n
  <1>3. HeardSoFar'
    <2> SUFFICES ASSUME NEW s \in Sink, NEW i \in DOMAIN got'[s], NEW e, e = got'[s][i].event
                 PROVE  HeardOf(e)'
      BY DEF HeardSoFar, HeardOf
    <2>1. CASE e = d.event
      BY <2>1 DEF HeardOf
    <2>2. CASE i \in DOMAIN got[s] /\ got'[s][i] = got[s][i]
      <3>1. HeardOf(e)
        BY <2>2 DEF JobsSound, HeardSoFar
      <3> QED BY <1>1, <3>1, HeardGrows
    <2> QED BY <1>2, <2>1, <2>2
  <1>4. StreamInOrder'
    <2> SUFFICES ASSUME NEW s \in Sink, NEW i \in DOMAIN got'[s], NEW k \in DOMAIN got'[s], i < k,
                        got'[s][i].event.job = got'[s][k].event.job, got'[s][i].event.job # NoJob
                 PROVE  Stage(got'[s][i].event) < Stage(got'[s][k].event)
      BY DEF StreamInOrder
    <2>1. i \in Nat /\ k \in Nat
      BY <1>2
    <2>2. i \in DOMAIN got[s] /\ got'[s][i] = got[s][i]
      BY <1>2, <2>1
    <2>3. CASE k \in DOMAIN got[s] /\ got'[s][k] = got[s][k]
      BY <2>2, <2>3 DEF JobsSound, StreamInOrder
    <2>4. CASE got'[s][k] = d
      <3> DEFINE e == got[s][i].event
                 j == d.event.job
      <3>1. e.job = j /\ j # NoJob /\ HeardOf(e)
        BY <2>2, <2>4 DEF JobsSound, HeardSoFar
      <3>2. j \in Job /\ Stage(e) \in Int /\ Stage(e) <= Heard(j)
        BY <3>1 DEF HeardOf
      <3>3. Heard(j) < Stage(d.event) /\ Heard(j) \in Int /\ Stage(d.event) \in Int
        BY <1>1, <3>1, <3>2, Bounds
      <3> HIDE DEF e, j
      <3>4. Stage(e) < Stage(d.event)
        BY <3>2, <3>3
      <3> QED BY <2>2, <2>4, <3>4 DEF e
    <2> QED BY <1>2, <2>3, <2>4
  <1>5. CancelIsPrompt'
    <2> SUFFICES ASSUME NEW s \in Sink, NEW j \in Job, NEW i \in DOMAIN got'[s],
                        got'[s][i].event.job = j, got'[s][i].event.what = "progress", flag[j]
                 PROVE  got'[s][i].event.step <= askedAt[j]
      BY DEF CancelIsPrompt, jobs
    <2>1. CASE got'[s][i] = d
      BY <2>1, JobFacts
    <2>2. CASE i \in DOMAIN got[s] /\ got'[s][i] = got[s][i]
      BY <2>2 DEF JobsSound, CancelIsPrompt
    <2> QED BY <1>2, <2>1, <2>2
  <1> QED BY <1>3, <1>4, <1>5

LEMMA JobEmitKeeps ==
  ASSUME BusInv, BusInv', JobsSound, NEW j \in Job, Emit(j), UNCHANGED jobs
  PROVE  JobsSound'
  <1> DEFINE f == [Top(j) EXCEPT !.at = "inside"]
  <1>1. /\ stack[j] # <<>> /\ Top(j).at = "captured" /\ Top(j) \in Frame
        /\ j \in Captured /\ ~At(j, "captured")' /\ sink' = sink
    <2>1. stack[j] # <<>> /\ Top(j).at = "captured" /\ Top(j) \in Frame /\ sink' = sink
      BY OneOrTwo DEF Emit, At
    <2>2. f \in Frame /\ f.at = "inside"
      BY <2>1 DEF Frame
    <2>3. stack'[j] # <<>> => Head(stack'[j]).at = "inside"
      <3>1. SetTop(j, f) \/ Pop(j)
        BY DEF Emit
      <3> HIDE DEF f
      <3> QED BY <2>1, <2>2, <3>1, AfterSetTop, AfterPop, JobFacts DEF BusInv
    <2> QED BY <2>1, <2>3, JobFacts DEF At, Top, Captured
  <1>2. PICK r \in Sink, d \in Delivery : r = Top(j).to /\ d = [seq |-> Top(j).seq, event |-> Top(j).event]
    BY <1>1 DEF BusInv, InHand, Frame, Delivery
  <1> DEFINE n == Len(got[r]) + 1
  <1>3. f \in Frame /\ f.at = "inside" /\ f.event = Top(j).event
    BY <1>1 DEF Frame
  <1>4. got' = [got EXCEPT ![r] = Append(@, d)] /\ (SetTop(j, f) \/ Pop(j))
    BY <1>2 DEF Emit
  <1> HIDE DEF f
  <1>5. /\ Others(j) /\ Depth' /\ ~Pending(j)'
        /\ stack'[j] # <<>> => Base(j)'.event = Base(j).event
    <2>1. CASE SetTop(j, f)
      BY <1>1, <1>3, <2>1, TopChanges
    <2>2. CASE Pop(j)
      BY <1>1, <2>2, TopGoes
    <2> QED BY <1>4, <2>1, <2>2
  <1>6. /\ JobsTypeOK' /\ OwnCall' /\ InLoop' /\ AskedInTime' /\ Registered' /\ NoStaleFlag'
        /\ \A k \in Job : Heard(k) <= Heard(k)' /\ Passed(k) <= Passed(k)'
        /\ \A k \in Job \ {j} : Pending(k)' = Pending(k)
    BY <1>1, <1>5, StackStep
  <1>7. \/ d.event = Echo /\ d.event.job = NoJob /\ ~Pending(j)
        \/ d.event \in Own(j) /\ Pending(j)
    <2>1. CASE Top(j).event = Echo /\ ~Pending(j)
      BY <1>2, <2>1, JobFacts
    <2>2. CASE Base(j) = Top(j) /\ Top(j).event \in Own(j)
      BY <1>1, <1>2, <2>2 DEF Pending
    <2> QED BY <1>1, <2>1, <2>2, OneOrTwo
  <1>8. d.event.job # NoJob =>
           /\ d.event.job \in Job
           /\ Stage(d.event) \in Int
           /\ Heard(d.event.job) < Stage(d.event) /\ Stage(d.event) <= Heard(d.event.job)'
           /\ d.event.what = "progress" =>
                /\ d.event.step <= Passed(d.event.job)'
                /\ flag[d.event.job] => d.event.step <= askedAt[d.event.job]
    <2> SUFFICES ASSUME d.event \in Own(j), Pending(j), d.event.job # NoJob
                 PROVE  /\ d.event.job \in Job
                        /\ Stage(d.event) \in Int
                        /\ Heard(d.event.job) < Stage(d.event) /\ Stage(d.event) <= Heard(d.event.job)'
                        /\ d.event.what = "progress" =>
                             /\ d.event.step <= Passed(d.event.job)'
                             /\ flag[d.event.job] => d.event.step <= askedAt[d.event.job]
      BY <1>7
    <2>1. JobsTypeOK
      BY DEF JobsSound
    <2>2. /\ d.event.job = j /\ Stage(d.event) = After(j) /\ Before(j) < After(j)
          /\ d.event.what = "progress" => pc[j] = "next" /\ d.event.step = step[j]
      BY <2>1, OwnStage
    <2>3. /\ After(j) \in Int /\ step[j] \in Nat
          /\ Heard(j) = Before(j) /\ Heard(j)' = After(j)
      BY <1>5, <2>1, Bounds DEF Heard, After, jobs
    <2>4. pc[j] = "next" => Passed(j)' = step[j] /\ (flag[j] => step[j] <= askedAt[j])
      BY DEF JobsSound, AskedInTime, Passed, jobs
    <2>5. /\ Stage(d.event) \in Int /\ Heard(j) < Stage(d.event) /\ Stage(d.event) <= Heard(j)'
          /\ d.event.what = "progress" =>
               /\ d.event.step <= Passed(j)'
               /\ flag[j] => d.event.step <= askedAt[j]
      BY <2>2, <2>3, <2>4
    <2> QED BY <2>2, <2>5
  <1>9. HeardSoFar' /\ StreamInOrder' /\ CancelIsPrompt'
    <2>1. got' = [got EXCEPT ![r] = Append(@, d)] /\ JobsTypeOK'
      BY <1>4, <1>6
    <2> QED BY <1>2, <1>6, <1>8, <2>1, NextInStream
  <1>10. /\ \A s \in Sink : \A i \in DOMAIN got[s] : i \in DOMAIN got'[s] /\ got'[s][i] = got[s][i]
         /\ n \in DOMAIN got'[r] /\ got'[r][n] = d
    <2>1. BusTypeOK
      BY DEF BusInv
    <2>2. got' = [got EXCEPT ![r] = Append(@, d)]
      BY <1>4
    <2>3. /\ \A s \in Sink : \A i \in DOMAIN got[s] : i \in DOMAIN got'[s] /\ got'[s][i] = got[s][i]
          /\ Len(got[r]) + 1 \in DOMAIN got'[r] /\ got'[r][Len(got[r]) + 1] = d
      BY <2>1, <2>2, NewOrOld
    <2> QED BY <2>3
  <1>11. Attentive'
    <2> SUFFICES ASSUME moves = 0
                 PROVE /\ sink # NoSink
                       /\ \A t \in Captured' : Top(t)'.to = sink
                       /\ \A k \in Job : pc[k] = "over" \/ (pc[k] = "ending" /\ ~Pending(k)') => OutcomeAt(k)'
      BY <1>1 DEF Attentive, jobs
    <2>1. /\ sink # NoSink /\ sink \in Sink /\ r = sink
          /\ \A t \in Captured : Top(t).to = sink
          /\ \A k \in Job : pc[k] = "over" \/ (pc[k] = "ending" /\ ~Pending(k)) => OutcomeAt(k)
      BY <1>1, <1>2 DEF JobsSound, Attentive, JobsTypeOK, BusTypeOK
    <2>2. \A t \in Captured' : t \in Captured /\ Top(t)' = Top(t)
      BY <1>1, <1>5, TopOfOthers, JobFacts DEF Captured
    <2>3. \A k \in Job : OutcomeAt(k) => OutcomeAt(k)'
      BY <1>1, <1>10, <2>1 DEF OutcomeAt
    <2>4. pc[j] = "ending" /\ Pending(j) => OutcomeAt(j)'
      <3> SUFFICES ASSUME pc[j] = "ending", d.event \in Own(j) PROVE OutcomeAt(j)'
        BY <1>7
      <3>1. d.event.job = j /\ d.event.what \in Outcomes
        BY OwnStage DEF JobsSound
      <3> HIDE DEF n
      <3>2. n \in DOMAIN got'[sink'] /\ got'[sink'][n] = d
        BY <1>1, <1>10, <2>1
      <3> QED BY <3>1, <3>2 DEF OutcomeAt
    <2>5. \A k \in Job : pc[k] = "over" => k # j
      BY <1>1, OwnStage DEF JobsSound, OwnCall
    <2>6. ASSUME NEW k \in Job, pc[k] = "over" \/ (pc[k] = "ending" /\ ~Pending(k)')
          PROVE  OutcomeAt(k)'
      BY <1>6, <2>1, <2>3, <2>4, <2>5, <2>6
    <2> QED BY <2>1, <2>2, <2>6
  <1> QED BY <1>5, <1>6, <1>9, <1>11 DEF JobsSound

LEMMA MoveKeeps ==
  ASSUME BusInv', JobsSound, Move(Unsubscribe) \/ \E s \in Sink : Move(Subscribe(s))
  PROVE  JobsSound'
  <1>1. /\ UNCHANGED <<seq, lock, stack, got>> /\ moves < MaxMoves /\ moves' = moves + 1
        /\ UNCHANGED <<pc, step, flag, registry, askedAt>>
    BY DEF Move, Subscribe, Unsubscribe
  <1>2. moves' \in 0 .. MaxMoves /\ moves' # 0
    BY <1>1, JobsAssumption DEF JobsSound, JobsTypeOK
  <1>3. JobsTypeOK'
    BY <1>1, <1>2 DEF JobsSound, JobsTypeOK, BusInv
  <1>4. \A k \in Job : /\ Pending(k)' = Pending(k) /\ Base(k)' = Base(k) /\ Own(k)' = Own(k)
                       /\ Heard(k)' = Heard(k) /\ Passed(k)' = Passed(k)
    BY <1>1 DEF Pending, Base, Own, Heard, Before, After, Passed
  <1>5. \A k \in Job : Heard(k) <= Heard(k)' /\ Passed(k) <= Passed(k)'
    BY <1>4, Bounds DEF JobsSound
  <1>6. HeardSoFar' /\ StreamInOrder' /\ CancelIsPrompt'
    BY <1>1, <1>3, <1>5, SameDeliveries
  <1>7. Depth' /\ OwnCall' /\ InLoop' /\ AskedInTime' /\ Registered' /\ NoStaleFlag'
    BY <1>1, <1>4 DEF JobsSound, Depth, Top, OwnCall, InLoop, AskedInTime, Registered, NoStaleFlag, Alive
  <1>8. Attentive'
    BY <1>2 DEF Attentive
  <1> QED BY <1>3, <1>6, <1>7, <1>8 DEF JobsSound

-----------------------------------------------------------------------------
LEMMA JobsStart == JobsInit => BusInv /\ JobsSound
  <1> SUFFICES ASSUME JobsInit PROVE BusInv /\ JobsSound
    OBVIOUS
  <1>1. BusInv
    BY BusStart DEF JobsInit
  <1>2. /\ \A j \in Job : pc[j] = "new" /\ step[j] = 1 /\ ~flag[j] /\ askedAt[j] = 0
        /\ moves = 0 /\ sink # NoSink /\ \A s \in Scope : registry[s] = NoJob
    BY DEF JobsInit
  <1>3. \A j \in Job : stack[j] = <<>> /\ Len(stack[j]) = 0
    BY JobFacts DEF JobsInit, BusInit
  <1>4. \A s \in Sink : DOMAIN got[s] = {}
    <2>1. DOMAIN <<>> = {}
      OBVIOUS
    <2> QED BY <2>1 DEF JobsInit, BusInit
  <1>5. JobsTypeOK
    <2>1. ASSUME NEW j \in Job PROVE step[j] \in 1 .. Steps[j] + 1 /\ askedAt[j] \in 0 .. Steps[j] + 1
      <3>1. Steps[j] \in Nat /\ step[j] = 1 /\ askedAt[j] = 0
        BY <1>2, JobFacts
      <3> QED BY <3>1
    <2>2. step \in [Job -> Nat] /\ askedAt \in [Job -> Nat]
      BY DEF JobsInit
    <2> QED BY <1>1, <2>1, <2>2, JobsAssumption DEF JobsInit, JobsTypeOK, BusInv
  <1>6. Depth /\ OwnCall /\ InLoop /\ AskedInTime
    BY <1>2, <1>3 DEF Depth, OwnCall, InLoop, AskedInTime
  <1>7. HeardSoFar /\ StreamInOrder /\ CancelIsPrompt
    BY <1>4 DEF HeardSoFar, StreamInOrder, CancelIsPrompt
  <1>8. Registered /\ NoStaleFlag
    BY <1>2 DEF Registered, NoStaleFlag
  <1>9. Attentive
    BY <1>2, <1>3, JobFacts DEF Attentive, Captured, At
  <1> QED BY <1>1, <1>5, <1>6, <1>7, <1>8, <1>9 DEF JobsSound

LEMMA JobsKeep == ASSUME BusInv, JobsSound, [JobsNext]_vars PROVE BusInv' /\ JobsSound'
  <1>1. BusInv'
    BY JobsStepBus, BusKeeps DEF JobsSound
  <1>2. ASSUME NEW j \in Job, BusStep(j) PROVE JobsSound'
    BY <1>1, <1>2, JobNumberKeeps, JobCaptureKeeps, JobEmitKeeps, JobReturnKeeps DEF BusStep, Proceed
  <1>3. CASE UNCHANGED vars
    <2>1. UNCHANGED <<sink, seq, lock, stack, got, since, pc, step, flag, registry, moves, askedAt>>
      BY <1>3 DEF vars, bus, jobs
    <2>2. \A k \in Job : Heard(k)' = Heard(k) /\ Passed(k)' = Passed(k)
      BY <2>1 DEF Heard, Before, After, Passed, Pending, Base
    <2>3. JobsTypeOK'
      BY <2>1 DEF JobsSound, JobsTypeOK, BusTypeOK
    <2>4. HeardSoFar' /\ StreamInOrder' /\ CancelIsPrompt'
      <3>1. \A k \in Job : Heard(k) <= Heard(k)' /\ Passed(k) <= Passed(k)'
        BY <2>2, Bounds DEF JobsSound
      <3> QED BY <2>1, <2>3, <3>1, SameDeliveries
    <2>5. Depth' /\ OwnCall' /\ InLoop' /\ AskedInTime' /\ Registered' /\ NoStaleFlag'
      BY <2>1 DEF JobsSound, Depth, Top, OwnCall, Own, Base, InLoop, AskedInTime,
                  Registered, NoStaleFlag, Alive
    <2>6. Attentive'
      BY <2>1 DEF JobsSound, Attentive, Captured, At, Top, Pending, Base, OutcomeAt
    <2> QED BY <1>1, <2>3, <2>4, <2>5, <2>6 DEF JobsSound
  <1> QED BY <1>1, <1>2, <1>3, RegisterKeeps, RunKeeps, EchoKeeps, CancelKeeps, MoveKeeps DEF JobsNext

(* What a job does to the bus is what some thread may do to it: publish,   *)
(* go on, re-enter it, or nothing.                                         *)
THEOREM JobsAreBusThreads == JobsSpec => BusSpec
  <1>1. JobsInit => BusInit
    BY DEF JobsInit
  <1>2. BusInv /\ JobsSound => JobsTypeOK
    BY DEF JobsSound
  <1> QED BY <1>1, <1>2, JobsStart, JobsKeep, JobsStepBus, PTL DEF JobsSpec, BusSpec

(* Jobs that share scopes and subscribers that come, go and publish from   *)
(* their callbacks: no event twice, none missed, no job over without its   *)
(* outcome told, no flag of a job that is over.                            *)
THEOREM JobsHold == JobsSpec => []JobsInv
  <1>1. BusInv /\ JobsSound => JobsInv
    <2> SUFFICES ASSUME BusInv, JobsSound PROVE OutcomeIsHeard
      BY DEF JobsInv, BusInv, JobsSound
    <2> QED BY DEF JobsSound, Attentive, OutcomeAt, OutcomeIsHeard
  <1> QED BY <1>1, JobsStart, JobsKeep, PTL DEF JobsSpec

(* Every subscriber, whenever it came, hears of a job in the order of its  *)
(* stages, each once, and nothing after the outcome.                       *)
THEOREM StreamsInOrder == JobsSpec => []StreamInOrder
  <1>1. JobsSound => StreamInOrder
    BY DEF JobsSound
  <1> QED BY <1>1, JobsStart, JobsKeep, PTL DEF JobsSpec

(* cancel_job is heeded at the next poll: no step polled after the flag    *)
(* was raised is reported.                                                 *)
THEOREM CancelsArePrompt == JobsSpec => []CancelIsPrompt
  <1>1. JobsSound => CancelIsPrompt
    BY DEF JobsSound
  <1> QED BY <1>1, JobsStart, JobsKeep, PTL DEF JobsSpec

-----------------------------------------------------------------------------
(* The batch. *)

Piece  == {Bad} \cup 1 .. Pieces
Result == [task : Task, ok : BOOLEAN, size : 0 .. Pieces]
Over   == {"ended", "joined"}
Stages == {"waiting", "resolve", "open", "fetch", "verify", "rename"} \cup Over

(* TypeOK with sequences for what a run enumerates. *)
Typed ==
  /\ next \in 1 .. NumTasks + 1 /\ permits \in 0 .. Limit
  /\ stage \in [Task -> Stages]
  /\ tries \in [Task -> 0 .. MaxRetries + 1] /\ fetched \in [Task -> 0 .. Pieces]
  /\ at \in [Task -> 0 .. MaxLength]
  /\ handle \in [Task -> {None} \cup Task]
  /\ answer \in [Task -> [ok : BOOLEAN, size : 0 .. Pieces]]
  /\ out \in Seq(Result)
  /\ temp \in [Dest -> {None} \cup Task] /\ dest \in [Dest -> {None} \cup Task]
  /\ content \in [Task -> Seq(Piece)]
  /\ faults \in 0 .. MaxFaults

(* A try writes at most one body. *)
Lengths ==
  /\ \A t \in Task : /\ at[t] <= tries[t] * Pieces + fetched[t]
                     /\ stage[t] \notin Over => tries[t] <= MaxRetries
  /\ \A f \in Task : Len(content[f]) <= MaxLength

(* Every permit is free or owned by a task under way. *)
Permits ==
  /\ \A t \in Task : stage[t] = "waiting" <=> t >= next
  /\ permits + Cardinality(UnderWay) = Limit

(* A file belongs to the destination it was made for. *)
OwnFiles ==
  /\ \A d \in Dest : /\ temp[d] # None => DestOf[temp[d]] = d
                     /\ dest[d] # None => DestOf[dest[d]] = d
  /\ \A t \in Task : handle[t] # None => DestOf[handle[t]] = DestOf[t]

(* A task that has its destination to itself writes to its own file. *)
Private(t) ==
  /\ stage[t] \in {"waiting", "resolve", "open"} =>
       temp[DestOf[t]] = None /\ tries[t] = 0 /\ fetched[t] = 0 /\ at[t] = 0
  /\ stage[t] = "fetch" => handle[t] = t
  /\ stage[t] \in {"fetch", "verify", "rename"} => temp[DestOf[t]] = t
  /\ stage[t] = "rename" /\ t \in Checked => content[t] = Body
  /\ answer[t].ok => stage[t] \in Over
  /\ answer[t].ok /\ t \in Checked => dest[DestOf[t]] = t /\ content[t] = Body

(* What a task has so far is right, unless a fault hurt it. *)
Clean(t) == tries[t] = 0 /\ at[t] = fetched[t] /\ content[t] = [i \in 1 .. fetched[t] |-> i]
Hurt(t) ==
  \/ stage[t] = "fetch" /\ ~Clean(t)
  \/ stage[t] \in {"verify", "rename"} /\ content[t] # Body
  \/ stage[t] \in Over /\ ~answer[t].ok
Hurts == {t \in Task : Alone(t) /\ Hurt(t)}

Alones == \A t \in Task : Alone(t) => Private(t)
Charged == Cardinality(Hurts) <= MaxFaults - faults

Sound == Typed /\ Lengths /\ Permits /\ OwnFiles /\ Alones /\ Charged

-----------------------------------------------------------------------------
LEMMA Sizes ==
  /\ NumTasks \in Nat /\ Limit \in Nat /\ Limit > 0 /\ MaxRetries \in Nat
  /\ Pieces \in Nat /\ Pieces > 0 /\ MaxFaults \in Nat /\ MaxLength \in Nat
  /\ None \notin Task /\ DestOf \in [Task -> Dest] /\ Checked \subseteq Task
BY BatchAssumption DEF MaxLength, None, Task

LEMMA FiniteTasks == \A S \in SUBSET Task : IsFiniteSet(S) /\ Cardinality(S) \in Nat
<1>1. IsFiniteSet(Task)
  BY Sizes, FS_Interval DEF Task
<1> QED BY <1>1, FS_Subset, FS_CardinalityType

(* A set of tasks that gains or loses one.                                 *)
LEMMA OneTask ==
  ASSUME NEW S \in SUBSET Task, NEW t \in Task
  PROVE  /\ Cardinality(S \cup {t}) = IF t \in S THEN Cardinality(S) ELSE Cardinality(S) + 1
         /\ Cardinality(S \ {t}) = IF t \in S THEN Cardinality(S) - 1 ELSE Cardinality(S)
BY FiniteTasks, FS_AddElement, FS_RemoveElement

LEMMA Fewer ==
  ASSUME NEW S \in SUBSET Task, NEW T \in SUBSET S
  PROVE  Cardinality(T) <= Cardinality(S)
BY FiniteTasks, FS_Subset

(* A fault that is left pays for the one task it hurts, and without a      *)
(* fault no task is hurt.                                                  *)
LEMMA FaultPays ==
  ASSUME Typed, Charged, NEW t \in Task,
         \/ faults' = faults /\ Hurts' \subseteq Hurts
         \/ Fault /\ Hurts' \subseteq Hurts \cup {t}
  PROVE  Charged'
<1>1. Hurts \subseteq Task /\ Hurts' \subseteq Task
  BY DEF Hurts
<1>2. /\ Cardinality(Hurts) \in Nat /\ Cardinality(Hurts') \in Nat
      /\ Cardinality(Hurts \cup {t}) \in Nat
  BY <1>1, FiniteTasks
<1>3. CASE faults' = faults /\ Hurts' \subseteq Hurts
  <2>1. Cardinality(Hurts') <= Cardinality(Hurts)
    BY <1>1, <1>3, Fewer
  <2> QED BY <1>2, <1>3, <2>1, Sizes DEF Charged, Typed
<1>4. CASE Fault /\ Hurts' \subseteq Hurts \cup {t}
  <2>1. Cardinality(Hurts') <= Cardinality(Hurts \cup {t})
    BY <1>1, <1>4, Fewer
  <2>2. Cardinality(Hurts \cup {t}) <= Cardinality(Hurts) + 1
    <3>1. Hurts \in SUBSET Task
      BY <1>1
    <3>2. Cardinality(Hurts \cup {t}) =
            IF t \in Hurts THEN Cardinality(Hurts) ELSE Cardinality(Hurts) + 1
      BY <3>1, OneTask
    <3> HIDE DEF Hurts
    <3> QED BY <1>2, <3>2
  <2>3. faults \in Int /\ MaxFaults \in Int /\ faults' = faults - 1
    BY <1>4, Sizes DEF Typed, Fault
  <2>4. Cardinality(Hurts) <= MaxFaults - faults
    BY DEF Charged
  <2> QED BY <1>2, <2>1, <2>2, <2>3, <2>4 DEF Charged
<1> QED BY <1>3, <1>4

(* What a step of u leaves alone for a task with a destination of its own. *)
Untouched(t) ==
  /\ stage'[t] = stage[t] /\ tries'[t] = tries[t] /\ fetched'[t] = fetched[t] /\ at'[t] = at[t]
  /\ handle'[t] = handle[t] /\ answer'[t] = answer[t] /\ content'[t] = content[t]
  /\ temp'[DestOf[t]] = temp[DestOf[t]] /\ dest'[DestOf[t]] = dest[DestOf[t]]

LEMMA OthersKeep ==
  ASSUME Sound, NEW u \in Task,
         \A t \in Task \ {u} : Alone(t) => Untouched(t),
         Alone(u) => Private(u)',
         Fault \/ (faults' = faults /\ (Alone(u) /\ Hurt(u)' => Hurt(u)))
  PROVE  Alones' /\ Charged'
<1>1. ASSUME NEW t \in Task \ {u}, Alone(t) PROVE Private(t)' /\ (Hurt(t)' => Hurt(t))
  <2>1. Private(t) /\ Untouched(t)
    BY <1>1 DEF Sound, Alones
  <2> QED BY <2>1 DEF Private, Untouched, Hurt, Clean
<1>2. \A t \in Task : Alone(t)' <=> Alone(t)
  BY DEF Alone
<1>3. Alones'
  BY <1>1, <1>2 DEF Alones
<1>4. Hurts' \subseteq Hurts \cup {u}
  BY <1>1, <1>2 DEF Hurts
<1>5. ASSUME Alone(u) /\ Hurt(u)' => Hurt(u) PROVE Hurts' \subseteq Hurts
  BY <1>1, <1>2, <1>5 DEF Hurts
<1>6. Charged'
  BY <1>4, <1>5, FaultPays DEF Sound
<1> QED BY <1>3, <1>6

-----------------------------------------------------------------------------
(* What each step of a task does, and to whom.                             *)
LEMMA JoinKeeps ==
  ASSUME Sound, NEW u \in Task, Join(u) PROVE Sound'
<1> USE Sizes DEF batch, tasks, names
<1>1. out' \in Seq(Result)
  <2>1. [task |-> u, ok |-> answer[u].ok, size |-> answer[u].size] \in Result
    BY DEF Sound, Typed, Result
  <2> QED BY <2>1 DEF Sound, Typed, Join
<1>2. Typed'
  <2>1. stage' \in [Task -> Stages]
    BY DEF Sound, Typed, Join, Stages, Over
  <2> QED BY <1>1, <2>1 DEF Sound, Typed, Join
<1>3. Lengths' /\ OwnFiles'
  BY DEF Sound, Typed, Lengths, OwnFiles, Join, Over
<1>4. UnderWay' = UnderWay
  BY DEF Sound, Typed, Join, UnderWay
<1>5. Permits'
  BY <1>4 DEF Sound, Typed, Permits, Join
<1>6. \A t \in Task \ {u} : Alone(t) => Untouched(t)
  BY DEF Sound, Typed, Join, Untouched
<1>7. Alone(u) => Private(u)'
  BY DEF Sound, Typed, Alones, Private, Join, Over
<1>8. faults' = faults /\ (Hurt(u)' => Hurt(u))
  BY DEF Sound, Typed, Hurt, Join, Over
<1> QED BY <1>2, <1>3, <1>5, <1>6, <1>7, <1>8, OthersKeep DEF Sound

(* EndWith: the permit goes back, and the limit holds.                     *)
LEMMA EndingKeeps ==
  ASSUME Sound, NEW u \in Task, NEW a \in [ok : BOOLEAN, size : 0 .. Pieces],
         stage[u] \notin Over \cup {"waiting"}, EndWith(u, a), UNCHANGED next
  PROVE  /\ permits' \in 0 .. Limit /\ Permits'
         /\ stage' \in [Task -> Stages] /\ stage'[u] = "ended"
         /\ answer' \in [Task -> [ok : BOOLEAN, size : 0 .. Pieces]] /\ answer'[u] = a
         /\ \A t \in Task \ {u} : stage'[t] = stage[t] /\ answer'[t] = answer[t]
<1>1. /\ stage' \in [Task -> Stages] /\ stage'[u] = "ended"
      /\ answer' \in [Task -> [ok : BOOLEAN, size : 0 .. Pieces]] /\ answer'[u] = a
      /\ \A t \in Task \ {u} : stage'[t] = stage[t] /\ answer'[t] = answer[t]
  BY DEF Sound, Typed, EndWith, Stages, Over
<1>2. UnderWay' = UnderWay \ {u} /\ u \in UnderWay /\ UnderWay \subseteq Task
  BY <1>1 DEF UnderWay, Over
<1>3. Cardinality(UnderWay') = Cardinality(UnderWay) - 1
  <2> HIDE DEF UnderWay
  <2>1. Cardinality(UnderWay \ {u}) = IF u \in UnderWay THEN Cardinality(UnderWay) - 1 ELSE Cardinality(UnderWay)
    BY <1>2, OneTask
  <2> QED BY <1>2, <2>1
<1>4. Cardinality(UnderWay) \in Nat /\ Cardinality(UnderWay') \in Nat
  BY <1>2, FiniteTasks
<1>5. permits + Cardinality(UnderWay) = Limit /\ permits' = permits + 1 /\ permits \in Nat
  BY Sizes DEF Sound, Typed, Permits, EndWith
<1>6. permits' \in 0 .. Limit /\ permits' + Cardinality(UnderWay') = Limit
  BY <1>3, <1>4, <1>5, Sizes
<1>7. \A t \in Task : stage'[t] = "waiting" <=> t >= next
  BY <1>1 DEF Sound, Permits, Over
<1> QED BY <1>1, <1>6, <1>7 DEF Permits

(* Go: another stage, and still under way.                                 *)
LEMMA GoingKeeps ==
  ASSUME Sound, NEW u \in Task, NEW s \in Stages \ (Over \cup {"waiting"}),
         stage[u] \notin Over \cup {"waiting"}, Go(u, s), UNCHANGED next
  PROVE  /\ permits' \in 0 .. Limit /\ Permits'
         /\ stage' \in [Task -> Stages] /\ stage'[u] = s
         /\ \A t \in Task \ {u} : stage'[t] = stage[t]
<1>1. /\ stage' \in [Task -> Stages] /\ stage'[u] = s
      /\ \A t \in Task \ {u} : stage'[t] = stage[t]
  BY DEF Sound, Typed, Go
<1>2. UnderWay' = UnderWay
  BY <1>1 DEF UnderWay, Over, Stages
<1> QED BY <1>1, <1>2 DEF Sound, Typed, Permits, Go, Over

LEMMA FailedFits == Failed \in [ok : BOOLEAN, size : 0 .. Pieces] /\ Failed.ok = FALSE
BY Sizes DEF Failed

LEMMA ResolveKeeps ==
  ASSUME Sound, NEW u \in Task, Resolve(u) PROVE Sound'
<1> USE Sizes DEF batch, names
<1>1. CASE Go(u, "open") /\ UNCHANGED faults
  <2>1. /\ permits' \in 0 .. Limit /\ Permits'
        /\ stage' \in [Task -> Stages] /\ stage'[u] = "open"
        /\ \A t \in Task \ {u} : stage'[t] = stage[t]
    BY <1>1, GoingKeeps DEF Resolve, Stages, Over
  <2>2. Typed'
    BY <1>1, <2>1 DEF Sound, Typed, Resolve, Go
  <2>3. Lengths' /\ OwnFiles'
    BY <2>1 DEF Sound, Lengths, OwnFiles, Resolve, Over
  <2>4. \A t \in Task \ {u} : Untouched(t)
    BY <1>1, <2>1 DEF Resolve, Go, Untouched
  <2>5. Alone(u) => Private(u)'
    BY <1>1, <2>1 DEF Sound, Alones, Private, Resolve, Go, Over
  <2>6. ~Hurt(u)'
    BY <2>1 DEF Hurt, Over
  <2> QED BY <1>1, <2>1, <2>2, <2>3, <2>4, <2>5, <2>6, OthersKeep DEF Sound
<1>2. CASE Fault /\ EndWith(u, Failed)
  <2>1. /\ permits' \in 0 .. Limit /\ Permits'
        /\ stage' \in [Task -> Stages] /\ stage'[u] = "ended"
        /\ answer' \in [Task -> [ok : BOOLEAN, size : 0 .. Pieces]] /\ answer'[u] = Failed
        /\ \A t \in Task \ {u} : stage'[t] = stage[t] /\ answer'[t] = answer[t]
    BY <1>2, EndingKeeps, FailedFits DEF Resolve, Over
  <2>2. Typed'
    BY <1>2, <2>1 DEF Sound, Typed, Resolve, Fault
  <2>3. Lengths' /\ OwnFiles'
    BY <2>1 DEF Sound, Lengths, OwnFiles, Resolve, Over
  <2>4. \A t \in Task \ {u} : Untouched(t)
    BY <2>1 DEF Resolve, Untouched
  <2>5. Private(u)'
    BY <2>1, FailedFits DEF Private, Over
  <2> QED BY <1>2, <2>1, <2>2, <2>3, <2>4, <2>5, OthersKeep DEF Sound
<1> QED BY <1>1, <1>2 DEF Resolve

LEMMA OpenKeeps ==
  ASSUME Sound, NEW u \in Task, Open(u) PROVE Sound'
<1> USE Sizes DEF batch
<1> DEFINE d == DestOf[u]
           f == IF temp[d] = None THEN u ELSE temp[d]
<1>1. d \in Dest /\ f \in Task /\ f # None /\ DestOf[f] = d
  BY DEF Sound, Typed, OwnFiles
<1>2. /\ stage[u] = "open" /\ Go(u, "fetch")
      /\ temp' = [temp EXCEPT ![d] = f] /\ handle' = [handle EXCEPT ![u] = f]
      /\ content' = [content EXCEPT ![f] = <<>>]
      /\ UNCHANGED <<next, out, tries, fetched, at, dest, faults>>
  BY DEF Open
<1> HIDE DEF d, f
<1>3. /\ permits' \in 0 .. Limit /\ Permits'
      /\ stage' \in [Task -> Stages] /\ stage'[u] = "fetch"
      /\ \A t \in Task \ {u} : stage'[t] = stage[t]
  BY <1>2, GoingKeeps DEF Stages, Over
<1>4. /\ content' \in [Task -> Seq(Piece)] /\ content'[f] = <<>>
      /\ \A g \in Task \ {f} : content'[g] = content[g]
      /\ temp' \in [Dest -> {None} \cup Task] /\ temp'[d] = f
      /\ handle' \in [Task -> {None} \cup Task] /\ handle'[u] = f
  BY <1>1, <1>2 DEF Sound, Typed
<1>5. Typed'
  BY <1>2, <1>3, <1>4 DEF Sound, Typed, Go
<1>6. Lengths'
  <2>1. \A g \in Task : Len(content'[g]) <= MaxLength
    <3>1. Len(content'[f]) = 0
      BY <1>4
    <3>2. \A g \in Task \ {f} : Len(content'[g]) <= MaxLength
      BY <1>4 DEF Sound, Lengths
    <3> QED BY <3>1, <3>2
  <2> QED BY <1>2, <1>3, <2>1 DEF Sound, Lengths, Over
<1>7. OwnFiles'
  BY <1>1, <1>2, <1>4 DEF Sound, Typed, OwnFiles, d
<1>8. ASSUME NEW t \in Task \ {u}, Alone(t) PROVE Untouched(t)
  <2>1. DestOf[t] # d /\ t # f
    BY <1>1, <1>8 DEF Alone, d
  <2>2. temp'[DestOf[t]] = temp[DestOf[t]] /\ handle'[t] = handle[t] /\ content'[t] = content[t]
    BY <1>1, <1>2, <1>4, <2>1 DEF Sound, Typed
  <2> QED BY <1>2, <1>3, <2>2 DEF Untouched, Go
<1>9. Alone(u) => Private(u)' /\ ~Hurt(u)'
  <2> SUFFICES ASSUME Alone(u) PROVE Private(u)' /\ ~Hurt(u)'
    OBVIOUS
  <2>1. Private(u)
    BY DEF Sound, Alones
  <2>2. temp[DestOf[u]] = None /\ tries[u] = 0 /\ fetched[u] = 0 /\ at[u] = 0 /\ f = u /\ ~answer[u].ok
    BY <1>2, <2>1 DEF Private, f, d, Over
  <2>3. content'[u] = [i \in 1 .. fetched'[u] |-> i]
    <3>1. fetched'[u] = 0 /\ content'[u] = <<>>
      BY <1>2, <1>4, <2>2
    <3> QED BY <3>1
  <2>4. Clean(u)'
    BY <1>2, <2>2, <2>3 DEF Clean
  <2>5. Private(u)'
    BY <1>2, <1>3, <1>4, <2>2 DEF Private, Go, Over, d
  <2> QED BY <1>3, <2>4, <2>5 DEF Hurt, Over
<1>10. faults' = faults
  BY <1>2
<1> QED BY <1>3, <1>5, <1>6, <1>7, <1>8, <1>9, <1>10, OthersKeep DEF Sound

(* A write where the handle stands, and the length it leaves.              *)
LEMMA WriteFits ==
  ASSUME NEW s \in Seq(Piece), NEW pos \in Nat, NEW p \in Piece,
         pos < MaxLength, Len(s) <= MaxLength
  PROVE  WriteAt(s, pos, p) \in Seq(Piece) /\ Len(WriteAt(s, pos, p)) <= MaxLength
<1> DEFINE n == IF Len(s) > pos THEN Len(s) ELSE pos + 1
           e == [i \in 1 .. n |-> IF i = pos + 1 THEN p ELSE IF i <= Len(s) THEN s[i] ELSE Bad]
<1>1. n \in Nat /\ n <= MaxLength /\ Bad \in Piece
  BY Sizes DEF Piece
<1>2. ASSUME NEW i \in 1 .. n PROVE e[i] \in Piece
  BY <1>1, <1>2
<1>3. e \in Seq(Piece) /\ Len(e) = n
  BY <1>1, <1>2
<1> QED BY <1>1, <1>3 DEF WriteAt

LEMMA WriteExtends ==
  ASSUME NEW n \in Nat
  PROVE  WriteAt([i \in 1 .. n |-> i], n, n + 1) = [i \in 1 .. n + 1 |-> i]
<1> DEFINE s == [i \in 1 .. n |-> i]
<1>1. Len(s) = n
  OBVIOUS
<1>2. WriteAt(s, n, n + 1)
        = [i \in 1 .. n + 1 |-> IF i = n + 1 THEN n + 1 ELSE IF i <= n THEN s[i] ELSE Bad]
  BY <1>1 DEF WriteAt
<1>3. \A i \in 1 .. n + 1 :
        (IF i = n + 1 THEN n + 1 ELSE IF i <= n THEN s[i] ELSE Bad) = i
  OBVIOUS
<1> QED BY <1>2, <1>3

(* One more piece: the handle stands within the bodies tried so far.       *)
LEMMA ReceiveKeeps ==
  ASSUME Sound, NEW u \in Task, Receive(u) PROVE Sound'
<1> USE Sizes DEF batch, names
<1>1. PICK piece \in {fetched[u] + 1, Bad} :
        /\ IF piece = Bad THEN Fault ELSE UNCHANGED faults
        /\ content' = [content EXCEPT ![handle[u]] = WriteAt(@, at[u], piece)]
  BY DEF Receive
<1>2. /\ stage[u] = "fetch" /\ fetched[u] < Pieces
      /\ fetched' = [fetched EXCEPT ![u] = @ + 1] /\ at' = [at EXCEPT ![u] = @ + 1]
      /\ UNCHANGED <<next, out, permits, stage, tries, handle, answer, temp, dest>>
  BY DEF Receive
<1>3. /\ fetched[u] \in Nat /\ at[u] \in Nat /\ tries[u] \in Nat /\ handle[u] \in {None} \cup Task
      /\ fetched[u] + 1 \in 1 .. Pieces /\ piece \in Piece
  BY <1>2 DEF Sound, Typed, Piece
<1>4. at[u] + 1 <= tries[u] * Pieces + (fetched[u] + 1) /\ at[u] < MaxLength
  <2>1. at[u] <= tries[u] * Pieces + fetched[u] /\ tries[u] <= MaxRetries
    BY <1>2 DEF Sound, Lengths, Over
  <2>2. tries[u] * Pieces \in Nat /\ MaxRetries * Pieces \in Nat
    BY <1>3
  <2>3. tries[u] * Pieces <= MaxRetries * Pieces
    <3>1. PICK k \in Nat : MaxRetries = tries[u] + k
      <4>1. MaxRetries - tries[u] \in Nat /\ MaxRetries = tries[u] + (MaxRetries - tries[u])
        BY <1>3, <2>1
      <4> QED BY <4>1
    <3>2. (tries[u] + k) * Pieces = tries[u] * Pieces + k * Pieces /\ k * Pieces \in Nat
      BY <1>3, <3>1
    <3> QED BY <2>2, <3>1, <3>2
  <2>4. MaxLength = MaxRetries * Pieces + Pieces
    BY DEF MaxLength
  <2> QED BY <1>2, <1>3, <2>1, <2>2, <2>3, <2>4
<1>5. ASSUME NEW g \in Task
      PROVE  /\ content'[g] \in Seq(Piece) /\ Len(content'[g]) <= MaxLength
             /\ g # handle[u] => content'[g] = content[g]
  <2>1. content[g] \in Seq(Piece) /\ Len(content[g]) <= MaxLength
    BY DEF Sound, Typed, Lengths
  <2>2. content'[g] = IF g = handle[u] THEN WriteAt(content[g], at[u], piece) ELSE content[g]
    BY <1>1 DEF Sound, Typed
  <2> QED BY <1>3, <1>4, <2>1, <2>2, WriteFits
<1>6. content' \in [Task -> Seq(Piece)] /\ faults' \in 0 .. MaxFaults
  <2>1. content' = [g \in Task |-> content'[g]]
    BY <1>1 DEF Sound, Typed
  <2>2. content' \in [Task -> Seq(Piece)]
    BY <1>5, <2>1
  <2>3. faults' \in 0 .. MaxFaults
    BY <1>1 DEF Sound, Typed, Fault
  <2> QED BY <2>2, <2>3
<1>7. /\ fetched' \in [Task -> 0 .. Pieces] /\ at' \in [Task -> 0 .. MaxLength]
      /\ fetched'[u] = fetched[u] + 1 /\ at'[u] = at[u] + 1
      /\ \A t \in Task \ {u} : fetched'[t] = fetched[t] /\ at'[t] = at[t]
  <2>1. at[u] + 1 \in 0 .. MaxLength /\ fetched[u] + 1 \in 0 .. Pieces
    BY <1>3, <1>4
  <2> QED BY <1>2, <2>1 DEF Sound, Typed
<1>8. Typed' /\ Lengths'
  <2>1. Typed'
    BY <1>2, <1>6, <1>7 DEF Sound, Typed
  <2>2. ASSUME NEW t \in Task
        PROVE  /\ at'[t] <= tries'[t] * Pieces + fetched'[t]
               /\ stage'[t] \notin Over => tries'[t] <= MaxRetries
    <3>1. CASE t = u
      BY <1>2, <1>4, <1>7, <3>1 DEF Sound, Lengths
    <3>2. CASE t # u
      BY <1>2, <1>7, <3>2 DEF Sound, Lengths
    <3> QED BY <3>1, <3>2
  <2> QED BY <1>5, <2>1, <2>2 DEF Lengths
<1>9. Permits' /\ OwnFiles'
  <2>1. UnderWay' = UnderWay
    BY <1>2 DEF UnderWay
  <2> QED BY <1>2, <2>1 DEF Sound, Permits, OwnFiles
<1>10. ASSUME NEW t \in Task \ {u}, Alone(t) PROVE Untouched(t)
  <2>1. t # handle[u]
    BY <1>3, <1>10 DEF Sound, OwnFiles, Alone
  <2> QED BY <1>2, <1>5, <2>1 DEF Sound, Typed, Untouched
<1>11. Alone(u) => Private(u)'
  <2> SUFFICES ASSUME Alone(u) PROVE Private(u)'
    OBVIOUS
  <2>1. Private(u)
    BY DEF Sound, Alones
  <2> QED BY <1>2, <2>1 DEF Private, Over
<1>12. ASSUME Alone(u), Hurt(u)', piece # Bad PROVE Hurt(u)
  <2>1. handle[u] = u
    BY <1>2, <1>12 DEF Sound, Alones, Private
  <2> SUFFICES ASSUME Clean(u) PROVE Clean(u)'
    BY <1>2, <1>12 DEF Hurt, Over
  <2>2. /\ tries'[u] = 0 /\ at'[u] = fetched'[u] /\ fetched'[u] = fetched[u] + 1 /\ at[u] = fetched[u]
        /\ content[u] = [i \in 1 .. fetched[u] |-> i] /\ piece = fetched[u] + 1
    BY <1>2, <1>12 DEF Clean, Sound, Typed
  <2>3. content'[u] = WriteAt(content[u], at[u], piece)
    BY <1>1, <2>1 DEF Sound, Typed
  <2>4. content'[u] = [i \in 1 .. fetched[u] + 1 |-> i]
    BY <1>3, <2>2, <2>3, WriteExtends
  <2> QED BY <2>2, <2>4 DEF Clean
<1>13. Fault \/ (faults' = faults /\ (Alone(u) /\ Hurt(u)' => Hurt(u)))
  BY <1>1, <1>12
<1> QED BY <1>8, <1>9, <1>10, <1>11, <1>13, OthersKeep DEF Sound

(* A fetch fails, and the handle stays where it stands.                    *)
LEMMA FetchFailsKeeps ==
  ASSUME Sound, NEW u \in Task, FetchFails(u) PROVE Sound'
<1> USE Sizes DEF batch, names
<1>1. /\ stage[u] = "fetch" /\ Fault
      /\ tries' = [tries EXCEPT ![u] = @ + 1] /\ fetched' = [fetched EXCEPT ![u] = 0]
      /\ IF tries'[u] > MaxRetries THEN EndWith(u, Failed) ELSE Go(u, "fetch")
      /\ UNCHANGED <<next, out, at, handle, temp, dest, content>>
  BY DEF FetchFails
<1>2. /\ tries[u] \in Nat /\ tries[u] <= MaxRetries /\ fetched[u] \in 0 .. Pieces
      /\ at[u] <= tries[u] * Pieces + fetched[u] /\ at[u] \in Nat
  <2>1. tries[u] \in Nat /\ fetched[u] \in 0 .. Pieces /\ at[u] \in Nat
    BY DEF Sound, Typed
  <2>2. tries[u] <= MaxRetries /\ at[u] <= tries[u] * Pieces + fetched[u]
    BY <1>1 DEF Sound, Lengths, Over
  <2> QED BY <2>1, <2>2
<1>3. /\ tries' \in [Task -> 0 .. MaxRetries + 1] /\ fetched' \in [Task -> 0 .. Pieces]
      /\ tries'[u] = tries[u] + 1 /\ fetched'[u] = 0
      /\ \A t \in Task \ {u} : tries'[t] = tries[t] /\ fetched'[t] = fetched[t]
  BY <1>1, <1>2 DEF Sound, Typed
<1>4. /\ permits' \in 0 .. Limit /\ Permits' /\ stage' \in [Task -> Stages]
      /\ answer' \in [Task -> [ok : BOOLEAN, size : 0 .. Pieces]]
      /\ \A t \in Task \ {u} : stage'[t] = stage[t] /\ answer'[t] = answer[t]
      /\ \/ stage'[u] = "fetch" /\ answer'[u] = answer[u] /\ tries'[u] <= MaxRetries
         \/ stage'[u] = "ended" /\ answer'[u] = Failed
  <2>1. CASE tries'[u] > MaxRetries
    BY <1>1, <2>1, EndingKeeps, FailedFits DEF Over
  <2>2. CASE ~(tries'[u] > MaxRetries)
    <3>1. Go(u, "fetch")
      BY <1>1, <2>2
    <3>2. /\ permits' \in 0 .. Limit /\ Permits'
          /\ stage' \in [Task -> Stages] /\ stage'[u] = "fetch"
          /\ \A t \in Task \ {u} : stage'[t] = stage[t]
      BY <1>1, <3>1, GoingKeeps DEF Stages, Over
    <3>3. tries'[u] <= MaxRetries
      BY <1>2, <1>3, <2>2
    <3> QED BY <3>1, <3>2, <3>3 DEF Go, Sound, Typed
  <2> QED BY <2>1, <2>2
<1>5. faults' \in 0 .. MaxFaults
  BY <1>1 DEF Sound, Typed, Fault
<1>6. Typed'
  BY <1>1, <1>3, <1>4, <1>5 DEF Sound, Typed
<1>7. Lengths'
  <2>1. at'[u] <= tries'[u] * Pieces + fetched'[u]
    <3>1. (tries[u] + 1) * Pieces = tries[u] * Pieces + Pieces /\ tries[u] * Pieces \in Nat
      BY <1>2
    <3> QED BY <1>1, <1>2, <1>3, <3>1
  <2>2. stage'[u] \notin Over => tries'[u] <= MaxRetries
    BY <1>4 DEF Over
  <2>3. ASSUME NEW t \in Task \ {u}
        PROVE  /\ at'[t] <= tries'[t] * Pieces + fetched'[t]
               /\ stage'[t] \notin Over => tries'[t] <= MaxRetries
    BY <1>1, <1>3, <1>4 DEF Sound, Lengths
  <2>4. \A f \in Task : Len(content'[f]) <= MaxLength
    BY <1>1 DEF Sound, Lengths
  <2> QED BY <2>1, <2>2, <2>3, <2>4 DEF Lengths
<1>8. OwnFiles'
  BY <1>1 DEF Sound, OwnFiles
<1>9. \A t \in Task \ {u} : Untouched(t)
  BY <1>1, <1>3, <1>4 DEF Untouched
<1>10. Alone(u) => Private(u)'
  BY <1>1, <1>4, FailedFits DEF Sound, Alones, Private, Over
<1> QED BY <1>1, <1>4, <1>6, <1>7, <1>8, <1>9, <1>10, OthersKeep DEF Sound

LEMMA FetchEndsKeeps ==
  ASSUME Sound, NEW u \in Task, FetchEnds(u) PROVE Sound'
<1> USE Sizes DEF batch, names
<1>1. /\ stage[u] = "fetch" /\ fetched[u] = Pieces /\ Go(u, "verify")
      /\ handle' = [handle EXCEPT ![u] = None]
      /\ UNCHANGED <<next, out, tries, fetched, at, temp, dest, content, faults>>
  BY DEF FetchEnds
<1>2. /\ permits' \in 0 .. Limit /\ Permits'
      /\ stage' \in [Task -> Stages] /\ stage'[u] = "verify"
      /\ \A t \in Task \ {u} : stage'[t] = stage[t]
  BY <1>1, GoingKeeps DEF Stages, Over
<1>3. Typed'
  BY <1>1, <1>2 DEF Sound, Typed, Go
<1>4. Lengths' /\ OwnFiles'
  <2>1. OwnFiles'
    BY <1>1 DEF Sound, Typed, OwnFiles
  <2> QED BY <1>1, <1>2, <2>1 DEF Sound, Lengths, Over
<1>5. \A t \in Task \ {u} : Untouched(t)
  BY <1>1, <1>2 DEF Sound, Typed, Untouched, Go
<1>6. Alone(u) => Private(u)'
  BY <1>1, <1>2 DEF Sound, Alones, Private, Go, Over
<1>7. ASSUME Hurt(u)' PROVE Hurt(u)
  <2>1. content[u] # Body
    BY <1>1, <1>2, <1>7 DEF Hurt, Over
  <2>2. ~Clean(u)
    BY <1>1, <2>1 DEF Clean, Body
  <2> QED BY <1>1, <2>2 DEF Hurt
<1> QED BY <1>1, <1>2, <1>3, <1>4, <1>5, <1>6, <1>7, OthersKeep DEF Sound

LEMMA VerifyKeeps ==
  ASSUME Sound, NEW u \in Task, Verify(u) PROVE Sound'
<1> USE Sizes DEF batch, names
<1> DEFINE f == temp[DestOf[u]]
<1>1. /\ stage[u] = "verify"
      /\ UNCHANGED <<next, out, tries, fetched, at, handle, temp, dest, content, faults>>
      /\ \/ Go(u, "rename") /\ (u \in Checked => content[f] = Body)
         \/ EndWith(u, Failed) /\ (f = None \/ content[f] # Body)
  BY DEF Verify
<1>2. /\ permits' \in 0 .. Limit /\ Permits' /\ stage' \in [Task -> Stages]
      /\ answer' \in [Task -> [ok : BOOLEAN, size : 0 .. Pieces]]
      /\ \A t \in Task \ {u} : stage'[t] = stage[t] /\ answer'[t] = answer[t]
      /\ \/ stage'[u] = "rename" /\ answer'[u] = answer[u] /\ (u \in Checked => content[f] = Body)
         \/ stage'[u] = "ended" /\ answer'[u] = Failed /\ (f = None \/ content[f] # Body)
  <2>1. CASE Go(u, "rename")
    <3>1. /\ permits' \in 0 .. Limit /\ Permits'
          /\ stage' \in [Task -> Stages] /\ stage'[u] = "rename"
          /\ \A t \in Task \ {u} : stage'[t] = stage[t]
      BY <1>1, <2>1, GoingKeeps DEF Stages, Over
    <3>2. UNCHANGED answer
      BY <2>1 DEF Go
    <3>3. u \in Checked => content[f] = Body
      BY <1>1, <3>1, <2>1, EndingKeeps, FailedFits DEF Over
    <3> QED BY <3>1, <3>2, <3>3 DEF Sound, Typed
  <2>2. CASE EndWith(u, Failed) /\ (f = None \/ content[f] # Body)
    BY <1>1, <2>2, EndingKeeps, FailedFits DEF Over
  <2> QED BY <1>1, <2>1, <2>2
<1>3. Typed'
  BY <1>1, <1>2 DEF Sound, Typed
<1>4. Lengths' /\ OwnFiles'
  BY <1>1, <1>2 DEF Sound, Lengths, OwnFiles, Over
<1>5. \A t \in Task \ {u} : Untouched(t)
  BY <1>1, <1>2 DEF Untouched
<1>6. ASSUME Alone(u) PROVE Private(u)' /\ (Hurt(u)' => Hurt(u))
  <2>1. Private(u) /\ f = u /\ u # None
    BY <1>1, <1>6 DEF Sound, Alones, Private
  <2>2. Private(u)'
    BY <1>1, <1>2, <2>1, FailedFits DEF Private, Over
  <2>3. Hurt(u)' => Hurt(u)
    BY <1>1, <1>2, <2>1 DEF Hurt, Over
  <2> QED BY <2>2, <2>3
<1> QED BY <1>1, <1>2, <1>3, <1>4, <1>5, <1>6, OthersKeep DEF Sound

(* The file under the .part name, if there is one, is delivered.           *)
LEMMA RenameKeeps ==
  ASSUME Sound, NEW u \in Task, Rename(u) PROVE Sound'
<1> USE Sizes DEF batch, names
<1> DEFINE d == DestOf[u]
           a == IF temp[d] = None THEN Failed ELSE [ok |-> TRUE, size |-> Pieces]
<1>1. /\ stage[u] = "rename" /\ EndWith(u, a)
      /\ IF temp[d] = None
           THEN UNCHANGED <<temp, dest>>
           ELSE dest' = [dest EXCEPT ![d] = temp[d]] /\ temp' = [temp EXCEPT ![d] = None]
      /\ UNCHANGED <<next, out, tries, fetched, at, handle, content, faults>>
  BY DEF Rename
<1>2. a \in [ok : BOOLEAN, size : 0 .. Pieces] /\ (a.ok <=> temp[d] # None) /\ d \in Dest
  BY FailedFits
<1> HIDE DEF a
<1>3. /\ permits' \in 0 .. Limit /\ Permits'
      /\ stage' \in [Task -> Stages] /\ stage'[u] = "ended"
      /\ answer' \in [Task -> [ok : BOOLEAN, size : 0 .. Pieces]] /\ answer'[u] = a
      /\ \A t \in Task \ {u} : stage'[t] = stage[t] /\ answer'[t] = answer[t]
  BY <1>1, <1>2, EndingKeeps DEF Over
<1>4. /\ temp' \in [Dest -> {None} \cup Task] /\ dest' \in [Dest -> {None} \cup Task]
      /\ temp'[d] = None /\ (temp[d] # None => dest'[d] = temp[d])
      /\ temp[d] = None => dest'[d] = dest[d]
      /\ \A e \in Dest \ {d} : temp'[e] = temp[e] /\ dest'[e] = dest[e]
  BY <1>1, <1>2 DEF Sound, Typed
<1>5. Typed'
  BY <1>1, <1>3, <1>4 DEF Sound, Typed
<1>6. Lengths' /\ OwnFiles'
  <2>1. ASSUME NEW e \in Dest
        PROVE  /\ temp'[e] # None => DestOf[temp'[e]] = e
               /\ dest'[e] # None => DestOf[dest'[e]] = e
    <3>1. CASE e = d
      BY <1>2, <1>4, <3>1 DEF Sound, OwnFiles
    <3>2. CASE e # d
      BY <1>4, <3>2 DEF Sound, OwnFiles
    <3> QED BY <3>1, <3>2
  <2>2. OwnFiles'
    BY <1>1, <2>1 DEF Sound, OwnFiles
  <2> QED BY <1>1, <1>3, <2>2 DEF Sound, Lengths, Over
<1>7. ASSUME NEW t \in Task \ {u}, Alone(t) PROVE Untouched(t)
  <2>1. DestOf[t] \in Dest \ {d}
    BY <1>7 DEF Alone
  <2> QED BY <1>1, <1>3, <1>4, <2>1 DEF Untouched
<1>8. Alone(u) => Private(u)' /\ ~Hurt(u)'
  <2> SUFFICES ASSUME Alone(u) PROVE Private(u)' /\ ~Hurt(u)'
    OBVIOUS
  <2>1. Private(u) /\ temp[d] = u /\ u # None
    BY <1>1 DEF Sound, Alones, Private
  <2>2. a.ok /\ dest'[d] = u /\ (u \in Checked => content'[u] = Body)
    BY <1>1, <1>2, <1>4, <2>1 DEF Private
  <2> QED BY <1>3, <2>2 DEF Private, Hurt, Over
<1> QED BY <1>1, <1>3, <1>5, <1>6, <1>7, <1>8, OthersKeep DEF Sound

LEMMA EnqueueKeeps ==
  ASSUME Sound, Enqueue PROVE Sound'
<1> USE Sizes DEF names
<1>0. PICK u \in Task : u = next
  BY DEF Sound, Typed, Enqueue, Task
<1>1. /\ u \in Task /\ stage[u] = "waiting" /\ permits > 0
      /\ permits' = permits - 1 /\ stage' = [stage EXCEPT ![u] = "resolve"] /\ next' = next + 1
      /\ UNCHANGED <<out, tries, fetched, at, handle, answer, temp, dest, content, faults>>
  BY <1>0 DEF Sound, Typed, Permits, Enqueue, Task
<1>2. next \in Nat /\ next' \in 1 .. NumTasks + 1 /\ permits \in 0 .. Limit
  BY <1>0, <1>1 DEF Sound, Typed, Task
<1>3. /\ stage' \in [Task -> Stages] /\ stage'[u] = "resolve"
      /\ \A t \in Task \ {u} : stage'[t] = stage[t]
  BY <1>1 DEF Sound, Typed, Stages
<1>4. Typed'
  BY <1>1, <1>2, <1>3 DEF Sound, Typed
<1>5. Lengths' /\ OwnFiles'
  BY <1>1, <1>3 DEF Sound, Lengths, OwnFiles, Over
<1>6. Permits'
  <2>1. UnderWay' = UnderWay \cup {u} /\ u \notin UnderWay /\ UnderWay \subseteq Task
    BY <1>1, <1>3 DEF UnderWay
  <2>2. Cardinality(UnderWay') = Cardinality(UnderWay) + 1 /\ Cardinality(UnderWay) \in Nat
    <3> HIDE DEF UnderWay
    <3>1. UnderWay \in SUBSET Task
      BY <2>1
    <3>2. Cardinality(UnderWay \cup {u}) = IF u \in UnderWay THEN Cardinality(UnderWay) ELSE Cardinality(UnderWay) + 1
      BY <1>1, <3>1, OneTask
    <3>3. Cardinality(UnderWay) \in Nat
      BY <3>1, FiniteTasks
    <3> QED BY <2>1, <3>2, <3>3
  <2>3. permits' + Cardinality(UnderWay') = Limit
    BY <1>1, <1>2, <2>2 DEF Sound, Permits
  <2>4. \A t \in Task : stage'[t] = "waiting" <=> t >= next'
    BY <1>0, <1>1, <1>2, <1>3 DEF Sound, Permits, Task
  <2> QED BY <2>3, <2>4 DEF Permits
<1>7. \A t \in Task \ {u} : Untouched(t)
  BY <1>1, <1>3 DEF Untouched
<1>8. Alone(u) => Private(u)' /\ ~Hurt(u)'
  BY <1>1, <1>3 DEF Sound, Alones, Private, Hurt, Over
<1> QED BY <1>1, <1>4, <1>5, <1>6, <1>7, <1>8, OthersKeep DEF Sound

-----------------------------------------------------------------------------
(* The limit, the wholeness of what was answered "ok" and the attribution  *)
(* of each refusal to a fault hold together in every reachable state.      *)
THEOREM BatchInvariant == Spec => []Sound
<1>1. Init => Sound
  <2> SUFFICES ASSUME Init PROVE Sound
    OBVIOUS
  <2> USE Sizes
  <2>1. Typed
    BY DEF Init, Typed, Stages, Failed, None
  <2>2. UnderWay = {} /\ Hurts = {}
    BY DEF Init, UnderWay, Hurts, Hurt, Over
  <2>3. Cardinality({}) = 0
    BY FS_EmptySet
  <2>4. Lengths
    BY DEF Init, Lengths, Over
  <2>5. Permits /\ Charged
    BY <2>2, <2>3 DEF Init, Permits, Charged, Task
  <2>6. OwnFiles /\ Alones
    BY DEF Init, OwnFiles, Alones, Private, Failed, None
  <2> QED BY <2>1, <2>4, <2>5, <2>6 DEF Sound
<1>2. Sound /\ [Next]_batchVars => Sound'
  <2> SUFFICES ASSUME Sound, [Next]_batchVars PROVE Sound'
    OBVIOUS
  <2>1. CASE UNCHANGED batchVars
    BY <2>1 DEF batchVars, batch, tasks, names, Sound, Typed, Lengths, Permits, OwnFiles, Alones,
                Charged, Private, Hurts, Hurt, Clean, UnderWay, Alone
  <2>2. CASE Enqueue
    BY <2>2, EnqueueKeeps
  <2>3. ASSUME NEW t \in Task, Join(t) \/ Step(t) \/ FetchFails(t) PROVE Sound'
    BY <2>3, JoinKeeps, ResolveKeeps, OpenKeeps, ReceiveKeeps, FetchFailsKeeps, FetchEndsKeeps,
       VerifyKeeps, RenameKeeps DEF Step
  <2> QED BY <2>1, <2>2, <2>3 DEF Next, Finished
<1> QED BY <1>1, <1>2, PTL DEF Spec

(* Of a batch of download_all_concurrent at any moment: no more files are  *)
(* in flight than max_batch_concurrency, a task with a destination of its  *)
(* own is refused only for a fault of its own, and a checksummed one that  *)
(* answered left the whole body.                                           *)
THEOREM BatchInvHolds == Spec => []BatchInv
<1>1. Sound => BatchInv
  <2> SUFFICES ASSUME Sound PROVE BatchInv
    OBVIOUS
  <2>1. TypeOK
    <3>1. ASSUME NEW f \in Task PROVE content[f] \in BoundedSeq({Bad} \cup 1 .. Pieces, MaxLength)
      <4>1. content[f] \in Seq(Piece) /\ Len(content[f]) \in 0 .. MaxLength
        <5>1. content[f] \in Seq(Piece) /\ Len(content[f]) \in Nat /\ Len(content[f]) <= MaxLength
          BY DEF Sound, Typed, Lengths
        <5> QED BY <5>1, Sizes
      <4>2. content[f] \in [1 .. Len(content[f]) -> Piece]
        BY <4>1
      <4> QED BY <4>1, <4>2 DEF BoundedSeq, SeqOf, Piece
    <3>2. \A i \in DOMAIN out : out[i] \in [task : Task, ok : BOOLEAN, size : 0 .. Pieces]
      <4>1. \A i \in DOMAIN out : out[i] \in Result
        BY DEF Sound, Typed
      <4> QED BY <4>1 DEF Result
    <3>3. stage \in [Task -> {"waiting", "resolve", "open", "fetch", "verify",
                               "rename", "ended", "joined"}]
      BY DEF Sound, Typed, Stages, Over
    <3> QED BY <3>1, <3>2, <3>3 DEF Sound, Typed, TypeOK
  <2>2. InFlightBounded
    <3>1. Cardinality(UnderWay) \in Nat
      BY FiniteTasks DEF UnderWay
    <3> QED BY <3>1, Sizes DEF Sound, Typed, Permits, InFlightBounded
  <2>3. FailuresAreTheirOwn
    <3> DEFINE refused == {t \in Task : /\ Alone(t) /\ stage[t] \in {"ended", "joined"}
                                         /\ ~answer[t].ok}
    <3>1. refused \in SUBSET Hurts /\ Hurts \in SUBSET Task
      BY DEF Hurts, Hurt, Over
    <3>2. Cardinality(refused) <= Cardinality(Hurts)
      <4> HIDE DEF refused
      <4> QED BY <3>1, Fewer
    <3>3. Cardinality(refused) \in Nat /\ Cardinality(Hurts) \in Nat
      <4>1. refused \in SUBSET Task
        OBVIOUS
      <4> HIDE DEF refused
      <4> QED BY <3>1, <4>1, FiniteTasks
    <3>4. Cardinality(Hurts) <= MaxFaults - faults /\ MaxFaults - faults \in Int
      BY Sizes DEF Sound, Charged, Typed
    <3>5. Cardinality(refused) <= MaxFaults - faults
      <4> HIDE DEF refused
      <4> QED BY <3>2, <3>3, <3>4
    <3> QED BY <3>5 DEF FailuresAreTheirOwn
  <2>4. OkIsWhole
    BY Sizes DEF Sound, Alones, Private, OkIsWhole
  <2> QED BY <2>1, <2>2, <2>3, <2>4 DEF BatchInv
<1> QED BY <1>1, BatchInvariant, PTL
================================================================================
