------------------------------- MODULE NetProofs --------------------------------
(***************************************************************************)
(* What holds of requests to the network, for all their bounds.            *)
(*                                                                         *)
(* NetCache: the retries stay within their budget, and the cache is served *)
(* and refused for the right reasons, for every number of callers,         *)
(* candidates, retries and attempts.                                       *)
(*                                                                         *)
(* NetworkClient: no candidate, measurement or upstream that might have    *)
(* helped is passed over, for every list of mirrors, protected hosts and   *)
(* upstreams and every number of concurrent calls.                         *)
(***************************************************************************)
EXTENDS NetCache, NetworkClient, SubsequenceLemmas, FiniteSetTheorems, TLAPS

-----------------------------------------------------------------------------
(* NetCache *)

(* One candidate takes at most PerCand requests, so that a call in its     *)
(* a-th attempt at candidate k with t failures sent no more than this.     *)
PerCand == MaxRetries + 1
SentBefore(a, k, t) == (a * NumCands + (k - 1)) * PerCand + t

Counted(p, l) ==
  /\ p = "request" => l.sent <= SentBefore(l.attempt, l.cand, l.tries)
  /\ p = "failed"  => l.sent <= SentBefore(l.attempt + 1, 1, 0)
  /\ p = Idle      => l = NoLocals
  /\ l.sent <= Budget

(* Only a request that met a transport error, or a broken body, ends with  *)
(* the error that degrades; a call that looks at the cache was told to, or *)
(* failed with that error.                                                 *)
WhyDegraded(p, l) ==
  /\ l.error = "Network" => ~(l.met \subseteq {"http"})
  /\ p \in {"contains", "get"} => l.offline \/ l.error = "Network"

NetInv ==
  /\ TypeOK
  /\ \A c \in Caller : Counted(phase[c], loc[c]) /\ WhyDegraded(phase[c], loc[c])

-----------------------------------------------------------------------------
(* Arithmetic of the budget. *)
Attempts == MaxOf(MaxAttempts, 1)

LEMMA Sizes ==
  /\ NumCands \in Nat \ {0} /\ MaxRetries \in Nat /\ MaxAttempts \in Nat
  /\ PerCand \in Nat /\ Attempts \in Nat /\ Attempts >= 1 /\ Attempts >= MaxAttempts
  /\ Budget = (Attempts * NumCands) * PerCand /\ Budget \in Nat
BY NetAssumption DEF PerCand, Attempts, Budget, MaxOf

LEMMA Grows ==
  ASSUME NEW x \in Nat, NEW y \in Nat, NEW z \in Nat, x <= y
  PROVE  x * z <= y * z
<1>1. PICK d \in Nat : y = x + d
  <2>1. y - x \in Nat /\ y = x + (y - x)
    OBVIOUS
  <2> QED BY <2>1
<1>2. y * z = x * z + d * z /\ d * z \in Nat /\ x * z \in Nat
  BY <1>1
<1> QED BY <1>2

LEMMA SentIsNat ==
  ASSUME NEW a \in Nat, NEW k \in 1 .. NumCands, NEW t \in Nat
  PROVE  SentBefore(a, k, t) \in Nat
<1>1. a * NumCands + (k - 1) \in Nat
  BY Sizes
<1> QED BY <1>1, Sizes DEF SentBefore

(* One more failure of the same candidate, of the candidate, and of all.   *)
LEMMA OneMore ==
  ASSUME NEW a \in Nat, NEW k \in 1 .. NumCands, NEW t \in 0 .. MaxRetries
  PROVE  /\ SentBefore(a, k, t) + 1 = SentBefore(a, k, t + 1)
         /\ k < NumCands => SentBefore(a, k, t) + 1 <= SentBefore(a, k + 1, 0)
         /\ SentBefore(a, k, t) + 1 <= SentBefore(a + 1, 1, 0)
<1> DEFINE n == a * NumCands
           x == n + (k - 1)
<1>1. n \in Nat /\ x \in Nat /\ t \in Nat
  BY Sizes
<1>2. (x + 1) * PerCand = x * PerCand + PerCand /\ x * PerCand \in Nat
  BY <1>1, Sizes
<1>3. SentBefore(a, k, t) = x * PerCand + t /\ SentBefore(a, k, t + 1) = x * PerCand + (t + 1)
  BY DEF SentBefore
<1>4. x * PerCand + t + 1 <= (x + 1) * PerCand
  BY <1>2, Sizes DEF PerCand
<1>5. k < NumCands => SentBefore(a, k + 1, 0) = (x + 1) * PerCand
  <2>1. n + ((k + 1) - 1) = x + 1
    BY <1>1
  <2>2. (x + 1) * PerCand \in Nat
    BY <1>1, Sizes
  <2> QED BY <2>1, <2>2 DEF SentBefore
<1>6. (a + 1) * NumCands = n + NumCands
  BY Sizes
<1>7. SentBefore(a + 1, 1, 0) = (n + NumCands) * PerCand
  <2>1. (n + NumCands) * PerCand \in Nat
    BY <1>1, Sizes
  <2> QED BY <1>6, <2>1, <1>1, Sizes DEF SentBefore
<1>8. (x + 1) * PerCand <= (n + NumCands) * PerCand
  <2>1. x + 1 \in Nat /\ n + NumCands \in Nat /\ x + 1 <= n + NumCands
    BY <1>1, Sizes
  <2> QED BY <2>1, Sizes, Grows
<1>9. (n + NumCands) * PerCand \in Nat /\ (x + 1) * PerCand \in Nat
  BY <1>1, Sizes
<1> HIDE DEF x, n
<1> QED BY <1>1, <1>2, <1>3, <1>4, <1>5, <1>7, <1>8, <1>9

(* What an attempt of the budget has sent is within the budget.            *)
LEMMA WithinBudget ==
  ASSUME NEW a \in 0 .. Attempts - 1
  PROVE  SentBefore(a + 1, 1, 0) <= Budget /\ SentBefore(a + 1, 1, 0) \in Nat
<1>1. a + 1 \in Nat /\ a + 1 <= Attempts
  BY Sizes
<1>2. (a + 1) * NumCands <= Attempts * NumCands /\ (a + 1) * NumCands \in Nat
      /\ Attempts * NumCands \in Nat
  BY <1>1, Grows, Sizes
<1>3. ((a + 1) * NumCands) * PerCand <= (Attempts * NumCands) * PerCand
  BY <1>2, Grows, Sizes
<1>4. ((a + 1) * NumCands) * PerCand \in Nat
  BY <1>2, Sizes
<1>5. SentBefore(a + 1, 1, 0) = ((a + 1) * NumCands) * PerCand
  <2> DEFINE m == (a + 1) * NumCands
  <2>1. m \in Nat /\ m * PerCand \in Nat
    BY <1>2, <1>4
  <2>2. SentBefore(a + 1, 1, 0) = (m + (1 - 1)) * PerCand + 0
    BY DEF SentBefore
  <2> HIDE DEF m
  <2>3. SentBefore(a + 1, 1, 0) = m * PerCand
    BY <2>1, <2>2
  <2> QED BY <2>3 DEF m
<1> QED BY <1>3, <1>4, <1>5, Sizes

-----------------------------------------------------------------------------
Phases  == {Idle, "request", "failed", "bin", "fillbin", "meta", "fillmeta", "contains", "get"}
Answers == {"none", "fresh", "cached", "torn", "refused", "offline"}

SharedTypeOK ==
  /\ answer \in [Caller -> Answers]
  /\ bin \in {"absent", "empty", "whole"} /\ meta \in {"absent", "empty", "whole"}
  /\ fetches \in 0 .. MaxFetches /\ crashes \in 0 .. MaxCrashes

(* A step of one caller disturbs nothing of another.                       *)
LEMMA OneCaller ==
  ASSUME NetInv, NEW c \in Caller, NEW p \in Phases, NEW l \in Locals,
         phase' = [phase EXCEPT ![c] = p], loc' = [loc EXCEPT ![c] = l],
         Counted(p, l), WhyDegraded(p, l), SharedTypeOK'
  PROVE  NetInv'
<1>1. phase \in [Caller -> Phases] /\ loc \in [Caller -> Locals]
  BY DEF NetInv, TypeOK, Phases
<1>2. TypeOK'
  BY <1>1 DEF TypeOK, SharedTypeOK, Phases, Answers
<1>3. ASSUME NEW d \in Caller
      PROVE  Counted(phase'[d], loc'[d]) /\ WhyDegraded(phase'[d], loc'[d])
  <2>1. CASE d = c
    <3>1. phase'[d] = p /\ loc'[d] = l
      BY <1>1, <2>1
    <3> QED BY <3>1
  <2>2. CASE d # c
    <3>1. phase'[d] = phase[d] /\ loc'[d] = loc[d]
      BY <1>1, <2>2
    <3> QED BY <3>1 DEF NetInv
  <2> QED BY <2>1, <2>2
<1>4. \A d \in Caller : Counted(phase[d], loc[d])' /\ WhyDegraded(phase[d], loc[d])'
  BY <1>3 DEF Counted, WhyDegraded
<1> QED BY <1>2, <1>4 DEF NetInv

LEMMA NoLocalsFine ==
  /\ NoLocals \in Locals
  /\ \A p \in Phases : Counted(p, NoLocals)
  /\ \A p \in Phases \ {"contains", "get"} : WhyDegraded(p, NoLocals)
<1>1. NoLocals \in Locals
  BY Sizes DEF NoLocals, Locals, Attempts
<1>2. 0 <= SentBefore(0, 1, 0) /\ 0 <= SentBefore(0 + 1, 1, 0)
  <2>1. 1 \in 1 .. NumCands
    BY Sizes
  <2>2. SentBefore(0, 1, 0) \in Nat /\ SentBefore(0 + 1, 1, 0) \in Nat
    BY <2>1, SentIsNat
  <2> QED BY <2>2
<1> QED BY <1>1, <1>2, Sizes DEF NoLocals, Counted, WhyDegraded

(* Of a caller in a state of the invariant. *)
LEMMA OfCaller ==
  ASSUME NetInv, NEW c \in Caller
  PROVE  /\ loc[c] \in Locals /\ Counted(phase[c], loc[c]) /\ WhyDegraded(phase[c], loc[c])
         /\ phase[c] \in Phases
         /\ phase \in [Caller -> Phases] /\ loc \in [Caller -> Locals] /\ SharedTypeOK
BY DEF NetInv, TypeOK, SharedTypeOK, Phases, Answers

-----------------------------------------------------------------------------
LEMMA BeginKeeps ==
  ASSUME NetInv, NEW c \in Caller, NEW off \in BOOLEAN, Begin(c, off)
  PROVE  NetInv'
<1> DEFINE p == IF off THEN "contains" ELSE "request"
           l == [NoLocals EXCEPT !.offline = off]
<1>1. loc[c] = NoLocals /\ SharedTypeOK /\ fetches - 1 \in 0 .. MaxFetches
  <2>1. SharedTypeOK /\ loc[c] = NoLocals
    BY OfCaller DEF Begin, Counted
  <2>2. fetches \in 0 .. MaxFetches /\ fetches > 0
    BY <2>1 DEF SharedTypeOK, Begin
  <2> QED BY <2>1, <2>2, NetAssumption
<1>2. p \in Phases /\ l \in Locals
  BY NoLocalsFine DEF Phases, Locals, NoLocals
<1>3. Counted(p, l)
  <2>1. l.sent = 0 /\ l.attempt = 0 /\ l.cand = 1 /\ l.tries = 0 /\ p # Idle /\ p # "failed"
    BY DEF NoLocals, Idle
  <2>2. 1 \in 1 .. NumCands
    BY Sizes
  <2>3. SentBefore(0, 1, 0) \in Nat
    BY <2>2, SentIsNat
  <2> HIDE DEF p, l
  <2> QED BY <2>1, <2>3, Sizes DEF Counted
<1>4. WhyDegraded(p, l)
  BY DEF NoLocals, WhyDegraded
<1>5. phase' = [phase EXCEPT ![c] = p] /\ loc' = [loc EXCEPT ![c] = l]
  <2>1. loc \in [Caller -> Locals]
    BY OfCaller
  <2> QED BY <1>1, <2>1 DEF Begin
<1>6. SharedTypeOK'
  <2>1. answer' = [answer EXCEPT ![c] = "none"]
    BY DEF Begin
  <2> QED BY <1>1, <2>1 DEF SharedTypeOK, Begin, disk, Answers
<1> HIDE DEF p, l
<1> QED BY <1>2, <1>3, <1>4, <1>5, <1>6, OneCaller

(* The locals after a request that met o: one more is sent.                *)
LEMMA MeetsOne ==
  ASSUME NEW l \in Locals, NEW o \in Outcomes, l.sent <= Budget
  PROVE  Meets(l, o) = [l EXCEPT !.met = @ \cup {o}, !.sent = l.sent + 1]
         /\ Meets(l, o) \in Locals
<1>1. l.sent \in Nat /\ l.sent + 1 \in 0 .. Budget + 1
  BY Sizes DEF Locals
<1>2. Meets(l, o) = [l EXCEPT !.met = @ \cup {o}, !.sent = l.sent + 1]
  <2>1. (IF l.sent > Budget THEN l.sent ELSE l.sent + 1) = l.sent + 1
    BY <1>1, Sizes
  <2> QED BY <2>1, Zenon DEF Meets
<1>3. l.met \cup {o} \in SUBSET Outcomes
  BY DEF Locals
<1>4. [l EXCEPT !.met = @ \cup {o}, !.sent = l.sent + 1] \in Locals
  BY <1>1, <1>3, Zenon DEF Locals
<1> QED BY <1>2, <1>4

(* Nothing that callers share changes in a request or a failed fetch, but  *)
(* for the answer.                                                         *)
LEMMA SharedStays ==
  ASSUME NetInv, NEW c \in Caller, NEW a \in Answers, UNCHANGED <<disk, fetches, crashes>>,
         UNCHANGED answer \/ answer' = [answer EXCEPT ![c] = a]
  PROVE  SharedTypeOK'
<1>1. SharedTypeOK
  BY OfCaller
<1> QED BY <1>1 DEF SharedTypeOK, disk, Answers

(* Giving a candidate up, after a request that met o.                      *)
LEMMA GiveUpKeeps ==
  ASSUME NetInv, NEW c \in Caller, phase[c] = "request",
         NEW o \in Outcomes, NEW e \in {"Network", "Download"}, e = "Network" => o = "down",
         GiveUp(c, Meets(loc[c], o), e), UNCHANGED <<disk, fetches, crashes>>
  PROVE  NetInv'
<1> DEFINE k == loc[c]
           m == Meets(k, o)
<1>1. /\ k \in Locals /\ Counted("request", k) /\ phase \in [Caller -> Phases]
      /\ phase[c] = "request"
  BY OfCaller
<1>2. /\ k.cand \in 1 .. NumCands /\ k.tries \in 0 .. MaxRetries
      /\ k.attempt \in 0 .. Attempts - 1 /\ k.attempt \in Nat /\ k.sent \in Nat
      /\ k.sent <= Budget /\ k.sent <= SentBefore(k.attempt, k.cand, k.tries)
  BY <1>1, Sizes DEF Locals, Attempts, Counted
<1>3. m = [k EXCEPT !.met = @ \cup {o}, !.sent = k.sent + 1] /\ m \in Locals
  BY <1>1, <1>2, MeetsOne
<1>4. SharedTypeOK'
  BY SharedStays DEF GiveUp, Go, Answers
<1>5. /\ SentBefore(k.attempt, k.cand, k.tries) \in Nat
      /\ SentBefore(k.attempt + 1, 1, 0) \in Nat /\ SentBefore(k.attempt + 1, 1, 0) <= Budget
      /\ SentBefore(k.attempt, k.cand, k.tries) + 1 <= SentBefore(k.attempt + 1, 1, 0)
      /\ k.cand < NumCands =>
           SentBefore(k.attempt, k.cand, k.tries) + 1 <= SentBefore(k.attempt, k.cand + 1, 0)
  <2> HIDE DEF k
  <2>1. SentBefore(k.attempt, k.cand, k.tries) \in Nat
    BY <1>2, SentIsNat
  <2>2. SentBefore(k.attempt + 1, 1, 0) \in Nat /\ SentBefore(k.attempt + 1, 1, 0) <= Budget
    BY <1>2, WithinBudget
  <2> QED BY <1>2, <2>1, <2>2, OneMore
<1>6. k.sent + 1 <= Budget /\ k.sent + 1 <= SentBefore(k.attempt + 1, 1, 0)
  BY <1>2, <1>5, Sizes
<1>7. CASE k.cand = NumCands
  <2> DEFINE l == [m EXCEPT !.error = e]
  <2>1. phase' = [phase EXCEPT ![c] = "failed"] /\ loc' = [loc EXCEPT ![c] = l]
    BY <1>3, <1>7 DEF GiveUp, Go
  <2>2. /\ l \in Locals /\ l.sent = k.sent + 1 /\ l.attempt = k.attempt
        /\ l.error = e /\ l.met = k.met \cup {o}
    BY <1>1, <1>3 DEF Locals
  <2> HIDE DEF l
  <2>3. Counted("failed", l)
    BY <1>6, <2>2 DEF Counted, Idle
  <2>4. WhyDegraded("failed", l)
    BY <2>2 DEF WhyDegraded
  <2>5. "failed" \in Phases
    BY DEF Phases
  <2> QED BY <1>4, <2>1, <2>2, <2>3, <2>4, <2>5, OneCaller
<1>8. CASE k.cand # NumCands
  <2> DEFINE l == [m EXCEPT !.error = e, !.tries = 0, !.cand = @ + 1]
  <2>1. UNCHANGED phase /\ loc' = [loc EXCEPT ![c] = l]
    BY <1>3, <1>8 DEF GiveUp
  <2>2. k.cand < NumCands /\ k.cand + 1 \in 1 .. NumCands
    BY <1>2, <1>8, Sizes
  <2>3. /\ l \in Locals /\ l.sent = k.sent + 1 /\ l.attempt = k.attempt
        /\ l.cand = k.cand + 1 /\ l.tries = 0
        /\ l.error = e /\ l.met = k.met \cup {o}
    <3> HIDE DEF m, k
    <3>1. m.cand + 1 \in 1 .. NumCands /\ 0 \in 0 .. MaxRetries /\ m.cand = k.cand
      BY <1>1, <1>3, <2>2, Sizes DEF Locals
    <3>2. l \in Locals
      BY <1>3, <3>1, Zenon DEF Locals
    <3>3. l.sent = m.sent /\ l.attempt = m.attempt /\ l.cand = m.cand + 1 /\ l.tries = 0
          /\ l.error = e /\ l.met = m.met
      BY <1>3 DEF Locals
    <3>4. m.sent = k.sent + 1 /\ m.attempt = k.attempt /\ m.met = k.met \cup {o}
      BY <1>1, <1>3 DEF Locals
    <3> QED BY <3>1, <3>2, <3>3, <3>4
  <2> HIDE DEF l
  <2>4. SentBefore(k.attempt, k.cand + 1, 0) \in Nat
    BY <1>2, <2>2, SentIsNat
  <2>5. Counted("request", l)
    BY <1>2, <1>5, <1>6, <2>2, <2>3, <2>4 DEF Counted, Idle
  <2>6. WhyDegraded("request", l)
    BY <2>3 DEF WhyDegraded
  <2>7. "request" \in Phases /\ phase' = [phase EXCEPT ![c] = "request"]
    BY <1>1, <2>1 DEF Phases
  <2> QED BY <1>4, <2>1, <2>3, <2>5, <2>6, <2>7, OneCaller
<1> QED BY <1>7, <1>8

-----------------------------------------------------------------------------
(* A call returns: nothing of it is left to constrain.                     *)
LEMMA AnswerKeeps ==
  ASSUME NetInv, NEW c \in Caller, NEW a \in Answers, Answer(c, a),
         SharedTypeOK'
  PROVE  NetInv'
<1>1. Idle \in Phases /\ Idle \notin {"contains", "get"}
  BY DEF Phases, Idle
<1> QED BY <1>1, NoLocalsFine, OneCaller DEF Answer

LEMMA RequestKeeps ==
  ASSUME NetInv, NEW c \in Caller, Request(c)
  PROVE  NetInv'
<1> DEFINE k == loc[c]
<1>1. /\ k \in Locals /\ Counted("request", k) /\ phase[c] = "request"
      /\ phase \in [Caller -> Phases] /\ loc \in [Caller -> Locals]
      /\ UNCHANGED <<disk, fetches, crashes>>
  BY OfCaller DEF Request
<1>2. /\ k.cand \in 1 .. NumCands /\ k.tries \in 0 .. MaxRetries
      /\ k.attempt \in 0 .. Attempts - 1 /\ k.attempt \in Nat /\ k.sent \in Nat
      /\ k.sent <= Budget /\ k.sent <= SentBefore(k.attempt, k.cand, k.tries)
  BY <1>1, Sizes DEF Locals, Attempts, Counted
<1>3. /\ SentBefore(k.attempt, k.cand, k.tries) \in Nat
      /\ SentBefore(k.attempt + 1, 1, 0) \in Nat /\ SentBefore(k.attempt + 1, 1, 0) <= Budget
      /\ SentBefore(k.attempt, k.cand, k.tries) + 1 <= SentBefore(k.attempt + 1, 1, 0)
      /\ SentBefore(k.attempt, k.cand, k.tries) + 1 = SentBefore(k.attempt, k.cand, k.tries + 1)
  <2> HIDE DEF k
  <2>1. SentBefore(k.attempt, k.cand, k.tries) \in Nat
    BY <1>2, SentIsNat
  <2>2. SentBefore(k.attempt + 1, 1, 0) \in Nat /\ SentBefore(k.attempt + 1, 1, 0) <= Budget
    BY <1>2, WithinBudget
  <2> QED BY <1>2, <2>1, <2>2, OneMore
<1>4. k.sent + 1 <= Budget /\ k.sent + 1 <= SentBefore(k.attempt + 1, 1, 0)
  BY <1>2, <1>3, Sizes
<1>5. CASE Responds(c)
  <2>1. /\ phase' = [phase EXCEPT ![c] = "bin"] /\ loc' = [loc EXCEPT ![c] = NoLocals]
        /\ UNCHANGED answer
    BY <1>5 DEF Responds, Go
  <2>2. "bin" \in Phases \ {"contains", "get"}
    BY DEF Phases
  <2>3. SharedTypeOK'
    BY <1>1, <2>1, SharedStays DEF Answers
  <2> QED BY <2>1, <2>2, <2>3, NoLocalsFine, OneCaller
<1>6. CASE "broken" \in Outcomes /\ BodyBreaks(c)
  <2> DEFINE m == Meets(k, "broken")
             l == [m EXCEPT !.error = "Network"]
  <2>1. m = [k EXCEPT !.met = @ \cup {"broken"}, !.sent = k.sent + 1] /\ m \in Locals
    BY <1>1, <1>2, <1>6, MeetsOne
  <2>2. /\ phase' = [phase EXCEPT ![c] = "failed"] /\ loc' = [loc EXCEPT ![c] = l]
        /\ UNCHANGED answer
    BY <1>1, <1>6 DEF BodyBreaks, Go
  <2>3. /\ l \in Locals /\ l.sent = k.sent + 1 /\ l.attempt = k.attempt
        /\ l.met = k.met \cup {"broken"}
    BY <1>1, <2>1 DEF Locals
  <2> HIDE DEF l
  <2>4. Counted("failed", l) /\ WhyDegraded("failed", l)
    BY <1>4, <2>3 DEF Counted, WhyDegraded, Idle
  <2>5. "failed" \in Phases
    BY DEF Phases
  <2>6. SharedTypeOK'
    BY <1>1, <2>2, SharedStays DEF Answers
  <2> QED BY <2>2, <2>3, <2>4, <2>5, <2>6, OneCaller
<1>7. CASE "http" \in Outcomes /\ Refuses(c)
  BY <1>1, <1>7, GiveUpKeeps DEF Refuses
<1>8. CASE "down" \in Outcomes /\ Unreachable(c)
  <2> DEFINE m == Meets(k, "down")
             l == [m EXCEPT !.tries = @ + 1]
  <2>1. m = [k EXCEPT !.met = @ \cup {"down"}, !.sent = k.sent + 1] /\ m \in Locals
    BY <1>1, <1>2, <1>8, MeetsOne
  <2>2. m.tries = k.tries
    BY <1>1, <2>1 DEF Locals
  <2>3. CASE k.tries < MaxRetries
    <3>1. loc' = [loc EXCEPT ![c] = l] /\ UNCHANGED <<phase, answer>>
      BY <1>8, <2>2, <2>3 DEF Unreachable
    <3>2. m.tries + 1 \in 0 .. MaxRetries
      BY <1>2, <2>2, <2>3, Sizes
    <3>3. l \in Locals
      <4> HIDE DEF m
      <4> QED BY <2>1, <3>2, Zenon DEF Locals
    <3>4. /\ l.sent = k.sent + 1 /\ l.attempt = k.attempt /\ l.cand = k.cand
          /\ l.tries = k.tries + 1 /\ l.met = k.met \cup {"down"}
      BY <1>1, <2>1 DEF Locals
    <3> HIDE DEF l
    <3>5. Counted("request", l) /\ WhyDegraded("request", l)
      BY <1>2, <1>3, <1>4, <3>4 DEF Counted, WhyDegraded, Idle
    <3>6. "request" \in Phases /\ phase' = [phase EXCEPT ![c] = "request"]
      BY <1>1, <3>1 DEF Phases
    <3>7. SharedTypeOK'
      BY <1>1, <3>1, SharedStays DEF Answers
    <3> QED BY <3>1, <3>3, <3>5, <3>6, <3>7, OneCaller
  <2>4. CASE ~(k.tries < MaxRetries)
    BY <1>1, <1>8, <2>2, <2>4, GiveUpKeeps DEF Unreachable
  <2> QED BY <2>3, <2>4
<1> QED BY <1>5, <1>6, <1>7, <1>8 DEF Request

-----------------------------------------------------------------------------
LEMMA FetchFailedKeeps ==
  ASSUME NetInv, NEW c \in Caller, FetchFailed(c)
  PROVE  NetInv'
<1> DEFINE k == loc[c]
<1>1. /\ k \in Locals /\ Counted("failed", k) /\ WhyDegraded("failed", k)
      /\ phase[c] = "failed"
      /\ phase \in [Caller -> Phases] /\ loc \in [Caller -> Locals]
      /\ UNCHANGED <<disk, fetches, crashes>>
  BY OfCaller DEF FetchFailed
<1>2. /\ k.attempt \in 0 .. Attempts - 1 /\ k.attempt \in Nat /\ k.sent \in Nat
      /\ k.sent <= Budget /\ k.sent <= SentBefore(k.attempt + 1, 1, 0)
  BY <1>1, Sizes DEF Locals, Attempts, Counted
<1>3. CASE ~LastAttempt(k) /\ Retry(c, k)
  <2> DEFINE l == [k EXCEPT !.cand = 1, !.tries = 0, !.error = "none", !.attempt = @ + 1]
  <2>1. /\ phase' = [phase EXCEPT ![c] = "request"] /\ loc' = [loc EXCEPT ![c] = l]
        /\ UNCHANGED answer
    BY <1>3 DEF Retry, Go
  <2>2. /\ 1 \in 1 .. NumCands /\ 0 \in 0 .. MaxRetries
        /\ k.attempt + 1 \in 0 .. MaxOf(MaxAttempts, 1) - 1
    BY <1>2, <1>3, Sizes DEF LastAttempt, Attempts
  <2>3. l \in Locals
    <3> HIDE DEF k
    <3> QED BY <1>1, <2>2, Zenon DEF Locals
  <2>4. /\ l.sent = k.sent /\ l.attempt = k.attempt + 1 /\ l.cand = 1 /\ l.tries = 0
        /\ l.error = "none"
    BY <1>1 DEF Locals
  <2> HIDE DEF l
  <2>5. Counted("request", l) /\ WhyDegraded("request", l)
    BY <1>2, <2>4 DEF Counted, WhyDegraded, Idle
  <2>6. "request" \in Phases
    BY DEF Phases
  <2>7. SharedTypeOK'
    BY <1>1, <2>1, SharedStays DEF Answers
  <2> QED BY <2>1, <2>3, <2>5, <2>6, <2>7, OneCaller
<1>4. CASE Degrade(c, k)
  <2>1. CASE Retryable(k)
    <3>1. phase' = [phase EXCEPT ![c] = "contains"] /\ UNCHANGED <<answer, loc>>
      BY <1>4, <2>1 DEF Degrade, Go
    <3>2. k.error = "Network"
      BY <1>1, <2>1 DEF Retryable, Transient, Locals
    <3>3. Counted("contains", k) /\ WhyDegraded("contains", k)
      BY <1>1, <3>2 DEF Counted, WhyDegraded, Idle
    <3>4. "contains" \in Phases /\ loc' = [loc EXCEPT ![c] = k]
      BY <1>1, <3>1 DEF Phases
    <3>5. SharedTypeOK'
      BY <1>1, <3>1, SharedStays DEF Answers
    <3> QED BY <1>1, <3>1, <3>3, <3>4, <3>5, OneCaller
  <2>2. CASE ~Retryable(k)
    <3>1. Answer(c, "refused") /\ "refused" \in Answers
      BY <1>4, <2>2 DEF Degrade, Answers
    <3>2. SharedTypeOK'
      BY <1>1, <3>1, SharedStays DEF Answer
    <3> QED BY <3>1, <3>2, AnswerKeeps
  <2> QED BY <2>1, <2>2
<1> QED BY <1>3, <1>4 DEF FetchFailed

(* The writes of put, and one that fails: the locals are those of a fresh   *)
(* call.                                                                   *)
LEMMA PutKeeps ==
  ASSUME NetInv, NEW c \in Caller, Put(c)
  PROVE  NetInv'
<1>1. /\ phase \in [Caller -> Phases] /\ loc \in [Caller -> Locals] /\ SharedTypeOK
      /\ loc[c] \in Locals /\ loc[c].sent <= Budget /\ WhyDegraded(phase[c], loc[c])
  BY OfCaller DEF Counted
<1>2. ASSUME NEW p \in {"fillbin", "meta", "fillmeta"},
             Go(c, p), UNCHANGED <<loc, fetches, crashes>>,
             bin' \in {"absent", "empty", "whole"}, meta' \in {"absent", "empty", "whole"}
      PROVE  NetInv'
  <2>1. p \in Phases /\ loc' = [loc EXCEPT ![c] = loc[c]]
    BY <1>1, <1>2 DEF Phases
  <2>2. Counted(p, loc[c]) /\ WhyDegraded(p, loc[c])
    BY <1>1, <1>2 DEF Counted, WhyDegraded, Idle
  <2>3. SharedTypeOK' /\ phase' = [phase EXCEPT ![c] = p]
    BY <1>1, <1>2 DEF SharedTypeOK, Go
  <2> QED BY <1>1, <2>1, <2>2, <2>3, OneCaller
<1>3. CASE TruncateBin(c)
  BY <1>1, <1>2, <1>3 DEF TruncateBin, Put, SharedTypeOK
<1>4. CASE FillBin(c)
  BY <1>1, <1>2, <1>4 DEF FillBin, Put, SharedTypeOK
<1>5. CASE TruncateMeta(c)
  BY <1>1, <1>2, <1>5 DEF TruncateMeta, Put, SharedTypeOK
<1>6. CASE FillMeta(c)
  <2>1. Answer(c, "fresh") /\ "fresh" \in Answers
    BY <1>6 DEF FillMeta, Answers
  <2>2. SharedTypeOK'
    BY <1>1, <1>6, <2>1 DEF FillMeta, Answer, Put, SharedTypeOK
  <2> QED BY <2>1, <2>2, AnswerKeeps
<1>7. CASE PutFails(c)
  <2>1. Answer(c, "fresh") /\ "fresh" \in Answers
    BY <1>7 DEF PutFails, Answers
  <2>2. SharedTypeOK'
    BY <1>1, <1>7, <2>1 DEF PutFails, Answer, Put, SharedTypeOK, disk
  <2> QED BY <2>1, <2>2, AnswerKeeps
<1> QED BY <1>3, <1>4, <1>5, <1>6, <1>7 DEF Put

LEMMA LookKeeps ==
  ASSUME NetInv, NEW c \in Caller, Contains(c) \/ Get(c)
  PROVE  NetInv'
<1>1. /\ phase \in [Caller -> Phases] /\ loc \in [Caller -> Locals] /\ SharedTypeOK
      /\ loc[c] \in Locals /\ Counted(phase[c], loc[c]) /\ WhyDegraded(phase[c], loc[c])
      /\ UNCHANGED <<disk, fetches, crashes>>
  BY OfCaller DEF Contains, Get
<1>2. ASSUME NEW a \in Answers, Answer(c, a) PROVE NetInv'
  <2>1. SharedTypeOK'
    BY <1>1, <1>2, SharedStays DEF Answer
  <2> QED BY <1>2, <2>1, AnswerKeeps
<1>3. CASE Contains(c) /\ Stored
  <2>1. phase' = [phase EXCEPT ![c] = "get"] /\ UNCHANGED <<answer, loc>> /\ phase[c] = "contains"
    BY <1>3 DEF Contains, Go
  <2>2. Counted("get", loc[c]) /\ WhyDegraded("get", loc[c])
    BY <1>1, <2>1 DEF Counted, WhyDegraded, Idle
  <2>3. "get" \in Phases /\ loc' = [loc EXCEPT ![c] = loc[c]]
    BY <1>1, <2>1 DEF Phases
  <2>4. SharedTypeOK'
    BY <1>1, <2>1, SharedStays DEF Answers
  <2> QED BY <1>1, <2>1, <2>2, <2>3, <2>4, OneCaller
<1>4. CASE Contains(c) /\ ~Stored
  BY <1>2, <1>4 DEF Contains, Answers
<1>5. CASE Get(c)
  <2>1. \E a \in {"cached", "torn", "offline"} : Answer(c, a)
    BY <1>1, <1>5 DEF Get, SharedTypeOK
  <2> QED BY <1>2, <2>1 DEF Answers
<1> QED BY <1>3, <1>4, <1>5

LEMMA CrashKeeps ==
  ASSUME NetInv, Crash
  PROVE  NetInv'
<1>1. SharedTypeOK
  BY DEF NetInv, TypeOK, SharedTypeOK, Answers
<1>2. SharedTypeOK'
  BY <1>1, NetAssumption DEF SharedTypeOK, Crash, disk, Answers
<1>3. Idle \in Phases /\ Idle \notin {"contains", "get"}
  BY DEF Phases, Idle
<1>4. TypeOK'
  BY <1>2, <1>3, NoLocalsFine DEF TypeOK, Crash, SharedTypeOK, Phases, Answers
<1>5. \A c \in Caller : phase'[c] = Idle /\ loc'[c] = NoLocals
  BY DEF Crash
<1>6. \A c \in Caller : Counted(phase'[c], loc'[c]) /\ WhyDegraded(phase'[c], loc'[c])
  BY <1>3, <1>5, NoLocalsFine
<1>7. \A c \in Caller : Counted(phase[c], loc[c])' /\ WhyDegraded(phase[c], loc[c])'
  BY <1>6 DEF Counted, WhyDegraded
<1> QED BY <1>4, <1>7 DEF NetInv

-----------------------------------------------------------------------------
(* The strengthened invariant holds in every reachable state.              *)
THEOREM NetInvariant == Spec => []NetInv
<1>1. Init => NetInv
  <2> SUFFICES ASSUME Init PROVE NetInv
    OBVIOUS
  <2>1. Idle \in Phases /\ Idle \notin {"contains", "get"}
    BY DEF Phases, Idle
  <2>2. TypeOK
    BY <2>1, NoLocalsFine, NetAssumption DEF Init, TypeOK, Phases
  <2>3. \A c \in Caller : phase[c] = Idle /\ loc[c] = NoLocals
    BY DEF Init
  <2> QED BY <2>1, <2>2, <2>3, NoLocalsFine DEF NetInv
<1>2. NetInv /\ [Next]_vars => NetInv'
  <2> SUFFICES ASSUME NetInv, [Next]_vars PROVE NetInv'
    OBVIOUS
  <2>1. CASE UNCHANGED vars
    <3>1. UNCHANGED <<phase, loc, answer, bin, meta, fetches, crashes>>
      BY <2>1 DEF vars, disk
    <3> QED BY <3>1 DEF NetInv, TypeOK, Counted, WhyDegraded
  <2>2. CASE Finished
    <3>1. UNCHANGED <<phase, loc, answer, bin, meta, fetches, crashes>>
      BY <2>2 DEF Finished, vars, disk
    <3> QED BY <3>1 DEF NetInv, TypeOK, Counted, WhyDegraded
  <2>3. CASE Crash
    BY <2>3, CrashKeeps
  <2>4. ASSUME NEW c \in Caller, Step(c) PROVE NetInv'
    BY <2>4, RequestKeeps, FetchFailedKeeps, PutKeeps, LookKeeps DEF Step
  <2>5. ASSUME NEW c \in Caller, NEW off \in BOOLEAN, Begin(c, off) PROVE NetInv'
    BY <2>5, BeginKeeps
  <2> QED BY <2>1, <2>2, <2>3, <2>4, <2>5 DEF Next
<1> QED BY <1>1, <1>2, PTL DEF Spec

(* Two levels of retries over the candidates stay within their product.    *)
THEOREM RequestsBoundedHolds == Spec => []RequestsBounded
<1>1. NetInv => RequestsBounded
  BY DEF NetInv, Counted, RequestsBounded
<1> QED BY <1>1, NetInvariant, PTL

(* The cache answers only a call that was told to use it or that met a     *)
(* transport error, and no whole body is overlooked.                       *)
THEOREM EndsHonestlyHolds == Spec => EndsHonestly
<1> DEFINE Honest(c) ==
      /\ Ends(c, "cached") \/ Ends(c, "torn") =>
           loc[c].offline \/ ~(loc[c].met \subseteq {"http"})
      /\ bin = "whole" => ~Ends(c, "offline")
<1>1. ASSUME NetInv, [Next]_vars, NEW c \in Caller PROVE Honest(c)
  <2>1. CASE answer'[c] = answer[c] \/ answer'[c] \notin {"cached", "torn", "offline"}
    BY <2>1 DEF Ends
  <2>2. CASE answer'[c] # answer[c] /\ answer'[c] \in {"cached", "torn", "offline"}
    <3>1. answer \in [Caller -> Answers]
      BY <1>1, OfCaller DEF SharedTypeOK
    <3>2. Contains(c) \/ Get(c)
      <4>1. CASE UNCHANGED vars \/ Finished
        BY <2>2, <4>1 DEF vars, Finished
      <4>2. CASE Crash
        BY <2>2, <4>2 DEF Crash
      <4>3. ASSUME NEW d \in Caller, NEW off \in BOOLEAN, Begin(d, off)
            PROVE  FALSE
        BY <2>2, <3>1, <4>3 DEF Begin
      <4>4. ASSUME NEW d \in Caller, Request(d) \/ FetchFailed(d) \/ Put(d)
            PROVE  FALSE
        <5>1. CASE Request(d)
          BY <2>2, <5>1 DEF Request, Responds, BodyBreaks, Refuses, Unreachable, GiveUp, Go
        <5>2. CASE FetchFailed(d)
          BY <2>2, <3>1, <5>2 DEF FetchFailed, Retry, Degrade, Answer, Go
        <5>3. CASE Put(d)
          BY <2>2, <3>1, <5>3
             DEF Put, TruncateBin, FillBin, TruncateMeta, FillMeta, PutFails, Answer, Go
        <5> QED BY <4>4, <5>1, <5>2, <5>3
      <4>5. ASSUME NEW d \in Caller, Contains(d) \/ Get(d)
            PROVE  d = c
        BY <2>2, <3>1, <4>5 DEF Contains, Get, Answer, Go
      <4> QED BY <1>1, <4>1, <4>2, <4>3, <4>4, <4>5 DEF Next, Step
    <3>3. /\ loc[c].error = "Network" => ~(loc[c].met \subseteq {"http"})
          /\ loc[c].offline \/ loc[c].error = "Network"
      BY <1>1, <3>2, OfCaller DEF WhyDegraded, Contains, Get
    <3>4. bin = "whole" => answer'[c] # "offline"
      BY <2>2, <3>1, <3>2 DEF Contains, Get, Stored, Answer, Go
    <3> QED BY <3>3, <3>4 DEF Ends
  <2> QED BY <2>1, <2>2
<1>2. NetInv /\ [Next]_vars => [\A c \in Caller : Honest(c)]_vars
  BY <1>1
<1> QED BY <1>2, NetInvariant, PTL DEF Spec, EndsHonestly

-----------------------------------------------------------------------------
(* NetworkClient *)

Mirror  == [id : STRING \ {Origin}, hosts : SUBSET STRING]
Via     == {Origin} \cup STRING
Urls    == [host : Host \cup {Nobody}, via : Via]
Vias(s) == {s[i].via : i \in DOMAIN s}
OnceEach(s) == \A i, j \in DOMAIN s : s[i].via = s[j].via => i = j

LEMMA Joined ==
  ASSUME NEW a \in Seq(Urls), NEW b \in Seq(Urls), OnceEach(a), OnceEach(b),
         Vias(a) \cap Vias(b) = {}
  PROVE  a \o b \in Seq(Urls) /\ OnceEach(a \o b) /\ Vias(a \o b) = Vias(a) \cup Vias(b)
  <1> DEFINE c == a \o b
  <1>1. /\ c \in Seq(Urls) /\ Len(c) = Len(a) + Len(b)
        /\ \A i \in 1 .. Len(c) : c[i] = IF i <= Len(a) THEN a[i] ELSE b[i - Len(a)]
    BY ConcatProperties
  <1>2. /\ DOMAIN a = 1 .. Len(a) /\ Len(a) \in Nat /\ DOMAIN b = 1 .. Len(b) /\ Len(b) \in Nat
    BY Indices
  <1> HIDE DEF c
  <1>3. DOMAIN c = 1 .. Len(c)
    BY <1>1, Indices
  <1>4. ASSUME NEW i \in DOMAIN c
        PROVE  \/ i \in DOMAIN a /\ c[i] = a[i] /\ c[i].via \in Vias(a)
               \/ i - Len(a) \in DOMAIN b /\ c[i] = b[i - Len(a)] /\ c[i].via \in Vias(b)
                  /\ i > Len(a)
    <2>1. CASE i <= Len(a)
      <3>1. i \in DOMAIN a /\ c[i] = a[i]
        BY <1>1, <1>2, <1>3, <2>1
      <3> QED BY <3>1 DEF Vias
    <2>2. CASE ~(i <= Len(a))
      <3>1. i - Len(a) \in DOMAIN b /\ c[i] = b[i - Len(a)] /\ i > Len(a)
        BY <1>1, <1>2, <1>3, <2>2
      <3> QED BY <3>1 DEF Vias
    <2> QED BY <2>1, <2>2
  <1>5. Vias(c) = Vias(a) \cup Vias(b)
    <2>1. Vias(c) \subseteq Vias(a) \cup Vias(b)
      BY <1>4 DEF Vias
    <2>2. ASSUME NEW i \in DOMAIN a PROVE a[i].via \in Vias(c)
      <3>1. i \in DOMAIN c /\ c[i] = a[i]
        BY <1>1, <1>2, <1>3
      <3> QED BY <3>1 DEF Vias
    <2>3. ASSUME NEW i \in DOMAIN b PROVE b[i].via \in Vias(c)
      <3>1. /\ i + Len(a) \in DOMAIN c /\ ~(i + Len(a) <= Len(a)) /\ (i + Len(a)) - Len(a) = i
        BY <1>1, <1>2, <1>3
      <3>2. c[i + Len(a)] = b[i]
        BY <1>1, <1>3, <3>1
      <3> QED BY <3>1, <3>2 DEF Vias
    <2>4. Vias(a) \cup Vias(b) \subseteq Vias(c)
      BY <2>2, <2>3 DEF Vias
    <2> QED BY <2>1, <2>4
  <1>6. OnceEach(c)
    <2> SUFFICES ASSUME NEW i \in DOMAIN c, NEW j \in DOMAIN c, c[i].via = c[j].via
                 PROVE  i = j
      BY DEF OnceEach
    <2>1. i \in Nat /\ j \in Nat
      BY <1>1, <1>2, <1>3
    <2>2. CASE i \in DOMAIN a /\ c[i] = a[i] /\ c[i].via \in Vias(a)
      <3>1. c[j].via \notin Vias(b)
        BY <2>2
      <3>2. j \in DOMAIN a /\ c[j] = a[j]
        BY <1>4, <3>1
      <3> QED BY <2>2, <3>2 DEF OnceEach
    <2>3. CASE i - Len(a) \in DOMAIN b /\ c[i] = b[i - Len(a)] /\ c[i].via \in Vias(b)
      <3>1. c[j].via \notin Vias(a)
        BY <2>3
      <3>2. j - Len(a) \in DOMAIN b /\ c[j] = b[j - Len(a)]
        BY <1>4, <3>1
      <3>3. i - Len(a) = j - Len(a)
        BY <2>3, <3>2 DEF OnceEach
      <3> QED BY <1>2, <2>1, <3>3
    <2> QED BY <1>4, <2>2, <2>3
  <1> QED BY <1>1, <1>5, <1>6 DEF c

(* The mirrors of a list whose ids differ are asked once each.             *)
LEMMA RewriteOf ==
  ASSUME NEW ms \in Seq(Mirror), NEW h \in Host,
         \A i, j \in DOMAIN ms : ms[i].id = ms[j].id => i = j
  PROVE  LET r == Rewrite(ms, h) IN
         /\ r \in Seq(Urls) /\ OnceEach(r)
         /\ Vias(r) = {ms[i].id : i \in {k \in DOMAIN ms : CanMirror(ms[k], h)}}
  <1> DEFINE I == {i \in DOMAIN ms : CanMirror(ms[i], h)}
             able == Subsequence(ms, I)
             r == [i \in DOMAIN able |-> Url(h, able[i].id)]
  <1>1. DOMAIN ms = 1 .. Len(ms)
    BY Indices
  <1>2. I \in SUBSET (1 .. Len(ms)) /\ I \subseteq DOMAIN ms
    BY <1>1
  <1>3. Rewrite(ms, h) = r
    BY DEF Rewrite
  <1> HIDE DEF I
  <1>4. able \in Seq(Mirror) /\ \E e : Picks(e, able, ms, I)
    BY <1>2, SubsequencePicks
  <1> HIDE DEF able
  <1>5. PICK e : Picks(e, able, ms, I)
    BY <1>4
  <1>6. DOMAIN able = 1 .. Len(able) /\ Len(able) \in Nat /\ \A i \in DOMAIN able : able[i] \in Mirror
    BY <1>4, Indices
  <1>7. \A i \in DOMAIN able : e[i] \in I /\ able[i] = ms[e[i]]
    BY <1>5, <1>6 DEF Picks
  <1>8. \A i \in DOMAIN able : r[i] = Url(h, ms[e[i]].id) /\ r[i].via = ms[e[i]].id
    BY <1>7 DEF Url
  <1>9. r \in Seq(Urls)
    <2>1. \A i \in DOMAIN able : Url(h, able[i].id) \in Urls
      BY <1>6 DEF Url, Urls, Mirror, Via
    <2>2. DOMAIN r = 1 .. Len(able)
      BY <1>6
    <2>3. \E n \in Nat : r \in [1 .. n -> Urls]
      BY <1>6, <2>1
    <2> HIDE DEF r
    <2> QED BY <2>3
  <1>10. DOMAIN r = DOMAIN able
    OBVIOUS
  <1> HIDE DEF r
  <1>11. OnceEach(r)
    <2> SUFFICES ASSUME NEW i \in DOMAIN r, NEW j \in DOMAIN r, r[i].via = r[j].via PROVE i = j
      BY DEF OnceEach
    <2>1. e[i] = e[j]
      BY <1>2, <1>7, <1>8, <1>10
    <2>2. ~(i < j) /\ ~(j < i)
      <3>1. i < j => e[i] < e[j]
        BY <1>5, <1>6, <1>10 DEF Picks
      <3>2. j < i => e[j] < e[i]
        BY <1>5, <1>6, <1>10 DEF Picks
      <3>3. e[i] \in Nat
        BY <1>2, <1>7, <1>10
      <3> QED BY <2>1, <3>1, <3>2, <3>3
    <2> QED BY <1>6, <1>10, <2>2
  <1>12. Vias(r) = {ms[i].id : i \in I}
    <2>1. Vias(r) \subseteq {ms[i].id : i \in I}
      BY <1>7, <1>8, <1>10 DEF Vias
    <2>2. ASSUME NEW i \in I PROVE ms[i].id \in Vias(r)
      <3>1. PICK k \in 1 .. Len(able) : e[k] = i
        BY <1>5 DEF Picks
      <3> QED BY <1>6, <1>8, <1>10, <3>1 DEF Vias
    <2> QED BY <2>1, <2>2
  <1> QED BY <1>3, <1>9, <1>11, <1>12 DEF I

(* Some of the mirrors: their ids differ, and they are the ones meant.     *)
LEMMA SomeMirrors ==
  ASSUME NEW I \in SUBSET DOMAIN Mirrors
  PROVE  LET ms == Subsequence(Mirrors, I) IN
         /\ ms \in Seq(Mirror)
         /\ \A i, j \in DOMAIN ms : ms[i].id = ms[j].id => i = j
         /\ {ms[i] : i \in DOMAIN ms} = {Mirrors[i] : i \in I}
  <1> DEFINE ms == Subsequence(Mirrors, I)
  <1>1. /\ Mirrors \in Seq(Mirror) /\ DOMAIN Mirrors = 1 .. Len(Mirrors)
        /\ \A i, j \in DOMAIN Mirrors : Mirrors[i].id = Mirrors[j].id => i = j
    BY ClientAssumption, Indices DEF Mirror
  <1>2. ms \in Seq(Mirror) /\ \E e : Picks(e, ms, Mirrors, I)
    BY <1>1, SubsequencePicks
  <1> HIDE DEF ms
  <1>3. PICK e : Picks(e, ms, Mirrors, I)
    BY <1>2
  <1>4. DOMAIN ms = 1 .. Len(ms) /\ Len(ms) \in Nat
    BY <1>2, Indices
  <1>5. \A i \in DOMAIN ms : e[i] \in I /\ e[i] \in Nat /\ ms[i] = Mirrors[e[i]]
    BY <1>1, <1>3, <1>4 DEF Picks
  <1>6. ASSUME NEW i \in DOMAIN ms, NEW j \in DOMAIN ms, ms[i].id = ms[j].id PROVE i = j
    <2>1. e[i] = e[j]
      BY <1>1, <1>5, <1>6
    <2>2. (i < j => e[i] < e[j]) /\ (j < i => e[j] < e[i])
      BY <1>3, <1>4 DEF Picks
    <2> QED BY <1>4, <1>5, <2>1, <2>2
  <1>7. {ms[i] : i \in DOMAIN ms} = {Mirrors[i] : i \in I}
    <2>1. {ms[i] : i \in DOMAIN ms} \subseteq {Mirrors[i] : i \in I}
      BY <1>5
    <2>2. ASSUME NEW i \in I PROVE Mirrors[i] \in {ms[k] : k \in DOMAIN ms}
      <3>1. PICK k \in 1 .. Len(ms) : e[k] = i
        BY <1>3 DEF Picks
      <3> QED BY <1>4, <1>5, <3>1
    <2> QED BY <2>1, <2>2
  <1> QED BY <1>2, <1>6, <1>7 DEF ms

(* The candidates of a host are its origin and each of its mirrors, once.  *)
LEMMA Candidates ==
  ASSUME NEW h \in Host
  PROVE  LET c == CandidateUrls(h) IN
         /\ c \in Seq(Urls) /\ Len(c) > 0 /\ Vias(c) = Serving(h)
         /\ Len(c) = Cardinality(Serving(h))
  <1> DEFINE best == {i \in DOMAIN Mirrors : Mirrors[i].id = pinned}
             rest == DOMAIN Mirrors \ best
             a == Rewrite(Subsequence(Mirrors, best), h)
             b == Rewrite(Subsequence(Mirrors, rest), h)
             o == <<Url(h, Origin)>>
             Able(I) == {Mirrors[i].id : i \in {k \in I : CanMirror(Mirrors[k], h)}}
             c == CandidateUrls(h)
  <1>1. best \subseteq DOMAIN Mirrors /\ rest \subseteq DOMAIN Mirrors
        /\ best \cap rest = {} /\ best \cup rest = DOMAIN Mirrors
    OBVIOUS
  <1>2. c = o \o (a \o b)
    BY DEF CandidateUrls, RewriteAll
  <1> HIDE DEF best, rest
  <1>3. ASSUME NEW I \in SUBSET DOMAIN Mirrors
        PROVE  LET r == Rewrite(Subsequence(Mirrors, I), h) IN
               r \in Seq(Urls) /\ OnceEach(r) /\ Vias(r) = Able(I)
    <2> DEFINE ms == Subsequence(Mirrors, I)
    <2>1. /\ ms \in Seq(Mirror) /\ \A i, j \in DOMAIN ms : ms[i].id = ms[j].id => i = j
          /\ {ms[i] : i \in DOMAIN ms} = {Mirrors[i] : i \in I}
      BY SomeMirrors
    <2> HIDE DEF ms
    <2>2. {ms[i].id : i \in {k \in DOMAIN ms : CanMirror(ms[k], h)}} = Able(I)
      <3>1. \A i \in DOMAIN ms : \E j \in I : ms[i] = Mirrors[j]
        BY <2>1
      <3>2. \A j \in I : \E i \in DOMAIN ms : ms[i] = Mirrors[j]
        BY <2>1
      <3> QED BY <3>1, <3>2
    <2>3. /\ Rewrite(ms, h) \in Seq(Urls) /\ OnceEach(Rewrite(ms, h))
          /\ Vias(Rewrite(ms, h)) = {ms[i].id : i \in {k \in DOMAIN ms : CanMirror(ms[k], h)}}
      BY <2>1, RewriteOf
    <2> QED BY <2>2, <2>3 DEF ms
  <1>4. a \in Seq(Urls) /\ OnceEach(a) /\ Vias(a) = Able(best)
    BY <1>1, <1>3
  <1>5. b \in Seq(Urls) /\ OnceEach(b) /\ Vias(b) = Able(rest)
    BY <1>1, <1>3
  <1>6. o \in Seq(Urls) /\ OnceEach(o) /\ Vias(o) = {Origin} /\ Len(o) = 1
    <2>1. Url(h, Origin) \in Urls /\ Url(h, Origin).via = Origin
      BY DEF Url, Urls, Via
    <2> DEFINE x == Url(h, Origin)
    <2> HIDE DEF x
    <2>2. <<x>> \in Seq(Urls) /\ OnceEach(<<x>>) /\ Vias(<<x>>) = {Origin} /\ Len(<<x>>) = 1
      BY <2>1 DEF x, OnceEach, Vias
    <2> QED BY <2>2 DEF x
  <1> HIDE DEF a, b, o
  <1>7. Able(best) \cap Able(rest) = {}
    BY <1>1, ClientAssumption
  <1>8. Able(best) \cup Able(rest) = Able(DOMAIN Mirrors) /\ Origin \notin Able(DOMAIN Mirrors)
    <2>1. \A i \in DOMAIN Mirrors : Mirrors[i] \in Mirror
      BY ClientAssumption, Indices DEF Mirror
    <2>2. \A i \in DOMAIN Mirrors : Mirrors[i].id # Origin
      BY <2>1 DEF Mirror
    <2> QED BY <1>1, <2>2
  <1>9. Serving(h) = {Origin} \cup Able(DOMAIN Mirrors)
    BY DEF Serving
  <1> HIDE DEF Able
  <1>10. a \o b \in Seq(Urls) /\ OnceEach(a \o b) /\ Vias(a \o b) = Able(DOMAIN Mirrors)
    BY <1>4, <1>5, <1>7, <1>8, Joined
  <1> DEFINE ab == a \o b
  <1> HIDE DEF ab
  <1>11. ab \in Seq(Urls) /\ OnceEach(ab) /\ Vias(ab) = Able(DOMAIN Mirrors)
    BY <1>10 DEF ab
  <1>12. o \o ab \in Seq(Urls) /\ OnceEach(o \o ab) /\ Vias(o \o ab) = Serving(h)
    BY <1>6, <1>8, <1>9, <1>11, Joined
  <1>13. Len(o \o ab) > 0
    <2>1. Len(o \o ab) = Len(o) + Len(ab) /\ Len(ab) \in Nat
      BY <1>6, <1>11, ConcatProperties, Indices
    <2> QED BY <1>6, <2>1
  <1>14. c \in Seq(Urls) /\ OnceEach(c) /\ Vias(c) = Serving(h) /\ Len(c) > 0
    BY <1>2, <1>12, <1>13 DEF ab
  <1> HIDE DEF c
  <1>15. Len(c) = Cardinality(Serving(h))
    <2> DEFINE S == 1 .. Len(c)
               T == Serving(h)
               f == [i \in S |-> c[i].via]
    <2>1. DOMAIN c = S /\ Len(c) \in Nat
      BY <1>14, Indices
    <2>2. f \in [S -> T] /\ (\A i, j \in S : f[i] = f[j] => i = j) /\ \A t \in T : \E i \in S : f[i] = t
      BY <1>14, <2>1 DEF Vias, OnceEach
    <2>3. IsFiniteSet(S) /\ Cardinality(S) = Len(c)
      <3> DEFINE n == Len(c)
      <3>1. n \in Nat /\ n \in Int /\ 1 \in Int /\ n > 0
        BY <1>14, <2>1
      <3> HIDE DEF n
      <3>2. IsFiniteSet(1 .. n) /\ Cardinality(1 .. n) = IF 1 > n THEN 0 ELSE n - 1 + 1
        BY <3>1, FS_Interval
      <3>3. Cardinality(1 .. n) = n
        BY <3>1, <3>2
      <3> QED BY <3>2, <3>3 DEF n
    <2> HIDE DEF f, S, T
    <2>4. ExistsBijection(S, T)
      BY <2>2 DEF ExistsBijection, Bijection, Injection, Surjection, IsInjective
    <2>5. Cardinality(T) = Cardinality(S)
      BY <2>3, <2>4, FS_Bijection
    <2> QED BY <2>3, <2>5 DEF T
  <1> QED BY <1>14, <1>15 DEF c

-----------------------------------------------------------------------------
(* A call, and what it has done of its candidates: all of them were asked  *)
(* or are still to be, and none more often than its retries allow.         *)
Measurement == [id : Via, ok : BOOLEAN, latency : Nat]

Call ==
  [op : {"none", "get", "again", "measure"}, todo : Seq(Urls), tries : 0 .. GetRetries,
   sent : Nat, asked : SUBSET Via, host : Host \cup {Nobody}, measured : Seq(Measurement),
   answer : {"none", "refused", "response", "error_page", "broken", "tested"}]

Left(l) == Cardinality(Serving(l.host)) - Len(l.todo)

CallInv(l) ==
  /\ l \in Call /\ AllAsked(l)
  /\ l.op \in {"get", "again"} =>
       /\ l.host \in Host /\ l.answer = "none" /\ Len(l.todo) > 0
       /\ l.asked \cup Vias(l.todo) = Serving(l.host)
       /\ Cardinality(Serving(l.host)) \in Nat /\ Left(l) \in Nat
       /\ l.sent <= Left(l) * (GetRetries + 1) + l.tries + (IF l.op = "again" THEN 1 ELSE 0)
  /\ l.op = "measure" => l.host = Nobody /\ l.answer = "none"

LEMMA NextTimes ==
  ASSUME NEW n \in Nat, NEW r \in Nat
  PROVE  (n + 1) * (r + 1) = n * (r + 1) + r + 1 /\ n * (r + 1) \in Nat
  OBVIOUS

LEMMA TimesGrow ==
  ASSUME NEW n \in Nat, NEW m \in Nat, n <= m, NEW r \in Nat
  PROVE  n * (r + 1) <= m * (r + 1) /\ m * (r + 1) \in Nat
  <1>1. PICK d \in Nat : m = n + d
    <2>1. m - n \in Nat /\ m = n + (m - n)
      OBVIOUS
    <2> QED BY <2>1
  <1>2. (n + d) * (r + 1) = n * (r + 1) + d * (r + 1)
    OBVIOUS
  <1>3. d * (r + 1) \in Nat /\ n * (r + 1) \in Nat
    OBVIOUS
  <1>4. m * (r + 1) = n * (r + 1) + d * (r + 1)
    BY <1>1, <1>2
  <1> DEFINE a == n * (r + 1)
             b == d * (r + 1)
             c == m * (r + 1)
  <1>5. a \in Nat /\ b \in Nat /\ c = a + b
    BY <1>3, <1>4
  <1> HIDE DEF a, b, c
  <1>6. a <= c /\ c \in Nat
    BY <1>5
  <1> QED BY <1>6 DEF a, c

LEMMA Retries == GetRetries \in Nat /\ Latency \subseteq Nat
  BY ClientAssumption

(* A list that is not empty is its first candidate and the rest.           *)
LEMMA TailVias ==
  ASSUME NEW s \in Seq(Urls), Len(s) > 0
  PROVE  /\ Tail(s) \in Seq(Urls) /\ Len(Tail(s)) = Len(s) - 1 /\ Len(s) \in Nat
         /\ Vias(s) = {Head(s).via} \cup Vias(Tail(s)) /\ Head(s) \in Urls
         /\ Tail(s) = <<>> <=> Len(s) = 1
         /\ Tail(s) = <<>> => Vias(Tail(s)) = {}
  <1> DEFINE t == Tail(s)
  <1>1. /\ Len(s) \in Nat /\ t \in Seq(Urls) /\ Len(t) = Len(s) - 1 /\ Head(s) = s[1]
        /\ \A i \in 1 .. Len(t) : t[i] = s[i + 1]
    OBVIOUS
  <1> HIDE DEF t
  <1>2. t = <<>> <=> Len(s) = 1
    <2>1. t = <<>> <=> Len(t) = 0
      BY <1>1, EmptySeq
    <2> QED BY <1>1, <2>1
  <1>3. DOMAIN s = 1 .. Len(s) /\ DOMAIN t = 1 .. Len(t) /\ \A i \in DOMAIN s : s[i] \in Urls
    BY <1>1, Indices
  <1>4. Vias(s) \subseteq {s[1].via} \cup Vias(t)
    <2> SUFFICES ASSUME NEW i \in DOMAIN s, i # 1 PROVE s[i].via \in Vias(t)
      BY DEF Vias
    <2>1. i - 1 \in 1 .. Len(t) /\ (i - 1) + 1 = i
      BY <1>1, <1>3
    <2> QED BY <1>1, <1>3, <2>1 DEF Vias
  <1>5. {s[1].via} \cup Vias(t) \subseteq Vias(s)
    <2>1. 1 \in DOMAIN s
      BY <1>1, <1>3
    <2>2. ASSUME NEW i \in DOMAIN t PROVE t[i].via \in Vias(s)
      <3>1. i + 1 \in DOMAIN s /\ t[i] = s[i + 1]
        BY <1>1, <1>3
      <3> QED BY <3>1 DEF Vias
    <2> QED BY <2>1, <2>2 DEF Vias
  <1>6. s[1] \in Urls
    BY <1>1, <1>3
  <1>7. t = <<>> => Vias(t) = {}
    BY DEF Vias
  <1> QED BY <1>1, <1>2, <1>4, <1>5, <1>6, <1>7 DEF t

-----------------------------------------------------------------------------
LEMMA NoUseIsCall == NoUse \in Call
  <1> DEFINE e == <<>>
  <1>1. e \in Seq(Measurement) /\ e \in Seq(Urls)
    OBVIOUS
  <1>2. NoUse = [op |-> "none", todo |-> e, tries |-> 0, sent |-> 0, asked |-> {},
                 host |-> Nobody, measured |-> e, answer |-> "none"]
    BY DEF NoUse
  <1> HIDE DEF e
  <1> QED BY <1>1, <1>2, Retries DEF Call

LEMMA NewCall ==
  ASSUME NEW h \in Host
  PROVE  CallInv([NoUse EXCEPT !.op = "get", !.host = h, !.todo = CandidateUrls(h)])
  <1> DEFINE c == CandidateUrls(h)
             l == [NoUse EXCEPT !.op = "get", !.host = h, !.todo = c]
  <1>1. /\ c \in Seq(Urls) /\ Len(c) > 0 /\ Vias(c) = Serving(h)
        /\ Len(c) = Cardinality(Serving(h))
    BY Candidates
  <1> HIDE DEF c
  <1>2. /\ l.op = "get" /\ l.host = h /\ l.todo = c /\ l.tries = 0 /\ l.sent = 0
        /\ l.asked = {} /\ l.measured = <<>> /\ l.answer = "none"
    BY DEF NoUse
  <1>3. l \in Call
    <2> DEFINE e == <<>>
    <2>1. e \in Seq(Measurement)
      OBVIOUS
    <2> DEFINE n == NoUse
    <2>2. n \in Call
      BY NoUseIsCall
    <2> HIDE DEF n, e
    <2>3. l = [n EXCEPT !.op = "get", !.host = h, !.todo = c]
      BY DEF n
    <2> HIDE DEF l
    <2> QED BY <1>1, <2>2, <2>3 DEF Call
  <1> HIDE DEF l
  <1>4. Left(l) = 0 /\ Cardinality(Serving(h)) \in Nat
    <2>1. Len(c) \in Nat
      BY <1>1, Indices
    <2> QED BY <1>1, <1>2, <2>1 DEF Left
  <1>5. AllAsked(l)
    <2>1. 0 <= Cardinality(Serving(h)) * (GetRetries + 1) + 1
      BY <1>4, Retries, NextTimes
    <2> QED BY <1>2, <2>1 DEF AllAsked
  <1>6. l.sent <= Left(l) * (GetRetries + 1) + l.tries + 0
    <2>1. 0 * (GetRetries + 1) = 0
      BY Retries
    <2> QED BY <1>2, <1>4, <2>1
  <1>7. CallInv(l)
    BY <1>1, <1>2, <1>3, <1>4, <1>5, <1>6 DEF CallInv
  <1> QED BY <1>7 DEF l, c

(* What a request adds.                                                    *)
LEMMA SentFields ==
  ASSUME NEW l, l \in Call, Len(l.todo) > 0
  PROVE  /\ Sent(l) \in Call
         /\ Sent(l).sent = l.sent + 1 /\ Sent(l).asked = l.asked \cup {Head(l.todo).via}
         /\ Sent(l).op = l.op /\ Sent(l).todo = l.todo /\ Sent(l).tries = l.tries
         /\ Sent(l).host = l.host /\ Sent(l).answer = l.answer
         /\ Sent(l).measured = l.measured
  <1> DEFINE v == Head(l.todo).via
  <1>1. Head(l.todo) \in Urls
    BY TailVias DEF Call
  <1>2. v \in Via
    BY <1>1 DEF Urls
  <1>3. Sent(l) = [l EXCEPT !.sent = @ + 1, !.asked = @ \cup {v}]
    BY DEF Sent
  <1> HIDE DEF v
  <1>4. l.asked \cup {v} \in SUBSET Via /\ l.sent + 1 \in Nat
    BY <1>2 DEF Call
  <1>5. Sent(l) \in Call
    BY <1>3, <1>4 DEF Call
  <1> QED BY <1>3, <1>5 DEF Call, v

(* A candidate under way: what one more request may come to.               *)
LEMMA Asking ==
  ASSUME NEW l, CallInv(l), l.op \in {"get", "again"}
  PROVE  /\ l.sent \in Nat /\ l.tries \in 0 .. GetRetries /\ l.asked \subseteq Serving(l.host)
         /\ Left(l) + 1 <= Cardinality(Serving(l.host))
         /\ Head(l.todo).via \in Serving(l.host)
         /\ (Left(l) + 1) * (GetRetries + 1) = Left(l) * (GetRetries + 1) + GetRetries + 1
         /\ Left(l) * (GetRetries + 1) \in Nat
         /\ (Left(l) + 1) * (GetRetries + 1) <= Cardinality(Serving(l.host)) * (GetRetries + 1)
         /\ Cardinality(Serving(l.host)) * (GetRetries + 1) \in Nat
  <1>1. /\ l.sent \in Nat /\ l.tries \in 0 .. GetRetries /\ l.todo \in Seq(Urls)
    BY DEF CallInv, Call
  <1>2. Head(l.todo).via \in Vias(l.todo) /\ Len(l.todo) \in Nat
    BY <1>1, TailVias DEF CallInv
  <1>3. l.asked \subseteq Serving(l.host) /\ Head(l.todo).via \in Serving(l.host)
    BY <1>2 DEF CallInv
  <1>4. Left(l) + 1 <= Cardinality(Serving(l.host)) /\ Left(l) \in Nat
        /\ Cardinality(Serving(l.host)) \in Nat
    BY <1>2 DEF CallInv, Left
  <1>5. (Left(l) + 1) * (GetRetries + 1) = Left(l) * (GetRetries + 1) + GetRetries + 1
        /\ Left(l) * (GetRetries + 1) \in Nat
    BY <1>4, Retries, NextTimes
  <1>6. (Left(l) + 1) * (GetRetries + 1) <= Cardinality(Serving(l.host)) * (GetRetries + 1)
        /\ Cardinality(Serving(l.host)) * (GetRetries + 1) \in Nat
    BY <1>4, Retries, TimesGrow
  <1> QED BY <1>1, <1>3, <1>4, <1>5, <1>6

LEMMA AgainKept ==
  ASSUME NEW l, CallInv(l), l.op = "get"
  PROVE  CallInv([Sent(l) EXCEPT !.op = "again"])
  <1> DEFINE m == [Sent(l) EXCEPT !.op = "again"]
  <1>1. l \in Call /\ Len(l.todo) > 0 /\ l.answer = "none"
    BY DEF CallInv
  <1>2. /\ m \in Call /\ m.op = "again" /\ m.sent = l.sent + 1
        /\ m.asked = l.asked \cup {Head(l.todo).via} /\ m.todo = l.todo /\ m.tries = l.tries
        /\ m.host = l.host /\ m.answer = l.answer
    BY <1>1, SentFields DEF Call, Sent
  <1> HIDE DEF m
  <1>3. Left(m) = Left(l)
    BY <1>2 DEF Left
  <1>4. l.sent <= Left(l) * (GetRetries + 1) + l.tries
    BY <1>1, Asking DEF CallInv
  <1>5. m.sent <= Left(m) * (GetRetries + 1) + m.tries + 1
    BY <1>2, <1>3, <1>4, Asking
  <1>6. m.sent <= Cardinality(Serving(m.host)) * (GetRetries + 1) + 1
    BY <1>2, <1>3, <1>5, Asking, Retries
  <1>7. m.asked \subseteq Serving(m.host) /\ m.asked \cup Vias(m.todo) = Serving(m.host)
    BY <1>2, Asking DEF CallInv
  <1>8. AllAsked(m)
    BY <1>1, <1>2, <1>6, <1>7 DEF AllAsked
  <1>9. CallInv(m)
    BY <1>1, <1>2, <1>3, <1>5, <1>7, <1>8 DEF CallInv
  <1> QED BY <1>9 DEF m

LEMMA RetryKept ==
  ASSUME NEW l, CallInv(l), l.op = "get", l.tries < GetRetries
  PROVE  CallInv([Sent(l) EXCEPT !.tries = @ + 1])
  <1> DEFINE m == [Sent(l) EXCEPT !.tries = @ + 1]
  <1>1. l \in Call /\ Len(l.todo) > 0 /\ l.answer = "none"
    BY DEF CallInv
  <1>0. l.tries + 1 \in 0 .. GetRetries
    BY <1>1, Retries DEF Call
  <1>2. /\ m \in Call /\ m.op = "get" /\ m.sent = l.sent + 1
        /\ m.asked = l.asked \cup {Head(l.todo).via} /\ m.todo = l.todo /\ m.tries = l.tries + 1
        /\ m.host = l.host /\ m.answer = l.answer
    BY <1>0, <1>1, SentFields DEF Call, Sent
  <1> HIDE DEF m
  <1>3. Left(m) = Left(l)
    BY <1>2 DEF Left
  <1>4. l.sent <= Left(l) * (GetRetries + 1) + l.tries
    BY <1>1, Asking DEF CallInv
  <1>5. m.sent <= Left(m) * (GetRetries + 1) + m.tries + 0
    BY <1>2, <1>3, <1>4, Asking
  <1>6. m.sent <= Cardinality(Serving(m.host)) * (GetRetries + 1) + 1
    BY <1>0, <1>2, <1>3, <1>5, Asking, Retries
  <1>7. m.asked \subseteq Serving(m.host) /\ m.asked \cup Vias(m.todo) = Serving(m.host)
    BY <1>2, Asking DEF CallInv
  <1>8. AllAsked(m)
    BY <1>1, <1>2, <1>6, <1>7 DEF AllAsked
  <1>9. CallInv(m)
    BY <1>1, <1>2, <1>3, <1>5, <1>7, <1>8 DEF CallInv
  <1> QED BY <1>9 DEF m

LEMMA NextUrlKept ==
  ASSUME NEW l, CallInv(l), l.op = "get", Rest(Sent(l)) # <<>>
  PROVE  CallInv([Sent(l) EXCEPT !.todo = Rest(Sent(l)), !.tries = 0])
  <1> DEFINE m == [Sent(l) EXCEPT !.todo = Rest(Sent(l)), !.tries = 0]
  <1>1. l \in Call /\ Len(l.todo) > 0 /\ l.answer = "none" /\ l.todo \in Seq(Urls)
    BY DEF CallInv, Call
  <1>0. Rest(Sent(l)) = Tail(l.todo)
    BY <1>1, SentFields DEF Rest
  <1> DEFINE t == Tail(l.todo)
  <1>t. /\ t \in Seq(Urls) /\ Len(t) = Len(l.todo) - 1 /\ Len(l.todo) \in Nat
        /\ Vias(l.todo) = {Head(l.todo).via} \cup Vias(t) /\ Len(t) > 0
    BY <1>0, <1>1, TailVias
  <1> HIDE DEF t
  <1>2. /\ m \in Call /\ m.op = "get" /\ m.sent = l.sent + 1
        /\ m.asked = l.asked \cup {Head(l.todo).via} /\ m.todo = t /\ m.tries = 0
        /\ m.host = l.host /\ m.answer = l.answer
    <2> DEFINE k == Sent(l)
    <2>1. /\ k \in Call /\ k.op = "get" /\ k.sent = l.sent + 1
          /\ k.asked = l.asked \cup {Head(l.todo).via} /\ k.host = l.host
          /\ k.answer = l.answer
      BY <1>1, SentFields
    <2>2. m = [k EXCEPT !.todo = t, !.tries = 0]
      BY <1>0 DEF t
    <2>3. 0 \in 0 .. GetRetries
      BY Retries
    <2> HIDE DEF k, m
    <2> QED BY <1>t, <2>1, <2>2, <2>3 DEF Call
  <1> HIDE DEF m
  <1>3. Left(m) = Left(l) + 1 /\ Left(m) \in Nat
    BY <1>2, <1>t DEF Left, CallInv
  <1>4. l.sent <= Left(l) * (GetRetries + 1) + l.tries
    BY <1>1, Asking DEF CallInv
  <1>5. m.sent <= Left(m) * (GetRetries + 1) + m.tries + 0
    BY <1>2, <1>3, <1>4, Asking, Retries
  <1>6. m.sent <= Cardinality(Serving(m.host)) * (GetRetries + 1) + 1
    BY <1>2, <1>3, <1>5, Asking, Retries
  <1>7. m.asked \subseteq Serving(m.host) /\ m.asked \cup Vias(m.todo) = Serving(m.host)
    BY <1>2, <1>t, Asking DEF CallInv
  <1>8. AllAsked(m)
    BY <1>1, <1>2, <1>6, <1>7 DEF AllAsked
  <1>9. CallInv(m)
    BY <1>1, <1>2, <1>3, <1>5, <1>7, <1>8, <1>t DEF CallInv
  <1> QED BY <1>9 DEF m

(* The call returns: refused only after the last candidate.                *)
LEMMA ReturnKept ==
  ASSUME NEW l, CallInv(l), l.op \in {"get", "again"},
         NEW a \in {"refused", "response", "error_page", "broken"},
         a = "refused" => Rest(Sent(l)) = <<>>
  PROVE  CallInv([Sent(l) EXCEPT !.op = "none", !.todo = <<>>, !.answer = a])
  <1> DEFINE m == [Sent(l) EXCEPT !.op = "none", !.todo = <<>>, !.answer = a]
  <1>1. l \in Call /\ Len(l.todo) > 0 /\ l.answer = "none" /\ l.todo \in Seq(Urls)
    BY DEF CallInv, Call
  <1>0. Rest(Sent(l)) = Tail(l.todo)
    BY <1>1, SentFields DEF Rest
  <1>2. /\ m \in Call /\ m.op = "none" /\ m.sent = l.sent + 1
        /\ m.asked = l.asked \cup {Head(l.todo).via} /\ m.host = l.host /\ m.answer = a
    <2> DEFINE k == Sent(l)
               e == <<>>
    <2>1. /\ k \in Call /\ k.sent = l.sent + 1
          /\ k.asked = l.asked \cup {Head(l.todo).via} /\ k.host = l.host
      BY <1>1, SentFields
    <2>2. m = [k EXCEPT !.op = "none", !.todo = e, !.answer = a] /\ e \in Seq(Urls)
      OBVIOUS
    <2> HIDE DEF k, m, e
    <2> QED BY <2>1, <2>2 DEF Call
  <1> HIDE DEF m
  <1>4. l.sent <= Left(l) * (GetRetries + 1) + l.tries + 1
    BY <1>1, Asking DEF CallInv
  <1>6. m.sent <= Cardinality(Serving(m.host)) * (GetRetries + 1) + 1
    BY <1>2, <1>4, Asking, Retries
  <1>7. m.asked \subseteq Serving(m.host)
    BY <1>2, Asking
  <1>8. a = "refused" => m.asked = Serving(m.host)
    <2> SUFFICES ASSUME a = "refused" PROVE m.asked = Serving(m.host)
      OBVIOUS
    <2>1. Vias(l.todo) = {Head(l.todo).via}
      BY <1>0, <1>1, TailVias
    <2> QED BY <1>2, <2>1 DEF CallInv
  <1>9. AllAsked(m)
    BY <1>2, <1>6, <1>7, <1>8 DEF AllAsked
  <1>10. CallInv(m)
    BY <1>2, <1>9 DEF CallInv
  <1> QED BY <1>10 DEF m

-----------------------------------------------------------------------------
(* Speed tests *)

LEMMA TestStarts ==
  CallInv([NoUse EXCEPT !.op = "measure",
                        !.todo = [i \in DOMAIN Mirrors |-> Url(Nobody, Mirrors[i].id)]])
  <1> DEFINE c == [i \in DOMAIN Mirrors |-> Url(Nobody, Mirrors[i].id)]
             l == [NoUse EXCEPT !.op = "measure", !.todo = c]
  <1>1. c \in Seq(Urls)
    <2>1. /\ DOMAIN Mirrors = 1 .. Len(Mirrors) /\ Len(Mirrors) \in Nat
          /\ \A i \in DOMAIN Mirrors : Mirrors[i] \in Mirror
      BY ClientAssumption, Indices DEF Mirror
    <2>2. \A i \in DOMAIN Mirrors : Url(Nobody, Mirrors[i].id) \in Urls
      BY <2>1 DEF Url, Urls, Mirror, Via
    <2>3. \E n \in Nat : c \in [1 .. n -> Urls]
      BY <2>1, <2>2
    <2> HIDE DEF c
    <2> QED BY <2>3
  <1> HIDE DEF c
  <1>2. NoUse \in Call /\ NoUse.host = Nobody /\ NoUse.answer = "none"
    BY NoUseIsCall DEF NoUse
  <1>3. l \in Call /\ l.op = "measure" /\ l.host = Nobody /\ l.answer = "none"
    <2> DEFINE n == NoUse
    <2> HIDE DEF n
    <2>1. n \in Call /\ n.host = Nobody /\ n.answer = "none" /\ l = [n EXCEPT !.op = "measure", !.todo = c]
      BY <1>2 DEF n
    <2> HIDE DEF l
    <2> QED BY <1>1, <2>1 DEF Call
  <1> HIDE DEF l
  <1>4. CallInv(l)
    BY <1>3 DEF CallInv, AllAsked
  <1> QED BY <1>4 DEF l, c

LEMMA MeasuredKept ==
  ASSUME NEW l, CallInv(l), l.op = "measure", Len(l.todo) > 0, NEW m \in Measurement
  PROVE  CallInv([Sent(l) EXCEPT !.todo = Tail(@), !.measured = Append(@, m)])
  <1> DEFINE k == Sent(l)
             n == [k EXCEPT !.todo = Tail(@), !.measured = Append(@, m)]
  <1>1. l \in Call /\ l.host = Nobody /\ l.answer = "none" /\ l.todo \in Seq(Urls)
    BY DEF CallInv, Call
  <1>2. /\ k \in Call /\ k.op = "measure" /\ k.host = Nobody /\ k.answer = "none"
        /\ k.todo = l.todo
    BY <1>1, SentFields
  <1> HIDE DEF k
  <1>3. Tail(k.todo) \in Seq(Urls)
    BY <1>1, <1>2, TailVias
  <1>4. Append(k.measured, m) \in Seq(Measurement)
    BY <1>2 DEF Call
  <1>5. n \in Call /\ n.op = "measure" /\ n.host = Nobody /\ n.answer = "none"
    BY <1>2, <1>3, <1>4 DEF Call
  <1> HIDE DEF n
  <1>6. CallInv(n)
    BY <1>5 DEF CallInv, AllAsked
  <1> QED BY <1>6 DEF n, k

LEMMA TestedKept ==
  ASSUME NEW l, CallInv(l), l.op = "measure"
  PROVE  CallInv([l EXCEPT !.op = "none", !.answer = "tested"])
  <1> DEFINE n == [l EXCEPT !.op = "none", !.answer = "tested"]
  <1>1. n \in Call /\ n.op = "none" /\ n.host = Nobody /\ n.answer = "tested"
    BY DEF CallInv, Call
  <1> HIDE DEF n
  <1>2. CallInv(n)
    BY <1>1 DEF CallInv, AllAsked
  <1> QED BY <1>2 DEF n

(* Of measurements one of which answered, one is the best.                 *)
LEMMA SomeBest ==
  ASSUME NEW m \in Seq(Measurement), NEW a \in DOMAIN m, m[a].ok
  PROVE  SelectBest(m) # {}
  <1> DEFINE ok == {k \in DOMAIN m : m[k].ok}
             T == {m[i].latency : i \in ok}
  <1>1. DOMAIN m \subseteq Nat /\ \A i \in DOMAIN m : m[i] \in Measurement
    BY Indices
  <1>2. \A i \in DOMAIN m : m[i].latency \in Nat
    BY <1>1 DEF Measurement
  <1>3. T \in SUBSET Nat /\ T # {}
    BY <1>2
  <1>4. PICK t \in T : \A y \in T : t <= y
    BY <1>3, Least
  <1> DEFINE K == {i \in ok : m[i].latency = t}
  <1>5. K \in SUBSET Nat /\ K # {}
    BY <1>1, <1>4
  <1>6. PICK k \in K : \A y \in K : k <= y
    BY <1>5, Least
  <1>7. ASSUME NEW j \in ok
        PROVE  \/ m[k].latency < m[j].latency
               \/ m[k].latency = m[j].latency /\ k <= j
    <2>1. m[j].latency \in T /\ m[k].latency = t /\ t \in Nat /\ m[j].latency \in Nat
      BY <1>2, <1>3, <1>4, <1>6
    <2>2. t <= m[j].latency
      BY <1>4, <2>1
    <2>3. m[j].latency = t => k <= j
      BY <1>6
    <2> QED BY <2>1, <2>2, <2>3
  <1>8. m[k].id \in SelectBest(m)
    BY <1>6, <1>7 DEF SelectBest
  <1> QED BY <1>8

LEMMA BestAnswered ==
  ASSUME NEW m, NEW id \in SelectBest(m) PROVE \E i \in DOMAIN m : m[i].ok /\ m[i].id = id
  BY DEF SelectBest

-----------------------------------------------------------------------------
(* Resolving: what is known of each protected host, of those before the    *)
(* cursor, and of the one it is at.                                        *)
DoneHosts(b) ==
  IF b.at = "ready" THEN ProtectedHosts
                    ELSE {Protected[i] : i \in {k \in DOMAIN Protected : k < b.host}}

Refusals == [server : DOMAIN DohServers, any : {FALSE}]
At(b, h) == b.at = "query" /\ h = Protected[b.host]

HostInv(b, ov, tds, h) ==
  IF h \in DOMAIN ov
    THEN \E t \in tds : t.any /\ \A a \in ov[h] : a.server = t.server
    ELSE /\ \A t \in tds : /\ t \in [server : DOMAIN DohServers, any : BOOLEAN]
                           /\ t.any => At(b, h) /\ b.collected # {}
         /\ h \in DoneHosts(b) => Refusals \subseteq tds

CursorInv(b, tds) ==
  /\ b.host \in DOMAIN Protected /\ b.server \in DOMAIN DohServers
  /\ \A s \in 1 .. b.server - 1 : [server |-> s, any |-> FALSE] \in tds
  /\ b.rtype = "A" => b.collected = {}
  /\ b.rtype = "AAAA" =>
       [server |-> b.server, any |-> b.collected # {}] \in tds
  /\ \A a \in b.collected : a.server = b.server

CursorType ==
  [at : {"proxy", "failed", "query", "ready"}, host : Nat, server : Nat,
   rtype : {"A", "AAAA"}, collected : SUBSET [server : Nat, type : {1, 28}]]

DohInv ==
  /\ building \in CursorType
  /\ told \in [ProtectedHosts -> SUBSET [server : DOMAIN DohServers, any : BOOLEAN]]
  /\ mode = "doh" => \A h \in ProtectedHosts : HostInv(building, overrides, told[h], h)
  /\ building.at = "query" =>
       mode = "doh" /\ CursorInv(building, told[Protected[building.host]])
  /\ building.at = "proxy" =>
       building = Cursor /\ overrides = <<>> /\ told = [h \in ProtectedHosts |-> {}]

ClientInv ==
  /\ use \in [User -> Call] /\ (\A u \in User : CallInv(use[u]))
  /\ DohInv

LEMMA DohSequences == /\ DOMAIN Protected = 1 .. Len(Protected) /\ Len(Protected) \in Nat
                   /\ DOMAIN DohServers = 1 .. Len(DohServers) /\ Len(DohServers) \in Nat
                   /\ (Protected # <<>> => 1 \in DOMAIN Protected)
                   /\ (DohServers # <<>> => 1 \in DOMAIN DohServers)
  <1>1. Protected \in Seq(STRING) /\ DohServers \in Seq(STRING)
    BY ClientAssumption
  <1>2. /\ DOMAIN Protected = 1 .. Len(Protected) /\ Len(Protected) \in Nat
        /\ DOMAIN DohServers = 1 .. Len(DohServers) /\ Len(DohServers) \in Nat
    BY <1>1, Indices
  <1>3. (Protected # <<>> => Len(Protected) # 0) /\ (DohServers # <<>> => Len(DohServers) # 0)
    BY <1>1, EmptySeq
  <1> QED BY <1>2, <1>3

LEMMA ClientStarts == ClientInit => ClientInv
  <1> SUFFICES ASSUME ClientInit PROVE ClientInv
    OBVIOUS
  <1>1. use \in [User -> Call]
    BY NoUseIsCall DEF ClientInit
  <1>2. CallInv(NoUse)
    <2>1. NoUse.op = "none" /\ NoUse.host = Nobody /\ NoUse.answer = "none"
      BY DEF NoUse
    <2> QED BY <2>1, NoUseIsCall DEF CallInv, AllAsked
  <1>3. \A u \in User : CallInv(use[u])
    BY <1>2 DEF ClientInit
  <1>4. building = Cursor /\ overrides = <<>> /\ told = [h \in ProtectedHosts |-> {}]
    BY DEF ClientInit
  <1>5. building \in CursorType /\ building.at = "proxy" /\ DoneHosts(building) = {}
    <2>1. building.host = 1 /\ building.at = "proxy"
      BY <1>4 DEF Cursor
    <2>2. DoneHosts(building) = {}
      BY <2>1, DohSequences DEF DoneHosts
    <2> QED BY <1>4, <2>1, <2>2 DEF Cursor, CursorType
  <1>6. \A h \in ProtectedHosts : HostInv(building, overrides, told[h], h)
    BY <1>4, <1>5 DEF HostInv
  <1>7. DohInv
    BY <1>4, <1>5, <1>6 DEF DohInv
  <1> QED BY <1>1, <1>3, <1>7 DEF ClientInv

(* Nothing that was told is left unused: what holds between two hosts.     *)
HostAsTold(ov, tds, h) ==
  IF h \in DOMAIN ov
    THEN \E t \in tds : t.any /\ \A a \in ov[h] : a.server = t.server
    ELSE \A t \in tds : t \in [server : DOMAIN DohServers, any : BOOLEAN] /\ ~t.any

LEMMA NextHostKept ==
  ASSUME NEW b \in CursorType, b.at = "query", b.host \in DOMAIN Protected, NEW ov, NEW td,
         \A h \in ProtectedHosts : HostAsTold(ov, td[h], h),
         \A h \in DoneHosts(b) \cup {Protected[b.host]} :
           h \in DOMAIN ov \/ Refusals \subseteq td[h]
  PROVE  LET c == NextHost(b) IN
         /\ c \in CursorType /\ c.at \in {"query", "ready"}
         /\ \A h \in ProtectedHosts : HostInv(c, ov, td[h], h)
         /\ c.at = "query" /\ DohServers # <<>> => CursorInv(c, td[Protected[c.host]])
  <1> DEFINE c == NextHost(b)
  <1>1. /\ c \in CursorType /\ c.at \in {"query", "ready"}
        /\ DoneHosts(c) \subseteq DoneHosts(b) \cup {Protected[b.host]}
    <2>1. CASE b.host = Len(Protected)
      <3>1. c = [b EXCEPT !.at = "ready"]
        BY <2>1 DEF NextHost
      <3> HIDE DEF c
      <3>2. c \in CursorType /\ c.at = "ready"
        BY <3>1 DEF CursorType
      <3>3. \A i \in DOMAIN Protected : i = b.host \/ i < b.host
        BY <2>1, DohSequences
      <3>4. ProtectedHosts \subseteq DoneHosts(b) \cup {Protected[b.host]}
        BY <3>3 DEF ProtectedHosts, DoneHosts
      <3> QED BY <3>2, <3>4 DEF DoneHosts
    <2>2. CASE b.host # Len(Protected)
      <3>1. c = [b EXCEPT !.host = @ + 1, !.server = 1, !.rtype = "A", !.collected = {}]
        BY <2>2 DEF NextHost
      <3> HIDE DEF c
      <3>0. b.host + 1 \in Nat /\ 1 \in Nat /\ {} \in SUBSET [server : Nat, type : {1, 28}]
        BY DEF CursorType
      <3>2. c \in CursorType /\ c.at = "query" /\ c.host = b.host + 1
        BY <3>0, <3>1 DEF CursorType
      <3>3. \A i \in DOMAIN Protected : i < b.host + 1 => i = b.host \/ i < b.host
        BY DohSequences
      <3>4. DoneHosts(c) \subseteq DoneHosts(b) \cup {Protected[b.host]}
        BY <3>2, <3>3 DEF ProtectedHosts, DoneHosts
      <3> QED BY <3>2, <3>4
    <2> QED BY <2>1, <2>2
  <1>2. c.at = "query" =>
          /\ c.host \in DOMAIN Protected /\ c.server = 1 /\ c.rtype = "A" /\ c.collected = {}
    <2> SUFFICES ASSUME c.at = "query" PROVE
          /\ c.host \in DOMAIN Protected /\ c.server = 1 /\ c.rtype = "A" /\ c.collected = {}
      OBVIOUS
    <2>1. b.host # Len(Protected)
      BY DEF NextHost, CursorType
    <2>2. c = [b EXCEPT !.host = @ + 1, !.server = 1, !.rtype = "A", !.collected = {}]
      BY <2>1 DEF NextHost
    <2> HIDE DEF c
    <2>3. c.host = b.host + 1 /\ c.server = 1 /\ c.rtype = "A" /\ c.collected = {}
      BY <2>2 DEF CursorType
    <2>4. b.host + 1 \in DOMAIN Protected
      BY <2>1, DohSequences
    <2> QED BY <2>3, <2>4
  <1> HIDE DEF c
  <1>3. ASSUME NEW h \in ProtectedHosts PROVE HostInv(c, ov, td[h], h)
    BY <1>1 DEF HostInv, HostAsTold
  <1>4. c.at = "query" /\ DohServers # <<>> => CursorInv(c, td[Protected[c.host]])
    <2> SUFFICES ASSUME c.at = "query", DohServers # <<>>
                 PROVE  CursorInv(c, td[Protected[c.host]])
      OBVIOUS
    <2>1. 1 \in DOMAIN DohServers /\ 1 .. 1 - 1 = {}
      BY DohSequences
    <2> QED BY <1>2, <2>1 DEF CursorInv
  <1> QED BY <1>1, <1>3, <1>4 DEF c

LEMMA ProxyKept == DohInv /\ BuildProxy => DohInv'
  <1> SUFFICES ASSUME DohInv, BuildProxy PROVE DohInv'
    OBVIOUS
  <1>1. /\ building = Cursor /\ overrides = <<>> /\ told = [h \in ProtectedHosts |-> {}]
        /\ UNCHANGED <<mode, told>>
    BY DEF DohInv, BuildProxy
  <1>2. DOMAIN overrides = {} /\ \A h \in ProtectedHosts : told[h] = {}
    BY <1>1
  <1>3. told' \in [ProtectedHosts -> SUBSET [server : DOMAIN DohServers, any : BOOLEAN]]
    BY <1>1
  <1> DEFINE To(place) == [building EXCEPT !.at = place]
  <1>4. ASSUME NEW place \in {"failed", "query", "ready"}
        PROVE  /\ To(place) \in CursorType /\ To(place).at = place
               /\ To(place).host = 1 /\ To(place).server = 1 /\ To(place).rtype = "A"
               /\ To(place).collected = {}
    BY <1>1 DEF Cursor, CursorType
  <1>5. CASE building' = To("failed") /\ UNCHANGED overrides
    <2>1. building' \in CursorType /\ building'.at = "failed" /\ building'.host = 1
      BY <1>4, <1>5
    <2>2. DoneHosts(building') = {}
      BY <2>1, DohSequences DEF DoneHosts
    <2>3. \A h \in ProtectedHosts : HostInv(building', overrides', told'[h], h)
      BY <1>1, <1>2, <1>5, <2>2 DEF HostInv
    <2> QED BY <1>3, <2>1, <2>3 DEF DohInv
  <1>6. CASE Resolving /\ building' = To("query") /\ UNCHANGED overrides
    <2>1. /\ building' \in CursorType /\ building'.at = "query" /\ building'.host = 1
          /\ building'.server = 1 /\ building'.rtype = "A" /\ building'.collected = {}
      BY <1>4, <1>6
    <2>2. DoneHosts(building') = {}
      BY <2>1, DohSequences DEF DoneHosts
    <2>3. \A h \in ProtectedHosts : HostInv(building', overrides', told'[h], h)
      BY <1>1, <1>2, <1>6, <2>2 DEF HostInv
    <2>4. mode = "doh" /\ 1 \in DOMAIN Protected /\ 1 \in DOMAIN DohServers /\ 1 .. 1 - 1 = {}
      BY <1>6, DohSequences DEF Resolving
    <2>5. CursorInv(building', told'[Protected[building'.host]])
      BY <2>1, <2>4 DEF CursorInv
    <2> QED BY <1>1, <1>3, <2>1, <2>3, <2>4, <2>5 DEF DohInv
  <1>7. CASE ~Resolving /\ building' = To("ready")
             /\ overrides' = IF mode = "static" THEN [h \in StaticHosts |-> StaticMap[h]]
                                                ELSE overrides
    <2>1. building' \in CursorType /\ building'.at = "ready"
      BY <1>4, <1>7
    <2>2. ASSUME mode = "doh", NEW h \in ProtectedHosts
          PROVE  HostInv(building', overrides', told'[h], h)
      <3>1. Protected = <<>> \/ DohServers = <<>>
        BY <1>7, <2>2 DEF Resolving
      <3>2. DohServers = <<>> => Refusals = {}
        BY DEF Refusals
      <3>3. Protected = <<>> => ProtectedHosts = {}
        BY DEF ProtectedHosts
      <3>4. overrides' = overrides
        BY <1>7, <2>2
      <3> QED BY <1>1, <1>2, <2>2, <3>1, <3>2, <3>3, <3>4 DEF HostInv
    <2> QED BY <1>1, <1>3, <2>1, <2>2 DEF DohInv
  <1> QED BY <1>5, <1>6, <1>7 DEF BuildProxy

LEMMA QueryKept ==
  ASSUME DohInv, NEW found \in SUBSET {1, 28}, Query(found) PROVE DohInv'
  <1> DEFINE b == building
             h == Protected[b.host]
             ask == [server |-> b.server, any |-> found # {}]
             got == {[server |-> b.server, type |-> t] : t \in found}
             all == b.collected \cup got
             c == building'
             ov == overrides
             td == told'
  <1>1. /\ b \in CursorType /\ b.at = "query" /\ mode = "doh" /\ CursorInv(b, told[h])
        /\ UNCHANGED mode /\ h \in ProtectedHosts
    BY DEF DohInv, Query, CursorInv, ProtectedHosts, UsesAlone
  <1>2. /\ told \in [ProtectedHosts -> SUBSET [server : DOMAIN DohServers, any : BOOLEAN]]
        /\ td = [told EXCEPT ![h] = @ \cup {ask}]
        /\ \A x \in ProtectedHosts : HostInv(b, ov, told[x], x)
    BY <1>1 DEF DohInv, Query
  <1>3. /\ IF b.rtype = "A"
             THEN c = [b EXCEPT !.rtype = "AAAA", !.collected = all] /\ UNCHANGED overrides
             ELSE IF all = {}
             THEN c = NextServer(b) /\ UNCHANGED overrides
             ELSE c = NextHost(b) /\ overrides' = Overriding(h, all)
    BY DEF Query
  <1>4. /\ b.host \in DOMAIN Protected /\ b.server \in DOMAIN DohServers /\ b.server \in Nat
        /\ \A s \in 1 .. b.server - 1 : [server |-> s, any |-> FALSE] \in told[h]
        /\ b.rtype = "A" => b.collected = {}
        /\ b.rtype = "AAAA" => [server |-> b.server, any |-> b.collected # {}] \in told[h]
        /\ \A a \in b.collected : a.server = b.server
        /\ b.rtype \in {"A", "AAAA"} /\ DohServers # <<>>
    <2>1. b.rtype \in {"A", "AAAA"} /\ b.server \in Nat
      BY <1>1 DEF CursorType
    <2>2. b.server \in DOMAIN DohServers
      BY <1>1 DEF CursorInv
    <2>3. DohServers # <<>>
      BY <2>2
    <2> QED BY <1>1, <2>1, <2>3 DEF CursorInv
  <1>5. /\ all \in SUBSET [server : Nat, type : {1, 28}] /\ \A a \in all : a.server = b.server
        /\ (got = {} <=> found = {}) /\ (all = {} <=> b.collected = {} /\ found = {})
    <2>1. got \in SUBSET [server : Nat, type : {1, 28}] /\ \A a \in got : a.server = b.server
      BY <1>4
    <2>2. got = {} <=> found = {}
      OBVIOUS
    <2>3. b.collected \in SUBSET [server : Nat, type : {1, 28}]
      BY <1>1 DEF CursorType
    <2> QED BY <1>4, <2>1, <2>2, <2>3
  <1>6. /\ ask \in [server : DOMAIN DohServers, any : BOOLEAN] /\ ask.server = b.server
        /\ (ask.any <=> found # {})
    BY <1>4
  <1>u. \A t \in told[h] : t \in [server : DOMAIN DohServers, any : BOOLEAN]
    BY <1>1, <1>2
  <1> HIDE DEF b, h, ask, got, all, c, ov, td
  <1>7. /\ td \in [ProtectedHosts -> SUBSET [server : DOMAIN DohServers, any : BOOLEAN]]
        /\ td[h] = told[h] \cup {ask} /\ \A x \in ProtectedHosts : x # h => td[x] = told[x]
    BY <1>1, <1>2, <1>6
  <1> DEFINE Goal ==
        /\ c \in CursorType /\ c.at \in {"query", "ready"}
        /\ \A x \in ProtectedHosts : HostInv(c, overrides', td[x], x)
        /\ c.at = "query" => CursorInv(c, td[Protected[c.host]])
  <1> SUFFICES Goal
    BY <1>1, <1>7 DEF DohInv, c, td
  <1>8. CASE b.rtype = "A"
    <2>1. c = [b EXCEPT !.rtype = "AAAA", !.collected = all] /\ overrides' = ov
      BY <1>3, <1>8 DEF ov
    <2>2. /\ c \in CursorType /\ c.at = "query" /\ c.rtype = "AAAA" /\ c.collected = all
          /\ c.host = b.host /\ c.server = b.server
      BY <1>1, <1>5, <2>1 DEF CursorType
    <2>3. DoneHosts(c) = DoneHosts(b) /\ \A x : At(c, x) <=> x = h
      BY <1>1, <2>2 DEF DoneHosts, At, h
    <2>4. ASSUME NEW x \in ProtectedHosts PROVE HostInv(c, ov, td[x], x)
      <3>1. HostInv(b, ov, told[x], x) /\ told[x] \subseteq td[x]
        BY <1>2, <1>7
      <3>2. CASE x \in DOMAIN ov
        BY <3>1, <3>2 DEF HostInv
      <3>3. CASE x \notin DOMAIN ov
        <4>1. ASSUME NEW t \in td[x]
              PROVE  /\ t \in [server : DOMAIN DohServers, any : BOOLEAN]
                     /\ t.any => At(c, x) /\ all # {}
          <5>1. CASE t \in told[x]
            BY <1>4, <1>8, <3>1, <3>3, <5>1 DEF HostInv
          <5>2. CASE x = h /\ t = ask
            BY <1>5, <1>6, <2>3, <5>2
          <5> QED BY <1>7, <5>1, <5>2
        <4>2. x \in DoneHosts(c) => Refusals \subseteq td[x]
          BY <2>3, <3>1, <3>3 DEF HostInv
        <4> QED BY <2>2, <3>3, <4>1, <4>2 DEF HostInv
      <3> QED BY <3>2, <3>3
    <2>5. CursorInv(c, td[h])
      <3>1. [server |-> c.server, any |-> c.collected # {}] \in td[h]
        <4>1. ask = [server |-> b.server, any |-> all # {}]
          BY <1>4, <1>5, <1>8 DEF ask
        <4> QED BY <1>7, <2>2, <4>1
      <3>2. \A s \in 1 .. c.server - 1 : [server |-> s, any |-> FALSE] \in td[h]
        BY <1>4, <1>7, <2>2
      <3> QED BY <1>4, <1>5, <2>2, <3>1, <3>2 DEF CursorInv
    <2>6. Protected[c.host] = h
      BY <2>2 DEF h
    <2>7. Goal
      BY <2>1, <2>2, <2>4, <2>5, <2>6
    <2> QED BY <2>7
  <1>9. CASE b.rtype = "AAAA" /\ all = {}
    <2>1. c = NextServer(b) /\ overrides' = ov /\ b.collected = {} /\ found = {}
      BY <1>3, <1>5, <1>9 DEF ov
    <2>2. [server |-> b.server, any |-> FALSE] \in td[h]
      <3>1. [server |-> b.server, any |-> FALSE] \in told[h]
        BY <1>4, <1>9, <2>1
      <3> QED BY <1>7, <3>1
    <2>3. ASSUME NEW x \in ProtectedHosts PROVE HostAsTold(ov, td[x], x)
      <3>1. HostInv(b, ov, told[x], x)
        BY <1>2
      <3>2. \A t \in td[x] : t \in told[x] \/ t = ask
        BY <1>7
      <3>3. ~ask.any
        BY <1>6, <2>1
      <3>4. told[x] \subseteq td[x]
        BY <1>7
      <3> QED BY <1>6, <2>1, <3>1, <3>2, <3>3, <3>4 DEF HostInv, HostAsTold
    <2>4. \A x \in ProtectedHosts : x \in DoneHosts(b) => x \in DOMAIN ov \/ Refusals \subseteq td[x]
      BY <1>2, <1>7 DEF HostInv
    <2>5. CASE b.server = Len(DohServers)
      <3>1. Refusals \subseteq td[h]
        <4> SUFFICES ASSUME NEW t \in Refusals PROVE t \in td[h]
          OBVIOUS
        <4>1. PICK s \in DOMAIN DohServers : t = [server |-> s, any |-> FALSE]
          BY DEF Refusals
        <4>2. s = b.server \/ s \in 1 .. b.server - 1
          BY <2>5, <4>1, DohSequences
        <4> QED BY <1>4, <1>7, <2>2, <4>1, <4>2
      <3>2. DoneHosts(b) \subseteq ProtectedHosts
        BY DEF DoneHosts, ProtectedHosts
      <3>3. c = NextHost(b)
        BY <2>1, <2>5 DEF NextServer
      <3>4. \A x \in DoneHosts(b) \cup {Protected[b.host]} :
              x \in DOMAIN ov \/ Refusals \subseteq td[x]
        BY <2>4, <3>1, <3>2 DEF h
      <3>5. Goal
        BY <1>1, <1>4, <2>1, <2>3, <3>3, <3>4, NextHostKept
      <3> QED BY <3>5
    <2>6. CASE b.server # Len(DohServers)
      <3>1. c = [b EXCEPT !.server = @ + 1, !.rtype = "A"]
        BY <2>1, <2>6 DEF NextServer
      <3>2. /\ c \in CursorType /\ c.at = "query" /\ c.rtype = "A" /\ c.collected = {}
            /\ c.host = b.host /\ c.server = b.server + 1
        <4>1. b.server + 1 \in Nat
          BY <1>4
        <4> QED BY <1>1, <2>1, <3>1, <4>1 DEF CursorType
      <3>3. DoneHosts(c) = DoneHosts(b)
        BY <1>1, <3>2 DEF DoneHosts
      <3>4. \A x \in ProtectedHosts : HostInv(c, ov, td[x], x)
        BY <2>3, <2>4, <3>3 DEF HostInv, HostAsTold
      <3>5. c.server \in DOMAIN DohServers
        BY <1>4, <2>6, <3>2, DohSequences
      <3>6. ASSUME NEW s \in 1 .. c.server - 1 PROVE [server |-> s, any |-> FALSE] \in td[h]
        <4>1. s = b.server \/ s \in 1 .. b.server - 1
          BY <1>4, <3>2
        <4> QED BY <1>4, <1>7, <2>2, <4>1
      <3>7. CursorInv(c, td[h])
        BY <1>4, <3>2, <3>5, <3>6 DEF CursorInv
      <3>8. Protected[c.host] = h
        BY <3>2 DEF h
      <3>9. Goal
        BY <2>1, <3>2, <3>4, <3>7, <3>8
      <3> QED BY <3>9
    <2> QED BY <2>5, <2>6
  <1>10. CASE b.rtype = "AAAA" /\ all # {}
    <2>1. c = NextHost(b) /\ overrides' = Overriding(h, all)
      BY <1>3, <1>10
    <2> DEFINE o == overrides'
    <2>2. DOMAIN o = DOMAIN ov \cup {h} /\ o[h] = all /\ \A x \in DOMAIN ov : x # h => o[x] = ov[x]
      BY <2>1 DEF Overriding, ov
    <2> HIDE DEF o
    <2>3. \E t \in td[h] : t.any /\ t.server = b.server
      <3>1. CASE found # {}
        BY <1>6, <1>7, <3>1
      <3>2. CASE b.collected # {}
        <4>1. [server |-> b.server, any |-> TRUE] \in told[h]
          BY <1>4, <1>10, <3>2
        <4> QED BY <1>7, <4>1
      <3> QED BY <1>5, <1>10, <3>1, <3>2
    <2>4. ASSUME NEW x \in ProtectedHosts PROVE HostAsTold(o, td[x], x)
      <3>1. CASE x = h
        BY <1>5, <2>2, <2>3, <3>1 DEF HostAsTold
      <3>2. CASE x # h
        <4>1. HostInv(b, ov, told[x], x) /\ td[x] = told[x] /\ ~At(b, x)
          BY <1>2, <1>7, <3>2 DEF At, h
        <4> QED BY <2>2, <3>2, <4>1 DEF HostInv, HostAsTold
      <3> QED BY <3>1, <3>2
    <2>5. DoneHosts(b) \subseteq ProtectedHosts
      BY DEF DoneHosts, ProtectedHosts
    <2>6. \A x \in DoneHosts(b) \cup {Protected[b.host]} : x \in DOMAIN o \/ Refusals \subseteq td[x]
      <3> SUFFICES ASSUME NEW x \in DoneHosts(b) \cup {Protected[b.host]}, x \notin DOMAIN o
                   PROVE  Refusals \subseteq td[x]
        OBVIOUS
      <3>1. x # h /\ x \in DoneHosts(b) /\ x \in ProtectedHosts /\ x \notin DOMAIN ov
        BY <2>2, <2>5 DEF h
      <3> QED BY <1>2, <1>7, <3>1 DEF HostInv
    <2>7. Goal
      BY <1>1, <1>4, <2>1, <2>4, <2>6, NextHostKept DEF o
    <2> QED BY <2>7
  <1> QED BY <1>4, <1>8, <1>9, <1>10

-----------------------------------------------------------------------------
LEMMA CallsKept ==
  ASSUME ClientInv, NEW u \in User, NEW l \in Call, CallInv(l), use' = [use EXCEPT ![u] = l]
  PROVE  use' \in [User -> Call] /\ \A v \in User : CallInv(use'[v])
  <1>1. use \in [User -> Call] /\ \A v \in User : CallInv(use[v])
    BY DEF ClientInv
  <1>2. \A v \in User : use'[v] = IF v = u THEN l ELSE use[v]
    BY <1>1
  <1>3. use' \in [User -> Call]
    BY <1>1
  <1> QED BY <1>1, <1>2, <1>3

LEMMA InCall == ASSUME NEW l, CallInv(l) PROVE l \in Call
  BY DEF CallInv

(* A step of a call changes nothing that was resolved.                     *)
LEMMA CallStep ==
  ASSUME ClientInv, NEW u \in User, NEW l, CallInv(l), use' = [use EXCEPT ![u] = l],
         UNCHANGED <<mode, building, overrides, told>>
  PROVE  ClientInv'
  <1>1. use' \in [User -> Call] /\ \A v \in User : CallInv(use'[v])
    BY CallsKept, InCall
  <1>2. DohInv'
    BY DEF ClientInv, DohInv
  <1> QED BY <1>1, <1>2 DEF ClientInv

LEMMA AnswersAreRecords == ASSUME NEW b PROVE ParseDohJson(b) \in SUBSET {1, 28}
  BY DEF ParseDohJson

LEMMA TryKept == ASSUME ClientInv, NEW u \in User, TryCandidate(u) PROVE ClientInv'
  <1> DEFINE l == use[u]
             k == Sent(l)
  <1>1. CallInv(l) /\ l.op = "get" /\ k.tries = l.tries
    <2>1. CallInv(l) /\ l.op = "get"
      BY DEF ClientInv, TryCandidate
    <2>2. l \in Call /\ Len(l.todo) > 0
      BY <2>1 DEF CallInv
    <2> QED BY <2>1, <2>2, SentFields
  <1>2. \/ Becomes(u, [k EXCEPT !.op = "again"])
        \/ GiveUpUrl(u, k)
        \/ k.tries < GetRetries /\ Becomes(u, [k EXCEPT !.tries = @ + 1])
    BY DEF TryCandidate
  <1>3. CASE Becomes(u, [k EXCEPT !.op = "again"])
    <2>1. CallInv([k EXCEPT !.op = "again"])
      BY <1>1, AgainKept
    <2> QED BY <1>3, <2>1, CallStep DEF Becomes
  <1>4. CASE k.tries < GetRetries /\ Becomes(u, [k EXCEPT !.tries = @ + 1])
    <2>1. CallInv([k EXCEPT !.tries = @ + 1])
      BY <1>1, <1>4, RetryKept
    <2> QED BY <1>4, <2>1, CallStep DEF Becomes
  <1>5. CASE GiveUpUrl(u, k)
    <2>1. CASE Rest(k) = <<>>
      <3>1. CallInv([k EXCEPT !.op = "none", !.todo = <<>>, !.answer = "refused"])
        BY <1>1, <2>1, ReturnKept
      <3> QED BY <1>5, <2>1, <3>1, CallStep DEF GiveUpUrl, Returns, Becomes
    <2>2. CASE Rest(k) # <<>>
      <3>1. CallInv([k EXCEPT !.todo = Rest(k), !.tries = 0])
        BY <1>1, <2>2, NextUrlKept
      <3> QED BY <1>5, <2>2, <3>1, CallStep DEF GiveUpUrl, Becomes
    <2> QED BY <2>1, <2>2
  <1> QED BY <1>2, <1>3, <1>4, <1>5

LEMMA GetAgainKept == ASSUME ClientInv, NEW u \in User, GetAgain(u) PROVE ClientInv'
  <1>1. PICK a \in {"response", "error_page", "broken"} : Returns(u, Sent(use[u]), a)
    BY DEF GetAgain
  <1>2. CallInv(use[u]) /\ use[u].op \in {"get", "again"}
    BY DEF ClientInv, GetAgain
  <1>3. CallInv([Sent(use[u]) EXCEPT !.op = "none", !.todo = <<>>, !.answer = a])
    BY <1>2, ReturnKept
  <1> QED BY <1>1, <1>3, CallStep DEF Returns, Becomes

LEMMA ProbeKept == ASSUME ClientInv, NEW u \in User, Probe(u) PROVE ClientInv'
  <1> DEFINE l == use[u]
  <1>1. CallInv(l) /\ l.op = "measure" /\ l.todo # <<>>
    BY DEF ClientInv, Probe
  <1>2. l.todo \in Seq(Urls)
    BY <1>1 DEF CallInv, Call
  <1>3. Len(l.todo) > 0
    BY <1>1, <1>2, EmptySeq
  <1>4. Head(l.todo).via \in Via
    <2>1. Head(l.todo) \in Urls
      BY <1>2, <1>3, TailVias
    <2> QED BY <2>1 DEF Urls
  <1>5. \E m \in Measurement : Measured(u, m)
    <2>1. CASE \E t \in Latency : Measured(u, [id |-> Head(l.todo).via, ok |-> TRUE, latency |-> t])
      <3>1. PICK t \in Latency : Measured(u, [id |-> Head(l.todo).via, ok |-> TRUE, latency |-> t])
        BY <2>1
      <3>2. t \in Nat
        BY Retries
      <3> QED BY <1>4, <3>1, <3>2 DEF Measurement
    <2>2. CASE Measured(u, [id |-> Head(l.todo).via, ok |-> FALSE, latency |-> 0])
      BY <1>4, <2>2 DEF Measurement
    <2> QED BY <2>1, <2>2 DEF Probe
  <1>6. PICK m \in Measurement : Measured(u, m)
    BY <1>5
  <1>7. CallInv([Sent(l) EXCEPT !.todo = Tail(@), !.measured = Append(@, m)])
    BY <1>1, <1>3, MeasuredKept
  <1> QED BY <1>6, <1>7, CallStep DEF Measured, Becomes

LEMMA PinKept == ASSUME ClientInv, NEW u \in User, PinBest(u) PROVE ClientInv'
  <1>1. CallInv(use[u]) /\ use[u].op = "measure"
    BY DEF ClientInv, PinBest
  <1>2. CallInv([use[u] EXCEPT !.op = "none", !.answer = "tested"])
    BY <1>1, TestedKept
  <1>3. use' = [use EXCEPT ![u] = [use[u] EXCEPT !.op = "none", !.answer = "tested"]]
    BY DEF PinBest, ClientInv
  <1> QED BY <1>2, <1>3, CallStep DEF PinBest

LEMMA ClientKept == ClientInv /\ [ClientNext]_clientVars => ClientInv'
  <1> SUFFICES ASSUME ClientInv, [ClientNext]_clientVars PROVE ClientInv'
    OBVIOUS
  <1>1. ASSUME DohInv', UNCHANGED use PROVE ClientInv'
    BY <1>1 DEF ClientInv
  <1>2. CASE BuildProxy
    <2>1. DohInv'
      BY <1>2, ProxyKept DEF ClientInv
    <2> QED BY <1>1, <1>2, <2>1 DEF BuildProxy, UsesAlone
  <1>3. ASSUME NEW found \in SUBSET {1, 28}, Query(found) PROVE ClientInv'
    <2>1. DohInv'
      BY <1>3, QueryKept DEF ClientInv
    <2> QED BY <1>1, <1>3, <2>1 DEF Query, UsesAlone
  <1>4. CASE QueryAnswers
    BY <1>3, <1>4, AnswersAreRecords DEF QueryAnswers
  <1>5. CASE QueryFails
    BY <1>3, <1>5 DEF QueryFails
  <1>6. ASSUME NEW u \in User, NEW h \in Host, GetUrl(u, h) PROVE ClientInv'
    BY <1>6, NewCall, CallStep DEF GetUrl, Begins
  <1>7. ASSUME NEW u \in User, SpeedTest(u) PROVE ClientInv'
    BY <1>7, TestStarts, CallStep DEF SpeedTest, Begins
  <1>8. ASSUME NEW u \in User, UseStep(u) PROVE ClientInv'
    BY <1>8, TryKept, GetAgainKept, ProbeKept, PinKept DEF UseStep
  <1>9. CASE UNCHANGED clientVars
    <2>1. DohInv'
      BY <1>9 DEF clientVars, ClientInv, DohInv
    <2> QED BY <1>1, <1>9, <2>1 DEF clientVars
  <1> QED BY <1>2, <1>4, <1>5, <1>6, <1>7, <1>8, <1>9 DEF ClientNext, ClientFinished

LEMMA ResolvedAsTold == ClientInv => ProtectedAsTold
  <1> SUFFICES ASSUME ClientInv, mode = "doh", building.at = "ready",
                      NEW h \in ProtectedHosts
               PROVE  IF h \in DOMAIN overrides
                        THEN \E t \in told[h] : t.any /\ \A a \in overrides[h] : a.server = t.server
                        ELSE told[h] = [server : DOMAIN DohServers, any : {FALSE}]
    BY DEF ProtectedAsTold
  <1>1. HostInv(building, overrides, told[h], h) /\ h \in DoneHosts(building)
        /\ ~At(building, h)
    BY DEF ClientInv, DohInv, DoneHosts, At
  <1>2. CASE h \in DOMAIN overrides
    BY <1>1, <1>2 DEF HostInv
  <1>3. CASE h \notin DOMAIN overrides
    <2>1. Refusals \subseteq told[h]
      BY <1>1, <1>3 DEF HostInv
    <2>2. ASSUME NEW t \in told[h] PROVE t \in Refusals
      <3>1. t \in [server : DOMAIN DohServers, any : BOOLEAN] /\ ~t.any
        BY <1>1, <1>3 DEF HostInv
      <3> QED BY <3>1 DEF Refusals
    <2>3. told[h] = Refusals
      BY <2>1, <2>2
    <2> QED BY <1>3, <2>3 DEF Refusals
  <1> QED BY <1>2, <1>3

(* Nothing that might have helped is passed over: a get is refused only    *)
(* after its origin and every mirror of its host were asked, none more     *)
(* often than the retries allow, a mirror is pinned only if it answered,   *)
(* and each protected host has the addresses of one upstream that told     *)
(* one, or every upstream told none.  For every list of mirrors, hosts and *)
(* upstreams, any retries and any number of concurrent calls.              *)
THEOREM NothingPassedOverHolds == ClientSpec => NothingPassedOver
  <1> DEFINE Pin ==
        \A u \in User : PinBest(u) =>
          LET m == use[u].measured IN
          \/ \E i \in DOMAIN m : m[i].ok /\ m[i].id = pinned'
          \/ (\A i \in DOMAIN m : ~m[i].ok) /\ pinned' = pinned
      Kept == (\A u \in User : AllAsked(use'[u])) /\ ProtectedAsTold' /\ Pin
  <1>1. ClientInit => ClientInv
    BY ClientStarts
  <1>2. ClientInv /\ [ClientNext]_clientVars => ClientInv'
    BY ClientKept
  <1>3. ClientInv /\ [ClientNext]_clientVars => [Kept]_clientVars
    <2> SUFFICES ASSUME ClientInv, [ClientNext]_clientVars PROVE Kept
      OBVIOUS
    <2>1. ClientInv'
      BY ClientKept
    <2>2. \A u \in User : AllAsked(use'[u])
      BY <2>1 DEF ClientInv, CallInv
    <2>3. ProtectedAsTold'
      BY <2>1, ResolvedAsTold, PTL
    <2>4. ASSUME NEW u \in User, PinBest(u)
          PROVE  LET m == use[u].measured IN
                 \/ \E i \in DOMAIN m : m[i].ok /\ m[i].id = pinned'
                 \/ (\A i \in DOMAIN m : ~m[i].ok) /\ pinned' = pinned
      <3> DEFINE m == use[u].measured
                 best == SelectBest(m)
      <3>1. m \in Seq(Measurement)
        BY DEF ClientInv, Call
      <3>2. pinned' = IF best = {} THEN pinned ELSE CHOOSE id \in best : TRUE
        BY <2>4 DEF PinBest
      <3> SUFFICES \/ \E i \in DOMAIN m : m[i].ok /\ m[i].id = pinned'
                   \/ (\A i \in DOMAIN m : ~m[i].ok) /\ pinned' = pinned
        OBVIOUS
      <3> HIDE DEF m
      <3>3. CASE best = {}
        BY <3>1, <3>2, <3>3, SomeBest
      <3>4. CASE best # {}
        <4>1. pinned' \in best
          <5> HIDE DEF best
          <5>1. pinned' = CHOOSE id \in best : TRUE
            BY <3>2, <3>4
          <5>2. (CHOOSE id \in best : TRUE) \in best
            BY <3>4
          <5> QED BY <5>1, <5>2
        <4> QED BY <4>1, BestAnswered
      <3> QED BY <3>3, <3>4
    <2> QED BY <2>2, <2>3, <2>4
  <1> QED BY <1>1, <1>2, <1>3, PTL DEF ClientSpec, NothingPassedOver
=================================================================================
