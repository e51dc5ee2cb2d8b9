------------------------------- MODULE AwtProofs --------------------------------
(***************************************************************************)
(* The AWT bridge, for every set of buttons and keys, every size of the    *)
(* outbox, the pipes and the desktop, and every scenario: what is on its   *)
(* way to the JVM ends with what the translator believes held, each record *)
(* carries the modifiers of its time, motion costs no press, and what the  *)
(* framebuffer lacks is dirty.                                             *)
(*                                                                         *)
(* The argument is about a reader of the stream of records: what it takes  *)
(* for down after n of them, how that changes when one is appended, shed   *)
(* from the middle or read, and that every handler sends records that tell *)
(* the reader what the translator holds after each of them.                *)
(***************************************************************************)
EXTENDS AwtHost, SubsequenceLemmas, FiniteSetTheorems, TLAPS

-----------------------------------------------------------------------------
(* What a reader that starts with p takes for down after the first n       *)
(* records of s: the newest record about x decides.                        *)
Believed(p, s, n, x) ==
  \/ \E i \in 1 .. n : /\ About(s[i], x) /\ s[i].id = "pressed"
                       /\ \A j \in i + 1 .. n : ~About(s[j], x)
  \/ x \in p /\ \A j \in 1 .. n : ~About(s[j], x)

\* What is held once r was sent, and that r tells it.
Then(h, r) ==
  CASE r.id = "pressed"  -> h \cup ({r.of} \cap Tracked)
    [] r.id = "released" -> h \ {r.of}
    [] OTHER             -> h
Tells(h, r) ==
  /\ r.mods = h
  /\ r.id \in {"moved", "dragged"} => (r.id = "dragged" <=> h \cap Buttons # {})

\* The reader of s ends with what is held; each record of s tells what its
\* reader believes then.
Converges(p, s, adrift, h) ==
  \A x \in Tracked \ adrift : Believed(p, s, Len(s), x) <=> x \in h
Truthful(p, s) ==
  \A n \in 1 .. Len(s) : Tells({x \in Tracked : Believed(p, s, n, x)}, s[n])

\* The records of q that are no motion.
Costly(q) == {i \in DOMAIN q : q[i].id \notin Motion}

BoxState == [box : Seq(Record), adrift : SUBSET Tracked, shed : BOOLEAN, burst : 0 .. MaxPending]

\* The outbox b behind the records `sent', for a reader that starts with p.
Arrives(p, sent, b, reset, h) ==
  /\ Converges(p, sent \o b.box, b.adrift, h)
  /\ ~b.shed /\ ~reset => Truthful(p, sent \o b.box)
Bounded(b, reset) ==
  /\ b \in BoxState /\ Len(b.box) <= MaxPending
  /\ Cardinality(Costly(b.box)) <= b.burst
  /\ ~b.shed /\ ~reset => b.adrift = {}

-----------------------------------------------------------------------------
Box == [box |-> outbox, adrift |-> lost.adrift, shed |-> lost.shed, burst |-> lost.burst]

InputInv ==
  /\ held \subseteq Tracked /\ origin \in Buttons \cup {"none"}
  /\ lost \in [adrift : SUBSET Tracked, shed : BOOLEAN, reset : BOOLEAN, burst : 0 .. MaxPending]
  /\ Bounded(Box, lost.reset)
  /\ jvm # "gone" => Arrives(pressed, events \o batch, Box, lost.reset, held)

PixelInv ==
  /\ size \in Sizes /\ dirty \subseteq 1 .. size
  /\ buffer \in [size : Sizes, stale : SUBSET Nat, skewed : BOOLEAN]
  /\ buffer.stale \subseteq 1 .. buffer.size
  /\ StaleIsDirty
  /\ buffer.size # size /\ ~buffer.skewed => dirty = 1 .. size

LinkInv ==
  /\ framePump \in {"none", "opening", "running", "done"}
  /\ eventPump \in {"none", "opening", "running", "writing", "done"}
  /\ batch \in Seq(Record) /\ (batch # <<>> <=> eventPump = "writing")
  /\ framePump = "none" => eventPump = "none"
  /\ stop \in BOOLEAN
  /\ closing \in {"no", "join", "closed"}
  /\ jvm \in {"absent", "up", "gone"}
  /\ pressed \subseteq Tracked \cup Keys /\ view \in Sizes
  /\ events \in Seq(Record) /\ Len(events) <= PipeSize
  /\ frames \in Seq(Frame) /\ Len(frames) <= PipeSize
  /\ left \in [desktop : Sizes, view : Sizes, inputs : Nat, frames : Nat, resizes : Nat]

HostInv == InputInv /\ PixelInv /\ LinkInv

-----------------------------------------------------------------------------
(* What a reader believes, one record more, less, or read.                 *)
LEMMA BelievedSame ==
  ASSUME NEW p, NEW s, NEW t, NEW n \in Nat, NEW x, \A i \in 1 .. n : s[i] = t[i]
  PROVE  Believed(p, s, n, x) <=> Believed(p, t, n, x)
  <1>1. \A i \in 1 .. n : \A j \in i + 1 .. n : j \in 1 .. n
    OBVIOUS
  <1> QED BY <1>1 DEF Believed

LEMMA BelievedNext ==
  ASSUME NEW p, NEW s, NEW n \in Nat, NEW x
  PROVE  Believed(p, s, n + 1, x) <=>
           IF About(s[n + 1], x) THEN s[n + 1].id = "pressed" ELSE Believed(p, s, n, x)
  <1>1. CASE About(s[n + 1], x)
    <2>1. ASSUME s[n + 1].id = "pressed" PROVE Believed(p, s, n + 1, x)
      <3>1. n + 1 \in 1 .. n + 1 /\ ~ \E j : j \in (n + 1) + 1 .. n + 1
        OBVIOUS
      <3> QED BY <1>1, <2>1, <3>1 DEF Believed
    <2>2. ASSUME Believed(p, s, n + 1, x) PROVE s[n + 1].id = "pressed"
      <3>1. n + 1 \in 1 .. n + 1
        OBVIOUS
      <3>2. PICK i \in 1 .. n + 1 : /\ About(s[i], x) /\ s[i].id = "pressed"
                                    /\ \A j \in i + 1 .. n + 1 : ~About(s[j], x)
        BY <1>1, <2>2, <3>1 DEF Believed
      <3>3. ~(n + 1 \in i + 1 .. n + 1)
        BY <1>1, <3>2
      <3>4. i = n + 1
        BY <3>3
      <3> QED BY <3>2, <3>4
    <2> QED BY <1>1, <2>1, <2>2
  <1>2. CASE ~About(s[n + 1], x)
    <2>1. \A j \in 1 .. n + 1 : j \in 1 .. n \/ j = n + 1
      OBVIOUS
    <2>2. (\A j \in 1 .. n + 1 : ~About(s[j], x)) <=> (\A j \in 1 .. n : ~About(s[j], x))
      BY <1>2, <2>1
    <2>3. \A i \in 1 .. n :
            (\A j \in i + 1 .. n + 1 : ~About(s[j], x)) <=> (\A j \in i + 1 .. n : ~About(s[j], x))
      <3> TAKE i \in 1 .. n
      <3>1. \A j : j \in i + 1 .. n + 1 <=> j \in i + 1 .. n \/ j = n + 1
        OBVIOUS
      <3> QED BY <1>2, <3>1
    <2>4. \A i \in 1 .. n + 1 : About(s[i], x) => i \in 1 .. n
      BY <1>2, <2>1
    <2>5. \A i \in 1 .. n : i \in 1 .. n + 1
      OBVIOUS
    <2> QED BY <1>2, <2>2, <2>3, <2>4, <2>5 DEF Believed
  <1> QED BY <1>1, <1>2

(* t is s without its record k, which was not the newest about x.          *)
Cut(s, t, k, n) ==
  /\ \A i \in 1 .. k - 1 : t[i] = s[i]
  /\ \A i \in k .. n - 1 : t[i] = s[i + 1]

LEMMA BelievedCut ==
  ASSUME NEW p, NEW s, NEW t, NEW n \in Nat, NEW k \in 1 .. n, NEW x, Cut(s, t, k, n),
         About(s[k], x) => \E j \in k + 1 .. n : About(s[j], x)
  PROVE  Believed(p, t, n - 1, x) <=> Believed(p, s, n, x)
  <1> DEFINE old(i) == IF i < k THEN i ELSE i + 1
  <1>1. \A i \in 1 .. n - 1 : old(i) \in 1 .. n /\ old(i) # k /\ t[i] = s[old(i)]
    BY DEF Cut
  <1>2. \A j \in 1 .. n : j # k => \E i \in 1 .. n - 1 : old(i) = j
    <2> TAKE j \in 1 .. n
    <2> HAVE j # k
    <2>1. CASE j < k
      <3>1. j \in 1 .. n - 1 /\ old(j) = j
        BY <2>1
      <3> QED BY <3>1
    <2>2. CASE j > k
      <3>1. j - 1 \in 1 .. n - 1 /\ old(j - 1) = j
        BY <2>2
      <3> QED BY <3>1
    <2> QED BY <2>1, <2>2
  <1>3. \A i, j \in 1 .. n - 1 : i < j <=> old(i) < old(j)
    OBVIOUS
  <1>4. n - 1 \in Int /\ \A i \in 1 .. n - 1 : old(i) \in Int
    OBVIOUS
  <1> HIDE DEF old
  <1>5. (\A j \in 1 .. n : ~About(s[j], x)) <=> (\A j \in 1 .. n - 1 : ~About(t[j], x))
    <2>1. ASSUME \A j \in 1 .. n - 1 : ~About(t[j], x), About(s[k], x) PROVE FALSE
      <3>1. PICK j \in k + 1 .. n : About(s[j], x)
        BY <2>1
      <3>2. j \in 1 .. n /\ j # k
        OBVIOUS
      <3> QED BY <1>1, <1>2, <2>1, <3>1, <3>2
    <2> QED BY <1>1, <1>2, <2>1
  <1>6. ASSUME NEW i \in 1 .. n - 1, About(t[i], x), \A j \in i + 1 .. n - 1 : ~About(t[j], x)
        PROVE  \A j \in old(i) + 1 .. n : ~About(s[j], x)
    <2>1. ASSUME NEW j \in old(i) + 1 .. n, j # k PROVE ~About(s[j], x)
      <3>1. j \in 1 .. n /\ old(i) < j
        BY <1>1, <1>4
      <3>2. PICK l \in 1 .. n - 1 : old(l) = j
        BY <1>2, <2>1, <3>1
      <3>3. i < l
        BY <1>3, <3>1, <3>2
      <3>4. l \in i + 1 .. n - 1
        BY <3>3
      <3> QED BY <1>1, <1>6, <3>2, <3>4
    <2>2. ASSUME k \in old(i) + 1 .. n PROVE ~About(s[k], x)
      <3>1. SUFFICES ASSUME About(s[k], x) PROVE FALSE
        OBVIOUS
      <3>2. PICK j \in k + 1 .. n : About(s[j], x)
        BY <3>1
      <3>3. j \in old(i) + 1 .. n /\ j # k
        BY <1>4, <2>2
      <3> QED BY <2>1, <3>2, <3>3
    <2> QED BY <2>1, <2>2
  <1>7. ASSUME NEW i \in 1 .. n, About(s[i], x), \A j \in i + 1 .. n : ~About(s[j], x)
        PROVE  \E l \in 1 .. n - 1 : old(l) = i /\ \A j \in l + 1 .. n - 1 : ~About(t[j], x)
    <2>1. i # k
      BY <1>7
    <2>2. PICK l \in 1 .. n - 1 : old(l) = i
      BY <1>2, <2>1
    <2>3. ASSUME NEW j \in l + 1 .. n - 1 PROVE ~About(t[j], x)
      <3>1. j \in 1 .. n - 1 /\ l < j
        OBVIOUS
      <3>2. old(j) \in i + 1 .. n
        BY <1>1, <1>3, <1>4, <2>2, <3>1
      <3> QED BY <1>1, <1>7, <3>1, <3>2
    <2> QED BY <2>2, <2>3
  <1>8. ASSUME Believed(p, t, n - 1, x) PROVE Believed(p, s, n, x)
    <2>1. CASE x \in p /\ \A j \in 1 .. n - 1 : ~About(t[j], x)
      BY <1>5, <2>1 DEF Believed
    <2>2. CASE \E i \in 1 .. n - 1 : /\ About(t[i], x) /\ t[i].id = "pressed"
                                      /\ \A j \in i + 1 .. n - 1 : ~About(t[j], x)
      <3>1. PICK i \in 1 .. n - 1 : /\ About(t[i], x) /\ t[i].id = "pressed"
                                    /\ \A j \in i + 1 .. n - 1 : ~About(t[j], x)
        BY <2>2
      <3>2. \A j \in old(i) + 1 .. n : ~About(s[j], x)
        BY <1>6, <3>1
      <3>3. old(i) \in 1 .. n /\ t[i] = s[old(i)]
        BY <1>1
      <3> QED BY <3>1, <3>2, <3>3 DEF Believed
    <2> QED BY <1>8, <2>1, <2>2 DEF Believed
  <1>9. ASSUME Believed(p, s, n, x) PROVE Believed(p, t, n - 1, x)
    <2>1. CASE x \in p /\ \A j \in 1 .. n : ~About(s[j], x)
      BY <1>5, <2>1 DEF Believed
    <2>2. CASE \E i \in 1 .. n : /\ About(s[i], x) /\ s[i].id = "pressed"
                                  /\ \A j \in i + 1 .. n : ~About(s[j], x)
      <3>1. PICK i \in 1 .. n : /\ About(s[i], x) /\ s[i].id = "pressed"
                                /\ \A j \in i + 1 .. n : ~About(s[j], x)
        BY <2>2
      <3>2. PICK l \in 1 .. n - 1 : old(l) = i /\ \A j \in l + 1 .. n - 1 : ~About(t[j], x)
        BY <1>7, <3>1
      <3>3. t[l] = s[i]
        BY <1>1, <3>2
      <3> QED BY <3>1, <3>2, <3>3 DEF Believed
    <2> QED BY <1>9, <2>1, <2>2 DEF Believed
  <1> QED BY <1>8, <1>9

(* The first record was read: q is what the reader believes then.          *)
LEMMA BelievedRead ==
  ASSUME NEW p, NEW q, NEW s, NEW t, NEW n \in Nat, NEW x, \A i \in 1 .. n : t[i] = s[i + 1],
         x \in q <=> IF About(s[1], x) THEN s[1].id = "pressed" ELSE x \in p
  PROVE  Believed(q, t, n, x) <=> Believed(p, s, n + 1, x)
  <1>1. \A j \in 1 .. n + 1 : j = 1 \/ (j - 1 \in 1 .. n /\ t[j - 1] = s[j])
    OBVIOUS
  <1>2. \A j \in 1 .. n : j + 1 \in 1 .. n + 1 /\ j + 1 \in 2 .. n + 1
    OBVIOUS
  <1>3. (\A j \in 1 .. n : ~About(t[j], x)) <=> (\A j \in 2 .. n + 1 : ~About(s[j], x))
    <2>1. \A j \in 2 .. n + 1 : j - 1 \in 1 .. n /\ t[j - 1] = s[j]
      OBVIOUS
    <2> QED BY <1>2, <2>1
  <1>4. \A i \in 1 .. n : (\A j \in i + 1 .. n : ~About(t[j], x))
                           <=> (\A j \in (i + 1) + 1 .. n + 1 : ~About(s[j], x))
    <2> TAKE i \in 1 .. n
    <2>1. \A j \in i + 1 .. n : j + 1 \in (i + 1) + 1 .. n + 1 /\ t[j] = s[j + 1]
      OBVIOUS
    <2>2. \A j \in (i + 1) + 1 .. n + 1 : j - 1 \in i + 1 .. n /\ t[j - 1] = s[j]
      OBVIOUS
    <2> QED BY <2>1, <2>2
  <1>5. (\E i \in 1 .. n : /\ About(t[i], x) /\ t[i].id = "pressed"
                            /\ \A j \in i + 1 .. n : ~About(t[j], x))
        <=> \E i \in 2 .. n + 1 : /\ About(s[i], x) /\ s[i].id = "pressed"
                                   /\ \A j \in i + 1 .. n + 1 : ~About(s[j], x)
    <2>1. ASSUME NEW i \in 1 .. n, About(t[i], x), t[i].id = "pressed",
                 \A j \in i + 1 .. n : ~About(t[j], x)
          PROVE  \E l \in 2 .. n + 1 : /\ About(s[l], x) /\ s[l].id = "pressed"
                                        /\ \A j \in l + 1 .. n + 1 : ~About(s[j], x)
      <3>1. i + 1 \in 2 .. n + 1 /\ s[i + 1] = t[i]
        OBVIOUS
      <3>2. \A j \in (i + 1) + 1 .. n + 1 : ~About(s[j], x)
        BY <1>4, <2>1
      <3> QED BY <2>1, <3>1, <3>2
    <2>2. ASSUME NEW l \in 2 .. n + 1, About(s[l], x), s[l].id = "pressed",
                 \A j \in l + 1 .. n + 1 : ~About(s[j], x)
          PROVE  \E i \in 1 .. n : /\ About(t[i], x) /\ t[i].id = "pressed"
                                    /\ \A j \in i + 1 .. n : ~About(t[j], x)
      <3>1. l - 1 \in 1 .. n /\ t[l - 1] = s[l] /\ (l - 1) + 1 = l
        OBVIOUS
      <3>2. \A j \in (l - 1) + 1 .. n : ~About(t[j], x)
        BY <1>4, <2>2, <3>1
      <3> QED BY <2>2, <3>1, <3>2
    <2> QED BY <2>1, <2>2
  <1>6. (\A j \in 1 .. n + 1 : ~About(s[j], x))
        <=> ~About(s[1], x) /\ \A j \in 2 .. n + 1 : ~About(s[j], x)
    <2>1. \A j : j \in 1 .. n + 1 <=> j = 1 \/ j \in 2 .. n + 1
      OBVIOUS
    <2> QED BY <2>1
  <1>7. (\E i \in 1 .. n + 1 : /\ About(s[i], x) /\ s[i].id = "pressed"
                                /\ \A j \in i + 1 .. n + 1 : ~About(s[j], x))
        <=> \/ \E i \in 2 .. n + 1 : /\ About(s[i], x) /\ s[i].id = "pressed"
                                      /\ \A j \in i + 1 .. n + 1 : ~About(s[j], x)
            \/ /\ About(s[1], x) /\ s[1].id = "pressed"
               /\ \A j \in 2 .. n + 1 : ~About(s[j], x)
    <2>1. \A j : j \in 1 .. n + 1 <=> j = 1 \/ j \in 2 .. n + 1
      OBVIOUS
    <2>2. 1 + 1 = 2
      OBVIOUS
    <2> QED BY <2>1, <2>2
  <1>8. Believed(p, s, n + 1, x) <=>
          \/ \E i \in 2 .. n + 1 : /\ About(s[i], x) /\ s[i].id = "pressed"
                                    /\ \A j \in i + 1 .. n + 1 : ~About(s[j], x)
          \/ x \in q /\ \A j \in 2 .. n + 1 : ~About(s[j], x)
    BY <1>6, <1>7 DEF Believed
  <1> QED BY <1>3, <1>5, <1>8 DEF Believed
(* A set of numbers up to n has a greatest one.                            *)
LEMMA Greatest ==
  ASSUME NEW n \in Nat, NEW T \in SUBSET (1 .. n), T # {}
  PROVE  Max(T) \in T /\ \A y \in T : y <= Max(T)
  <1> DEFINE D == {n - t : t \in T}
  <1>1. D \in SUBSET Nat /\ D # {}
    <2>1. \A t \in T : t \in Nat /\ t <= n /\ n - t \in Nat
      OBVIOUS
    <2>2. \E t \in T : n - t \in D
      OBVIOUS
    <2> QED BY <2>1, <2>2
  <1>2. PICK d \in D : \A y \in D : d <= y
    BY <1>1, Least
  <1>3. PICK t \in T : d = n - t
    OBVIOUS
  <1>4. \A y \in T : t >= y
    <2> TAKE y \in T
    <2>1. n - t <= n - y
      BY <1>2, <1>3
    <2>2. t \in Nat /\ y \in Nat
      OBVIOUS
    <2> QED BY <2>1, <2>2
  <1>5. Max(T) \in T /\ \A y \in T : Max(T) >= y
    BY <1>4 DEF Max
  <1>6. \A y \in T : y \in Nat
    OBVIOUS
  <1> QED BY <1>5, <1>6

LEMMA LeastIsMin ==
  ASSUME NEW T \in SUBSET Nat, T # {} PROVE Min(T) \in T /\ \A y \in T : Min(T) <= y
  <1>1. PICK x \in T : \A y \in T : x <= y
    BY Least
  <1> QED BY <1>1 DEF Min

LEMMA AfterMeans ==
  \A s \in Seq(Record) : \A n \in 0 .. Len(s) :
    After(s, n) = {x \in Tracked : Believed(pressed, s, n, x)}
  <1> TAKE s \in Seq(Record)
  <1> TAKE n \in 0 .. Len(s)
  <1>1. ASSUME NEW x \in Tracked PROVE x \in After(s, n) <=> Believed(pressed, s, n, x)
    <2> DEFINE about == {i \in 1 .. n : About(s[i], x)}
    <2>1. n \in Nat
      BY LenProperties
    <2>2. x \in After(s, n) <=> IF about = {} THEN x \in pressed ELSE s[Max(about)].id = "pressed"
      BY DEF After
    <2>3. CASE about = {}
      BY <2>2, <2>3 DEF Believed
    <2>4. CASE about # {}
      <3> DEFINE m == Max(about)
      <3>1. m \in about /\ \A y \in about : y <= m
        BY <2>1, <2>4, Greatest
      <3> HIDE DEF m
      <3>2. m \in 1 .. n /\ About(s[m], x)
        BY <3>1
      <3>3. \A j \in m + 1 .. n : ~About(s[j], x)
        <4> TAKE j \in m + 1 .. n
        <4>1. j \in 1 .. n /\ ~(j <= m)
          BY <3>2
        <4> QED BY <3>1, <4>1
      <3>4. \A i \in 1 .. n : About(s[i], x) /\ (\A j \in i + 1 .. n : ~About(s[j], x)) => i = m
        <4> TAKE i \in 1 .. n
        <4>1. HAVE About(s[i], x) /\ \A j \in i + 1 .. n : ~About(s[j], x)
        <4>2. i <= m
          BY <3>1, <4>1
        <4>3. ~(m \in i + 1 .. n)
          BY <3>2, <4>1
        <4> QED BY <3>2, <4>2, <4>3
      <3>5. Believed(pressed, s, n, x) <=> s[m].id = "pressed"
        BY <3>2, <3>3, <3>4 DEF Believed
      <3> QED BY <2>2, <2>4, <3>5 DEF m
    <2> QED BY <2>3, <2>4
  <1>2. After(s, n) \subseteq Tracked
    BY DEF After
  <1> QED BY <1>1, <1>2

-----------------------------------------------------------------------------
(* What enqueue sheds.                                                     *)
LEMMA Shed ==
  ASSUME NEW q \in Seq(Record), Len(q) > 0
  PROVE  /\ ShedIndex(q) \in 1 .. Len(q)
         /\ q[ShedIndex(q)].id \in Motion \/ (ShedIndex(q) = 1 /\ Costly(q) = 1 .. Len(q))
  <1> DEFINE motion == {i \in DOMAIN q : q[i].id \in Motion}
  <1>1. DOMAIN q = 1 .. Len(q) /\ Len(q) \in Nat
    BY Indices
  <1>2. CASE motion # {}
    <2>1. motion \in SUBSET Nat
      BY <1>1
    <2>2. Min(motion) \in motion
      BY <1>2, <2>1, LeastIsMin
    <2> QED BY <1>1, <1>2, <2>2 DEF ShedIndex
  <1>3. CASE motion = {}
    BY <1>1, <1>3 DEF ShedIndex, Costly
  <1> QED BY <1>2, <1>3

LEMMA Removed ==
  ASSUME NEW S, NEW q \in Seq(S), NEW k \in 1 .. Len(q)
  PROVE  /\ RemoveAt(q, k) \in Seq(S) /\ Len(RemoveAt(q, k)) = Len(q) - 1
         /\ Cut(q, RemoveAt(q, k), k, Len(q))
  <1>1. Len(q) \in Nat
    BY Indices
  <1> DEFINE a == SubSeq(q, 1, k - 1)
             b == SubSeq(q, k + 1, Len(q))
  <1>2. a \in Seq(S) /\ Len(a) = k - 1 /\ \A i \in 1 .. k - 1 : a[i] = q[i]
    BY <1>1, SubSeqProperties
  <1>3. /\ b \in Seq(S) /\ Len(b) = Len(q) - k
        /\ \A i \in 1 .. Len(q) - k : b[i] = q[k + i]
    BY <1>1, SubSeqProperties
  <1> HIDE DEF a, b
  <1>4. /\ a \o b \in Seq(S) /\ Len(a \o b) = Len(q) - 1
        /\ \A i \in 1 .. Len(a \o b) : (a \o b)[i] = IF i <= Len(a) THEN a[i] ELSE b[i - Len(a)]
    <2>1. /\ a \o b \in Seq(S) /\ Len(a \o b) = Len(a) + Len(b)
          /\ \A i \in 1 .. Len(a) + Len(b) :
               (a \o b)[i] = IF i <= Len(a) THEN a[i] ELSE b[i - Len(a)]
      BY <1>2, <1>3, ConcatProperties
    <2>2. Len(a) + Len(b) = Len(q) - 1
      BY <1>1, <1>2, <1>3
    <2> QED BY <2>1, <2>2
  <1>5. \A i \in 1 .. k - 1 : (a \o b)[i] = q[i]
    BY <1>1, <1>2, <1>4
  <1>6. \A i \in k .. Len(q) - 1 : (a \o b)[i] = q[i + 1]
    <2> TAKE i \in k .. Len(q) - 1
    <2>1. /\ i \in 1 .. Len(q) - 1 /\ ~(i <= k - 1) /\ i - (k - 1) \in 1 .. Len(q) - k
          /\ k + (i - (k - 1)) = i + 1
      BY <1>1
    <2> QED BY <1>2, <1>3, <1>4, <2>1
  <1> QED BY <1>4, <1>5, <1>6 DEF RemoveAt, a, b, Cut
-----------------------------------------------------------------------------
(* How many records of an outbox are no motion.                            *)
LEMMA Costs ==
  ASSUME NEW q \in Seq(Record)
  PROVE  /\ IsFiniteSet(Costly(q)) /\ Cardinality(Costly(q)) \in Nat
         /\ Cardinality(Costly(q)) <= Len(q)
         /\ Costly(q) = 1 .. Len(q) => Cardinality(Costly(q)) = Len(q)
  <1>1. DOMAIN q = 1 .. Len(q) /\ Len(q) \in Nat
    BY Indices
  <1>2. IsFiniteSet(1 .. Len(q)) /\ Cardinality(1 .. Len(q)) = Len(q)
    <2>1. /\ IsFiniteSet(1 .. Len(q))
          /\ Cardinality(1 .. Len(q)) = IF 1 > Len(q) THEN 0 ELSE Len(q) - 1 + 1
      BY <1>1, FS_Interval
    <2> QED BY <1>1, <2>1
  <1>3. Costly(q) \in SUBSET (1 .. Len(q))
    BY <1>1 DEF Costly
  <1>4. IsFiniteSet(Costly(q)) /\ Cardinality(Costly(q)) <= Len(q)
    BY <1>2, <1>3, FS_Subset
  <1>5. Cardinality(Costly(q)) \in Nat
    BY <1>4, FS_CardinalityType
  <1> QED BY <1>2, <1>4, <1>5

LEMMA AppendCosts ==
  ASSUME NEW q \in Seq(Record), NEW r \in Record
  PROVE  Cardinality(Costly(Append(q, r))) =
           Cardinality(Costly(q)) + (IF r.id \in Motion THEN 0 ELSE 1)
  <1> DEFINE n == Len(q)  t == Append(q, r)
  <1>1. DOMAIN q = 1 .. n /\ n \in Nat
    BY Indices
  <1>2. /\ t \in Seq(Record) /\ Len(t) = n + 1
        /\ \A i \in 1 .. n : t[i] = q[i]
        /\ t[n + 1] = r
    BY AppendProperties
  <1>3. DOMAIN t = 1 .. n + 1
    BY <1>2, Indices
  <1> HIDE DEF t, n
  <1>4. Costly(t) = Costly(q) \cup (IF r.id \in Motion THEN {} ELSE {n + 1})
    <2>1. \A i : i \in 1 .. n + 1 <=> i \in 1 .. n \/ i = n + 1
      BY <1>1
    <2> QED BY <1>1, <1>2, <1>3, <2>1 DEF Costly
  <1>5. n + 1 \notin Costly(q)
    BY <1>1 DEF Costly
  <1>6. IsFiniteSet(Costly(q)) /\ Cardinality(Costly(q)) \in Nat
    BY Costs
  <1>7. CASE r.id \in Motion
    BY <1>4, <1>6, <1>7 DEF t
  <1>8. CASE r.id \notin Motion
    <2>1. Cardinality(Costly(q) \cup {n + 1}) = Cardinality(Costly(q)) + 1
      BY <1>5, <1>6, FS_AddElement
    <2> QED BY <1>4, <1>8, <2>1 DEF t
  <1> QED BY <1>7, <1>8

LEMMA CutCosts ==
  ASSUME NEW q \in Seq(Record), NEW t \in Seq(Record), NEW k \in 1 .. Len(q),
         Len(t) = Len(q) - 1, Cut(q, t, k, Len(q))
  PROVE  Cardinality(Costly(t)) <= Cardinality(Costly(q))
  <1> DEFINE f == [i \in Costly(t) |-> IF i < k THEN i ELSE i + 1]
  <1>1. /\ DOMAIN q = 1 .. Len(q) /\ Len(q) \in Nat /\ DOMAIN t = 1 .. Len(q) - 1
    BY Indices
  <1>2. \A i \in Costly(t) : f[i] \in Costly(q)
    <2> TAKE i \in Costly(t)
    <2>1. i \in 1 .. Len(q) - 1 /\ t[i].id \notin Motion
      BY <1>1 DEF Costly
    <2>2. CASE i < k
      <3>1. i \in 1 .. Len(q) /\ i \in 1 .. k - 1
        BY <1>1, <2>1, <2>2
      <3> QED BY <1>1, <2>1, <2>2, <3>1 DEF Cut, Costly
    <2>3. CASE ~(i < k)
      <3>1. i + 1 \in 1 .. Len(q) /\ i \in k .. Len(q) - 1
        BY <1>1, <2>1, <2>3
      <3> QED BY <1>1, <2>1, <2>3, <3>1 DEF Cut, Costly
    <2> QED BY <2>2, <2>3
  <1>3. \A i, j \in Costly(t) : f[i] = f[j] => i = j
    <2>1. \A i \in Costly(t) : i \in Int
      BY <1>1 DEF Costly
    <2> QED BY <2>1
  <1>4. f \in Injection(Costly(t), Costly(q))
    <2>1. f \in [Costly(t) -> Costly(q)]
      BY <1>2
    <2> HIDE DEF f
    <2> QED BY <1>3, <2>1 DEF Injection, IsInjective
  <1>5. IsFiniteSet(Costly(q))
    BY Costs
  <1> HIDE DEF f
  <1> QED BY <1>4, <1>5, FS_Injection

LEMMA Lesser ==
  ASSUME NEW a \in Nat, NEW b \in Nat
  PROVE  Min({a, b}) \in {a, b} /\ Min({a, b}) <= a /\ Min({a, b}) <= b
  <1>1. {a, b} \in SUBSET Nat /\ {a, b} # {}
    OBVIOUS
  <1>2. Min({a, b}) \in {a, b} /\ \A y \in {a, b} : Min({a, b}) <= y
    BY <1>1, LeastIsMin
  <1> QED BY <1>2

(* What offering a record does to the outbox.                              *)
LEMMA OfferDoes ==
  ASSUME NEW b \in BoxState, Len(b.box) <= MaxPending, NEW r \in Record
  PROVE  LET c == Offer(b, r) IN
         \E rest \in Seq(Record) :
           /\ c.box = Append(rest, r) /\ Len(rest) < MaxPending
           /\ \/ /\ rest = b.box /\ c.shed = b.shed
                 /\ c.adrift = b.adrift \ {x \in Tracked : About(r, x)}
              \/ \E k \in 1 .. Len(b.box) :
                   /\ Len(b.box) = MaxPending /\ Len(rest) = Len(b.box) - 1
                   /\ Cut(b.box, rest, k, Len(b.box))
                   /\ \/ b.box[k].id \in Motion /\ c.shed = b.shed
                      \/ k = 1 /\ Costly(b.box) = 1 .. Len(b.box) /\ c.shed = TRUE
                   /\ c.adrift = (b.adrift \cup {x \in Tracked :
                                     /\ About(b.box[k], x)
                                     /\ ~ \E i \in DOMAIN rest : About(rest[i], x)})
                                 \ {x \in Tracked : About(r, x)}
  <1> DEFINE c == Offer(b, r)
  <1> SUFFICES
         \E rest \in Seq(Record) :
           /\ c.box = Append(rest, r) /\ Len(rest) < MaxPending
           /\ \/ /\ rest = b.box /\ c.shed = b.shed
                 /\ c.adrift = b.adrift \ {x \in Tracked : About(r, x)}
              \/ \E k \in 1 .. Len(b.box) :
                   /\ Len(b.box) = MaxPending /\ Len(rest) = Len(b.box) - 1
                   /\ Cut(b.box, rest, k, Len(b.box))
                   /\ \/ b.box[k].id \in Motion /\ c.shed = b.shed
                      \/ k = 1 /\ Costly(b.box) = 1 .. Len(b.box) /\ c.shed = TRUE
                   /\ c.adrift = (b.adrift \cup {x \in Tracked :
                                     /\ About(b.box[k], x)
                                     /\ ~ \E i \in DOMAIN rest : About(rest[i], x)})
                                 \ {x \in Tracked : About(r, x)}
    OBVIOUS
  <1>1. b.box \in Seq(Record) /\ b.adrift \subseteq Tracked /\ b.shed \in BOOLEAN
    BY DEF BoxState
  <1>2. Len(b.box) \in Nat /\ MaxPending \in Nat \ {0}
    BY <1>1, Indices, SessionAssumption
  <1>3. CASE ~(Len(b.box) >= MaxPending)
    <2>1. c.box = Append(b.box, r)
      BY <1>3 DEF Offer
    <2>2. c.shed = b.shed
      BY <1>1, <1>3 DEF Offer
    <2>3. c.adrift = b.adrift \ {x \in Tracked : About(r, x)}
      BY <1>3 DEF Offer
    <2>4. Len(b.box) < MaxPending
      BY <1>2, <1>3
    <2> HIDE DEF c
    <2> QED BY <1>1, <2>1, <2>2, <2>3, <2>4
  <1>4. CASE Len(b.box) >= MaxPending
    <2> DEFINE k == ShedIndex(b.box)  rest == RemoveAt(b.box, k)
    <2>1. Len(b.box) > 0 /\ Len(b.box) = MaxPending
      BY <1>2, <1>4
    <2>2. /\ k \in 1 .. Len(b.box)
          /\ b.box[k].id \in Motion \/ (k = 1 /\ Costly(b.box) = 1 .. Len(b.box))
      BY <1>1, <2>1, Shed
    <2>3. c.box = Append(rest, r)
      BY <1>4 DEF Offer
    <2>4. c.shed = (b.shed \/ b.box[k].id \notin Motion)
      BY <1>4 DEF Offer
    <2>5. c.adrift = (b.adrift \cup {x \in Tracked :
                                     /\ About(b.box[k], x)
                                     /\ ~ \E i \in DOMAIN rest : About(rest[i], x)})
                                 \ {x \in Tracked : About(r, x)}
      BY <1>4 DEF Offer
    <2> HIDE DEF k
    <2>6. rest \in Seq(Record) /\ Len(rest) = Len(b.box) - 1 /\ Cut(b.box, rest, k, Len(b.box))
      BY <1>1, <2>2, Removed
    <2>7. Len(rest) < MaxPending
      BY <1>2, <2>1, <2>6
    <2>8. \/ b.box[k].id \in Motion /\ c.shed = b.shed
          \/ k = 1 /\ Costly(b.box) = 1 .. Len(b.box) /\ c.shed = TRUE
      <3>1. CASE b.box[k].id \in Motion
        BY <1>1, <2>4, <3>1
      <3>2. CASE b.box[k].id \notin Motion
        BY <2>2, <2>4, <3>2
      <3> QED BY <3>1, <3>2
    <2> HIDE DEF c, rest
    <2> QED BY <2>1, <2>2, <2>3, <2>5, <2>6, <2>7, <2>8
  <1> QED BY <1>3, <1>4

LEMMA OfferBounded ==
  ASSUME NEW b, NEW reset \in BOOLEAN, Bounded(b, reset), NEW r \in Record
  PROVE  LET c == Offer(b, r) IN
         /\ Bounded(c, reset)
         /\ c.shed => b.shed \/ c.burst = MaxPending
         /\ b.shed => c.shed
         /\ b.burst = MaxPending => c.burst = MaxPending
  <1> DEFINE c == Offer(b, r)
  <1> SUFFICES /\ Bounded(c, reset)
               /\ c.shed => b.shed \/ c.burst = MaxPending
               /\ b.shed => c.shed
               /\ b.burst = MaxPending => c.burst = MaxPending
    OBVIOUS
  <1>1. /\ b \in BoxState /\ Len(b.box) <= MaxPending
        /\ Cardinality(Costly(b.box)) <= b.burst /\ (~b.shed /\ ~reset => b.adrift = {})
    BY DEF Bounded
  <1>2. /\ b.box \in Seq(Record) /\ b.adrift \subseteq Tracked /\ b.shed \in BOOLEAN
        /\ b.burst \in 0 .. MaxPending /\ MaxPending \in Nat \ {0}
    BY <1>1, SessionAssumption DEF BoxState
  <1>3. PICK rest \in Seq(Record) :
           /\ c.box = Append(rest, r) /\ Len(rest) < MaxPending
           /\ \/ /\ rest = b.box /\ c.shed = b.shed
                 /\ c.adrift = b.adrift \ {x \in Tracked : About(r, x)}
              \/ \E k \in 1 .. Len(b.box) :
                   /\ Len(b.box) = MaxPending /\ Len(rest) = Len(b.box) - 1
                   /\ Cut(b.box, rest, k, Len(b.box))
                   /\ \/ b.box[k].id \in Motion /\ c.shed = b.shed
                      \/ k = 1 /\ Costly(b.box) = 1 .. Len(b.box) /\ c.shed = TRUE
                   /\ c.adrift = (b.adrift \cup {x \in Tracked :
                                     /\ About(b.box[k], x)
                                     /\ ~ \E i \in DOMAIN rest : About(rest[i], x)})
                                 \ {x \in Tracked : About(r, x)}
    BY <1>1, OfferDoes
  <1>4. c.burst = IF r.id \in Motion THEN b.burst ELSE Min({b.burst + 1, MaxPending})
    BY DEF Offer
  <1>5. c = [box |-> c.box, adrift |-> c.adrift, shed |-> c.shed, burst |-> c.burst]
    BY DEF Offer
  <1> HIDE DEF c
  <1>6. /\ c.burst \in 0 .. MaxPending /\ b.burst <= c.burst
        /\ r.id \notin Motion => c.burst = b.burst + 1 \/ c.burst = MaxPending
    <2>1. CASE r.id \in Motion
      BY <1>2, <1>4, <2>1
    <2>2. CASE r.id \notin Motion
      <3>1. /\ Min({b.burst + 1, MaxPending}) \in {b.burst + 1, MaxPending}
            /\ Min({b.burst + 1, MaxPending}) <= b.burst + 1
            /\ Min({b.burst + 1, MaxPending}) <= MaxPending
        BY <1>2, Lesser
      <3>2. c.burst \in {b.burst + 1, MaxPending} /\ c.burst <= MaxPending
        BY <1>4, <2>2, <3>1
      <3> QED BY <1>2, <2>2, <3>2
    <2> QED BY <2>1, <2>2
  <1>7. /\ c.adrift \subseteq Tracked /\ c.shed \in BOOLEAN /\ (b.shed => c.shed)
        /\ c.shed => b.shed \/ (Len(b.box) = MaxPending /\ Costly(b.box) = 1 .. Len(b.box))
    BY <1>2, <1>3
  <1>8. c.box \in Seq(Record) /\ Len(c.box) <= MaxPending /\ Len(c.box) = Len(rest) + 1
    <2>1. c.box \in Seq(Record) /\ Len(c.box) = Len(rest) + 1
      BY <1>3, AppendProperties
    <2>2. Len(rest) \in Nat
      BY Indices
    <2> QED BY <1>2, <1>3, <2>1, <2>2
  <1>9. c \in BoxState
    BY <1>5, <1>6, <1>7, <1>8 DEF BoxState
  <1>10. c.shed => b.shed \/ b.burst = MaxPending
    <2>1. ASSUME Len(b.box) = MaxPending, Costly(b.box) = 1 .. Len(b.box)
          PROVE  b.burst = MaxPending
      <3>1. Cardinality(Costly(b.box)) = MaxPending
        BY <1>2, <2>1, Costs
      <3> QED BY <1>1, <1>2, <3>1
    <2> QED BY <1>7, <2>1
  <1>11. b.burst = MaxPending => c.burst = MaxPending
    BY <1>2, <1>6
  <1>12. Cardinality(Costly(c.box)) <= c.burst
    <2>1. Cardinality(Costly(c.box)) =
            Cardinality(Costly(rest)) + (IF r.id \in Motion THEN 0 ELSE 1)
      BY <1>3, AppendCosts
    <2>2. Cardinality(Costly(rest)) <= Cardinality(Costly(b.box))
      <3>1. CASE rest = b.box
        <4>1. Cardinality(Costly(b.box)) \in Nat
          BY <1>2, Costs
        <4> QED BY <3>1, <4>1
      <3>2. ASSUME NEW k \in 1 .. Len(b.box), Len(rest) = Len(b.box) - 1,
                   Cut(b.box, rest, k, Len(b.box))
            PROVE  Cardinality(Costly(rest)) <= Cardinality(Costly(b.box))
        BY <1>2, <3>2, CutCosts
      <3> QED BY <1>3, <3>1, <3>2
    <2>3. /\ Cardinality(Costly(rest)) \in Nat /\ Cardinality(Costly(b.box)) \in Nat
          /\ Cardinality(Costly(rest)) <= Len(rest) /\ Len(rest) \in Nat
      BY <1>2, Costs, Indices
    <2>4. CASE r.id \in Motion
      BY <1>1, <1>2, <1>6, <2>1, <2>2, <2>3, <2>4
    <2>5. CASE r.id \notin Motion
      BY <1>1, <1>2, <1>3, <1>6, <2>1, <2>2, <2>3, <2>5
    <2> QED BY <2>4, <2>5
  <1>13. ~c.shed /\ ~reset => c.adrift = {}
    <2> SUFFICES ASSUME ~c.shed, ~reset PROVE c.adrift = {}
      OBVIOUS
    <2>1. b.adrift = {}
      BY <1>1, <1>7
    <2>2. CASE c.adrift = b.adrift \ {x \in Tracked : About(r, x)}
      BY <2>1, <2>2
    <2>3. ASSUME NEW k \in 1 .. Len(b.box), b.box[k].id \in Motion,
                 c.adrift = (b.adrift \cup {x \in Tracked :
                                     /\ About(b.box[k], x)
                                     /\ ~ \E i \in DOMAIN rest : About(rest[i], x)})
                                 \ {x \in Tracked : About(r, x)}
          PROVE  c.adrift = {}
      BY <2>1, <2>3 DEF About, Motion
    <2> QED BY <1>3, <2>2, <2>3
  <1> QED BY <1>7, <1>8, <1>9, <1>10, <1>11, <1>12, <1>13 DEF Bounded
-----------------------------------------------------------------------------
(* What a reader will believe, when a record is shed and one comes.        *)
Reads(p, s, n) == {x \in Tracked : Believed(p, s, n, x)}

LEMMA CutArrives ==
  ASSUME NEW p, NEW s \in Seq(Record), NEW u \in Seq(Record), NEW k \in 1 .. Len(s),
         Len(u) = Len(s) - 1, Cut(s, u, k, Len(s)), NEW adrift, NEW h,
         Converges(p, s, adrift, h), NEW away,
         \A x \in Tracked : About(s[k], x) => x \in away \/ \E j \in k + 1 .. Len(s) : About(s[j], x)
  PROVE  /\ Converges(p, u, adrift \cup away, h)
         /\ s[k].id \in Motion /\ Truthful(p, s) => Truthful(p, u)
  <1>1. Len(s) \in Nat /\ Len(s) - 1 \in Nat
    BY Indices
  <1>2. Converges(p, u, adrift \cup away, h)
    <2> SUFFICES ASSUME NEW x \in Tracked \ (adrift \cup away)
                 PROVE  Believed(p, u, Len(u), x) <=> x \in h
      BY DEF Converges
    <2>1. Believed(p, u, Len(s) - 1, x) <=> Believed(p, s, Len(s), x)
      BY <1>1, BelievedCut
    <2> QED BY <2>1 DEF Converges
  <1>3. ASSUME s[k].id \in Motion, Truthful(p, s) PROVE Truthful(p, u)
    <2> SUFFICES ASSUME NEW n \in 1 .. Len(u)
                 PROVE  Tells({x \in Tracked : Believed(p, u, n, x)}, u[n])
      BY DEF Truthful
    <2>1. \A x : ~About(s[k], x)
      BY <1>3 DEF About, Motion
    <2>2. CASE n < k
      <3>1. n \in 1 .. Len(s) /\ n \in 1 .. k - 1
        BY <1>1, <2>2
      <3>2. (\A i \in 1 .. n : u[i] = s[i]) /\ u[n] = s[n]
        BY <1>1, <2>2, <3>1 DEF Cut
      <3>3. \A x : Believed(p, u, n, x) <=> Believed(p, s, n, x)
        BY <3>1, <3>2, BelievedSame
      <3>4. {x \in Tracked : Believed(p, u, n, x)} = {x \in Tracked : Believed(p, s, n, x)}
        BY <3>3
      <3> QED BY <1>3, <3>1, <3>2, <3>4 DEF Truthful
    <2>3. CASE ~(n < k)
      <3>1. n + 1 \in 1 .. Len(s) /\ n \in k .. Len(s) - 1 /\ n + 1 \in Nat /\ k \in 1 .. n + 1
            /\ (n + 1) - 1 = n
        BY <1>1, <2>3
      <3>2. Cut(s, u, k, n + 1) /\ u[n] = s[n + 1]
        BY <1>1, <3>1 DEF Cut
      <3>3. \A x : Believed(p, u, (n + 1) - 1, x) <=> Believed(p, s, n + 1, x)
        BY <2>1, <3>1, <3>2, BelievedCut
      <3>4. {x \in Tracked : Believed(p, u, n, x)} = {x \in Tracked : Believed(p, s, n + 1, x)}
        BY <3>1, <3>3
      <3> QED BY <1>3, <3>1, <3>2, <3>4 DEF Truthful
    <2> QED BY <2>2, <2>3
  <1> QED BY <1>2, <1>3

LEMMA AppendArrives ==
  ASSUME NEW p, NEW u \in Seq(Record), NEW t, NEW r \in Record, t = Append(u, r),
         NEW adrift, NEW h \in SUBSET Tracked, Converges(p, u, adrift, h), Tells(Then(h, r), r)
  PROVE  LET rest == adrift \ {x \in Tracked : About(r, x)} IN
         /\ Converges(p, t, rest, Then(h, r)) /\ Then(h, r) \in SUBSET Tracked
         /\ Truthful(p, u) /\ rest = {} => Truthful(p, t)
  <1> DEFINE rest == adrift \ {x \in Tracked : About(r, x)}
             n == Len(u)
  <1> SUFFICES /\ Converges(p, t, rest, Then(h, r)) /\ Then(h, r) \in SUBSET Tracked
               /\ Truthful(p, u) /\ rest = {} => Truthful(p, t)
    OBVIOUS
  <1>1. /\ t \in Seq(Record) /\ Len(t) = n + 1
        /\ \A i \in 1 .. n : t[i] = u[i]
        /\ t[n + 1] = r
    BY AppendProperties
  <1>2. n \in Nat
    BY Indices
  <1>3. \A m \in 0 .. n : \A x : Believed(p, t, m, x) <=> Believed(p, u, m, x)
    <2> TAKE m \in 0 .. n
    <2>1. m \in Nat /\ \A i \in 1 .. m : t[i] = u[i]
      BY <1>1, <1>2
    <2> QED BY <2>1, BelievedSame
  <1>4. \A x : Believed(p, t, n + 1, x) <=>
                 IF About(r, x) THEN r.id = "pressed" ELSE Believed(p, u, n, x)
    <2>1. \A x : Believed(p, t, n + 1, x) <=>
                   IF About(t[n + 1], x) THEN t[n + 1].id = "pressed" ELSE Believed(p, t, n, x)
      BY <1>2, BelievedNext
    <2>2. n \in 0 .. n
      BY <1>2
    <2> QED BY <1>1, <1>3, <2>1, <2>2
  <1>5. Then(h, r) \in SUBSET Tracked
    BY DEF Then
  <1>6. \A x \in Tracked : x \in Then(h, r) <=> IF About(r, x) THEN r.id = "pressed" ELSE x \in h
    BY DEF Then, About
  <1>7. Converges(p, t, rest, Then(h, r))
    <2> SUFFICES ASSUME NEW x \in Tracked \ rest
                 PROVE  Believed(p, t, n + 1, x) <=> x \in Then(h, r)
      BY <1>1 DEF Converges
    <2>1. CASE About(r, x)
      BY <1>4, <1>6, <2>1
    <2>2. CASE ~About(r, x)
      <3>1. Believed(p, u, n, x) <=> x \in h
        BY <2>2 DEF Converges
      <3> QED BY <1>4, <1>6, <2>2, <3>1
    <2> QED BY <2>1, <2>2
  <1>8. ASSUME Truthful(p, u), rest = {} PROVE Truthful(p, t)
    <2> SUFFICES ASSUME NEW m \in 1 .. n + 1
                 PROVE  Tells({x \in Tracked : Believed(p, t, m, x)}, t[m])
      BY <1>1 DEF Truthful
    <2>1. CASE m \in 1 .. n
      <3>1. m \in 0 .. n
        BY <1>2, <2>1
      <3>2. {x \in Tracked : Believed(p, t, m, x)} = {x \in Tracked : Believed(p, u, m, x)}
        BY <1>3, <3>1
      <3> QED BY <1>1, <1>8, <2>1, <3>2 DEF Truthful
    <2>2. CASE m = n + 1
      <3>1. \A x \in Tracked : Believed(p, t, n + 1, x) <=> x \in Then(h, r)
        BY <1>1, <1>7, <1>8 DEF Converges
      <3>2. {x \in Tracked : Believed(p, t, n + 1, x)} = Then(h, r)
        BY <1>5, <3>1
      <3> QED BY <1>1, <2>2, <3>2
    <2>3. m \in 1 .. n \/ m = n + 1
      BY <1>2
    <2> QED BY <2>1, <2>2, <2>3
  <1> QED BY <1>5, <1>7, <1>8

LEMMA Behind ==
  ASSUME NEW a \in Seq(Record), NEW b \in Seq(Record), NEW r \in Record
  PROVE  /\ a \o b \in Seq(Record) /\ Len(a \o b) = Len(a) + Len(b)
         /\ Len(a) \in Nat /\ Len(b) \in Nat
         /\ \A i \in 1 .. Len(a) : (a \o b)[i] = a[i]
         /\ \A i \in 1 .. Len(b) : (a \o b)[Len(a) + i] = b[i]
         /\ a \o Append(b, r) = Append(a \o b, r)
  <1>1. Len(a) \in Nat /\ Len(b) \in Nat
    BY Indices
  <1>2. /\ a \o b \in Seq(Record) /\ Len(a \o b) = Len(a) + Len(b)
        /\ \A i \in 1 .. Len(a) + Len(b) :
             (a \o b)[i] = IF i <= Len(a) THEN a[i] ELSE b[i - Len(a)]
    BY ConcatProperties
  <1>3. \A i \in 1 .. Len(a) : (a \o b)[i] = a[i]
    BY <1>1, <1>2
  <1>4. \A i \in 1 .. Len(b) : (a \o b)[Len(a) + i] = b[i]
    <2> TAKE i \in 1 .. Len(b)
    <2>1. Len(a) + i \in 1 .. Len(a) + Len(b) /\ ~(Len(a) + i <= Len(a)) /\ (Len(a) + i) - Len(a) = i
      BY <1>1
    <2> QED BY <1>2, <2>1
  <1>5. a \o Append(b, r) = Append(a \o b, r)
    <2>1. <<r>> \in Seq(Record)
      OBVIOUS
    <2>2. a \o (b \o <<r>>) = (a \o b) \o <<r>>
      BY <2>1, ConcatAssociative
    <2>3. Append(b, r) = b \o <<r>> /\ Append(a \o b, r) = (a \o b) \o <<r>>
      BY <1>2, AppendIsConcat
    <2> QED BY <2>2, <2>3
  <1> QED BY <1>1, <1>2, <1>3, <1>4, <1>5

LEMMA OfferArrives ==
  ASSUME NEW p, NEW sent \in Seq(Record), NEW b, NEW reset \in BOOLEAN, Bounded(b, reset),
         NEW h \in SUBSET Tracked, Arrives(p, sent, b, reset, h),
         NEW r \in Record, Tells(Then(h, r), r)
  PROVE  Arrives(p, sent, Offer(b, r), reset, Then(h, r)) /\ Then(h, r) \in SUBSET Tracked
  <1> DEFINE c == Offer(b, r)
             about == {x \in Tracked : About(r, x)}
  <1>1. b \in BoxState /\ b.box \in Seq(Record) /\ Len(b.box) <= MaxPending
    BY DEF Bounded, BoxState
  <1>2. PICK rest \in Seq(Record) :
           /\ c.box = Append(rest, r) /\ Len(rest) < MaxPending
           /\ \/ /\ rest = b.box /\ c.shed = b.shed
                 /\ c.adrift = b.adrift \ about
              \/ \E k \in 1 .. Len(b.box) :
                   /\ Len(b.box) = MaxPending /\ Len(rest) = Len(b.box) - 1
                   /\ Cut(b.box, rest, k, Len(b.box))
                   /\ \/ b.box[k].id \in Motion /\ c.shed = b.shed
                      \/ k = 1 /\ Costly(b.box) = 1 .. Len(b.box) /\ c.shed = TRUE
                   /\ c.adrift = (b.adrift \cup {x \in Tracked :
                                     /\ About(b.box[k], x)
                                     /\ ~ \E i \in DOMAIN rest : About(rest[i], x)})
                                 \ about
    BY <1>1, OfferDoes
  <1>3. /\ ~c.shed /\ ~reset => c.adrift = {}
    BY OfferBounded DEF Bounded
  <1> HIDE DEF c
  <1> DEFINE s == sent \o b.box  u == sent \o rest  t == sent \o c.box
  <1>4. s \in Seq(Record) /\ u \in Seq(Record) /\ t = Append(u, r)
    BY <1>1, <1>2, Behind
  <1>5. \E adrift : /\ Converges(p, u, adrift, h)
                    /\ c.adrift = adrift \ about
                    /\ ~c.shed /\ ~reset => Truthful(p, u)
    <2>1. CASE rest = b.box /\ c.shed = b.shed /\ c.adrift = b.adrift \ about
      BY <2>1 DEF Arrives
    <2>2. ASSUME NEW k \in 1 .. Len(b.box),
                   Len(rest) = Len(b.box) - 1,
                   Cut(b.box, rest, k, Len(b.box)),
                   \/ b.box[k].id \in Motion /\ c.shed = b.shed
                   \/ k = 1 /\ Costly(b.box) = 1 .. Len(b.box) /\ c.shed = TRUE,
                   c.adrift = (b.adrift \cup {x \in Tracked :
                                     /\ About(b.box[k], x)
                                     /\ ~ \E i \in DOMAIN rest : About(rest[i], x)})
                                 \ about
          PROVE  \E adrift : /\ Converges(p, u, adrift, h)
                             /\ c.adrift = adrift \ about
                             /\ ~c.shed /\ ~reset => Truthful(p, u)
      <3> DEFINE away == {x \in Tracked : /\ About(b.box[k], x)
                                          /\ ~ \E i \in DOMAIN rest : About(rest[i], x)}
                 m == Len(sent) + k
      <3>1. /\ Len(sent) \in Nat /\ Len(b.box) \in Nat /\ Len(s) = Len(sent) + Len(b.box)
            /\ Len(u) = Len(sent) + Len(rest) /\ DOMAIN rest = 1 .. Len(rest)
        BY <1>1, Behind, Indices
      <3>2. /\ \A i \in 1 .. Len(sent) : s[i] = sent[i] /\ u[i] = sent[i]
            /\ \A i \in 1 .. Len(b.box) : s[Len(sent) + i] = b.box[i]
            /\ \A i \in 1 .. Len(rest) : u[Len(sent) + i] = rest[i]
        BY <1>1, Behind
      <3>3. m \in 1 .. Len(s) /\ s[m] = b.box[k] /\ Len(u) = Len(s) - 1
        BY <2>2, <3>1, <3>2
      <3>4. Cut(s, u, m, Len(s))
        <4>1. ASSUME NEW i \in 1 .. m - 1 PROVE u[i] = s[i]
          <5>1. CASE i <= Len(sent)
            BY <3>1, <3>2, <5>1
          <5>2. CASE ~(i <= Len(sent))
            <6> DEFINE j == i - Len(sent)
            <6>1. j \in 1 .. k - 1 /\ j \in 1 .. Len(rest) /\ j \in 1 .. Len(b.box)
                  /\ i = Len(sent) + j
              BY <2>2, <3>1, <5>2
            <6> HIDE DEF j
            <6> QED BY <2>2, <3>2, <6>1 DEF Cut
          <5> QED BY <5>1, <5>2
        <4>2. ASSUME NEW i \in m .. Len(s) - 1 PROVE u[i] = s[i + 1]
          <5> DEFINE j == i - Len(sent)
          <5>1. j \in k .. Len(b.box) - 1 /\ j \in 1 .. Len(rest) /\ j + 1 \in 1 .. Len(b.box)
                /\ i = Len(sent) + j /\ i + 1 = Len(sent) + (j + 1)
            <6>1. i \in Len(sent) + k .. Len(sent) + Len(b.box) - 1
              BY <3>1
            <6> QED BY <2>2, <3>1, <6>1
          <5> HIDE DEF j
          <5>2. u[i] = rest[j] /\ s[i + 1] = b.box[j + 1]
            BY <3>2, <5>1
          <5> QED BY <2>2, <5>1, <5>2 DEF Cut
        <4> QED BY <4>1, <4>2 DEF Cut
      <3>5. ASSUME NEW x \in Tracked, About(s[m], x)
            PROVE  x \in away \/ \E j \in m + 1 .. Len(s) : About(s[j], x)
        <4> SUFFICES ASSUME x \notin away PROVE \E j \in m + 1 .. Len(s) : About(s[j], x)
          OBVIOUS
        <4>1. PICK i \in 1 .. Len(rest) : About(rest[i], x)
          BY <3>1, <3>3, <3>5
        <4>2. k = 1
          BY <2>2, <3>3, <3>5 DEF About, Motion
        <4>3. /\ i \in 1 .. Len(b.box) - 1 /\ i + 1 \in 1 .. Len(b.box)
              /\ Len(sent) + (i + 1) \in m + 1 .. Len(s)
          BY <2>2, <3>1, <4>2
        <4>4. rest[i] = b.box[i + 1]
          BY <2>2, <4>2, <4>3 DEF Cut
        <4>5. s[Len(sent) + (i + 1)] = b.box[i + 1]
          BY <3>2, <4>3
        <4> QED BY <4>1, <4>3, <4>4, <4>5
      <3>6. Converges(p, s, b.adrift, h) /\ (~b.shed /\ ~reset => Truthful(p, s))
        BY DEF Arrives
      <3> HIDE DEF s, u, away, m
      <3>7. /\ Converges(p, u, b.adrift \cup away, h)
            /\ s[m].id \in Motion /\ Truthful(p, s) => Truthful(p, u)
        BY <1>4, <3>3, <3>4, <3>5, <3>6, CutArrives
      <3>8. ~c.shed /\ ~reset => Truthful(p, u)
        BY <2>2, <3>3, <3>6, <3>7
      <3>9. c.adrift = (b.adrift \cup away) \ about
        BY <2>2 DEF away
      <3> QED BY <3>7, <3>8, <3>9
    <2> HIDE DEF s, u, t
    <2> QED BY <1>2, <2>1, <2>2
  <1> HIDE DEF s, u, t
  <1>6. PICK adrift : /\ Converges(p, u, adrift, h)
                      /\ c.adrift = adrift \ about
                      /\ ~c.shed /\ ~reset => Truthful(p, u)
    BY <1>5
  <1>7. /\ Converges(p, t, c.adrift, Then(h, r)) /\ Then(h, r) \in SUBSET Tracked
        /\ Truthful(p, u) /\ c.adrift = {} => Truthful(p, t)
    <2>1. /\ Converges(p, t, adrift \ about, Then(h, r)) /\ Then(h, r) \in SUBSET Tracked
          /\ Truthful(p, u) /\ adrift \ about = {} => Truthful(p, t)
      BY <1>4, <1>6, AppendArrives
    <2> HIDE DEF about
    <2> QED BY <1>6, <2>1
  <1> QED BY <1>3, <1>6, <1>7 DEF Arrives, c, t
-----------------------------------------------------------------------------
(* Several records, one after the other.                                   *)
IsRun(f, b, rs, m) == f = [n \in 0 .. m |-> IF n = 0 THEN b ELSE Offer(f[n - 1], rs[n])]

LEMMA RunAt ==
  ASSUME NEW f, NEW b, NEW rs, NEW m \in Nat, IsRun(f, b, rs, m)
  PROVE  f[0] = b /\ \A n \in 1 .. m : f[n] = Offer(f[n - 1], rs[n])
  <1> DEFINE e(n) == IF n = 0 THEN b ELSE Offer(f[n - 1], rs[n])
  <1>1. f = [n \in 0 .. m |-> e(n)]
    BY DEF IsRun
  <1> HIDE DEF e
  <1>2. \A n \in 0 .. m : f[n] = e(n)
    BY <1>1
  <1>3. f[0] = b
    BY <1>2 DEF e
  <1>4. ASSUME NEW n \in 1 .. m PROVE f[n] = Offer(f[n - 1], rs[n])
    <2>1. n \in 0 .. m /\ n # 0
      OBVIOUS
    <2> QED BY <1>2, <2>1 DEF e
  <1> QED BY <1>3, <1>4

LEMMA RunExists ==
  ASSUME NEW b, NEW rs, NEW l \in Nat PROVE \E f : IsRun(f, b, rs, l)
  <1> DEFINE P == {m \in Nat : \E f : IsRun(f, b, rs, m)}
  <1>1. 0 \in P
    <2>1. IsRun([n \in 0 .. 0 |-> b], b, rs, 0)
      BY DEF IsRun
    <2> QED BY <2>1
  <1>2. ASSUME NEW m \in Nat, m \in P PROVE m + 1 \in P
    <2>1. PICK f : IsRun(f, b, rs, m)
      BY <1>2
    <2> DEFINE x == Offer(f[m], rs[m + 1])
               g == [n \in 0 .. m + 1 |-> IF n = m + 1 THEN x ELSE f[n]]
               e(n) == IF n = 0 THEN b ELSE Offer(g[n - 1], rs[n])
    <2>2. ASSUME NEW n \in 0 .. m + 1 PROVE g[n] = e(n)
      <3>1. CASE n = 0
        <4>1. f[0] = b
          BY <2>1, RunAt
        <4> QED BY <3>1, <4>1
      <3>2. CASE n = m + 1
        <4>1. g[n - 1] = f[m] /\ g[n] = x /\ n # 0
          BY <3>2
        <4> QED BY <4>1, <3>2
      <3>3. CASE n # 0 /\ n # m + 1
        <4>1. n \in 1 .. m
          BY <3>3
        <4>2. f[n] = Offer(f[n - 1], rs[n])
          BY <2>1, <4>1, RunAt
        <4>3. g[n] = f[n] /\ g[n - 1] = f[n - 1]
          BY <4>1
        <4> QED BY <3>3, <4>2, <4>3
      <3> QED BY <3>1, <3>2, <3>3
    <2>3. g = [n \in 0 .. m + 1 |-> g[n]]
      OBVIOUS
    <2> HIDE DEF g, e
    <2>4. g = [n \in 0 .. m + 1 |-> e(n)]
      BY <2>2, <2>3
    <2>5. IsRun(g, b, rs, m + 1)
      BY <2>4 DEF IsRun, e
    <2> QED BY <2>5
  <1>3. 0 .. l \subseteq P
    <2> HIDE DEF P
    <2> QED BY <1>1, <1>2, UpTo
  <1> QED BY <1>3

LEMMA OfferedIsRun ==
  ASSUME NEW b, NEW rs \in Seq(Record)
  PROVE  \E f : /\ Offered(b, rs) = f[Len(rs)] /\ f[0] = b
                /\ \A n \in 1 .. Len(rs) : f[n] = Offer(f[n - 1], rs[n])
  <1>1. Len(rs) \in Nat
    BY Indices
  <1> DEFINE f == CHOOSE f : IsRun(f, b, rs, Len(rs))
  <1>2. IsRun(f, b, rs, Len(rs))
    BY <1>1, RunExists
  <1>3. Offered(b, rs) = f[Len(rs)]
    BY DEF Offered, IsRun
  <1> HIDE DEF f
  <1> QED BY <1>1, <1>2, <1>3, RunAt

(* Records that each tell what is held once they were sent bring a reader  *)
(* of the outbox to what is held in the end.                               *)
LEMMA OfferedKeeps ==
  ASSUME NEW p, NEW sent \in Seq(Record), NEW b, NEW reset \in BOOLEAN, Bounded(b, reset),
         NEW rs \in Seq(Record), NEW hs, hs[0] \in SUBSET Tracked,
         NEW live \in BOOLEAN, live => Arrives(p, sent, b, reset, hs[0]),
         \A n \in 1 .. Len(rs) : hs[n] = Then(hs[n - 1], rs[n]) /\ Tells(hs[n], rs[n])
  PROVE  LET c == Offered(b, rs) IN
         /\ Bounded(c, reset)
         /\ live => Arrives(p, sent, c, reset, hs[Len(rs)])
         /\ c.shed => b.shed \/ c.burst = MaxPending
         /\ b.shed => c.shed
         /\ hs[Len(rs)] \in SUBSET Tracked
  <1>1. Len(rs) \in Nat /\ \A n \in 1 .. Len(rs) : rs[n] \in Record
    BY Indices
  <1>2. PICK f : /\ Offered(b, rs) = f[Len(rs)] /\ f[0] = b
                 /\ \A n \in 1 .. Len(rs) : f[n] = Offer(f[n - 1], rs[n])
    BY OfferedIsRun
  <1> DEFINE Good(n) == /\ Bounded(f[n], reset) /\ hs[n] \in SUBSET Tracked
                        /\ live => Arrives(p, sent, f[n], reset, hs[n])
                        /\ f[n].shed => b.shed \/ f[n].burst = MaxPending
                        /\ b.shed => f[n].shed
             P == {n \in 0 .. Len(rs) : Good(n)}
  <1>3. 0 \in P
    BY <1>1, <1>2
  <1>4. ASSUME NEW n \in 0 .. Len(rs), n \in P, n < Len(rs) PROVE n + 1 \in P
    <2>1. n + 1 \in 1 .. Len(rs) /\ n + 1 \in 0 .. Len(rs) /\ (n + 1) - 1 = n
      BY <1>1, <1>4
    <2>2. /\ f[n + 1] = Offer(f[n], rs[n + 1]) /\ hs[n + 1] = Then(hs[n], rs[n + 1])
          /\ Tells(Then(hs[n], rs[n + 1]), rs[n + 1]) /\ rs[n + 1] \in Record
      BY <1>1, <1>2, <2>1
    <2>3. Good(n)
      BY <1>4
    <2> DEFINE d == f[n]  r == rs[n + 1]  c == Offer(d, r)
    <2> HIDE DEF d, r
    <2>4. /\ Bounded(c, reset)
          /\ c.shed => d.shed \/ c.burst = MaxPending
          /\ d.shed => c.shed
          /\ d.burst = MaxPending => c.burst = MaxPending
      <3>1. Bounded(d, reset) /\ r \in Record
        BY <2>2, <2>3 DEF d, r
      <3> QED BY <3>1, OfferBounded
    <2>5. /\ live => Arrives(p, sent, c, reset, Then(hs[n], r))
          /\ Then(hs[n], r) \in SUBSET Tracked
      <3>1. /\ Bounded(d, reset) /\ r \in Record /\ hs[n] \in SUBSET Tracked
            /\ (live => Arrives(p, sent, d, reset, hs[n])) /\ Tells(Then(hs[n], r), r)
        BY <2>2, <2>3 DEF d, r
      <3>2. Then(hs[n], r) \in SUBSET Tracked
        BY <3>1 DEF Then
      <3> HIDE DEF c
      <3>3. live => Arrives(p, sent, c, reset, Then(hs[n], r))
        BY <3>1, OfferArrives DEF c
      <3> QED BY <3>2, <3>3
    <2>6. f[n + 1] = c /\ hs[n + 1] = Then(hs[n], r)
      BY <2>2 DEF d, r
    <2> HIDE DEF c
    <2>7. /\ c.shed => b.shed \/ c.burst = MaxPending
          /\ b.shed => c.shed
      BY <2>3, <2>4 DEF d
    <2>8. Good(n + 1)
      BY <2>4, <2>5, <2>6, <2>7
    <2> QED BY <2>1, <2>8
  <1>5. 0 .. Len(rs) \subseteq P
    <2> HIDE DEF P
    <2> QED BY <1>1, <1>3, <1>4, UpTo
  <1>6. Good(Len(rs))
    BY <1>1, <1>5
  <1> QED BY <1>2, <1>6
-----------------------------------------------------------------------------
(* The input side of every handler: what it enqueues tells what is held.   *)
Unread == UNCHANGED <<jvm, pressed, events, batch>>

NoPressLost == lost'.shed => lost.shed \/ lost'.burst = MaxPending

LEMMA EnqueueKeeps ==
  ASSUME InputInv, LinkInv, NEW rs \in Seq(Record), Enqueue(rs), Unread,
         NEW hs, hs[0] = held, hs[Len(rs)] = held',
         \A n \in 1 .. Len(rs) : hs[n] = Then(hs[n - 1], rs[n]) /\ Tells(hs[n], rs[n]),
         origin' \in Buttons \cup {"none"}
  PROVE  InputInv' /\ NoPressLost
  <1> DEFINE c == Offered(Box, rs)
  <1>1. /\ lost \in [adrift : SUBSET Tracked, shed : BOOLEAN, reset : BOOLEAN, burst : 0 .. MaxPending]
        /\ lost.reset \in BOOLEAN /\ held \in SUBSET Tracked
    BY DEF InputInv
  <1>2. /\ outbox' = c.box
        /\ lost' = [lost EXCEPT !.adrift = c.adrift, !.shed = c.shed, !.burst = c.burst]
    BY DEF Enqueue, Box
  <1>3. events \o batch \in Seq(Record)
    BY DEF LinkInv
  <1>4. /\ Bounded(c, lost.reset)
        /\ jvm # "gone" => Arrives(pressed, events \o batch, c, lost.reset, held')
        /\ c.shed => Box.shed \/ c.burst = MaxPending
        /\ held' \in SUBSET Tracked
    <2> DEFINE live == jvm # "gone"  p == pressed  sent == events \o batch  b == Box
               reset == lost.reset
    <2>1. /\ Bounded(b, reset) /\ hs[0] \in SUBSET Tracked /\ live \in BOOLEAN
          /\ reset \in BOOLEAN /\ sent \in Seq(Record)
          /\ live => Arrives(p, sent, b, reset, hs[0])
      BY <1>1, <1>3 DEF InputInv
    <2> HIDE DEF live, p, sent, b, reset, c
    <2>2. LET d == Offered(b, rs) IN
         /\ Bounded(d, reset)
         /\ live => Arrives(p, sent, d, reset, hs[Len(rs)])
         /\ d.shed => b.shed \/ d.burst = MaxPending
         /\ hs[Len(rs)] \in SUBSET Tracked
      BY <2>1, OfferedKeeps
    <2> QED BY <2>2 DEF live, p, sent, b, reset, c
  <1> HIDE DEF c
  <1>5. c \in BoxState
    BY <1>4 DEF Bounded
  <1>6. /\ lost' \in [adrift : SUBSET Tracked, shed : BOOLEAN, reset : BOOLEAN, burst : 0 .. MaxPending]
        /\ lost'.adrift = c.adrift /\ lost'.shed = c.shed /\ lost'.burst = c.burst
        /\ lost'.reset = lost.reset
    <2>1. c.adrift \in SUBSET Tracked /\ c.shed \in BOOLEAN /\ c.burst \in 0 .. MaxPending
      BY <1>5 DEF BoxState
    <2> QED BY <1>1, <1>2, <2>1
  <1>7. Box' = c
    <2>1. c = [box |-> c.box, adrift |-> c.adrift, shed |-> c.shed, burst |-> c.burst]
      BY <1>5 DEF BoxState
    <2> QED BY <1>2, <1>6, <2>1 DEF Box
  <1>8. NoPressLost
    BY <1>4, <1>6 DEF NoPressLost, Box
  <1>9. jvm' # "gone" => Arrives(pressed', events' \o batch', Box', lost'.reset, held')
    BY <1>4, <1>6, <1>7 DEF Unread
  <1> QED BY <1>4, <1>6, <1>7, <1>8, <1>9 DEF InputInv

LEMMA OneKeeps ==
  ASSUME InputInv, LinkInv, Unread, NEW r \in Record, Enqueue(<<r>>),
         held' = Then(held, r), Tells(held', r), origin' \in Buttons \cup {"none"}
  PROVE  InputInv' /\ NoPressLost
  <1> DEFINE hs == [n \in 0 .. 1 |-> IF n = 0 THEN held ELSE held']
  <1>1. <<r>> \in Seq(Record) /\ Len(<<r>>) = 1 /\ <<r>>[1] = r
    OBVIOUS
  <1>2. hs[0] = held /\ hs[1] = held'
    OBVIOUS
  <1> HIDE DEF hs
  <1>3. \A n \in 1 .. Len(<<r>>) : hs[n] = Then(hs[n - 1], <<r>>[n]) /\ Tells(hs[n], <<r>>[n])
    <2>1. \A n \in 1 .. Len(<<r>>) : n = 1 /\ n - 1 = 0
      BY <1>1
    <2> QED BY <1>1, <1>2, <2>1
  <1>4. hs[Len(<<r>>)] = held'
    BY <1>1, <1>2
  <1> DEFINE rs == <<r>>
  <1>5. rs \in Seq(Record) /\ Enqueue(rs)
    BY <1>1
  <1> HIDE DEF rs
  <1> QED BY <1>2, <1>3, <1>4, <1>5, EnqueueKeeps DEF rs

LEMMA RecIs ==
  ASSUME NEW h \in SUBSET Tracked
  PROVE  /\ \A id \in Motion \cup {"other"} : Rec(h, id, "none") \in Record
         /\ \A id \in {"pressed", "released"} : \A x \in Tracked \cup Keys : Rec(h, id, x) \in Record
  BY DEF Rec, Record

LEMMA RecSays ==
  ASSUME NEW h, NEW id, NEW x
  PROVE  Rec(h, id, x).id = id /\ Rec(h, id, x).of = x /\ Rec(h, id, x).mods = h
  BY DEF Rec

LEMMA PointerDownKeeps ==
  ASSUME InputInv, LinkInv, Unread, NEW b \in Buttons, PointerDown(b) PROVE InputInv' /\ NoPressLost
  <1>1. /\ held' = held \cup {b} /\ origin' = b /\ Enqueue(<<Rec(held', "pressed", b)>>)
        /\ held \in SUBSET Tracked /\ b \in Tracked
    BY DEF PointerDown, InputInv, Tracked
  <1> DEFINE r == Rec(held', "pressed", b)
  <1>2. held' \in SUBSET Tracked
    BY <1>1
  <1>3. r \in Record /\ r.id = "pressed" /\ r.of = b /\ r.mods = held' /\ Enqueue(<<r>>)
    <2>1. r \in Record
      BY <1>1, <1>2, RecIs
    <2> QED BY <1>1, <2>1, RecSays
  <1> HIDE DEF r
  <1>4. held' = Then(held, r) /\ Tells(held', r)
    BY <1>1, <1>3 DEF Then, Tells
  <1> QED BY <1>1, <1>3, <1>4, OneKeeps

LEMMA KeyKeeps ==
  ASSUME InputInv, LinkInv, Unread, NEW k \in Modifiers \cup Keys, KeyDown(k) \/ KeyUp(k)
  PROVE  InputInv' /\ NoPressLost
  <1>1. held \in SUBSET Tracked /\ k \in Tracked \cup Keys /\ ({k} \cap Modifiers = {k} \cap Tracked)
    BY SessionAssumption DEF InputInv, Tracked
  <1>2. origin' \in Buttons \cup {"none"}
    BY DEF KeyDown, KeyUp, InputInv
  <1>3. CASE KeyDown(k)
    <2> DEFINE r == Rec(held', "pressed", k)
    <2>1. held' = held \cup ({k} \cap Tracked) /\ Enqueue(<<r>>)
      BY <1>1, <1>3 DEF KeyDown
    <2>2. held' \in SUBSET Tracked
      BY <1>1, <2>1
    <2>3. r \in Record /\ r.id = "pressed" /\ r.of = k /\ r.mods = held'
      BY <1>1, <2>2, RecIs, RecSays
    <2> HIDE DEF r
    <2>4. held' = Then(held, r) /\ Tells(held', r)
      BY <2>1, <2>3 DEF Then, Tells
    <2> QED BY <1>2, <2>1, <2>3, <2>4, OneKeeps
  <1>4. CASE KeyUp(k)
    <2> DEFINE r == Rec(held', "released", k)
    <2>1. held' = held \ {k} /\ Enqueue(<<r>>)
      BY <1>4 DEF KeyUp
    <2>2. held' \in SUBSET Tracked
      BY <1>1, <2>1
    <2>3. r \in Record /\ r.id = "released" /\ r.of = k /\ r.mods = held'
      <3>1. r \in Record
        BY <1>1, <2>2, RecIs
      <3> QED BY <3>1, RecSays
    <2> HIDE DEF r
    <2>4. held' = Then(held, r) /\ Tells(held', r)
      BY <2>1, <2>3 DEF Then, Tells
    <2> QED BY <1>2, <2>1, <2>3, <2>4, OneKeeps
  <1> QED BY <1>3, <1>4

(* Motion, characters, wheel and focus: held stays, the record says it.    *)
LEMMA StillKeeps ==
  ASSUME InputInv, LinkInv, Unread, PointerMove \/ Scroll \/ TypeText \/ FocusGained
  PROVE  InputInv' /\ NoPressLost
  <1> DEFINE Still(id) == Enqueue(<<Rec(held, id, "none")>>)
  <1>1. /\ held' = held /\ origin' = origin /\ held \in SUBSET Tracked
        /\ origin' \in Buttons \cup {"none"}
    BY DEF PointerMove, Scroll, TypeText, FocusGained, InputInv
  <1>2. \E id \in {"moved", "dragged", "wheel", "other"} :
          /\ Enqueue(<<Rec(held, id, "none")>>)
          /\ id \in {"moved", "dragged"} => (id = "dragged" <=> held \cap Buttons # {})
    <2>1. CASE PointerMove
      <3>1. Enqueue(<<Rec(held, IF Dragging THEN "dragged" ELSE "moved", "none")>>)
        BY <2>1 DEF PointerMove
      <3>2. CASE Dragging
        <4>1. Enqueue(<<Rec(held, "dragged", "none")>>) /\ held \cap Buttons # {}
          BY <3>1, <3>2 DEF Dragging
        <4> QED BY <4>1
      <3>3. CASE ~Dragging
        <4>1. Enqueue(<<Rec(held, "moved", "none")>>) /\ held \cap Buttons = {}
          BY <3>1, <3>3 DEF Dragging
        <4> QED BY <4>1
      <3> QED BY <3>2, <3>3
    <2>2. CASE Scroll
      BY <2>2 DEF Scroll
    <2>3. CASE TypeText \/ FocusGained
      BY <2>3 DEF TypeText, FocusGained
    <2> QED BY <2>1, <2>2, <2>3
  <1>3. PICK id \in {"moved", "dragged", "wheel", "other"} :
          /\ Enqueue(<<Rec(held, id, "none")>>)
          /\ id \in {"moved", "dragged"} => (id = "dragged" <=> held \cap Buttons # {})
    BY <1>2
  <1> DEFINE r == Rec(held, id, "none")
  <1>4. r \in Record /\ r.id = id /\ r.mods = held /\ Enqueue(<<r>>)
    BY <1>1, <1>3, RecIs, RecSays DEF Motion
  <1> HIDE DEF r
  <1>5. held' = Then(held, r) /\ Tells(held', r)
    BY <1>1, <1>3, <1>4 DEF Then, Tells
  <1> QED BY <1>1, <1>4, <1>5, OneKeeps

LEMMA PointerUpKeeps ==
  ASSUME InputInv, LinkInv, Unread, NEW b \in Buttons, NEW near \in BOOLEAN, PointerUp(b, near)
  PROVE  InputInv' /\ NoPressLost
  <1>1. held' = held \ {b} /\ origin' = "none" /\ held \in SUBSET Tracked /\ b \in Tracked
    BY DEF PointerUp, InputInv, Tracked
  <1>2. held' \in SUBSET Tracked /\ origin' \in Buttons \cup {"none"}
    BY <1>1
  <1> DEFINE r == Rec(held', "released", b)  q == Rec(held', "other", "none")
  <1>3. /\ r \in Record /\ r.id = "released" /\ r.of = b /\ r.mods = held'
        /\ q \in Record /\ q.id = "other" /\ q.mods = held'
    BY <1>1, <1>2, RecIs, RecSays
  <1>4. Enqueue(<<r>> \o IF near /\ origin = b THEN <<q>> ELSE <<>>)
    BY DEF PointerUp
  <1> HIDE DEF r, q
  <1>5. /\ held' = Then(held, r) /\ Tells(held', r)
        /\ held' = Then(held', q) /\ Tells(held', q)
    BY <1>1, <1>3 DEF Then, Tells
  <1>6. CASE near /\ origin = b
    <2> DEFINE rs == <<r>> \o <<q>>
               hs == [n \in 0 .. 2 |-> IF n = 0 THEN held ELSE held']
    <2>1. rs \in Seq(Record) /\ Len(rs) = 2 /\ rs[1] = r /\ rs[2] = q
      BY <1>3
    <2>2. hs[0] = held /\ hs[1] = held' /\ hs[2] = held'
      OBVIOUS
    <2>3. Enqueue(rs)
      BY <1>4, <1>6
    <2> HIDE DEF rs, hs
    <2>4. \A n \in 1 .. Len(rs) : hs[n] = Then(hs[n - 1], rs[n]) /\ Tells(hs[n], rs[n])
      <3>1. \A n \in 1 .. Len(rs) : (n = 1 /\ n - 1 = 0) \/ (n = 2 /\ n - 1 = 1)
        BY <2>1
      <3> QED BY <1>5, <2>1, <2>2, <3>1
    <2> QED BY <1>2, <2>1, <2>2, <2>3, <2>4, EnqueueKeeps
  <1>7. CASE ~(near /\ origin = b)
    <2>1. <<r>> \o <<>> = <<r>>
      BY <1>3
    <2>2. Enqueue(<<r>>)
      BY <1>4, <1>7, <2>1
    <2> QED BY <1>2, <1>3, <1>5, <2>2, OneKeeps
  <1> QED BY <1>6, <1>7

(* release_all visits every button and modifier, so nothing stays held.    *)
LEMMA ReleaseKeeps ==
  ASSUME InputInv, LinkInv, Unread, NEW tail \in Seq(Record), Len(tail) <= 1,
         \A i \in 1 .. Len(tail) : tail[i].id \in {"other", "resized"} /\ tail[i].mods = {},
         ReleaseThen(tail)
  PROVE  InputInv' /\ NoPressLost
  <1> DEFINE picked == {i \in DOMAIN ReleaseOrder : ReleaseOrder[i] \in held}
             down == Subsequence(ReleaseOrder, picked)
             ups  == [i \in DOMAIN down |-> Rec(held \ {down[j] : j \in 1 .. i}, "released", down[i])]
             rs == ups \o tail
             m == Len(down)
             hs == [n \in 0 .. Len(rs) |-> IF n <= m THEN held \ {down[j] : j \in 1 .. n} ELSE {}]
  <1>1. /\ held' = {} /\ origin' = "none" /\ Enqueue(rs) /\ held \in SUBSET Tracked
        /\ origin' \in Buttons \cup {"none"}
    BY DEF ReleaseThen, InputInv
  <1>2. /\ ReleaseOrder \in Seq(Tracked) /\ DOMAIN ReleaseOrder = 1 .. Len(ReleaseOrder)
        /\ \A x \in Tracked : \E i \in DOMAIN ReleaseOrder : ReleaseOrder[i] = x
    <2>1. ReleaseOrder \in Seq(Tracked) /\ ToSet(ReleaseOrder) = Tracked
      BY SessionAssumption
    <2> QED BY <2>1, Indices DEF ToSet
  <1>3. down \in Seq(Tracked) /\ {down[j] : j \in 1 .. m} = held
    <2>1. picked \in SUBSET (1 .. Len(ReleaseOrder))
      BY <1>2
    <2> HIDE DEF picked
    <2>2. down \in Seq(Tracked) /\ \E e : Picks(e, down, ReleaseOrder, picked)
      BY <1>2, <2>1, SubsequencePicks
    <2>3. PICK e : Picks(e, down, ReleaseOrder, picked)
      BY <2>2
    <2> HIDE DEF down
    <2>4. \A j \in 1 .. m : e[j] \in picked /\ down[j] = ReleaseOrder[e[j]]
      BY <2>3 DEF Picks
    <2>5. \A j \in 1 .. m : down[j] \in held
      BY <2>4 DEF picked
    <2>6. \A x \in held : \E j \in 1 .. m : down[j] = x
      <3> TAKE x \in held
      <3>1. PICK i \in picked : ReleaseOrder[i] = x
        BY <1>1, <1>2 DEF picked
      <3>2. PICK j \in 1 .. m : e[j] = i
        BY <2>3 DEF Picks
      <3> QED BY <2>4, <3>1, <3>2
    <2> QED BY <2>2, <2>5, <2>6
  <1> HIDE DEF down
  <1>4. m \in Nat /\ DOMAIN down = 1 .. m /\ \A i \in 1 .. m : down[i] \in Tracked
    BY <1>3, Indices
  <1>5. ups \in Seq(Record) /\ Len(ups) = m
        /\ \A i \in 1 .. m : /\ ups[i].id = "released" /\ ups[i].of = down[i]
                             /\ ups[i].mods = held \ {down[j] : j \in 1 .. i}
    <2>1. \A i \in 1 .. m : held \ {down[j] : j \in 1 .. i} \in SUBSET Tracked
      BY <1>1
    <2>2. \A i \in 1 .. m : ups[i] \in Record
      BY <1>4, <2>1, RecIs, RecSays
    <2>3. DOMAIN ups = 1 .. m
      BY <1>4
    <2>4. \A i \in 1 .. m : /\ ups[i].id = "released" /\ ups[i].of = down[i]
                            /\ ups[i].mods = held \ {down[j] : j \in 1 .. i}
      BY <1>4, <2>1, RecIs, RecSays
    <2>5. ups = [i \in 1 .. m |-> ups[i]]
      BY <1>4
    <2> HIDE DEF ups
    <2>6. ups \in [1 .. m -> Record]
      BY <2>2, <2>5
    <2>7. ups \in Seq(Record)
      BY <1>4, <2>6
    <2>8. Len(ups) \in Nat /\ DOMAIN ups = 1 .. Len(ups)
      BY <2>7, Indices
    <2>9. Len(ups) = m
      BY <1>4, <2>3, <2>8
    <2> QED BY <2>4, <2>7, <2>9
  <1> HIDE DEF ups
  <1>6. /\ rs \in Seq(Record) /\ Len(rs) = m + Len(tail) /\ Len(tail) \in Nat
        /\ \A n \in 1 .. Len(rs) : rs[n] = IF n <= m THEN ups[n] ELSE tail[n - m]
    <2>1. /\ rs \in Seq(Record) /\ Len(rs) = Len(ups) + Len(tail)
          /\ \A n \in 1 .. Len(ups) + Len(tail) :
               rs[n] = IF n <= Len(ups) THEN ups[n] ELSE tail[n - Len(ups)]
      BY <1>5, ConcatProperties
    <2> QED BY <1>5, <2>1, Indices
  <1>7. /\ \A n \in 0 .. Len(rs) :
             hs[n] = IF n <= m THEN held \ {down[j] : j \in 1 .. n} ELSE {}
    OBVIOUS
  <1> HIDE DEF rs, hs, m
  <1>8. hs[0] = held
    <2>1. 0 \in 0 .. Len(rs) /\ 0 <= m /\ 1 .. 0 = {}
      BY <1>4, <1>6
    <2> QED BY <1>7, <2>1
  <1>9. hs[m] = {} /\ hs[Len(rs)] = {}
    <2>1. m \in 0 .. Len(rs) /\ m <= m /\ Len(rs) \in 0 .. Len(rs)
      BY <1>4, <1>6
    <2>2. hs[m] = {}
      BY <1>3, <1>7, <2>1
    <2>3. Len(rs) = m \/ ~(Len(rs) <= m)
      BY <1>4, <1>6
    <2> QED BY <1>7, <2>1, <2>2, <2>3
  <1>10. ASSUME NEW n \in 1 .. Len(rs)
         PROVE  hs[n] = Then(hs[n - 1], rs[n]) /\ Tells(hs[n], rs[n])
    <2>1. n \in 0 .. Len(rs) /\ n - 1 \in 0 .. Len(rs)
      BY <1>4, <1>6
    <2>2. CASE n <= m
      <3>1. n \in 1 .. m /\ n - 1 <= m
        BY <1>4, <1>6, <2>2
      <3>2. hs[n] = held \ {down[j] : j \in 1 .. n} /\ hs[n - 1] = held \ {down[j] : j \in 1 .. n - 1}
        BY <1>7, <2>1, <2>2, <3>1
      <3>3. hs[n] = hs[n - 1] \ {down[n]}
        <4>1. \A j : j \in 1 .. n <=> j \in 1 .. n - 1 \/ j = n
          BY <1>4, <3>1
        <4> QED BY <3>2, <4>1
      <3>4. /\ rs[n].id = "released" /\ rs[n].of = down[n]
            /\ rs[n].mods = held \ {down[j] : j \in 1 .. n}
        BY <1>5, <1>6, <2>2, <3>1
      <3> QED BY <3>2, <3>3, <3>4 DEF Then, Tells
    <2>3. CASE ~(n <= m)
      <3>1. n = m + 1 /\ n - 1 = m /\ n - m = 1 /\ 1 \in 1 .. Len(tail)
        BY <1>4, <1>6, <2>3
      <3>2. hs[n] = {} /\ hs[n - 1] = {}
        BY <1>7, <1>9, <2>1, <2>3, <3>1
      <3>3. rs[n].id \in {"other", "resized"} /\ rs[n].mods = {}
        BY <1>6, <2>3, <3>1
      <3> QED BY <3>2, <3>3 DEF Then, Tells
    <2> QED BY <2>2, <2>3
  <1>11. Enqueue(rs) /\ hs[Len(rs)] = held' /\ rs \in Seq(Record)
    BY <1>1, <1>6, <1>9
  <1> QED BY <1>1, <1>8, <1>10, <1>11, EnqueueKeeps

LEMMA ResetKeeps == ASSUME InputInv, Unread, LinkInv, ResetInput PROVE InputInv' /\ NoPressLost
  <1>1. /\ held' = {} /\ origin' = "none" /\ outbox' = <<>>
        /\ lost' = [lost EXCEPT !.adrift = Tracked, !.reset = TRUE, !.burst = 0]
    BY DEF ResetInput
  <1>2. /\ lost \in [adrift : SUBSET Tracked, shed : BOOLEAN, reset : BOOLEAN, burst : 0 .. MaxPending]
        /\ MaxPending \in Nat
    BY SessionAssumption DEF InputInv
  <1>3. /\ lost' \in [adrift : SUBSET Tracked, shed : BOOLEAN, reset : BOOLEAN, burst : 0 .. MaxPending]
        /\ lost'.adrift = Tracked /\ lost'.reset = TRUE /\ lost'.burst = 0 /\ lost'.shed = lost.shed
    <2>1. 0 \in 0 .. MaxPending /\ Tracked \in SUBSET Tracked
      BY <1>2
    <2> QED BY <1>1, <1>2, <2>1
  <1>4. /\ Box'.box = <<>> /\ Box'.burst = 0 /\ Box'.adrift = Tracked /\ Box' \in BoxState
    <2>1. <<>> \in Seq(Record)
      OBVIOUS
    <2> QED BY <1>1, <1>3, <2>1 DEF Box, BoxState
  <1>5. Cardinality(Costly(<<>>)) = 0
    <2>1. Costly(<<>>) = {}
      BY DEF Costly
    <2> QED BY <2>1, FS_EmptySet
  <1>6. Bounded(Box', lost'.reset)
    <2>1. Len(<<>>) = 0
      OBVIOUS
    <2> QED BY <1>2, <1>3, <1>4, <1>5, <2>1 DEF Bounded
  <1>7. Arrives(pressed', events' \o batch', Box', lost'.reset, held')
    BY <1>3, <1>4 DEF Arrives, Converges
  <1>8. NoPressLost
    BY <1>3 DEF NoPressLost
  <1> QED BY <1>1, <1>3, <1>6, <1>7, <1>8 DEF InputInv
-----------------------------------------------------------------------------
(* The pixel side of every handler.                                        *)
LEMMA HullIs ==
  ASSUME NEW n \in Nat, NEW T \in SUBSET (1 .. n), T # {}
  PROVE  T \subseteq Hull(T) /\ Hull(T) \subseteq 1 .. n
  <1>1. T \in SUBSET Nat
    OBVIOUS
  <1>2. Min(T) \in T /\ \A y \in T : Min(T) <= y
    BY <1>1, LeastIsMin
  <1>3. Max(T) \in T /\ \A y \in T : y <= Max(T)
    BY Greatest
  <1> DEFINE a == Min(T)  b == Max(T)
  <1>4. a \in 1 .. n /\ b \in 1 .. n
    BY <1>2, <1>3
  <1> HIDE DEF a, b
  <1>5. a .. b \subseteq 1 .. n
    BY <1>4
  <1>6. \A y \in T : y \in a .. b
    BY <1>2, <1>3, <1>4 DEF a, b
  <1> QED BY <1>5, <1>6 DEF Hull, a, b

LEMMA FrameIs ==
  ASSUME NEW f \in Frame
  PROVE  /\ f.size \in Sizes /\ f.size \in Nat \ {0} /\ f.damage \in SUBSET (1 .. f.size)
         /\ f.damage # {} /\ f.kind \in {"good", "invalid", "desync"}
  <1>1. PICK s \in Sizes : f \in [kind : {"good", "invalid", "desync"}, size : {s},
                                  damage : (SUBSET (1 .. s)) \ {{}}]
    BY DEF Frame
  <1> DEFINE D == (SUBSET (1 .. s)) \ {{}}
  <1>2. s \in Nat \ {0} /\ \A d \in D : d \in SUBSET (1 .. s) /\ d # {}
    <2>1. s \in Nat \ {0}
      BY SessionAssumption
    <2>2. \A d \in D : d \in SUBSET (1 .. s) /\ d # {}
      OBVIOUS
    <2> QED BY <2>1, <2>2
  <1> HIDE DEF D
  <1>3. f.kind \in {"good", "invalid", "desync"} /\ f.size = s /\ f.damage \in D
    BY <1>1 DEF D
  <1>4. f.damage \in SUBSET (1 .. s) /\ f.damage # {}
    BY <1>2, <1>3
  <1> QED BY <1>2, <1>3, <1>4

LEMMA AllDirtyKeeps ==
  ASSUME PixelInv, NEW s \in Sizes, NEW b, b = buffer \/ b = FitBuffer(buffer, s),
         AllDirty(s, b), size' = s
  PROVE  PixelInv'
  <1>1. /\ buffer \in [size : Sizes, stale : SUBSET Nat, skewed : BOOLEAN]
        /\ \A m \in Sizes : m \in Nat \ {0}
    BY SessionAssumption DEF PixelInv
  <1>2. /\ b \in [size : Sizes, stale : SUBSET Nat, skewed : BOOLEAN]
    <2>1. CASE b = buffer
      BY <1>1, <2>1
    <2>2. CASE b = [buffer EXCEPT !.size = s, !.stale = 1 .. s]
      <3>1. 1 .. s \in SUBSET Nat
        BY <1>1
      <3> DEFINE T == 1 .. s
      <3> HIDE DEF T
      <3>2. [buffer EXCEPT !.size = s, !.stale = T] \in [size : Sizes, stale : SUBSET Nat, skewed : BOOLEAN]
        BY <1>1, <3>1 DEF T
      <3> QED BY <2>2, <3>2 DEF T
    <2> QED BY <2>1, <2>2 DEF FitBuffer
  <1>3. dirty' = 1 .. s /\ buffer' = [b EXCEPT !.stale = 1 .. b.size, !.skewed = FALSE]
    BY DEF AllDirty
  <1> DEFINE T == 1 .. b.size
  <1>4. T \in SUBSET Nat /\ b.size \in Sizes
    BY <1>1, <1>2
  <1> HIDE DEF T
  <1>5. /\ buffer' \in [size : Sizes, stale : SUBSET Nat, skewed : BOOLEAN]
        /\ buffer'.size = b.size /\ buffer'.stale = T /\ buffer'.skewed = FALSE
    BY <1>2, <1>3, <1>4 DEF T
  <1> QED BY <1>3, <1>4, <1>5 DEF PixelInv, StaleIsDirty, T

LEMMA SubmitKeeps ==
  ASSUME PixelInv, NEW f \in Frame, SubmitFrame(f) PROVE PixelInv'
  <1>1. /\ buffer \in [size : Sizes, stale : SUBSET Nat, skewed : BOOLEAN]
        /\ size \in Sizes /\ \A m \in Sizes : m \in Nat \ {0}
        /\ buffer.stale \subseteq 1 .. buffer.size /\ dirty \subseteq 1 .. size
    BY SessionAssumption DEF PixelInv
  <1>2. CASE f.size = size
    <2> DEFINE T == buffer.stale \cup (f.damage \cap 1 .. buffer.size)
               U == dirty \cup f.damage
    <2>1. size' = size /\ dirty' = Hull(U) /\ buffer' = [buffer EXCEPT !.stale = T]
      BY <1>2 DEF SubmitFrame
    <2>2. U \in SUBSET (1 .. size) /\ U # {} /\ size \in Nat
      BY <1>1, <1>2, FrameIs
    <2>3. U \subseteq dirty' /\ dirty' \subseteq 1 .. size
      BY <2>1, <2>2, HullIs
    <2>4. T \in SUBSET Nat /\ T \subseteq 1 .. buffer.size
      BY <1>1
    <2> HIDE DEF T
    <2>5. /\ buffer' \in [size : Sizes, stale : SUBSET Nat, skewed : BOOLEAN]
          /\ buffer'.size = buffer.size /\ buffer'.stale = T /\ buffer'.skewed = buffer.skewed
      BY <1>1, <2>1, <2>4
    <2>6. buffer'.size = size' /\ ~buffer'.skewed => buffer'.stale \subseteq dirty'
      <3>1. buffer.size = size /\ ~buffer.skewed => buffer.stale \subseteq dirty
        BY DEF PixelInv, StaleIsDirty
      <3> QED BY <2>1, <2>3, <2>5, <3>1 DEF T
    <2>7. buffer'.size # size' /\ ~buffer'.skewed => dirty' = 1 .. size
      <3>1. buffer.size # size /\ ~buffer.skewed => dirty = 1 .. size
        BY DEF PixelInv
      <3> QED BY <2>1, <2>3, <2>5, <3>1
    <2> QED BY <1>1, <2>1, <2>3, <2>4, <2>5, <2>6, <2>7 DEF PixelInv, StaleIsDirty
  <1>3. CASE f.size # size
    <2>1. size' = f.size /\ AllDirty(f.size, buffer) /\ f.size \in Sizes
      BY <1>3, FrameIs DEF SubmitFrame
    <2> QED BY <2>1, AllDirtyKeeps
  <1> QED BY <1>2, <1>3

LEMMA ReshapeKeeps ==
  ASSUME PixelInv, Repaint \/ \E s \in Sizes : Configure(s) PROVE PixelInv'
  <1>1. CASE Repaint
    <2>1. size' = size /\ size \in Sizes /\ AllDirty(size, FitBuffer(buffer, size))
      BY <1>1 DEF Repaint, PixelInv
    <2> QED BY <2>1, AllDirtyKeeps
  <1>2. ASSUME NEW s \in Sizes, Configure(s) PROVE PixelInv'
    <2>1. size' = s /\ AllDirty(s, FitBuffer(buffer, s))
      BY <1>2 DEF Configure
    <2> QED BY <2>1, AllDirtyKeeps
  <1> QED BY <1>1, <1>2

LEMMA DrawKeeps == ASSUME PixelInv, Poll \/ Refresh PROVE PixelInv'
  <1>1. /\ buffer \in [size : Sizes, stale : SUBSET Nat, skewed : BOOLEAN]
        /\ size \in Sizes /\ \A m \in Sizes : m \in Nat \ {0}
        /\ buffer.stale \subseteq 1 .. buffer.size /\ dirty \subseteq 1 .. size
        /\ buffer.size = size /\ ~buffer.skewed => buffer.stale \subseteq dirty
        /\ buffer.size # size /\ ~buffer.skewed => dirty = 1 .. size
    BY SessionAssumption DEF PixelInv, StaleIsDirty
  <1>2. CASE Refresh
    <2> DEFINE T == 1 .. size
    <2>1. /\ size' = size /\ dirty' = dirty /\ buffer.size # size
          /\ buffer' = [buffer EXCEPT !.size = size, !.stale = T]
      BY <1>2 DEF Refresh, FitBuffer
    <2>2. T \in SUBSET Nat
      BY <1>1
    <2> HIDE DEF T
    <2>3. /\ buffer' \in [size : Sizes, stale : SUBSET Nat, skewed : BOOLEAN]
          /\ buffer'.size = size /\ buffer'.stale = T /\ buffer'.skewed = buffer.skewed
      BY <1>1, <2>1, <2>2
    <2> QED BY <1>1, <2>1, <2>3 DEF PixelInv, StaleIsDirty, T
  <1>3. CASE Poll /\ buffer.size = size
    <2> DEFINE T == buffer.stale \ dirty
    <2>1. size' = size /\ dirty' = {} /\ buffer' = [buffer EXCEPT !.stale = T]
      BY <1>3 DEF Poll
    <2>2. T \in SUBSET Nat /\ T \subseteq 1 .. buffer.size /\ (~buffer.skewed => T = {})
      BY <1>1, <1>3
    <2> HIDE DEF T
    <2>3. /\ buffer' \in [size : Sizes, stale : SUBSET Nat, skewed : BOOLEAN]
          /\ buffer'.size = size /\ buffer'.stale = T /\ buffer'.skewed = buffer.skewed
      BY <1>1, <1>3, <2>1, <2>2
    <2> QED BY <1>1, <1>3, <2>1, <2>2, <2>3 DEF PixelInv, StaleIsDirty
  <1>4. CASE Poll /\ buffer.size # size
    <2> DEFINE T == 1 .. buffer.size
    <2>1. /\ size' = size /\ dirty' = {}
          /\ buffer' = [buffer EXCEPT !.stale = T, !.skewed = TRUE]
      BY <1>4 DEF Poll
    <2>2. T \in SUBSET Nat
      BY <1>1
    <2> HIDE DEF T
    <2>3. /\ buffer' \in [size : Sizes, stale : SUBSET Nat, skewed : BOOLEAN]
          /\ buffer'.size = buffer.size /\ buffer'.stale = T /\ buffer'.skewed = TRUE
      BY <1>1, <2>1, <2>2
    <2> QED BY <1>1, <2>1, <2>3 DEF PixelInv, StaleIsDirty, T
  <1> QED BY <1>2, <1>3, <1>4

LEMMA FrameMade ==
  ASSUME NEW kind \in {"good", "invalid", "desync"}, NEW s \in Sizes,
         NEW d \in SUBSET (1 .. s), d # {}
  PROVE  [kind |-> kind, size |-> s, damage |-> d] \in Frame
  <1> DEFINE D == (SUBSET (1 .. s)) \ {{}}
             F == [kind : {"good", "invalid", "desync"}, size : {s}, damage : D]
  <1>1. d \in D
    OBVIOUS
  <1>2. F \subseteq Frame
    BY DEF Frame
  <1> HIDE DEF D
  <1>3. [kind |-> kind, size |-> s, damage |-> d] \in F
    BY <1>1
  <1> QED BY <1>2, <1>3

(* The end of the stream cuts the last frame.                              *)
LEMMA FrameCut ==
  ASSUME NEW q \in Seq(Frame), q # <<>>
  PROVE  LET t == [q EXCEPT ![Len(q)].kind = "desync"] IN t \in Seq(Frame) /\ Len(t) = Len(q)
  <1> DEFINE n == Len(q)  f == q[n]  g == [f EXCEPT !.kind = "desync"]
             t == [q EXCEPT ![n] = g]
  <1>1. n \in Nat /\ n # 0 /\ DOMAIN q = 1 .. n /\ \A i \in 1 .. n : q[i] \in Frame
    BY Indices, EmptySeq
  <1>2. g \in Frame
    <2>1. f \in Frame
      BY <1>1
    <2>2. PICK s \in Sizes : f \in [kind : {"good", "invalid", "desync"}, size : {s},
                                    damage : (SUBSET (1 .. s)) \ {{}}]
      BY <2>1 DEF Frame
    <2> DEFINE D == (SUBSET (1 .. s)) \ {{}}
    <2> HIDE DEF D, f
    <2>3. g \in [kind : {"good", "invalid", "desync"}, size : {s}, damage : D]
      BY <2>2 DEF D
    <2> QED BY <2>3 DEF Frame, D
  <1> HIDE DEF g
  <1>3. t \in Seq(Frame) /\ Len(t) = n
    <2>1. t = [i \in 1 .. n |-> IF i = n THEN g ELSE q[i]]
      BY <1>1
    <2>2. t \in [1 .. n -> Frame]
      BY <1>1, <1>2, <2>1
    <2> HIDE DEF t
    <2>3. t \in Seq(Frame)
      BY <1>1, <2>2
    <2>4. DOMAIN t = 1 .. n /\ DOMAIN t = 1 .. Len(t) /\ Len(t) \in Nat
      BY <2>2, <2>3, Indices
    <2>5. Len(t) = n
      BY <1>1, <2>4
    <2> QED BY <2>3, <2>5
  <1> QED BY <1>3 DEF g

-----------------------------------------------------------------------------
(* What the pumps and the JVM do to records on their way.                  *)
LEMMA InputSame ==
  ASSUME InputInv, UNCHANGED input, jvm' # "gone" => jvm # "gone",
         jvm' # "gone" => pressed' = pressed /\ events' \o batch' = events \o batch
  PROVE  InputInv' /\ NoPressLost
  <1>1. /\ held' = held /\ origin' = origin /\ lost' = lost /\ Box' = Box
    BY DEF input, Box
  <1>2. NoPressLost
    BY <1>1 DEF NoPressLost
  <1>3. jvm' # "gone" => Arrives(pressed', events' \o batch', Box', lost'.reset, held')
    BY <1>1 DEF InputInv
  <1> QED BY <1>1, <1>2, <1>3 DEF InputInv

LEMMA DrainKeeps ==
  ASSUME InputInv, LinkInv, Drain PROVE InputInv' /\ LinkInv' /\ NoPressLost
  <1>1. /\ eventPump = "running" /\ outbox # <<>> /\ eventPump' = "writing"
        /\ batch' = outbox /\ outbox' = <<>> /\ lost' = [lost EXCEPT !.burst = 0]
        /\ UNCHANGED <<held, origin, framePump, stop, closing, jvm, pressed, view, events, frames, left>>
    BY DEF Drain, game
  <1>2. /\ lost \in [adrift : SUBSET Tracked, shed : BOOLEAN, reset : BOOLEAN, burst : 0 .. MaxPending]
        /\ MaxPending \in Nat
    BY SessionAssumption DEF InputInv
  <1>3. /\ lost' \in [adrift : SUBSET Tracked, shed : BOOLEAN, reset : BOOLEAN, burst : 0 .. MaxPending]
        /\ lost'.adrift = lost.adrift /\ lost'.reset = lost.reset /\ lost'.burst = 0
        /\ lost'.shed = lost.shed
    <2>1. 0 \in 0 .. MaxPending
      BY <1>2
    <2> QED BY <1>1, <1>2, <2>1
  <1>4. outbox \in Seq(Record) /\ batch = <<>> /\ events \in Seq(Record)
    BY <1>1 DEF InputInv, LinkInv, Bounded, BoxState, Box
  <1>5. /\ Box' = [box |-> <<>>, adrift |-> lost.adrift, shed |-> lost.shed, burst |-> 0]
        /\ <<>> \in Seq(Record) /\ Len(<<>>) = 0
    BY <1>1, <1>3 DEF Box
  <1>6. Cardinality(Costly(<<>>)) = 0
    <2>1. Costly(<<>>) = {}
      BY DEF Costly
    <2> QED BY <2>1, FS_EmptySet
  <1>7. Bounded(Box', lost'.reset)
    <2>1. ~lost.shed /\ ~lost.reset => lost.adrift = {}
      BY DEF InputInv, Bounded, Box
    <2>2. Box' \in BoxState
      BY <1>2, <1>3, <1>5 DEF BoxState
    <2> QED BY <1>2, <1>3, <1>5, <1>6, <2>1, <2>2 DEF Bounded
  <1>8. (events' \o batch') \o <<>> = (events \o batch) \o outbox
    <2>1. events \o <<>> = events /\ (events \o outbox) \o <<>> = events \o outbox
      <3>1. events \o outbox \in Seq(Record)
        BY <1>4, ConcatProperties
      <3> QED BY <1>4, <3>1, ConcatEmptySeq
    <2> QED BY <1>1, <1>4, <2>1
  <1>9. jvm' # "gone" => Arrives(pressed', events' \o batch', Box', lost'.reset, held')
    BY <1>1, <1>3, <1>5, <1>8 DEF InputInv, Arrives, Box
  <1>10. LinkInv'
    BY <1>1, <1>4 DEF LinkInv
  <1> QED BY <1>1, <1>3, <1>7, <1>9, <1>10 DEF InputInv, NoPressLost

LEMMA WriteKeeps ==
  ASSUME InputInv, LinkInv, WriteRecord PROVE InputInv' /\ LinkInv' /\ NoPressLost
  <1>1. /\ eventPump = "writing" /\ Len(events) < PipeSize
        /\ events' = Append(events, Head(batch)) /\ batch' = Tail(batch)
        /\ eventPump' = IF Tail(batch) = <<>> THEN "running" ELSE "writing"
        /\ UNCHANGED <<framePump, stop, closing, jvm, pressed, view, frames, left>>
        /\ UNCHANGED input
    BY DEF WriteRecord
  <1>2. batch \in Seq(Record) /\ batch # <<>> /\ events \in Seq(Record) /\ PipeSize \in Nat
    BY <1>1, HostAssumption DEF LinkInv
  <1>3. /\ Head(batch) \in Record /\ Tail(batch) \in Seq(Record)
        /\ batch = <<Head(batch)>> \o Tail(batch)
    <2>1. Head(batch) \in Record /\ Tail(batch) \in Seq(Record)
      BY <1>2, HeadTailProperties
    <2> QED BY <1>2, <2>1
  <1>4. events' \o batch' = events \o batch
    <2> DEFINE h == Head(batch)  t == Tail(batch)
    <2>1. h \in Record /\ t \in Seq(Record) /\ batch = <<h>> \o t
      BY <1>3
    <2> HIDE DEF h, t
    <2>2. <<h>> \in Seq(Record)
      BY <2>1
    <2>3. Append(events, h) = events \o <<h>>
      BY <1>2, <2>1, AppendIsConcat
    <2>4. (events \o <<h>>) \o t = events \o (<<h>> \o t)
      BY <1>2, <2>1, <2>2, ConcatAssociative
    <2> QED BY <1>1, <2>1, <2>3, <2>4 DEF h, t
  <1>5. InputInv' /\ NoPressLost
    BY <1>1, <1>4, InputSame
  <1>6. events' \in Seq(Record) /\ Len(events') <= PipeSize
    <2>1. events' \in Seq(Record) /\ Len(events') = Len(events) + 1 /\ Len(events) \in Nat
      BY <1>1, <1>2, <1>3, AppendProperties, Indices
    <2> QED BY <1>1, <1>2, <2>1
  <1>7. LinkInv'
    BY <1>1, <1>3, <1>6 DEF LinkInv
  <1> QED BY <1>5, <1>7

LEMMA ReadKeeps ==
  ASSUME InputInv, LinkInv, JvmReads PROVE InputInv' /\ LinkInv' /\ NoPressLost
  <1> DEFINE r == Head(events)
  <1>1. /\ jvm = "up" /\ events # <<>> /\ events' = Tail(events)
        /\ pressed' = CASE r.id = "pressed"  -> pressed \cup {r.of}
                         [] r.id = "released" -> pressed \ {r.of}
                         [] OTHER             -> pressed
        /\ view' = IF r.id = "resized" THEN r.to ELSE view
        /\ UNCHANGED <<framePump, eventPump, batch, stop, closing, jvm, frames, left>>
        /\ UNCHANGED input
    BY DEF JvmReads, host
  <1>2. /\ events \in Seq(Record) /\ batch \in Seq(Record) /\ outbox \in Seq(Record)
        /\ Len(events) \in Nat /\ Len(events) <= PipeSize
    BY Indices DEF LinkInv, InputInv, Bounded, BoxState, Box
  <1>3. /\ r \in Record /\ events' \in Seq(Record) /\ Len(events') = Len(events) - 1
        /\ Len(events) > 0 /\ r = events[1]
        /\ \A i \in 1 .. Len(events') : events'[i] = events[i + 1]
    <2>1. /\ r \in Record /\ events' \in Seq(Record) /\ Len(events') = Len(events) - 1
          /\ \A i \in 1 .. Len(events') : events'[i] = events[i + 1]
      BY <1>1, <1>2, HeadTailProperties
    <2>2. Len(events) # 0
      BY <1>1, <1>2, EmptySeq
    <2>3. r = events[1]
      BY <1>2, <2>2
    <2> QED BY <1>2, <2>1, <2>2, <2>3
  <1> HIDE DEF r
  <1>4. /\ r.id \in {"pressed", "released"} => r.of \in Tracked \cup Keys
        /\ r.id = "resized" => r.to \in Sizes
    BY <1>3 DEF Record, Motion
  <1>5. pressed' \subseteq Tracked \cup Keys /\ view' \in Sizes
    BY <1>1, <1>4 DEF LinkInv
  <1>6. PipeSize \in Nat
    BY HostAssumption
  <1>7. Len(events') <= PipeSize
    BY <1>2, <1>3, <1>6
  <1>8. LinkInv'
    BY <1>1, <1>3, <1>5, <1>7 DEF LinkInv
  <1> DEFINE s == (events \o batch) \o outbox
             t == (events' \o batch) \o outbox
             tl == batch \o outbox
             ev == events'
  <1>9. tl \in Seq(Record) /\ s = events \o tl /\ t = ev \o tl
    <2>1. ev \in Seq(Record) /\ t = (ev \o batch) \o outbox
      BY <1>3
    <2> HIDE DEF ev, t
    <2>2. tl \in Seq(Record)
      BY <1>2, <1>3, Behind
    <2>3. (events \o batch) \o outbox = events \o (batch \o outbox)
      BY <1>2, ConcatAssociative
    <2>4. (ev \o batch) \o outbox = ev \o (batch \o outbox)
      <3>1. ev \in Seq(Record) /\ batch \in Seq(Record) /\ outbox \in Seq(Record)
        BY <1>2, <2>1
      <3> HIDE DEF tl, s
      <3> QED BY ONLY <3>1, ConcatAssociative
    <2> QED BY <2>1, <2>2, <2>3, <2>4
  <1>10. /\ s \in Seq(Record) /\ t \in Seq(Record)
         /\ Len(s) = Len(events) + Len(tl) /\ Len(t) = Len(events') + Len(tl) /\ Len(tl) \in Nat
         /\ \A i \in 1 .. Len(events) : s[i] = events[i]
         /\ \A i \in 1 .. Len(tl) : s[Len(events) + i] = tl[i]
         /\ \A i \in 1 .. Len(events') : t[i] = events'[i]
         /\ \A i \in 1 .. Len(tl) : t[Len(events') + i] = tl[i]
    <2>1. ev \in Seq(Record) /\ ev = events'
      BY <1>3
    <2> HIDE DEF s, t, tl, ev
    <2>2. /\ s \in Seq(Record) /\ Len(s) = Len(events) + Len(tl) /\ Len(tl) \in Nat
          /\ \A i \in 1 .. Len(events) : s[i] = events[i]
          /\ \A i \in 1 .. Len(tl) : s[Len(events) + i] = tl[i]
      BY <1>3, <1>2, <1>9, Behind
    <2>3. /\ t \in Seq(Record) /\ Len(t) = Len(ev) + Len(tl)
          /\ \A i \in 1 .. Len(ev) : t[i] = ev[i]
          /\ \A i \in 1 .. Len(tl) : t[Len(ev) + i] = tl[i]
      BY <1>3, <1>9, <2>1, Behind
    <2> QED BY <2>1, <2>2, <2>3
  <1> HIDE DEF s, t, tl, ev
  <1>11. /\ Len(s) = Len(t) + 1 /\ Len(t) \in Nat /\ s[1] = r
         /\ \A i \in 1 .. Len(t) : t[i] = s[i + 1]
    <2>1. Len(s) = Len(t) + 1 /\ Len(t) \in Nat /\ s[1] = r
      BY <1>2, <1>3, <1>10
    <2>2. ASSUME NEW i \in 1 .. Len(t) PROVE t[i] = s[i + 1]
      <3>1. CASE i <= Len(events')
        <4>1. i \in 1 .. Len(events') /\ i + 1 \in 1 .. Len(events)
          BY <1>2, <1>3, <1>10, <3>1
        <4> QED BY <1>3, <1>10, <4>1
      <3>2. CASE ~(i <= Len(events'))
        <4> DEFINE j == i - Len(events')
        <4>1. j \in 1 .. Len(tl) /\ i = Len(events') + j /\ i + 1 = Len(events) + j
          BY <1>2, <1>3, <1>10, <3>2
        <4> HIDE DEF j
        <4> QED BY <1>10, <4>1
      <3> QED BY <3>1, <3>2
    <2> QED BY <2>1, <2>2
  <1>12. \A x \in Tracked : x \in pressed' <=> IF About(s[1], x) THEN s[1].id = "pressed" ELSE x \in pressed
    BY <1>1, <1>11 DEF About
  <1> DEFINE p == pressed  q == pressed'
  <1>13. \A n \in 0 .. Len(t) : \A x \in Tracked : Believed(q, t, n, x) <=> Believed(p, s, n + 1, x)
    <2> TAKE n \in 0 .. Len(t)
    <2> TAKE x \in Tracked
    <2>1. n \in Nat /\ \A i \in 1 .. n : t[i] = s[i + 1]
      BY <1>11
    <2>2. x \in q <=> IF About(s[1], x) THEN s[1].id = "pressed" ELSE x \in p
      BY <1>12
    <2> HIDE DEF p, q
    <2> QED BY <2>1, <2>2, BelievedRead
  <1>14. Arrives(p, events \o batch, Box, lost.reset, held)
    BY <1>1 DEF InputInv
  <1>15. /\ Converges(p, s, lost.adrift, held)
         /\ ~lost.shed /\ ~lost.reset => Truthful(p, s)
    BY <1>14 DEF Arrives, Box, s
  <1> HIDE DEF p, q
  <1>16. Converges(q, t, lost.adrift, held)
    <2>1. Len(t) \in 0 .. Len(t) /\ Len(s) = Len(t) + 1
      BY <1>11
    <2> QED BY <1>13, <1>15, <2>1 DEF Converges
  <1>17. Truthful(p, s) => Truthful(q, t)
    <2> SUFFICES ASSUME Truthful(p, s), NEW n \in 1 .. Len(t)
                 PROVE  Tells({x \in Tracked : Believed(q, t, n, x)}, t[n])
      BY DEF Truthful
    <2>1. n \in 0 .. Len(t) /\ n + 1 \in 1 .. Len(s) /\ t[n] = s[n + 1]
      BY <1>11
    <2>2. {x \in Tracked : Believed(q, t, n, x)} = {x \in Tracked : Believed(p, s, n + 1, x)}
      BY <1>13, <2>1
    <2> QED BY <2>1, <2>2 DEF Truthful
  <1>18. Box' = Box /\ lost' = lost /\ held' = held /\ origin' = origin
    BY <1>1 DEF Box, input
  <1>19. Arrives(pressed', events' \o batch', Box', lost'.reset, held')
    BY <1>1, <1>15, <1>16, <1>17, <1>18 DEF Arrives, Box, t, q
  <1>20. InputInv' /\ NoPressLost
    BY <1>18, <1>19 DEF InputInv, NoPressLost
  <1> QED BY <1>8, <1>20
-----------------------------------------------------------------------------
(* The invariant says what the runs check.                                 *)
LEMMA HostInvImplies == HostInv => AwtInv
  <1> SUFFICES ASSUME HostInv PROVE AwtInv
    OBVIOUS
  <1> USE DEF HostInv
  <1>1. /\ outbox \in Seq(Record) /\ Len(outbox) <= MaxPending
        /\ events \in Seq(Record) /\ batch \in Seq(Record)
    BY DEF InputInv, LinkInv, Bounded, BoxState, Box
  <1>2. TypeOK
    <2>1. SessionTypeOK
      BY <1>1 DEF InputInv, PixelInv, SessionTypeOK
    <2> QED BY <2>1 DEF LinkInv, TypeOK
  <1>3. Stream \in Seq(Record) /\ Len(Stream) \in Nat /\ DOMAIN Stream = 1 .. Len(Stream)
        /\ Stream = (events \o batch) \o outbox
    <2>1. events \o batch \in Seq(Record)
      BY <1>1, ConcatProperties
    <2>2. (events \o batch) \o outbox \in Seq(Record)
      BY <1>1, <2>1, ConcatProperties
    <2>3. (events \o batch) \o outbox = events \o batch \o outbox
      OBVIOUS
    <2> QED BY <2>2, <2>3, Indices DEF Stream
  <1>4. ASSUME jvm # "gone"
        PROVE  /\ Converges(pressed, Stream, lost.adrift, held)
               /\ ~lost.shed /\ ~lost.reset => Truthful(pressed, Stream)
    BY <1>3, <1>4 DEF InputInv, Arrives, Box
  <1>5. InputConverges
    <2> SUFFICES ASSUME jvm # "gone"
                 PROVE  After(Stream, Len(Stream)) \ lost.adrift = held \ lost.adrift
      BY DEF InputConverges
    <2>1. After(Stream, Len(Stream)) = {x \in Tracked : Believed(pressed, Stream, Len(Stream), x)}
      <3>1. Stream \in Seq(Record) /\ Len(Stream) \in 0 .. Len(Stream)
        BY <1>3
      <3> QED BY ONLY <3>1, AfterMeans
    <2>2. held \subseteq Tracked
      BY DEF InputInv
    <2> QED BY <1>4, <2>1, <2>2 DEF Converges
  <1>6. ModifiersAreTrue
    <2> SUFFICES ASSUME jvm # "gone", ~lost.shed, ~lost.reset, NEW i \in 1 .. Len(Stream)
                 PROVE  /\ Stream[i].mods = After(Stream, i)
                        /\ Stream[i].id \in {"moved", "dragged"} =>
                             (Stream[i].id = "dragged" <=> Stream[i].mods \cap Buttons # {})
      BY <1>3 DEF ModifiersAreTrue
    <2>1. After(Stream, i) = {x \in Tracked : Believed(pressed, Stream, i, x)}
      <3>1. Stream \in Seq(Record) /\ i \in 0 .. Len(Stream)
        BY <1>3
      <3> QED BY ONLY <3>1, AfterMeans
    <2> QED BY <1>4, <2>1 DEF Truthful, Tells
  <1> QED BY <1>2, <1>5, <1>6 DEF AwtInv, PixelInv

LEMMA HostStart == Init => HostInv
  <1> SUFFICES ASSUME Init PROVE HostInv
    OBVIOUS
  <1>1. /\ left \in [desktop : Sizes, view : Sizes, inputs : Nat, frames : Nat, resizes : Nat]
        /\ left.desktop \in Sizes /\ left.view \in Sizes
        /\ \A m \in Sizes : m \in Nat \ {0}
        /\ MaxPending \in Nat /\ PipeSize \in Nat
    BY SessionAssumption, HostAssumption DEF Init
  <1>2. /\ held = {} /\ origin = "none" /\ outbox = <<>> /\ events = <<>> /\ batch = <<>>
        /\ lost = [adrift |-> {}, shed |-> FALSE, reset |-> FALSE, burst |-> 0]
        /\ size = left.desktop /\ dirty = 1 .. size
        /\ buffer = [size |-> size, stale |-> 1 .. size, skewed |-> FALSE]
    BY DEF Init, SessionInit
  <1>3. LinkInv
    <2>1. /\ <<>> \in Seq(Record) /\ <<>> \in Seq(Frame) /\ Len(<<>>) = 0
      OBVIOUS
    <2>2. /\ framePump = "none" /\ eventPump = "none" /\ batch = <<>>
          /\ stop = FALSE /\ closing = "no" /\ jvm = "absent" /\ pressed = {}
          /\ view = left.view /\ events = <<>> /\ frames = <<>>
      BY DEF Init
    <2>3. Len(events) <= PipeSize /\ Len(frames) <= PipeSize
      BY <1>1, <2>1, <2>2
    <2>4. view \in Sizes
      BY <1>1, <2>2
    <2>5. events \in Seq(Record) /\ batch \in Seq(Record) /\ frames \in Seq(Frame)
      BY <2>1, <2>2
    <2>6. pressed \subseteq Tracked \cup Keys /\ (batch # <<>> <=> eventPump = "writing")
      BY <2>2
    <2> QED BY <1>1, <2>2, <2>3, <2>4, <2>5, <2>6 DEF LinkInv
  <1>4. PixelInv
    <2> DEFINE T == 1 .. size
    <2>1. T \in SUBSET Nat
      BY <1>1, <1>2
    <2> HIDE DEF T
    <2>2. buffer = [size |-> size, stale |-> T, skewed |-> FALSE] /\ dirty = T
      BY <1>2 DEF T
    <2>3. /\ buffer \in [size : Sizes, stale : SUBSET Nat, skewed : BOOLEAN]
          /\ buffer.size = size /\ buffer.stale = T
      BY <1>1, <1>2, <2>1, <2>2
    <2> QED BY <1>1, <1>2, <2>2, <2>3 DEF PixelInv, StaleIsDirty, T
  <1>5. /\ lost \in [adrift : SUBSET Tracked, shed : BOOLEAN, reset : BOOLEAN, burst : 0 .. MaxPending]
        /\ Box = [box |-> <<>>, adrift |-> {}, shed |-> FALSE, burst |-> 0]
    <2>1. 0 \in 0 .. MaxPending
      BY <1>1
    <2> QED BY <1>2, <2>1 DEF Box
  <1>6. Bounded(Box, lost.reset)
    <2>1. Costly(<<>>) = {}
      BY DEF Costly
    <2>2. Cardinality(Costly(<<>>)) = 0 /\ Len(<<>>) = 0 /\ <<>> \in Seq(Record)
      BY <2>1, FS_EmptySet
    <2>3. Box \in BoxState
      <3>1. 0 \in 0 .. MaxPending
        BY <1>1
      <3> QED BY <1>5, <2>2, <3>1 DEF BoxState
    <2> QED BY <1>1, <1>5, <2>2, <2>3 DEF Bounded
  <1>7. pressed = {} /\ (events \o batch) \o outbox = <<>>
    BY <1>2 DEF Init
  <1>8. Arrives(pressed, events \o batch, Box, lost.reset, held)
    <2>1. Len(<<>>) = 0 /\ 1 .. 0 = {}
      OBVIOUS
    <2>2. Truthful({}, <<>>)
      BY <2>1 DEF Truthful
    <2>3. \A x : ~Believed({}, <<>>, 0, x)
      BY <2>1 DEF Believed
    <2>4. Converges({}, <<>>, {}, {})
      BY <2>1, <2>3 DEF Converges
    <2> QED BY <1>2, <1>5, <1>7, <2>2, <2>4 DEF Arrives
  <1>9. InputInv
    BY <1>2, <1>5, <1>6, <1>8 DEF InputInv
  <1> QED BY <1>3, <1>4, <1>9 DEF HostInv
-----------------------------------------------------------------------------
(* One handler after the other.                                            *)
Scenario == [desktop : Sizes, view : Sizes, inputs : Nat, frames : Nat, resizes : Nat]

LEMMA SpendKeeps ==
  ASSUME left \in Scenario, NEW what \in {"inputs", "frames", "resizes"}, Spend(what)
  PROVE  left' \in Scenario
  <1>1. left[what] \in Nat /\ left[what] > 0 /\ left' = [left EXCEPT ![what] = left[what] - 1]
    BY DEF Scenario, Spend
  <1> DEFINE n == left[what] - 1
  <1>2. n \in Nat /\ left' = [left EXCEPT ![what] = n]
    BY <1>1
  <1> HIDE DEF n
  <1> QED BY <1>2 DEF Scenario

LEMMA PixelSame == ASSUME PixelInv, UNCHANGED pixels PROVE PixelInv'
  BY DEF PixelInv, StaleIsDirty, pixels

LEMMA LinkSame ==
  ASSUME LinkInv, UNCHANGED <<host, game>>, left' \in Scenario PROVE LinkInv' /\ Unread
  <1>1. /\ UNCHANGED <<framePump, eventPump, batch, stop, closing>>
        /\ UNCHANGED <<jvm, pressed, view, events, frames>>
    BY DEF host, game
  <1> QED BY <1>1 DEF LinkInv, Scenario, Unread

(* release_all alone, or with one record of the caller behind it.          *)
LEMMA ReleaseOneKeeps ==
  ASSUME InputInv, LinkInv, Unread, NEW r \in Record, r.id \in {"other", "resized"}, r.mods = {},
         ReleaseThen(<<r>>)
  PROVE  InputInv' /\ NoPressLost
  <1> DEFINE tail == <<r>>
  <1>1. /\ tail \in Seq(Record) /\ Len(tail) <= 1 /\ ReleaseThen(tail)
        /\ \A i \in 1 .. Len(tail) : tail[i].id \in {"other", "resized"} /\ tail[i].mods = {}
    OBVIOUS
  <1> HIDE DEF tail
  <1> QED BY <1>1, ReleaseKeeps

LEMMA ReleaseAloneKeeps ==
  ASSUME InputInv, LinkInv, Unread, ReleaseThen(<<>>) PROVE InputInv' /\ NoPressLost
  <1> DEFINE tail == <<>>
  <1>1. /\ tail \in Seq(Record) /\ Len(tail) <= 1 /\ ReleaseThen(tail)
        /\ \A i \in 1 .. Len(tail) : tail[i].id \in {"other", "resized"} /\ tail[i].mods = {}
    OBVIOUS
  <1> HIDE DEF tail
  <1> QED BY <1>1, ReleaseKeeps

LEMMA InputKeeps == ASSUME HostInv, Input PROVE HostInv' /\ NoPressLost
  <1>1. /\ InputInv /\ PixelInv /\ LinkInv /\ left \in Scenario
        /\ Spend("inputs") /\ UNCHANGED <<host, game>>
    BY DEF HostInv, LinkInv, Scenario, Input
  <1>2. LinkInv' /\ Unread
    BY <1>1, SpendKeeps, LinkSame
  <1>3. UNCHANGED pixels /\ InputInv' /\ NoPressLost
    <2>1. \/ \E b \in Buttons : PointerDown(b)
          \/ \E b \in Buttons, near \in BOOLEAN : PointerUp(b, near)
          \/ \E k \in Modifiers \cup Keys : KeyDown(k) \/ KeyUp(k)
          \/ PointerMove \/ Scroll \/ TypeText
          \/ ReleaseAll \/ FocusLost \/ FocusGained \/ ResetInput
      BY DEF Input
    <2> SUFFICES UNCHANGED pixels /\ InputInv' /\ NoPressLost
      OBVIOUS
    <2>2. ASSUME NEW b \in Buttons, PointerDown(b) PROVE UNCHANGED pixels /\ InputInv' /\ NoPressLost
      <3>1. UNCHANGED pixels
        BY <2>2 DEF PointerDown
      <3> QED BY <1>1, <1>2, <2>2, <3>1, PointerDownKeeps
    <2>3. ASSUME NEW b \in Buttons, NEW near \in BOOLEAN, PointerUp(b, near)
          PROVE  UNCHANGED pixels /\ InputInv' /\ NoPressLost
      <3>1. UNCHANGED pixels
        BY <2>3 DEF PointerUp
      <3> QED BY <1>1, <1>2, <2>3, <3>1, PointerUpKeeps
    <2>4. ASSUME NEW k \in Modifiers \cup Keys, KeyDown(k) \/ KeyUp(k)
          PROVE  UNCHANGED pixels /\ InputInv' /\ NoPressLost
      <3>1. UNCHANGED pixels
        BY <2>4 DEF KeyDown, KeyUp
      <3> QED BY <1>1, <1>2, <2>4, <3>1, KeyKeeps
    <2>5. CASE PointerMove \/ Scroll \/ TypeText \/ FocusGained
      <3>1. UNCHANGED pixels
        BY <2>5 DEF PointerMove, Scroll, TypeText, FocusGained
      <3> QED BY <1>1, <1>2, <2>5, <3>1, StillKeeps
    <2>6. CASE ReleaseAll \/ FocusLost
      <3>1. UNCHANGED pixels
        BY <2>6 DEF ReleaseAll, FocusLost
      <3>2. CASE ReleaseAll
        BY <1>1, <1>2, <3>1, <3>2, ReleaseAloneKeeps DEF ReleaseAll
      <3>3. CASE FocusLost
        <4> DEFINE r == Rec({}, "other", "none")
        <4>1. r \in Record
          BY RecIs
        <4>2. r.id = "other" /\ r.mods = {} /\ ReleaseThen(<<r>>)
          BY <3>3, RecSays DEF FocusLost
        <4> HIDE DEF r
        <4> QED BY <1>1, <1>2, <3>1, <4>1, <4>2, ReleaseOneKeeps
      <3> QED BY <2>6, <3>2, <3>3
    <2>7. CASE ResetInput
      <3>1. UNCHANGED pixels
        BY <2>7 DEF ResetInput
      <3> QED BY <1>1, <1>2, <2>7, <3>1, ResetKeeps
    <2> QED BY <2>1, <2>2, <2>3, <2>4, <2>5, <2>6, <2>7
  <1>4. PixelInv'
    BY <1>1, <1>3, PixelSame
  <1> QED BY <1>2, <1>3, <1>4 DEF HostInv

(* The translator's part of a resize, by the user or by a frame.           *)
LEMMA ResizeKeeps ==
  ASSUME InputInv, LinkInv, Unread, NEW s \in Sizes, ResizeInput(s) PROVE InputInv' /\ NoPressLost
  <1> DEFINE r == [Rec({}, "resized", "none") EXCEPT !.to = s]
  <1>1. r \in Record /\ r.id = "resized" /\ r.mods = {} /\ ReleaseThen(<<r>>)
    <2>1. r = [id |-> "resized", of |-> "none", mods |-> {}, to |-> s]
      BY DEF Rec
    <2>2. r \in Record
      BY <2>1 DEF Record
    <2> QED BY <2>1, <2>2 DEF ResizeInput
  <1> HIDE DEF r
  <1> QED BY <1>1, ReleaseOneKeeps

LEMMA ReshapeAllKeeps == ASSUME HostInv, Reshape PROVE HostInv' /\ NoPressLost
  <1>1. /\ InputInv /\ PixelInv /\ LinkInv /\ left \in Scenario
        /\ Spend("resizes") /\ UNCHANGED <<host, game>>
        /\ Repaint \/ \E s \in Sizes : Configure(s)
    BY DEF HostInv, LinkInv, Scenario, Reshape
  <1>2. LinkInv' /\ Unread
    BY <1>1, SpendKeeps, LinkSame
  <1>3. PixelInv'
    BY <1>1, ReshapeKeeps
  <1>4. InputInv' /\ NoPressLost
    <2>1. CASE Repaint
      <3>1. UNCHANGED input
        BY <2>1 DEF Repaint
      <3> QED BY <1>1, <1>2, <3>1, InputSame DEF Unread
    <2>2. ASSUME NEW s \in Sizes, Configure(s) PROVE InputInv' /\ NoPressLost
      <3>1. ResizeInput(s)
        BY <2>2 DEF Configure
      <3> QED BY <1>1, <1>2, <3>1, ResizeKeeps
    <2> QED BY <1>1, <2>1, <2>2
  <1> QED BY <1>2, <1>3, <1>4 DEF HostInv
(* Steps of the threads that touch neither input nor records.              *)
LEMMA ThreadKeeps ==
  ASSUME HostInv, Attach \/ Close \/ Closed \/ OpenFrames \/ FrameEnds \/ OpenEvents \/ EventStops
                  \/ OpenFails \/ JvmStarts \/ JvmResizes \/ Draw
  PROVE  HostInv' /\ NoPressLost
  <1>1. InputInv /\ PixelInv /\ LinkInv /\ left \in Scenario
    BY DEF HostInv, LinkInv, Scenario
  <1>2. /\ UNCHANGED input /\ UNCHANGED <<pressed, batch, events, frames>>
        /\ jvm' # "gone" => jvm # "gone"
    <2>1. CASE Attach \/ Close \/ Closed \/ OpenFrames \/ FrameEnds
      BY <2>1 DEF Attach, Close, Closed, OpenFrames, FrameEnds, game
    <2>2. CASE OpenEvents \/ EventStops \/ OpenFails
      BY <2>2 DEF OpenEvents, EventStops, OpenFails, game
    <2>3. CASE JvmStarts \/ JvmResizes
      BY <2>3 DEF JvmStarts, JvmResizes, host
    <2>4. CASE Draw
      BY <2>4 DEF Draw, Poll, Refresh, host, game
    <2> QED BY <2>1, <2>2, <2>3, <2>4
  <1>3. InputInv' /\ NoPressLost
    BY <1>1, <1>2, InputSame
  <1>4. PixelInv'
    <2>1. CASE Draw
      BY <1>1, <2>1, DrawKeeps DEF Draw
    <2>2. CASE ~Draw
      <3>1. UNCHANGED pixels
        BY <2>2 DEF Attach, Close, Closed, OpenFrames, FrameEnds, OpenEvents, EventStops, OpenFails,
             JvmStarts, JvmResizes
      <3> QED BY <1>1, <3>1, PixelSame
    <2> QED BY <2>1, <2>2
  <1>5. LinkInv'
    <2>1. left' \in Scenario
      <3>1. CASE JvmResizes
        BY <1>1, <3>1, SpendKeeps DEF JvmResizes
      <3>2. CASE ~JvmResizes
        BY <1>1, <3>2 DEF Attach, Close, Closed, OpenFrames, FrameEnds, OpenEvents, EventStops,
           OpenFails, JvmStarts, Draw
      <3> QED BY <3>1, <3>2
    <2>2. view' \in Sizes /\ jvm' \in {"absent", "up", "gone"}
      <3>1. CASE JvmResizes \/ JvmStarts
        BY <1>1, <3>1 DEF JvmResizes, JvmStarts, LinkInv
      <3>2. CASE ~JvmResizes /\ ~JvmStarts
        <4>1. UNCHANGED game
          BY <3>2 DEF Attach, Close, Closed, OpenFrames, FrameEnds, OpenEvents, EventStops,
             OpenFails, Draw
        <4> QED BY <1>1, <4>1 DEF game, LinkInv
      <3> QED BY <3>1, <3>2
    <2>3. /\ framePump' \in {"none", "opening", "running", "done"}
          /\ eventPump' \in {"none", "opening", "running", "writing", "done"}
          /\ stop' \in BOOLEAN /\ closing' \in {"no", "join", "closed"}
          /\ batch # <<>> <=> eventPump' = "writing"
          /\ framePump' = "none" => eventPump' = "none"
      <3>1. CASE Attach
        <4>1. eventPump # "writing" /\ eventPump' = "opening" /\ framePump' = "opening"
          BY <1>1, <3>1 DEF Attach, LinkInv
        <4> QED BY <1>1, <3>1, <4>1 DEF Attach, LinkInv
      <3>2. CASE Close \/ Closed \/ OpenFrames \/ FrameEnds
        BY <1>1, <3>2 DEF Close, Closed, OpenFrames, FrameEnds, LinkInv
      <3>3. CASE OpenEvents \/ EventStops \/ OpenFails
        BY <1>1, <3>3 DEF OpenEvents, EventStops, OpenFails, LinkInv
      <3>4. CASE JvmStarts \/ JvmResizes \/ Draw
        BY <1>1, <3>4 DEF JvmStarts, JvmResizes, Draw, host, LinkInv
      <3> QED BY <3>1, <3>2, <3>3, <3>4
    <2> QED BY <1>1, <1>2, <2>1, <2>2, <2>3 DEF LinkInv, Scenario
  <1> QED BY <1>3, <1>4, <1>5 DEF HostInv

LEMMA FrameKeeps == ASSUME HostInv, PumpFrame PROVE HostInv' /\ NoPressLost
  <1> DEFINE f == Head(frames)
  <1>1. /\ InputInv /\ PixelInv /\ LinkInv
        /\ framePump = "running" /\ frames # <<>> /\ frames' = Tail(frames)
        /\ UNCHANGED <<eventPump, batch, stop, closing, jvm, pressed, view, events, left>>
    BY DEF HostInv, PumpFrame
  <1>2. /\ f \in Frame /\ frames' \in Seq(Frame) /\ Len(frames') <= PipeSize
    <2>1. frames \in Seq(Frame) /\ Len(frames) <= PipeSize /\ PipeSize \in Nat /\ Len(frames) \in Nat
      BY <1>1, HostAssumption, Indices DEF LinkInv
    <2>2. f \in Frame /\ Tail(frames) \in Seq(Frame) /\ Len(Tail(frames)) = Len(frames) - 1
      BY <1>1, <2>1, HeadTailProperties
    <2> QED BY <1>1, <2>1, <2>2
  <1>3. \/ f.kind = "good" /\ SubmitFrame(f) /\ UNCHANGED framePump
        \/ f.kind = "invalid" /\ UNCHANGED <<input, pixels, framePump>>
        \/ f.kind = "desync" /\ framePump' = "done" /\ UNCHANGED <<input, pixels>>
    <2>1. f.kind \in {"good", "invalid", "desync"}
      BY <1>2, FrameIs
    <2> QED BY <2>1 DEF PumpFrame
  <1> HIDE DEF f
  <1>4. framePump' \in {"running", "done"}
    BY <1>1, <1>3
  <1>5. LinkInv'
    BY <1>1, <1>2, <1>4 DEF LinkInv
  <1>6. Unread
    BY <1>1 DEF Unread
  <1>7. CASE SubmitFrame(f)
    <2>1. PixelInv'
      BY <1>1, <1>2, <1>7, SubmitKeeps
    <2>2. InputInv' /\ NoPressLost
      <3>1. CASE f.size = size
        <4>1. UNCHANGED input
          BY <1>7, <3>1 DEF SubmitFrame
        <4> QED BY <1>1, <4>1, InputSame
      <3>2. CASE f.size # size
        <4>1. ResizeInput(f.size) /\ f.size \in Sizes
          BY <1>2, <1>7, <3>2, FrameIs DEF SubmitFrame
        <4> QED BY <1>1, <1>6, <4>1, ResizeKeeps
      <3> QED BY <3>1, <3>2
    <2> QED BY <1>5, <2>1, <2>2 DEF HostInv
  <1>8. CASE UNCHANGED <<input, pixels>>
    <2>1. PixelInv'
      BY <1>1, <1>8, PixelSame
    <2>2. InputInv' /\ NoPressLost
      BY <1>1, <1>8, InputSame
    <2> QED BY <1>5, <2>1, <2>2 DEF HostInv
  <1> QED BY <1>3, <1>7, <1>8

LEMMA RecordsKeep ==
  ASSUME HostInv, Drain \/ WriteRecord \/ JvmReads PROVE HostInv' /\ NoPressLost
  <1>1. UNCHANGED pixels
    BY DEF Drain, WriteRecord, JvmReads
  <1>2. PixelInv'
    BY <1>1, PixelSame DEF HostInv
  <1>3. InputInv' /\ LinkInv' /\ NoPressLost
    BY DrainKeeps, WriteKeeps, ReadKeeps DEF HostInv
  <1> QED BY <1>2, <1>3 DEF HostInv

(* The JVM paints; the JVM goes, and what is on its way with it.           *)
LEMMA PaintKeeps == ASSUME HostInv, JvmPaints PROVE HostInv' /\ NoPressLost
  <1>1. /\ InputInv /\ PixelInv /\ LinkInv /\ left \in Scenario
        /\ Len(frames) < PipeSize /\ Spend("frames")
        /\ UNCHANGED <<jvm, pressed, view, events, host>> /\ UNCHANGED input /\ UNCHANGED pixels
    BY DEF HostInv, LinkInv, Scenario, JvmPaints
  <1>2. PICK kind \in {"good", "invalid", "desync"}, a \in 1 .. view, b \in 1 .. view :
          a <= b /\ frames' = Append(frames, [kind |-> kind, size |-> view, damage |-> a .. b])
    BY DEF JvmPaints
  <1> DEFINE d == a .. b  f == [kind |-> kind, size |-> view, damage |-> d]
  <1>3. view \in Sizes /\ view \in Nat
    BY <1>1, SessionAssumption DEF LinkInv
  <1>4. d \in SUBSET (1 .. view) /\ d # {}
    <2>1. a \in d
      BY <1>2, <1>3
    <2> QED BY <1>3, <2>1
  <1> HIDE DEF d
  <1>5. f \in Frame /\ frames' = Append(frames, f)
    BY <1>2, <1>3, <1>4, FrameMade DEF d
  <1> HIDE DEF f
  <1>6. frames' \in Seq(Frame) /\ Len(frames') <= PipeSize
    <2>1. frames \in Seq(Frame) /\ PipeSize \in Nat /\ Len(frames) \in Nat
      BY <1>1, HostAssumption, Indices DEF LinkInv
    <2>2. frames' \in Seq(Frame) /\ Len(frames') = Len(frames) + 1
      BY <1>5, <2>1, AppendProperties
    <2> QED BY <1>1, <2>1, <2>2
  <1>7. UNCHANGED <<framePump, eventPump, batch, stop, closing>> /\ left' \in Scenario
    BY <1>1, SpendKeeps DEF host
  <1>8. LinkInv'
    BY <1>1, <1>6, <1>7 DEF LinkInv, Scenario
  <1>9. PixelInv' /\ InputInv' /\ NoPressLost
    BY <1>1, <1>7, PixelSame, InputSame
  <1> QED BY <1>8, <1>9 DEF HostInv

LEMMA ExitKeeps == ASSUME HostInv, JvmExits \/ WriteFails PROVE HostInv' /\ NoPressLost
  <1>1. /\ InputInv /\ PixelInv /\ LinkInv /\ jvm' = "gone" /\ UNCHANGED input /\ UNCHANGED pixels
        /\ UNCHANGED <<framePump, stop, closing, pressed, view, left>>
    BY DEF HostInv, JvmExits, WriteFails, host, game
  <1>2. PixelInv' /\ InputInv' /\ NoPressLost
    BY <1>1, PixelSame, InputSame
  <1>3. CASE WriteFails
    <2>1. eventPump = "writing" /\ eventPump' = "done" /\ batch' = <<>> /\ <<>> \in Seq(Record)
          /\ UNCHANGED <<events, frames>>
      BY <1>3 DEF WriteFails, game
    <2> QED BY <1>1, <1>2, <2>1 DEF HostInv, LinkInv
  <1>4. CASE JvmExits
    <2>1. frames' \in Seq(Frame) /\ Len(frames') <= PipeSize
      <3>1. frames \in Seq(Frame) /\ Len(frames) <= PipeSize
        BY <1>1 DEF LinkInv
      <3>2. CASE UNCHANGED frames
        BY <3>1, <3>2
      <3>3. CASE frames # <<>> /\ frames' = [frames EXCEPT ![Len(frames)].kind = "desync"]
        <4>1. frames' \in Seq(Frame) /\ Len(frames') = Len(frames)
          BY <3>1, <3>3, FrameCut
        <4> QED BY <3>1, <4>1
      <3> QED BY <1>4, <3>2, <3>3 DEF JvmExits
    <2>2. /\ events' = <<>> /\ events' \in Seq(Record) /\ Len(events') <= PipeSize
          /\ UNCHANGED <<eventPump, batch>>
      <3>1. <<>> \in Seq(Record) /\ Len(<<>>) = 0 /\ PipeSize \in Nat
        BY HostAssumption
      <3> QED BY <1>4, <3>1 DEF JvmExits, host
    <2> QED BY <1>1, <1>2, <2>1, <2>2 DEF HostInv, LinkInv
  <1> QED BY <1>3, <1>4

LEMMA HostStep == HostInv /\ [Next]_vars => HostInv' /\ NoPressLost
  <1> SUFFICES ASSUME HostInv, [Next]_vars PROVE HostInv' /\ NoPressLost
    OBVIOUS
  <1>1. CASE Input \/ Reshape
    BY <1>1, InputKeeps, ReshapeAllKeeps
  <1>2. CASE Attach \/ Close \/ Closed \/ OpenFrames \/ FrameEnds \/ OpenEvents \/ EventStops
             \/ OpenFails \/ JvmStarts \/ JvmResizes \/ Draw
    BY <1>2, ThreadKeeps
  <1>3. CASE PumpFrame
    BY <1>3, FrameKeeps
  <1>4. CASE Drain \/ WriteRecord \/ JvmReads
    BY <1>4, RecordsKeep
  <1>5. CASE JvmPaints
    BY <1>5, PaintKeeps
  <1>6. CASE JvmExits \/ WriteFails
    BY <1>6, ExitKeeps
  <1>7. CASE UNCHANGED vars
    <2>1. /\ UNCHANGED <<host, game>> /\ UNCHANGED left /\ UNCHANGED input /\ UNCHANGED pixels
          /\ InputInv /\ PixelInv /\ LinkInv /\ left \in Scenario
      BY <1>7 DEF vars, HostInv, LinkInv, Scenario
    <2>2. LinkInv' /\ Unread
      BY <2>1, LinkSame
    <2> QED BY <2>1, <2>2, PixelSame, InputSame DEF HostInv, Unread
  <1> QED BY <1>1, <1>2, <1>3, <1>4, <1>5, <1>6, <1>7
          DEF Next, FramePump, EventPump, Surface, Game

(* Whatever is touched, shed, resized, painted, polled or closed, in any   *)
(* order: the records on their way to the JVM end with what the translator *)
(* believes held and carry the modifiers of their time, and every tile the *)
(* framebuffer lacks is dirty (fakefx.rs, awt.rs, awt_host.rs).            *)
THEOREM AwtInvHolds == Spec => []AwtInv
  <1>1. Init => HostInv
    BY HostStart
  <1>2. HostInv /\ [Next]_vars => HostInv'
    BY HostStep
  <1>3. HostInv => AwtInv
    BY HostInvImplies
  <1> QED BY <1>1, <1>2, <1>3, PTL DEF Spec

(* enqueue sheds a press, a release, a click or a resize only when the     *)
(* outbox is full of such records, all queued since it was last drained:   *)
(* motion, however much of it, costs none of them.                         *)
THEOREM MotionCostsNoPressHolds == Spec => MotionCostsNoPress
  <1>1. Init => HostInv
    BY HostStart
  <1>2. HostInv /\ [Next]_vars => HostInv'
    BY HostStep
  <1>3. HostInv /\ [Next]_vars => [lost'.shed => lost.shed \/ lost'.burst = MaxPending]_vars
    BY HostStep DEF NoPressLost
  <1> QED BY <1>1, <1>2, <1>3, PTL DEF Spec, MotionCostsNoPress
=================================================================================
