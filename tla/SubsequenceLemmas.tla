--------------------------- MODULE SubsequenceLemmas ----------------------------
(***************************************************************************)
(* What is kept of a sequence: how it grows with the sequence, and that it *)
(* is those elements in that order.  Induction over a length is done by    *)
(* its least counterexample.                                               *)
(***************************************************************************)
EXTENDS Subsequences, SequenceTheorems, WellFoundedInduction, TLAPS

-----------------------------------------------------------------------------
(* A set of numbers that is not empty has a least one.                     *)
LEMMA Least == ASSUME NEW T \in SUBSET Nat, T # {} PROVE \E x \in T : \A y \in T : x <= y
  <1>1. \E x \in T : \A y \in T : ~ (<<y, x>> \in OpToRel(<, Nat))
    BY WFMin, NatLessThanWellFounded
  <1>2. PICK x \in T : \A y \in T : ~ (<<y, x>> \in OpToRel(<, Nat))
    BY <1>1
  <1>3. ASSUME NEW y \in T PROVE x <= y
    <2>1. ~(y < x)
      BY <1>2 DEF OpToRel
    <2> QED BY <2>1
  <1> QED BY <1>3

(* So a set that has 0, and with every number below m the next one, has    *)
(* every number up to m.                                                   *)
LEMMA UpTo ==
  ASSUME NEW m \in Nat, NEW P, 0 \in P, \A n \in 0 .. m : n \in P /\ n < m => n + 1 \in P
  PROVE  0 .. m \subseteq P
  <1> SUFFICES ASSUME ~(0 .. m \subseteq P) PROVE FALSE
    OBVIOUS
  <1> DEFINE T == {n \in 0 .. m : n \notin P}
  <1>1. T \in SUBSET Nat /\ T # {}
    OBVIOUS
  <1>2. PICK x \in T : \A y \in T : x <= y
    BY <1>1, Least
  <1>3. x # 0 /\ x - 1 \in 0 .. m /\ x - 1 < m /\ (x - 1) + 1 = x
    BY <1>2
  <1>4. x - 1 \in P
    BY <1>2, <1>3
  <1> QED BY <1>2, <1>3, <1>4

-----------------------------------------------------------------------------
LEMMA Indices ==
  ASSUME NEW S, NEW s \in Seq(S)
  PROVE  /\ DOMAIN s = 1 .. Len(s) /\ Len(s) \in Nat /\ DOMAIN s \subseteq Nat
         /\ \A i \in DOMAIN s : s[i] \in S
  <1>1. /\ Len(s) \in Nat /\ s \in [1 .. Len(s) -> S] /\ DOMAIN s = 1 .. Len(s)
    BY LenProperties
  <1>2. 1 .. Len(s) \subseteq Nat
    BY <1>1
  <1> QED BY <1>1, <1>2

(* f says, of each n up to m, what is kept of the first n elements.         *)
IsUpto(f, s, I, m) ==
  f = [n \in 0 .. m |-> IF n = 0 THEN <<>>
                        ELSE IF n \in I THEN Append(f[n - 1], s[n]) ELSE f[n - 1]]

LEMMA UptoAt ==
  ASSUME NEW f, NEW s, NEW I, NEW m \in Nat, IsUpto(f, s, I, m)
  PROVE  /\ f[0] = <<>>
         /\ \A n \in 1 .. m : f[n] = IF n \in I THEN Append(f[n - 1], s[n]) ELSE f[n - 1]
  <1> DEFINE e(n) == IF n = 0 THEN <<>>
                     ELSE IF n \in I THEN Append(f[n - 1], s[n]) ELSE f[n - 1]
  <1>1. f = [n \in 0 .. m |-> e(n)]
    BY DEF IsUpto
  <1> HIDE DEF e
  <1>2. \A n \in 0 .. m : f[n] = e(n)
    BY <1>1
  <1> USE DEF e
  <1>3. f[0] = <<>>
    BY <1>2
  <1>4. ASSUME NEW n \in 1 .. m
        PROVE  f[n] = IF n \in I THEN Append(f[n - 1], s[n]) ELSE f[n - 1]
    <2>1. n \in 0 .. m /\ n # 0
      OBVIOUS
    <2>2. f[n] = e(n)
      BY <1>2, <2>1
    <2> QED BY <2>1, <2>2
  <1> QED BY <1>3, <1>4

LEMMA UptoExists ==
  ASSUME NEW S, NEW s \in Seq(S), NEW I, NEW l \in Nat PROVE \E f : IsUpto(f, s, I, l)
  <1> DEFINE P == {m \in Nat : \E f : IsUpto(f, s, I, m)}
  <1>2. 0 \in P
    <2>1. IsUpto([n \in 0 .. 0 |-> <<>>], s, I, 0)
      BY DEF IsUpto
    <2> QED BY <2>1
  <1>3. ASSUME NEW m \in Nat, m \in P PROVE m + 1 \in P
    <2>1. PICK f : IsUpto(f, s, I, m)
      BY <1>3
    <2> DEFINE x == IF m + 1 \in I THEN Append(f[m], s[m + 1]) ELSE f[m]
               g == [n \in 0 .. m + 1 |-> IF n = m + 1 THEN x ELSE f[n]]
               e(n) == IF n = 0 THEN <<>>
                       ELSE IF n \in I THEN Append(g[n - 1], s[n]) ELSE g[n - 1]
    <2>2. ASSUME NEW n \in 0 .. m + 1 PROVE g[n] = e(n)
      <3>1. CASE n = 0
        BY <2>1, <3>1, UptoAt
      <3>2. CASE n = m + 1
        <4>1. g[n - 1] = f[m] /\ g[n] = x /\ n # 0
          BY <3>2
        <4> QED BY <4>1, <3>2
      <3>3. CASE n # 0 /\ n # m + 1
        <4>1. n \in 1 .. m
          BY <3>3
        <4>2. f[n] = IF n \in I THEN Append(f[n - 1], s[n]) ELSE f[n - 1]
          BY <2>1, <4>1, UptoAt
        <4>3. g[n] = f[n] /\ g[n - 1] = f[n - 1]
          BY <4>1
        <4> QED BY <3>3, <4>2, <4>3
      <3> QED BY <3>1, <3>2, <3>3
    <2>3. g = [n \in 0 .. m + 1 |-> g[n]]
      OBVIOUS
    <2> HIDE DEF g, e
    <2>4. g = [n \in 0 .. m + 1 |-> e(n)]
      BY <2>2, <2>3
    <2>5. IsUpto(g, s, I, m + 1)
      BY <2>4 DEF IsUpto, e
    <2> QED BY <2>5
  <1>4. 0 .. l \subseteq P
    <2> HIDE DEF P
    <2> QED BY <1>2, <1>3, UpTo
  <1> QED BY <1>4

(* The function the definition of Subsequence is made from.                *)
LEMMA SubsequenceIsUpto ==
  ASSUME NEW S, NEW s \in Seq(S), NEW I
  PROVE  \E f : /\ Subsequence(s, I) = f[Len(s)]
                /\ f[0] = <<>>
                /\ \A n \in 1 .. Len(s) :
                     f[n] = IF n \in I THEN Append(f[n - 1], s[n]) ELSE f[n - 1]
  <1>3. Len(s) \in Nat
    OBVIOUS
  <1> DEFINE f == CHOOSE f : IsUpto(f, s, I, Len(s))
  <1>1. IsUpto(f, s, I, Len(s))
    BY <1>3, UptoExists
  <1>2. Subsequence(s, I) = f[Len(s)]
    BY DEF Subsequence, IsUpto
  <1> HIDE DEF f
  <1> QED BY <1>1, <1>2, <1>3, UptoAt

-----------------------------------------------------------------------------
LEMMA SubsequenceOfEmpty == ASSUME NEW I PROVE Subsequence(<<>>, I) = <<>>
  <1> DEFINE t == <<>>
  <1>1. t \in Seq({})
    OBVIOUS
  <1>2. Len(t) = 0
    OBVIOUS
  <1> HIDE DEF t
  <1>3. PICK f : Subsequence(t, I) = f[Len(t)] /\ f[0] = <<>>
    BY <1>1, SubsequenceIsUpto
  <1> QED BY <1>2, <1>3 DEF t

(* An element appended at a position that is kept is appended to what is   *)
(* kept, and changes nothing otherwise.                                    *)
LEMMA SubsequenceOfAppend ==
  ASSUME NEW S, NEW s \in Seq(S), NEW x \in S, NEW I, NEW J,
         \A n \in 1 .. Len(s) : n \in I <=> n \in J
  PROVE  Subsequence(Append(s, x), J) =
           IF Len(s) + 1 \in J THEN Append(Subsequence(s, I), x) ELSE Subsequence(s, I)
  <1> DEFINE t == Append(s, x)
  <1>1. /\ t \in Seq(S) /\ Len(t) = Len(s) + 1 /\ Len(s) \in Nat /\ t[Len(s) + 1] = x
        /\ \A n \in 1 .. Len(s) : t[n] = s[n]
    OBVIOUS
  <1> HIDE DEF t
  <1>0. t \in Seq(S)
    BY <1>1
  <1>2. PICK f : /\ Subsequence(s, I) = f[Len(s)] /\ f[0] = <<>>
                 /\ \A n \in 1 .. Len(s) :
                      f[n] = IF n \in I THEN Append(f[n - 1], s[n]) ELSE f[n - 1]
    BY SubsequenceIsUpto
  <1>3. PICK g : /\ Subsequence(t, J) = g[Len(t)] /\ g[0] = <<>>
                 /\ \A n \in 1 .. Len(t) :
                      g[n] = IF n \in J THEN Append(g[n - 1], t[n]) ELSE g[n - 1]
    BY <1>0, SubsequenceIsUpto
  <1> DEFINE P == {n \in 0 .. Len(s) : f[n] = g[n]}
  <1>4. 0 \in P
    BY <1>1, <1>2, <1>3
  <1>5. ASSUME NEW n \in 0 .. Len(s), n \in P, n < Len(s) PROVE n + 1 \in P
    <2>1. n + 1 \in 1 .. Len(s) /\ n + 1 \in 1 .. Len(t) /\ (n + 1) - 1 = n
      BY <1>1, <1>5
    <2>2. f[n + 1] = IF n + 1 \in I THEN Append(f[n], s[n + 1]) ELSE f[n]
      BY <1>2, <2>1
    <2>3. g[n + 1] = IF n + 1 \in J THEN Append(g[n], t[n + 1]) ELSE g[n]
      BY <1>3, <2>1
    <2>4. f[n + 1] = g[n + 1]
      BY <1>1, <1>5, <2>1, <2>2, <2>3
    <2> QED BY <2>1, <2>4
  <1>6. Len(s) \in P
    <2> HIDE DEF P
    <2>1. 0 .. Len(s) \subseteq P
      BY <1>1, <1>4, <1>5, UpTo
    <2> QED BY <1>1, <2>1
  <1>7. g[Len(s)] = Subsequence(s, I)
    BY <1>2, <1>6
  <1>8. g[Len(s) + 1] = IF Len(s) + 1 \in J THEN Append(g[Len(s)], x) ELSE g[Len(s)]
    <2>1. Len(s) + 1 \in 1 .. Len(t) /\ (Len(s) + 1) - 1 = Len(s)
      BY <1>1
    <2> QED BY <1>1, <1>3, <2>1
  <1> QED BY <1>1, <1>3, <1>7, <1>8 DEF t

(* r is what is kept of s at I: e says where each element of r was.        *)
Picks(e, r, s, I) ==
  /\ e \in [1 .. Len(r) -> I]
  /\ \A k, l \in 1 .. Len(r) : k < l => e[k] < e[l]
  /\ \A i \in I : \E k \in 1 .. Len(r) : e[k] = i
  /\ \A k \in 1 .. Len(r) : r[k] = s[e[k]]

LEMMA SubsequencePicks ==
  ASSUME NEW S, NEW s \in Seq(S), NEW I \in SUBSET (1 .. Len(s))
  PROVE  /\ Subsequence(s, I) \in Seq(S)
         /\ \E e : Picks(e, Subsequence(s, I), s, I)
  <1>1. Len(s) \in Nat /\ \A n \in 1 .. Len(s) : s[n] \in S
    OBVIOUS
  <1>2. PICK f : /\ Subsequence(s, I) = f[Len(s)] /\ f[0] = <<>>
                 /\ \A n \in 1 .. Len(s) :
                      f[n] = IF n \in I THEN Append(f[n - 1], s[n]) ELSE f[n - 1]
    BY SubsequenceIsUpto
  <1> DEFINE To(n) == I \cap 1 .. n
             P == {n \in 0 .. Len(s) : f[n] \in Seq(S) /\ \E e : Picks(e, f[n], s, To(n))}
  <1>3. 0 \in P
    <2>1. f[0] \in Seq(S) /\ Len(f[0]) = 0 /\ 1 .. Len(f[0]) = {} /\ To(0) = {}
      BY <1>2
    <2>2. Picks([k \in {} |-> k], f[0], s, To(0))
      BY <2>1 DEF Picks
    <2> QED BY <1>1, <2>1, <2>2
  <1>4. ASSUME NEW n \in 0 .. Len(s), n \in P, n < Len(s) PROVE n + 1 \in P
    <2>1. n + 1 \in 1 .. Len(s) /\ (n + 1) - 1 = n /\ n \in Nat
      BY <1>1, <1>4
    <2>2. f[n + 1] = IF n + 1 \in I THEN Append(f[n], s[n + 1]) ELSE f[n]
      BY <1>2, <2>1
    <2>3. PICK e : f[n] \in Seq(S) /\ Picks(e, f[n], s, To(n))
      BY <1>4
    <2>4. CASE n + 1 \notin I
      <3>1. To(n + 1) = To(n)
        BY <2>1, <2>4
      <3>2. f[n + 1] = f[n]
        BY <2>2, <2>4
      <3> HIDE DEF To
      <3> QED BY <2>1, <2>3, <3>1, <3>2
    <2>5. CASE n + 1 \in I
      <3> DEFINE l == Len(f[n])
                 r == f[n + 1]
                 d == [k \in 1 .. l + 1 |-> IF k = l + 1 THEN n + 1 ELSE e[k]]
      <3>1. /\ r \in Seq(S) /\ Len(r) = l + 1 /\ l \in Nat /\ r[l + 1] = s[n + 1]
            /\ \A k \in 1 .. l : r[k] = f[n][k]
        <4>1. r = Append(f[n], s[n + 1])
          BY <2>2, <2>5
        <4>2. s[n + 1] \in S /\ f[n] \in Seq(S)
          BY <1>1, <2>1, <2>3
        <4> HIDE DEF r
        <4> QED BY <4>1, <4>2
      <3>2. To(n + 1) = To(n) \cup {n + 1} /\ \A i \in To(n) : i \in Nat /\ i < n + 1
        BY <2>1, <2>5
      <3>3. /\ e \in [1 .. l -> To(n)]
            /\ \A k, m \in 1 .. l : k < m => e[k] < e[m]
            /\ \A i \in To(n) : \E k \in 1 .. l : e[k] = i
            /\ \A k \in 1 .. l : f[n][k] = s[e[k]]
        BY <2>3 DEF Picks
      <3> HIDE DEF To, l, r
      <3>4. 1 .. l + 1 = 1 .. l \cup {l + 1} /\ l + 1 \notin 1 .. l
        BY <3>1
      <3>5. d[l + 1] = n + 1 /\ \A k \in 1 .. l : d[k] = e[k]
        BY <3>4
      <3>6. d \in [1 .. l + 1 -> To(n + 1)]
        BY <3>2, <3>3, <3>4, <3>5
      <3> HIDE DEF d
      <3>7. ASSUME NEW k \in 1 .. l + 1, NEW m \in 1 .. l + 1, k < m PROVE d[k] < d[m]
        <4>1. k \in 1 .. l
          BY <3>1, <3>7
        <4>2. CASE m \in 1 .. l
          BY <3>3, <3>5, <3>7, <4>1, <4>2
        <4>3. CASE m = l + 1
          <5>1. e[k] \in To(n)
            BY <3>3, <4>1
          <5> QED BY <3>2, <3>5, <4>1, <4>3, <5>1
        <4> QED BY <3>4, <4>2, <4>3
      <3>8. ASSUME NEW i \in To(n + 1) PROVE \E k \in 1 .. l + 1 : d[k] = i
        <4>1. CASE i = n + 1
          BY <3>4, <3>5, <4>1
        <4>2. CASE i \in To(n)
          BY <3>3, <3>4, <3>5, <4>2
        <4> QED BY <3>2, <4>1, <4>2
      <3>9. ASSUME NEW k \in 1 .. l + 1 PROVE r[k] = s[d[k]]
        BY <3>1, <3>3, <3>4, <3>5
      <3>10. Picks(d, r, s, To(n + 1))
        BY <3>1, <3>6, <3>7, <3>8, <3>9 DEF Picks
      <3> QED BY <2>1, <3>1, <3>10 DEF r
    <2> QED BY <2>4, <2>5
  <1>5. Len(s) \in P
    <2> HIDE DEF P
    <2>1. 0 .. Len(s) \subseteq P
      BY <1>1, <1>3, <1>4, UpTo
    <2> QED BY <1>1, <2>1
  <1>6. To(Len(s)) = I
    BY <1>1
  <1> QED BY <1>2, <1>5, <1>6

(* What is kept of a sequence is the beginning of what is kept of a longer *)
(* one.                                                                    *)
LEMMA SubsequenceGrows ==
  ASSUME NEW S, NEW s \in Seq(S), NEW t \in Seq(S),
         NEW I \in SUBSET (1 .. Len(s)), NEW J, \A n \in 1 .. Len(s) : n \in I <=> n \in J
  PROVE  LET r == Subsequence(s, I)
             q == Subsequence(s \o t, J)
         IN  Len(r) <= Len(q) /\ \A k \in 1 .. Len(r) : q[k] = r[k]
  <1> DEFINE r == Subsequence(s, I)
             u == s \o t
  <1>1. /\ u \in Seq(S) /\ Len(u) = Len(s) + Len(t) /\ Len(s) \in Nat /\ Len(t) \in Nat
        /\ \A n \in 1 .. Len(s) : u[n] = s[n]
    OBVIOUS
  <1>2. \A n \in 1 .. Len(u) : u[n] \in S
    BY <1>1, Indices
  <1> HIDE DEF u
  <1>0. u \in Seq(S)
    BY <1>1
  <1>3. r \in Seq(S) /\ Len(r) \in Nat
    <2>1. r \in Seq(S)
      BY SubsequencePicks
    <2> HIDE DEF r
    <2> QED BY <2>1
  <1>4. PICK f : /\ r = f[Len(s)] /\ f[0] = <<>>
                 /\ \A n \in 1 .. Len(s) :
                      f[n] = IF n \in I THEN Append(f[n - 1], s[n]) ELSE f[n - 1]
    BY SubsequenceIsUpto
  <1>5. PICK g : /\ Subsequence(u, J) = g[Len(u)] /\ g[0] = <<>>
                 /\ \A n \in 1 .. Len(u) :
                      g[n] = IF n \in J THEN Append(g[n - 1], u[n]) ELSE g[n - 1]
    BY <1>0, SubsequenceIsUpto
  <1> HIDE DEF r
  <1> DEFINE P == {n \in 0 .. Len(s) : f[n] = g[n]}
             Q == {m \in 0 .. Len(t) :
                     /\ g[Len(s) + m] \in Seq(S) /\ Len(r) <= Len(g[Len(s) + m])
                     /\ \A k \in 1 .. Len(r) : g[Len(s) + m][k] = r[k]}
  <1>6. ASSUME NEW n \in 0 .. Len(s), n \in P, n < Len(s) PROVE n + 1 \in P
    <2>1. n + 1 \in 1 .. Len(s) /\ n + 1 \in 1 .. Len(u) /\ (n + 1) - 1 = n
      BY <1>1, <1>6
    <2>2. f[n + 1] = IF n + 1 \in I THEN Append(f[n], s[n + 1]) ELSE f[n]
      BY <1>4, <2>1
    <2>3. g[n + 1] = IF n + 1 \in J THEN Append(g[n], u[n + 1]) ELSE g[n]
      BY <1>5, <2>1
    <2>4. f[n + 1] = g[n + 1]
      BY <1>1, <1>6, <2>1, <2>2, <2>3
    <2> QED BY <2>1, <2>4
  <1>7. g[Len(s)] = r
    <2>1. 0 \in P
      BY <1>1, <1>4, <1>5
    <2> HIDE DEF P
    <2>2. 0 .. Len(s) \subseteq P
      BY <1>1, <1>6, <2>1, UpTo
    <2> QED BY <1>1, <1>4, <2>2 DEF P
  <1>8. 0 \in Q
    BY <1>1, <1>3, <1>7
  <1>9. ASSUME NEW m \in 0 .. Len(t), m \in Q, m < Len(t) PROVE m + 1 \in Q
    <2> DEFINE a == g[Len(s) + m]
               b == g[Len(s) + (m + 1)]
               x == u[Len(s) + (m + 1)]
    <2>1. Len(s) + (m + 1) \in 1 .. Len(u) /\ (Len(s) + (m + 1)) - 1 = Len(s) + m
      BY <1>1, <1>9
    <2>2. b = a \/ b = Append(a, x)
      BY <1>5, <2>1
    <2>3. a \in Seq(S) /\ x \in S /\ Len(r) <= Len(a) /\ \A k \in 1 .. Len(r) : a[k] = r[k]
      BY <1>2, <1>9, <2>1
    <2> HIDE DEF a, b, x
    <2>4. CASE b = a
      <3>1. m + 1 \in 0 .. Len(t)
        BY <1>9
      <3> QED BY <2>3, <2>4, <3>1 DEF b
    <2>5. CASE b = Append(a, x)
      <3>1. b \in Seq(S) /\ Len(b) = Len(a) + 1 /\ \A k \in 1 .. Len(a) : b[k] = a[k]
        BY <2>3, <2>5
      <3>2. Len(a) \in Nat
        BY <2>3
      <3>3. \A k \in 1 .. Len(r) : k \in 1 .. Len(a)
        BY <1>3, <2>3, <3>2
      <3>4. Len(r) <= Len(b) /\ \A k \in 1 .. Len(r) : b[k] = r[k]
        BY <1>3, <2>3, <3>1, <3>2, <3>3
      <3>5. m + 1 \in 0 .. Len(t)
        BY <1>9
      <3> QED BY <3>1, <3>4, <3>5 DEF b
    <2> QED BY <2>2, <2>4, <2>5
  <1>10. Len(t) \in Q
    <2> HIDE DEF Q
    <2>1. 0 .. Len(t) \subseteq Q
      BY <1>1, <1>8, <1>9, UpTo
    <2> QED BY <1>1, <2>1
  <1> QED BY <1>1, <1>5, <1>10 DEF r, u
=================================================================================
