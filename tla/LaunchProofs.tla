------------------------------ MODULE LaunchProofs ------------------------------
(***************************************************************************)
(* Proofs about the launch: what a chain of versions merges to, what the   *)
(* plan and the classpath have in common, and what is true of a prepared   *)
(* command, for every chain, option set, disk and loss of files.           *)
(***************************************************************************)
EXTENDS GameLaunch, SubsequenceLemmas, FiniteSetTheorems, TLAPS

-----------------------------------------------------------------------------
(* Folds.  FoldLeft is defined by a function on the sets of places, which  *)
(* takes the last place first.  Such a function exists for every operator  *)
(* that stays within a set A, here given as a function F.                  *)

IsFold(f, base, F, s) ==
  \A x \in SUBSET DOMAIN s :
    f[x] = IF x = {} THEN base ELSE F[<<f[x \ {Max(x)}], s[Max(x)]>>]

(* Less: it need be a fold only where its values are in A.                 *)
FoldsIn(A, f, base, F, s) ==
  /\ f[{}] = base
  /\ \A x \in SUBSET DOMAIN s :
       x # {} /\ f[x \ {Max(x)}] \in A => f[x] = F[<<f[x \ {Max(x)}], s[Max(x)]>>]

(* What a fold computes is the end of a run over the sequence.             *)
IsRun(h, base, F, s) ==
  h[0] = base /\ \A n \in 1 .. Len(s) : h[n] = F[<<h[n - 1], s[n]>>]

RunEnds(A, v, base, F, s) ==
  \E h \in [0 .. Len(s) -> A] : IsRun(h, base, F, s) /\ h[Len(s)] = v

LEMMA MaxIsLast ==
  ASSUME NEW n \in Nat, NEW x \in SUBSET (1 .. n + 1), n + 1 \in x
  PROVE  Max(x) = n + 1
  <1>1. \A y \in x : n + 1 >= y
    OBVIOUS
  <1>2. \A z \in x : (\A y \in x : z >= y) => z = n + 1
    OBVIOUS
  <1> QED BY <1>1, <1>2 DEF Max

LEMMA MaxOfSome ==
  ASSUME NEW n \in Nat, NEW x \in SUBSET (1 .. n), x # {}
  PROVE  Max(x) \in x
  <1> DEFINE T == {m \in Nat : \A y \in x : y <= m}
  <1>1. n \in T /\ T \in SUBSET Nat
    OBVIOUS
  <1>2. PICK t \in T : \A u \in T : t <= u
    BY <1>1, Least
  <1>3. t \in x
    <2> SUFFICES ASSUME t \notin x PROVE FALSE
      OBVIOUS
    <2>1. PICK y \in x : TRUE
      OBVIOUS
    <2>2. y \in Nat /\ y >= 1 /\ y <= t /\ t \in Nat
      BY <1>2
    <2>3. \A z \in x : z \in Nat /\ z <= t /\ z # t
      BY <1>2
    <2>4. t - 1 \in Nat /\ \A z \in x : z <= t - 1
      BY <2>2, <2>3
    <2>5. t - 1 \in T
      BY <2>4
    <2>6. t <= t - 1
      BY <1>2, <2>5
    <2> QED BY <2>2, <2>6
  <1>4. \A y \in x : t >= y
    BY <1>2
  <1> HIDE DEF T
  <1>5. \E m \in x : \A y \in x : m >= y
    BY <1>3, <1>4
  <1> QED BY <1>5 DEF Max

LEMMA FoldExists ==
  ASSUME NEW A, NEW E, NEW base \in A, NEW F \in [A \X E -> A], NEW s \in Seq(E)
  PROVE  \E f \in [SUBSET DOMAIN s -> A] : IsFold(f, base, F, s)
  <1> DEFINE Good(f, n) ==
        \A x \in SUBSET (1 .. n) :
          f[x] = IF x = {} THEN base ELSE F[<<f[x \ {Max(x)}], s[Max(x)]>>]
  <1> DEFINE P == {n \in 0 .. Len(s) : \E f \in [SUBSET (1 .. n) -> A] : Good(f, n)}
  <1>1. DOMAIN s = 1 .. Len(s) /\ Len(s) \in Nat /\ \A i \in DOMAIN s : s[i] \in E
    BY Indices
  <1>2. 0 \in P
    <2>1. 1 .. 0 = {} /\ SUBSET (1 .. 0) = {{}}
      OBVIOUS
    <2> DEFINE f == [x \in SUBSET (1 .. 0) |-> base]
    <2>2. f \in [SUBSET (1 .. 0) -> A] /\ \A x \in SUBSET (1 .. 0) : x = {} /\ f[x] = base
      BY <2>1
    <2> HIDE DEF f
    <2>3. Good(f, 0)
      BY <2>2
    <2>4. \E h \in [SUBSET (1 .. 0) -> A] : Good(h, 0)
      BY <2>2, <2>3
    <2>5. 0 \in 0 .. Len(s)
      BY <1>1
    <2> HIDE DEF Good
    <2> QED BY <2>4, <2>5, Zenon
  <1>3. ASSUME NEW n \in 0 .. Len(s), n \in P, n < Len(s) PROVE n + 1 \in P
    <2>1. PICK f \in [SUBSET (1 .. n) -> A] : Good(f, n)
      BY <1>3
    <2> DEFINE g == [x \in SUBSET (1 .. n + 1) |->
                       IF n + 1 \in x THEN F[<<f[x \ {n + 1}], s[n + 1]>>] ELSE f[x]]
    <2>2. n \in Nat /\ n + 1 \in 1 .. Len(s) /\ s[n + 1] \in E
      BY <1>1, <1>3
    <2>3. \A x \in SUBSET (1 .. n + 1) :
            /\ n + 1 \in x => x \ {n + 1} \in SUBSET (1 .. n)
            /\ n + 1 \notin x => x \in SUBSET (1 .. n)
      BY <2>2
    <2>4. g \in [SUBSET (1 .. n + 1) -> A]
      <3>1. ASSUME NEW x \in SUBSET (1 .. n + 1) PROVE g[x] \in A
        <4>1. CASE n + 1 \in x
          <5>1. f[x \ {n + 1}] \in A
            BY <2>1, <2>3, <4>1
          <5>2. <<f[x \ {n + 1}], s[n + 1]>> \in A \X E
            BY <5>1, <2>2
          <5> QED BY <5>2, <4>1
        <4>2. CASE n + 1 \notin x
          BY <2>1, <2>3, <4>2
        <4> QED BY <4>1, <4>2
      <3> QED BY <3>1
    <2>5. ASSUME NEW x \in SUBSET (1 .. n) PROVE g[x] = f[x]
      <3>1. x \in SUBSET (1 .. n + 1) /\ n + 1 \notin x
        BY <2>2
      <3> QED BY <3>1
    <2>6. ASSUME NEW x \in SUBSET (1 .. n + 1)
          PROVE  g[x] = IF x = {} THEN base ELSE F[<<g[x \ {Max(x)}], s[Max(x)]>>]
      <3>1. CASE n + 1 \in x
        <4>1. Max(x) = n + 1 /\ x # {}
          BY <2>2, <3>1, MaxIsLast
        <4>2. g[x \ {n + 1}] = f[x \ {n + 1}]
          BY <2>3, <2>5, <3>1
        <4>3. g[x] = F[<<f[x \ {n + 1}], s[n + 1]>>]
          BY <3>1
        <4> HIDE DEF g
        <4> QED BY <4>1, <4>2, <4>3
      <3>2. CASE n + 1 \notin x
        <4>1. x \in SUBSET (1 .. n)
          BY <2>3, <3>2
        <4>2. x \ {Max(x)} \in SUBSET (1 .. n)
          BY <4>1
        <4>3. g[x] = f[x] /\ g[x \ {Max(x)}] = f[x \ {Max(x)}]
          BY <4>1, <4>2, <2>5
        <4>4. f[x] = IF x = {} THEN base ELSE F[<<f[x \ {Max(x)}], s[Max(x)]>>]
          BY <4>1, <2>1
        <4> HIDE DEF g
        <4> QED BY <4>3, <4>4
      <3> QED BY <3>1, <3>2
    <2> HIDE DEF g
    <2>7. Good(g, n + 1)
      BY <2>6
    <2>8. \E h \in [SUBSET (1 .. n + 1) -> A] : Good(h, n + 1)
      BY <2>4, <2>7
    <2> HIDE DEF Good
    <2> QED BY <2>2, <2>8
  <1>4. Len(s) \in P
    <2>1. 0 .. Len(s) \subseteq P
      <3> HIDE DEF P
      <3> QED BY <1>1, <1>2, <1>3, UpTo
    <2> HIDE DEF P
    <2> QED BY <2>1, <1>1
  <1> QED BY <1>1, <1>4 DEF IsFold

(* Of such a function only the prefixes matter.                            *)
LEMMA FoldPrefixes ==
  ASSUME NEW E, NEW s \in Seq(E), NEW n \in 1 .. Len(s)
  PROVE  /\ 1 .. n \in SUBSET DOMAIN s /\ 1 .. n # {} /\ Max(1 .. n) = n
         /\ (1 .. n) \ {n} = 1 .. n - 1 /\ 1 .. n - 1 \in SUBSET DOMAIN s
  <1>1. DOMAIN s = 1 .. Len(s) /\ Len(s) \in Nat
    BY Indices
  <1>2. n \in Nat /\ n >= 1 /\ n <= Len(s)
    BY <1>1
  <1>3. /\ 1 .. n \subseteq 1 .. Len(s) /\ n \in 1 .. n /\ 1 .. n - 1 \subseteq 1 .. Len(s)
        /\ (1 .. n) \ {n} = 1 .. n - 1
    BY <1>1, <1>2
  <1>4. \A k \in 1 .. n : (\A y \in 1 .. n : k >= y) => k = n
    BY <1>2
  <1>5. \A y \in 1 .. n : n >= y
    BY <1>2
  <1>6. Max(1 .. n) = n
    BY <1>3, <1>4, <1>5 DEF Max
  <1> QED BY <1>1, <1>3, <1>6

LEMMA FoldRuns ==
  ASSUME NEW A, NEW E, NEW base \in A, NEW F \in [A \X E -> A], NEW s \in Seq(E),
         NEW it, FoldsIn(A, it, base, F, s)
  PROVE  RunEnds(A, it[DOMAIN s], base, F, s)
  <1> DEFINE P == {n \in 0 .. Len(s) : it[1 .. n] \in A}
             h == [n \in 0 .. Len(s) |-> it[1 .. n]]
  <1>1. DOMAIN s = 1 .. Len(s) /\ Len(s) \in Nat /\ \A i \in DOMAIN s : s[i] \in E
    BY Indices
  <1>2. 1 .. 0 = {}
    OBVIOUS
  <1>3. ASSUME NEW n \in 1 .. Len(s), it[1 .. n - 1] \in A
        PROVE  it[1 .. n] = F[<<it[1 .. n - 1], s[n]>>] /\ it[1 .. n] \in A
    <2>1. /\ 1 .. n \in SUBSET DOMAIN s /\ 1 .. n # {} /\ Max(1 .. n) = n
          /\ (1 .. n) \ {n} = 1 .. n - 1
      BY FoldPrefixes
    <2>2. it[1 .. n] = F[<<it[1 .. n - 1], s[n]>>]
      BY <1>3, <2>1 DEF FoldsIn
    <2>3. <<it[1 .. n - 1], s[n]>> \in A \X E
      BY <1>1, <1>3
    <2> QED BY <2>2, <2>3
  <1>4. 0 .. Len(s) \subseteq P
    <2>1. 0 \in P
      BY <1>1, <1>2 DEF FoldsIn
    <2>2. ASSUME NEW n \in 0 .. Len(s), n \in P, n < Len(s) PROVE n + 1 \in P
      <3>1. n + 1 \in 1 .. Len(s) /\ (n + 1) - 1 = n /\ n + 1 \in 0 .. Len(s)
        BY <1>1, <2>2
      <3>2. it[1 .. n] \in A
        BY <2>2
      <3>3. it[1 .. n + 1] \in A
        BY <1>3, <3>1, <3>2
      <3> QED BY <3>1, <3>3
    <2> HIDE DEF P
    <2> QED BY <1>1, <2>1, <2>2, UpTo
  <1>5. h \in [0 .. Len(s) -> A]
    BY <1>4
  <1>6. h[0] = base /\ h[Len(s)] = it[DOMAIN s]
    BY <1>1, <1>2 DEF FoldsIn
  <1>7. ASSUME NEW n \in 1 .. Len(s) PROVE h[n] = F[<<h[n - 1], s[n]>>]
    <2>1. n - 1 \in 0 .. Len(s) /\ n \in 0 .. Len(s)
      BY <1>1
    <2>2. it[1 .. n - 1] \in A
      BY <1>4, <2>1
    <2> QED BY <1>3, <2>1, <2>2
  <1> HIDE DEF h
  <1>8. IsRun(h, base, F, s)
    BY <1>6, <1>7 DEF IsRun
  <1> QED BY <1>5, <1>6, <1>8 DEF RunEnds

LEMMA LastPlace ==
  ASSUME NEW E, NEW s \in Seq(E)
  PROVE  \A x \in SUBSET DOMAIN s : x # {} => s[Max(x)] \in E /\ x \ {Max(x)} \in SUBSET DOMAIN s
  <1>1. DOMAIN s = 1 .. Len(s) /\ Len(s) \in Nat /\ \A i \in DOMAIN s : s[i] \in E
    BY Indices
  <1> QED BY <1>1, MaxOfSome

(* The same of the operators of the model, one by one: a fold over s that   *)
(* stays within A is the end of a run.                                      *)
MergeRun(A, E, base, s, v) ==
  \E F \in [A \X E -> A] : /\ \A a \in A, e \in E : F[<<a, e>>] = MergeLibrary(a, e)
                          /\ RunEnds(A, v, base, F, s)
MergeStays(A, E) == \A a \in A, e \in E : MergeLibrary(a, e) \in A

LEMMA MergeRuns ==
  ASSUME NEW A, NEW E, NEW base \in A, NEW s \in Seq(E), MergeStays(A, E)
  PROVE  MergeRun(A, E, base, s, FoldLeft(MergeLibrary, base, s))
  <1> DEFINE F == [p \in A \X E |-> MergeLibrary(p[1], p[2])]
             Is(f) == f = [x \in SUBSET DOMAIN s |->
                             IF x = {} THEN base ELSE MergeLibrary(f[x \ {Max(x)}], s[Max(x)])]
             it == CHOOSE f : Is(f)
  <1>1. F \in [A \X E -> A] /\ \A a \in A, e \in E : F[<<a, e>>] = MergeLibrary(a, e)
    BY DEF MergeStays
  <1>2. FoldLeft(MergeLibrary, base, s) = it[DOMAIN s]
    BY DEF FoldLeft, MapThenFoldSet
  <1> HIDE DEF F
  <1>3. PICK f \in [SUBSET DOMAIN s -> A] : IsFold(f, base, F, s)
    BY <1>1, FoldExists
  <1>4. \A x \in SUBSET DOMAIN s :
          f[x] = IF x = {} THEN base ELSE MergeLibrary(f[x \ {Max(x)}], s[Max(x)])
    BY <1>1, <1>3, LastPlace DEF IsFold
  <1>5. Is(f)
    BY <1>4
  <1>6. Is(it)
    BY <1>5
  <1> HIDE DEF it
  <1>7. FoldsIn(A, it, base, F, s)
    <2>1. \A x \in SUBSET DOMAIN s :
            x # {} => s[Max(x)] \in E /\ x \ {Max(x)} \in SUBSET DOMAIN s
      BY LastPlace
    <2> QED BY <1>1, <1>6, <2>1 DEF FoldsIn
  <1>8. RunEnds(A, it[DOMAIN s], base, F, s)
    BY <1>1, <1>7, FoldRuns
  <1> QED BY <1>1, <1>2, <1>8 DEF MergeRun

(* What holds at the start and is kept by every step holds at the end.     *)
Kept(G, A, F, s) ==
  \A n \in 1 .. Len(s), a \in A : <<n - 1, a>> \in G => <<n, F[<<a, s[n]>>]>> \in G

LEMMA RunKeeps ==
  ASSUME NEW A, NEW E, NEW base \in A, NEW F \in [A \X E -> A], NEW s \in Seq(E), NEW v,
         RunEnds(A, v, base, F, s),
         NEW G, <<0, base>> \in G, Kept(G, A, F, s)
  PROVE  <<Len(s), v>> \in G /\ v \in A
  <1>1. PICK h \in [0 .. Len(s) -> A] : IsRun(h, base, F, s) /\ h[Len(s)] = v
    BY DEF RunEnds
  <1>2. Len(s) \in Nat
    BY Indices
  <1> DEFINE P == {n \in 0 .. Len(s) : <<n, h[n]>> \in G}
  <1>3. 0 \in P
    BY <1>1, <1>2 DEF IsRun
  <1>4. ASSUME NEW n \in 0 .. Len(s), n \in P, n < Len(s) PROVE n + 1 \in P
    <2>1. n + 1 \in 1 .. Len(s) /\ (n + 1) - 1 = n /\ n + 1 \in 0 .. Len(s)
      BY <1>2, <1>4
    <2>2. h[n] \in A /\ <<n, h[n]>> \in G
      BY <1>4
    <2>3. h[n + 1] = F[<<h[n], s[n + 1]>>]
      BY <1>1, <2>1 DEF IsRun
    <2>4. <<n + 1, h[n + 1]>> \in G
      BY <2>1, <2>2, <2>3 DEF Kept
    <2> QED BY <2>1, <2>4
  <1>5. 0 .. Len(s) \subseteq P
    <2> HIDE DEF P
    <2> QED BY <1>2, <1>3, <1>4, UpTo
  <1>6. Len(s) \in 0 .. Len(s)
    BY <1>2
  <1>7. Len(s) \in P
    BY <1>5, <1>6
  <1> QED BY <1>1, <1>6, <1>7

-----------------------------------------------------------------------------
(* FlattenSeq: every element keeps its owner, and the owners' order.       *)
Owned(flat, owner, ss, m) ==
  /\ owner \in [1 .. Len(flat) -> 1 .. m]
  /\ \A p \in 1 .. Len(flat) : flat[p] \in ToSet(ss[owner[p]])
  /\ \A p, q \in 1 .. Len(flat) : p <= q => owner[p] <= owner[q]
  /\ \A k \in 1 .. m : \A x \in ToSet(ss[k]) :
       \E p \in 1 .. Len(flat) : flat[p] = x /\ owner[p] = k

LEMMA OwnedGrows ==
  ASSUME NEW E, NEW ss \in Seq(Seq(E)), NEW m \in Nat, m + 1 <= Len(ss),
         NEW flat \in Seq(E), NEW owner, Owned(flat, owner, ss, m)
  PROVE  flat \o ss[m + 1] \in Seq(E) /\ \E own : Owned(flat \o ss[m + 1], own, ss, m + 1)
  <1> DEFINE t == ss[m + 1]
             new == flat \o t
             own == [p \in 1 .. Len(new) |-> IF p <= Len(flat) THEN owner[p] ELSE m + 1]
  <1>1. t \in Seq(E)
    <2>1. Len(ss) \in Nat /\ DOMAIN ss = 1 .. Len(ss) /\ \A i \in DOMAIN ss : ss[i] \in Seq(E)
      BY Indices
    <2> QED BY <2>1
  <1>2. /\ new \in Seq(E) /\ Len(new) = Len(flat) + Len(t)
        /\ \A p \in 1 .. Len(flat) + Len(t) :
             new[p] = IF p <= Len(flat) THEN flat[p] ELSE t[p - Len(flat)]
    BY <1>1, ConcatProperties
  <1>3. Len(flat) \in Nat /\ Len(t) \in Nat /\ DOMAIN t = 1 .. Len(t)
    BY <1>1, Indices
  <1> HIDE DEF t, new
  <1>4. own \in [1 .. Len(new) -> 1 .. m + 1]
    BY <1>2, <1>3 DEF Owned
  <1>5. \A p \in 1 .. Len(new) : IF p <= Len(flat) THEN p \in 1 .. Len(flat) /\ own[p] = owner[p] /\ new[p] = flat[p]
                                 ELSE own[p] = m + 1 /\ new[p] = t[p - Len(flat)] /\ p - Len(flat) \in 1 .. Len(t)
    BY <1>2, <1>3
  <1> HIDE DEF own
  <1>6. ASSUME NEW p \in 1 .. Len(new) PROVE new[p] \in ToSet(ss[own[p]])
    <2>1. CASE p <= Len(flat)
      BY <1>5, <2>1 DEF Owned
    <2>2. CASE ~(p <= Len(flat))
      BY <1>3, <1>5, <2>2 DEF ToSet, t
    <2> QED BY <2>1, <2>2
  <1>7. ASSUME NEW p \in 1 .. Len(new), NEW q \in 1 .. Len(new), p <= q PROVE own[p] <= own[q]
    <2>1. own[p] \in 1 .. m + 1 /\ own[q] \in 1 .. m + 1
      BY <1>4
    <2>2. CASE q <= Len(flat)
      <3>1. p <= Len(flat)
        BY <1>2, <1>3, <1>7, <2>2
      <3> QED BY <1>5, <1>7, <2>2, <3>1 DEF Owned
    <2>3. CASE ~(q <= Len(flat))
      BY <1>5, <2>1, <2>3
    <2> QED BY <2>2, <2>3
  <1>8. ASSUME NEW k \in 1 .. m + 1, NEW x \in ToSet(ss[k])
        PROVE  \E p \in 1 .. Len(new) : new[p] = x /\ own[p] = k
    <2>1. CASE k \in 1 .. m
      <3>1. PICK p \in 1 .. Len(flat) : flat[p] = x /\ owner[p] = k
        BY <2>1 DEF Owned
      <3>2. p \in 1 .. Len(new) /\ p <= Len(flat)
        BY <1>2, <1>3
      <3> QED BY <1>5, <3>1, <3>2
    <2>2. CASE k = m + 1
      <3>1. PICK i \in 1 .. Len(t) : x = t[i]
        BY <1>3, <2>2 DEF ToSet, t
      <3>2. /\ i + Len(flat) \in 1 .. Len(new) /\ ~(i + Len(flat) <= Len(flat))
            /\ (i + Len(flat)) - Len(flat) = i
        BY <1>2, <1>3
      <3> QED BY <1>5, <2>2, <3>1, <3>2
    <2> QED BY <2>1, <2>2
  <1>9. Owned(new, own, ss, m + 1)
    BY <1>4, <1>6, <1>7, <1>8 DEF Owned
  <1> QED BY <1>2, <1>9 DEF new, t

IsFlatten(f, ss, m) ==
  f = [i \in 1 .. m |-> IF i = 1 THEN ss[i] ELSE f[i - 1] \o ss[i]]

LEMMA FlattenExists ==
  ASSUME NEW ss, NEW l \in Nat PROVE \E f : IsFlatten(f, ss, l)
  <1> DEFINE P == {m \in 0 .. l : \E f : IsFlatten(f, ss, m)}
  <1>1. 0 \in P
    <2>1. IsFlatten([i \in 1 .. 0 |-> ss], ss, 0)
      BY DEF IsFlatten
    <2>2. 0 \in 0 .. l
      OBVIOUS
    <2> QED BY <2>1, <2>2
  <1>2. ASSUME NEW m \in 0 .. l, m \in P, m < l PROVE m + 1 \in P
    <2>1. PICK f : IsFlatten(f, ss, m)
      BY <1>2
    <2> DEFINE x == IF m = 0 THEN ss[1] ELSE f[m] \o ss[m + 1]
               g == [i \in 1 .. m + 1 |-> IF i = m + 1 THEN x ELSE f[i]]
               e(i) == IF i = 1 THEN ss[i] ELSE g[i - 1] \o ss[i]
    <2>2. m \in Nat /\ m + 1 \in 0 .. l
      BY <1>2
    <2>3. ASSUME NEW i \in 1 .. m + 1 PROVE g[i] = e(i)
      <3>1. CASE i = m + 1
        <4>1. CASE m = 0
          BY <3>1, <4>1
        <4>2. CASE m # 0
          <5>1. i # 1 /\ i - 1 = m /\ m \in 1 .. m + 1 /\ m # m + 1
            BY <2>2, <3>1, <4>2
          <5>2. g[m] = f[m] /\ g[i] = x
            BY <3>1, <5>1
          <5> HIDE DEF g
          <5> QED BY <3>1, <4>2, <5>1, <5>2
        <4> QED BY <4>1, <4>2
      <3>2. CASE i # m + 1
        <4>1. i \in 1 .. m
          BY <2>2, <3>2
        <4>2. f[i] = IF i = 1 THEN ss[i] ELSE f[i - 1] \o ss[i]
          BY <2>1, <4>1 DEF IsFlatten
        <4>3. g[i] = f[i] /\ (i # 1 => g[i - 1] = f[i - 1])
          BY <2>2, <4>1
        <4> QED BY <4>2, <4>3
      <3> QED BY <3>1, <3>2
    <2>4. g = [i \in 1 .. m + 1 |-> g[i]]
      OBVIOUS
    <2> HIDE DEF g, e
    <2>5. g = [i \in 1 .. m + 1 |-> e(i)]
      BY <2>3, <2>4
    <2>6. IsFlatten(g, ss, m + 1)
      BY <2>5 DEF IsFlatten, e
    <2> QED BY <2>2, <2>6
  <1>3. 0 .. l \subseteq P
    <2> HIDE DEF P
    <2> QED BY <1>1, <1>2, UpTo
  <1>4. l \in P
    <2>1. l \in 0 .. l
      OBVIOUS
    <2> HIDE DEF P
    <2> QED BY <1>3, <2>1
  <1> QED BY <1>4

LEMMA FlattenOwners ==
  ASSUME NEW E, NEW ss \in Seq(Seq(E))
  PROVE  FlattenSeq(ss) \in Seq(E) /\ \E owner : Owned(FlattenSeq(ss), owner, ss, Len(ss))
  <1>1. Len(ss) \in Nat /\ DOMAIN ss = 1 .. Len(ss) /\ \A i \in DOMAIN ss : ss[i] \in Seq(E)
    BY Indices
  <1>2. <<>> \in Seq(E) /\ Len(<<>>) = 0 /\ 1 .. 0 = {}
    OBVIOUS
  <1>3. \E owner : Owned(<<>>, owner, ss, 0)
    <2>1. Owned(<<>>, [p \in 1 .. 0 |-> 0], ss, 0)
      BY <1>2 DEF Owned
    <2> QED BY <2>1
  <1>4. CASE Len(ss) = 0
    <2>1. FlattenSeq(ss) = ss /\ ss = <<>>
      BY <1>1, <1>4, EmptySeq DEF FlattenSeq
    <2> QED BY <1>2, <1>3, <1>4, <2>1
  <1>5. CASE Len(ss) # 0
    <2> DEFINE f == CHOOSE f : IsFlatten(f, ss, Len(ss))
    <2>1. FlattenSeq(ss) = f[Len(ss)]
      BY <1>5 DEF FlattenSeq, IsFlatten
    <2>2. IsFlatten(f, ss, Len(ss))
      BY <1>1, FlattenExists
    <2> HIDE DEF f
    <2> DEFINE P == {m \in 0 .. Len(ss) : m = 0 \/ (f[m] \in Seq(E) /\ \E owner : Owned(f[m], owner, ss, m))}
    <2>3. 0 \in P
      BY <1>1
    <2>4. ASSUME NEW m \in 0 .. Len(ss), m \in P, m < Len(ss) PROVE m + 1 \in P
      <3>1. m \in Nat /\ m + 1 \in 1 .. Len(ss) /\ m + 1 \in 0 .. Len(ss) /\ m + 1 <= Len(ss)
        BY <1>1, <2>4
      <3>2. f[m + 1] = IF m + 1 = 1 THEN ss[m + 1] ELSE f[(m + 1) - 1] \o ss[m + 1]
        BY <2>2, <3>1 DEF IsFlatten
      <3>3. CASE m = 0
        <4>1. ss[1] \in Seq(E) /\ <<>> \o ss[1] = ss[1]
          BY <1>1, <3>1, <3>3, ConcatEmptySeq
        <4>2. \E own : Owned(<<>> \o ss[0 + 1], own, ss, 0 + 1)
          BY <1>2, <1>3, <3>1, <3>3, OwnedGrows
        <4> QED BY <3>1, <3>2, <3>3, <4>1, <4>2
      <3>4. CASE m # 0
        <4>1. f[m] \in Seq(E) /\ \E owner : Owned(f[m], owner, ss, m)
          BY <2>4, <3>4
        <4>2. f[m] \o ss[m + 1] \in Seq(E) /\ \E own : Owned(f[m] \o ss[m + 1], own, ss, m + 1)
          <5>1. PICK owner : Owned(f[m], owner, ss, m)
            BY <4>1
          <5> QED BY <3>1, <4>1, <5>1, OwnedGrows
        <4>3. m + 1 # 1 /\ (m + 1) - 1 = m
          BY <3>1, <3>4
        <4>4. f[m + 1] = f[m] \o ss[m + 1]
          BY <3>2, <4>3
        <4> QED BY <3>1, <4>2, <4>4
      <3> QED BY <3>3, <3>4
    <2>5. 0 .. Len(ss) \subseteq P
      <3> HIDE DEF P
      <3> QED BY <1>1, <2>3, <2>4, UpTo
    <2>6. Len(ss) \in 0 .. Len(ss)
      BY <1>1
    <2>7. Len(ss) \in P
      BY <2>5, <2>6
    <2> QED BY <1>5, <2>1, <2>7
  <1> QED BY <1>4, <1>5
-----------------------------------------------------------------------------
(* The merge.  SelectInSeq finds the first place with a property.          *)
LEMMA MinOfSome == ASSUME NEW T \in SUBSET Nat, T # {} PROVE Min(T) \in T /\ \A y \in T : Min(T) <= y
  <1>1. \E x \in T : \A y \in T : x <= y
    BY Least
  <1> QED BY <1>1 DEF Min

Places(libs, name) == {i \in 1 .. Len(libs) : NameOf(libs[i]) = name}
Distinct(libs) == \A i, j \in 1 .. Len(libs) : NameOf(libs[i]) = NameOf(libs[j]) => i = j

(* A library is appended, or takes the place of the one of its name.       *)
LEMMA MergeIs ==
  ASSUME NEW E, NEW libs \in Seq(E), NEW lib \in E
  PROVE  \/ Places(libs, NameOf(lib)) = {} /\ MergeLibrary(libs, lib) = Append(libs, lib)
         \/ \E i \in Places(libs, NameOf(lib)) : MergeLibrary(libs, lib) = [libs EXCEPT ![i] = lib]
  <1> DEFINE I == {i \in 1 .. Len(libs) : NameOf(libs[i]) = NameOf(lib)}
  <1>1. SelectInSeq(libs, LAMBDA l : NameOf(l) = NameOf(lib)) = IF I # {} THEN Min(I) ELSE 0
    BY DEF SelectInSeq
  <1>2. I \in SUBSET Nat /\ 0 \notin I /\ I = Places(libs, NameOf(lib))
    <2>1. Len(libs) \in Nat
      BY Indices
    <2> QED BY <2>1 DEF Places
  <1> DEFINE i == SelectInSeq(libs, LAMBDA l : NameOf(l) = NameOf(lib))
  <1>3. MergeLibrary(libs, lib) = IF i = 0 THEN Append(libs, lib) ELSE [libs EXCEPT ![i] = lib]
    BY DEF MergeLibrary
  <1> HIDE DEF I, i
  <1>4. CASE I = {}
    <2>1. i = 0
      BY <1>1, <1>4 DEF i
    <2> QED BY <1>2, <1>3, <1>4, <2>1
  <1>5. CASE I # {}
    <2>1. i = Min(I) /\ Min(I) \in I
      BY <1>1, <1>2, <1>5, MinOfSome DEF i
    <2>2. i # 0 /\ i \in Places(libs, NameOf(lib))
      BY <1>2, <2>1
    <2> QED BY <1>3, <2>2
  <1> QED BY <1>4, <1>5

LEMMA MergeKeeps ==
  ASSUME NEW E, NEW libs \in Seq(E), NEW lib \in E
  PROVE  /\ MergeLibrary(libs, lib) \in Seq(E)
         /\ Distinct(libs) => Distinct(MergeLibrary(libs, lib))
         /\ lib \in ToSet(MergeLibrary(libs, lib))
         /\ \A l \in ToSet(libs) : NameOf(l) # NameOf(lib) => l \in ToSet(MergeLibrary(libs, lib))
  <1> DEFINE new == MergeLibrary(libs, lib)
  <1>1. Len(libs) \in Nat /\ DOMAIN libs = 1 .. Len(libs) /\ \A i \in 1 .. Len(libs) : libs[i] \in E
    BY Indices
  <1>2. CASE Places(libs, NameOf(lib)) = {} /\ new = Append(libs, lib)
    <2>1. /\ new \in Seq(E) /\ Len(new) = Len(libs) + 1 /\ DOMAIN new = 1 .. Len(libs) + 1
          /\ \A i \in 1 .. Len(libs) : new[i] = libs[i]
          /\ new[Len(libs) + 1] = lib
      <3>1. Append(libs, lib) \in Seq(E) /\ Len(Append(libs, lib)) = Len(libs) + 1
        BY AppendProperties
      <3>2. DOMAIN Append(libs, lib) = 1 .. Len(libs) + 1
        BY <3>1, Indices
      <3>3. \A i \in 1 .. Len(libs) : Append(libs, lib)[i] = libs[i]
        BY AppendProperties
      <3>4. Append(libs, lib)[Len(libs) + 1] = lib
        BY AppendProperties
      <3> HIDE DEF new
      <3> QED BY <1>2, <3>1, <3>2, <3>3, <3>4
    <2>2. \A i \in 1 .. Len(libs) : NameOf(libs[i]) # NameOf(lib)
      BY <1>2 DEF Places
    <2> HIDE DEF new
    <2>3. Distinct(libs) => Distinct(new)
      <3> SUFFICES ASSUME Distinct(libs), NEW i \in 1 .. Len(libs) + 1, NEW j \in 1 .. Len(libs) + 1,
                          NameOf(new[i]) = NameOf(new[j])
                   PROVE  i = j
        BY <2>1 DEF Distinct
      <3>1. i \in 1 .. Len(libs) \/ i = Len(libs) + 1
        BY <1>1
      <3>2. j \in 1 .. Len(libs) \/ j = Len(libs) + 1
        BY <1>1
      <3>3. CASE i \in 1 .. Len(libs) /\ j \in 1 .. Len(libs)
        BY <2>1, <3>3 DEF Distinct
      <3>4. CASE i \in 1 .. Len(libs) /\ j = Len(libs) + 1
        BY <2>1, <2>2, <3>4
      <3>5. CASE i = Len(libs) + 1 /\ j \in 1 .. Len(libs)
        BY <2>1, <2>2, <3>5
      <3> QED BY <3>1, <3>2, <3>3, <3>4, <3>5
    <2>4. lib \in ToSet(new) /\ ToSet(libs) \subseteq ToSet(new)
      <3>1. \A i \in 1 .. Len(libs) : i \in 1 .. Len(libs) + 1
        BY <1>1
      <3>2. Len(libs) + 1 \in 1 .. Len(libs) + 1
        BY <1>1
      <3> QED BY <1>1, <2>1, <3>1, <3>2 DEF ToSet
    <2> QED BY <2>1, <2>3, <2>4 DEF new
  <1>3. ASSUME NEW i \in Places(libs, NameOf(lib)), new = [libs EXCEPT ![i] = lib]
        PROVE  /\ new \in Seq(E) /\ (Distinct(libs) => Distinct(new)) /\ lib \in ToSet(new)
               /\ \A l \in ToSet(libs) : NameOf(l) # NameOf(lib) => l \in ToSet(new)
    <2>1. i \in 1 .. Len(libs) /\ NameOf(libs[i]) = NameOf(lib)
      BY DEF Places
    <2>2. new \in Seq(E) /\ Len(new) = Len(libs)
      BY <1>3, <2>1, ExceptSeq
    <2>3. /\ DOMAIN new = 1 .. Len(libs) /\ new[i] = lib
          /\ \A j \in 1 .. Len(libs) : j # i => new[j] = libs[j]
      BY <1>1, <1>3, <2>1
    <2> HIDE DEF new
    <2>4. \A j \in 1 .. Len(libs) : NameOf(new[j]) = NameOf(libs[j])
      BY <2>1, <2>3
    <2>5. Distinct(libs) => Distinct(new)
      BY <2>2, <2>4 DEF Distinct
    <2>6. lib \in ToSet(new)
      BY <2>1, <2>3 DEF ToSet
    <2>7. ASSUME NEW l \in ToSet(libs), NameOf(l) # NameOf(lib) PROVE l \in ToSet(new)
      <3>1. PICK j \in 1 .. Len(libs) : l = libs[j]
        BY <1>1 DEF ToSet
      <3>2. j # i
        BY <2>1, <2>7, <3>1
      <3> QED BY <2>3, <3>1, <3>2 DEF ToSet
    <2> QED BY <2>2, <2>5, <2>6, <2>7
  <1>4. \/ Places(libs, NameOf(lib)) = {} /\ new = Append(libs, lib)
        \/ \E i \in Places(libs, NameOf(lib)) : new = [libs EXCEPT ![i] = lib]
    BY MergeIs
  <1> HIDE DEF new
  <1>5. /\ new \in Seq(E) /\ (Distinct(libs) => Distinct(new)) /\ lib \in ToSet(new)
        /\ \A l \in ToSet(libs) : NameOf(l) # NameOf(lib) => l \in ToSet(new)
    BY <1>2, <1>3, <1>4 DEF new
  <1> QED BY <1>5 DEF new
(* Of the libraries of one name the last stays.                            *)
LastStays(s, n, libs) ==
  /\ Distinct(libs)
  /\ \A p \in 1 .. n : \E q \in p .. n : s[q] \in ToSet(libs) /\ NameOf(s[q]) = NameOf(s[p])

LEMMA MergedLibraries ==
  ASSUME NEW E, NEW s \in Seq(E)
  PROVE  /\ FoldLeft(MergeLibrary, <<>>, s) \in Seq(E)
         /\ LastStays(s, Len(s), FoldLeft(MergeLibrary, <<>>, s))
  <1> DEFINE A == Seq(E)
             v == FoldLeft(MergeLibrary, <<>>, s)
             G == {x \in (0 .. Len(s)) \X A : LastStays(s, x[1], x[2])}
  <1>1. <<>> \in A /\ MergeStays(A, E)
    BY MergeKeeps DEF MergeStays
  <1>2. Len(s) \in Nat /\ \A i \in 1 .. Len(s) : s[i] \in E
    BY Indices
  <1>3. PICK F \in [A \X E -> A] :
            /\ \A a \in A, e \in E : F[<<a, e>>] = MergeLibrary(a, e)
            /\ RunEnds(A, v, <<>>, F, s)
    <2> HIDE DEF A
    <2>1. MergeRun(A, E, <<>>, s, FoldLeft(MergeLibrary, <<>>, s))
      BY <1>1, MergeRuns
    <2> QED BY <2>1 DEF MergeRun
  <1>4. <<0, <<>>>> \in G
    <2>1. LastStays(s, 0, <<>>)
      BY DEF LastStays, Distinct
    <2>2. 0 \in 0 .. Len(s)
      BY <1>2
    <2> DEFINE e == <<>>
    <2>3. e \in A /\ LastStays(s, 0, e)
      BY <1>1, <2>1
    <2> HIDE DEF e, A
    <2>4. <<0, e>> \in G
      BY <2>2, <2>3
    <2> QED BY <2>4 DEF e
  <1>5. ASSUME NEW n \in 1 .. Len(s), NEW a \in A, <<n - 1, a>> \in G
        PROVE  <<n, F[<<a, s[n]>>]>> \in G
    <2>1. s[n] \in E /\ n \in 0 .. Len(s) /\ n \in Nat
      BY <1>2
    <2>2. F[<<a, s[n]>>] = MergeLibrary(a, s[n])
      BY <1>3, <2>1
    <2> DEFINE b == MergeLibrary(a, s[n])
    <2>3. LastStays(s, n - 1, a)
      BY <1>5
    <2>4. /\ b \in A /\ (Distinct(a) => Distinct(b)) /\ s[n] \in ToSet(b)
          /\ \A l \in ToSet(a) : NameOf(l) # NameOf(s[n]) => l \in ToSet(b)
      BY <2>1, MergeKeeps
    <2> HIDE DEF b, G
    <2>5. ASSUME NEW p \in 1 .. n
          PROVE  \E q \in p .. n : s[q] \in ToSet(b) /\ NameOf(s[q]) = NameOf(s[p])
      <3>1. CASE p = n
        BY <2>1, <2>4, <3>1
      <3>2. CASE p # n
        <4>1. p \in 1 .. n - 1
          BY <2>1, <3>2
        <4>2. PICK q \in p .. n - 1 : s[q] \in ToSet(a) /\ NameOf(s[q]) = NameOf(s[p])
          BY <2>3, <4>1 DEF LastStays
        <4>3. q \in p .. n /\ n \in p .. n
          BY <2>1, <4>1
        <4> QED BY <2>4, <4>2, <4>3
      <3> QED BY <3>1, <3>2
    <2>6. LastStays(s, n, b)
      BY <2>3, <2>4, <2>5 DEF LastStays
    <2> QED BY <2>1, <2>2, <2>4, <2>6 DEF G, b
  <1> HIDE DEF A, v
  <1>6. <<Len(s), v>> \in G /\ v \in A
    <2> HIDE DEF G
    <2>1. Kept(G, A, F, s)
      BY <1>5 DEF Kept
    <2> QED BY <1>1, <1>3, <1>4, <2>1, RunKeeps
  <1> QED BY <1>6 DEF v, A

-----------------------------------------------------------------------------
(* The chain is made of versions that are published.                       *)
Parsed == {ParseVersion(File[id]) : id \in DOMAIN File}

ChainInv == chain \in Seq(Parsed)

LEMMA ParsedLibraries == \A v \in Parsed : v.libraries \in Seq(Libs)
  <1> SUFFICES ASSUME NEW id \in DOMAIN File PROVE File[id].libraries \in Seq(Libs)
    BY DEF Parsed, ParseVersion
  <1> DEFINE s == File[id].libraries
  <1>1. Len(s) \in Nat /\ s = [i \in 1 .. Len(s) |-> s[i]]
    BY LaunchAssumption DEF LaunchAssumption, IsSequence
  <1>2. \A i \in 1 .. Len(s) : s[i] \in ToSet(s)
    <2>1. DOMAIN s = 1 .. Len(s)
      BY <1>1
    <2> QED BY <2>1 DEF ToSet
  <1>3. ToSet(s) \subseteq Libs
    BY DEF Libs
  <1> HIDE DEF s
  <1>4. s \in [1 .. Len(s) -> Libs]
    BY <1>1, <1>2, <1>3
  <1>5. s \in Seq(Libs)
    BY <1>1, <1>4 DEF Seq
  <1> QED BY <1>5 DEF s

(* The libraries of the reversed chain, and where they come from.          *)
LEMMA ChainLibraries ==
  ASSUME ChainInv
  PROVE  LET rs   == Reverse(chain)
             flat == FlattenSeq([i \in DOMAIN rs |-> rs[i].libraries])
         IN  /\ Resolved.libraries = FoldLeft(MergeLibrary, <<>>, flat)
             /\ flat \in Seq(Libs)
             /\ \E of \in [1 .. Len(flat) -> 1 .. Len(chain)] :
                  /\ \A p \in 1 .. Len(flat) : flat[p] \in ToSet(chain[of[p]].libraries)
                  /\ \A p, q \in 1 .. Len(flat) : p <= q => of[q] <= of[p]
                  /\ \A k \in 1 .. Len(chain) : \A x \in ToSet(chain[k].libraries) :
                       \E p \in 1 .. Len(flat) : flat[p] = x /\ of[p] = k
  <1> DEFINE rs   == Reverse(chain)
             ss   == [i \in DOMAIN rs |-> rs[i].libraries]
             flat == FlattenSeq(ss)
             l    == Len(chain)
  <1>1. Resolved.libraries = FoldLeft(MergeLibrary, <<>>, flat)
    BY DEF Resolved, MergeChain
  <1>2. l \in Nat /\ \A i \in 1 .. l : chain[i] \in Parsed
    BY Indices DEF ChainInv
  <1>3. DOMAIN rs = 1 .. l /\ \A i \in 1 .. l : rs[i] = chain[l - i + 1]
    BY <1>2 DEF Reverse
  <1>4. /\ ss \in [1 .. l -> Seq(Libs)] /\ \A i \in 1 .. l : ss[i] = chain[l - i + 1].libraries
    <2> HIDE DEF rs
    <2>1. \A i \in 1 .. l : l - i + 1 \in 1 .. l
      BY <1>2
    <2>2. \A i \in 1 .. l : rs[i].libraries \in Seq(Libs)
      BY <1>2, <1>3, <2>1, ParsedLibraries
    <2> HIDE DEF l
    <2> QED BY <1>3, <2>2
  <1>5. ss \in Seq(Seq(Libs)) /\ Len(ss) = l
    <2> HIDE DEF ss, l
    <2> QED BY <1>2, <1>4, LenProperties DEF Seq
  <1> HIDE DEF ss
  <1>6. flat \in Seq(Libs) /\ \E owner : Owned(flat, owner, ss, Len(ss))
    BY <1>5, FlattenOwners
  <1> HIDE DEF flat
  <1>7. PICK owner : Owned(flat, owner, ss, l)
    BY <1>5, <1>6
  <1> DEFINE of == [p \in 1 .. Len(flat) |-> l - owner[p] + 1]
  <1>8. \A p \in 1 .. Len(flat) : owner[p] \in 1 .. l /\ l - owner[p] + 1 \in 1 .. l
    <2>1. \A p \in 1 .. Len(flat) : owner[p] \in 1 .. l
      BY <1>7 DEF Owned
    <2> HIDE DEF l
    <2> QED BY <1>2, <2>1
  <1>9. of \in [1 .. Len(flat) -> 1 .. l]
    BY <1>8
  <1>10. \A p \in 1 .. Len(flat) : flat[p] \in ToSet(chain[of[p]].libraries)
    BY <1>4, <1>7, <1>8 DEF Owned
  <1>11. ASSUME NEW p \in 1 .. Len(flat), NEW q \in 1 .. Len(flat), p <= q PROVE of[q] <= of[p]
    <2>1. owner[p] <= owner[q]
      BY <1>7, <1>11 DEF Owned
    <2> HIDE DEF l
    <2> QED BY <1>2, <1>8, <2>1
  <1>12. ASSUME NEW k \in 1 .. l, NEW x \in ToSet(chain[k].libraries)
         PROVE  \E p \in 1 .. Len(flat) : flat[p] = x /\ of[p] = k
    <2> HIDE DEF l
    <2>1. l - k + 1 \in 1 .. l /\ l - (l - k + 1) + 1 = k
      BY <1>2
    <2>2. ss[l - k + 1] = chain[k].libraries
      BY <1>4, <2>1
    <2>3. PICK p \in 1 .. Len(flat) : flat[p] = x /\ owner[p] = l - k + 1
      <3> DEFINE m == l - k + 1
      <3>1. m \in 1 .. l /\ x \in ToSet(ss[m])
        BY <1>12, <2>1, <2>2
      <3> HIDE DEF m
      <3>2. \E p \in 1 .. Len(flat) : flat[p] = x /\ owner[p] = m
        BY <1>7, <3>1 DEF Owned
      <3> QED BY <3>2 DEF m
    <2> QED BY <2>1, <2>3
  <1> HIDE DEF of
  <1>13. \E g \in [1 .. Len(flat) -> 1 .. l] :
           /\ \A p \in 1 .. Len(flat) : flat[p] \in ToSet(chain[g[p]].libraries)
           /\ \A p, q \in 1 .. Len(flat) : p <= q => g[q] <= g[p]
           /\ \A k \in 1 .. l : \A x \in ToSet(chain[k].libraries) :
                \E p \in 1 .. Len(flat) : flat[p] = x /\ g[p] = k
    BY <1>9, <1>10, <1>11, <1>12
  <1> QED BY <1>1, <1>6, <1>13 DEF flat, ss

LEMMA ChainOverrides ==
  ASSUME ChainInv
  PROVE  /\ Resolved.libraries \in Seq(Libs)
         /\ \A i, j \in DOMAIN Resolved.libraries :
              NameOf(Resolved.libraries[i]) = NameOf(Resolved.libraries[j]) => i = j
         /\ \A k \in DOMAIN chain : \A lib \in ToSet(chain[k].libraries) :
              \/ lib \in ToSet(Resolved.libraries)
              \/ \E n \in 1 .. k : \E l \in ToSet(chain[n].libraries) :
                   l \in ToSet(Resolved.libraries) /\ NameOf(l) = NameOf(lib)
  <1> DEFINE rs   == Reverse(chain)
             flat == FlattenSeq([i \in DOMAIN rs |-> rs[i].libraries])
             libs == Resolved.libraries
  <1>1. libs = FoldLeft(MergeLibrary, <<>>, flat) /\ flat \in Seq(Libs)
    BY ChainLibraries
  <1>2. PICK of \in [1 .. Len(flat) -> 1 .. Len(chain)] :
          /\ \A p \in 1 .. Len(flat) : flat[p] \in ToSet(chain[of[p]].libraries)
          /\ \A p, q \in 1 .. Len(flat) : p <= q => of[q] <= of[p]
          /\ \A k \in 1 .. Len(chain) : \A x \in ToSet(chain[k].libraries) :
               \E p \in 1 .. Len(flat) : flat[p] = x /\ of[p] = k
    BY ChainLibraries
  <1> HIDE DEF flat, libs
  <1>3. libs \in Seq(Libs) /\ LastStays(flat, Len(flat), libs)
    BY <1>1, MergedLibraries
  <1>4. DOMAIN libs = 1 .. Len(libs) /\ DOMAIN chain = 1 .. Len(chain) /\ Len(flat) \in Nat
        /\ Len(chain) \in Nat
    BY <1>1, <1>3, Indices DEF ChainInv
  <1>5. \A i, j \in DOMAIN libs : NameOf(libs[i]) = NameOf(libs[j]) => i = j
    BY <1>3, <1>4 DEF LastStays, Distinct
  <1>6. ASSUME NEW k \in DOMAIN chain, NEW lib \in ToSet(chain[k].libraries)
        PROVE  \E n \in 1 .. k : \E l \in ToSet(chain[n].libraries) :
                 l \in ToSet(libs) /\ NameOf(l) = NameOf(lib)
    <2>1. PICK p \in 1 .. Len(flat) : flat[p] = lib /\ of[p] = k
      BY <1>2, <1>4
    <2>2. PICK q \in p .. Len(flat) : flat[q] \in ToSet(libs) /\ NameOf(flat[q]) = NameOf(flat[p])
      BY <1>3, <2>1 DEF LastStays
    <2>3. q \in 1 .. Len(flat) /\ p <= q
      BY <1>4
    <2>4. of[q] <= k /\ of[q] \in 1 .. Len(chain) /\ k \in Nat
      BY <1>2, <1>4, <2>1, <2>3
    <2>5. of[q] \in 1 .. k
      BY <1>4, <2>4
    <2>6. flat[q] \in ToSet(chain[of[q]].libraries)
      BY <1>2, <2>3
    <2> QED BY <2>1, <2>2, <2>5, <2>6
  <1> QED BY <1>3, <1>5, <1>6 DEF libs
-----------------------------------------------------------------------------
(* The invariant: the chain is of published versions, and what each check  *)
(* of prepare found stays so while nothing is lost.                        *)
JavaThere == JavaExe(options) \in disk
Whole     == RuntimeComplete(options, disk)
Entries   == Classpath(Resolved, options, disk)

ChecksHold ==
  lost = {} =>
    /\ strict /\ pc \in {"runtime", "classpath", "verify", "dirs", "build", "prepared"} =>
         JavaThere
    /\ strict /\ options.runtime /\ pc \in {"classpath", "verify", "dirs", "build", "prepared"} =>
         Whole
    /\ pc \in {"verify", "dirs", "build", "prepared"} => classpath = Entries
    /\ strict /\ pc \in {"dirs", "build", "prepared"} => ToSet(classpath) \subseteq disk
    /\ pc = "refused" /\ why = "classpath missing" =>
         classpath = Entries /\ ~(ToSet(classpath) \subseteq disk)

ChoiceInv == options \in Options /\ strict \in BOOLEAN

LEMMA ChainStep == ASSUME ChainInv, [Next]_vars PROVE ChainInv'
  <1>1. ASSUME NEW id \in DOMAIN File
        PROVE  Append(chain, ParseVersion(File[id])) \in Seq(Parsed)
               /\ <<ParseVersion(File[id])>> \in Seq(Parsed)
    <2>1. ParseVersion(File[id]) \in Parsed
      BY DEF Parsed
    <2> HIDE DEF Parsed
    <2> QED BY <2>1 DEF ChainInv
  <1>2. CASE FetchVersion
    BY <1>1, <1>2 DEF FetchVersion, ChainInv, Fails
  <1>3. CASE Preview
    BY <1>1, <1>3 DEF Preview, ChainInv
  <1>4. ASSUME ~FetchVersion, ~Preview PROVE UNCHANGED chain
    BY <1>4 DEF Next, vars, FetchFails, Download, Lose, Prepare, CheckOptions, PreflightJava,
                PreflightRuntime, BuildClasspath, VerifyPresent, CreateDirs, BuildCommand, Stay,
                Refuse, Pass
  <1> QED BY <1>2, <1>3, <1>4 DEF ChainInv

LEMMA ChoiceStep == ASSUME ChoiceInv, [Next]_vars PROVE ChoiceInv'
  <1> UNCHANGED inputs
    BY DEF Next, vars, inputs, FetchVersion, FetchFails, Preview, Download, Lose, Prepare,
           CheckOptions, PreflightJava, PreflightRuntime, BuildClasspath, VerifyPresent, CreateDirs,
           BuildCommand, Stay, Refuse, Pass
  <1> QED BY DEF ChoiceInv, inputs

LEMMA ChecksStep == ASSUME ChoiceInv, ChecksHold, [Next]_vars PROVE ChecksHold'
  <1> USE DEF ChecksHold, inputs
  <1>1. CASE FetchVersion
    BY <1>1 DEF FetchVersion, Fails
  <1>2. CASE FetchFails
    BY <1>2 DEF FetchFails, Fails
  <1>3. CASE Preview
    BY <1>3 DEF Preview
  <1>4. CASE Download
    BY <1>4 DEF Download
  <1>5. CASE Lose
    <2>1. lost' # {}
      BY <1>5 DEF Lose
    <2> QED BY <2>1
  <1>6. CASE Prepare
    BY <1>6 DEF Prepare
  <1>7. ASSUME UNCHANGED <<options, strict, chain, disk>>
        PROVE  UNCHANGED <<JavaThere, Whole, Entries>>
    BY <1>7 DEF Resolved, JavaThere, Whole, Entries
  <1>8. CASE CheckOptions
    BY <1>7, <1>8 DEF CheckOptions, Refuse, Pass
  <1>9. CASE PreflightJava
    BY <1>7, <1>9 DEF PreflightJava, Refuse, Pass, JavaThere
  <1>10. CASE PreflightRuntime
    BY <1>7, <1>10 DEF PreflightRuntime, Refuse, Pass, Whole
  <1>11. CASE BuildClasspath
    <2>1. \/ classpath' = Entries /\ pc' = (IF strict THEN "verify" ELSE "build")
          \/ Refuse("runtime incomplete")
      BY <1>11 DEF BuildClasspath, Entries
    <2>2. UNCHANGED <<options, strict, chain, disk, lost>> /\ pc = "classpath"
      BY <1>11 DEF BuildClasspath, Refuse
    <2> QED BY <1>7, <2>1, <2>2 DEF Refuse
  <1>12. CASE VerifyPresent
    BY <1>7, <1>12 DEF VerifyPresent, Refuse, Pass
  <1>13. CASE CreateDirs
    BY <1>7, <1>13 DEF CreateDirs, Refuse, Pass
  <1>14. CASE BuildCommand
    <2> DEFINE e == BuildError(Resolved, options, disk)
    <2>1. /\ UNCHANGED <<options, strict, chain, disk, lost, classpath>> /\ pc = "build"
          /\ pc' = "prepared" \/ (pc' = "refused" /\ why' = e)
      BY <1>14 DEF BuildCommand, Refuse
    <2>2. e # "classpath missing"
      BY DEF BuildError
    <2> HIDE DEF e
    <2> QED BY <1>7, <2>1, <2>2
  <1>15. CASE UNCHANGED vars
    BY <1>7, <1>15 DEF vars
  <1> QED BY <1>1, <1>2, <1>3, <1>4, <1>5, <1>6, <1>8, <1>9, <1>10, <1>11, <1>12, <1>13, <1>14, <1>15
          DEF Next, Stay

LaunchInv == ChainInv /\ ChoiceInv /\ ChecksHold

LEMMA LaunchInvHolds == Spec => []LaunchInv
  <1>1. Init => LaunchInv
    <2>1. <<>> \in Seq(Parsed)
      BY EmptySeq
    <2> QED BY <2>1, LaunchAssumption
            DEF Init, LaunchInv, ChainInv, ChoiceInv, ChecksHold, LaunchAssumption
  <1>2. LaunchInv /\ [Next]_vars => LaunchInv'
    BY ChainStep, ChoiceStep, ChecksStep DEF LaunchInv
  <1> QED BY <1>1, <1>2, PTL DEF Spec

(* Every library of a chain is in the merged version as the version        *)
(* nearest to the leaf declares it, and none is twice (version.rs).        *)
THEOREM ChildOverridesHolds == Spec => []ChildOverrides
  <1>1. LaunchInv => ChildOverrides
    BY ChainOverrides DEF LaunchInv, ChildOverrides
  <1> QED BY <1>1, LaunchInvHolds, PTL
-----------------------------------------------------------------------------
(* The jars: one of each artifact, and of its versions the highest.        *)
CollapseRun(A, E, base, s, v) ==
  \E F \in [A \X E -> A] : /\ \A a \in A, e \in E : F[<<a, e>>] = Collapse(a, e)
                          /\ RunEnds(A, v, base, F, s)
CollapseStays(A, E) == \A a \in A, e \in E : Collapse(a, e) \in A

LEMMA CollapseRuns ==
  ASSUME NEW A, NEW E, NEW base \in A, NEW s \in Seq(E), CollapseStays(A, E)
  PROVE  CollapseRun(A, E, base, s, FoldLeft(Collapse, base, s))
  <1> DEFINE F == [p \in A \X E |-> Collapse(p[1], p[2])]
             Is(f) == f = [x \in SUBSET DOMAIN s |->
                             IF x = {} THEN base ELSE Collapse(f[x \ {Max(x)}], s[Max(x)])]
             it == CHOOSE f : Is(f)
  <1>1. F \in [A \X E -> A] /\ \A a \in A, e \in E : F[<<a, e>>] = Collapse(a, e)
    BY DEF CollapseStays
  <1>2. FoldLeft(Collapse, base, s) = it[DOMAIN s]
    BY DEF FoldLeft, MapThenFoldSet
  <1> HIDE DEF F
  <1>3. PICK f \in [SUBSET DOMAIN s -> A] : IsFold(f, base, F, s)
    BY <1>1, FoldExists
  <1>4. \A x \in SUBSET DOMAIN s :
          f[x] = IF x = {} THEN base ELSE Collapse(f[x \ {Max(x)}], s[Max(x)])
    BY <1>1, <1>3, LastPlace DEF IsFold
  <1>5. Is(f)
    BY <1>4
  <1>6. Is(it)
    BY <1>5
  <1> HIDE DEF it
  <1>7. FoldsIn(A, it, base, F, s)
    <2>1. \A x \in SUBSET DOMAIN s :
            x # {} => s[Max(x)] \in E /\ x \ {Max(x)} \in SUBSET DOMAIN s
      BY LastPlace
    <2> QED BY <1>1, <1>6, <2>1 DEF FoldsIn
  <1>8. RunEnds(A, it[DOMAIN s], base, F, s)
    BY <1>1, <1>7, FoldRuns
  <1> QED BY <1>1, <1>2, <1>8 DEF CollapseRun

LEMMA Appended ==
  ASSUME NEW E, NEW s \in Seq(E), NEW e \in E
  PROVE  /\ Append(s, e) \in Seq(E) /\ Len(Append(s, e)) = Len(s) + 1
         /\ \A i \in 1 .. Len(s) : Append(s, e)[i] = s[i]
         /\ Append(s, e)[Len(s) + 1] = e
         /\ ToSet(Append(s, e)) = ToSet(s) \cup {e}
  <1> DEFINE t == Append(s, e)
  <1>1. Len(s) \in Nat /\ DOMAIN s = 1 .. Len(s)
    BY Indices
  <1>2. t \in Seq(E) /\ Len(t) = Len(s) + 1
    BY AppendProperties
  <1>3. DOMAIN t = 1 .. Len(s) + 1
    BY <1>2, Indices
  <1>4. \A i \in 1 .. Len(s) : t[i] = s[i]
    BY AppendProperties
  <1>5. t[Len(s) + 1] = e
    BY AppendProperties
  <1> HIDE DEF t
  <1>6. \A i \in 1 .. Len(s) + 1 : i \in 1 .. Len(s) \/ i = Len(s) + 1
    BY <1>1
  <1>7. \A i \in 1 .. Len(s) : i \in 1 .. Len(s) + 1
    BY <1>1
  <1>8. Len(s) + 1 \in 1 .. Len(s) + 1
    BY <1>1
  <1>9. ToSet(t) = ToSet(s) \cup {e}
    BY <1>1, <1>3, <1>4, <1>5, <1>6, <1>7, <1>8 DEF ToSet
  <1> QED BY <1>2, <1>4, <1>5, <1>9 DEF t

LEMMA Replaced ==
  ASSUME NEW E, NEW s \in Seq(E), NEW e \in E, NEW k \in 1 .. Len(s), NEW t, t = [s EXCEPT ![k] = e]
  PROVE  /\ t \in Seq(E) /\ Len(t) = Len(s) /\ t[k] = e
         /\ \A i \in 1 .. Len(s) : i # k => t[i] = s[i]
         /\ e \in ToSet(t)
  <1>1. Len(s) \in Nat /\ DOMAIN s = 1 .. Len(s)
    BY Indices
  <1>2. t \in Seq(E) /\ Len(t) = Len(s)
    BY ExceptSeq
  <1>3. DOMAIN t = 1 .. Len(s) /\ t[k] = e /\ \A i \in 1 .. Len(s) : i # k => t[i] = s[i]
    BY <1>1
  <1>4. e \in ToSet(t)
    BY <1>1, <1>3 DEF ToSet
  <1> QED BY <1>2, <1>3, <1>4

JarPlaces(jars, ga) == {i \in 1 .. Len(jars) : jars[i].ga = ga}
OneEach(jars) == \A i, j \in 1 .. Len(jars) : jars[i].ga = jars[j].ga => i = j
Covers(jars, lib) == \E j \in ToSet(jars) : j.ga = lib.ga /\ ~VersionLess(j.v, lib.v)

LEMMA CollapseIs ==
  ASSUME NEW E, NEW jars \in Seq(E), NEW lib \in E
  PROVE  \/ JarPlaces(jars, lib.ga) = {} /\ Collapse(jars, lib) = Append(jars, lib)
         \/ \E i \in JarPlaces(jars, lib.ga) :
              Collapse(jars, lib) = IF VersionLess(jars[i].v, lib.v) THEN [jars EXCEPT ![i] = lib]
                                    ELSE jars
  <1> DEFINE I == {i \in 1 .. Len(jars) : jars[i].ga = lib.ga}
  <1>1. SelectInSeq(jars, LAMBDA j : j.ga = lib.ga) = IF I # {} THEN Min(I) ELSE 0
    BY DEF SelectInSeq
  <1>2. I \in SUBSET Nat /\ 0 \notin I /\ I = JarPlaces(jars, lib.ga)
    <2>1. Len(jars) \in Nat
      BY Indices
    <2> QED BY <2>1 DEF JarPlaces
  <1> DEFINE i == SelectInSeq(jars, LAMBDA j : j.ga = lib.ga)
  <1>3. Collapse(jars, lib) = IF i = 0 THEN Append(jars, lib)
                              ELSE IF VersionLess(jars[i].v, lib.v) THEN [jars EXCEPT ![i] = lib]
                              ELSE jars
    BY DEF Collapse
  <1> HIDE DEF I, i
  <1>4. CASE I = {}
    <2>1. i = 0
      BY <1>1, <1>4 DEF i
    <2> QED BY <1>2, <1>3, <1>4, <2>1
  <1>5. CASE I # {}
    <2>1. i = Min(I) /\ Min(I) \in I
      BY <1>1, <1>2, <1>5, MinOfSome DEF i
    <2>2. i # 0 /\ i \in JarPlaces(jars, lib.ga)
      BY <1>2, <2>1
    <2> QED BY <1>3, <2>2
  <1> QED BY <1>4, <1>5

LEMMA CollapseKeeps ==
  ASSUME NEW E, NEW jars \in Seq(E), NEW lib \in E
  PROVE  /\ Collapse(jars, lib) \in Seq(E)
         /\ OneEach(jars) => OneEach(Collapse(jars, lib))
         /\ VersionsOrdered(E) =>
              /\ Covers(Collapse(jars, lib), lib)
              /\ \A l \in E : Covers(jars, l) => Covers(Collapse(jars, lib), l)
  <1> DEFINE new == Collapse(jars, lib)
  <1>1. Len(jars) \in Nat /\ DOMAIN jars = 1 .. Len(jars) /\ \A i \in 1 .. Len(jars) : jars[i] \in E
    BY Indices
  <1>2. CASE JarPlaces(jars, lib.ga) = {} /\ new = Append(jars, lib)
    <2> HIDE DEF new
    <2>1. /\ new \in Seq(E) /\ Len(new) = Len(jars) + 1 /\ ToSet(new) = ToSet(jars) \cup {lib}
          /\ \A i \in 1 .. Len(jars) : new[i] = jars[i]
          /\ new[Len(jars) + 1] = lib
      BY <1>2, Appended
    <2>2. \A i \in 1 .. Len(jars) : jars[i].ga # lib.ga
      BY <1>2 DEF JarPlaces
    <2>3. ASSUME OneEach(jars), NEW i \in 1 .. Len(jars) + 1, NEW j \in 1 .. Len(jars) + 1,
                 new[i].ga = new[j].ga
          PROVE  i = j
      <3>1. i \in 1 .. Len(jars) \/ i = Len(jars) + 1
        BY <1>1
      <3>2. j \in 1 .. Len(jars) \/ j = Len(jars) + 1
        BY <1>1
      <3> QED BY <2>1, <2>2, <2>3, <3>1, <3>2 DEF OneEach
    <2>4. OneEach(jars) => OneEach(new)
      BY <2>1, <2>3 DEF OneEach
    <2>5. VersionsOrdered(E) => Covers(new, lib)
      BY <2>1 DEF Covers, VersionsOrdered
    <2>6. \A l : Covers(jars, l) => Covers(new, l)
      BY <2>1 DEF Covers
    <2> QED BY <2>1, <2>4, <2>5, <2>6 DEF new
  <1>3. ASSUME NEW i \in JarPlaces(jars, lib.ga), VersionLess(jars[i].v, lib.v),
               new = [jars EXCEPT ![i] = lib]
        PROVE  /\ new \in Seq(E) /\ (OneEach(jars) => OneEach(new))
               /\ VersionsOrdered(E) =>
                    Covers(new, lib) /\ \A l \in E : Covers(jars, l) => Covers(new, l)
    <2>1. i \in 1 .. Len(jars) /\ jars[i].ga = lib.ga
      BY DEF JarPlaces
    <2> HIDE DEF new
    <2>2. /\ new \in Seq(E) /\ Len(new) = Len(jars) /\ new[i] = lib /\ lib \in ToSet(new)
          /\ \A j \in 1 .. Len(jars) : j # i => new[j] = jars[j]
          /\ \A x \in ToSet(jars) : x \in ToSet(new) \/ x = jars[i]
      <3>1. i \in 1 .. Len(jars) /\ new = [jars EXCEPT ![i] = lib]
        BY <1>3, <2>1
      <3>2. new \in Seq(E) /\ Len(new) = Len(jars)
        BY <3>1, Replaced
      <3>3. new[i] = lib /\ \A j \in 1 .. Len(jars) : j # i => new[j] = jars[j]
        BY <3>1, Replaced
      <3>4. lib \in ToSet(new)
        BY <3>1, Replaced
      <3>5. \A x \in ToSet(jars) : x \in ToSet(new) \/ x = jars[i]
        <4>1. DOMAIN new = 1 .. Len(jars)
          BY <3>2, Indices
        <4> QED BY <1>1, <3>1, <3>3, <4>1 DEF ToSet
      <3> QED BY <3>2, <3>3, <3>4, <3>5
    <2>3. \A j \in 1 .. Len(jars) : new[j].ga = jars[j].ga
      BY <2>1, <2>2
    <2>4. OneEach(jars) => OneEach(new)
      BY <2>2, <2>3 DEF OneEach
    <2>5. ASSUME VersionsOrdered(E), NEW l \in E, Covers(jars, l) PROVE Covers(new, l)
      <3>1. PICK j \in ToSet(jars) : j.ga = l.ga /\ ~VersionLess(j.v, l.v)
        BY <2>5 DEF Covers
      <3>2. CASE j \in ToSet(new)
        BY <3>1, <3>2 DEF Covers
      <3>3. CASE j = jars[i]
        <4>1. ~VersionLess(lib.v, l.v)
          BY <1>1, <1>3, <2>1, <2>5, <3>1, <3>3 DEF VersionsOrdered
        <4> QED BY <2>1, <2>2, <3>1, <3>3, <4>1 DEF Covers
      <3> QED BY <2>2, <3>1, <3>2, <3>3
    <2>6. VersionsOrdered(E) => Covers(new, lib)
      BY <2>2 DEF Covers, VersionsOrdered
    <2> QED BY <2>2, <2>4, <2>5, <2>6
  <1>4. ASSUME NEW i \in JarPlaces(jars, lib.ga), ~VersionLess(jars[i].v, lib.v), new = jars
        PROVE  Covers(new, lib)
    <2> HIDE DEF new
    <2>1. jars[i].ga = lib.ga /\ jars[i] \in ToSet(jars)
      BY <1>1 DEF JarPlaces, ToSet
    <2> QED BY <1>4, <2>1 DEF Covers
  <1>5. \/ JarPlaces(jars, lib.ga) = {} /\ new = Append(jars, lib)
        \/ \E i \in JarPlaces(jars, lib.ga) :
             new = IF VersionLess(jars[i].v, lib.v) THEN [jars EXCEPT ![i] = lib] ELSE jars
    BY CollapseIs
  <1> HIDE DEF new
  <1>6. /\ new \in Seq(E) /\ (OneEach(jars) => OneEach(new))
        /\ VersionsOrdered(E) =>
             Covers(new, lib) /\ \A l \in E : Covers(jars, l) => Covers(new, l)
    BY <1>2, <1>3, <1>4, <1>5 DEF new
  <1> QED BY <1>6 DEF new
-----------------------------------------------------------------------------
(* The parts of a class path.                                              *)
LEMMA SetAsSequence ==
  ASSUME NEW S, IsFiniteSet(S)
  PROVE  SetToSeq(S) \in Seq(S) /\ ToSet(SetToSeq(S)) = S
  <1> DEFINE n == Cardinality(S)
             s == SetToSeq(S)
  <1>1. n \in Nat /\ ExistsBijection(1 .. n, S)
    BY FS_CardinalityType
  <1>2. \E f \in [1 .. n -> S] : IsInjective(f)
    BY <1>1 DEF ExistsBijection, Bijection, Injection
  <1>3. s \in [1 .. n -> S] /\ IsInjective(s)
    BY <1>2 DEF SetToSeq
  <1> HIDE DEF s
  <1>4. IsFiniteSet(1 .. n) /\ Cardinality(1 .. n) = n
    BY <1>1, FS_Interval
  <1>5. s \in Injection(1 .. n, S)
    BY <1>3 DEF Injection
  <1>6. s \in Surjection(1 .. n, S)
    BY <1>4, <1>5, FS_Injection
  <1>7. s \in Seq(S)
    BY <1>1, <1>3 DEF Seq
  <1>8. ToSet(s) = S
    BY <1>3, <1>6 DEF ToSet, Surjection
  <1> QED BY <1>7, <1>8 DEF s

LEMMA Concatenated ==
  ASSUME NEW E, NEW s \in Seq(E), NEW t \in Seq(E)
  PROVE  s \o t \in Seq(E) /\ ToSet(s \o t) = ToSet(s) \cup ToSet(t)
  <1> DEFINE u == s \o t
  <1>1. /\ u \in Seq(E) /\ Len(u) = Len(s) + Len(t)
        /\ \A p \in 1 .. Len(s) + Len(t) : u[p] = IF p <= Len(s) THEN s[p] ELSE t[p - Len(s)]
    BY ConcatProperties
  <1>2. /\ Len(s) \in Nat /\ Len(t) \in Nat
        /\ DOMAIN s = 1 .. Len(s) /\ DOMAIN t = 1 .. Len(t) /\ DOMAIN u = 1 .. Len(s) + Len(t)
    BY <1>1, Indices
  <1> HIDE DEF u
  <1>3. ASSUME NEW p \in DOMAIN u PROVE u[p] \in ToSet(s) \cup ToSet(t)
    <2>1. CASE p <= Len(s)
      <3>1. p \in DOMAIN s /\ u[p] = s[p]
        BY <1>1, <1>2, <2>1
      <3> QED BY <3>1 DEF ToSet
    <2>2. CASE ~(p <= Len(s))
      <3>1. p - Len(s) \in DOMAIN t /\ u[p] = t[p - Len(s)]
        BY <1>1, <1>2, <2>2
      <3> QED BY <3>1 DEF ToSet
    <2> QED BY <2>1, <2>2
  <1>4. ASSUME NEW p \in DOMAIN s PROVE s[p] \in ToSet(u)
    <2>1. p \in DOMAIN u /\ u[p] = s[p]
      BY <1>1, <1>2
    <2> QED BY <2>1 DEF ToSet
  <1>5. ASSUME NEW p \in DOMAIN t PROVE t[p] \in ToSet(u)
    <2>1. p + Len(s) \in DOMAIN u /\ u[p + Len(s)] = t[p]
      <3>1. p + Len(s) \in 1 .. Len(s) + Len(t) /\ ~(p + Len(s) <= Len(s)) /\ (p + Len(s)) - Len(s) = p
        BY <1>2
      <3> QED BY <1>1, <1>2, <3>1
    <2> QED BY <2>1 DEF ToSet
  <1>6. ToSet(u) = ToSet(s) \cup ToSet(t)
    BY <1>3, <1>4, <1>5 DEF ToSet
  <1> QED BY <1>1, <1>6 DEF u

OnPath(resolved, o) == {l \in ToSet(resolved.libraries) : OnClasspath(l, o)}
Picked(resolved, o) ==
  Subsequence(resolved.libraries, {i \in DOMAIN resolved.libraries : OnClasspath(resolved.libraries[i], o)})
Jars(resolved, o) == FoldLeft(Collapse, <<>>, Picked(resolved, o))

(* A library that belongs there is among those that are collapsed.         *)
LEMMA PickedAre ==
  ASSUME NEW E, NEW resolved, resolved.libraries \in Seq(E), NEW o
  PROVE  Picked(resolved, o) \in Seq(OnPath(resolved, o)) /\ ToSet(Picked(resolved, o)) = OnPath(resolved, o)
  <1> DEFINE s == resolved.libraries
             I == {i \in DOMAIN s : OnClasspath(s[i], o)}
             t == Subsequence(s, I)
             W == OnPath(resolved, o)
  <1>1. DOMAIN s = 1 .. Len(s) /\ Len(s) \in Nat
    BY Indices
  <1>2. t \in Seq(E) /\ \E e : Picks(e, t, s, I)
    BY <1>1, SubsequencePicks
  <1> HIDE DEF t
  <1>3. PICK e : Picks(e, t, s, I)
    BY <1>2
  <1>4. DOMAIN t = 1 .. Len(t) /\ Len(t) \in Nat
    BY <1>2, Indices
  <1>5. ToSet(t) = W
    <2>1. ASSUME NEW k \in DOMAIN t PROVE t[k] \in W
      <3>1. e[k] \in I /\ t[k] = s[e[k]]
        BY <1>3, <1>4, <2>1 DEF Picks
      <3> QED BY <3>1 DEF OnPath, ToSet
    <2>2. ASSUME NEW l \in W PROVE \E k \in DOMAIN t : t[k] = l
      <3>1. PICK i \in I : s[i] = l
        BY DEF OnPath, ToSet
      <3>2. PICK k \in 1 .. Len(t) : e[k] = i
        BY <1>3, <3>1 DEF Picks
      <3>3. t[k] = s[e[k]]
        BY <1>3 DEF Picks
      <3> QED BY <1>4, <3>1, <3>2, <3>3
    <2> HIDE DEF W
    <2> QED BY <2>1, <2>2 DEF ToSet
  <1>6. t \in [1 .. Len(t) -> W]
    <2>1. t = [i \in 1 .. Len(t) |-> t[i]]
      BY <1>2, <1>4
    <2>2. \A i \in 1 .. Len(t) : t[i] \in W
      BY <1>4, <1>5 DEF ToSet
    <2> HIDE DEF W
    <2> QED BY <2>1, <2>2
  <1>7. t \in Seq(W)
    BY <1>4, <1>6 DEF Seq
  <1> QED BY <1>5, <1>7 DEF t, W, Picked
(* Of the jars of one artifact the highest stays.                          *)
NewestStay(s, n, jars, E) ==
  OneEach(jars) /\ (VersionsOrdered(E) => \A p \in 1 .. n : Covers(jars, s[p]))

LEMMA CollapsedJars ==
  ASSUME NEW E, NEW s \in Seq(E)
  PROVE  /\ FoldLeft(Collapse, <<>>, s) \in Seq(E)
         /\ NewestStay(s, Len(s), FoldLeft(Collapse, <<>>, s), E)
  <1> DEFINE A == Seq(E)
             v == FoldLeft(Collapse, <<>>, s)
             G == {x \in (0 .. Len(s)) \X A : NewestStay(s, x[1], x[2], E)}
  <1>1. <<>> \in A /\ CollapseStays(A, E)
    BY CollapseKeeps DEF CollapseStays
  <1>2. Len(s) \in Nat /\ \A i \in 1 .. Len(s) : s[i] \in E
    BY Indices
  <1>3. PICK F \in [A \X E -> A] :
            /\ \A a \in A, e \in E : F[<<a, e>>] = Collapse(a, e)
            /\ RunEnds(A, v, <<>>, F, s)
    <2> HIDE DEF A
    <2>1. CollapseRun(A, E, <<>>, s, FoldLeft(Collapse, <<>>, s))
      BY <1>1, CollapseRuns
    <2> QED BY <2>1 DEF CollapseRun
  <1>4. <<0, <<>>>> \in G
    <2>1. NewestStay(s, 0, <<>>, E)
      BY DEF NewestStay, OneEach
    <2>2. 0 \in 0 .. Len(s)
      BY <1>2
    <2> DEFINE e == <<>>
    <2>3. e \in A /\ NewestStay(s, 0, e, E)
      BY <1>1, <2>1
    <2> HIDE DEF e, A
    <2>4. <<0, e>> \in G
      BY <2>2, <2>3
    <2> QED BY <2>4 DEF e
  <1>5. ASSUME NEW n \in 1 .. Len(s), NEW a \in A, <<n - 1, a>> \in G
        PROVE  <<n, F[<<a, s[n]>>]>> \in G
    <2>1. s[n] \in E /\ n \in 0 .. Len(s) /\ n \in Nat /\ \A p \in 1 .. n : s[p] \in E
      BY <1>2
    <2>2. F[<<a, s[n]>>] = Collapse(a, s[n])
      BY <1>3, <2>1
    <2> DEFINE b == Collapse(a, s[n])
    <2>3. NewestStay(s, n - 1, a, E)
      BY <1>5
    <2>4. b \in A /\ (OneEach(a) => OneEach(b))
      BY <2>1, CollapseKeeps
    <2>5. ASSUME VersionsOrdered(E)
          PROVE  Covers(b, s[n]) /\ \A l \in E : Covers(a, l) => Covers(b, l)
      BY <2>1, <2>5, CollapseKeeps
    <2> HIDE DEF b, G
    <2>6. ASSUME VersionsOrdered(E), NEW p \in 1 .. n PROVE Covers(b, s[p])
      <3>1. CASE p = n
        BY <2>5, <2>6, <3>1
      <3>2. CASE p # n
        <4>1. p \in 1 .. n - 1
          BY <2>1, <3>2
        <4> QED BY <2>1, <2>3, <2>5, <2>6, <4>1 DEF NewestStay
      <3> QED BY <3>1, <3>2
    <2>7. NewestStay(s, n, b, E)
      BY <2>3, <2>4, <2>6 DEF NewestStay
    <2> QED BY <2>1, <2>2, <2>4, <2>7 DEF G, b
  <1> HIDE DEF A, v
  <1>6. <<Len(s), v>> \in G /\ v \in A
    <2> HIDE DEF G
    <2>1. Kept(G, A, F, s)
      BY <1>5 DEF Kept
    <2> QED BY <1>1, <1>3, <1>4, <2>1, RunKeeps
  <1> QED BY <1>6 DEF v, A

JarFiles(resolved, o)  == {MavenPath(j, "") : j \in ToSet(Jars(resolved, o))}
LwjglPart(o, disk_)    == IF o.runtime THEN LwjglJars(o, disk_) ELSE {}
CacioOf(o)             == IF o.runtime /\ o.cacio THEN Backend(o) ELSE "headless"
CacioPart(o, disk_)    ==
  {CacioFile(CacioOf(o), f) : f \in CacioThere(CacioOf(o), disk_, "classpath")}

LEMMA Wider == ASSUME NEW S, NEW E, S \subseteq E, NEW s \in Seq(S) PROVE s \in Seq(E)
  OBVIOUS

LEMMA ClasspathIs ==
  ASSUME NEW E, NEW resolved, resolved.libraries \in Seq(E), NEW o, NEW d, IsFiniteSet(d)
  PROVE  /\ Last(Classpath(resolved, o, d)) = ClientJar(resolved.id)
         /\ ToSet(Classpath(resolved, o, d)) =
              JarFiles(resolved, o) \cup LwjglPart(o, d) \cup CacioPart(o, d) \cup {ClientJar(resolved.id)}
  <1> DEFINE jars == Jars(resolved, o)
             W == OnPath(resolved, o)
             a == [i \in DOMAIN jars |-> MavenPath(jars[i], "")]
             l == IF o.runtime THEN SetToSeq(LwjglJars(o, d)) ELSE <<>>
             c == SetToSeq(CacioPart(o, d))
             z == <<ClientJar(resolved.id)>>
             P == JarFiles(resolved, o) \cup LwjglPart(o, d) \cup CacioPart(o, d) \cup {ClientJar(resolved.id)}
  <1>1. Classpath(resolved, o, d) = ((a \o l) \o c) \o z
    BY DEF Classpath, Jars, Picked, CacioPart, CacioOf
  <1>2. jars \in Seq(W)
    BY PickedAre, CollapsedJars DEF Jars
  <1>3. DOMAIN jars = 1 .. Len(jars) /\ Len(jars) \in Nat
    BY <1>2, Indices
  <1> HIDE DEF jars
  <1>4. a \in Seq(P) /\ ToSet(a) = JarFiles(resolved, o)
    <2>1. ToSet(a) = JarFiles(resolved, o)
      BY DEF ToSet, JarFiles, jars
    <2>2. \A i \in 1 .. Len(jars) : a[i] \in ToSet(a) /\ a[i] \in P
      BY <1>3, <2>1 DEF ToSet
    <2>3. a \in [1 .. Len(jars) -> P]
      <3> HIDE DEF P
      <3> QED BY <1>3, <2>2
    <2> HIDE DEF a, P
    <2> QED BY <1>3, <2>1, <2>3 DEF Seq
  <1>5. l \in Seq(P) /\ ToSet(l) = LwjglPart(o, d)
    <2>1. CASE o.runtime
      <3>1. IsFiniteSet(LwjglJars(o, d))
        <4>1. LwjglJars(o, d) \in SUBSET d
          BY DEF LwjglJars
        <4> QED BY <4>1, FS_Subset
      <3>2. l \in Seq(LwjglPart(o, d)) /\ ToSet(l) = LwjglPart(o, d)
        BY <2>1, <3>1, SetAsSequence DEF LwjglPart
      <3>3. LwjglPart(o, d) \subseteq P
        OBVIOUS
      <3> HIDE DEF l, P
      <3> QED BY <3>2, <3>3, Wider
    <2>2. CASE ~o.runtime
      <3>1. l = <<>> /\ LwjglPart(o, d) = {}
        BY <2>2 DEF LwjglPart
      <3>2. <<>> \in Seq(P) /\ ToSet(<<>>) = {}
        BY DEF ToSet
      <3> QED BY <3>1, <3>2
    <2> QED BY <2>1, <2>2
  <1>6. c \in Seq(P) /\ ToSet(c) = CacioPart(o, d)
    <2>1. IsFiniteSet(CacioPart(o, d))
      <3>1. CacioPart(o, d) \in SUBSET d
        BY DEF CacioPart, CacioThere
      <3> QED BY <3>1, FS_Subset
    <2>2. c \in Seq(CacioPart(o, d)) /\ ToSet(c) = CacioPart(o, d)
      BY <2>1, SetAsSequence
    <2>3. CacioPart(o, d) \subseteq P
      OBVIOUS
    <2> HIDE DEF c, P
    <2> QED BY <2>2, <2>3, Wider
  <1>7. z \in Seq(P) /\ ToSet(z) = {ClientJar(resolved.id)}
    <2>1. ClientJar(resolved.id) \in P
      OBVIOUS
    <2> HIDE DEF P
    <2> QED BY <2>1 DEF ToSet
  <1>8. Len(z) = 1 /\ z[1] = ClientJar(resolved.id)
    OBVIOUS
  <1> HIDE DEF a, l, c, z, P
  <1>9. a \o l \in Seq(P) /\ ToSet(a \o l) = ToSet(a) \cup ToSet(l)
    BY <1>4, <1>5, Concatenated
  <1> DEFINE y == a \o l
             x == y \o c
  <1>10. x \in Seq(P) /\ ToSet(x) = ToSet(y) \cup ToSet(c)
    <2>1. y \in Seq(P)
      BY <1>9
    <2> HIDE DEF y
    <2> QED BY <1>6, <2>1, Concatenated
  <1> HIDE DEF x
  <1>11. x \o z \in Seq(P) /\ ToSet(x \o z) = ToSet(x) \cup ToSet(z)
    BY <1>7, <1>10, Concatenated
  <1>12. Last(x \o z) = ClientJar(resolved.id)
    <2>1. x \in Seq(P)
      BY <1>10
    <2>2. Len(x) \in Nat
      BY <2>1, Indices
    <2>3. /\ Len(x \o z) = Len(x) + Len(z)
          /\ \A p \in 1 .. Len(x) + Len(z) : (x \o z)[p] = IF p <= Len(x) THEN x[p] ELSE z[p - Len(x)]
      BY <1>7, <2>1, ConcatProperties
    <2>4. Len(x) + 1 \in 1 .. Len(x) + Len(z) /\ ~(Len(x) + 1 <= Len(x)) /\ (Len(x) + 1) - Len(x) = 1
      BY <1>8, <2>2
    <2>5. (x \o z)[Len(x) + 1] = z[1]
      BY <2>3, <2>4
    <2> QED BY <1>8, <2>3, <2>5 DEF Last
  <1> QED BY <1>1, <1>4, <1>5, <1>6, <1>7, <1>9, <1>10, <1>11, <1>12 DEF x, P
-----------------------------------------------------------------------------
(* The plan has every item, or another of the same destination.            *)
AddItemRun(A, E, base, s, v) ==
  \E F \in [A \X E -> A] : /\ \A a \in A, e \in E : F[<<a, e>>] = AddItem(a, e)
                          /\ RunEnds(A, v, base, F, s)
AddItemStays(A, E) == \A a \in A, e \in E : AddItem(a, e) \in A

LEMMA AddItemRuns ==
  ASSUME NEW A, NEW E, NEW base \in A, NEW s \in Seq(E), AddItemStays(A, E)
  PROVE  AddItemRun(A, E, base, s, FoldLeft(AddItem, base, s))
  <1> DEFINE F == [p \in A \X E |-> AddItem(p[1], p[2])]
             Is(f) == f = [x \in SUBSET DOMAIN s |->
                             IF x = {} THEN base ELSE AddItem(f[x \ {Max(x)}], s[Max(x)])]
             it == CHOOSE f : Is(f)
  <1>1. F \in [A \X E -> A] /\ \A a \in A, e \in E : F[<<a, e>>] = AddItem(a, e)
    BY DEF AddItemStays
  <1>2. FoldLeft(AddItem, base, s) = it[DOMAIN s]
    BY DEF FoldLeft, MapThenFoldSet
  <1> HIDE DEF F
  <1>3. PICK f \in [SUBSET DOMAIN s -> A] : IsFold(f, base, F, s)
    BY <1>1, FoldExists
  <1>4. \A x \in SUBSET DOMAIN s :
          f[x] = IF x = {} THEN base ELSE AddItem(f[x \ {Max(x)}], s[Max(x)])
    BY <1>1, <1>3, LastPlace DEF IsFold
  <1>5. Is(f)
    BY <1>4
  <1>6. Is(it)
    BY <1>5
  <1> HIDE DEF it
  <1>7. FoldsIn(A, it, base, F, s)
    <2>1. \A x \in SUBSET DOMAIN s :
            x # {} => s[Max(x)] \in E /\ x \ {Max(x)} \in SUBSET DOMAIN s
      BY LastPlace
    <2> QED BY <1>1, <1>6, <2>1 DEF FoldsIn
  <1>8. RunEnds(A, it[DOMAIN s], base, F, s)
    BY <1>1, <1>7, FoldRuns
  <1> QED BY <1>1, <1>2, <1>8 DEF AddItemRun

Holds(plan, dest) == \E i \in ToSet(plan) : i.dest = dest

LEMMA AddItemKeeps ==
  ASSUME NEW E, NEW plan \in Seq(E), NEW item \in E
  PROVE  /\ AddItem(plan, item) \in Seq(E) /\ Holds(AddItem(plan, item), item.dest)
         /\ \A d : Holds(plan, d) => Holds(AddItem(plan, item), d)
  <1>1. CASE Holds(plan, item.dest)
    BY <1>1 DEF Holds, AddItem
  <1>2. CASE ~Holds(plan, item.dest)
    <2>1. AddItem(plan, item) = Append(plan, item)
      BY <1>2 DEF Holds, AddItem
    <2>2. Append(plan, item) \in Seq(E) /\ ToSet(Append(plan, item)) = ToSet(plan) \cup {item}
      BY Appended
    <2> QED BY <2>1, <2>2 DEF Holds
  <1> QED BY <1>1, <1>2

HoldsUpTo(s, n, plan) == \A p \in 1 .. n : Holds(plan, s[p].dest)

LEMMA AddedItems ==
  ASSUME NEW E, NEW s \in Seq(E)
  PROVE  /\ FoldLeft(AddItem, <<>>, s) \in Seq(E)
         /\ HoldsUpTo(s, Len(s), FoldLeft(AddItem, <<>>, s))
  <1> DEFINE A == Seq(E)
             v == FoldLeft(AddItem, <<>>, s)
             G == {x \in (0 .. Len(s)) \X A : HoldsUpTo(s, x[1], x[2])}
  <1>1. <<>> \in A /\ AddItemStays(A, E)
    BY AddItemKeeps DEF AddItemStays
  <1>2. Len(s) \in Nat /\ \A i \in 1 .. Len(s) : s[i] \in E
    BY Indices
  <1>3. PICK F \in [A \X E -> A] :
            /\ \A a \in A, e \in E : F[<<a, e>>] = AddItem(a, e)
            /\ RunEnds(A, v, <<>>, F, s)
    <2> HIDE DEF A
    <2>1. AddItemRun(A, E, <<>>, s, FoldLeft(AddItem, <<>>, s))
      BY <1>1, AddItemRuns
    <2> QED BY <2>1 DEF AddItemRun
  <1>4. <<0, <<>>>> \in G
    <2>1. HoldsUpTo(s, 0, <<>>)
      BY DEF HoldsUpTo
    <2>2. 0 \in 0 .. Len(s)
      BY <1>2
    <2> DEFINE e == <<>>
    <2>3. e \in A /\ HoldsUpTo(s, 0, e)
      BY <1>1, <2>1
    <2> HIDE DEF e, A
    <2>4. <<0, e>> \in G
      BY <2>2, <2>3
    <2> QED BY <2>4 DEF e
  <1>5. ASSUME NEW n \in 1 .. Len(s), NEW a \in A, <<n - 1, a>> \in G
        PROVE  <<n, F[<<a, s[n]>>]>> \in G
    <2>1. s[n] \in E /\ n \in 0 .. Len(s) /\ n \in Nat
      BY <1>2
    <2>2. F[<<a, s[n]>>] = AddItem(a, s[n])
      BY <1>3, <2>1
    <2> DEFINE b == AddItem(a, s[n])
    <2>3. HoldsUpTo(s, n - 1, a)
      BY <1>5
    <2>4. b \in A /\ Holds(b, s[n].dest) /\ \A d : Holds(a, d) => Holds(b, d)
      BY <2>1, AddItemKeeps
    <2> HIDE DEF b, G
    <2>5. ASSUME NEW p \in 1 .. n PROVE Holds(b, s[p].dest)
      <3>1. p = n \/ p \in 1 .. n - 1
        BY <2>1
      <3> QED BY <2>3, <2>4, <3>1 DEF HoldsUpTo
    <2>6. HoldsUpTo(s, n, b)
      BY <2>5 DEF HoldsUpTo
    <2> QED BY <2>1, <2>2, <2>4, <2>6 DEF G, b
  <1> HIDE DEF A, v
  <1>6. <<Len(s), v>> \in G /\ v \in A
    <2> HIDE DEF G
    <2>1. Kept(G, A, F, s)
      BY <1>5 DEF Kept
    <2> QED BY <1>1, <1>3, <1>4, <2>1, RunKeeps
  <1> QED BY <1>6 DEF v, A

JarItems(lib) ==
  IF ArtifactUrl(lib) = <<>> THEN {} ELSE {Item(ArtifactUrl(lib), MavenPath(lib, ""), "library")}
NativeItems(lib) ==
  IF NativeClassifier(lib) = "" THEN {}
  ELSE {Item(ClassifierUrl(lib), MavenPath(lib, lib.natives), "library")}
ItemsOf(lib, platform) ==
  IF ~IsAllowed(lib, platform, NoFeatures) THEN {} ELSE JarItems(lib) \cup NativeItems(lib)

LEMMA NothingIsIn == ASSUME NEW E PROVE <<>> \in Seq(E) /\ ToSet(<<>>) = {}
  BY DEF ToSet

LEMMA OneIsIn == ASSUME NEW E, NEW e \in E PROVE <<e>> \in Seq(E) /\ ToSet(<<e>>) = {e}
  BY DEF ToSet

LEMMA LibraryItemsAre ==
  ASSUME NEW lib, NEW platform
  PROVE  /\ LibraryItems(lib, platform) \in Seq(ItemsOf(lib, platform))
         /\ ToSet(LibraryItems(lib, platform)) = ItemsOf(lib, platform)
  <1> DEFINE E == ItemsOf(lib, platform)
             a == IF ArtifactUrl(lib) = <<>> THEN <<>>
                  ELSE <<Item(ArtifactUrl(lib), MavenPath(lib, ""), "library")>>
             n == IF NativeClassifier(lib) = "" THEN <<>>
                  ELSE <<Item(ClassifierUrl(lib), MavenPath(lib, lib.natives), "library")>>
  <1>1. CASE ~IsAllowed(lib, platform, NoFeatures)
    <2>1. LibraryItems(lib, platform) = <<>> /\ E = {}
      BY <1>1 DEF LibraryItems, ItemsOf
    <2> HIDE DEF E
    <2> QED BY <2>1, NothingIsIn DEF E
  <1>2. CASE IsAllowed(lib, platform, NoFeatures)
    <2>1. LibraryItems(lib, platform) = a \o n /\ E = JarItems(lib) \cup NativeItems(lib)
      BY <1>2 DEF LibraryItems, ItemsOf
    <2> HIDE DEF E
    <2>2. a \in Seq(E) /\ ToSet(a) = JarItems(lib)
      <3>1. CASE ArtifactUrl(lib) = <<>>
        BY <3>1, NothingIsIn DEF JarItems
      <3>2. CASE ArtifactUrl(lib) # <<>>
        <4> DEFINE i == Item(ArtifactUrl(lib), MavenPath(lib, ""), "library")
        <4>1. a = <<i>> /\ JarItems(lib) = {i}
          BY <3>2 DEF JarItems
        <4> HIDE DEF i, a
        <4>2. i \in E
          BY <2>1, <4>1
        <4> QED BY <4>1, <4>2, OneIsIn
      <3> QED BY <3>1, <3>2
    <2>3. n \in Seq(E) /\ ToSet(n) = NativeItems(lib)
      <3>1. CASE NativeClassifier(lib) = ""
        BY <3>1, NothingIsIn DEF NativeItems
      <3>2. CASE NativeClassifier(lib) # ""
        <4> DEFINE i == Item(ClassifierUrl(lib), MavenPath(lib, lib.natives), "library")
        <4>1. n = <<i>> /\ NativeItems(lib) = {i}
          BY <3>2 DEF NativeItems
        <4> HIDE DEF i, n
        <4>2. i \in E
          BY <2>1, <4>1
        <4> QED BY <4>1, <4>2, OneIsIn
      <3> QED BY <3>1, <3>2
    <2> HIDE DEF a, n
    <2>4. a \o n \in Seq(E) /\ ToSet(a \o n) = ToSet(a) \cup ToSet(n)
      BY <2>2, <2>3, Concatenated
    <2> QED BY <2>1, <2>2, <2>3, <2>4 DEF E
  <1> QED BY <1>1, <1>2
ClientItems(r) ==
  IF r.client = "" THEN {} ELSE {Item(<<"given", <<r.client>>>>, ClientJar(r.id), "client")}
IndexItems(r) ==
  IF r.index = "" THEN {} ELSE {Item(<<"given", <<r.index>>>>, IndexFile(r.index), "index")}
LoggingItems(r) ==
  IF r.logging = "" THEN {}
  ELSE {Item(<<"given", <<r.logging>>>>, LogConfig(<<r.logging, "xml">>), "logging")}
LibrariesItems(r, platform) == UNION {ItemsOf(l, platform) : l \in ToSet(r.libraries)}
AllItems(r, platform) ==
  ClientItems(r) \cup IndexItems(r) \cup LibrariesItems(r, platform) \cup LoggingItems(r)

LEMMA FlattenedItems ==
  ASSUME NEW E, NEW r, r.libraries \in Seq(E), NEW platform
  PROVE  LET flat == FlattenSeq([i \in DOMAIN r.libraries |-> LibraryItems(r.libraries[i], platform)])
         IN  flat \in Seq(AllItems(r, platform)) /\ ToSet(flat) = LibrariesItems(r, platform)
  <1> DEFINE s  == r.libraries
             ss == [i \in DOMAIN s |-> LibraryItems(s[i], platform)]
             P  == AllItems(r, platform)
             L  == LibrariesItems(r, platform)
             flat == FlattenSeq(ss)
  <1>1. DOMAIN s = 1 .. Len(s) /\ Len(s) \in Nat
    BY Indices
  <1>2. \A i \in 1 .. Len(s) : ss[i] = LibraryItems(s[i], platform)
    BY <1>1
  <1>3. ss \in [1 .. Len(s) -> Seq(L)]
    <2>1. ASSUME NEW i \in 1 .. Len(s) PROVE LibraryItems(s[i], platform) \in Seq(L)
      <3>1. ItemsOf(s[i], platform) \subseteq L
        BY <1>1 DEF LibrariesItems, ToSet
      <3>2. LibraryItems(s[i], platform) \in Seq(ItemsOf(s[i], platform))
        BY LibraryItemsAre
      <3> HIDE DEF L, s
      <3> QED BY <3>1, <3>2, Wider
    <2> HIDE DEF L, s
    <2> QED BY <1>1, <2>1
  <1>4. ss \in Seq(Seq(L)) /\ Len(ss) = Len(s)
    <2> HIDE DEF ss, L, s
    <2> QED BY <1>1, <1>3, LenProperties DEF Seq
  <1> HIDE DEF ss
  <1>5. flat \in Seq(L) /\ \E owner : Owned(flat, owner, ss, Len(ss))
    BY <1>4, FlattenOwners
  <1> HIDE DEF flat
  <1>6. PICK owner : Owned(flat, owner, ss, Len(s))
    BY <1>4, <1>5
  <1>7. DOMAIN flat = 1 .. Len(flat)
    BY <1>5, Indices
  <1>8. ASSUME NEW x \in L PROVE x \in ToSet(flat)
    <2>1. PICK l \in ToSet(s) : x \in ItemsOf(l, platform)
      BY DEF LibrariesItems
    <2>2. PICK k \in 1 .. Len(s) : l = s[k]
      BY <1>1 DEF ToSet
    <2>3. x \in ToSet(ss[k])
      BY <1>2, <2>1, <2>2, LibraryItemsAre
    <2>4. PICK p \in 1 .. Len(flat) : flat[p] = x /\ owner[p] = k
      BY <1>6, <2>3 DEF Owned
    <2> QED BY <1>7, <2>4 DEF ToSet
  <1>9. \A p \in 1 .. Len(flat) : flat[p] \in L
    BY <1>5, <1>7
  <1>10. ToSet(flat) = L
    <2> HIDE DEF L
    <2> QED BY <1>7, <1>8, <1>9 DEF ToSet
  <1>11. flat \in Seq(P)
    <2>1. L \subseteq P
      BY DEF AllItems
    <2> HIDE DEF L, P
    <2> QED BY <1>5, <2>1, Wider
  <1> QED BY <1>10, <1>11 DEF flat, ss

LEMMA PlanIs ==
  ASSUME NEW E, NEW r, r.libraries \in Seq(E), NEW platform
  PROVE  /\ BuildPlan(r, platform) \in Seq(AllItems(r, platform))
         /\ \A i \in AllItems(r, platform) : Holds(BuildPlan(r, platform), i.dest)
  <1> DEFINE P == AllItems(r, platform)
             c == IF r.client = "" THEN <<>>
                  ELSE <<Item(<<"given", <<r.client>>>>, ClientJar(r.id), "client")>>
             x == IF r.index = "" THEN <<>>
                  ELSE <<Item(<<"given", <<r.index>>>>, IndexFile(r.index), "index")>>
             l == FlattenSeq([i \in DOMAIN r.libraries |-> LibraryItems(r.libraries[i], platform)])
             g == IF r.logging = "" THEN <<>>
                  ELSE <<Item(<<"given", <<r.logging>>>>, LogConfig(<<r.logging, "xml">>), "logging")>>
             u == c \o x
             v == u \o l
             w == v \o g
  <1>1. BuildPlan(r, platform) = FoldLeft(AddItem, <<>>, w)
    BY DEF BuildPlan
  <1>2. c \in Seq(P) /\ ToSet(c) = ClientItems(r)
    <2>1. CASE r.client = ""
      BY <2>1, NothingIsIn DEF ClientItems
    <2>2. CASE r.client # ""
      <3> DEFINE i == Item(<<"given", <<r.client>>>>, ClientJar(r.id), "client")
      <3>1. c = <<i>> /\ ClientItems(r) = {i}
        BY <2>2 DEF ClientItems
      <3> HIDE DEF i, c
      <3>2. i \in P
        BY <3>1 DEF AllItems
      <3> HIDE DEF P
      <3> QED BY <3>1, <3>2, OneIsIn
    <2> QED BY <2>1, <2>2
  <1>3. x \in Seq(P) /\ ToSet(x) = IndexItems(r)
    <2>1. CASE r.index = ""
      BY <2>1, NothingIsIn DEF IndexItems
    <2>2. CASE r.index # ""
      <3> DEFINE i == Item(<<"given", <<r.index>>>>, IndexFile(r.index), "index")
      <3>1. x = <<i>> /\ IndexItems(r) = {i}
        BY <2>2 DEF IndexItems
      <3> HIDE DEF i, x
      <3>2. i \in P
        BY <3>1 DEF AllItems
      <3> HIDE DEF P
      <3> QED BY <3>1, <3>2, OneIsIn
    <2> QED BY <2>1, <2>2
  <1>4. g \in Seq(P) /\ ToSet(g) = LoggingItems(r)
    <2>1. CASE r.logging = ""
      BY <2>1, NothingIsIn DEF LoggingItems
    <2>2. CASE r.logging # ""
      <3> DEFINE i == Item(<<"given", <<r.logging>>>>, LogConfig(<<r.logging, "xml">>), "logging")
      <3>1. g = <<i>> /\ LoggingItems(r) = {i}
        BY <2>2 DEF LoggingItems
      <3> HIDE DEF i, g
      <3>2. i \in P
        BY <3>1 DEF AllItems
      <3> HIDE DEF P
      <3> QED BY <3>1, <3>2, OneIsIn
    <2> QED BY <2>1, <2>2
  <1>5. l \in Seq(P) /\ ToSet(l) = LibrariesItems(r, platform)
    BY FlattenedItems
  <1> HIDE DEF c, x, l, g, P
  <1>6. u \in Seq(P) /\ ToSet(u) = ToSet(c) \cup ToSet(x)
    BY <1>2, <1>3, Concatenated
  <1> HIDE DEF u
  <1>7. v \in Seq(P) /\ ToSet(v) = ToSet(u) \cup ToSet(l)
    BY <1>5, <1>6, Concatenated
  <1> HIDE DEF v
  <1>8. w \in Seq(P) /\ ToSet(w) = ToSet(v) \cup ToSet(g)
    BY <1>4, <1>7, Concatenated
  <1> HIDE DEF w
  <1>9. ToSet(w) = P
    BY <1>2, <1>3, <1>4, <1>5, <1>6, <1>7, <1>8 DEF P, AllItems
  <1>10. BuildPlan(r, platform) \in Seq(P) /\ HoldsUpTo(w, Len(w), BuildPlan(r, platform))
    BY <1>1, <1>8, AddedItems
  <1>11. DOMAIN w = 1 .. Len(w)
    BY <1>8, Indices
  <1>12. \A i \in P : Holds(BuildPlan(r, platform), i.dest)
    BY <1>9, <1>10, <1>11 DEF HoldsUpTo, ToSet
  <1> QED BY <1>10, <1>12 DEF P
-----------------------------------------------------------------------------
(* A prepared command is whole.                                            *)
LEMMA FiniteImage ==
  ASSUME NEW n \in Nat, NEW f, NEW T, T = {f[k] : k \in 1 .. n} PROVE IsFiniteSet(T)
  <1> DEFINE g == [k \in 1 .. n |-> f[k]]
  <1>1. g \in Surjection(1 .. n, T)
    BY DEF Surjection
  <1>2. IsFiniteSet(1 .. n)
    BY FS_Interval
  <1> HIDE DEF g
  <1> QED BY <1>1, <1>2, FS_Surjection

LEMMA ResolvedLibraries == ASSUME ChainInv PROVE Resolved.libraries \in Seq(Libs)
  BY ChainOverrides

LEMMA FinitePlan == ASSUME ChainInv PROVE IsFiniteSet({i.dest : i \in ToSet(Plan)})
  <1>1. Plan \in Seq(AllItems(Resolved, PlatformOf(options)))
    BY ResolvedLibraries, PlanIs DEF Plan
  <1>2. Len(Plan) \in Nat /\ DOMAIN Plan = 1 .. Len(Plan)
    BY <1>1, Indices
  <1> DEFINE f == [k \in 1 .. Len(Plan) |-> Plan[k].dest]
             T == {i.dest : i \in ToSet(Plan)}
  <1>3. T = {f[k] : k \in 1 .. Len(Plan)}
    BY <1>2 DEF ToSet
  <1> HIDE DEF f, T
  <1>4. IsFiniteSet(T)
    BY <1>2, <1>3, FiniteImage
  <1> QED BY <1>4 DEF T

DiskInv == IsFiniteSet(disk)

LEMMA DiskStep == ASSUME ChainInv, DiskInv, [Next]_vars PROVE DiskInv'
  <1>1. CASE Download
    <2> DEFINE T == {i.dest : i \in ToSet(Plan)}
    <2>1. PICK failed \in SUBSET T :
            disk' = disk \cup ({i.dest : i \in {j \in ToSet(Plan) : Served(j.url)}} \ failed)
      BY <1>1 DEF Download
    <2>2. IsFiniteSet(T)
      BY FinitePlan
    <2>3. disk' \in SUBSET (disk \cup T)
      BY <2>1
    <2> HIDE DEF T
    <2>4. IsFiniteSet(disk \cup T)
      BY <2>2, FS_Union DEF DiskInv
    <2>5. IsFiniteSet(disk')
      BY <2>3, <2>4, FS_Subset
    <2> QED BY <2>5 DEF DiskInv
  <1>2. CASE Lose
    <2>1. disk' \in SUBSET disk
      BY <1>2 DEF Lose
    <2> QED BY <2>1, FS_Subset DEF DiskInv
  <1>3. ASSUME ~Download, ~Lose PROVE UNCHANGED disk
    BY <1>3 DEF Next, vars, FetchVersion, FetchFails, Preview, Prepare, CheckOptions, PreflightJava,
                PreflightRuntime, BuildClasspath, VerifyPresent, CreateDirs, BuildCommand, Stay,
                Refuse, Pass
  <1> QED BY <1>1, <1>2, <1>3 DEF DiskInv

LEMMA DiskInvHolds == Spec => [](LaunchInv /\ DiskInv)
  <1>1. Init => DiskInv
    BY LaunchAssumption DEF Init, DiskInv, LaunchAssumption
  <1>2. LaunchInv /\ DiskInv /\ [Next]_vars => DiskInv'
    BY DiskStep DEF LaunchInv
  <1> QED BY <1>1, <1>2, LaunchInvHolds, PTL DEF Spec

LEMMA FirstOf ==
  ASSUME NEW r, NEW o, NEW d, NEW f
  PROVE  /\ f \in LwjglPart(o, d) => f[1] = "rt"
         /\ f \in CacioPart(o, d) => f[1] = "rt"
         /\ f = ClientJar(r.id) => f[1] = "versions"
  BY DEF LwjglPart, LwjglJars, CacioPart, CacioFile, ClientJar

LEMMA OneNewestJar ==
  ASSUME ChainInv, DiskInv, VersionsOrdered(Libs),
         NEW lib \in ToSet(Resolved.libraries), OnClasspath(lib, options)
  PROVE  \E e \in ToSet(Entries) :
           /\ e[1] = "libraries" /\ e[2] = lib.ga /\ ~VersionLess(e[3], lib.v)
           /\ \A f \in ToSet(Entries) : f[1] = "libraries" /\ f[2] = lib.ga => f = e
  <1> DEFINE r == Resolved
             W == OnPath(r, options)
             s == Picked(r, options)
             jars == Jars(r, options)
  <1>1. r.libraries \in Seq(Libs)
    BY ResolvedLibraries
  <1>2. s \in Seq(W) /\ ToSet(s) = W
    BY <1>1, PickedAre
  <1>3. lib \in W
    BY DEF OnPath
  <1>4. DOMAIN s = 1 .. Len(s)
    BY <1>2, Indices
  <1>5. PICK p \in 1 .. Len(s) : s[p] = lib
    BY <1>2, <1>3, <1>4 DEF ToSet
  <1>6. W \subseteq Libs
    <2>1. DOMAIN r.libraries = 1 .. Len(r.libraries) /\ \A i \in DOMAIN r.libraries : r.libraries[i] \in Libs
      BY <1>1, Indices
    <2> QED BY <2>1 DEF OnPath, ToSet
  <1>7. VersionsOrdered(W)
    BY <1>6 DEF VersionsOrdered
  <1>8. jars \in Seq(W) /\ OneEach(jars) /\ Covers(jars, lib)
    <2>1. jars \in Seq(W) /\ NewestStay(s, Len(s), jars, W)
      <3> HIDE DEF W, s
      <3> QED BY <1>2, CollapsedJars DEF Jars, s
    <2> QED BY <1>5, <1>7, <2>1 DEF NewestStay
  <1>9. DOMAIN jars = 1 .. Len(jars)
    BY <1>8, Indices
  <1>10. ToSet(Entries) = JarFiles(r, options) \cup LwjglPart(options, disk) \cup CacioPart(options, disk)
                          \cup {ClientJar(r.id)}
    BY <1>1, ClasspathIs DEF Entries, DiskInv
  <1> HIDE DEF jars, W, s
  <1>11. PICK j \in ToSet(jars) : j.ga = lib.ga /\ ~VersionLess(j.v, lib.v)
    BY <1>8 DEF Covers
  <1> DEFINE e == MavenPath(j, "")
  <1>12. e \in ToSet(Entries) /\ e[1] = "libraries" /\ e[2] = lib.ga /\ e[3] = j.v
    BY <1>10, <1>11 DEF JarFiles, MavenPath, jars
  <1>13. ASSUME NEW f \in ToSet(Entries), f[1] = "libraries", f[2] = lib.ga PROVE f = e
    <2>1. f \in JarFiles(r, options)
      BY <1>10, <1>13, FirstOf
    <2>2. PICK k \in ToSet(jars) : f = MavenPath(k, "")
      BY <2>1 DEF JarFiles, jars
    <2>3. k.ga = j.ga
      BY <1>11, <1>13, <2>2 DEF MavenPath
    <2>4. k = j
      BY <1>8, <1>9, <1>11, <2>3 DEF OneEach, ToSet
    <2> QED BY <2>2, <2>4
  <1> HIDE DEF e
  <1> QED BY <1>11, <1>12, <1>13

LEMMA BridgeIsThere ==
  ASSUME NEW o, NEW d, o.runtime, o.cacio, RuntimeComplete(o, d),
         NEW f \in {"shared", IF o.java = 8 THEN "androidnw" ELSE "tta"}
  PROVE  CacioFile(Backend(o), f) \in CacioPart(o, d)
  <1> DEFINE b == Backend(o)
  <1>1. f \in DOMAIN Artifacts(b) /\ Artifacts(b)[f] = "classpath"
    BY DEF Backend, Artifacts
  <1>2. CacioOf(o) = b
    BY DEF CacioOf
  <1> HIDE DEF b
  <1>3. CacioFile(b, f) \in d
    BY <1>1 DEF RuntimeComplete, CacioUsable, b
  <1> QED BY <1>1, <1>2, <1>3 DEF CacioPart, CacioThere, b

(* A command prepared with the checks on, and nothing lost since, finds    *)
(* all it names, and of every artifact the newest jar only: engine.rs and  *)
(* classpath.rs.  Supposed: the declared versions of an artifact are       *)
(* ordered.                                                                *)
THEOREM PreparedIsWholeHolds ==
  ASSUME VersionsOrdered(Libs)
  PROVE  Spec => []PreparedIsWhole
  <1>1. ASSUME LaunchInv, DiskInv PROVE PreparedIsWhole
    <2> SUFFICES ASSUME pc = "prepared", strict, lost = {} PROVE PreparedIsWhole
      BY DEF PreparedIsWhole
    <2>1. JavaExe(options) \in disk /\ classpath = Entries /\ ToSet(classpath) \subseteq disk
      BY <1>1 DEF LaunchInv, ChecksHold, JavaThere
    <2>2. Resolved.libraries \in Seq(Libs)
      BY <1>1, ResolvedLibraries DEF LaunchInv
    <2>3. Last(Entries) = ClientJar(Resolved.id)
      BY <1>1, <2>2, ClasspathIs DEF Entries, DiskInv
    <2>4. ASSUME NEW lib \in ToSet(Resolved.libraries), OnClasspath(lib, options)
          PROVE  \E e \in ToSet(Entries) :
                   /\ e[1] = "libraries" /\ e[2] = lib.ga /\ ~VersionLess(e[3], lib.v)
                   /\ \A f \in ToSet(Entries) : f[1] = "libraries" /\ f[2] = lib.ga => f = e
      BY <1>1, <2>4, OneNewestJar DEF LaunchInv
    <2>5. ASSUME options.runtime
          PROVE  /\ \A f \in RequiredNatives : NativeFile(options, f) \in disk
                 /\ options.cacio => \A f \in {"shared", IF options.java = 8 THEN "androidnw" ELSE "tta"} :
                      CacioFile(Backend(options), f) \in ToSet(Entries)
      <3>1. RuntimeComplete(options, disk)
        BY <1>1, <2>5 DEF LaunchInv, ChecksHold, Whole
      <3>2. CacioPart(options, disk) \subseteq ToSet(Entries)
        BY <1>1, <2>2, ClasspathIs DEF Entries, DiskInv
      <3>3. \A f \in RequiredNatives : NativeFile(options, f) \in disk
        BY <3>1 DEF RuntimeComplete
      <3> QED BY <2>5, <3>1, <3>2, <3>3, BridgeIsThere
    <2> QED BY <2>1, <2>3, <2>4, <2>5 DEF PreparedIsWhole
  <1> QED BY <1>1, DiskInvHolds, PTL
-----------------------------------------------------------------------------
(* What the class path needs the plan brings.                              *)
LEMMA PlainRules ==
  ASSUME NEW lib, RulesArePlain({lib}), NEW platform, NEW f, NEW g
  PROVE  IsAllowed(lib, platform, f) = IsAllowed(lib, platform, g)
  <1>1. \A i \in DOMAIN lib.rules : DOMAIN lib.rules[i].features = {}
    BY DEF RulesArePlain, ToSet
  <1>2. \A i \in DOMAIN lib.rules :
          RuleMatches(lib.rules[i], platform, f) = RuleMatches(lib.rules[i], platform, g)
    BY <1>1 DEF RuleMatches
  <1>3. {i \in DOMAIN lib.rules : RuleMatches(lib.rules[i], platform, f)}
          = {i \in DOMAIN lib.rules : RuleMatches(lib.rules[i], platform, g)}
    BY <1>2
  <1> QED BY <1>3 DEF IsAllowed, RulesAllow

LEMMA RangeWithin == ASSUME NEW E, NEW s \in Seq(E) PROVE ToSet(s) \subseteq E
  <1>1. \A i \in DOMAIN s : s[i] \in E
    BY Indices
  <1> QED BY <1>1 DEF ToSet

LEMMA ItemFields ==
  ASSUME NEW url, NEW dest, NEW kind
  PROVE  Item(url, dest, kind).url = url /\ Item(url, dest, kind).dest = dest
  BY DEF Item

LEMMA GivenIsServed == ASSUME NEW x PROVE Served(<<"given", x>>)
  BY DEF Served

LEMMA MadeIsServed == ASSUME NEW x \in Published PROVE Served(<<"made", x>>)
  BY DEF Served

LEMMA SameJar ==
  ASSUME NEW l, NEW m, NEW c, MavenPath(l, c) = MavenPath(m, "")
  PROVE  l.ga = m.ga /\ l.v = m.v /\ c = ""
  <1>1. /\ MavenPath(l, c)[2] = l.ga /\ MavenPath(l, c)[3] = l.v /\ MavenPath(l, c)[4] = c
        /\ MavenPath(m, "")[2] = m.ga /\ MavenPath(m, "")[3] = m.v /\ MavenPath(m, "")[4] = ""
    BY DEF MavenPath
  <1> QED BY <1>1

LEMMA NotTheClient == ASSUME NEW l, NEW c, NEW id PROVE MavenPath(l, c) # ClientJar(id)
  <1>1. MavenPath(l, c)[1] = "libraries" /\ ClientJar(id)[1] = "versions"
    BY DEF MavenPath, ClientJar
  <1> QED BY <1>1

LEMMA GivenItems ==
  ASSUME NEW r, NEW i \in ClientItems(r) \cup IndexItems(r) \cup LoggingItems(r)
  PROVE  Served(i.url)
  <1>1. \E x, dest, kind : i = Item(<<"given", x>>, dest, kind)
    <2>1. CASE i \in ClientItems(r)
      BY <2>1 DEF ClientItems
    <2>2. CASE i \in IndexItems(r)
      BY <2>2 DEF IndexItems
    <2>3. CASE i \in LoggingItems(r)
      BY <2>3 DEF LoggingItems
    <2> QED BY <2>1, <2>2, <2>3
  <1>2. PICK x, dest, kind : i = Item(<<"given", x>>, dest, kind)
    BY <1>1
  <1>3. i.url = <<"given", x>>
    BY <1>2, ItemFields
  <1> QED BY <1>3, GivenIsServed

LEMMA LibraryFields ==
  ASSUME NEW l, NEW i
  PROVE  /\ i \in JarItems(l) =>
              ArtifactUrl(l) # <<>> /\ i.url = ArtifactUrl(l) /\ i.dest = MavenPath(l, "")
         /\ i \in NativeItems(l) => l.natives # "" /\ i.dest = MavenPath(l, l.natives)
  <1>1. i \in JarItems(l) =>
          ArtifactUrl(l) # <<>> /\ i = Item(ArtifactUrl(l), MavenPath(l, ""), "library")
    BY DEF JarItems
  <1>2. i \in NativeItems(l) =>
          l.natives # "" /\ i = Item(ClassifierUrl(l), MavenPath(l, l.natives), "library")
    BY DEF NativeItems, NativeClassifier
  <1> DEFINE a == Item(ArtifactUrl(l), MavenPath(l, ""), "library")
             n == Item(ClassifierUrl(l), MavenPath(l, l.natives), "library")
  <1>3. a.url = ArtifactUrl(l) /\ a.dest = MavenPath(l, "")
    BY ItemFields
  <1>4. n.dest = MavenPath(l, l.natives)
    BY ItemFields
  <1> HIDE DEF a, n
  <1>5. i \in JarItems(l) => ArtifactUrl(l) # <<>> /\ i = a
    BY <1>1 DEF a
  <1>6. i \in NativeItems(l) => l.natives # "" /\ i = n
    BY <1>2 DEF n
  <1> QED BY <1>3, <1>4, <1>5, <1>6

(* An item whose destination is a jar, or the client, is at its source.    *)
LEMMA JarIsServed ==
  ASSUME JarsServed(Libs), NEW r, ToSet(r.libraries) \subseteq Libs, NEW platform,
         NEW lib \in Libs, HasJar(lib),
         NEW i \in AllItems(r, platform), i.dest = MavenPath(lib, "")
  PROVE  Served(i.url)
  <1>1. CASE i \in ClientItems(r) \cup IndexItems(r) \cup LoggingItems(r)
    BY <1>1, GivenItems
  <1>2. ASSUME NEW l \in ToSet(r.libraries), i \in JarItems(l) PROVE Served(i.url)
    <2>1. i.url = ArtifactUrl(l) /\ MavenPath(l, "") = MavenPath(lib, "") /\ ArtifactUrl(l) # <<>>
      BY <1>2, LibraryFields
    <2>2. l \in Libs /\ l.ga = lib.ga /\ l.v = lib.v
      BY <2>1, SameJar
    <2>3. CASE l.artifact \in {"url", "path"}
      <3>1. ArtifactUrl(l) = <<"given", NameOf(l)>>
        BY <2>3 DEF ArtifactUrl
      <3> QED BY <2>1, <3>1, GivenIsServed
    <2>4. CASE l.artifact = "none"
      <3>1. MavenPath(lib, "") \in Published
        BY <2>2, <2>4 DEF JarsServed
      <3>2. ArtifactUrl(l) = <<"made", MavenPath(l, "")>>
        BY <2>1, <2>4 DEF ArtifactUrl
      <3> QED BY <2>1, <3>1, <3>2, MadeIsServed
    <2> QED BY <2>2, <2>3, <2>4 DEF JarsServed
  <1>3. ASSUME NEW l \in ToSet(r.libraries), i \in NativeItems(l) PROVE FALSE
    <2>1. l.natives # "" /\ i.dest = MavenPath(l, l.natives)
      BY <1>3, LibraryFields
    <2>2. l.natives = ""
      BY <2>1, SameJar
    <2> QED BY <2>1, <2>2
  <1>4. i \in LibrariesItems(r, platform) =>
          \E l \in ToSet(r.libraries) : i \in JarItems(l) \/ i \in NativeItems(l)
    BY DEF LibrariesItems, ItemsOf
  <1> QED BY <1>1, <1>2, <1>3, <1>4 DEF AllItems

LEMMA ClientIsServed ==
  ASSUME NEW r, NEW platform, NEW i \in AllItems(r, platform), i.dest = ClientJar(r.id)
  PROVE  Served(i.url)
  <1>1. CASE i \in ClientItems(r) \cup IndexItems(r) \cup LoggingItems(r)
    BY <1>1, GivenItems
  <1>2. ASSUME NEW l, i \in JarItems(l) \cup NativeItems(l) PROVE FALSE
    <2>1. \E c : i.dest = MavenPath(l, c)
      BY <1>2, LibraryFields
    <2> QED BY <2>1, NotTheClient
  <1>3. i \in LibrariesItems(r, platform) => \E l : i \in JarItems(l) \cup NativeItems(l)
    BY DEF LibrariesItems, ItemsOf
  <1> QED BY <1>1, <1>2, <1>3 DEF AllItems

LEMMA ClientIsPlanned ==
  ASSUME NEW r, r.client # "", NEW platform
  PROVE  \E i \in AllItems(r, platform) : i.dest = ClientJar(r.id)
  <1> DEFINE i == Item(<<"given", <<r.client>>>>, ClientJar(r.id), "client")
  <1>1. i \in ClientItems(r)
    BY DEF ClientItems
  <1>2. i.dest = ClientJar(r.id)
    BY DEF Item
  <1> HIDE DEF i
  <1>3. i \in AllItems(r, platform)
    BY <1>1 DEF AllItems
  <1> QED BY <1>2, <1>3

LEMMA JarIsPlanned ==
  ASSUME RulesArePlain(Libs), JarsServed(Libs), NEW r, ToSet(r.libraries) \subseteq Libs, NEW o,
         NEW lib \in ToSet(r.libraries), OnClasspath(lib, o)
  PROVE  HasJar(lib) /\ \E i \in AllItems(r, PlatformOf(o)) : i.dest = MavenPath(lib, "")
  <1>1. HasJar(lib) /\ lib \in Libs
    BY DEF OnClasspath, HasJar
  <1>2. RulesArePlain({lib})
    BY <1>1 DEF RulesArePlain
  <1>3. IsAllowed(lib, PlatformOf(o), NoFeatures)
    <2>1. IsAllowed(lib, PlatformOf(o), FeaturesOf(o))
      BY DEF OnClasspath
    <2> QED BY <1>2, <2>1, PlainRules
  <1>4. ArtifactUrl(lib) # <<>>
    BY <1>1 DEF HasJar, JarsServed, ArtifactUrl
  <1> DEFINE i == Item(ArtifactUrl(lib), MavenPath(lib, ""), "library")
  <1>5. i \in JarItems(lib)
    BY <1>4 DEF JarItems
  <1>6. i.dest = MavenPath(lib, "")
    BY ItemFields
  <1> HIDE DEF i
  <1>7. i \in AllItems(r, PlatformOf(o))
    BY <1>3, <1>5 DEF AllItems, LibrariesItems, ItemsOf
  <1> QED BY <1>1, <1>6, <1>7

LEMMA MissingIsPlanned ==
  ASSUME ChainInv, DiskInv, RulesArePlain(Libs), JarsServed(Libs), Resolved.client # "",
         NEW e \in ToSet(Entries), e \notin disk
  PROVE  \E i \in ToSet(Plan) : Served(i.url) /\ i.dest = e
  <1> DEFINE r == Resolved
             platform == PlatformOf(options)
             jars == Jars(r, options)
             W == OnPath(r, options)
             P == AllItems(r, platform)
  <1>1. r.libraries \in Seq(Libs)
    BY ResolvedLibraries
  <1>2. ToSet(r.libraries) \subseteq Libs
    BY <1>1, RangeWithin
  <1>3. Plan \in Seq(P) /\ \A i \in P : Holds(Plan, i.dest)
    BY <1>1, PlanIs DEF Plan
  <1>4. ToSet(Plan) \subseteq P
    BY <1>3, RangeWithin
  <1>5. e \in JarFiles(r, options) \/ e = ClientJar(r.id)
    <2>1. ToSet(Entries) = JarFiles(r, options) \cup LwjglPart(options, disk)
                           \cup CacioPart(options, disk) \cup {ClientJar(r.id)}
      BY <1>1, ClasspathIs DEF Entries, DiskInv
    <2>2. LwjglPart(options, disk) \subseteq disk /\ CacioPart(options, disk) \subseteq disk
      BY DEF LwjglPart, LwjglJars, CacioPart, CacioThere
    <2> QED BY <2>1, <2>2
  <1>6. ASSUME NEW j \in ToSet(jars), e = MavenPath(j, "")
        PROVE  \E i \in ToSet(Plan) : Served(i.url) /\ i.dest = e
    <2>1. jars \in Seq(W)
      <3>1. Picked(r, options) \in Seq(W)
        BY <1>1, PickedAre
      <3> HIDE DEF W
      <3> QED BY <3>1, CollapsedJars DEF Jars
    <2>2. j \in W
      BY <2>1, RangeWithin
    <2>3. j \in ToSet(r.libraries) /\ OnClasspath(j, options) /\ j \in Libs
      BY <1>2, <2>2 DEF OnPath
    <2>4. HasJar(j) /\ \E i \in P : i.dest = e
      BY <1>2, <1>6, <2>3, JarIsPlanned
    <2>5. PICK i \in ToSet(Plan) : i.dest = e
      BY <1>3, <2>4 DEF Holds
    <2>6. Served(i.url)
      BY <1>2, <1>4, <1>6, <2>3, <2>4, <2>5, JarIsServed
    <2> QED BY <2>5, <2>6
  <1>7. ASSUME e = ClientJar(r.id)
        PROVE  \E i \in ToSet(Plan) : Served(i.url) /\ i.dest = e
    <2>1. \E i \in P : i.dest = e
      BY <1>7, ClientIsPlanned
    <2>2. PICK i \in ToSet(Plan) : i.dest = e
      BY <1>3, <2>1 DEF Holds
    <2>3. Served(i.url)
      BY <1>4, <1>7, <2>2, ClientIsServed
    <2> QED BY <2>2, <2>3
  <1> QED BY <1>5, <1>6, <1>7 DEF JarFiles

(* The plan and the class path are made by different code, and agree: when *)
(* nothing was lost, prepare (engine.rs) misses no entry of which the plan *)
(* (resolve.rs) has no file to bring that the servers have.  Supposed: the *)
(* rules of libraries ask for no feature, and a jar without an URL is      *)
(* where its name says.                                                    *)
THEOREM InstalledIsAcceptedHolds ==
  ASSUME RulesArePlain(Libs), JarsServed(Libs)
  PROVE  Spec => []InstalledIsAccepted
  <1>1. ASSUME LaunchInv, DiskInv PROVE InstalledIsAccepted
    <2> SUFFICES ASSUME pc = "refused", why = "classpath missing", lost = {}, Resolved.client # ""
                 PROVE  \E i \in ToSet(Plan) : Served(i.url) /\ i.dest \notin disk
      BY DEF InstalledIsAccepted
    <2>1. classpath = Entries /\ ~(ToSet(classpath) \subseteq disk)
      BY <1>1 DEF LaunchInv, ChecksHold
    <2>2. PICK e \in ToSet(Entries) : e \notin disk
      BY <2>1
    <2>3. \E i \in ToSet(Plan) : Served(i.url) /\ i.dest = e
      BY <1>1, <2>2, MissingIsPlanned DEF LaunchInv
    <2> QED BY <2>2, <2>3
  <1> QED BY <1>1, DiskInvHolds, PTL
-----------------------------------------------------------------------------
(* The environment: neither the translation nor the profile takes away     *)
(* what the renderer asks for.                                             *)
LEMMA OverIs ==
  ASSUME NEW f, NEW g, NEW k
  PROVE  /\ k \in DOMAIN f => k \in DOMAIN Over(f, g)
         /\ k \in DOMAIN f /\ k \notin DOMAIN g => Over(f, g)[k] = f[k]
         /\ k \in DOMAIN g => Over(f, g)[k] = g[k] /\ k \in DOMAIN Over(f, g)
  BY DEF Over

Renderers == {"gl4es", "ng_gl4es", "virgl", "zink", "angle"}

LEMMA RendererKeeps ==
  ASSUME NEW o, o.renderer \in Renderers, NEW k \in DOMAIN RendererEnv(o.renderer)
  PROVE  /\ k \notin DOMAIN TranslationEnv(o)
         /\ k \in DOMAIN ProfileEnv(o.perf) => ProfileEnv(o.perf)[k] = RendererEnv(o.renderer)[k]
  <1>1. CASE o.renderer \in {"gl4es", "ng_gl4es"}
    <2>1. RendererEnv(o.renderer) = [LIBGL_ES |-> "2", LIBGL_NOERROR |-> "1"]
      BY <1>1 DEF RendererEnv
    <2>2. k \notin DOMAIN TranslationEnv(o)
      BY <1>1, <2>1 DEF TranslationEnv
    <2>3. k \in DOMAIN ProfileEnv(o.perf) => k = "LIBGL_NOERROR" /\ ProfileEnv(o.perf)[k] = "1"
      BY <2>1 DEF ProfileEnv
    <2> QED BY <2>1, <2>2, <2>3
  <1>2. CASE o.renderer \in {"virgl", "zink", "angle"}
    <2>1. DOMAIN RendererEnv(o.renderer) \subseteq
            {"GALLIUM_DRIVER", "MESA_GL_VERSION_OVERRIDE", "LIBGL_ES"}
      BY <1>2 DEF RendererEnv
    <2>2. k \notin DOMAIN TranslationEnv(o)
      BY <1>2, <2>1 DEF TranslationEnv
    <2>3. k \notin DOMAIN ProfileEnv(o.perf)
      BY <2>1 DEF ProfileEnv
    <2> QED BY <2>2, <2>3
  <1> QED BY <1>1, <1>2 DEF Renderers

LEMMA EnvIsSound ==
  ASSUME NEW o, o.renderer \in Renderers, NEW k \in DOMAIN RendererEnv(o.renderer),
         BuildEnv(o)[k] # RendererEnv(o.renderer)[k]
  PROVE  k \in DOMAIN o.overrides
  <1> DEFINE R == RendererEnv(o.renderer)
             T == TranslationEnv(o)
             P == ProfileEnv(o.perf)
             a == Over([POJAV_RENDERER |-> o.renderer, JAVA_HOME |-> "java", LD_LIBRARY_PATH |-> "libs"], R)
             b == Over(a, T)
             c == Over(b, P)
  <1>1. BuildEnv(o) = Over(c, o.overrides)
    BY DEF BuildEnv
  <1>2. k \in DOMAIN R /\ k \notin DOMAIN T /\ (k \in DOMAIN P => P[k] = R[k])
    BY RendererKeeps
  <1> HIDE DEF R, T, P
  <1>3. a[k] = R[k] /\ k \in DOMAIN a
    BY <1>2, OverIs
  <1> HIDE DEF a
  <1>4. b[k] = R[k] /\ k \in DOMAIN b
    BY <1>2, <1>3, OverIs
  <1> HIDE DEF b
  <1>5. c[k] = R[k] /\ k \in DOMAIN c
    BY <1>2, <1>4, OverIs
  <1> HIDE DEF c
  <1> QED BY <1>1, <1>5, OverIs DEF R

-----------------------------------------------------------------------------
(* Arguments: pruning leaves a flag its value, or takes both.              *)
LEMMA Fronted ==
  ASSUME NEW E, NEW s \in Seq(E), Len(s) > 0
  PROVE  /\ Front(s) \in Seq(E) /\ Len(Front(s)) = Len(s) - 1
         /\ \A i \in 1 .. Len(s) - 1 : Front(s)[i] = s[i]
  <1>1. Len(s) \in Nat
    BY Indices
  <1>2. Front(s) = SubSeq(s, 1, Len(s) - 1)
    BY DEF Front
  <1>3. Len(s) - 1 \in Nat /\ \A i \in 1 .. Len(s) - 1 : s[i] \in E
    BY <1>1
  <1> DEFINE m == Len(s) - 1
  <1> HIDE DEF m
  <1>4. m \in Nat /\ m \in Int /\ 1 \in Int /\ \A i \in 1 .. m : s[i] \in E
    BY <1>3 DEF m
  <1>5. /\ SubSeq(s, 1, m) \in Seq(E)
        /\ Len(SubSeq(s, 1, m)) = IF 1 <= m THEN m - 1 + 1 ELSE 0
        /\ \A i \in 1 .. m - 1 + 1 : SubSeq(s, 1, m)[i] = s[1 + i - 1]
    BY <1>4, SubSeqProperties
  <1>6. Len(SubSeq(s, 1, m)) = m
    BY <1>4, <1>5
  <1>7. \A i \in 1 .. m : i \in 1 .. m - 1 + 1 /\ 1 + i - 1 = i
    BY <1>4
  <1> QED BY <1>2, <1>5, <1>6, <1>7 DEF m

PruneStays(A, E, known) == \A a \in A, e \in E : PruneStep(known, a, e) \in A
PruneRun(A, E, known, base, s, v) ==
  \E F \in [A \X E -> A] : /\ \A a \in A, e \in E : F[<<a, e>>] = PruneStep(known, a, e)
                           /\ RunEnds(A, v, base, F, s)

LEMMA PruneRuns ==
  ASSUME NEW A, NEW E, NEW known, NEW base \in A, base = <<>>, NEW s \in Seq(E),
         PruneStays(A, E, known)
  PROVE  PruneRun(A, E, known, base, s, Prune(s, known))
  <1> DEFINE F == [p \in A \X E |-> PruneStep(known, p[1], p[2])]
             Is(f) == f = [x \in SUBSET DOMAIN s |->
                             IF x = {} THEN base ELSE PruneStep(known, f[x \ {Max(x)}], s[Max(x)])]
             it == CHOOSE f : Is(f)
  <1>1. F \in [A \X E -> A] /\ \A a \in A, e \in E : F[<<a, e>>] = PruneStep(known, a, e)
    BY DEF PruneStays
  <1>2. Prune(s, known) = it[DOMAIN s]
    BY DEF Prune, FoldLeft, MapThenFoldSet
  <1> HIDE DEF F
  <1>3. PICK f \in [SUBSET DOMAIN s -> A] : IsFold(f, base, F, s)
    BY <1>1, FoldExists
  <1>4. \A x \in SUBSET DOMAIN s :
          f[x] = IF x = {} THEN base ELSE PruneStep(known, f[x \ {Max(x)}], s[Max(x)])
    BY <1>1, <1>3, LastPlace DEF IsFold
  <1>5. Is(f)
    BY <1>4
  <1>6. Is(it)
    BY <1>5
  <1> HIDE DEF it
  <1>7. FoldsIn(A, it, base, F, s)
    <2>1. \A x \in SUBSET DOMAIN s :
            x # {} => s[Max(x)] \in E /\ x \ {Max(x)} \in SUBSET DOMAIN s
      BY LastPlace
    <2> QED BY <1>1, <1>6, <2>1 DEF FoldsIn
  <1>8. RunEnds(A, it[DOMAIN s], base, F, s)
    BY <1>1, <1>7, FoldRuns
  <1> QED BY <1>1, <1>2, <1>8 DEF PruneRun

(* A value of the sequence stands behind its flag.                         *)
Linked(s) ==
  \A i \in 1 .. Len(s) : s[i].of # "" =>
    i > 1 /\ s[i - 1].text = s[i].of /\ s[i].text = "" /\ ~s[i].flag
(* A flag in need of a value is followed by it, or is the last.            *)
Followed(s) ==
  \A i \in 1 .. Len(s) : s[i].text \in ValueFlags =>
    s[i].flag /\ (i < Len(s) => s[i + 1].of = s[i].text)
(* The flags that join a server are at one place.                          *)
OneJoin(s) ==
  \A i, j \in 1 .. Len(s) : s[i].text \in JoinFlags /\ s[j].text \in JoinFlags => i = j
From(s, n, out) == \A i \in 1 .. Len(out) : \E p \in 1 .. n : out[i] = s[p]

PrunedTo(s, n, out) ==
  /\ Linked(out) /\ Followed(out) /\ OneJoin(out) /\ From(s, n, out)
  /\ Len(out) > 0 /\ out[Len(out)].text \in ValueFlags => n > 0 /\ out[Len(out)] = s[n]
  /\ n > 0 /\ s[n].flag /\ s[n].holes = {} => Len(out) > 0 /\ out[Len(out)] = s[n]
LEMMA PruneStepType ==
  ASSUME NEW E, NEW known, NEW out \in Seq(E), NEW a \in E
  PROVE  PruneStep(known, out, a) \in Seq(E)
  <1>1. CASE a.holes \subseteq known
    BY <1>1, Appended DEF PruneStep
  <1>2. CASE ~(a.holes \subseteq known) /\ out # <<>> /\ Last(out).flag
    <2>1. Len(out) > 0
      BY <1>2, EmptySeq
    <2>2. Front(out) \in Seq(E)
      BY <2>1, Fronted
    <2> QED BY <1>2, <2>2 DEF PruneStep
  <1>3. CASE ~(a.holes \subseteq known) /\ ~(out # <<>> /\ Last(out).flag)
    BY <1>3 DEF PruneStep
  <1> QED BY <1>1, <1>2, <1>3

LEMMA PruneAppends ==
  ASSUME NEW s, Paired(s), OneJoin(s), NEW n \in 1 .. Len(s), NEW out \in Seq(Arg),
         PrunedTo(s, n - 1, out)
  PROVE  PrunedTo(s, n, Append(out, s[n]))
  <1> DEFINE b == Append(out, s[n])
             L == Len(out)
  <1>1. DOMAIN s = 1 .. Len(s) /\ Len(s) \in Nat /\ L \in Nat /\ s[n] \in Arg /\ n \in Nat /\ n > 0
    <2>1. s \in Seq(Arg)
      BY DEF Paired
    <2>2. DOMAIN s = 1 .. Len(s) /\ Len(s) \in Nat /\ \A i \in DOMAIN s : s[i] \in Arg
      BY <2>1, Indices
    <2>3. L \in Nat
      BY Indices
    <2> QED BY <2>2, <2>3
  <1>2. /\ Len(b) = L + 1 /\ b[L + 1] = s[n] /\ \A i \in 1 .. L : b[i] = out[i]
    BY <1>1, Appended
  <1> HIDE DEF b, L
  <1>3. \A i \in 1 .. L + 1 : i \in 1 .. L \/ i = L + 1
    BY <1>1
  <1>11. /\ \A i \in 1 .. L : i > 1 => i - 1 \in 1 .. L
         /\ L > 0 => L + 1 > 1 /\ (L + 1) - 1 = L /\ L \in 1 .. L
    BY <1>1
  <1>4. ASSUME s[n].of # ""
        PROVE  n > 1 /\ L > 0 /\ out[L] = s[n - 1] /\ s[n - 1].text = s[n].of
               /\ s[n].text = "" /\ ~s[n].flag
    <2>1. n > 1 /\ s[n - 1].text = s[n].of /\ s[n - 1].flag /\ s[n - 1].holes = {}
          /\ s[n].text = "" /\ ~s[n].flag
      BY <1>1, <1>4 DEF Paired
    <2>2. n > 1
      BY <2>1
    <2>3. n - 1 > 0
      BY <1>1, <2>2
    <2> QED BY <2>1, <2>3 DEF PrunedTo, L
  <1>5. Linked(b)
    <2> SUFFICES ASSUME NEW i \in 1 .. L + 1, b[i].of # ""
                 PROVE  i > 1 /\ b[i - 1].text = b[i].of /\ b[i].text = "" /\ ~b[i].flag
      BY <1>2 DEF Linked
    <2>1. CASE i \in 1 .. L
      <3>1. out[i].of # "" /\ b[i] = out[i]
        BY <1>2, <2>1
      <3>2. i > 1 /\ out[i - 1].text = out[i].of /\ out[i].text = "" /\ ~out[i].flag
        BY <2>1, <3>1 DEF PrunedTo, Linked, L
      <3>3. i > 1
        BY <3>2
      <3>4. i - 1 \in 1 .. L
        BY <1>11, <2>1, <3>3
      <3> QED BY <1>2, <3>1, <3>2, <3>4
    <2>2. CASE i = L + 1
      <3>1. b[i] = s[n] /\ s[n].of # ""
        BY <1>2, <2>2
      <3>2. n > 1 /\ L > 0 /\ out[L] = s[n - 1] /\ s[n - 1].text = s[n].of
               /\ s[n].text = "" /\ ~s[n].flag
        BY <1>4, <3>1
      <3>3. L > 0
        BY <3>2
      <3>4. i > 1 /\ i - 1 = L /\ L \in 1 .. L
        BY <1>11, <2>2, <3>3
      <3> QED BY <1>2, <3>1, <3>2, <3>4
    <2> QED BY <1>3, <2>1, <2>2
  <1>6. Followed(b)
    <2> SUFFICES ASSUME NEW i \in 1 .. L + 1, b[i].text \in ValueFlags
                 PROVE  b[i].flag /\ (i < L + 1 => b[i + 1].of = b[i].text)
      BY <1>2 DEF Followed
    <2>1. CASE i \in 1 .. L /\ i # L
      <3>1. b[i] = out[i] /\ i < L /\ i + 1 \in 1 .. L
        BY <1>1, <1>2, <2>1
      <3> QED BY <1>2, <2>1, <3>1 DEF PrunedTo, Followed, L
    <2>2. CASE i = L /\ L \in 1 .. L
      <3>1. b[i] = out[L] /\ L > 0 /\ i + 1 = L + 1 /\ b[i + 1] = s[n]
        BY <1>1, <1>2, <2>2
      <3>2. out[L].flag /\ n - 1 > 0 /\ out[L] = s[n - 1]
        BY <2>2, <3>1 DEF PrunedTo, Followed, L
      <3>3. n - 1 \in DOMAIN s /\ (n - 1) + 1 = n
        BY <1>1, <3>2
      <3>4. s[(n - 1) + 1].of = s[n - 1].text
        BY <3>1, <3>2, <3>3 DEF Paired
      <3> QED BY <3>1, <3>2, <3>3, <3>4
    <2>3. CASE i = L + 1
      <3>1. s[n].flag
        BY <1>1, <1>2, <2>3 DEF Paired
      <3>2. ~(i < L + 1)
        BY <1>1, <2>3
      <3> QED BY <1>2, <2>3, <3>1, <3>2
    <2>4. i \in 1 .. L \/ i = L + 1
      BY <1>3
    <2> QED BY <2>1, <2>2, <2>3, <2>4
  <1>7. From(s, n, b)
    <2>1. \A i \in 1 .. L : \E p \in 1 .. n - 1 : out[i] = s[p]
      BY DEF PrunedTo, From, L
    <2>2. \A p \in 1 .. n - 1 : p \in 1 .. n
      BY <1>1
    <2>3. n \in 1 .. n
      BY <1>1
    <2> QED BY <1>2, <1>3, <2>1, <2>2, <2>3 DEF From
  <1>8. OneJoin(b)
    <2>1. ASSUME NEW i \in 1 .. L, out[i].text \in JoinFlags, s[n].text \in JoinFlags PROVE FALSE
      <3>1. PICK p \in 1 .. n - 1 : out[i] = s[p]
        BY DEF PrunedTo, From, L
      <3>2. p \in 1 .. Len(s) /\ p # n
        BY <1>1
      <3> QED BY <2>1, <3>1, <3>2 DEF OneJoin
    <2>2. \A i, j \in 1 .. L : out[i].text \in JoinFlags /\ out[j].text \in JoinFlags => i = j
      BY DEF PrunedTo, OneJoin, L
    <2> QED BY <1>2, <1>3, <2>1, <2>2 DEF OneJoin
  <1>9. L + 1 > 0
    BY <1>1
  <1>10. PrunedTo(s, n, b)
    BY <1>1, <1>2, <1>5, <1>6, <1>7, <1>8, <1>9 DEF PrunedTo
  <1> QED BY <1>10 DEF b
LEMMA PruneDrops ==
  ASSUME NEW s, NEW n \in 1 .. Len(s), NEW out \in Seq(Arg), PrunedTo(s, n - 1, out),
         s[n].holes # {}, Len(out) > 0, out[Len(out)].flag, Len(s) \in Nat
  PROVE  PrunedTo(s, n, Front(out))
  <1> DEFINE b == Front(out)
             L == Len(out)
             m == L - 1
  <1>1. /\ L \in Nat /\ L > 0 /\ m \in Nat /\ n \in Nat /\ m + 1 = L
        /\ \A i \in 1 .. m : i \in 1 .. L /\ i < L /\ (i < m => i + 1 \in 1 .. m)
        /\ \A i \in 1 .. m : i > 1 => i - 1 \in 1 .. m
        /\ (m > 0 => m \in 1 .. m) /\ L \in 1 .. L
    <2>1. L \in Nat
      BY Indices
    <2> HIDE DEF L
    <2> QED BY <2>1 DEF L
  <1>2. Len(b) = m /\ \A i \in 1 .. m : b[i] = out[i]
    BY Fronted
  <1>3. ~(s[n].holes = {}) /\ out[L].flag
    OBVIOUS
  <1>4. Linked(out) /\ Followed(out) /\ OneJoin(out) /\ From(s, n - 1, out)
    BY DEF PrunedTo
  <1>5. \A p \in 1 .. n - 1 : p \in 1 .. n
    BY <1>1
  <1> HIDE DEF b, m
  <1>6. Linked(b)
    BY <1>1, <1>2, <1>4 DEF Linked
  <1>7. OneJoin(b)
    BY <1>1, <1>2, <1>4 DEF OneJoin
  <1>8. From(s, n, b)
    BY <1>1, <1>2, <1>4, <1>5 DEF From
  <1>9. Followed(b)
    <2> SUFFICES ASSUME NEW i \in 1 .. m, b[i].text \in ValueFlags
                 PROVE  b[i].flag /\ (i < m => b[i + 1].of = b[i].text)
      BY <1>2 DEF Followed
    <2>1. b[i] = out[i] /\ i \in 1 .. L /\ i < L /\ (i < m => b[i + 1] = out[i + 1])
      BY <1>1, <1>2
    <2> QED BY <1>4, <2>1 DEF Followed
  <1>10. ~(m > 0 /\ b[m].text \in ValueFlags)
    <2> SUFFICES ASSUME m > 0, b[m].text \in ValueFlags PROVE FALSE
      OBVIOUS
    <2>1. b[m] = out[m] /\ m \in 1 .. L /\ m < L /\ m + 1 = L /\ L \in 1 .. L
      BY <1>1, <1>2
    <2>2. out[L].of = out[m].text
      BY <1>4, <2>1 DEF Followed
    <2>3. out[L].of # ""
      BY <2>1, <2>2 DEF ValueFlags
    <2>4. ~out[L].flag
      BY <1>4, <2>1, <2>3 DEF Linked
    <2> QED BY <1>3, <2>4
  <1> HIDE DEF L
  <1> QED BY <1>2, <1>3, <1>6, <1>7, <1>8, <1>9, <1>10 DEF PrunedTo, b

LEMMA PruneSkips ==
  ASSUME NEW s, NEW n \in 1 .. Len(s), NEW out \in Seq(Arg), PrunedTo(s, n - 1, out),
         s[n].holes # {}, Len(out) > 0 => ~out[Len(out)].flag, Len(s) \in Nat
  PROVE  PrunedTo(s, n, out)
  <1>1. Len(out) \in Nat /\ (Len(out) > 0 => Len(out) \in 1 .. Len(out))
    <2>1. Len(out) \in Nat
      BY Indices
    <2> QED BY <2>1
  <1>2. \A p \in 1 .. n - 1 : p \in 1 .. n
    OBVIOUS
  <1>3. Linked(out) /\ Followed(out) /\ OneJoin(out) /\ From(s, n - 1, out)
    BY DEF PrunedTo
  <1>4. From(s, n, out)
    BY <1>2, <1>3 DEF From
  <1>5. ~(Len(out) > 0 /\ out[Len(out)].text \in ValueFlags)
    BY <1>1, <1>3 DEF Followed
  <1> QED BY <1>3, <1>4, <1>5 DEF PrunedTo

LEMMA PruneStepKeeps ==
  ASSUME NEW s, Paired(s), OneJoin(s), NEW n \in 1 .. Len(s), NEW out \in Seq(Arg), NEW known,
         PrunedTo(s, n - 1, out)
  PROVE  PrunedTo(s, n, PruneStep(known, out, s[n]))
  <1>1. Len(s) \in Nat
    <2>1. s \in Seq(Arg)
      BY DEF Paired
    <2> QED BY <2>1, Indices
  <1>2. CASE s[n].holes \subseteq known
    BY <1>2, PruneAppends DEF PruneStep
  <1>3. CASE ~(s[n].holes \subseteq known)
    <2>1. s[n].holes # {}
      BY <1>3
    <2>2. out # <<>> => Len(out) > 0
      BY EmptySeq
    <2>3. Len(out) > 0 => out # <<>>
      OBVIOUS
    <2>4. CASE Len(out) > 0 /\ out[Len(out)].flag
      <3>1. PruneStep(known, out, s[n]) = Front(out)
        BY <1>3, <2>3, <2>4 DEF PruneStep, Last
      <3> QED BY <1>1, <2>1, <2>4, <3>1, PruneDrops
    <2>5. CASE ~(Len(out) > 0 /\ out[Len(out)].flag)
      <3>1. PruneStep(known, out, s[n]) = out
        BY <1>3, <2>2, <2>5 DEF PruneStep, Last
      <3> QED BY <1>1, <2>1, <2>5, <3>1, PruneSkips
    <2> QED BY <2>4, <2>5
  <1> QED BY <1>2, <1>3

(* What Prune makes of a sequence of arguments.                            *)
LEMMA PruneType == ASSUME NEW E, NEW s \in Seq(E), NEW known PROVE Prune(s, known) \in Seq(E)
  <1> DEFINE A == Seq(E)
             G == (0 .. Len(s)) \X A
             v == Prune(s, known)
  <1>1. <<>> \in A /\ PruneStays(A, E, known)
    BY PruneStepType DEF PruneStays
  <1>2. Len(s) \in Nat /\ \A i \in 1 .. Len(s) : s[i] \in E
    BY Indices
  <1>3. PICK F \in [A \X E -> A] : RunEnds(A, v, <<>>, F, s)
    <2> HIDE DEF A
    <2>1. PruneRun(A, E, known, <<>>, s, v)
      BY <1>1, PruneRuns
    <2> QED BY <2>1 DEF PruneRun
  <1>4. <<0, <<>>>> \in G
    <2> DEFINE e == <<>>
    <2>1. e \in A /\ 0 \in 0 .. Len(s)
      BY <1>1, <1>2
    <2> HIDE DEF e, A
    <2>2. <<0, e>> \in G
      BY <2>1
    <2> QED BY <2>2 DEF e
  <1>5. Kept(G, A, F, s)
    <2> HIDE DEF A
    <2>1. \A n \in 1 .. Len(s), a \in A : F[<<a, s[n]>>] \in A /\ n \in 0 .. Len(s)
      BY <1>2
    <2> QED BY <2>1 DEF Kept
  <1> HIDE DEF A, G, v
  <1>6. <<Len(s), v>> \in G /\ v \in A
    BY <1>1, <1>3, <1>4, <1>5, RunKeeps
  <1> QED BY <1>6 DEF A, v

LEMMA PruneIs ==
  ASSUME NEW s, Paired(s), OneJoin(s), NEW known
  PROVE  /\ Prune(s, known) \in Seq(Arg)
         /\ PrunedTo(s, Len(s), Prune(s, known))
  <1> DEFINE A == Seq(Arg)
             v == Prune(s, known)
             G == {x \in (0 .. Len(s)) \X A : PrunedTo(s, x[1], x[2])}
  <1>0. s \in Seq(Arg)
    BY DEF Paired
  <1>1. <<>> \in A /\ PruneStays(A, Arg, known)
    BY PruneStepType DEF PruneStays
  <1>2. Len(s) \in Nat /\ \A i \in 1 .. Len(s) : s[i] \in Arg
    BY <1>0, Indices
  <1>3. PICK F \in [A \X Arg -> A] :
            /\ \A a \in A, e \in Arg : F[<<a, e>>] = PruneStep(known, a, e)
            /\ RunEnds(A, v, <<>>, F, s)
    <2> HIDE DEF A
    <2>1. PruneRun(A, Arg, known, <<>>, s, v)
      BY <1>0, <1>1, PruneRuns
    <2> QED BY <2>1 DEF PruneRun
  <1>4. <<0, <<>>>> \in G
    <2>1. PrunedTo(s, 0, <<>>)
      BY DEF PrunedTo, Linked, Followed, OneJoin, From
    <2>2. 0 \in 0 .. Len(s)
      BY <1>2
    <2> DEFINE e == <<>>
    <2>3. e \in A /\ PrunedTo(s, 0, e)
      BY <1>1, <2>1
    <2> HIDE DEF e, A
    <2>4. <<0, e>> \in G
      BY <2>2, <2>3
    <2> QED BY <2>4 DEF e
  <1>5. ASSUME NEW n \in 1 .. Len(s), NEW a \in A, <<n - 1, a>> \in G
        PROVE  <<n, F[<<a, s[n]>>]>> \in G
    <2>1. s[n] \in Arg /\ n \in 0 .. Len(s)
      BY <1>2
    <2> DEFINE b == PruneStep(known, a, s[n])
    <2>2. F[<<a, s[n]>>] = b /\ b \in A
      BY <1>1, <1>3, <2>1 DEF PruneStays
    <2>3. PrunedTo(s, n - 1, a)
      BY <1>5
    <2>4. PrunedTo(s, n, b)
      BY <2>3, PruneStepKeeps
    <2> HIDE DEF b
    <2> QED BY <2>1, <2>2, <2>4
  <1> HIDE DEF A, v
  <1>6. <<Len(s), v>> \in G /\ v \in A
    <2> HIDE DEF G
    <2>1. Kept(G, A, F, s)
      BY <1>5 DEF Kept
    <2> QED BY <1>0, <1>1, <1>3, <1>4, <2>1, RunKeeps
  <1> QED BY <1>6 DEF v, A
-----------------------------------------------------------------------------
(* FlattenSeq once more: what holds of no sequence and is kept by one more *)
(* holds of all of them.                                                   *)
GrowsIn(G, E, ss) ==
  \A m \in 0 .. Len(ss) - 1, flat \in Seq(E) :
    <<m, flat>> \in G => <<m + 1, flat \o ss[m + 1]>> \in G

LEMMA FlattenKeeps ==
  ASSUME NEW E, NEW ss \in Seq(Seq(E)), NEW G, NEW e, e = <<>>, <<0, e>> \in G, GrowsIn(G, E, ss)
  PROVE  <<Len(ss), FlattenSeq(ss)>> \in G
  <1>1. Len(ss) \in Nat /\ DOMAIN ss = 1 .. Len(ss) /\ \A i \in DOMAIN ss : ss[i] \in Seq(E)
    BY Indices
  <1>2. e \in Seq(E)
    OBVIOUS
  <1>3. CASE Len(ss) = 0
    <2>1. FlattenSeq(ss) = e
      BY <1>1, <1>3, EmptySeq DEF FlattenSeq
    <2> QED BY <1>3, <2>1
  <1>4. CASE Len(ss) # 0
    <2> DEFINE f == CHOOSE f : IsFlatten(f, ss, Len(ss))
    <2>1. FlattenSeq(ss) = f[Len(ss)]
      BY <1>4 DEF FlattenSeq, IsFlatten
    <2>2. IsFlatten(f, ss, Len(ss))
      BY <1>1, FlattenExists
    <2> HIDE DEF f
    <2> DEFINE P == {m \in 0 .. Len(ss) : m = 0 \/ (f[m] \in Seq(E) /\ <<m, f[m]>> \in G)}
    <2>3. 0 \in P
      BY <1>1
    <2>4. ASSUME NEW m \in 0 .. Len(ss), m \in P, m < Len(ss) PROVE m + 1 \in P
      <3>1. m \in Nat /\ m + 1 \in 1 .. Len(ss) /\ m + 1 \in 0 .. Len(ss) /\ m \in 0 .. Len(ss) - 1
        BY <1>1, <2>4
      <3>2. f[m + 1] = IF m + 1 = 1 THEN ss[m + 1] ELSE f[(m + 1) - 1] \o ss[m + 1]
        BY <2>2, <3>1 DEF IsFlatten
      <3>3. CASE m = 0
        <4>1. ss[1] \in Seq(E) /\ e \o ss[1] = ss[1]
          BY <1>1, <3>1, <3>3, ConcatEmptySeq
        <4>2. <<0 + 1, e \o ss[0 + 1]>> \in G
          BY <1>2, <3>1, <3>3 DEF GrowsIn
        <4> QED BY <3>1, <3>2, <3>3, <4>1, <4>2
      <3>4. CASE m # 0
        <4>1. f[m] \in Seq(E) /\ <<m, f[m]>> \in G
          BY <2>4, <3>4
        <4>2. <<m + 1, f[m] \o ss[m + 1]>> \in G
          BY <3>1, <4>1 DEF GrowsIn
        <4>3. m + 1 # 1 /\ (m + 1) - 1 = m
          BY <3>1, <3>4
        <4>4. f[m + 1] = f[m] \o ss[m + 1]
          BY <3>2, <4>3
        <4>5. f[m] \o ss[m + 1] \in Seq(E)
          BY <1>1, <3>1, <4>1, ConcatProperties
        <4> QED BY <3>1, <4>2, <4>4, <4>5
      <3> QED BY <3>3, <3>4
    <2>5. 0 .. Len(ss) \subseteq P
      <3> HIDE DEF P
      <3> QED BY <1>1, <2>3, <2>4, UpTo
    <2>6. Len(ss) \in 0 .. Len(ss)
      BY <1>1
    <2>7. Len(ss) \in P
      BY <2>5, <2>6
    <2> QED BY <1>4, <2>1, <2>7
  <1> QED BY <1>3, <1>4

(* Well-formed lists of arguments, one behind the other, make one.         *)
LEMMA PairedConcat ==
  ASSUME NEW s, NEW t, Paired(s), Paired(t) PROVE Paired(s \o t)
  <1> DEFINE u == s \o t
             l == Len(s)
             m == Len(t)
  <1>1. s \in Seq(Arg) /\ t \in Seq(Arg)
    BY DEF Paired
  <1>2. /\ u \in Seq(Arg) /\ Len(u) = l + m
        /\ \A p \in 1 .. l + m : u[p] = IF p <= l THEN s[p] ELSE t[p - l]
    BY <1>1, ConcatProperties
  <1>3. /\ l \in Nat /\ m \in Nat
        /\ DOMAIN s = 1 .. l /\ DOMAIN t = 1 .. m /\ DOMAIN u = 1 .. l + m
    BY <1>1, <1>2, Indices
  <1>4. /\ \A i \in 1 .. l : s[i].of # "" =>
             /\ i > 1 /\ s[i - 1].text = s[i].of /\ s[i - 1].flag /\ s[i - 1].holes = {}
             /\ s[i].text = "" /\ ~s[i].flag
        /\ \A i \in 1 .. l : s[i].text \in ValueFlags =>
             /\ s[i].flag /\ s[i].holes = {} /\ i < l /\ s[i + 1].of = s[i].text
    BY <1>3 DEF Paired
  <1>5. /\ \A i \in 1 .. m : t[i].of # "" =>
             /\ i > 1 /\ t[i - 1].text = t[i].of /\ t[i - 1].flag /\ t[i - 1].holes = {}
             /\ t[i].text = "" /\ ~t[i].flag
        /\ \A i \in 1 .. m : t[i].text \in ValueFlags =>
             /\ t[i].flag /\ t[i].holes = {} /\ i < m /\ t[i + 1].of = t[i].text
    BY <1>3 DEF Paired
  <1> HIDE DEF u, l, m
  <1>6. ASSUME NEW i \in 1 .. l
        PROVE  /\ i \in 1 .. l + m /\ u[i] = s[i]
               /\ i > 1 => u[i - 1] = s[i - 1]
               /\ i < l => i < l + m /\ u[i + 1] = s[i + 1]
    <2>1. i \in 1 .. l + m /\ i <= l
      BY <1>3
    <2>2. i > 1 => i - 1 \in 1 .. l + m /\ i - 1 <= l
      BY <1>3
    <2>3. i < l => i + 1 \in 1 .. l + m /\ i + 1 <= l /\ i < l + m
      BY <1>3
    <2> QED BY <1>2, <2>1, <2>2, <2>3
  <1>7. ASSUME NEW i \in 1 .. m
        PROVE  /\ l + i \in 1 .. l + m /\ u[l + i] = t[i]
               /\ i > 1 => l + i > 1 /\ u[(l + i) - 1] = t[i - 1]
               /\ i < m => l + i < l + m /\ u[(l + i) + 1] = t[i + 1]
    <2>1. l + i \in 1 .. l + m /\ ~(l + i <= l) /\ (l + i) - l = i
      BY <1>3
    <2>2. i > 1 => (l + i) - 1 \in 1 .. l + m /\ ~((l + i) - 1 <= l) /\ ((l + i) - 1) - l = i - 1
                   /\ l + i > 1
      BY <1>3
    <2>3. i < m => (l + i) + 1 \in 1 .. l + m /\ ~((l + i) + 1 <= l) /\ ((l + i) + 1) - l = i + 1
                   /\ l + i < l + m
      BY <1>3
    <2> QED BY <1>2, <2>1, <2>2, <2>3
  <1>8. ASSUME NEW p \in 1 .. l + m PROVE p \in 1 .. l \/ \E i \in 1 .. m : p = l + i
    <2>1. p \in 1 .. l \/ (p - l \in 1 .. m /\ p = l + (p - l))
      BY <1>3
    <2> QED BY <2>1
  <1>9. ASSUME NEW p \in 1 .. l + m, u[p].of # ""
        PROVE  /\ p > 1 /\ u[p - 1].text = u[p].of /\ u[p - 1].flag /\ u[p - 1].holes = {}
               /\ u[p].text = "" /\ ~u[p].flag
    <2>1. CASE p \in 1 .. l
      <3>1. u[p] = s[p]
        BY <1>6, <2>1
      <3>2. /\ p > 1 /\ s[p - 1].text = s[p].of /\ s[p - 1].flag /\ s[p - 1].holes = {}
            /\ s[p].text = "" /\ ~s[p].flag
        BY <1>4, <1>9, <2>1, <3>1
      <3>3. u[p - 1] = s[p - 1]
        BY <1>6, <2>1, <3>2
      <3> QED BY <3>1, <3>2, <3>3
    <2>2. ASSUME NEW i \in 1 .. m, p = l + i
          PROVE  /\ p > 1 /\ u[p - 1].text = u[p].of /\ u[p - 1].flag /\ u[p - 1].holes = {}
                 /\ u[p].text = "" /\ ~u[p].flag
      <3>1. u[p] = t[i]
        BY <1>7, <2>2
      <3>2. /\ i > 1 /\ t[i - 1].text = t[i].of /\ t[i - 1].flag /\ t[i - 1].holes = {}
            /\ t[i].text = "" /\ ~t[i].flag
        BY <1>5, <1>9, <3>1
      <3>3. p > 1 /\ u[p - 1] = t[i - 1]
        BY <1>7, <2>2, <3>2
      <3> QED BY <3>1, <3>2, <3>3
    <2> QED BY <1>8, <2>1, <2>2
  <1>10. ASSUME NEW p \in 1 .. l + m, u[p].text \in ValueFlags
         PROVE  u[p].flag /\ u[p].holes = {} /\ p < l + m /\ u[p + 1].of = u[p].text
    <2>1. CASE p \in 1 .. l
      <3>1. u[p] = s[p]
        BY <1>6, <2>1
      <3>2. s[p].flag /\ s[p].holes = {} /\ p < l /\ s[p + 1].of = s[p].text
        BY <1>4, <1>10, <2>1, <3>1
      <3>3. p < l + m /\ u[p + 1] = s[p + 1]
        BY <1>6, <2>1, <3>2
      <3> QED BY <3>1, <3>2, <3>3
    <2>2. ASSUME NEW i \in 1 .. m, p = l + i
          PROVE  u[p].flag /\ u[p].holes = {} /\ p < l + m /\ u[p + 1].of = u[p].text
      <3>1. u[p] = t[i]
        BY <1>7, <2>2
      <3>2. t[i].flag /\ t[i].holes = {} /\ i < m /\ t[i + 1].of = t[i].text
        BY <1>5, <1>10, <3>1
      <3>3. p < l + m /\ u[p + 1] = t[i + 1]
        BY <1>7, <2>2, <3>2
      <3> QED BY <3>1, <3>2, <3>3
    <2> QED BY <1>8, <2>1, <2>2
  <1>11. Paired(u)
    <2>1. u \in Seq(Arg) /\ DOMAIN u = 1 .. l + m /\ Len(u) = l + m
      BY <1>2, <1>3
    <2>2. \A p \in 1 .. l + m : u[p].of # "" =>
             /\ p > 1 /\ u[p - 1].text = u[p].of /\ u[p - 1].flag /\ u[p - 1].holes = {}
             /\ u[p].text = "" /\ ~u[p].flag
      BY <1>9
    <2>3. \A p \in 1 .. l + m : u[p].text \in ValueFlags =>
             /\ u[p].flag /\ u[p].holes = {} /\ p < l + m /\ u[p + 1].of = u[p].text
      BY <1>10
    <2> QED BY <2>1, <2>2, <2>3 DEF Paired
  <1> QED BY <1>11 DEF u
(* The lists flatten puts one behind the other.                            *)
Spread(entries, o) ==
  [i \in DOMAIN entries |->
     IF RulesAllow(entries[i].rules, PlatformOf(o), FeaturesOf(o)) THEN entries[i].value ELSE <<>>]

LEMMA SpreadIs ==
  ASSUME NEW entries, IsSequence(entries), NEW E, \A e \in ToSet(entries) : e.value \in Seq(E), NEW o
  PROVE  /\ Spread(entries, o) \in Seq(Seq(E)) /\ Len(Spread(entries, o)) = Len(entries)
         /\ DOMAIN entries = 1 .. Len(entries) /\ Len(entries) \in Nat
         /\ \A k \in 1 .. Len(entries) :
              Spread(entries, o)[k] = entries[k].value \/ Spread(entries, o)[k] = <<>>
         /\ Flatten(entries, o) = FlattenSeq(Spread(entries, o))
  <1> DEFINE ss == Spread(entries, o)
             l  == Len(entries)
  <1>1. l \in Nat /\ DOMAIN entries = 1 .. l
    BY DEF IsSequence
  <1>2. \A k \in 1 .. l : entries[k] \in ToSet(entries)
    BY <1>1 DEF ToSet
  <1>3. \A k \in 1 .. l : ss[k] = entries[k].value \/ ss[k] = <<>>
    BY <1>1 DEF Spread
  <1>4. ss = [k \in 1 .. l |-> ss[k]]
    BY <1>1 DEF Spread
  <1>5. Flatten(entries, o) = FlattenSeq(ss)
    BY DEF Flatten, Spread
  <1> HIDE DEF ss, l
  <1>6. ss \in [1 .. l -> Seq(E)]
    <2>1. <<>> \in Seq(E)
      BY EmptySeq
    <2>2. \A k \in 1 .. l : ss[k] \in Seq(E)
      BY <1>2, <1>3, <2>1
    <2> QED BY <1>4, <2>2
  <1>7. ss \in Seq(Seq(E)) /\ Len(ss) = l
    BY <1>1, <1>6, LenProperties DEF Seq
  <1> QED BY <1>1, <1>3, <1>5, <1>7 DEF ss, l

(* Lists that are well formed each, and join a server in one place of all. *)
JoinsOnce(ss) ==
  \A k, l \in 1 .. Len(ss) : \A p \in 1 .. Len(ss[k]), q \in 1 .. Len(ss[l]) :
    ss[k][p].text \in JoinFlags /\ ss[l][q].text \in JoinFlags => k = l /\ p = q
ComesFrom(ss, m, flat) ==
  \A i \in 1 .. Len(flat) : \E k \in 1 .. m : \E p \in 1 .. Len(ss[k]) : flat[i] = ss[k][p]

LEMMA ComesFromGrows ==
  ASSUME NEW ss \in Seq(Seq(Arg)), NEW m \in 0 .. Len(ss) - 1, NEW flat \in Seq(Arg),
         ComesFrom(ss, m, flat)
  PROVE  /\ ComesFrom(ss, m + 1, flat \o ss[m + 1])
         /\ JoinsOnce(ss) /\ OneJoin(flat) => OneJoin(flat \o ss[m + 1])
  <1> DEFINE t == ss[m + 1]
             u == flat \o t
             l == Len(flat)
             n == Len(t)
  <1>1. /\ Len(ss) \in Nat /\ m \in Nat /\ m + 1 \in 1 .. Len(ss)
        /\ \A k \in 1 .. m : k \in 1 .. m + 1 /\ k \in 1 .. Len(ss) /\ k # m + 1
        /\ m + 1 \in 1 .. m + 1
    <2>1. Len(ss) \in Nat
      BY Indices
    <2> QED BY <2>1
  <1>2. t \in Seq(Arg)
    BY <1>1, Indices
  <1> HIDE DEF t
  <1>3. /\ l \in Nat /\ n \in Nat /\ Len(u) = l + n
        /\ \A p \in 1 .. l + n : u[p] = IF p <= l THEN flat[p] ELSE t[p - l]
    BY <1>2, Indices, ConcatProperties
  <1> HIDE DEF u, l, n
  <1>4. ASSUME NEW p \in 1 .. l + n
        PROVE  (p \in 1 .. l /\ u[p] = flat[p]) \/ (p - l \in 1 .. n /\ u[p] = t[p - l])
    <2>1. (p \in 1 .. l /\ p <= l) \/ (p - l \in 1 .. n /\ ~(p <= l))
      BY <1>3
    <2> QED BY <1>3, <2>1
  <1>5. \A i \in 1 .. l : \E k \in 1 .. m : \E p \in 1 .. Len(ss[k]) : flat[i] = ss[k][p]
    BY DEF ComesFrom, l
  <1>6. ComesFrom(ss, m + 1, u)
    <2> SUFFICES ASSUME NEW i \in 1 .. l + n
                 PROVE  \E k \in 1 .. m + 1 : \E p \in 1 .. Len(ss[k]) : u[i] = ss[k][p]
      BY <1>3 DEF ComesFrom
    <2>1. CASE i \in 1 .. l /\ u[i] = flat[i]
      BY <1>1, <1>5, <2>1
    <2>2. CASE i - l \in 1 .. n /\ u[i] = t[i - l]
      BY <1>1, <2>2 DEF t, n
    <2> QED BY <1>4, <2>1, <2>2
  <1>7. ASSUME JoinsOnce(ss), OneJoin(flat) PROVE OneJoin(u)
    <2>1. ASSUME NEW i \in 1 .. l, NEW j \in 1 .. n, flat[i].text \in JoinFlags, t[j].text \in JoinFlags
          PROVE  FALSE
      <3>1. PICK k \in 1 .. m : \E p \in 1 .. Len(ss[k]) : flat[i] = ss[k][p]
        BY <1>5
      <3>2. PICK p \in 1 .. Len(ss[k]) : flat[i] = ss[k][p]
        BY <3>1
      <3>3. k = m + 1
        BY <1>1, <1>7, <2>1, <3>2 DEF JoinsOnce, t, n
      <3> QED BY <1>1, <3>3
    <2>2. ASSUME NEW i \in 1 .. n, NEW j \in 1 .. n, t[i].text \in JoinFlags, t[j].text \in JoinFlags
          PROVE  i = j
      BY <1>1, <1>7, <2>2 DEF JoinsOnce, t, n
    <2>3. ASSUME NEW i \in 1 .. l, NEW j \in 1 .. l, flat[i].text \in JoinFlags, flat[j].text \in JoinFlags
          PROVE  i = j
      BY <1>7, <2>3 DEF OneJoin, l
    <2> SUFFICES ASSUME NEW i \in 1 .. l + n, NEW j \in 1 .. l + n,
                        u[i].text \in JoinFlags, u[j].text \in JoinFlags
                 PROVE  i = j
      BY <1>3 DEF OneJoin
    <2>4. CASE i \in 1 .. l /\ u[i] = flat[i]
      <3>1. CASE j \in 1 .. l /\ u[j] = flat[j]
        BY <2>3, <2>4, <3>1
      <3>2. CASE j - l \in 1 .. n /\ u[j] = t[j - l]
        BY <2>1, <2>4, <3>2
      <3> QED BY <1>4, <3>1, <3>2
    <2>5. CASE i - l \in 1 .. n /\ u[i] = t[i - l]
      <3>1. CASE j \in 1 .. l /\ u[j] = flat[j]
        BY <2>1, <2>5, <3>1
      <3>2. CASE j - l \in 1 .. n /\ u[j] = t[j - l]
        <4>1. i - l = j - l
          BY <2>2, <2>5, <3>2
        <4> QED BY <1>3, <4>1
      <3> QED BY <1>4, <3>1, <3>2
    <2> QED BY <1>4, <2>4, <2>5
  <1> QED BY <1>6, <1>7 DEF u, t

LEMMA FlattenPaired ==
  ASSUME NEW ss \in Seq(Seq(Arg)), \A k \in 1 .. Len(ss) : Paired(ss[k]), JoinsOnce(ss)
  PROVE  /\ Paired(FlattenSeq(ss)) /\ OneJoin(FlattenSeq(ss))
         /\ ComesFrom(ss, Len(ss), FlattenSeq(ss))
  <1> DEFINE G == {x \in (0 .. Len(ss)) \X Seq(Arg) :
                     Paired(x[2]) /\ OneJoin(x[2]) /\ ComesFrom(ss, x[1], x[2])}
             e == <<>>
             v == FlattenSeq(ss)
  <1>1. Len(ss) \in Nat
    BY Indices
  <1>2. <<0, e>> \in G
    <2>1. e \in Seq(Arg) /\ Len(e) = 0 /\ DOMAIN e = {} /\ 1 .. 0 = {} /\ 0 \in 0 .. Len(ss)
      BY <1>1
    <2> HIDE DEF e
    <2>2. Paired(e) /\ OneJoin(e) /\ ComesFrom(ss, 0, e)
      BY <2>1 DEF Paired, OneJoin, ComesFrom
    <2> QED BY <2>1, <2>2
  <1>3. ASSUME NEW m \in 0 .. Len(ss) - 1, NEW flat \in Seq(Arg), <<m, flat>> \in G
        PROVE  <<m + 1, flat \o ss[m + 1]>> \in G
    <2>1. Paired(flat) /\ OneJoin(flat) /\ ComesFrom(ss, m, flat)
      BY <1>3
    <2>2. m + 1 \in 0 .. Len(ss) /\ m + 1 \in 1 .. Len(ss)
      BY <1>1
    <2> DEFINE u == flat \o ss[m + 1]
    <2>3. Paired(u)
      BY <2>1, <2>2, PairedConcat
    <2>4. OneJoin(u) /\ ComesFrom(ss, m + 1, u)
      BY <2>1, ComesFromGrows
    <2>5. u \in Seq(Arg)
      <3> HIDE DEF u
      <3> QED BY <2>3 DEF Paired
    <2> DEFINE k == m + 1
    <2> HIDE DEF u
    <2>6. k \in 0 .. Len(ss) /\ ComesFrom(ss, k, u)
      BY <2>2, <2>4
    <2> HIDE DEF k
    <2>7. <<k, u>> \in G
      BY <2>3, <2>4, <2>5, <2>6
    <2> QED BY <2>7 DEF u, k
  <1>4. GrowsIn(G, Arg, ss)
    <2> HIDE DEF G
    <2> QED BY <1>3 DEF GrowsIn
  <1>5. <<Len(ss), v>> \in G
    <2> HIDE DEF G
    <2>1. e = <<>>
      OBVIOUS
    <2> HIDE DEF e
    <2> QED BY <1>2, <1>4, <2>1, FlattenKeeps
  <1> HIDE DEF v
  <1>6. Paired(v) /\ OneJoin(v) /\ ComesFrom(ss, Len(ss), v)
    BY <1>5
  <1> QED BY <1>6 DEF v
(* The arguments of the merged version are those of one that is published. *)
ArgumentsFit(args) ==
  /\ IsSequence(args) /\ Len(args) <= 1
  /\ \A a \in ToSet(args) :
       /\ IsSequence(a.jvm) /\ \A e \in ToSet(a.jvm) : e.value \in Seq(Arg)
       /\ IsSequence(a.game)
       /\ \A e \in ToSet(a.game) : Paired(e.value) /\ Joins(e.value, "--server") = {}
       /\ \A k, l \in DOMAIN a.game :
            \A p \in Joins(a.game[k].value, "--quickPlayMultiplayer"),
               q \in Joins(a.game[l].value, "--quickPlayMultiplayer") : k = l /\ p = q
LegacyFits(s) ==
  /\ Paired(s) /\ Joins(s, "--quickPlayMultiplayer") = {}
  /\ \A p, q \in Joins(s, "--server") : p = q

LEMMA PairedEmpty == Paired(<<>>)
  <1> DEFINE e == <<>>
  <1>1. e \in Seq(Arg) /\ Len(e) = 0 /\ DOMAIN e = {}
    OBVIOUS
  <1> HIDE DEF e
  <1>2. Paired(e)
    BY <1>1 DEF Paired
  <1> QED BY <1>2 DEF e

LEMMA NothingFits == ArgumentsFit(<<>>) /\ LegacyFits(<<>>)
  <1> DEFINE e == <<>>
  <1>1. Paired(e)
    BY PairedEmpty
  <1>2. DOMAIN e = {} /\ Len(e) = 0 /\ ToSet(e) = {} /\ e = [i \in 1 .. 0 |-> e[i]]
    BY DEF ToSet
  <1> HIDE DEF e
  <1>3. IsSequence(e)
    BY <1>2 DEF IsSequence
  <1>4. ArgumentsFit(e)
    BY <1>2, <1>3 DEF ArgumentsFit
  <1>5. LegacyFits(e)
    BY <1>1, <1>2 DEF LegacyFits, Joins
  <1> QED BY <1>4, <1>5 DEF e

LEMMA ResolvedFits ==
  ASSUME ManifestsWellFormed, ChainInv
  PROVE  ArgumentsFit(Resolved.arguments) /\ LegacyFits(Resolved.legacy)
  <1> DEFINE rs == Reverse(chain)
             l  == Len(chain)
             A  == {i \in DOMAIN rs : rs[i].arguments # <<>>}
             L  == {i \in DOMAIN rs : rs[i].legacy # <<>>}
  <1>1. l \in Nat /\ \A i \in 1 .. l : chain[i] \in Parsed
    BY Indices DEF ChainInv
  <1>2. DOMAIN rs = 1 .. l /\ \A i \in 1 .. l : rs[i] = chain[l - i + 1]
    BY <1>1 DEF Reverse
  <1>3. \A i \in 1 .. l : rs[i] \in Parsed
    <2> HIDE DEF rs, l
    <2>1. \A i \in 1 .. l : l - i + 1 \in 1 .. l
      BY <1>1
    <2> QED BY <1>1, <1>2, <2>1
  <1>4. \A v \in Parsed : ArgumentsFit(v.arguments) /\ LegacyFits(v.legacy)
    <2> SUFFICES ASSUME NEW id \in DOMAIN File
                 PROVE  ArgumentsFit(File[id].arguments) /\ LegacyFits(File[id].minecraftArguments)
      BY DEF Parsed, ParseVersion
    <2> QED BY DEF ManifestsWellFormed, ArgumentsFit, LegacyFits
  <1>5. Resolved.arguments = IF A = {} THEN <<>> ELSE rs[Max(A)].arguments
    BY DEF Resolved, MergeChain, Nearest
  <1>6. Resolved.legacy = IF L = {} THEN <<>> ELSE rs[Max(L)].legacy
    BY DEF Resolved, MergeChain, Nearest
  <1> HIDE DEF rs, l
  <1>7. A \in SUBSET (1 .. l) /\ L \in SUBSET (1 .. l)
    BY <1>2
  <1> HIDE DEF A, L
  <1>8. A # {} => Max(A) \in 1 .. l
    BY <1>1, <1>7, MaxOfSome
  <1>9. L # {} => Max(L) \in 1 .. l
    BY <1>1, <1>7, MaxOfSome
  <1>10. ArgumentsFit(Resolved.arguments)
    BY <1>3, <1>4, <1>5, <1>8, NothingFits
  <1>11. LegacyFits(Resolved.legacy)
    BY <1>3, <1>4, <1>6, <1>9, NothingFits
  <1> QED BY <1>10, <1>11

(* The templates of the game: well formed, they join a server in one place *)
(* at most, and do not use the flag the launcher would not use.            *)
NoText(s, t) == \A i \in 1 .. Len(s) : s[i].text # t
Unused(r) == IF QuickPlayCapable(r) THEN "--server" ELSE "--quickPlayMultiplayer"

LEMMA ModernTemplates ==
  ASSUME NEW r, ArgumentsFit(r.arguments), Modern(r), NEW o
  PROVE  /\ Paired(Templates(r, o)) /\ OneJoin(Templates(r, o))
         /\ NoText(Templates(r, o), Unused(r))
  <1> DEFINE a  == r.arguments[1]
             es == a.game
             ss == Spread(es, o)
             t  == FlattenSeq(ss)
  <1>1. a \in ToSet(r.arguments)
    <2>1. Len(r.arguments) \in Nat /\ r.arguments = [i \in 1 .. Len(r.arguments) |-> r.arguments[i]]
      BY DEF ArgumentsFit, IsSequence
    <2>2. Len(r.arguments) # 0
      BY <2>1 DEF Modern
    <2>3. 1 \in DOMAIN r.arguments
      BY <2>1, <2>2
    <2> QED BY <2>3 DEF ToSet
  <1>2. /\ IsSequence(es)
        /\ \A e \in ToSet(es) : Paired(e.value) /\ Joins(e.value, "--server") = {}
        /\ \A k, l \in DOMAIN es :
             \A p \in Joins(es[k].value, "--quickPlayMultiplayer"),
                q \in Joins(es[l].value, "--quickPlayMultiplayer") : k = l /\ p = q
    BY <1>1 DEF ArgumentsFit
  <1>3. \A e \in ToSet(es) : e.value \in Seq(Arg)
    BY <1>2 DEF Paired
  <1>4. ~QuickPlayCapable(r) => \A e \in ToSet(es) : ~HasFlag(e.value, "--quickPlayMultiplayer")
    <2>1. \A e \in ToSet(es) : e \in UNION {ToSet(b.game) : b \in ToSet(r.arguments)}
      BY <1>1
    <2> QED BY <2>1 DEF QuickPlayCapable
  <1>5. Templates(r, o) = Flatten(es, o)
    BY DEF Templates
  <1> HIDE DEF a, es
  <1>6. /\ ss \in Seq(Seq(Arg)) /\ Len(ss) = Len(es)
        /\ DOMAIN es = 1 .. Len(es) /\ Len(es) \in Nat
        /\ \A k \in 1 .. Len(es) : ss[k] = es[k].value \/ ss[k] = <<>>
        /\ Flatten(es, o) = t
    BY <1>2, <1>3, SpreadIs
  <1> HIDE DEF ss
  <1>7. \A k \in 1 .. Len(ss) : es[k] \in ToSet(es) /\ k \in DOMAIN es
    BY <1>6 DEF ToSet
  <1>8. \A k \in 1 .. Len(ss) : Paired(ss[k])
    BY <1>2, <1>6, <1>7, PairedEmpty
  <1>9. ASSUME NEW k \in 1 .. Len(ss), NEW p \in 1 .. Len(ss[k])
        PROVE  /\ ss[k][p] = es[k].value[p] /\ p \in DOMAIN es[k].value
               /\ ss[k][p].text # "--server"
    <2>1. ss[k] # <<>>
      <3>1. Len(<<>>) = 0
        OBVIOUS
      <3> QED BY <1>9, <3>1
    <2>2. ss[k] = es[k].value /\ ss[k] \in Seq(Arg)
      BY <1>6, <2>1, Indices
    <2>3. p \in DOMAIN ss[k]
      BY <2>2, Indices
    <2>4. Joins(es[k].value, "--server") = {}
      BY <1>2, <1>7
    <2> QED BY <2>2, <2>3, <2>4 DEF Joins
  <1>10. JoinsOnce(ss)
    <2> SUFFICES ASSUME NEW k \in 1 .. Len(ss), NEW l \in 1 .. Len(ss),
                        NEW p \in 1 .. Len(ss[k]), NEW q \in 1 .. Len(ss[l]),
                        ss[k][p].text \in JoinFlags, ss[l][q].text \in JoinFlags
                 PROVE  k = l /\ p = q
      BY DEF JoinsOnce
    <2>1. p \in Joins(es[k].value, "--quickPlayMultiplayer")
      BY <1>9 DEF JoinFlags, Joins
    <2>2. q \in Joins(es[l].value, "--quickPlayMultiplayer")
      BY <1>9 DEF JoinFlags, Joins
    <2> QED BY <1>2, <1>7, <2>1, <2>2
  <1>11. Paired(t) /\ OneJoin(t) /\ ComesFrom(ss, Len(ss), t)
    BY <1>6, <1>8, <1>10, FlattenPaired
  <1> HIDE DEF t
  <1>12. NoText(t, Unused(r))
    <2> SUFFICES ASSUME NEW i \in 1 .. Len(t), t[i].text = Unused(r) PROVE FALSE
      BY DEF NoText
    <2>1. PICK k \in 1 .. Len(ss) : \E p \in 1 .. Len(ss[k]) : t[i] = ss[k][p]
      BY <1>11 DEF ComesFrom
    <2>2. PICK p \in 1 .. Len(ss[k]) : t[i] = ss[k][p]
      BY <2>1
    <2>3. es[k].value[p].text = Unused(r) /\ p \in DOMAIN es[k].value /\ Unused(r) # "--server"
      BY <1>9, <2>2
    <2>4. ~QuickPlayCapable(r) /\ HasFlag(es[k].value, "--quickPlayMultiplayer")
      BY <2>3 DEF Unused, HasFlag
    <2> QED BY <1>4, <1>7, <2>4
  <1> QED BY <1>5, <1>6, <1>11, <1>12

LEMMA TemplatesFit ==
  ASSUME NEW r, ArgumentsFit(r.arguments), LegacyFits(r.legacy), NEW o
  PROVE  /\ Paired(Templates(r, o)) /\ OneJoin(Templates(r, o))
         /\ NoText(Templates(r, o), Unused(r))
  <1>1. CASE Modern(r)
    BY <1>1, ModernTemplates
  <1>2. CASE ~Modern(r)
    <2> DEFINE s == r.legacy
    <2>1. Templates(r, o) = s
      BY <1>2 DEF Templates
    <2>2. ~QuickPlayCapable(r)
      <3> SUFFICES ASSUME NEW b \in ToSet(r.arguments), NEW e \in ToSet(b.game) PROVE FALSE
        BY DEF QuickPlayCapable
      <3>1. /\ Len(r.arguments) \in Nat /\ Len(r.arguments) <= 1
            /\ r.arguments = [i \in 1 .. Len(r.arguments) |-> r.arguments[i]]
        BY DEF ArgumentsFit, IsSequence
      <3>2. PICK i \in DOMAIN r.arguments : b = r.arguments[i]
        BY DEF ToSet
      <3>3. i = 1
        BY <3>1, <3>2
      <3>4. r.arguments # <<>>
        <4>1. DOMAIN r.arguments # {}
          BY <3>2
        <4> QED BY <4>1
      <3>5. r.arguments[1].game = <<>>
        BY <1>2, <3>4 DEF Modern
      <3>6. b.game = <<>>
        BY <3>2, <3>3, <3>5
      <3> QED BY <3>6 DEF ToSet
    <2>3. Paired(s) /\ Joins(s, "--quickPlayMultiplayer") = {} /\ \A p, q \in Joins(s, "--server") : p = q
      BY DEF LegacyFits
    <2> HIDE DEF s
    <2>4. DOMAIN s = 1 .. Len(s)
      BY <2>3, Indices DEF Paired
    <2>5. \A i \in 1 .. Len(s) : s[i].text # "--quickPlayMultiplayer"
      BY <2>3, <2>4 DEF Joins
    <2>6. OneJoin(s)
      BY <2>3, <2>4, <2>5 DEF OneJoin, Joins, JoinFlags
    <2>7. NoText(s, Unused(r))
      BY <2>2, <2>5 DEF NoText, Unused
    <2> QED BY <2>1, <2>3, <2>6, <2>7
  <1> QED BY <1>1, <1>2
(* What the launcher adds itself.  Of its texts the provers do not know    *)
(* that they are in STRING, so that its arguments are added to Arg.        *)
OwnFlags == {"-Xmx", "-cp", "--width", "--height", "--fullscreen", "--demo",
             "--server", "--port", "--quickPlayMultiplayer"}
OwnProperties == {"-Dlauncher.brand", "-Djava.library.path", "-Djna.tmpdir", "-Duser.home",
                  "-Djava.awt.headless", "-Dawt.toolkit", "-Xbootclasspath/p", "-javaagent",
                  "-Drc.awt.bridge", "-Dlog4j.config"}
AnyArg == Arg \cup {Flag(f, "launcher") : f \in OwnFlags}
           \cup {Value({}, f, "launcher") : f \in OwnFlags}
           \cup {Property(t, {}, "launcher") : t \in OwnProperties}

(* What the launcher makes of the templates.                               *)
Completed(s) ==
  \A i \in 1 .. Len(s) : s[i].text \in ValueFlags => i < Len(s) /\ s[i + 1].of = s[i].text
GoodGame(s, g) ==
  s \in Seq(AnyArg) /\ Linked(s) /\ Completed(s) /\ OneJoin(s) /\ NoText(s, g)

LEMMA PrunedIsGood ==
  ASSUME NEW s, Paired(s), OneJoin(s), NEW g, NoText(s, g), NEW known
  PROVE  GoodGame(Prune(s, known), g)
  <1> DEFINE out == Prune(s, known)
             L   == Len(out)
             n   == Len(s)
  <1>1. out \in Seq(Arg) /\ PrunedTo(s, n, out)
    BY PruneIs
  <1> HIDE DEF out
  <1>2. L \in Nat /\ n \in Nat /\ DOMAIN s = 1 .. n
    <2>1. s \in Seq(Arg)
      BY DEF Paired
    <2> QED BY <1>1, <2>1, Indices
  <1>3. Linked(out) /\ Followed(out) /\ OneJoin(out) /\ From(s, n, out)
    BY <1>1 DEF PrunedTo
  <1>4. L > 0 => out[L].text \notin ValueFlags
    <2> SUFFICES ASSUME L > 0, out[L].text \in ValueFlags PROVE FALSE
      OBVIOUS
    <2>1. n > 0 /\ out[L] = s[n]
      BY <1>1 DEF PrunedTo
    <2>2. n \in DOMAIN s /\ ~(n < n)
      BY <1>2, <2>1
    <2> QED BY <2>1, <2>2 DEF Paired
  <1>5. Completed(out)
    <2> SUFFICES ASSUME NEW i \in 1 .. L, out[i].text \in ValueFlags
                 PROVE  i < L /\ out[i + 1].of = out[i].text
      BY DEF Completed
    <2>1. L > 0 /\ (i < L \/ i = L)
      BY <1>2
    <2>2. i # L
      BY <1>4, <2>1
    <2> QED BY <1>3, <2>1, <2>2 DEF Followed
  <1>6. NoText(out, g)
    BY <1>3 DEF NoText, From
  <1>8. out \in Seq(AnyArg)
    <2>1. Arg \subseteq AnyArg
      BY DEF AnyArg
    <2> QED BY <1>1, <2>1, Wider
  <1>7. GoodGame(out, g)
    BY <1>3, <1>5, <1>6, <1>8 DEF GoodGame
  <1> QED BY <1>7 DEF out

NoJoin(s) == \A i \in 1 .. Len(s) : s[i].text \notin JoinFlags
FitsBehind(s, a, g) ==
  /\ a.text \notin ValueFlags /\ a.text # g
  /\ a.of # "" => Len(s) > 0 /\ s[Len(s)].text = a.of /\ a.text = "" /\ ~a.flag
  /\ a.text \in JoinFlags => NoJoin(s)

LEMMA AppendGood ==
  ASSUME NEW s, NEW g, GoodGame(s, g), NEW a \in AnyArg, FitsBehind(s, a, g)
  PROVE  GoodGame(Append(s, a), g)
  <1> DEFINE b == Append(s, a)
             L == Len(s)
  <1>1. s \in Seq(AnyArg) /\ Linked(s) /\ Completed(s) /\ OneJoin(s) /\ NoText(s, g)
    BY DEF GoodGame
  <1>2. L \in Nat
    BY <1>1, Indices
  <1>3. /\ b \in Seq(AnyArg) /\ Len(b) = L + 1 /\ b[L + 1] = a
        /\ \A i \in 1 .. L : b[i] = s[i]
    BY <1>1, Appended
  <1> HIDE DEF b
  <1>4. /\ \A i \in 1 .. L + 1 : i \in 1 .. L \/ i = L + 1
        /\ \A i \in 1 .. L : i > 1 => i - 1 \in 1 .. L
        /\ L > 0 => L + 1 > 1 /\ (L + 1) - 1 = L /\ L \in 1 .. L
        /\ \A i \in 1 .. L : i < L => i + 1 \in 1 .. L /\ i < L + 1
    BY <1>2
  <1>5. Linked(b)
    <2> SUFFICES ASSUME NEW i \in 1 .. L + 1, b[i].of # ""
                 PROVE  i > 1 /\ b[i - 1].text = b[i].of /\ b[i].text = "" /\ ~b[i].flag
      BY <1>3 DEF Linked
    <2>1. CASE i \in 1 .. L
      <3>1. b[i] = s[i] /\ s[i].of # ""
        BY <1>3, <2>1
      <3>2. i > 1 /\ s[i - 1].text = s[i].of /\ s[i].text = "" /\ ~s[i].flag
        BY <1>1, <2>1, <3>1 DEF Linked
      <3>3. b[i - 1] = s[i - 1]
        BY <1>3, <1>4, <2>1, <3>2
      <3> QED BY <3>1, <3>2, <3>3
    <2>2. CASE i = L + 1
      <3>1. b[i] = a /\ a.of # ""
        BY <1>3, <2>2
      <3>2. L > 0 /\ s[L].text = a.of /\ a.text = "" /\ ~a.flag
        BY <3>1 DEF FitsBehind
      <3>3. i > 1 /\ i - 1 = L /\ b[L] = s[L]
        BY <1>3, <1>4, <2>2, <3>2
      <3> QED BY <3>1, <3>2, <3>3
    <2> QED BY <1>4, <2>1, <2>2
  <1>6. Completed(b)
    <2> SUFFICES ASSUME NEW i \in 1 .. L + 1, b[i].text \in ValueFlags
                 PROVE  i < L + 1 /\ b[i + 1].of = b[i].text
      BY <1>3 DEF Completed
    <2>1. i # L + 1
      BY <1>3 DEF FitsBehind
    <2>2. i \in 1 .. L
      BY <1>4, <2>1
    <2>3. b[i] = s[i] /\ i < L /\ s[i + 1].of = s[i].text
      BY <1>1, <1>3, <2>2 DEF Completed
    <2>4. i < L + 1 /\ i + 1 \in 1 .. L
      BY <1>4, <2>2, <2>3
    <2> QED BY <1>3, <2>3, <2>4
  <1>7. OneJoin(b)
    <2> SUFFICES ASSUME NEW i \in 1 .. L + 1, NEW j \in 1 .. L + 1,
                        b[i].text \in JoinFlags, b[j].text \in JoinFlags
                 PROVE  i = j
      BY <1>3 DEF OneJoin
    <2>1. CASE i \in 1 .. L
      <3>1. s[i].text \in JoinFlags
        BY <1>3, <2>1
      <3>2. j # L + 1
        BY <1>3, <2>1, <3>1 DEF FitsBehind, NoJoin
      <3>3. j \in 1 .. L /\ s[j].text \in JoinFlags
        BY <1>3, <1>4, <3>2
      <3> QED BY <1>1, <2>1, <3>1, <3>3 DEF OneJoin
    <2>2. CASE i = L + 1
      <3>1. a.text \in JoinFlags
        BY <1>3, <2>2
      <3>2. ~(j \in 1 .. L)
        BY <1>3, <3>1 DEF FitsBehind, NoJoin
      <3> QED BY <1>4, <2>2, <3>2
    <2> QED BY <1>4, <2>1, <2>2
  <1>8. NoText(b, g)
    BY <1>1, <1>3, <1>4 DEF NoText, FitsBehind
  <1>9. GoodGame(b, g)
    BY <1>3, <1>5, <1>6, <1>7, <1>8 DEF GoodGame
  <1> QED BY <1>9 DEF b

LEMMA TwoMore ==
  ASSUME NEW E, NEW s \in Seq(E), NEW a \in E, NEW b \in E
  PROVE  s \o <<a, b>> = Append(Append(s, a), b)
  <1> DEFINE t == <<a, b>>
             u == s \o t
             v == Append(Append(s, a), b)
             L == Len(s)
  <1>1. t \in Seq(E) /\ Len(t) = 2 /\ t[1] = a /\ t[2] = b
    OBVIOUS
  <1>2. L \in Nat
    BY Indices
  <1> HIDE DEF t
  <1>12. /\ u \in Seq(E) /\ Len(u) = L + Len(t)
         /\ \A p \in 1 .. L + Len(t) : u[p] = IF p <= L THEN s[p] ELSE t[p - L]
    BY <1>1, ConcatProperties
  <1>3. /\ u \in Seq(E) /\ Len(u) = L + 2
        /\ \A p \in 1 .. L + 2 : u[p] = IF p <= L THEN s[p] ELSE t[p - L]
    BY <1>1, <1>12
  <1> DEFINE w == Append(s, a)
  <1>4. w \in Seq(E) /\ Len(w) = L + 1 /\ w[L + 1] = a /\ \A i \in 1 .. L : w[i] = s[i]
    BY Appended
  <1> HIDE DEF w
  <1>5. /\ Append(w, b) \in Seq(E) /\ Len(Append(w, b)) = L + 1 + 1 /\ Append(w, b)[L + 1 + 1] = b
        /\ \A i \in 1 .. L + 1 : Append(w, b)[i] = w[i]
    BY <1>4, Appended
  <1>6. v = Append(w, b)
    BY DEF w
  <1> HIDE DEF u, v, L
  <1>7. \A p \in 1 .. L + 2 : u[p] = v[p]
    <2> SUFFICES ASSUME NEW p \in 1 .. L + 2 PROVE u[p] = v[p]
      OBVIOUS
    <2>1. CASE p \in 1 .. L
      <3>1. p <= L /\ p \in 1 .. L + 1
        BY <1>2, <2>1
      <3> QED BY <1>3, <1>4, <1>5, <1>6, <2>1, <3>1
    <2>2. CASE p = L + 1
      <3>1. ~(p <= L) /\ p - L = 1 /\ p \in 1 .. L + 1
        BY <1>2, <2>2
      <3> QED BY <1>1, <1>3, <1>4, <1>5, <1>6, <2>2, <3>1
    <2>3. CASE p = L + 2
      <3>1. ~(p <= L) /\ p - L = 2 /\ p = L + 1 + 1
        BY <1>2, <2>3
      <3> QED BY <1>1, <1>3, <1>5, <1>6, <3>1
    <2> QED BY <1>2, <2>1, <2>2, <2>3
  <1>8. Len(v) = L + 2 /\ v \in Seq(E)
    BY <1>2, <1>5, <1>6
  <1>9. DOMAIN u = 1 .. L + 2 /\ DOMAIN v = 1 .. L + 2
    BY <1>3, <1>8, Indices
  <1>10. u = [p \in 1 .. L + 2 |-> u[p]] /\ v = [p \in 1 .. L + 2 |-> v[p]]
    BY <1>3, <1>8, <1>9
  <1>11. u = v
    BY <1>7, <1>10
  <1> QED BY <1>11 DEF u, v, t

(* A flag the launcher may add, with a value behind it.                    *)
NewFlag(s, f, g) ==
  /\ f \in OwnFlags /\ f # "" /\ f \notin ValueFlags /\ f # g /\ g # ""
  /\ f \in JoinFlags => NoJoin(s)

LEMMA FlagIs ==
  ASSUME NEW f \in OwnFlags
  PROVE  /\ Flag(f, "launcher") \in AnyArg
         /\ Flag(f, "launcher").text = f /\ Flag(f, "launcher").of = ""
         /\ Value({}, f, "launcher") \in AnyArg
         /\ Value({}, f, "launcher").text = "" /\ Value({}, f, "launcher").of = f
         /\ ~Value({}, f, "launcher").flag
  BY DEF Flag, Value, AnyArg

LEMMA WithGood ==
  ASSUME NEW s, NEW g, GoodGame(s, g), NEW f, NewFlag(s, f, g)
  PROVE  GoodGame(With(s, f), g)
  <1> DEFINE a == Flag(f, "launcher")
             b == Value({}, f, "launcher")
             w == Append(s, a)
  <1>1. s \in Seq(AnyArg) /\ f \in OwnFlags
    BY DEF GoodGame, NewFlag
  <1>2. a \in AnyArg /\ b \in AnyArg
    BY <1>1, FlagIs
  <1>3. a.text = f /\ a.of = "" /\ b.text = "" /\ b.of = f /\ ~b.flag
    BY <1>1, FlagIs
  <1>4. With(s, f) = s \o <<a, b>>
    BY DEF With
  <1> HIDE DEF a, b
  <1>5. s \o <<a, b>> = Append(w, b)
    BY <1>1, <1>2, TwoMore
  <1>6. FitsBehind(s, a, g)
    BY <1>3 DEF FitsBehind, NewFlag
  <1>7. GoodGame(w, g)
    BY <1>2, <1>6, AppendGood
  <1>8. Len(w) = Len(s) + 1 /\ w[Len(s) + 1] = a /\ Len(s) \in Nat
    <2>1. Len(s) \in Nat
      BY <1>1, Indices
    <2> QED BY <1>1, <1>2, <2>1, Appended
  <1> HIDE DEF w
  <1>9. Len(w) > 0 /\ w[Len(w)] = a
    BY <1>8
  <1>10. FitsBehind(w, b, g)
    BY <1>3, <1>9 DEF FitsBehind, NewFlag, ValueFlags, JoinFlags
  <1>11. GoodGame(Append(w, b), g)
    BY <1>2, <1>7, <1>10, AppendGood
  <1> QED BY <1>4, <1>5, <1>11

LEMMA GameIsGood ==
  ASSUME NEW s, NEW r, GoodGame(s, Unused(r)), NEW o
  PROVE  GoodGame(AddServer(AddDemo(AddWindow(s, o), o), o, QuickPlayCapable(r)), Unused(r))
  <1> DEFINE g == Unused(r)
             c == QuickPlayCapable(r)
             w == AddWindow(s, o)
             d == AddDemo(w, o)
  <1>1. g = IF c THEN "--server" ELSE "--quickPlayMultiplayer"
    BY DEF Unused
  <1> HIDE DEF g
  <1>2. GoodGame(s, g)
    BY DEF g
  <1>3. ASSUME NEW f \in {"--fullscreen", "--demo", "--width", "--height", "--port"}, NEW u
        PROVE  NewFlag(u, f, g)
    <2>1. f # "" /\ f \notin ValueFlags /\ f # g /\ g # "" /\ f \notin JoinFlags
      BY <1>1 DEF ValueFlags, JoinFlags
    <2>2. f \in OwnFlags
      BY DEF OwnFlags
    <2> QED BY <2>1, <2>2 DEF NewFlag
  <1>4. ASSUME NEW f \in {"--fullscreen", "--demo"}, NEW u, GoodGame(u, g)
        PROVE  GoodGame(Append(u, Flag(f, "launcher")), g)
    <2> DEFINE a == Flag(f, "launcher")
    <2>1. NewFlag(u, f, g)
      BY <1>3
    <2>2. f \in OwnFlags
      BY <2>1 DEF NewFlag
    <2>3. a \in AnyArg /\ a.text = f /\ a.of = ""
      BY <2>2, FlagIs
    <2> HIDE DEF a
    <2>4. FitsBehind(u, a, g)
      BY <2>1, <2>3 DEF FitsBehind, NewFlag
    <2>5. GoodGame(Append(u, a), g)
      BY <1>4, <2>3, <2>4, AppendGood
    <2> QED BY <2>5 DEF a
  <1>5. ASSUME NEW f \in {"--width", "--height", "--port"}, NEW u, GoodGame(u, g)
        PROVE  GoodGame(With(u, f), g)
    <2>1. NewFlag(u, f, g)
      BY <1>3
    <2> QED BY <1>5, <2>1, WithGood
  <1>6. GoodGame(w, g)
    <2>1. GoodGame(Append(s, Flag("--fullscreen", "launcher")), g)
      BY <1>2, <1>4
    <2>2. GoodGame(With(With(s, "--width"), "--height"), g)
      BY <1>2, <1>5
    <2> QED BY <1>2, <2>1, <2>2 DEF AddWindow
  <1> HIDE DEF w
  <1>7. GoodGame(d, g)
    BY <1>4, <1>6 DEF AddDemo
  <1> HIDE DEF d
  <1>8. DOMAIN d = 1 .. Len(d) /\ \A i \in 1 .. Len(d) : d[i].text # g
    <2>1. d \in Seq(AnyArg) /\ NoText(d, g)
      BY <1>7 DEF GoodGame
    <2>2. DOMAIN d = 1 .. Len(d)
      BY <2>1, Indices
    <2> QED BY <2>1, <2>2 DEF NoText
  <1>9. ASSUME NEW f \in {"--server", "--quickPlayMultiplayer"}, f # g, ~HasFlag(d, f)
        PROVE  GoodGame(With(d, f), g)
    <2>1. f \in OwnFlags
      BY DEF OwnFlags
    <2>2. f # "" /\ f \notin ValueFlags /\ g # ""
      BY <1>1 DEF ValueFlags
    <2>3. \A x \in JoinFlags : x = f \/ x = g
      BY <1>1, <1>9 DEF JoinFlags
    <2>4. NoJoin(d)
      BY <1>8, <1>9, <2>3 DEF HasFlag, NoJoin
    <2>5. NewFlag(d, f, g)
      BY <1>9, <2>1, <2>2, <2>4 DEF NewFlag
    <2> QED BY <1>7, <2>5, WithGood
  <1>10. GoodGame(AddServer(d, o, c), g)
    <2>1. CASE c
      <3>1. ~HasFlag(d, "--quickPlayMultiplayer") => GoodGame(With(d, "--quickPlayMultiplayer"), g)
        BY <1>1, <1>9, <2>1
      <3> QED BY <1>7, <2>1, <3>1 DEF AddServer
    <2>2. CASE ~c
      <3>1. ~HasFlag(d, "--server") => GoodGame(With(d, "--server"), g)
        BY <1>1, <1>9, <2>2
      <3>2. ~HasFlag(d, "--server") => GoodGame(With(With(d, "--server"), "--port"), g)
        BY <1>5, <3>1
      <3> QED BY <1>7, <2>2, <3>1, <3>2 DEF AddServer
    <2> QED BY <2>1, <2>2
  <1> QED BY <1>10 DEF d, w, g
-----------------------------------------------------------------------------
(* The arguments of the JVM: no class path so far, and no property of the  *)
(* launcher's is given again but by the user.                              *)
Clean(s) ==
  /\ s \in Seq(AnyArg)
  /\ \A i \in 1 .. Len(s) : s[i].text \notin ClasspathFlags
  /\ \A i, j \in 1 .. Len(s) :
       i < j /\ s[i].by = "launcher" /\ s[i].text = s[j].text /\ IsProperty(s[i]) => s[j].by = "user"
NotAgain(s, a) ==
  /\ a.text \notin ClasspathFlags
  /\ a.by # "user" => \A i \in 1 .. Len(s) : s[i].text = a.text => ~IsProperty(a)

LEMMA AppendClean ==
  ASSUME NEW s, Clean(s), NEW a \in AnyArg, NotAgain(s, a) PROVE Clean(Append(s, a))
  <1> DEFINE b == Append(s, a)
             L == Len(s)
  <1>1. /\ s \in Seq(AnyArg) /\ \A i \in 1 .. L : s[i].text \notin ClasspathFlags
        /\ \A i, j \in 1 .. L :
             i < j /\ s[i].by = "launcher" /\ s[i].text = s[j].text /\ IsProperty(s[i]) => s[j].by = "user"
    BY DEF Clean
  <1>2. L \in Nat
    BY <1>1, Indices
  <1>3. /\ b \in Seq(AnyArg) /\ Len(b) = L + 1 /\ b[L + 1] = a
        /\ \A i \in 1 .. L : b[i] = s[i]
    BY <1>1, Appended
  <1> HIDE DEF b
  <1>4. \A i \in 1 .. L + 1 : i \in 1 .. L \/ i = L + 1
    BY <1>2
  <1>5. \A i, j \in 1 .. L + 1 : i < j => i \in 1 .. L
    BY <1>2
  <1>6. \A i \in 1 .. L + 1 : b[i].text \notin ClasspathFlags
    BY <1>1, <1>3, <1>4 DEF NotAgain
  <1>7. ASSUME NEW i \in 1 .. L + 1, NEW j \in 1 .. L + 1,
               i < j, b[i].by = "launcher", b[i].text = b[j].text, IsProperty(b[i])
        PROVE  b[j].by = "user"
    <2>1. i \in 1 .. L /\ b[i] = s[i]
      BY <1>3, <1>5, <1>7
    <2>2. CASE j \in 1 .. L
      <3>1. b[j] = s[j]
        BY <1>3, <2>2
      <3> QED BY <1>1, <1>7, <2>1, <2>2, <3>1
    <2>3. CASE j = L + 1
      <3>1. b[j] = a /\ s[i].text = a.text /\ IsProperty(a)
        BY <1>3, <1>7, <2>1, <2>3 DEF IsProperty
      <3> QED BY <2>1, <3>1 DEF NotAgain
    <2> QED BY <1>4, <2>2, <2>3
  <1>8. Clean(b)
    BY <1>3, <1>6, <1>7 DEF Clean
  <1> QED BY <1>8 DEF b

(* Lists whose texts are in a set each, one behind the other.              *)
CleanIn(s, T) == Clean(s) /\ \A a \in ToSet(s) : a.text \in T

LEMMA CleanEmpty == \A T : CleanIn(<<>>, T)
  <1> DEFINE e == <<>>
  <1>1. e \in Seq(AnyArg) /\ Len(e) = 0 /\ ToSet(e) = {}
    BY DEF ToSet
  <1> HIDE DEF e
  <1>2. Clean(e)
    BY <1>1 DEF Clean
  <1>3. \A T : CleanIn(e, T)
    BY <1>1, <1>2 DEF CleanIn
  <1> QED BY <1>3 DEF e

LEMMA CleanOne ==
  ASSUME NEW a \in AnyArg, a.text \notin ClasspathFlags PROVE CleanIn(<<a>>, {a.text})
  <1> DEFINE e == <<a>>
  <1>1. e \in Seq(AnyArg) /\ Len(e) = 1 /\ e[1] = a /\ DOMAIN e = {1}
    OBVIOUS
  <1> HIDE DEF e
  <1>2. ToSet(e) = {a}
    BY <1>1 DEF ToSet
  <1>3. \A i \in 1 .. Len(e) : i = 1
    BY <1>1
  <1>4. \A i, j \in 1 .. Len(e) : ~(i < j)
    BY <1>1
  <1>5. Clean(e)
    BY <1>1, <1>3, <1>4 DEF Clean
  <1>6. CleanIn(e, {a.text})
    BY <1>2, <1>5 DEF CleanIn
  <1> QED BY <1>6 DEF e

LEMMA CleanConcat ==
  ASSUME NEW s, NEW S, CleanIn(s, S), NEW t, NEW T, CleanIn(t, T), S \cap T = {}
  PROVE  CleanIn(s \o t, S \cup T)
  <1> DEFINE u == s \o t
             l == Len(s)
             m == Len(t)
  <1>1. Clean(s) /\ Clean(t) /\ s \in Seq(AnyArg) /\ t \in Seq(AnyArg)
    BY DEF CleanIn, Clean
  <1>2. ToSet(u) = ToSet(s) \cup ToSet(t)
    BY <1>1, Concatenated
  <1>3. /\ u \in Seq(AnyArg) /\ Len(u) = l + m
        /\ \A p \in 1 .. l + m : u[p] = IF p <= l THEN s[p] ELSE t[p - l]
    BY <1>1, ConcatProperties
  <1>4. l \in Nat /\ m \in Nat /\ DOMAIN s = 1 .. l /\ DOMAIN t = 1 .. m
    BY <1>1, Indices
  <1>5. /\ \A i \in 1 .. l : s[i].text \in S
        /\ \A i \in 1 .. m : t[i].text \in T
    BY <1>4 DEF CleanIn, ToSet
  <1> HIDE DEF u, l, m
  <1>6. ASSUME NEW p \in 1 .. l + m
        PROVE  (p \in 1 .. l /\ u[p] = s[p]) \/ (p - l \in 1 .. m /\ u[p] = t[p - l])
    <2>1. (p \in 1 .. l /\ p <= l) \/ (p - l \in 1 .. m /\ ~(p <= l))
      BY <1>4
    <2> QED BY <1>3, <2>1
  <1>7. \A p \in 1 .. l + m : u[p].text \notin ClasspathFlags
    BY <1>1, <1>6 DEF Clean, l, m
  <1>8. ASSUME NEW i \in 1 .. l + m, NEW j \in 1 .. l + m,
               i < j, u[i].by = "launcher", u[i].text = u[j].text, IsProperty(u[i])
        PROVE  u[j].by = "user"
    <2>1. CASE i \in 1 .. l /\ u[i] = s[i]
      <3>1. CASE j \in 1 .. l /\ u[j] = s[j]
        BY <1>1, <1>8, <2>1, <3>1 DEF Clean, l
      <3>2. CASE j - l \in 1 .. m /\ u[j] = t[j - l]
        BY <1>5, <1>8, <2>1, <3>2
      <3> QED BY <1>6, <3>1, <3>2
    <2>2. CASE i - l \in 1 .. m /\ u[i] = t[i - l]
      <3>1. CASE j \in 1 .. l /\ u[j] = s[j]
        BY <1>5, <1>8, <2>2, <3>1
      <3>2. CASE j - l \in 1 .. m /\ u[j] = t[j - l]
        <4>1. i - l < j - l
          BY <1>4, <1>8
        <4> DEFINE x == i - l
                   y == j - l
        <4>2. x \in 1 .. m /\ y \in 1 .. m /\ x < y /\ u[i] = t[x] /\ u[j] = t[y]
          BY <2>2, <3>2, <4>1
        <4> HIDE DEF x, y
        <4> QED BY <1>1, <1>8, <4>2 DEF Clean, m
      <3> QED BY <1>6, <3>1, <3>2
    <2> QED BY <1>6, <2>1, <2>2
  <1>9. Clean(u)
    BY <1>3, <1>7, <1>8 DEF Clean
  <1>10. CleanIn(u, S \cup T)
    BY <1>2, <1>9 DEF CleanIn
  <1> QED BY <1>10 DEF u

LEMMA OwnProperty ==
  ASSUME NEW t \in OwnProperties
  PROVE  /\ CleanIn(<<Property(t, {}, "launcher")>>, {t})
         /\ Property(t, {}, "launcher") \in AnyArg /\ Property(t, {}, "launcher").text = t
  <1> DEFINE a == Property(t, {}, "launcher")
  <1>1. a \in AnyArg /\ a.text = t
    BY DEF AnyArg, Property
  <1>2. t \notin ClasspathFlags
    BY DEF OwnProperties, ClasspathFlags
  <1> HIDE DEF a
  <1>3. CleanIn(<<a>>, {t})
    BY <1>1, <1>2, CleanOne
  <1> QED BY <1>1, <1>3 DEF a
(* A fold that stays within a set ends there.                              *)
ManifestStays(A, E) == \A a \in A, e \in E : AddManifest(a, e) \in A

LEMMA ManifestRuns ==
  ASSUME NEW A, NEW E, NEW base \in A, NEW s \in Seq(E), ManifestStays(A, E)
  PROVE  FoldLeft(AddManifest, base, s) \in A
  <1> DEFINE F == [p \in A \X E |-> AddManifest(p[1], p[2])]
             Is(f) == f = [x \in SUBSET DOMAIN s |->
                             IF x = {} THEN base ELSE AddManifest(f[x \ {Max(x)}], s[Max(x)])]
             it == CHOOSE f : Is(f)
  <1>1. F \in [A \X E -> A] /\ \A a \in A, e \in E : F[<<a, e>>] = AddManifest(a, e)
    BY DEF ManifestStays
  <1>2. FoldLeft(AddManifest, base, s) = it[DOMAIN s]
    BY DEF FoldLeft, MapThenFoldSet
  <1> HIDE DEF F
  <1>3. PICK f \in [SUBSET DOMAIN s -> A] : IsFold(f, base, F, s)
    BY <1>1, FoldExists
  <1>4. \A x \in SUBSET DOMAIN s :
          f[x] = IF x = {} THEN base ELSE AddManifest(f[x \ {Max(x)}], s[Max(x)])
    BY <1>1, <1>3, LastPlace DEF IsFold
  <1>5. Is(f)
    BY <1>4
  <1>6. Is(it)
    BY <1>5
  <1> HIDE DEF it
  <1>7. FoldsIn(A, it, base, F, s)
    <2>1. \A x \in SUBSET DOMAIN s :
            x # {} => s[Max(x)] \in E /\ x \ {Max(x)} \in SUBSET DOMAIN s
      BY LastPlace
    <2> QED BY <1>1, <1>6, <2>1 DEF FoldsIn
  <1>8. RunEnds(A, it[DOMAIN s], base, F, s)
    BY <1>1, <1>7, FoldRuns
  <1>9. it[DOMAIN s] \in A
    <2>1. Len(s) \in 0 .. Len(s)
      BY Indices
    <2> QED BY <1>8, <2>1 DEF RunEnds
  <1> QED BY <1>2, <1>9

UserStays(A, E) == \A a \in A, e \in E : AddUser(a, e) \in A

LEMMA UserRuns ==
  ASSUME NEW A, NEW E, NEW base \in A, NEW s \in Seq(E), UserStays(A, E)
  PROVE  FoldLeft(AddUser, base, s) \in A
  <1> DEFINE F == [p \in A \X E |-> AddUser(p[1], p[2])]
             Is(f) == f = [x \in SUBSET DOMAIN s |->
                             IF x = {} THEN base ELSE AddUser(f[x \ {Max(x)}], s[Max(x)])]
             it == CHOOSE f : Is(f)
  <1>1. F \in [A \X E -> A] /\ \A a \in A, e \in E : F[<<a, e>>] = AddUser(a, e)
    BY DEF UserStays
  <1>2. FoldLeft(AddUser, base, s) = it[DOMAIN s]
    BY DEF FoldLeft, MapThenFoldSet
  <1> HIDE DEF F
  <1>3. PICK f \in [SUBSET DOMAIN s -> A] : IsFold(f, base, F, s)
    BY <1>1, FoldExists
  <1>4. \A x \in SUBSET DOMAIN s :
          f[x] = IF x = {} THEN base ELSE AddUser(f[x \ {Max(x)}], s[Max(x)])
    BY <1>1, <1>3, LastPlace DEF IsFold
  <1>5. Is(f)
    BY <1>4
  <1>6. Is(it)
    BY <1>5
  <1> HIDE DEF it
  <1>7. FoldsIn(A, it, base, F, s)
    <2>1. \A x \in SUBSET DOMAIN s :
            x # {} => s[Max(x)] \in E /\ x \ {Max(x)} \in SUBSET DOMAIN s
      BY LastPlace
    <2> QED BY <1>1, <1>6, <2>1 DEF FoldsIn
  <1>8. RunEnds(A, it[DOMAIN s], base, F, s)
    BY <1>1, <1>7, FoldRuns
  <1>9. it[DOMAIN s] \in A
    <2>1. Len(s) \in 0 .. Len(s)
      BY Indices
    <2> QED BY <1>8, <2>1 DEF RunEnds
  <1> QED BY <1>2, <1>9

(* What the launcher gives itself names each property once.                *)
LEMMA NamedProperties ==
  CleanIn([i \in 1 .. 4 |-> Property(<<"-Dlauncher.brand", "-Djava.library.path", "-Djna.tmpdir",
                                       "-Duser.home">>[i], {}, "launcher")],
          {"-Dlauncher.brand", "-Djava.library.path", "-Djna.tmpdir", "-Duser.home"})
  <1> DEFINE k == <<"-Dlauncher.brand", "-Djava.library.path", "-Djna.tmpdir", "-Duser.home">>
             T == {"-Dlauncher.brand", "-Djava.library.path", "-Djna.tmpdir", "-Duser.home"}
             s == [i \in 1 .. 4 |-> Property(k[i], {}, "launcher")]
  <1>1. \A i \in 1 .. 4 : k[i] \in T
    OBVIOUS
  <1>2. \A i, j \in 1 .. 4 : k[i] = k[j] => i = j
    OBVIOUS
  <1>3. T \subseteq OwnProperties
    BY DEF OwnProperties
  <1>4. \A t \in T : t \notin ClasspathFlags
    BY DEF ClasspathFlags
  <1> HIDE DEF k, T
  <1>5. \A i \in 1 .. 4 : s[i] \in AnyArg /\ s[i].text = k[i]
    <2> SUFFICES ASSUME NEW i \in 1 .. 4 PROVE s[i] \in AnyArg /\ s[i].text = k[i]
      OBVIOUS
    <2>1. s[i] = Property(k[i], {}, "launcher") /\ k[i] \in OwnProperties
      BY <1>1, <1>3
    <2> HIDE DEF s
    <2> QED BY <2>1, OwnProperty
  <1>6. s = [i \in 1 .. 4 |-> s[i]] /\ DOMAIN s = 1 .. 4
    OBVIOUS
  <1> HIDE DEF s
  <1>7. s \in Seq(AnyArg) /\ Len(s) = 4
    <2>1. s \in [1 .. 4 -> AnyArg]
      BY <1>5, <1>6
    <2> QED BY <1>6, <2>1, LenProperties DEF Seq
  <1>8. \A i \in 1 .. 4 : s[i].text \notin ClasspathFlags
    BY <1>1, <1>4, <1>5
  <1>9. \A i, j \in 1 .. 4 : i < j => s[i].text # s[j].text
    BY <1>2, <1>5
  <1>10. Clean(s)
    BY <1>7, <1>8, <1>9 DEF Clean
  <1>11. \A a \in ToSet(s) : a.text \in T
    BY <1>1, <1>5, <1>6 DEF ToSet
  <1>12. CleanIn(s, T)
    BY <1>10, <1>11 DEF CleanIn
  <1> QED BY <1>12 DEF s, k, T

LEMMA BridgeIsClean ==
  ASSUME NEW o, NEW d
  PROVE  CleanIn(AwtArgs(o, d), {"-Djava.awt.headless", "-Dawt.toolkit", "-Xbootclasspath/p",
                                 "-javaagent", "-Drc.awt.bridge"})
  <1> DEFINE b == Backend(o)
             P(t) == <<Property(t, {}, "launcher")>>
             x1 == IF o.runtime /\ CacioThere(b, d, "boot") # {} THEN P("-Xbootclasspath/p") ELSE <<>>
             x2 == IF o.runtime /\ CacioThere(b, d, "agent") # {} THEN P("-javaagent") ELSE <<>>
             x3 == IF o.transport THEN P("-Drc.awt.bridge") ELSE <<>>
             tool == P("-Dawt.toolkit") \o x1 \o x2 \o x3
             rest == IF b = "headless" THEN <<>> ELSE tool
  <1>1. AwtArgs(o, d) = P("-Djava.awt.headless") \o rest
    BY DEF AwtArgs
  <1>2. {"-Djava.awt.headless", "-Dawt.toolkit", "-Xbootclasspath/p", "-javaagent", "-Drc.awt.bridge"}
          \subseteq OwnProperties
    BY DEF OwnProperties
  <1>3. CleanIn(P("-Djava.awt.headless"), {"-Djava.awt.headless"})
    BY <1>2, OwnProperty
  <1>4. CleanIn(P("-Dawt.toolkit"), {"-Dawt.toolkit"})
    BY <1>2, OwnProperty
  <1>5. CleanIn(x1, {"-Xbootclasspath/p"})
    BY <1>2, OwnProperty, CleanEmpty
  <1>6. CleanIn(x2, {"-javaagent"})
    BY <1>2, OwnProperty, CleanEmpty
  <1>7. CleanIn(x3, {"-Drc.awt.bridge"})
    BY <1>2, OwnProperty, CleanEmpty
  <1> DEFINE y0 == P("-Dawt.toolkit")
             h  == P("-Djava.awt.headless")
  <1>8. tool = ((y0 \o x1) \o x2) \o x3
    OBVIOUS
  <1> HIDE DEF x1, x2, x3, y0, h, tool
  <1> DEFINE y1 == y0 \o x1
             y2 == y1 \o x2
             y3 == y2 \o x3
             T1 == {"-Dawt.toolkit", "-Xbootclasspath/p"}
             T2 == {"-Dawt.toolkit", "-Xbootclasspath/p", "-javaagent"}
             T3 == {"-Dawt.toolkit", "-Xbootclasspath/p", "-javaagent", "-Drc.awt.bridge"}
             T4 == {"-Djava.awt.headless", "-Dawt.toolkit", "-Xbootclasspath/p", "-javaagent",
                    "-Drc.awt.bridge"}
  <1>9. /\ {"-Dawt.toolkit"} \cap {"-Xbootclasspath/p"} = {} /\ T1 \cap {"-javaagent"} = {}
        /\ T2 \cap {"-Drc.awt.bridge"} = {} /\ {"-Djava.awt.headless"} \cap T3 = {}
    OBVIOUS
  <1>10. /\ {"-Dawt.toolkit"} \cup {"-Xbootclasspath/p"} = T1 /\ T1 \cup {"-javaagent"} = T2
         /\ T2 \cup {"-Drc.awt.bridge"} = T3 /\ {"-Djava.awt.headless"} \cup T3 = T4
    OBVIOUS
  <1> HIDE DEF T1, T2, T3, T4, y1, y2, y3
  <1>11. CleanIn(y1, T1)
    BY <1>4, <1>5, <1>9, <1>10, CleanConcat DEF y1, y0
  <1>12. CleanIn(y2, T2)
    BY <1>6, <1>9, <1>10, <1>11, CleanConcat DEF y2
  <1>13. CleanIn(y3, T3)
    BY <1>7, <1>9, <1>10, <1>12, CleanConcat DEF y3
  <1>14. CleanIn(rest, T3)
    <2>1. tool = y3
      BY <1>8 DEF y1, y2, y3
    <2> QED BY <1>13, <2>1, CleanEmpty
  <1> HIDE DEF rest
  <1>15. CleanIn(h \o rest, T4)
    BY <1>3, <1>9, <1>10, <1>14, CleanConcat DEF h
  <1> QED BY <1>1, <1>15 DEF h, T4
LEMMA BaseIsClean == ASSUME NEW r, NEW o, NEW d PROVE Clean(BaseJvmArgs(r, o, d))
  <1> DEFINE x == <<Flag("-Xmx", "launcher")>>
             n == [i \in 1 .. 4 |-> Property(<<"-Dlauncher.brand", "-Djava.library.path", "-Djna.tmpdir",
                                               "-Duser.home">>[i], {}, "launcher")]
             a == AwtArgs(o, d)
             l == LoggingArgument(r, d)
             N == {"-Dlauncher.brand", "-Djava.library.path", "-Djna.tmpdir", "-Duser.home"}
             A == {"-Djava.awt.headless", "-Dawt.toolkit", "-Xbootclasspath/p", "-javaagent",
                   "-Drc.awt.bridge"}
             X == {"-Xmx"}
             L == {"-Dlog4j.config"}
  <1>1. BaseJvmArgs(r, o, d) = ((x \o n) \o a) \o l
    BY DEF BaseJvmArgs
  <1>2. CleanIn(x, X)
    <2> DEFINE f == Flag("-Xmx", "launcher")
    <2>1. "-Xmx" \in OwnFlags /\ "-Xmx" \notin ClasspathFlags
      BY DEF OwnFlags, ClasspathFlags
    <2>2. f \in AnyArg /\ f.text = "-Xmx"
      BY <2>1, FlagIs
    <2> HIDE DEF f
    <2>3. CleanIn(<<f>>, {f.text})
      BY <2>1, <2>2, CleanOne
    <2> QED BY <2>2, <2>3 DEF f
  <1>3. CleanIn(n, N)
    BY NamedProperties
  <1>4. CleanIn(a, A)
    BY BridgeIsClean
  <1>5. CleanIn(l, L)
    <2>1. "-Dlog4j.config" \in OwnProperties
      BY DEF OwnProperties
    <2> QED BY <2>1, OwnProperty, CleanEmpty DEF LoggingArgument
  <1>6. X \cap N = {} /\ (X \cup N) \cap A = {} /\ (X \cup N \cup A) \cap L = {}
    OBVIOUS
  <1> HIDE DEF x, n, a, l, X, N, A, L
  <1> DEFINE xn == x \o n
             xna == xn \o a
             all == xna \o l
  <1>7. CleanIn(xn, X \cup N)
    BY <1>2, <1>3, <1>6, CleanConcat
  <1> HIDE DEF xn
  <1>8. CleanIn(xna, X \cup N \cup A)
    BY <1>4, <1>6, <1>7, CleanConcat
  <1> HIDE DEF xna
  <1>9. CleanIn(all, X \cup N \cup A \cup L)
    BY <1>5, <1>6, <1>8, CleanConcat
  <1> HIDE DEF all
  <1>10. Clean(all)
    BY <1>9 DEF CleanIn
  <1> QED BY <1>1, <1>10 DEF all, xna, xn

(* Adding the manifest's and the user's arguments.                         *)
Accs == {acc \in [args : Seq(AnyArg), skip : BOOLEAN] : Clean(acc.args)}
UserArgs == {a \in Arg : a.by = "user"}

LEMMA AccStep ==
  ASSUME NEW acc \in Accs
  PROVE  /\ [acc EXCEPT !.skip = FALSE] \in Accs /\ [acc EXCEPT !.skip = TRUE] \in Accs
         /\ \A a \in AnyArg : NotAgain(acc.args, a) => [acc EXCEPT !.args = Append(@, a)] \in Accs
  <1>1. acc \in [args : Seq(AnyArg), skip : BOOLEAN] /\ Clean(acc.args)
    BY DEF Accs
  <1>2. [acc EXCEPT !.skip = FALSE] \in Accs /\ [acc EXCEPT !.skip = TRUE] \in Accs
    BY <1>1 DEF Accs
  <1>3. ASSUME NEW a \in AnyArg, NotAgain(acc.args, a) PROVE [acc EXCEPT !.args = Append(@, a)] \in Accs
    <2> DEFINE b == Append(acc.args, a)
    <2>1. Clean(b)
      BY <1>1, <1>3, AppendClean
    <2>2. b \in Seq(AnyArg)
      BY <2>1 DEF Clean
    <2>3. [acc EXCEPT !.args = Append(@, a)] = [acc EXCEPT !.args = b]
      BY <1>1
    <2> HIDE DEF b
    <2>4. [acc EXCEPT !.args = b] \in [args : Seq(AnyArg), skip : BOOLEAN]
          /\ [acc EXCEPT !.args = b].args = b
      BY <1>1, <2>2
    <2> QED BY <2>1, <2>3, <2>4 DEF Accs
  <1> QED BY <1>2, <1>3

LEMMA ManifestStaysClean == ManifestStays(Accs, Arg)
  <1> SUFFICES ASSUME NEW acc \in Accs, NEW a \in Arg PROVE AddManifest(acc, a) \in Accs
    BY DEF ManifestStays
  <1>1. a \in AnyArg
    BY DEF AnyArg
  <1>2. CASE acc.skip \/ a.text \in ClasspathFlags
    BY <1>2, AccStep DEF AddManifest
  <1>3. CASE ~(acc.skip \/ a.text \in ClasspathFlags)
    <2>1. CASE a.text \in ReplacedJvm \/ (IsProperty(a) /\ HasFlag(acc.args, a.text))
      BY <1>3, <2>1 DEF AddManifest
    <2>2. CASE ~(a.text \in ReplacedJvm \/ (IsProperty(a) /\ HasFlag(acc.args, a.text)))
      <3>1. DOMAIN acc.args = 1 .. Len(acc.args)
        <4>1. acc.args \in Seq(AnyArg)
          BY DEF Accs
        <4> QED BY <4>1, Indices
      <3>2. NotAgain(acc.args, a)
        BY <1>3, <2>2, <3>1 DEF NotAgain, HasFlag
      <3>3. [acc EXCEPT !.args = Append(@, a)] \in Accs
        BY <1>1, <3>2, AccStep
      <3> QED BY <1>3, <2>2, <3>3 DEF AddManifest
    <2> QED BY <2>1, <2>2
  <1> QED BY <1>2, <1>3

LEMMA UserStaysClean == UserStays(Accs, UserArgs)
  <1> SUFFICES ASSUME NEW acc \in Accs, NEW a \in UserArgs PROVE AddUser(acc, a) \in Accs
    BY DEF UserStays
  <1>1. a \in AnyArg /\ a.by = "user"
    BY DEF AnyArg, UserArgs
  <1>2. CASE acc.skip \/ a.text \in ClasspathFlags
    BY <1>2, AccStep DEF AddUser
  <1>3. CASE ~(acc.skip \/ a.text \in ClasspathFlags)
    <2>1. NotAgain(acc.args, a)
      BY <1>1, <1>3 DEF NotAgain
    <2>2. [acc EXCEPT !.args = Append(@, a)] \in Accs
      BY <1>1, <2>1, AccStep
    <2> QED BY <1>3, <2>2 DEF AddUser
  <1> QED BY <1>2, <1>3

(* The manifest's arguments for the JVM are a sequence.                    *)
JvmTemplates(r, o) == FlattenSeq([i \in DOMAIN r.arguments |-> Flatten(r.arguments[i].jvm, o)])

LEMMA JvmTemplatesType ==
  ASSUME NEW r, ArgumentsFit(r.arguments), NEW o PROVE JvmTemplates(r, o) \in Seq(Arg)
  <1> DEFINE l  == Len(r.arguments)
             ss == [i \in DOMAIN r.arguments |-> Flatten(r.arguments[i].jvm, o)]
  <1>1. l \in Nat /\ DOMAIN r.arguments = 1 .. l
    BY DEF ArgumentsFit, IsSequence
  <1>2. ASSUME NEW i \in 1 .. l PROVE Flatten(r.arguments[i].jvm, o) \in Seq(Arg)
    <2> DEFINE es == r.arguments[i].jvm
    <2>1. r.arguments[i] \in ToSet(r.arguments)
      BY <1>1 DEF ToSet
    <2>2. IsSequence(es) /\ \A e \in ToSet(es) : e.value \in Seq(Arg)
      BY <2>1 DEF ArgumentsFit
    <2> HIDE DEF es
    <2>3. Spread(es, o) \in Seq(Seq(Arg)) /\ Flatten(es, o) = FlattenSeq(Spread(es, o))
      BY <2>2, SpreadIs
    <2>4. Flatten(es, o) \in Seq(Arg)
      BY <2>3, FlattenOwners
    <2> QED BY <2>4 DEF es
  <1>3. \A i \in 1 .. l : ss[i] \in Seq(Arg)
    BY <1>1, <1>2
  <1>4. ss = [i \in 1 .. l |-> ss[i]]
    BY <1>1
  <1>5. JvmTemplates(r, o) = FlattenSeq(ss)
    BY DEF JvmTemplates
  <1> HIDE DEF ss, l
  <1>6. ss \in [1 .. l -> Seq(Arg)]
    BY <1>3, <1>4
  <1>7. ss \in Seq(Seq(Arg))
    BY <1>1, <1>6 DEF Seq
  <1> QED BY <1>5, <1>7, FlattenOwners

JvmSound(s) ==
  /\ \A i \in DOMAIN s : s[i].text \in ClasspathFlags => i = Len(s) - 1
  /\ \A i, j \in DOMAIN s :
       i < j /\ s[i].by = "launcher" /\ s[i].text = s[j].text /\ IsProperty(s[i]) => s[j].by = "user"

LEMMA JvmIsSound ==
  ASSUME NEW r, ArgumentsFit(r.arguments), NEW o, o.jvm \in Seq(UserArgs), NEW d
  PROVE  JvmSound(JvmArgs(r, o, d))
  <1> DEFINE base  == [args |-> BaseJvmArgs(r, o, d), skip |-> FALSE]
             m     == Prune(JvmTemplates(r, o), Substitutions(o))
             first == FoldLeft(AddManifest, base, m)
             mid   == [args |-> first.args, skip |-> FALSE]
             all   == FoldLeft(AddUser, mid, o.jvm)
             a     == Flag("-cp", "launcher")
             b     == Value({}, "-cp", "launcher")
             v     == all.args
             s     == Append(Append(v, a), b)
             L     == Len(v)
  <1>1. JvmArgs(r, o, d) = v \o <<a, b>>
    BY DEF JvmArgs, JvmTemplates
  <1>2. base \in Accs
    <2> DEFINE x == BaseJvmArgs(r, o, d)
    <2>1. Clean(x) /\ x \in Seq(AnyArg)
      BY BaseIsClean DEF Clean
    <2> HIDE DEF x
    <2>2. [args |-> x, skip |-> FALSE] \in Accs
      BY <2>1 DEF Accs
    <2> QED BY <2>2 DEF x
  <1>3. m \in Seq(Arg)
    BY JvmTemplatesType, PruneType
  <1> HIDE DEF base, m
  <1>4. first \in Accs
    BY <1>2, <1>3, ManifestStaysClean, ManifestRuns
  <1> HIDE DEF first
  <1>5. mid \in Accs
    BY <1>4 DEF Accs
  <1> HIDE DEF mid
  <1>6. all \in Accs
    BY <1>5, UserStaysClean, UserRuns
  <1> HIDE DEF all
  <1>7. Clean(v)
    BY <1>6 DEF Accs
  <1>22. v \in Seq(AnyArg)
    BY <1>7 DEF Clean
  <1>23. "-cp" \in OwnFlags
    BY DEF OwnFlags
  <1>8. a \in AnyArg /\ b \in AnyArg
    BY <1>23, FlagIs
  <1>24. a.text = "-cp" /\ b.text = ""
    BY <1>23, FlagIs
  <1> HIDE DEF a, b, v
  <1>9. v \o <<a, b>> = s
    BY <1>8, <1>22, TwoMore
  <1> DEFINE w == Append(v, a)
  <1>10. /\ w \in Seq(AnyArg) /\ Len(w) = L + 1 /\ w[L + 1] = a /\ \A i \in 1 .. L : w[i] = v[i]
    BY <1>8, <1>22, Appended
  <1>11. L \in Nat
    BY <1>22, Indices
  <1>12. s = Append(w, b)
    OBVIOUS
  <1> HIDE DEF w, s, L
  <1>13. s \in Seq(AnyArg) /\ Len(s) = L + 1 + 1 /\ s[L + 1 + 1] = b /\ \A i \in 1 .. L + 1 : s[i] = w[i]
    <2>1. /\ Append(w, b) \in Seq(AnyArg) /\ Len(Append(w, b)) = Len(w) + 1
          /\ Append(w, b)[Len(w) + 1] = b /\ \A i \in 1 .. Len(w) : Append(w, b)[i] = w[i]
      BY <1>8, <1>10, Appended
    <2> QED BY <1>10, <1>12, <2>1
  <1>14. DOMAIN s = 1 .. L + 1 + 1 /\ Len(s) - 1 = L + 1
    <2>1. DOMAIN s = 1 .. Len(s)
      BY <1>13, Indices
    <2> QED BY <1>11, <1>13, <2>1
  <1>15. \A i \in 1 .. L + 1 + 1 : i \in 1 .. L \/ i = L + 1 \/ i = L + 1 + 1
    BY <1>11
  <1>16. /\ \A i \in 1 .. L : i \in 1 .. L + 1
         /\ L + 1 \in 1 .. L + 1
         /\ \A i, j \in 1 .. L + 1 + 1 : i < j => i \in 1 .. L \/ i = L + 1
    BY <1>11
  <1>17. /\ \A i \in 1 .. L : s[i] = v[i]
         /\ s[L + 1] = a
    BY <1>10, <1>13, <1>16
  <1>18. \A i \in 1 .. L : v[i].text \notin ClasspathFlags
    BY <1>7 DEF Clean, L
  <1>19. ASSUME NEW i \in DOMAIN s, s[i].text \in ClasspathFlags PROVE i = Len(s) - 1
    <2>1. i \notin 1 .. L
      BY <1>17, <1>18, <1>19
    <2>2. s[L + 1 + 1].text \notin ClasspathFlags
      BY <1>13, <1>24 DEF ClasspathFlags
    <2>3. i # L + 1 + 1
      BY <1>19, <2>2
    <2>4. i = L + 1
      BY <1>14, <1>15, <2>1, <2>3
    <2> QED BY <1>14, <2>4
  <1>20. ASSUME NEW i \in DOMAIN s, NEW j \in DOMAIN s,
                i < j, s[i].by = "launcher", s[i].text = s[j].text, IsProperty(s[i])
         PROVE  s[j].by = "user"
    <2>1. "-cp" \notin PropertyKeys /\ "" \notin PropertyKeys
      BY DEF PropertyKeys
    <2>2. s[i].text # "-cp" /\ s[i].text # ""
      BY <1>20, <2>1 DEF IsProperty
    <2>3. s[L + 1].text = "-cp" /\ s[L + 1 + 1].text = ""
      BY <1>13, <1>17, <1>24
    <2>4. i # L + 1 /\ j # L + 1
      BY <1>20, <2>2, <2>3
    <2>5. i # L + 1 + 1 /\ j # L + 1 + 1
      BY <1>20, <2>2, <2>3
    <2>6. i \in 1 .. L /\ j \in 1 .. L
      BY <1>14, <1>15, <2>4, <2>5
    <2>7. s[i] = v[i] /\ s[j] = v[j]
      BY <1>17, <2>6
    <2> QED BY <1>7, <1>20, <2>6, <2>7 DEF Clean, L
  <1>21. JvmSound(s)
    BY <1>19, <1>20 DEF JvmSound
  <1> QED BY <1>1, <1>9, <1>21
-----------------------------------------------------------------------------
(* The command.                                                            *)
GameSound(s) ==
  /\ \A i \in DOMAIN s : s[i].by # "user" =>
       /\ s[i].of # "" => i > 1 /\ s[i - 1].text = s[i].of
       /\ s[i].text \in ValueFlags => i < Len(s) /\ s[i + 1].of = s[i].text
  /\ Cardinality({i \in DOMAIN s : s[i].by # "user" /\ s[i].text \in JoinFlags}) <= 1

LEMMA WithUserSound ==
  ASSUME NEW v, NEW g, GoodGame(v, g), NEW w \in Seq(UserArgs) PROVE GameSound(v \o w)
  <1> DEFINE s == v \o w
             l == Len(v)
             m == Len(w)
  <1>1. v \in Seq(AnyArg) /\ Linked(v) /\ Completed(v) /\ OneJoin(v)
    BY DEF GoodGame
  <1>2. w \in Seq(AnyArg) /\ \A i \in 1 .. m : w[i].by = "user"
    <2>1. UserArgs \subseteq AnyArg
      BY DEF UserArgs, AnyArg
    <2>2. \A i \in 1 .. m : w[i] \in UserArgs
      BY Indices
    <2> QED BY <2>1, <2>2, Wider DEF UserArgs
  <1>3. /\ s \in Seq(AnyArg) /\ Len(s) = l + m
        /\ \A p \in 1 .. l + m : s[p] = IF p <= l THEN v[p] ELSE w[p - l]
    <2>1. v \in Seq(AnyArg) /\ w \in Seq(AnyArg)
      BY <1>1, <1>2
    <2> QED BY <2>1, ConcatProperties
  <1>4. l \in Nat /\ m \in Nat /\ DOMAIN s = 1 .. l + m
    BY <1>1, <1>2, <1>3, Indices
  <1> HIDE DEF s, l, m
  <1>5. ASSUME NEW p \in DOMAIN s, s[p].by # "user" PROVE p \in 1 .. l /\ s[p] = v[p]
    <2>1. (p \in 1 .. l /\ p <= l) \/ (p - l \in 1 .. m /\ ~(p <= l))
      BY <1>4
    <2>2. p \in 1 .. l + m
      BY <1>4
    <2> QED BY <1>2, <1>3, <1>5, <2>1, <2>2
  <1>6. ASSUME NEW p \in 1 .. l
        PROVE  /\ p > 1 => s[p - 1] = v[p - 1]
               /\ p < l => p < l + m /\ s[p + 1] = v[p + 1]
    <2>1. p > 1 => p - 1 \in 1 .. l + m /\ p - 1 <= l
      BY <1>4
    <2>2. p < l => p + 1 \in 1 .. l + m /\ p + 1 <= l /\ p < l + m
      BY <1>4
    <2> QED BY <1>3, <2>1, <2>2
  <1>7. ASSUME NEW i \in DOMAIN s, s[i].by # "user", s[i].of # ""
        PROVE  i > 1 /\ s[i - 1].text = s[i].of
    <2>1. i \in 1 .. l /\ s[i] = v[i]
      BY <1>5, <1>7
    <2>2. i > 1 /\ v[i - 1].text = v[i].of
      BY <1>1, <1>7, <2>1 DEF Linked, l
    <2>3. s[i - 1] = v[i - 1]
      BY <1>6, <2>1, <2>2
    <2> QED BY <2>1, <2>2, <2>3
  <1>8. ASSUME NEW i \in DOMAIN s, s[i].by # "user", s[i].text \in ValueFlags
        PROVE  i < Len(s) /\ s[i + 1].of = s[i].text
    <2>1. i \in 1 .. l /\ s[i] = v[i]
      BY <1>5, <1>8
    <2>2. i < l /\ v[i + 1].of = v[i].text
      BY <1>1, <1>8, <2>1 DEF Completed, l
    <2>3. i < l + m /\ s[i + 1] = v[i + 1]
      BY <1>6, <2>1, <2>2
    <2> QED BY <1>3, <2>1, <2>2, <2>3
  <1> DEFINE J == {i \in DOMAIN s : s[i].by # "user" /\ s[i].text \in JoinFlags}
  <1>9. \A i, j \in J : i = j
    BY <1>1, <1>5 DEF OneJoin, l
  <1> HIDE DEF J
  <1>10. Cardinality(J) <= 1
    <2>1. CASE J = {}
      <3>1. Cardinality(J) = 0
        BY <2>1, FS_EmptySet
      <3> QED BY <3>1
    <2>2. CASE J # {}
      <3>1. PICK i \in J : TRUE
        BY <2>2
      <3>2. J = {i}
        BY <1>9, <3>1
      <3>3. Cardinality(J) = 1
        BY <3>2, FS_Singleton
      <3> QED BY <3>3
    <2> QED BY <2>1, <2>2
  <1>11. GameSound(s)
    BY <1>7, <1>8, <1>10 DEF GameSound, J
  <1> QED BY <1>11 DEF s

LEMMA GameIsSound ==
  ASSUME NEW r, ArgumentsFit(r.arguments), LegacyFits(r.legacy), NEW o, o.game \in Seq(UserArgs)
  PROVE  GameSound(GameArgs(r, o))
  <1> DEFINE t == Templates(r, o)
             s == Prune(t, Substitutions(o))
             v == AddServer(AddDemo(AddWindow(s, o), o), o, QuickPlayCapable(r))
             g == Unused(r)
  <1>1. Paired(t) /\ OneJoin(t) /\ NoText(t, g)
    BY TemplatesFit
  <1> HIDE DEF t
  <1>2. GoodGame(s, g)
    BY <1>1, PrunedIsGood
  <1> HIDE DEF s
  <1>3. GoodGame(v, g)
    BY <1>2, GameIsGood
  <1>4. GameArgs(r, o) = v \o o.game
    BY DEF GameArgs, s, t
  <1> HIDE DEF v, g
  <1> QED BY <1>3, <1>4, WithUserSound

EnvSound(env, o) ==
  \A k \in DOMAIN RendererEnv(o.renderer) :
    env[k] # RendererEnv(o.renderer)[k] => k \in DOMAIN o.overrides

LEMMA BuildIsSound ==
  ASSUME ManifestsWellFormed, OptionsWellFormed, ChainInv, options \in Options, NEW d
  PROVE  LET c == Build(Resolved, options, d)
         IN  JvmSound(c.jvm) /\ GameSound(c.game) /\ EnvSound(c.env, options)
  <1> DEFINE r == Resolved
             o == options
  <1>1. ArgumentsFit(r.arguments) /\ LegacyFits(r.legacy)
    BY ResolvedFits
  <1>2. /\ o.renderer \in Renderers
        /\ o.jvm \in Seq(Arg) /\ \A a \in ToSet(o.jvm) : a.by = "user"
        /\ o.game \in Seq(Arg) /\ \A a \in ToSet(o.game) : a.by = "user"
    BY DEF OptionsWellFormed, Renderers
  <1> HIDE DEF r, o
  <1>3. ASSUME NEW s \in Seq(Arg), \A a \in ToSet(s) : a.by = "user" PROVE s \in Seq(UserArgs)
    <2>1. Len(s) \in Nat /\ DOMAIN s = 1 .. Len(s) /\ \A i \in 1 .. Len(s) : s[i] \in Arg
      BY Indices
    <2>2. \A i \in 1 .. Len(s) : s[i] \in UserArgs
      BY <1>3, <2>1 DEF ToSet, UserArgs
    <2>3. s = [i \in 1 .. Len(s) |-> s[i]]
      BY <2>1
    <2>4. s \in [1 .. Len(s) -> UserArgs]
      BY <2>2, <2>3
    <2> QED BY <2>1, <2>4 DEF Seq
  <1>4. o.jvm \in Seq(UserArgs) /\ o.game \in Seq(UserArgs)
    BY <1>2, <1>3
  <1>5. JvmSound(JvmArgs(r, o, d))
    BY <1>1, <1>4, JvmIsSound
  <1>6. GameSound(GameArgs(r, o))
    BY <1>1, <1>4, GameIsSound
  <1>7. EnvSound(BuildEnv(o), o)
    BY <1>2, EnvIsSound DEF EnvSound
  <1> QED BY <1>5, <1>6, <1>7 DEF Build, r, o

CommandInv ==
  \A c \in ToSet(command) : JvmSound(c.jvm) /\ GameSound(c.game) /\ EnvSound(c.env, options)

LEMMA CommandStep ==
  ASSUME ManifestsWellFormed, OptionsWellFormed, ChainInv, ChoiceInv, CommandInv, [Next]_vars
  PROVE  CommandInv'
  <1>1. \/ command' = command
        \/ command' = <<>>
        \/ command' = <<Build(Resolved, options, disk)>>
    BY DEF Next, vars, FetchVersion, FetchFails, Preview, Download, Lose, Prepare, CheckOptions,
           PreflightJava, PreflightRuntime, BuildClasspath, VerifyPresent, CreateDirs, BuildCommand,
           Stay, Refuse, Pass
  <1>2. options' = options
    BY DEF Next, vars, inputs, FetchVersion, FetchFails, Preview, Download, Lose, Prepare,
           CheckOptions, PreflightJava, PreflightRuntime, BuildClasspath, VerifyPresent, CreateDirs,
           BuildCommand, Stay, Refuse, Pass
  <1>3. CASE command' = command
    BY <1>2, <1>3 DEF CommandInv
  <1>4. CASE command' = <<>>
    <2>1. ToSet(command') = {}
      BY <1>4 DEF ToSet
    <2> QED BY <2>1 DEF CommandInv
  <1>5. CASE command' = <<Build(Resolved, options, disk)>>
    <2> DEFINE c == Build(Resolved, options, disk)
    <2>1. JvmSound(c.jvm) /\ GameSound(c.game) /\ EnvSound(c.env, options)
      BY BuildIsSound DEF ChoiceInv
    <2> HIDE DEF c
    <2>2. ToSet(command') = {c}
      BY <1>5 DEF ToSet, c
    <2>3. JvmSound(c.jvm) /\ GameSound(c.game) /\ EnvSound(c.env, options')
      BY <1>2, <2>1
    <2> QED BY <2>2, <2>3 DEF CommandInv
  <1> QED BY <1>1, <1>3, <1>4, <1>5

(* The command line (command.rs, args.rs, env.rs): one class path, no      *)
(* property of the launcher's given again but by the user, every flag of   *)
(* the game with its value, a server joined once, and the renderer's       *)
(* environment.  Supposed: published manifests are well formed, and the    *)
(* options are of the enumerations.                                        *)
THEOREM CommandIsSoundHolds ==
  ASSUME ManifestsWellFormed, OptionsWellFormed
  PROVE  Spec => []CommandIsSound
  <1>1. Init => CommandInv
    <2>1. ToSet(<<>>) = {}
      BY DEF ToSet
    <2> QED BY <2>1 DEF Init, CommandInv
  <1>2. LaunchInv /\ CommandInv /\ [Next]_vars => CommandInv'
    BY CommandStep DEF LaunchInv
  <1>3. CommandInv => CommandIsSound
    BY DEF CommandInv, CommandIsSound, JvmSound, GameSound, EnvSound
  <1> QED BY <1>1, <1>2, <1>3, LaunchInvHolds, PTL DEF Spec
================================================================================
