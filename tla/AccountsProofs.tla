----------------------------- MODULE AccountsProofs -----------------------------
(***************************************************************************)
(* The store of Accounts is written by one call at a time and under one    *)
(* key only, what a caller was told of it is in it, and no token goes back *)
(* to an older one: for every set of callers and accounts and every number *)
(* of calls, kills, faults and grants.                                     *)
(***************************************************************************)
EXTENDS Accounts, SubsequenceLemmas, TLAPS

(* Enough of the types to follow a key and a program counter. *)
CallsOK ==
  /\ DOMAIN call = Caller
  /\ \A c \in Caller : {"pc", "op", "id", "token", "polls"} \subseteq DOMAIN call[c]
ManagerOK ==
  /\ {"key", "accounts"} \subseteq DOMAIN manager
  /\ manager.key \in Key \cup {InMemory}

(* A call past the mutex holds it. *)
Inside(c) == call[c].pc \notin {"idle", "lock"}
Mutex == \A c \in Caller : Inside(c) => owner = c

(* What is written is sealed with the key of the manager, which is that of *)
(* the store if there is one.                                              *)
OneKey ==
  /\ manager.key \in Key => disk.key \in {manager.key, "none"}
  /\ disk.key = "none" => disk = NoFile
  /\ \A c \in Caller : call[c].pc \in {"write", "rename"} => manager.key \in Key
  /\ \A c \in Caller : call[c].pc = "rename" => temp.key = manager.key

StoreInv == CallsOK /\ ManagerOK /\ Mutex /\ OneKey

-----------------------------------------------------------------------------
(* A list of accounts holds no token that was not granted.                 *)
Issued(ls, g) == \A i \in DOMAIN ls : ls[i].id \in Online => ls[i].token <= g[ls[i].id]

(* A list of accounts is as the callers were told.                         *)
Agree(ls, t) ==
  \A u \in Uuid : /\ t[u] = "in" => Has(u, ls)
                  /\ t[u] = "out" => ~Has(u, ls)

ListsOK ==
  /\ manager.accounts \in Seq(Account) /\ disk.accounts \in Seq(Account)
  /\ temp.accounts \in Seq(Account)
  /\ issued \in [Online -> 0 .. MaxGrants] /\ told \in [Uuid -> {"in", "out", "unknown"}]
  /\ owner \in Caller \cup {None}

(* What a call has found and done where it is, with ls in memory, tm in    *)
(* the temp file and g granted: the grant it holds is the newest, the      *)
(* account it refreshes is still there, what it saves is what it was asked *)
(* for.                                                                    *)
Asks(r) ==
  r.pc # "idle" => /\ r.op = "add" => r.id \in Offline
                   /\ r.op = "complete" => r.id \in Online
                   /\ r.op \notin {"list", "begin"} => r.id \in Uuid
Polls(r) == r.pc \in {"poll", "sleep"} => r.op = "complete"
Renews(r, ls) ==
  r.pc = "grant" => r.op \in {"refresh", "fresh"} /\ r.id \in Online /\ Has(r.id, ls)
Holds(r, ls, g) ==
  r.pc \in DOMAIN NextOf \cup {"store"} =>
    /\ r.op \in {"complete", "refresh", "fresh"}
    /\ r.id \in Online /\ r.token = g[r.id]
    /\ r.op # "complete" => Has(r.id, ls)
Saves(r, ls, tm) ==
  /\ r.pc \in {"write", "rename", "kept"} => r.id \in Uuid /\ (r.op = "remove" <=> ~Has(r.id, ls))
  /\ r.pc = "rename" => tm = ls
Fits(r, ls, tm, g) == Asks(r) /\ Polls(r) /\ Renews(r, ls) /\ Holds(r, ls, g) /\ Saves(r, ls, tm)

BookInv ==
  /\ ListsOK
  /\ Issued(manager.accounts, issued) /\ Issued(disk.accounts, issued)
  /\ Issued(temp.accounts, issued)
  /\ Agree(disk.accounts, told) /\ (manager.key \in Key => Agree(manager.accounts, told))
  /\ \A c \in Caller : Fits(call[c], manager.accounts, temp.accounts, issued)

-----------------------------------------------------------------------------
(* AccountManager::find: the first account of a uuid.                      *)
IsFirst(i, u, ls) ==
  i \in DOMAIN ls /\ ls[i].id = u /\ \A j \in DOMAIN ls : ls[j].id = u => i <= j

LEMMA FindsFirst ==
  ASSUME NEW S, NEW ls \in Seq(S), NEW u, Has(u, ls)
  PROVE  IsFirst(IndexOf(u, ls), u, ls)
<1> DEFINE I == {i \in 1 .. Len(ls) : ls[i].id = u}
<1>1. DOMAIN ls = 1 .. Len(ls) /\ Len(ls) \in Nat
  BY Indices
<1>2. I \in SUBSET Nat /\ I # {}
  BY <1>1 DEF Has, Ids
<1>3. PICK x \in I : \A y \in I : x <= y
  BY <1>2, Least
<1>4. IndexOf(u, ls) = Min(I)
  BY <1>2 DEF IndexOf, SelectInSeq
<1>5. Min(I) \in I /\ \A y \in I : Min(I) <= y
  BY <1>3 DEF Min
<1> HIDE DEF I
<1>6. Min(I) \in I /\ \A y \in I : Min(I) <= y
  BY <1>5
<1> QED BY <1>1, <1>4, <1>6 DEF IsFirst, I

LEMMA FirstIsFound ==
  ASSUME NEW S, NEW ls \in Seq(S), NEW u, NEW i, IsFirst(i, u, ls)
  PROVE  Has(u, ls) /\ IndexOf(u, ls) = i
<1>1. Has(u, ls)
  BY DEF IsFirst, Has, Ids
<1>2. IsFirst(IndexOf(u, ls), u, ls)
  BY <1>1, FindsFirst
<1>3. DOMAIN ls \subseteq Nat
  BY Indices
<1> QED BY <1>1, <1>2, <1>3 DEF IsFirst

-----------------------------------------------------------------------------
(* What the changes of a list do to its accounts and to the first of each  *)
(* uuid.                                                                   *)
LEMMA PushedList ==
  ASSUME NEW ls \in Seq(Account), NEW a \in Account
  PROVE  /\ Push(ls, a) \in Seq(Account)
         /\ \A u : Has(u, Push(ls, a)) <=> Has(u, ls) \/ u = a.id
         /\ \A g : Issued(ls, g) /\ (a.id \in Online => a.token <= g[a.id]) => Issued(Push(ls, a), g)
         /\ \A u : Has(u, ls) => TokenOf(u, Push(ls, a)) = TokenOf(u, ls)
<1> DEFINE bs == Append(ls, a)
<1>0. bs \in Seq(Account) /\ Len(bs) = Len(ls) + 1
  OBVIOUS
<1>1. /\ bs \in Seq(Account) /\ DOMAIN ls = 1 .. Len(ls) /\ Len(ls) \in Nat
      /\ DOMAIN bs = 1 .. Len(ls) + 1 /\ bs[Len(ls) + 1] = a
      /\ \A i \in 1 .. Len(ls) : bs[i] = ls[i]
  <2>1. DOMAIN bs = 1 .. Len(bs) /\ DOMAIN ls = 1 .. Len(ls) /\ Len(ls) \in Nat
    BY <1>0, Indices
  <2>2. bs[Len(ls) + 1] = a /\ \A i \in 1 .. Len(ls) : bs[i] = ls[i]
    OBVIOUS
  <2> HIDE DEF bs
  <2> QED BY <1>0, <2>1, <2>2
<1> HIDE DEF bs
<1>2. \A i \in DOMAIN bs : i = Len(ls) + 1 \/ i \in DOMAIN ls
  BY <1>1
<1>3. DOMAIN ls \subseteq DOMAIN bs /\ Len(ls) + 1 \in DOMAIN bs
  BY <1>1
<1>4. ASSUME NEW u PROVE Has(u, bs) <=> Has(u, ls) \/ u = a.id
  BY <1>1, <1>2, <1>3 DEF Has, Ids
<1>5. ASSUME NEW g, Issued(ls, g), a.id \in Online => a.token <= g[a.id] PROVE Issued(bs, g)
  BY <1>1, <1>2, <1>5 DEF Issued
<1>6. ASSUME NEW u, Has(u, ls) PROVE TokenOf(u, bs) = TokenOf(u, ls)
  <2>1. IsFirst(IndexOf(u, ls), u, ls)
    BY <1>6, FindsFirst
  <2>2. IsFirst(IndexOf(u, ls), u, bs)
    BY <1>1, <1>2, <1>3, <2>1 DEF IsFirst
  <2>3. IndexOf(u, bs) = IndexOf(u, ls)
    BY <1>1, <2>2, FirstIsFound
  <2> QED BY <1>1, <2>1, <2>3 DEF TokenOf, IsFirst
<1> QED BY <1>1, <1>4, <1>5, <1>6 DEF Push, bs

LEMMA RetainedList ==
  ASSUME NEW ls \in Seq(Account), NEW u
  PROVE  /\ Retain(ls, u) \in Seq(Account)
         /\ \A v : Has(v, Retain(ls, u)) <=> Has(v, ls) /\ v # u
         /\ \A g : Issued(ls, g) => Issued(Retain(ls, u), g)
         /\ \A v : Has(v, ls) /\ v # u => TokenOf(v, Retain(ls, u)) = TokenOf(v, ls)
<1> DEFINE I == {i \in DOMAIN ls : ls[i].id # u}
           bs == Retain(ls, u)
<1>1. DOMAIN ls = 1 .. Len(ls) /\ I \in SUBSET (1 .. Len(ls)) /\ bs = Subsequence(ls, I)
  BY Indices DEF Retain
<1>2. bs \in Seq(Account) /\ \E e : Picks(e, bs, ls, I)
  BY <1>1, SubsequencePicks
<1>3. PICK e : Picks(e, bs, ls, I)
  BY <1>2
<1>4. /\ DOMAIN bs = 1 .. Len(bs)
      /\ \A k \in DOMAIN bs : e[k] \in DOMAIN ls /\ ls[e[k]].id # u /\ bs[k] = ls[e[k]]
      /\ \A i \in DOMAIN ls : ls[i].id # u => \E k \in DOMAIN bs : e[k] = i
      /\ \A k, l \in DOMAIN bs : k < l => e[k] < e[l]
  <2> HIDE DEF bs
  <2>1. DOMAIN bs = 1 .. Len(bs)
    BY <1>2, Indices
  <2>2. \A k \in 1 .. Len(bs) : e[k] \in I /\ bs[k] = ls[e[k]]
    BY <1>3 DEF Picks
  <2>3. \A i \in I : \E k \in 1 .. Len(bs) : e[k] = i
    BY <1>3 DEF Picks
  <2>4. \A k, l \in 1 .. Len(bs) : k < l => e[k] < e[l]
    BY <1>3 DEF Picks
  <2> QED BY <2>1, <2>2, <2>3, <2>4
<1> HIDE DEF bs, I
<1>5. ASSUME NEW v PROVE Has(v, bs) <=> Has(v, ls) /\ v # u
  <2>1. ASSUME Has(v, bs) PROVE Has(v, ls) /\ v # u
    BY <1>4, <2>1 DEF Has, Ids
  <2>2. ASSUME Has(v, ls), v # u PROVE Has(v, bs)
    <3>1. PICK i \in DOMAIN ls : ls[i].id = v
      BY <2>2 DEF Has, Ids
    <3>2. PICK k \in DOMAIN bs : e[k] = i
      BY <1>4, <2>2, <3>1
    <3> QED BY <1>4, <3>1, <3>2 DEF Has, Ids
  <2> QED BY <2>1, <2>2
<1>6. ASSUME NEW g, Issued(ls, g) PROVE Issued(bs, g)
  BY <1>4, <1>6 DEF Issued
<1>7. ASSUME NEW v, Has(v, ls), v # u PROVE TokenOf(v, bs) = TokenOf(v, ls)
  <2>1. IsFirst(IndexOf(v, ls), v, ls)
    BY <1>7, FindsFirst
  <2>2. PICK k \in DOMAIN bs : e[k] = IndexOf(v, ls)
    BY <1>4, <1>7, <2>1 DEF IsFirst
  <2>3. bs[k].id = v /\ bs[k].token = TokenOf(v, ls)
    BY <1>4, <2>1, <2>2 DEF IsFirst, TokenOf
  <2>4. ASSUME NEW j \in DOMAIN bs, bs[j].id = v PROVE k <= j
    <3>1. e[k] <= e[j]
      BY <1>4, <2>1, <2>2, <2>4 DEF IsFirst
    <3>2. j \in Nat /\ k \in Nat
      BY <1>2, Indices
    <3>3. e[j] \in Nat /\ e[k] \in Nat
      BY <1>4, Indices
    <3> QED BY <1>4, <3>1, <3>2, <3>3
  <2>5. IndexOf(v, bs) = k
    <3>1. IsFirst(k, v, bs)
      BY <2>3, <2>4 DEF IsFirst
    <3> QED BY <1>2, <3>1, FirstIsFound
  <2> QED BY <2>3, <2>5 DEF TokenOf
<1> QED BY <1>2, <1>5, <1>6, <1>7 DEF bs

(* A list whose accounts keep their uuids keeps which is the first.        *)
LEMMA SameUuids ==
  ASSUME NEW ls \in Seq(Account), NEW bs \in Seq(Account), DOMAIN bs = DOMAIN ls,
         \A i \in DOMAIN ls : bs[i].id = ls[i].id
  PROVE  /\ \A u : Has(u, bs) <=> Has(u, ls)
         /\ \A u : Has(u, ls) => IndexOf(u, bs) = IndexOf(u, ls)
<1>1. ASSUME NEW u PROVE Has(u, bs) <=> Has(u, ls)
  BY DEF Has, Ids
<1>2. ASSUME NEW u, Has(u, ls) PROVE IndexOf(u, bs) = IndexOf(u, ls)
  <2>1. IsFirst(IndexOf(u, ls), u, bs)
    <3>1. IsFirst(IndexOf(u, ls), u, ls)
      BY <1>2, FindsFirst
    <3> QED BY <3>1 DEF IsFirst
  <2> QED BY <2>1, FirstIsFound
<1> QED BY <1>1, <1>2

LEMMA ReplacedList ==
  ASSUME NEW ls \in Seq(Account), NEW a \in Account, Has(a.id, ls)
  PROVE  LET bs == Replace(ls, a.id, a) IN
         /\ bs \in Seq(Account)
         /\ \A u : Has(u, bs) <=> Has(u, ls)
         /\ \A g : Issued(ls, g) /\ (a.id \in Online => a.token <= g[a.id]) => Issued(bs, g)
         /\ \A u : Has(u, ls) =>
              TokenOf(u, bs) = IF u = a.id THEN a.token ELSE TokenOf(u, ls)
<1> DEFINE f == IndexOf(a.id, ls)
           bs == [ls EXCEPT ![f] = a]
<1>1. IsFirst(f, a.id, ls)
  BY FindsFirst
<1> HIDE DEF f
<1>2. f \in 1 .. Len(ls) /\ DOMAIN ls = 1 .. Len(ls)
  BY <1>1, Indices DEF IsFirst
<1>3. /\ bs \in Seq(Account) /\ DOMAIN bs = DOMAIN ls
      /\ \A i \in DOMAIN ls : bs[i] = IF i = f THEN a ELSE ls[i]
  BY <1>2
<1> HIDE DEF bs
<1>4. \A i \in DOMAIN ls : bs[i].id = ls[i].id
  BY <1>1, <1>3 DEF IsFirst
<1>5. /\ \A u : Has(u, bs) <=> Has(u, ls)
      /\ \A u : Has(u, ls) => IndexOf(u, bs) = IndexOf(u, ls)
  BY <1>3, <1>4, SameUuids
<1>6. ASSUME NEW g, Issued(ls, g), a.id \in Online => a.token <= g[a.id] PROVE Issued(bs, g)
  BY <1>3, <1>6 DEF Issued
<1>7. ASSUME NEW u, Has(u, ls)
      PROVE  TokenOf(u, bs) = IF u = a.id THEN a.token ELSE TokenOf(u, ls)
  <2>1. IsFirst(IndexOf(u, ls), u, ls)
    BY <1>7, FindsFirst
  <2>2. CASE u = a.id
    BY <1>2, <1>3, <1>5, <1>7, <2>2 DEF TokenOf, f
  <2>3. CASE u # a.id
    <3>1. IndexOf(u, ls) # f /\ IndexOf(u, ls) \in DOMAIN ls
      BY <1>1, <2>1, <2>3 DEF IsFirst
    <3> QED BY <1>3, <1>5, <1>7, <2>3, <3>1 DEF TokenOf
  <2> QED BY <2>2, <2>3
<1> QED BY <1>3, <1>5, <1>6, <1>7 DEF Replace, bs, f

(* Time makes the accounts of a uuid expire.                               *)
Aged(ls, u) ==
  [i \in DOMAIN ls |-> IF ls[i].id = u THEN [ls[i] EXCEPT !.expiring = TRUE] ELSE ls[i]]

LEMMA AgedList ==
  ASSUME NEW ls \in Seq(Account), NEW u
  PROVE  LET bs == Aged(ls, u) IN
         /\ bs \in Seq(Account)
         /\ \A v : Has(v, bs) <=> Has(v, ls)
         /\ \A g : Issued(ls, g) => Issued(bs, g)
         /\ \A v : Has(v, ls) => TokenOf(v, bs) = TokenOf(v, ls)
<1> DEFINE bs == Aged(ls, u)
<1>1. DOMAIN ls = 1 .. Len(ls) /\ Len(ls) \in Nat /\ \A i \in DOMAIN ls : ls[i] \in Account
  BY Indices
<1>2. ASSUME NEW i \in DOMAIN ls
      PROVE  bs[i] \in Account /\ bs[i].id = ls[i].id /\ bs[i].token = ls[i].token
  <2>1. ls[i] \in Account
    BY <1>1
  <2>2. bs[i] = IF ls[i].id = u THEN [ls[i] EXCEPT !.expiring = TRUE] ELSE ls[i]
    BY DEF Aged
  <2> QED BY <2>1, <2>2 DEF Account
<1>3. DOMAIN bs = DOMAIN ls /\ bs = [i \in 1 .. Len(ls) |-> bs[i]]
  BY <1>1 DEF Aged
<1> HIDE DEF bs
<1>4. bs \in Seq(Account)
  BY <1>1, <1>2, <1>3
<1>5. /\ \A v : Has(v, bs) <=> Has(v, ls)
      /\ \A v : Has(v, ls) => IndexOf(v, bs) = IndexOf(v, ls)
  BY <1>2, <1>3, <1>4, SameUuids
<1>6. ASSUME NEW g, Issued(ls, g) PROVE Issued(bs, g)
  BY <1>2, <1>3, <1>6 DEF Issued
<1>7. ASSUME NEW v, Has(v, ls) PROVE TokenOf(v, bs) = TokenOf(v, ls)
  <2>1. IndexOf(v, ls) \in DOMAIN ls
    BY <1>7, FindsFirst DEF IsFirst
  <2> QED BY <1>2, <1>5, <1>7, <2>1 DEF TokenOf
<1> QED BY <1>4, <1>5, <1>6, <1>7 DEF bs

-----------------------------------------------------------------------------
LEMMA Keys == "none" \notin Key /\ InMemory \notin Key /\ NoFile.key = "none"
BY DEF Key, InMemory, NoFile, Sealed

LEMMA StoreStarts == Init => StoreInv
<1> SUFFICES ASSUME Init PROVE StoreInv
  OBVIOUS
<1>1. CallsOK /\ ManagerOK
  BY DEF Init, CallsOK, ManagerOK, Idle, Default, Manager
<1>2. \A c \in Caller : call[c].pc = "idle"
  BY DEF Init, Idle
<1>3. disk.key = "none" => disk = NoFile
  BY DEF Init, Sealed, NoFile
<1>4. manager.key \notin Key
  BY Keys DEF Init, Default, Manager
<1> QED BY <1>1, <1>2, <1>3, <1>4 DEF StoreInv, Mutex, Inside, OneKey

-----------------------------------------------------------------------------
(* The ways a call moves. *)
Moved(c) == CallsOK' /\ \A d \in Caller \ {c} : call'[d] = call[d]

LEMMA GotoMoves ==
  ASSUME CallsOK, NEW c \in Caller, NEW p, Goto(c, p)
  PROVE  Moved(c) /\ call'[c].pc = p
BY DEF CallsOK, Goto, Moved

LEMMA ReturnMoves ==
  ASSUME CallsOK, NEW c \in Caller, Return(c)
  PROVE  Moved(c) /\ call'[c].pc = "idle" /\ owner' = None
BY DEF CallsOK, Return, Idle, Moved

(* How the mutex changes hands. *)
Held(c) ==
  \/ owner = None /\ owner' = c
  \/ owner = c /\ owner' = c
  \/ owner \in {None, c} /\ owner' = None /\ call'[c].pc = "idle"
  \/ owner' = owner /\ call'[c].pc = "lock"

LEMMA StepKeeps ==
  ASSUME StoreInv, NEW c \in Caller, Moved(c), Held(c), ManagerOK',
         manager'.key = manager.key, UNCHANGED <<disk, temp>>,
         call'[c].pc = "write" => manager.key \in Key, call'[c].pc # "rename"
  PROVE  StoreInv'
<1>0. None \notin Caller
  BY AccountsAssumption
<1>1. Mutex'
  <2> SUFFICES ASSUME NEW d \in Caller, call'[d].pc \notin {"idle", "lock"} PROVE owner' = d
    BY DEF Mutex, Inside
  <2>1. CASE d = c
    BY <2>1 DEF Held
  <2>2. CASE d # c
    BY <1>0, <2>2 DEF Held, Moved, StoreInv, Mutex, Inside
  <2> QED BY <2>1, <2>2
<1>2. OneKey'
  BY DEF OneKey, StoreInv, Moved
<1> QED BY <1>1, <1>2 DEF StoreInv, Moved

LEMMA HolderOf == ASSUME StoreInv, NEW c \in Caller, Inside(c) PROVE owner = c
BY DEF StoreInv, Mutex

(* A request that fails ends the call. *)
LEMMA FailsKeeps ==
  ASSUME StoreInv, NEW c \in Caller, Inside(c), Return(c), UNCHANGED <<manager, disk, temp>>
  PROVE  StoreInv'
<1>1. Moved(c) /\ call'[c].pc = "idle" /\ owner' = None /\ owner = c
  BY ReturnMoves, HolderOf DEF StoreInv
<1>2. ManagerOK' /\ manager'.key = manager.key
  BY DEF StoreInv, ManagerOK
<1> QED BY <1>1, <1>2, StepKeeps DEF Held

(* A call goes on to a request or a wait. *)
LEMMA GoesOnKeeps ==
  ASSUME StoreInv, NEW c \in Caller, Inside(c), Moved(c), call'[c].pc \notin {"write", "rename"},
         UNCHANGED <<manager, disk, temp, owner>>
  PROVE  StoreInv'
<1>1. owner = c /\ ManagerOK' /\ manager'.key = manager.key
  BY HolderOf DEF StoreInv, ManagerOK
<1> QED BY <1>1, StepKeeps DEF Held

(* Memory is changed, and the change is to be saved. *)
LEMMA ChangeKeeps ==
  ASSUME StoreInv, NEW c \in Caller, owner \in {None, c}, owner' = c, NEW ls,
         manager' = [manager EXCEPT !.accounts = ls], Goto(c, Persist(c)),
         UNCHANGED <<disk, temp>>
  PROVE  StoreInv'
<1>1. ManagerOK' /\ manager'.key = manager.key
  BY DEF StoreInv, ManagerOK
<1>2. Moved(c) /\ call'[c].pc = Persist(c)
  BY GotoMoves DEF StoreInv
<1>3. Persist(c) \in {"kept", "write"} /\ (Persist(c) = "write" => manager.key \in Key)
  BY <1>1 DEF Persist, StoreInv, ManagerOK
<1>4. Held(c)
  BY <1>2, <1>3 DEF Held
<1> QED BY <1>1, <1>2, <1>3, <1>4, StepKeeps

-----------------------------------------------------------------------------
LEMMA EnterKeeps == ASSUME StoreInv, NEW c \in Caller, Enter(c) PROVE StoreInv'
<1>0. owner = None /\ UNCHANGED <<disk, temp>>
  BY DEF Enter, Free, Same
<1>1. CASE AddOffline(c)
  BY <1>0, <1>1, ChangeKeeps DEF AddOffline
<1>2. ASSUME Return(c), UNCHANGED manager PROVE StoreInv'
  <2>1. Moved(c) /\ call'[c].pc = "idle" /\ owner' = None
    BY <1>2, ReturnMoves DEF StoreInv
  <2>2. ManagerOK' /\ manager'.key = manager.key
    BY <1>2 DEF StoreInv, ManagerOK
  <2> QED BY <1>0, <2>1, <2>2, StepKeeps DEF Held
<1>3. ASSUME NEW p \in {"grant", "device", "poll"}, owner' = c, Goto(c, p), UNCHANGED manager
      PROVE  StoreInv'
  <2>1. Moved(c) /\ call'[c].pc = p
    BY <1>3, GotoMoves DEF StoreInv
  <2>2. ManagerOK' /\ manager'.key = manager.key
    BY <1>3 DEF StoreInv, ManagerOK
  <2> QED BY <1>0, <1>3, <2>1, <2>2, StepKeeps DEF Held
<1>4. CASE RemoveAccount(c)
  <2>1. manager' = [manager EXCEPT !.accounts = Retain(@, call[c].id)]
    BY <1>4 DEF RemoveAccount
  <2>2. CASE owner' = c /\ Goto(c, Persist(c))
    BY <1>0, <2>1, <2>2, ChangeKeeps
  <2>3. CASE Return(c)
    <3>1. Moved(c) /\ call'[c].pc = "idle" /\ owner' = None
      BY <2>3, ReturnMoves DEF StoreInv
    <3>2. ManagerOK' /\ manager'.key = manager.key
      BY <2>1 DEF StoreInv, ManagerOK
    <3> QED BY <1>0, <3>1, <3>2, StepKeeps DEF Held
  <2> QED BY <1>4, <2>2, <2>3 DEF RemoveAccount
<1>5. CASE Refresh(c)
  BY <1>2, <1>3, <1>5 DEF Refresh
<1>6. CASE List(c)
  BY <1>2, <1>6 DEF List
<1>7. CASE BeginMicrosoft(c) \/ CompleteMicrosoft(c)
  BY <1>3, <1>7 DEF BeginMicrosoft, CompleteMicrosoft
<1> QED BY <1>1, <1>4, <1>5, <1>6, <1>7 DEF Enter

LEMMA GrantedKeeps ==
  ASSUME StoreInv, NEW c \in Caller, Inside(c), NEW u, Granted(c, u)
  PROVE  StoreInv'
<1>1. Moved(c) /\ call'[c].pc = "xbl"
  BY DEF Granted, Moved, StoreInv, CallsOK
<1> QED BY <1>1, GoesOnKeeps DEF Granted

LEMMA FlowKeeps ==
  ASSUME StoreInv, NEW c \in Caller,
         DeviceCode(c) \/ Poll(c) \/ Sleep(c) \/ Grant(c) \/ Chain(c)
  PROVE  StoreInv'
<1>0. Inside(c)
  BY DEF DeviceCode, Poll, Sleep, Grant, Chain, NextOf, Inside
<1>1. ASSUME Fails(c) PROVE StoreInv'
  BY <1>0, <1>1, FailsKeeps DEF Fails, Same
<1>2. CASE DeviceCode(c)
  BY <1>1, <1>2 DEF DeviceCode
<1>3. CASE Poll(c)
  <2>1. ASSUME Goto(c, "sleep"), UNCHANGED <<manager, owner, told>>, Same PROVE StoreInv'
    <3>1. Moved(c) /\ call'[c].pc = "sleep"
      BY <2>1, GotoMoves DEF StoreInv
    <3> QED BY <1>0, <2>1, <3>1, GoesOnKeeps DEF Same
  <2> QED BY <1>0, <1>1, <1>3, <2>1, GrantedKeeps DEF Poll
<1>4. CASE Sleep(c)
  <2>1. Moved(c) /\ call'[c].pc = "poll"
    BY <1>4 DEF Sleep, Moved, StoreInv, CallsOK
  <2> QED BY <1>0, <1>4, <2>1, GoesOnKeeps DEF Sleep, Same
<1>5. CASE Grant(c)
  <2>1. ASSUME Return(c), UNCHANGED <<manager, disk, temp>> PROVE StoreInv'
    BY <1>0, <2>1, FailsKeeps
  <2> QED BY <1>0, <1>1, <1>5, <2>1, GrantedKeeps DEF Grant
<1>6. CASE Chain(c)
  <2>1. ASSUME Goto(c, NextOf[call[c].pc]), UNCHANGED <<manager, owner, told>>, Same
        PROVE  StoreInv'
    <3>1. Moved(c) /\ call'[c].pc = NextOf[call[c].pc]
      BY <2>1, GotoMoves DEF StoreInv
    <3>2. NextOf[call[c].pc] \in {"xsts", "login", "profile", "store"}
      BY <1>6 DEF Chain, NextOf
    <3> QED BY <1>0, <2>1, <3>1, <3>2, GoesOnKeeps DEF Same
  <2> QED BY <1>1, <1>6, <2>1 DEF Chain
<1> QED BY <1>2, <1>3, <1>4, <1>5, <1>6

LEMMA StoreKeeps == ASSUME StoreInv, NEW c \in Caller, Store(c) PROVE StoreInv'
<1>1. owner = c /\ owner' = c
  BY HolderOf DEF Store, Inside
<1> QED BY <1>1, ChangeKeeps DEF Store, Same

LEMMA KeptKeeps ==
  ASSUME StoreInv, NEW c \in Caller, Kept(c) \/ DiskFails(c) PROVE StoreInv'
<1>1. Inside(c)
  BY DEF Kept, DiskFails, Inside
<1> QED BY <1>1, FailsKeeps DEF Kept, DiskFails, Same

-----------------------------------------------------------------------------
(* The two steps of a save: no other call is in one. *)
LEMMA OthersAreOutside ==
  ASSUME StoreInv, NEW c \in Caller, Inside(c), NEW d \in Caller \ {c}
  PROVE  call[d].pc \in {"idle", "lock"}
BY DEF StoreInv, Mutex, Inside

LEMMA WriteTempKeeps == ASSUME StoreInv, NEW c \in Caller, WriteTemp(c) PROVE StoreInv'
<1>0. Inside(c) /\ manager.key \in Key
  BY DEF WriteTemp, Inside, StoreInv, OneKey
<1>1. Moved(c) /\ call'[c].pc = "rename"
  BY GotoMoves DEF WriteTemp, StoreInv
<1>2. temp'.key = manager.key
  BY DEF WriteTemp, Sealed
<1>3. \A d \in Caller \ {c} : call'[d].pc \in {"idle", "lock"}
  BY <1>0, <1>1, OthersAreOutside DEF Moved
<1>4. owner' = c
  BY <1>0, HolderOf DEF WriteTemp
<1>5. Mutex'
  BY <1>3, <1>4 DEF Mutex, Inside
<1>6. OneKey'
  BY <1>0, <1>1, <1>2, <1>3 DEF OneKey, StoreInv, WriteTemp
<1>7. ManagerOK'
  BY DEF StoreInv, ManagerOK, WriteTemp
<1> QED BY <1>1, <1>5, <1>6, <1>7 DEF StoreInv, Moved

LEMMA RenameKeeps ==
  ASSUME StoreInv, NEW c \in Caller, Rename(c)
  PROVE  StoreInv' /\ disk'.key = manager.key /\ manager.key \in Key
<1>0. Inside(c) /\ manager.key \in Key /\ temp.key = manager.key
  BY DEF Rename, Inside, StoreInv, OneKey
<1>1. Moved(c) /\ call'[c].pc = "idle" /\ owner' = None
  BY ReturnMoves DEF Rename, Answer, StoreInv
<1>2. disk'.key = manager.key
  BY <1>0 DEF Rename
<1>3. \A d \in Caller : call'[d].pc \in {"idle", "lock"}
  BY <1>0, <1>1, OthersAreOutside DEF Moved
<1>4. Mutex'
  BY <1>3 DEF Mutex, Inside
<1>5. OneKey'
  BY <1>0, <1>2, <1>3, Keys DEF OneKey, Rename
<1>6. ManagerOK'
  BY DEF StoreInv, ManagerOK, Rename
<1> QED BY <1>0, <1>1, <1>2, <1>4, <1>5, <1>6 DEF StoreInv, Moved

-----------------------------------------------------------------------------
LEMMA CallKeeps ==
  ASSUME StoreInv, NEW c \in Caller, NEW op, NEW u, Call(c, op, u) PROVE StoreInv'
<1>1. Moved(c) /\ call'[c].pc = "lock"
  BY DEF Call, Moved, StoreInv, CallsOK, Idle
<1>2. ManagerOK' /\ manager'.key = manager.key
  BY DEF StoreInv, ManagerOK, Call
<1> QED BY <1>1, <1>2, StepKeeps DEF Held, Call

LEMMA ConfigureKeeps == ASSUME StoreInv, NEW k \in Key, Configure(k) PROVE StoreInv'
<1>1. manager'.key = k /\ ManagerOK'
  BY DEF Configure, Manager, ManagerOK
<1>2. CallsOK' /\ \A c \in Caller : call'[c].pc = "idle"
  BY DEF Configure, Quiet, Idle, StoreInv, CallsOK
<1>3. disk'.key \in {k, "none"} /\ disk' = disk
  BY DEF Configure, Opened
<1> QED BY <1>1, <1>2, <1>3 DEF StoreInv, Mutex, Inside, OneKey

LEMMA ExpireKeeps == ASSUME StoreInv, NEW u \in Online, Expire(u) PROVE StoreInv'
<1>1. ManagerOK' /\ manager'.key = manager.key
  BY DEF Expire, StoreInv, ManagerOK
<1>2. UNCHANGED <<call, owner, disk, temp>>
  BY DEF Expire
<1> QED BY <1>1, <1>2 DEF StoreInv, CallsOK, Mutex, Inside, OneKey

LEMMA KillKeeps == ASSUME StoreInv, Kill PROVE StoreInv'
<1>1. CallsOK' /\ \A c \in Caller : call'[c].pc = "idle"
  BY DEF Kill, Idle, CallsOK
<1>2. ManagerOK' /\ manager'.key \notin Key
  BY Keys DEF Kill, Default, Manager, ManagerOK
<1> QED BY <1>1, <1>2 DEF StoreInv, Mutex, Inside, OneKey, Kill

LEMMA StoreKept == StoreInv /\ [Next]_vars => StoreInv'
<1> SUFFICES ASSUME StoreInv, [Next]_vars PROVE StoreInv'
  OBVIOUS
<1>1. CASE Kill
  BY <1>1, KillKeeps
<1>2. CASE Finished \/ UNCHANGED vars
  BY <1>2 DEF Finished, vars, StoreInv, CallsOK, ManagerOK, Mutex, Inside, OneKey
<1>3. ASSUME NEW k \in Key, Configure(k) PROVE StoreInv'
  BY <1>3, ConfigureKeeps
<1>4. ASSUME NEW u \in Online, Expire(u) PROVE StoreInv'
  BY <1>4, ExpireKeeps
<1>5. ASSUME NEW c \in Caller, Step(c) \/ DiskFails(c) PROVE StoreInv'
  BY <1>5, EnterKeeps, FlowKeeps, StoreKeeps, KeptKeeps, WriteTempKeeps, RenameKeeps DEF Step
<1>6. ASSUME NEW c \in Caller, NEW op, NEW u, Call(c, op, u) PROVE StoreInv'
  BY <1>6, CallKeeps
<1> QED BY <1>1, <1>2, <1>3, <1>4, <1>5, <1>6 DEF Next

(* Only a rename changes the store, and it seals with the store's own key. *)
LEMMA KeyKept ==
  ASSUME StoreInv, [Next]_vars
  PROVE  [disk # NoFile => disk'.key = disk.key]_disk
<1>1. ASSUME NEW c \in Caller, Rename(c) PROVE disk # NoFile => disk'.key = disk.key
  BY <1>1, RenameKeeps DEF StoreInv, OneKey
<1>2. ASSUME ~\E c \in Caller : Rename(c) PROVE disk' = disk
  <2>1. CASE Kill \/ Finished \/ UNCHANGED vars
    BY <2>1 DEF Kill, Finished, vars
  <2>2. ASSUME NEW k \in Key, Configure(k) PROVE disk' = disk
    BY <2>2 DEF Configure
  <2>3. ASSUME NEW u \in Online, Expire(u) PROVE disk' = disk
    BY <2>3 DEF Expire
  <2>4. ASSUME NEW c \in Caller, Step(c) \/ DiskFails(c) PROVE disk' = disk
    BY <1>2, <2>4 DEF Step, Enter, DeviceCode, Poll, Sleep, Grant, Granted, Fails, Chain, Store,
       Kept, WriteTemp, DiskFails, Same
  <2>5. ASSUME NEW c \in Caller, NEW op, NEW u, Call(c, op, u) PROVE disk' = disk
    BY <2>5 DEF Call
  <2> QED BY <2>1, <2>2, <2>3, <2>4, <2>5 DEF Next
<1> QED BY <1>1, <1>2

-----------------------------------------------------------------------------
(* What is in the lists: a step of one call, the others being outside.     *)
Alone(c) == \A d \in Caller \ {c} : call[d].pc \in {"idle", "lock"}

LEMMA IsAlone ==
  ASSUME StoreInv, NEW c \in Caller, Inside(c) \/ owner = None PROVE Alone(c)
<1>1. None \notin Caller
  BY AccountsAssumption
<1> QED BY <1>1, OthersAreOutside DEF Alone, StoreInv, Mutex, Inside

LEMMA GotoIs ==
  ASSUME CallsOK, NEW c \in Caller, NEW p, Goto(c, p)
  PROVE  /\ call'[c].pc = p /\ call'[c].op = call[c].op
         /\ call'[c].id = call[c].id /\ call'[c].token = call[c].token
BY DEF CallsOK, Goto

LEMMA ReturnIs == ASSUME CallsOK, NEW c \in Caller, Return(c) PROVE call'[c] = Idle
BY DEF CallsOK, Return

LEMMA IdleFits == \A ls, tm, g : Fits(Idle, ls, tm, g)
BY DEF Fits, Asks, Polls, Renews, Holds, Saves, Idle, NextOf

LEMMA OutsideFits ==
  ASSUME NEW r, r.pc \in {"idle", "lock"}, Asks(r) PROVE \A ls, tm, g : Fits(r, ls, tm, g)
BY DEF Fits, Polls, Renews, Holds, Saves, NextOf

LEMMA OthersFit ==
  ASSUME BookInv, NEW c \in Caller, Moved(c), Alone(c)
  PROVE  \A d \in Caller \ {c} : \A ls, tm, g : Fits(call'[d], ls, tm, g)
<1> SUFFICES ASSUME NEW d \in Caller \ {c} PROVE \A ls, tm, g : Fits(call'[d], ls, tm, g)
  OBVIOUS
<1>1. call'[d] = call[d] /\ call[d].pc \in {"idle", "lock"} /\ Asks(call[d])
  BY DEF Moved, Alone, BookInv, Fits
<1> QED BY <1>1, OutsideFits

LEMMA BookStarts == Init => BookInv
<1> SUFFICES ASSUME Init PROVE BookInv
  OBVIOUS
<1>1. /\ manager.accounts = <<>> /\ temp.accounts = <<>> /\ manager.key \notin Key
      /\ owner = None /\ issued = [u \in Online |-> 0] /\ told = [u \in Uuid |-> "unknown"]
  BY Keys DEF Init, Default, Manager, NoFile, Sealed
<1>2. /\ disk.accounts \in Seq(Account)
      /\ \A i \in DOMAIN disk.accounts : disk.accounts[i].id \in Online => disk.accounts[i].token = 0
  <2>1. CASE disk = NoFile
    BY <2>1 DEF NoFile, Sealed
  <2>2. ASSUME NEW u \in Online, disk = Sealed("ours", <<MicrosoftAccount(u, 0)>>)
        PROVE  /\ disk.accounts \in Seq(Account)
               /\ \A i \in DOMAIN disk.accounts :
                    disk.accounts[i].id \in Online => disk.accounts[i].token = 0
    <3>1. MicrosoftAccount(u, 0) \in Account /\ MicrosoftAccount(u, 0).token = 0
      BY AccountsAssumption DEF MicrosoftAccount, Account, Uuid
    <3>2. disk.accounts = <<MicrosoftAccount(u, 0)>>
      BY <2>2 DEF Sealed
    <3> QED BY <3>1, <3>2
  <2> QED BY <2>1, <2>2 DEF Init
<1>3. ListsOK
  BY <1>1, <1>2, AccountsAssumption DEF ListsOK
<1>4. /\ Issued(manager.accounts, issued) /\ Issued(disk.accounts, issued)
      /\ Issued(temp.accounts, issued)
  BY <1>1, <1>2 DEF Issued
<1>5. Agree(disk.accounts, told)
  BY <1>1 DEF Agree
<1>6. \A c \in Caller : Fits(call[c], manager.accounts, temp.accounts, issued)
  BY IdleFits DEF Init
<1> QED BY <1>1, <1>3, <1>4, <1>5, <1>6 DEF BookInv

(* A call goes on, and the lists stay as they are.                         *)
LEMMA BookStays ==
  ASSUME BookInv, NEW c \in Caller, Moved(c), Alone(c), owner' \in Caller \cup {None},
         UNCHANGED <<manager, disk, temp, issued, told>>,
         Fits(call'[c], manager.accounts, temp.accounts, issued)
  PROVE  BookInv'
<1>1. \A d \in Caller : Fits(call'[d], manager.accounts, temp.accounts, issued)
  BY OthersFit
<1>2. ListsOK'
  BY DEF BookInv, ListsOK
<1> QED BY <1>1, <1>2 DEF BookInv

LEMMA BookReturns ==
  ASSUME StoreInv, BookInv, NEW c \in Caller, Inside(c) \/ owner = None, Return(c),
         UNCHANGED <<manager, disk, temp, issued, told>>
  PROVE  BookInv'
<1>1. Moved(c) /\ owner' = None /\ call'[c] = Idle
  BY ReturnMoves, ReturnIs DEF StoreInv
<1> QED BY <1>1, IsAlone, IdleFits, BookStays

(* Memory is changed of the account the call is about.                     *)
LEMMA BookChanges ==
  ASSUME StoreInv, BookInv, NEW c \in Caller, Inside(c) \/ owner = None, owner' = c,
         NEW ls \in Seq(Account), NEW u \in Uuid,
         manager' = [manager EXCEPT !.accounts = ls], Issued(ls, issued),
         \A v : v # u => (Has(v, ls) <=> Has(v, manager.accounts)),
         told' = [told EXCEPT ![u] = "unknown"], UNCHANGED <<disk, temp, issued>>,
         Goto(c, Persist(c)), call[c].id = u, call[c].op = "remove" <=> ~Has(u, ls),
         call[c].pc # "idle"
  PROVE  BookInv'
<1>1. /\ Moved(c) /\ call'[c].pc = Persist(c) /\ call'[c].op = call[c].op
      /\ call'[c].id = u
  BY GotoMoves, GotoIs DEF StoreInv
<1>2. Persist(c) \in {"kept", "write"}
  BY DEF Persist
<1>3. manager'.accounts = ls /\ manager'.key = manager.key
  BY DEF StoreInv, ManagerOK
<1>4. Fits(call'[c], ls, temp.accounts, issued)
  <2>1. Asks(call'[c])
    BY <1>1, <1>2 DEF BookInv, Fits, Asks
  <2>2. Saves(call'[c], ls, temp.accounts)
    BY <1>1, <1>2 DEF Saves
  <2> QED BY <1>1, <1>2, <2>1, <2>2 DEF Fits, Polls, Renews, Holds, NextOf
<1>5. \A d \in Caller : Fits(call'[d], ls, temp.accounts, issued)
  BY <1>1, <1>4, IsAlone, OthersFit
<1>6. told' \in [Uuid -> {"in", "out", "unknown"}]
  BY DEF BookInv, ListsOK
<1>7. ListsOK'
  BY <1>3, <1>6 DEF BookInv, ListsOK
<1>8. \A v \in Uuid : told'[v] # "unknown" => v # u /\ told'[v] = told[v]
  BY DEF BookInv, ListsOK
<1>9. Agree(disk.accounts, told')
  BY <1>8 DEF BookInv, Agree
<1>10. manager.key \in Key => Agree(ls, told')
  BY <1>8 DEF BookInv, Agree
<1> QED BY <1>3, <1>5, <1>7, <1>9, <1>10 DEF BookInv

-----------------------------------------------------------------------------
LEMMA EnterBook == ASSUME StoreInv, BookInv, NEW c \in Caller, Enter(c) PROVE BookInv'
<1> DEFINE r == call[c]
<1>0. /\ owner = None /\ UNCHANGED <<disk, temp, issued>> /\ r.pc = "lock" /\ Asks(r)
      /\ manager.accounts \in Seq(Account) /\ Issued(manager.accounts, issued)
  BY DEF Enter, Free, Same, BookInv, Fits, ListsOK
<1>1. CASE AddOffline(c)
  <2>1. r.op = "add" /\ r.id \in Offline /\ r.id \in Uuid /\ r.id \notin Online
    BY <1>0, <1>1, AccountsAssumption DEF AddOffline, Asks, Uuid
  <2> DEFINE a == OfflineAccount(r.id)
             ls == Push(manager.accounts, a)
  <2>2. a \in Account /\ a.id = r.id
    BY <2>1, AccountsAssumption DEF OfflineAccount, Account
  <2>3. /\ ls \in Seq(Account) /\ \A u : Has(u, ls) <=> Has(u, manager.accounts) \/ u = r.id
        /\ Issued(ls, issued)
    BY <1>0, <2>1, <2>2, PushedList
  <2>4. /\ manager' = [manager EXCEPT !.accounts = ls] /\ owner' = c /\ Goto(c, Persist(c))
        /\ told' = [told EXCEPT ![r.id] = "unknown"]
    BY <1>1 DEF AddOffline
  <2> HIDE DEF ls
  <2> QED BY <1>0, <2>1, <2>3, <2>4, BookChanges
<1>2. CASE RemoveAccount(c)
  <2>1. r.op = "remove" /\ r.id \in Uuid
    BY <1>0, <1>2 DEF RemoveAccount, Asks
  <2> DEFINE ls == Retain(manager.accounts, r.id)
  <2>2. /\ ls \in Seq(Account) /\ \A u : Has(u, ls) <=> Has(u, manager.accounts) /\ u # r.id
        /\ Issued(ls, issued)
    BY <1>0, RetainedList
  <2>3. manager' = [manager EXCEPT !.accounts = ls]
    BY <1>2 DEF RemoveAccount
  <2> HIDE DEF ls
  <2>4. CASE Has(r.id, manager.accounts)
    <3>1. owner' = c /\ Goto(c, Persist(c)) /\ told' = [told EXCEPT ![r.id] = "unknown"]
      BY <1>2, <2>4 DEF RemoveAccount
    <3> QED BY <1>0, <2>1, <2>2, <2>3, <3>1, BookChanges
  <2>5. CASE ~Has(r.id, manager.accounts)
    <3>1. Return(c) /\ told' = told
      BY <1>2, <2>5 DEF RemoveAccount
    <3>2. Moved(c) /\ owner' = None /\ call'[c] = Idle
      BY <3>1, ReturnMoves, ReturnIs DEF StoreInv
    <3>3. manager'.accounts = ls /\ manager'.key = manager.key
      BY <2>3 DEF StoreInv, ManagerOK
    <3>4. \A d \in Caller : Fits(call'[d], ls, temp.accounts, issued)
      BY <1>0, <3>2, IsAlone, IdleFits, OthersFit
    <3>5. ListsOK'
      BY <1>0, <2>2, <3>1, <3>2, <3>3 DEF BookInv, ListsOK
    <3>6. manager.key \in Key => Agree(ls, told)
      BY <2>2, <2>5 DEF BookInv, Agree
    <3> QED BY <1>0, <2>2, <3>1, <3>3, <3>4, <3>5, <3>6 DEF BookInv
  <2> QED BY <2>4, <2>5
<1>3. ASSUME Return(c), UNCHANGED <<manager, told>> PROVE BookInv'
  BY <1>0, <1>3, BookReturns
<1>4. ASSUME NEW p \in {"grant", "device", "poll"}, owner' = c, Goto(c, p),
             UNCHANGED <<manager, told>>,
             p = "grant" => NeedsRefresh(c) /\ r.op \in {"refresh", "fresh"},
             p = "poll" => r.op = "complete"
      PROVE  BookInv'
  <2>1. Moved(c) /\ call'[c].pc = p /\ call'[c].op = r.op /\ call'[c].id = r.id
    BY <1>4, GotoMoves, GotoIs DEF StoreInv
  <2>2. Asks(call'[c]) /\ Polls(call'[c])
    BY <1>0, <1>4, <2>1 DEF Asks, Polls
  <2>3. Renews(call'[c], manager.accounts)
    BY <1>4, <2>1 DEF Renews, NeedsRefresh
  <2>4. Fits(call'[c], manager.accounts, temp.accounts, issued)
    BY <2>1, <2>2, <2>3 DEF Fits, Holds, Saves, NextOf
  <2> QED BY <1>0, <1>4, <2>1, <2>4, IsAlone, BookStays
<1>5. CASE Refresh(c)
  BY <1>3, <1>4, <1>5 DEF Refresh
<1>6. CASE List(c)
  BY <1>3, <1>6 DEF List
<1>7. CASE BeginMicrosoft(c) \/ CompleteMicrosoft(c)
  BY <1>4, <1>7 DEF BeginMicrosoft, CompleteMicrosoft
<1> QED BY <1>1, <1>2, <1>5, <1>6, <1>7 DEF Enter

(* The endpoint grants u a token; it is one more than any in a list.       *)
LEMMA GrantCounts ==
  ASSUME BookInv, NEW u \in Online, issued[u] < MaxGrants, issued' = [issued EXCEPT ![u] = @ + 1]
  PROVE  /\ issued' \in [Online -> 0 .. MaxGrants] /\ issued'[u] = issued[u] + 1
         /\ \A ls \in Seq(Account) : Issued(ls, issued) => Issued(ls, issued')
<1>1. issued \in [Online -> 0 .. MaxGrants] /\ MaxGrants \in Nat
  BY AccountsAssumption DEF BookInv, ListsOK
<1>2. issued[u] + 1 \in 0 .. MaxGrants
  BY <1>1
<1>3. issued' \in [Online -> 0 .. MaxGrants] /\ issued'[u] = issued[u] + 1
  BY <1>1, <1>2
<1>4. \A v \in Online : issued[v] <= issued'[v] /\ issued[v] \in Nat /\ issued'[v] \in Nat
  BY <1>1, <1>3
<1>5. ASSUME NEW ls \in Seq(Account), Issued(ls, issued) PROVE Issued(ls, issued')
  <2> SUFFICES ASSUME NEW i \in DOMAIN ls, ls[i].id \in Online
               PROVE  ls[i].token <= issued'[ls[i].id]
    BY DEF Issued
  <2>1. ls[i].token \in Nat
    <3>1. ls[i] \in Account
      BY Indices
    <3> QED BY <1>1, <3>1 DEF Account
  <2>2. ls[i].token <= issued[ls[i].id]
    BY <1>5 DEF Issued
  <2> QED BY <1>4, <2>1, <2>2
<1> QED BY <1>3, <1>5

LEMMA GrantedBook ==
  ASSUME StoreInv, BookInv, NEW c \in Caller, call[c].pc \in {"poll", "grant"},
         Granted(c, call[c].id)
  PROVE  BookInv'
<1> DEFINE r == call[c]  u == r.id
<1>1. r.op \in {"complete", "refresh", "fresh"} /\ u \in Online
      /\ (r.op # "complete" => Has(u, manager.accounts)) /\ Asks(r)
  BY DEF BookInv, Fits, Polls, Renews, Asks
<1>2. /\ issued' \in [Online -> 0 .. MaxGrants] /\ issued'[u] = issued[u] + 1
      /\ \A ls \in Seq(Account) : Issued(ls, issued) => Issued(ls, issued')
  BY <1>1, GrantCounts DEF Granted
<1>3. /\ Moved(c) /\ call'[c].pc = "xbl" /\ call'[c].op = r.op /\ call'[c].id = u
      /\ call'[c].token = issued[u] + 1
  BY DEF Granted, Moved, StoreInv, CallsOK
<1>4. Fits(call'[c], manager.accounts, temp.accounts, issued')
  <2>1. Asks(call'[c])
    BY <1>1, <1>3 DEF Asks
  <2>2. Holds(call'[c], manager.accounts, issued')
    BY <1>1, <1>2, <1>3 DEF Holds
  <2> QED BY <1>3, <2>1, <2>2 DEF Fits, Polls, Renews, Saves
<1>5. Alone(c)
  BY IsAlone DEF Inside
<1>6. \A d \in Caller : Fits(call'[d], manager.accounts, temp.accounts, issued')
  BY <1>3, <1>4, <1>5, OthersFit
<1>7. ListsOK'
  BY <1>2 DEF Granted, BookInv, ListsOK
<1> QED BY <1>2, <1>6, <1>7 DEF Granted, BookInv, ListsOK

LEMMA FlowBook ==
  ASSUME StoreInv, BookInv, NEW c \in Caller,
         DeviceCode(c) \/ Poll(c) \/ Sleep(c) \/ Grant(c) \/ Chain(c)
  PROVE  BookInv'
<1> DEFINE r == call[c]
<1>0. Inside(c) /\ Alone(c)
  <2>1. Inside(c)
    BY DEF DeviceCode, Poll, Sleep, Grant, Chain, NextOf, Inside
  <2> QED BY <2>1, IsAlone
<1>1. ASSUME Fails(c) PROVE BookInv'
  BY <1>0, <1>1, BookReturns DEF Fails, Same
<1>2. CASE DeviceCode(c)
  BY <1>1, <1>2 DEF DeviceCode
<1>3. CASE Poll(c)
  <2>1. ASSUME Goto(c, "sleep"), UNCHANGED <<manager, owner, told>>, Same PROVE BookInv'
    <3>1. Moved(c) /\ call'[c].pc = "sleep" /\ call'[c].op = r.op /\ call'[c].id = r.id
      BY <2>1, GotoMoves, GotoIs DEF StoreInv
    <3>2. Asks(r) /\ r.op = "complete"
      BY <1>3 DEF Poll, BookInv, Fits, Polls
    <3>3. Fits(call'[c], manager.accounts, temp.accounts, issued)
      BY <1>3, <3>1, <3>2 DEF Poll, Fits, Asks, Polls, Renews, Holds, Saves, NextOf
    <3> QED BY <1>0, <2>1, <3>1, <3>3, BookStays DEF Same, BookInv, ListsOK
  <2>2. r.pc = "poll"
    BY <1>3 DEF Poll
  <2> QED BY <1>1, <1>3, <2>1, <2>2, GrantedBook DEF Poll
<1>4. CASE Sleep(c)
  <2>1. Moved(c) /\ call'[c].pc = "poll" /\ call'[c].op = r.op /\ call'[c].id = r.id
    BY <1>4 DEF Sleep, Moved, StoreInv, CallsOK
  <2>2. Asks(r) /\ r.op = "complete"
    BY <1>4 DEF Sleep, BookInv, Fits, Polls
  <2>3. Fits(call'[c], manager.accounts, temp.accounts, issued)
    BY <1>4, <2>1, <2>2 DEF Sleep, Fits, Asks, Polls, Renews, Holds, Saves, NextOf
  <2> QED BY <1>0, <1>4, <2>1, <2>3, BookStays DEF Sleep, Same, BookInv, ListsOK
<1>5. CASE Grant(c)
  <2>1. ASSUME issued[r.id] < MaxGrants, issued' = [issued EXCEPT ![r.id] = @ + 1], Return(c),
               UNCHANGED <<manager, disk, temp, told>>
        PROVE  BookInv'
    <3>1. r.id \in Online
      BY <1>5 DEF Grant, BookInv, Fits, Renews
    <3>2. /\ issued' \in [Online -> 0 .. MaxGrants]
          /\ \A ls \in Seq(Account) : Issued(ls, issued) => Issued(ls, issued')
      BY <2>1, <3>1, GrantCounts
    <3>3. Moved(c) /\ owner' = None /\ call'[c] = Idle
      BY <2>1, ReturnMoves, ReturnIs DEF StoreInv
    <3>4. \A d \in Caller : Fits(call'[d], manager.accounts, temp.accounts, issued')
      BY <1>0, <3>3, IdleFits, OthersFit
    <3>5. ListsOK'
      BY <2>1, <3>2, <3>3 DEF BookInv, ListsOK
    <3> QED BY <2>1, <3>2, <3>4, <3>5 DEF BookInv, ListsOK
  <2>2. r.pc = "grant"
    BY <1>5 DEF Grant
  <2> QED BY <1>1, <1>5, <2>1, <2>2, GrantedBook DEF Grant
<1>6. CASE Chain(c)
  <2>1. ASSUME Goto(c, NextOf[r.pc]), UNCHANGED <<manager, owner, told>>, Same PROVE BookInv'
    <3>1. /\ Moved(c) /\ call'[c].pc = NextOf[r.pc] /\ call'[c].op = r.op
          /\ call'[c].id = r.id /\ call'[c].token = r.token
      BY <2>1, GotoMoves, GotoIs DEF StoreInv
    <3>2. NextOf[r.pc] \in {"xsts", "login", "profile", "store"} /\ r.pc # "idle"
      BY <1>6 DEF Chain, NextOf
    <3>3. Asks(r) /\ Holds(r, manager.accounts, issued) /\ r.pc \in DOMAIN NextOf
      BY <1>6 DEF Chain, BookInv, Fits
    <3>4. Asks(call'[c]) /\ Holds(call'[c], manager.accounts, issued)
      BY <3>1, <3>2, <3>3 DEF Asks, Holds
    <3>5. Fits(call'[c], manager.accounts, temp.accounts, issued)
      BY <3>1, <3>2, <3>4 DEF Fits, Polls, Renews, Saves
    <3> QED BY <1>0, <2>1, <3>1, <3>5, BookStays DEF Same, BookInv, ListsOK
  <2> QED BY <1>1, <1>6, <2>1 DEF Chain
<1> QED BY <1>2, <1>3, <1>4, <1>5, <1>6

(* What a login or a refresh stores is the newest token of its account.    *)
Stores(r, ls) ==
  LET a == MicrosoftAccount(r.id, r.token)
  IN  IF r.op = "complete" THEN Push(ls, a) ELSE Replace(ls, r.id, a)

LEMMA StoredList ==
  ASSUME BookInv, NEW c \in Caller, call[c].pc = "store"
  PROVE  LET r == call[c]
             ls == Stores(r, manager.accounts)
         IN  /\ r.id \in Online /\ r.op \in {"complete", "refresh", "fresh"}
             /\ ls \in Seq(Account) /\ Issued(ls, issued) /\ Has(r.id, ls)
             /\ \A v : v # r.id => (Has(v, ls) <=> Has(v, manager.accounts))
             /\ \A v : Has(v, manager.accounts) =>
                  TokenOf(v, ls) = TokenOf(v, manager.accounts)
                    \/ (v = r.id /\ TokenOf(v, ls) = issued[v])
<1> DEFINE r == call[c]
           m == manager.accounts
           a == MicrosoftAccount(r.id, r.token)
           ls == Stores(r, m)
<1>1. /\ r.id \in Online /\ r.op \in {"complete", "refresh", "fresh"}
      /\ r.token = issued[r.id] /\ (r.op # "complete" => Has(r.id, m))
      /\ m \in Seq(Account) /\ Issued(m, issued) /\ issued \in [Online -> 0 .. MaxGrants]
  BY DEF BookInv, Fits, Holds, ListsOK
<1>2. a \in Account /\ a.id = r.id /\ a.token = issued[r.id]
  BY <1>1, AccountsAssumption DEF MicrosoftAccount, Account, Uuid
<1>3. issued[r.id] \in Nat /\ a.token <= issued[a.id]
  BY <1>1, <1>2, AccountsAssumption
<1> HIDE DEF r, m, a
<1>4. CASE r.op = "complete"
  <2>1. ls = Push(m, a)
    BY <1>4 DEF Stores, a
  <2> HIDE DEF ls
  <2> QED BY <1>1, <1>2, <1>3, <2>1, PushedList DEF r, m, ls
<1>5. CASE r.op # "complete"
  <2>1. ls = Replace(m, a.id, a)
    BY <1>2, <1>5 DEF Stores, a
  <2> HIDE DEF ls
  <2>2. Has(a.id, m)
    BY <1>1, <1>2, <1>5
  <2> QED BY <1>1, <1>2, <1>3, <2>1, <2>2, ReplacedList DEF r, m, ls
<1> QED BY <1>4, <1>5

LEMMA StoreBook == ASSUME StoreInv, BookInv, NEW c \in Caller, Store(c) PROVE BookInv'
<1> DEFINE r == call[c]
           ls == Stores(r, manager.accounts)
<1>0. Inside(c) /\ r.pc = "store" /\ owner = c
  <2>1. Inside(c) /\ r.pc = "store"
    BY DEF Store, Inside
  <2> QED BY <2>1, HolderOf
<1>1. /\ r.id \in Uuid /\ r.op # "remove" /\ ls \in Seq(Account) /\ Issued(ls, issued)
      /\ Has(r.id, ls) /\ \A v : v # r.id => (Has(v, ls) <=> Has(v, manager.accounts))
  BY <1>0, StoredList DEF Uuid
<1>2. /\ manager' = [manager EXCEPT !.accounts = ls] /\ told' = [told EXCEPT ![r.id] = "unknown"]
      /\ Goto(c, Persist(c)) /\ owner' = c /\ UNCHANGED <<disk, temp, issued>>
  BY <1>0 DEF Store, Stores, Same
<1> HIDE DEF ls
<1> QED BY <1>0, <1>1, <1>2, BookChanges

(* The answer of a call that saved in memory, and the errors of the disk.  *)
LEMMA KeptBook ==
  ASSUME StoreInv, BookInv, NEW c \in Caller, Kept(c) \/ DiskFails(c) PROVE BookInv'
<1>1. Inside(c)
  BY DEF Kept, DiskFails, Inside
<1> QED BY <1>1, BookReturns DEF Kept, DiskFails, Same

LEMMA WriteTempBook ==
  ASSUME StoreInv, BookInv, NEW c \in Caller, WriteTemp(c) PROVE BookInv'
<1> DEFINE r == call[c]
<1>0. Inside(c) /\ r.pc = "write" /\ owner = c /\ owner' = owner
  <2>1. Inside(c) /\ r.pc = "write" /\ owner' = owner
    BY DEF WriteTemp, Inside
  <2> QED BY <2>1, HolderOf
<1>1. Moved(c) /\ call'[c].pc = "rename" /\ call'[c].op = r.op /\ call'[c].id = r.id
  BY GotoMoves, GotoIs DEF WriteTemp, StoreInv
<1>2. temp'.accounts = manager.accounts /\ UNCHANGED <<manager, disk, issued, told>>
  BY DEF WriteTemp, Sealed
<1>3. Asks(r) /\ Saves(r, manager.accounts, temp.accounts)
  BY DEF BookInv, Fits
<1>4. Asks(call'[c]) /\ Saves(call'[c], manager.accounts, manager.accounts)
  BY <1>0, <1>1, <1>3 DEF Asks, Saves
<1>5. Fits(call'[c], manager.accounts, manager.accounts, issued)
  BY <1>1, <1>4 DEF Fits, Polls, Renews, Holds, NextOf
<1>6. \A d \in Caller : Fits(call'[d], manager.accounts, manager.accounts, issued)
  BY <1>0, <1>1, <1>5, IsAlone, OthersFit
<1>7. ListsOK'
  BY <1>0, <1>2 DEF BookInv, ListsOK
<1> QED BY <1>2, <1>6, <1>7 DEF BookInv

(* The answer of a call that saved to the disk: the store is what memory   *)
(* is, with the account of the call or without it.                         *)
LEMMA RenameBook ==
  ASSUME StoreInv, BookInv, NEW c \in Caller, Rename(c) PROVE BookInv'
<1> DEFINE r == call[c]  m == manager.accounts
<1>0. Inside(c) /\ r.pc = "rename" /\ manager.key \in Key
  BY RenameKeeps DEF Rename, Inside
<1>1. Moved(c) /\ owner' = None /\ call'[c] = Idle
  BY ReturnMoves, ReturnIs DEF Rename, Answer, StoreInv
<1>2. /\ r.id \in Uuid /\ (r.op = "remove" <=> ~Has(r.id, m)) /\ temp.accounts = m
      /\ m \in Seq(Account) /\ Issued(m, issued) /\ Agree(m, told)
      /\ told \in [Uuid -> {"in", "out", "unknown"}]
  BY <1>0 DEF BookInv, Fits, Saves, ListsOK
<1>3. /\ disk'.accounts = m /\ temp'.accounts = <<>> /\ UNCHANGED <<manager, issued>>
      /\ told' = [told EXCEPT ![r.id] = IF r.op = "remove" THEN "out" ELSE "in"]
  BY <1>2 DEF Rename, Answer, NoFile, Sealed
<1>4. told' \in [Uuid -> {"in", "out", "unknown"}]
  BY <1>2, <1>3
<1>5. Agree(m, told')
  BY <1>2, <1>3 DEF Agree
<1>6. Issued(<<>>, issued)
  BY DEF Issued
<1>7. \A d \in Caller : Fits(call'[d], m, <<>>, issued)
  BY <1>0, <1>1, IsAlone, IdleFits, OthersFit
<1>8. ListsOK'
  BY <1>1, <1>2, <1>3, <1>4 DEF BookInv, ListsOK
<1> QED BY <1>2, <1>3, <1>5, <1>6, <1>7, <1>8 DEF BookInv

-----------------------------------------------------------------------------
LEMMA CallBook ==
  ASSUME StoreInv, BookInv, NEW c \in Caller, NEW op, NEW u, Call(c, op, u),
         op \in {"list", "begin"} \/ u \in Uuid
  PROVE  BookInv'
<1>1. Moved(c) /\ call'[c] = [Idle EXCEPT !.pc = "lock", !.op = op, !.id = u]
  BY DEF Call, Moved, StoreInv, CallsOK, Idle
<1>2. call'[c].pc = "lock" /\ Asks(call'[c])
  BY <1>1 DEF Call, Idle, Asks
<1>3. UNCHANGED <<manager, disk, temp, owner, issued, told>>
  BY DEF Call
<1>4. ASSUME NEW d \in Caller PROVE Fits(call'[d], manager.accounts, temp.accounts, issued)
  <2>1. CASE d = c
    BY <1>2, <2>1, OutsideFits
  <2>2. CASE d # c
    BY <1>1, <2>2 DEF Moved, BookInv
  <2> QED BY <2>1, <2>2
<1>5. ListsOK'
  BY <1>3 DEF BookInv, ListsOK
<1> QED BY <1>3, <1>4, <1>5 DEF BookInv

(* The manager takes up what the store of its key holds, and no call has   *)
(* begun; a store that is not there holds nothing.                         *)
LEMMA ConfigureBook ==
  ASSUME StoreInv, BookInv, NEW k \in Key, Configure(k) PROVE BookInv'
<1>1. /\ manager'.accounts = Stored(k) /\ manager'.key = k /\ disk.key \in {k, "none"}
      /\ UNCHANGED <<disk, temp, owner, call, issued, told>>
      /\ \A c \in Caller : call'[c] = Idle
  BY DEF Configure, Manager, Opened, Quiet
<1>2. Stored(k) = disk.accounts
  <2>1. CASE disk.key = k
    BY <2>1 DEF Stored
  <2>2. CASE disk.key # k
    BY <1>1, <2>2 DEF Stored, StoreInv, OneKey, NoFile, Sealed
  <2> QED BY <2>1, <2>2
<1>3. \A c \in Caller : Fits(call'[c], manager'.accounts, temp.accounts, issued)
  BY <1>1, IdleFits
<1>4. ListsOK'
  BY <1>1, <1>2 DEF BookInv, ListsOK
<1> QED BY <1>1, <1>2, <1>3, <1>4 DEF BookInv

LEMMA ExpireBook ==
  ASSUME StoreInv, BookInv, NEW u \in Online, Expire(u) PROVE BookInv'
<1> DEFINE m == manager.accounts  bs == Aged(m, u)
<1>1. /\ manager'.accounts = bs /\ manager'.key = manager.key
      /\ UNCHANGED <<disk, temp, owner, call, issued, told>>
      /\ \A c \in Caller : call'[c] = Idle
  BY DEF Expire, Quiet, Aged, StoreInv, ManagerOK
<1>2. /\ bs \in Seq(Account) /\ \A v : Has(v, bs) <=> Has(v, m)
      /\ \A g : Issued(m, g) => Issued(bs, g)
  BY AgedList DEF BookInv, ListsOK
<1> HIDE DEF bs
<1>3. \A c \in Caller : Fits(call'[c], bs, temp.accounts, issued)
  BY <1>1, IdleFits
<1>4. ListsOK'
  BY <1>1, <1>2 DEF BookInv, ListsOK
<1>5. Issued(bs, issued) /\ (manager.key \in Key => Agree(bs, told))
  BY <1>2 DEF BookInv, Agree
<1> QED BY <1>1, <1>3, <1>4, <1>5 DEF BookInv

LEMMA KillBook == ASSUME StoreInv, BookInv, Kill PROVE BookInv'
<1>1. /\ manager'.accounts = <<>> /\ manager'.key \notin Key /\ owner' = None
      /\ UNCHANGED <<disk, temp, issued, told>> /\ \A c \in Caller : call'[c] = Idle
  BY Keys DEF Kill, Default, Manager
<1>2. \A c \in Caller : Fits(call'[c], <<>>, temp.accounts, issued)
  BY <1>1, IdleFits
<1>3. ListsOK' /\ Issued(<<>>, issued)
  BY <1>1 DEF BookInv, ListsOK, Issued
<1> QED BY <1>1, <1>2, <1>3 DEF BookInv

LEMMA BookKept == StoreInv /\ BookInv /\ [Next]_vars => BookInv'
<1> SUFFICES ASSUME StoreInv, BookInv, [Next]_vars PROVE BookInv'
  OBVIOUS
<1>1. CASE Finished \/ UNCHANGED vars
  BY <1>1 DEF Finished, vars, BookInv, ListsOK
<1>2. ASSUME NEW k \in Key, Configure(k) PROVE BookInv'
  BY <1>2, ConfigureBook
<1>3. ASSUME NEW u \in Online, Expire(u) PROVE BookInv'
  BY <1>3, ExpireBook
<1>4. ASSUME NEW c \in Caller, Step(c) \/ DiskFails(c) PROVE BookInv'
  BY <1>4, EnterBook, FlowBook, StoreBook, KeptBook, WriteTempBook, RenameBook DEF Step
<1>5. ASSUME NEW c \in Caller, NEW op, NEW u, Call(c, op, u), op \in {"list", "begin"} \/ u \in Uuid
      PROVE  BookInv'
  BY <1>5, CallBook
<1> QED BY <1>1, <1>2, <1>3, <1>4, <1>5, KillBook DEF Next

-----------------------------------------------------------------------------
(* A token is a number.                                                    *)
LEMMA TokenIs ==
  ASSUME NEW ls \in Seq(Account), NEW u, Has(u, ls)
  PROVE  /\ TokenOf(u, ls) \in Nat
         /\ \A g : Issued(ls, g) /\ u \in Online => TokenOf(u, ls) <= g[u]
<1>1. IndexOf(u, ls) \in DOMAIN ls /\ ls[IndexOf(u, ls)].id = u
  BY FindsFirst DEF IsFirst
<1>2. ls[IndexOf(u, ls)] \in Account
  BY <1>1, Indices
<1> QED BY <1>1, <1>2, AccountsAssumption DEF TokenOf, Account, Issued

(* A step takes the token of an account from one list to another.          *)
Advances(ls, bs) ==
  \A u \in Online : Has(u, ls) /\ Has(u, bs) => TokenOf(u, bs) >= TokenOf(u, ls)

LEMMA TokensKept == \A ls \in Seq(Account) : Advances(ls, ls)
BY TokenIs DEF Advances

LEMMA TokensAdvance ==
  ASSUME StoreInv, BookInv, [Next]_vars
  PROVE  Advances(manager.accounts, manager'.accounts)
<1> DEFINE m == manager.accounts
<1>0. m \in Seq(Account) /\ issued \in [Online -> Nat] /\ Issued(m, issued)
  BY AccountsAssumption DEF BookInv, ListsOK
<1>1. ASSUME UNCHANGED manager PROVE Advances(m, manager'.accounts)
  BY <1>0, <1>1, TokensKept
<1>2. ASSUME NEW ls, manager' = [manager EXCEPT !.accounts = ls] PROVE manager'.accounts = ls
  BY <1>2 DEF StoreInv, ManagerOK
<1>3. ASSUME manager'.accounts = <<>> PROVE Advances(m, manager'.accounts)
  BY <1>3 DEF Advances, Has, Ids
<1>4. ASSUME NEW k \in Key, Configure(k) PROVE Advances(m, manager'.accounts)
  BY <1>4 DEF Configure, Default, Manager, Advances, Has, Ids
<1>5. ASSUME NEW u \in Online, Expire(u) PROVE Advances(m, manager'.accounts)
  <2>1. manager'.accounts = Aged(m, u)
    BY <1>5 DEF Expire, Aged, StoreInv, ManagerOK
  <2> QED BY <1>0, <2>1, AgedList, TokensKept DEF Advances
<1>6. ASSUME NEW c \in Caller, Enter(c) PROVE Advances(m, manager'.accounts)
  <2>1. CASE AddOffline(c)
    <3> DEFINE a == OfflineAccount(call[c].id)
    <3>1. a \in Account
      BY <1>6, <2>1, AccountsAssumption
         DEF Enter, AddOffline, BookInv, Fits, Asks, OfflineAccount, Account, Uuid
    <3>2. manager'.accounts = Push(m, a)
      BY <1>2, <2>1 DEF AddOffline
    <3> QED BY <1>0, <3>1, <3>2, PushedList, TokensKept DEF Advances
  <2>2. CASE RemoveAccount(c)
    <3>1. manager'.accounts = Retain(m, call[c].id)
      BY <1>2, <2>2 DEF RemoveAccount
    <3> QED BY <1>0, <3>1, RetainedList, TokensKept DEF Advances
  <2> QED BY <1>1, <1>6, <2>1, <2>2 DEF Enter, Refresh, List, BeginMicrosoft, CompleteMicrosoft
<1>7. ASSUME NEW c \in Caller, Store(c) PROVE Advances(m, manager'.accounts)
  <2> DEFINE r == call[c]  ls == Stores(r, m)
  <2>1. r.pc = "store" /\ manager' = [manager EXCEPT !.accounts = ls]
    BY <1>7 DEF Store, Stores
  <2>2. \A v : Has(v, m) => TokenOf(v, ls) = TokenOf(v, m) \/ (v = r.id /\ TokenOf(v, ls) = issued[v])
    BY <2>1, StoredList
  <2>3. manager'.accounts = ls
    BY <1>2, <2>1
  <2> HIDE DEF ls
  <2>4. ASSUME NEW v \in Online, Has(v, m) PROVE TokenOf(v, ls) >= TokenOf(v, m)
    <3>1. TokenOf(v, m) \in Nat /\ TokenOf(v, m) <= issued[v] /\ issued[v] \in Nat
      BY <1>0, <2>4, TokenIs
    <3> QED BY <2>2, <2>4, <3>1
  <2> QED BY <2>3, <2>4 DEF Advances
<1>8. ASSUME NEW c \in Caller, Step(c) \/ DiskFails(c) PROVE Advances(m, manager'.accounts)
  <2>1. ASSUME DeviceCode(c) \/ Poll(c) \/ Sleep(c) \/ Grant(c) \/ Chain(c) \/ Kept(c)
                 \/ WriteTemp(c) \/ Rename(c) \/ DiskFails(c)
        PROVE  UNCHANGED manager
    BY <2>1 DEF DeviceCode, Poll, Sleep, Grant, Granted, Fails, Chain, Kept, WriteTemp, Rename,
                DiskFails
  <2> QED BY <1>1, <1>6, <1>7, <1>8, <2>1 DEF Step
<1>9. ASSUME NEW c \in Caller, NEW op, NEW u, Call(c, op, u) PROVE UNCHANGED manager
  BY <1>9 DEF Call
<1>10. CASE Kill
  BY <1>3, <1>10 DEF Kill, Default, Manager
<1>11. CASE Finished \/ UNCHANGED vars
  BY <1>1, <1>11 DEF Finished, vars
<1> QED BY <1>1, <1>4, <1>5, <1>8, <1>9, <1>10, <1>11 DEF Next

(* A call past the mutex is alone there, whatever it awaits, and a store   *)
(* that is opened is written under its own key.                            *)
THEOREM StoreInvariant == Spec => []StoreInv
BY StoreStarts, StoreKept, PTL DEF Spec

(* A store sealed with another key than the manager's is never replaced.   *)
THEOREM ForeignStoreUntouchedHolds == Spec => ForeignStoreUntouched
<1>1. StoreInv /\ [Next]_vars => [disk # NoFile => disk'.key = disk.key]_disk
  BY KeyKept
<1> QED BY <1>1, StoreInvariant, PTL DEF Spec, ForeignStoreUntouched

(* What every caller was told of an account is in the store, whatever      *)
(* kills, failed saves and half-finished calls come after.  StoreInv and    *)
(* BookInv are what a save relies on: the call is alone, and the temp file *)
(* is what memory is.                                                      *)
THEOREM AnsweredIsStoredHolds == Spec => []AnsweredIsStored
<1>1. StoreInv /\ BookInv => AnsweredIsStored
  <2> SUFFICES ASSUME StoreInv, BookInv PROVE AnsweredIsStored
    OBVIOUS
  <2>1. \A i \in DOMAIN manager.accounts : manager.accounts[i] \in Account
    BY Indices DEF BookInv, ListsOK
  <2>2. TypeOK
    BY <2>1 DEF TypeOK, StoreInv, ManagerOK, Mutex, Inside, BookInv, ListsOK
  <2> QED BY <2>2 DEF AnsweredIsStored, OnDisk, BookInv, Agree
<1>2. Spec => []BookInv
  BY BookStarts, BookKept, StoreInvariant, PTL DEF Spec
<1> QED BY <1>1, <1>2, StoreInvariant, PTL

(* The token of an account never goes back to an older grant.              *)
THEOREM TokensOnlyAdvanceHolds == Spec => TokensOnlyAdvance
<1> DEFINE A == \A u \in Online :
                  Has(u, manager.accounts) /\ Has(u, manager'.accounts) =>
                    TokenOf(u, manager'.accounts) >= TokenOf(u, manager.accounts)
<1>1. StoreInv /\ BookInv /\ [Next]_vars => [A]_<<manager, call>>
  BY TokensAdvance DEF Advances
<1>2. Spec => []BookInv
  BY BookStarts, BookKept, StoreInvariant, PTL DEF Spec
<1> QED BY <1>1, <1>2, StoreInvariant, PTL DEF Spec, TokensOnlyAdvance
===============================================================================
