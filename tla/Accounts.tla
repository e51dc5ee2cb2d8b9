-------------------------------- MODULE Accounts --------------------------------
(***************************************************************************)
(* The account store of the core (auth/) behind the JNI calls of ffi.rs:   *)
(* one AccountManager in a global mutex that a call holds from its first   *)
(* look at the accounts to its answer, over every await.  The store file   *)
(* is written beside itself and renamed.  The process may be killed and    *)
(* configured again (authInit) with the right key, another key, or none.   *)
(*                                                                         *)
(* A token is the number of the grant that produced it; expiry is a flag   *)
(* that time may raise.  Wording of errors and HTTP bodies are left out.   *)
(***************************************************************************)
EXTENDS Naturals, Sequences, SequencesExt, FiniteSets, Subsequences

CONSTANTS
  Caller,     \* threads of Dispatchers.IO that call the bridge
  Offline,    \* uuids of offline accounts (a function of the name)
  Online,     \* uuids of Microsoft accounts
  None,
  MaxCalls,   \* bound: calls made
  MaxKills,   \* bound: times the process is killed
  MaxGrants,  \* bound: grants of the token endpoint, per uuid
  MaxPolls,   \* DEVICE_CODE_TIMEOUT over the wait of a poll: pending polls
  MaxFaults   \* bound: failed disk operations

ASSUME AccountsAssumption ==
  /\ Offline \cap Online = {} /\ None \notin Caller \cup Offline \cup Online
  /\ {MaxCalls, MaxKills, MaxGrants, MaxPolls, MaxFaults} \subseteq Nat

VARIABLES
  manager,  \* the AccountManager: its accounts, and the key of its store
  disk,     \* the store file: NoFile, or the accounts sealed with a key
  temp,     \* the file beside it
  owner,    \* the caller that holds the mutex
  call,     \* what each caller is doing
  issued,   \* grants the token endpoint has made for each uuid
  told,     \* what the last answer about a stored uuid said of it
  budget    \* calls, kills and faults left

vars == <<manager, disk, temp, owner, call, issued, told, budget>>

-----------------------------------------------------------------------------
Uuid == Offline \cup Online
Key == {"ours", "other"}
Account == [id : Uuid, token : 0 .. MaxGrants, expiring : BOOLEAN]
OfflineAccount(u) == [id |-> u, token |-> 0, expiring |-> FALSE]   \* MD5 of the name
MicrosoftAccount(u, t) == [id |-> u, token |-> t, expiring |-> FALSE]

Sealed(k, as) == [key |-> k, accounts |-> as]   \* SecretVault::seal
NoFile == Sealed("none", <<>>)
InMemory == "memory"                            \* MemoryTokenStorage
Manager(k, as) == [key |-> k, accounts |-> as]
Default == Manager(InMemory, <<>>)              \* manager(), before authInit

Idle == [pc |-> "idle", op |-> "none", id |-> None, token |-> 0, polls |-> 0]
Free == owner = None
Ids(as) == {as[i].id : i \in DOMAIN as}

(* AccountManager::find: the first account of that uuid. *)
IndexOf(u, as) == SelectInSeq(as, LAMBDA a : a.id = u)
Has(u, as) == u \in Ids(as)

TypeOK ==
  /\ manager.key \in Key \cup {InMemory}
  /\ \A i \in DOMAIN manager.accounts : manager.accounts[i] \in Account
  /\ owner \in Caller \cup {None}
  /\ \A c \in Caller : call[c].pc # "idle" /\ call[c].pc # "lock" => owner = c
  /\ issued \in [Online -> 0 .. MaxGrants]
  /\ told \in [Uuid -> {"in", "out", "unknown"}]

Init ==
  /\ manager = Default /\ temp = NoFile /\ owner = None
  /\ disk \in {NoFile} \cup {Sealed("ours", <<MicrosoftAccount(u, 0)>>) : u \in Online}
  /\ call = [c \in Caller |-> Idle]
  /\ issued = [u \in Online |-> 0]
  /\ told = [u \in Uuid |-> "unknown"]
  /\ budget = [calls |-> MaxCalls, kills |-> MaxKills, faults |-> MaxFaults]

Quiet == \A c \in Caller : call[c] = Idle

-----------------------------------------------------------------------------
(* authInit: the store is opened before the mutex is taken.  The app makes *)
(* the call once, from Application.onCreate, before any other.             *)

OpenedAnyway(k) == k \in Key                \* mutant: what cannot be read is empty
Opened(k) == disk.key \in {k, "none"}   \* load: absent is empty, else unseal
Stored(k) == IF disk.key = k THEN disk.accounts ELSE <<>>

Configure(k) ==
  /\ Quiet /\ manager = Default
  /\ Opened(k)             \* else an error, and the manager stays
  /\ manager' = Manager(k, Stored(k))
  /\ UNCHANGED <<disk, temp, owner, call, issued, told, budget>>

(* A call of the bridge: lock_manager, then the body. *)
Call(c, op, u) ==
  /\ call[c].pc = "idle" /\ budget.calls > 0
  /\ op = "add" => u \in Offline
  /\ op = "complete" => u \in Online
  /\ call' = [call EXCEPT ![c] = [Idle EXCEPT !.pc = "lock", !.op = op, !.id = u]]
  /\ budget' = [budget EXCEPT !.calls = @ - 1]
  /\ UNCHANGED <<manager, disk, temp, owner, issued, told>>

Goto(c, pc) == call' = [call EXCEPT ![c].pc = pc]
Same == UNCHANGED <<disk, temp, issued, budget>>

(* The call ends: the guard is dropped. *)
Return(c) == call' = [call EXCEPT ![c] = Idle] /\ owner' = None

(* persist: save(&self.accounts), to memory or through the vault to disk. *)
Persist(c) == IF manager'.key = InMemory THEN "kept" ELSE "write"

Push(as, a) == Append(as, a)
Retain(as, u) == Subsequence(as, {i \in DOMAIN as : as[i].id # u})

AddOffline(c) ==
  /\ call[c].op = "add"
  /\ manager' = [manager EXCEPT !.accounts = Push(@, OfflineAccount(call[c].id))]
  /\ owner' = c /\ Goto(c, Persist(c))
  /\ told' = [told EXCEPT ![call[c].id] = "unknown"]

RemoveAccount(c) ==
  LET u == call[c].id IN
  /\ call[c].op = "remove"
  /\ manager' = [manager EXCEPT !.accounts = Retain(@, u)]
  /\ IF Has(u, manager.accounts)
       THEN owner' = c /\ Goto(c, Persist(c)) /\ told' = [told EXCEPT ![u] = "unknown"]
       ELSE Return(c) /\ UNCHANGED told      \* removed: false, nothing is saved

(* refresh, and ensure_fresh when the account is about to expire: only a   *)
(* Microsoft account has a grant to ask for.                               *)
NeedsRefresh(c) ==
  LET u == call[c].id IN
  /\ Has(u, manager.accounts) /\ u \in Online
  /\ call[c].op = "fresh" => manager.accounts[IndexOf(u, manager.accounts)].expiring

Refresh(c) ==
  /\ call[c].op \in {"refresh", "fresh"}
  /\ IF NeedsRefresh(c) THEN owner' = c /\ Goto(c, "grant") ELSE Return(c)
  /\ UNCHANGED <<manager, told>>

(* authListAccounts: redacted copies, under the mutex. *)
List(c) == call[c].op = "list" /\ Return(c) /\ UNCHANGED <<manager, told>>

(* authBeginMicrosoft: one request under the mutex, nothing is stored. *)
BeginMicrosoft(c) ==
  call[c].op = "begin" /\ owner' = c /\ Goto(c, "device") /\ UNCHANGED <<manager, told>>

CompleteMicrosoft(c) ==
  call[c].op = "complete" /\ owner' = c /\ Goto(c, "poll") /\ UNCHANGED <<manager, told>>

EnterUnlocked(c) ==   \* mutant: the mutex is not held over the awaits
  /\ call[c].pc = "lock" /\ \A d \in Caller : call[d].pc \notin {"write", "rename", "kept"}
  /\ AddOffline(c) \/ RemoveAccount(c) \/ Refresh(c) \/ List(c) \/ BeginMicrosoft(c)
     \/ CompleteMicrosoft(c)
  /\ Same

Enter(c) ==
  /\ call[c].pc = "lock" /\ Free
  /\ AddOffline(c) \/ RemoveAccount(c) \/ Refresh(c) \/ List(c) \/ BeginMicrosoft(c)
     \/ CompleteMicrosoft(c)
  /\ Same

-----------------------------------------------------------------------------
(* The Microsoft flows: every request may fail, and ends by its timeout.   *)

Fails(c) == Return(c) /\ UNCHANGED <<manager, told>> /\ Same

DeviceCode(c) == call[c].pc = "device" /\ Fails(c)   \* the challenge, or an error

(* The grant of a request by u: the endpoint counts it, c holds its token. *)
Granted(c, u) ==
  /\ issued[u] < MaxGrants
  /\ issued' = [issued EXCEPT ![u] = @ + 1]
  /\ call' = [call EXCEPT ![c].pc = "xbl", ![c].token = issued[u] + 1]
  /\ UNCHANGED <<manager, disk, temp, owner, told, budget>>

DeadlineForgotten(c) == c \notin Caller   \* mutant: pending is answered by another poll for ever
Deadline(c) == call[c].polls = MaxPolls

(* complete_device_code: the deadline, then poll_token. *)
Poll(c) ==
  /\ call[c].pc = "poll"
  /\ IF Deadline(c)
       THEN Fails(c)
       ELSE \/ Granted(c, call[c].id)
            \/ Fails(c)                    \* expired, denied, transport
            \/ /\ Goto(c, "sleep")         \* authorization_pending, slow_down
               /\ UNCHANGED <<manager, owner, told>> /\ Same

Sleep(c) ==
  /\ call[c].pc = "sleep"
  /\ call' = [call EXCEPT ![c].pc = "poll", ![c].polls = IF @ < MaxPolls THEN @ + 1 ELSE @]
  /\ UNCHANGED <<manager, owner, told>> /\ Same

(* refresh_account: the endpoint may take any token it has issued, and its *)
(* answer may be lost after the grant.                                     *)
Grant(c) ==
  /\ call[c].pc = "grant"
  /\ \/ Granted(c, call[c].id)
     \/ Fails(c)
     \/ LET u == call[c].id IN
        /\ issued[u] < MaxGrants /\ issued' = [issued EXCEPT ![u] = @ + 1]
        /\ Return(c) /\ UNCHANGED <<manager, disk, temp, told, budget>>

(* build_microsoft_account: XBL, XSTS, login_with_xbox, profile. *)
NextOf == [xbl |-> "xsts", xsts |-> "login", login |-> "profile", profile |-> "store"]

Chain(c) ==
  /\ call[c].pc \in DOMAIN NextOf
  /\ \/ Goto(c, NextOf[call[c].pc]) /\ UNCHANGED <<manager, owner, told>> /\ Same
     \/ Fails(c)          \* a status, a missing field, an XErr, a uhs mismatch

(* A refresh replaces the account it read; a login appends. *)
Replace(as, u, a) == [as EXCEPT ![IndexOf(u, as)] = a]

Store(c) ==
  LET u == call[c].id
      a == MicrosoftAccount(u, call[c].token)
  IN
  /\ call[c].pc = "store"
  /\ manager' = [manager EXCEPT !.accounts =
                   IF call[c].op = "complete" THEN Push(@, a) ELSE Replace(@, u, a)]
  /\ told' = [told EXCEPT ![u] = "unknown"]
  /\ Goto(c, Persist(c)) /\ UNCHANGED owner /\ Same

-----------------------------------------------------------------------------
(* FileTokenStorage::save, then the answer *)

Answer(c) ==
  /\ told' = [told EXCEPT ![call[c].id] = IF call[c].op = "remove" THEN "out" ELSE "in"]
  /\ Return(c)

Kept(c) == call[c].pc = "kept" /\ Return(c) /\ UNCHANGED <<manager, told>> /\ Same

WriteInPlace(c) ==   \* mutant: the store itself is truncated, then filled
  /\ call[c].pc = "write"
  /\ temp' = Sealed(manager.key, manager.accounts) /\ disk' = Sealed(manager.key, <<>>)
  /\ Goto(c, "rename") /\ UNCHANGED <<manager, owner, issued, told, budget>>

(* create_dir_all and the write of the temp file *)
WriteTemp(c) ==
  /\ call[c].pc = "write"
  /\ temp' = Sealed(manager.key, manager.accounts)
  /\ Goto(c, "rename") /\ UNCHANGED <<manager, disk, owner, issued, told, budget>>

Rename(c) ==
  /\ call[c].pc = "rename"
  /\ disk' = temp /\ temp' = NoFile
  /\ Answer(c) /\ UNCHANGED <<manager, issued, budget>>

(* An error of the disk: the call ends with it, and memory keeps the change. *)
DiskFails(c) ==
  /\ call[c].pc \in {"write", "rename"} /\ budget.faults > 0
  /\ budget' = [budget EXCEPT !.faults = @ - 1]
  /\ Return(c) /\ UNCHANGED <<manager, disk, temp, issued, told>>

-----------------------------------------------------------------------------
(* Outside: time, and the system. *)

Expire(u) ==
  /\ Quiet /\ Has(u, manager.accounts)
  /\ manager' = [manager EXCEPT !.accounts =
        [i \in DOMAIN @ |-> IF @[i].id = u THEN [@[i] EXCEPT !.expiring = TRUE] ELSE @[i]]]
  /\ UNCHANGED <<disk, temp, owner, call, issued, told, budget>>

Kill ==
  /\ budget.kills > 0 /\ budget' = [budget EXCEPT !.kills = @ - 1]
  /\ manager' = Default /\ owner' = None /\ call' = [c \in Caller |-> Idle]
  /\ UNCHANGED <<disk, temp, issued, told>>

Finished == budget.calls = 0 /\ Quiet /\ UNCHANGED vars

Step(c) ==
  \/ Enter(c) \/ DeviceCode(c) \/ Poll(c) \/ Sleep(c) \/ Grant(c) \/ Chain(c)
  \/ Store(c) \/ Kept(c) \/ WriteTemp(c) \/ Rename(c)

Next ==
  \/ Kill \/ Finished
  \/ \E k \in Key : Configure(k)
  \/ \E u \in Online : Expire(u)
  \/ \E c \in Caller : Step(c) \/ DiskFails(c)
  \/ \E c \in Caller, op \in {"list", "begin"} : Call(c, op, None)
  \/ \E c \in Caller, u \in Uuid, op \in {"add", "remove", "complete", "refresh", "fresh"} :
        Call(c, op, u)

(* A request ends by its timeout and the runtime polls the call; a caller  *)
(* that waits for a mutex free again and again gets it.                    *)
Fairness == \A c \in Caller : WF_vars(Step(c)) /\ SF_vars(Enter(c))
Spec == Init /\ [][Next]_vars /\ Fairness

-----------------------------------------------------------------------------
(* Properties *)

OnDisk(u) == Has(u, disk.accounts)

(* What a caller was told of an account of a store on disk outlives every  *)
(* kill, failed save and half-finished call that follows: an account whose *)
(* addition, login or refresh was answered is in the file, one whose       *)
(* removal was answered is not.                                            *)
AnsweredIsStored ==
  /\ TypeOK
  /\ \A u \in Uuid : /\ told[u] = "in" => OnDisk(u)
                     /\ told[u] = "out" => ~OnDisk(u)

(* The newest token known for an account is never replaced by an older     *)
(* one, whatever other calls refresh, log in or fail in between.           *)
TokenOf(u, as) == as[IndexOf(u, as)].token
TokensOnlyAdvance ==
  [][\A u \in Online :
       Has(u, manager.accounts) /\ Has(u, manager'.accounts) =>
         TokenOf(u, manager'.accounts) >= TokenOf(u, manager.accounts)]_<<manager, call>>

(* A store sealed with another key is never overwritten.                   *)
ForeignStoreUntouched ==
  [][disk # NoFile => disk'.key = disk.key]_disk

(* Every call of the bridge returns, also one that waits for the mutex     *)
(* behind a sign-in the user never confirms.                               *)
EveryCallEnds == \A c \in Caller : call[c].pc # "idle" ~> call[c].pc = "idle"
=============================================================================
