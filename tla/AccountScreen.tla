------------------------------ MODULE AccountScreen ------------------------------
(***************************************************************************)
(* The account screen (AccountViewModel.kt over RustAccountRepository).    *)
(* Each tap starts a coroutine on Dispatchers.IO, and nothing keeps two of *)
(* them apart: every read and write of a StateFlow is a step of its own.   *)
(* A call of the bridge is one step, since the core serialises them behind *)
(* a mutex (Accounts); it may fail.  Taps on the main thread are one step. *)
(* Leaving the screen cancels its coroutines: the next call of each throws *)
(* and what a call under way answers is lost.                              *)
(***************************************************************************)
EXTENDS Naturals, Sequences, SequencesExt, Subsequences

CONSTANTS
  Slot,       \* coroutines that may run at once
  Premium,    \* uuids of Microsoft accounts
  Cracked,    \* uuids of offline accounts, none of them premium
  NoAccount,
  MaxTaps     \* bound: coroutines started

VARIABLES
  core,       \* the uuids of the core's accounts
  rows,       \* _accounts
  active,     \* _activeId, and the account of _activeAccount
  kept,       \* the uuid the repository keeps
  login,      \* _loginState
  job,        \* what each coroutine is doing
  taps,
  settled     \* history: the last coroutine that loaded ran alone, and its calls succeeded

screenVars == <<core, rows, active, kept, login, job, taps, settled>>

-----------------------------------------------------------------------------
Uuids == Premium \cup Cracked
NoJob == [pc |-> "none", id |-> NoAccount, list |-> <<>>, alone |-> FALSE, cut |-> FALSE]
Resting == \A s \in Slot : job[s] = NoJob
First(us, as) ==
  LET at == {i \in DOMAIN as : as[i] \in us}
  IN  IF at = {} THEN NoAccount ELSE as[CHOOSE i \in at : \A j \in at : i <= j]
EntryOf(u, as) == First({u}, as)

(* There is an account to add without a login. *)
AccountAssumption == Cracked # {}

ScreenInit ==
  /\ core \in {<<>>, <<CHOOSE u \in Cracked : TRUE>>}
  /\ rows = <<>> /\ login = "idle"
  /\ kept \in {NoAccount} \cup Uuids       \* a kill may have come between a removal and it
  /\ active = [id |-> kept, account |-> NoAccount]
  /\ job = [s \in Slot |-> NoJob]
  /\ taps = MaxTaps /\ settled = FALSE

(* scope.launch(Dispatchers.IO): from now on no coroutine is alone that    *)
(* shares the screen with another; all others are cancelled if cuts.       *)
Start(pc, u, cuts) ==
  /\ taps > 0 /\ taps' = taps - 1
  /\ \E s \in Slot :
       /\ job[s] = NoJob
       /\ job' = [r \in Slot |->
            IF r = s THEN [NoJob EXCEPT !.pc = pc, !.id = u, !.alone = Resting]
            ELSE [job[r] EXCEPT !.alone = FALSE, !.cut = @ \/ (cuts /\ job[r] # NoJob)]]
  /\ settled' = FALSE
  /\ UNCHANGED <<core, rows, active, kept, login>>

Appear == Start("list", NoAccount, TRUE)      \* LaunchedEffect, also when one comes back

(* What the screen offers: a row for each account, and the dialog unless   *)
(* no login is under way.  The confirm button begins again after an error. *)
Tap ==
  \/ \E u \in Cracked : Start("add", u, FALSE)
  \/ \E u \in Range(rows), pc \in {"remove", "refresh"} : Start(pc, u, FALSE)
  \/ login \in {"idle", "error"} /\ Start("begin", NoAccount, FALSE)
  \/ login = "awaiting" /\ \E u \in Premium : Start("complete", u, FALSE)

TapSelect(u) ==                              \* selectAccount, on the main thread
  /\ u \in Range(rows)
  /\ active' = [id |-> u, account |-> u] /\ kept' = u
  /\ job' = [s \in Slot |-> [job[s] EXCEPT !.alone = FALSE]]
  /\ UNCHANGED <<core, rows, login, taps, settled>>

CancelLogin ==
  /\ login # "idle" /\ login' = "idle"
  /\ UNCHANGED <<core, rows, active, kept, job, taps, settled>>

-----------------------------------------------------------------------------
(* Steps of a coroutine *)

At(s, pc) == job[s].pc = pc
GoOn(s, pc) == job' = [job EXCEPT ![s].pc = pc]
Done(s) == job' = [job EXCEPT ![s] = NoJob]

(* A call of the bridge that throws: the message goes to _error or to the  *)
(* dialog, and the coroutine ends.                                         *)
CallFails(s) ==
  /\ job[s].pc \in {"add", "began", "completed"}
  /\ login' = IF At(s, "add") THEN login ELSE "error"
  /\ Done(s) /\ UNCHANGED <<core, rows, active, kept, taps, settled>>

Erased(u) == Subsequence(core, {i \in DOMAIN core : core[i] # u})
AfterCall(s) ==
  CASE At(s, "add")       -> Append(Erased(job[s].id), job[s].id)
    [] At(s, "remove")    -> Erased(job[s].id)
    [] At(s, "completed") -> Append(core, job[s].id)
    [] OTHER              -> core

(* A cancelled coroutine does not begin, or ends at its call, which the    *)
(* core may have carried out.                                              *)
CallIsCut(s) ==
  /\ job[s].cut
  /\ job[s].pc \in {"add", "remove", "refresh", "begin", "began", "complete", "completed"}
  /\ core' \in {core, AfterCall(s)}
  /\ login' = IF job[s].pc \in {"began", "completed"} THEN "error" ELSE login
  /\ Done(s) /\ UNCHANGED <<rows, active, kept, taps, settled>>

CallAdd(s) ==
  /\ At(s, "add") /\ ~job[s].cut /\ core' = AfterCall(s)
  /\ GoOn(s, "list") /\ UNCHANGED <<rows, active, kept, login, taps, settled>>

(* remove answers false when it fails or finds nothing. *)
CallRemove(s) ==
  /\ At(s, "remove") /\ ~job[s].cut
  /\ \/ /\ job[s].id \in Range(core)
        /\ core' = AfterCall(s) /\ GoOn(s, "unpick")
     \/ UNCHANGED core /\ GoOn(s, "list")
  /\ UNCHANGED <<rows, active, kept, login, taps, settled>>

Unpick(s) ==
  /\ At(s, "unpick")
  /\ GoOn(s, IF active.id = job[s].id THEN "clear" ELSE "list")
  /\ UNCHANGED <<core, rows, active, kept, login, taps, settled>>

Clear(s) ==
  /\ At(s, "clear") /\ active' = [active EXCEPT !.id = NoAccount]
  /\ GoOn(s, "list") /\ UNCHANGED <<core, rows, kept, login, taps, settled>>

CallRefresh(s) ==     \* refreshAccount, ensureFresh: the uuids stay
  /\ At(s, "refresh") /\ ~job[s].cut /\ GoOn(s, "list")
  /\ UNCHANGED <<core, rows, active, kept, login, taps, settled>>

BeginLogin(s) ==
  /\ At(s, "begin") /\ login' = "signing" /\ GoOn(s, "began")
  /\ UNCHANGED <<core, rows, active, kept, taps, settled>>

CallBegin(s) ==
  /\ At(s, "began") /\ ~job[s].cut /\ login' = "awaiting" /\ Done(s)
  /\ UNCHANGED <<core, rows, active, kept, taps, settled>>

(* completeMicrosoftLogin returns unless a challenge is still awaited. *)
CompleteLogin(s) ==
  /\ At(s, "complete")
  /\ IF login = "awaiting" THEN GoOn(s, "spin") ELSE Done(s)
  /\ UNCHANGED <<core, rows, active, kept, login, taps, settled>>

Spin(s) ==
  /\ At(s, "spin") /\ login' = "signing" /\ GoOn(s, "completed")
  /\ UNCHANGED <<core, rows, active, kept, taps, settled>>

CallCompleteInList(s) ==     \* mutant: the dialog is left to the account list
  /\ At(s, "completed") /\ ~job[s].cut /\ core' = AfterCall(s)
  /\ GoOn(s, "pick") /\ UNCHANGED <<rows, active, kept, login, taps, settled>>

CallComplete(s) ==
  /\ At(s, "completed") /\ ~job[s].cut /\ core' = AfterCall(s) /\ login' = "idle"
  /\ GoOn(s, "pick") /\ UNCHANGED <<rows, active, kept, taps, settled>>

(* selectAccount *)
Pick(s) ==
  /\ At(s, "pick") /\ active' = [active EXCEPT !.id = job[s].id]
  /\ GoOn(s, "entry") /\ UNCHANGED <<core, rows, kept, login, taps, settled>>

PickEntry(s) ==
  /\ At(s, "entry") /\ active' = [active EXCEPT !.account = EntryOf(job[s].id, rows)]
  /\ GoOn(s, "keep") /\ UNCHANGED <<core, rows, kept, login, taps, settled>>

PickKeep(s) ==
  /\ At(s, "keep") /\ kept' = job[s].id
  /\ GoOn(s, "list") /\ UNCHANGED <<core, rows, active, login, taps, settled>>

(* loadAccounts: a failed call is an empty list. *)
CallList(s) ==
  /\ At(s, "list")
  /\ \/ ~job[s].cut /\ job' = [job EXCEPT ![s].pc = "show", ![s].list = core]
     \/ job' = [job EXCEPT ![s].pc = "show", ![s].list = <<>>, ![s].alone = FALSE]
  /\ UNCHANGED <<core, rows, active, kept, login, taps, settled>>

Show(s) ==
  /\ At(s, "show") /\ rows' = job[s].list
  /\ GoOn(s, "judge") /\ UNCHANGED <<core, active, kept, login, taps, settled>>

(* reconcileActive: keep the selection if it is listed, else prefer the    *)
(* first premium account.                                                  *)
ListedNot(u, as) == as # <<>>       \* mutant: only an empty list drops the selection
Listed(u, as) == u \in Range(as)
Preferred(as) ==
  LET first == First(Premium, as)
  IN  IF first # NoAccount THEN first ELSE First(Uuids, as)

Judge(s) ==
  /\ At(s, "judge")
  /\ GoOn(s, IF active.id # NoAccount /\ Listed(active.id, job[s].list) THEN "match" ELSE "prefer")
  /\ UNCHANGED <<core, rows, active, kept, login, taps, settled>>

Prefer(s) ==
  /\ At(s, "prefer") /\ active' = [active EXCEPT !.id = Preferred(job[s].list)]
  /\ GoOn(s, "match") /\ UNCHANGED <<core, rows, kept, login, taps, settled>>

Match(s) ==
  /\ At(s, "match") /\ active' = [active EXCEPT !.account = EntryOf(active.id, job[s].list)]
  /\ GoOn(s, "read") /\ UNCHANGED <<core, rows, kept, login, taps, settled>>

ReadActive(s) ==
  /\ At(s, "read") /\ job' = [job EXCEPT ![s].pc = "store", ![s].id = active.id]
  /\ UNCHANGED <<core, rows, active, kept, login, taps, settled>>

StoreActive(s) ==      \* setActiveId
  /\ At(s, "store") /\ kept' = job[s].id /\ settled' = job[s].alone
  /\ Done(s) /\ UNCHANGED <<core, rows, active, login, taps>>

JobStep(s) ==
  \/ CallFails(s) \/ CallIsCut(s)
  \/ CallAdd(s) \/ CallRemove(s) \/ Unpick(s) \/ Clear(s) \/ CallRefresh(s)
  \/ BeginLogin(s) \/ CallBegin(s) \/ CompleteLogin(s) \/ Spin(s) \/ CallComplete(s)
  \/ Pick(s) \/ PickEntry(s) \/ PickKeep(s)
  \/ CallList(s) \/ Show(s) \/ Judge(s) \/ Prefer(s) \/ Match(s) \/ ReadActive(s)
  \/ StoreActive(s)

ScreenNext ==
  \/ Appear \/ Tap \/ CancelLogin
  \/ \E u \in Uuids : TapSelect(u)
  \/ \E s \in Slot : JobStep(s)

ScreenSpec == ScreenInit /\ [][ScreenNext]_screenVars

-----------------------------------------------------------------------------
(* Properties *)

ScreenTypeOK ==
  /\ \A as \in {core, rows} : Range(as) \subseteq Uuids
  /\ {active.id, active.account, kept} \subseteq Uuids \cup {NoAccount}
  /\ login \in {"idle", "signing", "awaiting", "error"}
  /\ \A s \in Slot : job[s].id \in Uuids \cup {NoAccount}

(* The dialog never spins without a call that will answer it, however      *)
(* sign-ins begin, end and are dismissed around each other.                *)
SpinnerHasCall ==
  login = "signing" => \E s \in Slot : job[s].pc \in {"began", "completed"}

(* A coroutine that ran alone leaves list, selection and what is kept of   *)
(* it in agreement with the core, whatever ran at once before it.          *)
Agreement ==
  /\ rows = core
  /\ active.id = active.account /\ active.id = kept
  /\ IF core = <<>> THEN active.id = NoAccount ELSE active.id \in Range(core)

AccountScreenSound ==
  /\ ScreenTypeOK /\ SpinnerHasCall
  /\ settled /\ Resting => Agreement
===============================================================================
