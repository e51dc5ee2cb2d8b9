--------------------------------- MODULE Jobs ---------------------------------
(***************************************************************************)
(* Background jobs (jobs.rs) over the event bus: spawn_job registers a     *)
(* cancellation flag under the scope the caller chose, publishes "started" *)
(* and hands the job to the runtime; cancel_job raises the flag found      *)
(* under a scope.  A job publishes through the real bus, so each of its    *)
(* events is numbered, captured and emitted in steps of its own.           *)
(*                                                                         *)
(* Each call of spawn_job is an element of Job and, from the call to the   *)
(* end of the task, a thread of the bus.                                   *)
(***************************************************************************)
EXTENDS EventBus

CONSTANTS
  Job, Scope,
  ScopeOf,   \* the scope each job is spawned with
  Steps,     \* the steps each job is spawned with
  FailAt,    \* the step at which it fails, 0 if the spec names none
  NoJob,
  Echo,      \* what a re-entrant sink publishes
  MaxEcho,   \* bound: echoes are published while seq is no more than this
  MaxMoves   \* bound: subscribe and unsubscribe calls

ASSUME JobsAssumption ==
  /\ Job = Thread /\ NoJob \notin Job
  /\ ScopeOf \in [Job -> Scope]
  /\ Steps \in [Job -> Nat \ {0}] /\ FailAt \in [Job -> Nat]
  /\ Echo \in Event /\ Echo.job = NoJob
  /\ MaxEcho \in Nat /\ MaxMoves \in Nat

VARIABLES
  pc,        \* where each job is
  step,      \* the step it is at
  flag,      \* its cancellation flag
  registry,  \* the job whose flag is registered under each scope
  moves,     \* subscribe and unsubscribe calls made
  askedAt    \* history: the steps past their poll when its flag was first raised

jobs == <<pc, step, flag, registry, moves, askedAt>>
vars == <<bus, jobs>>

Ev(j, w, n)  == [job |-> j, what |-> w, step |-> n]
Outcomes     == {"completed", "cancelled", "error"}
ASSUME EventAssumption ==
  \A j \in Job : \A n \in 0 .. Steps[j] + 1 :
    \A w \in {"started", "progress"} \cup Outcomes : Ev(j, w, n) \in Event

(* A job whose task has not ended, and one that is still in spawn_job. *)
Alive(j) == pc[j] \notin {"new", "over"}

JobsTypeOK ==
  /\ BusTypeOK
  /\ pc \in [Job -> {"new", "spawn", "announce", "poll", "work", "next",
                     "ending", "over"}]
  /\ step \in [Job -> Nat] /\ askedAt \in [Job -> Nat]
  /\ \A j \in Job : step[j] \in 1 .. Steps[j] + 1 /\ askedAt[j] \in 0 .. Steps[j] + 1
  /\ flag \in [Job -> BOOLEAN]
  /\ registry \in [Scope -> Job \cup {NoJob}]
  /\ moves \in 0 .. MaxMoves

JobsInit ==
  /\ BusInit /\ sink # NoSink  \* connect runs when the application starts
  /\ pc = [j \in Job |-> "new"] /\ step = [j \in Job |-> 1]
  /\ flag = [j \in Job |-> FALSE] /\ askedAt = [j \in Job |-> 0]
  /\ registry = [s \in Scope |-> NoJob] /\ moves = 0

Goto(j, p)   == pc' = [pc EXCEPT ![j] = p]
Idle(j)      == stack[j] = <<>>     \* the last publish has returned

-----------------------------------------------------------------------------
(* spawn_job, on the calling thread *)

Register(j) ==
  /\ pc[j] = "new"
  /\ registry' = [registry EXCEPT ![ScopeOf[j]] = j]
  /\ Goto(j, "spawn")
  /\ UNCHANGED <<bus, step, flag, moves, askedAt>>

Announce(j) ==
  /\ pc[j] = "spawn"
  /\ Publish(j, Ev(j, "started", 0))
  /\ Goto(j, "announce")
  /\ UNCHANGED <<step, flag, registry, moves, askedAt>>

Spawn(j) ==
  /\ pc[j] = "announce" /\ Idle(j)
  /\ Goto(j, "poll")
  /\ UNCHANGED <<bus, step, flag, registry, moves, askedAt>>

-----------------------------------------------------------------------------
(* The task: one pass of its loop is poll, work, next *)

ObserveCancelGoesOn(j) ==  \* mutant: no return after "cancelled"
  /\ pc[j] = "poll" /\ step[j] <= Steps[j] /\ flag[j]
  /\ Publish(j, Ev(j, "cancelled", step[j]))
  /\ Goto(j, "next")
  /\ UNCHANGED <<step, flag, registry, moves, askedAt>>

ObserveCancel(j) ==
  /\ pc[j] = "poll" /\ step[j] <= Steps[j] /\ flag[j]
  /\ Publish(j, Ev(j, "cancelled", step[j]))
  /\ Goto(j, "ending")
  /\ UNCHANGED <<step, flag, registry, moves, askedAt>>

FailSilently(j) ==  \* mutant: the failure is returned and not published
  /\ pc[j] = "poll" /\ step[j] = FailAt[j] /\ step[j] <= Steps[j] /\ ~flag[j]
  /\ Goto(j, "ending")
  /\ UNCHANGED <<bus, step, flag, registry, moves, askedAt>>

Fail(j) ==
  /\ pc[j] = "poll" /\ step[j] = FailAt[j] /\ step[j] <= Steps[j] /\ ~flag[j]
  /\ Publish(j, Ev(j, "error", step[j]))
  /\ Goto(j, "ending")
  /\ UNCHANGED <<step, flag, registry, moves, askedAt>>

WorkOneMore(j) ==  \* mutant: the loop runs over 1..=steps + 1
  /\ pc[j] = "poll"
  /\ step[j] # FailAt[j] /\ ~flag[j]
  /\ Goto(j, "work")
  /\ UNCHANGED <<bus, step, flag, registry, moves, askedAt>>

WorkUnpolled(j) ==  \* mutant: the flag is not polled before the work
  /\ pc[j] = "poll" /\ step[j] <= Steps[j] /\ step[j] # FailAt[j]
  /\ Goto(j, "work")
  /\ UNCHANGED <<bus, step, flag, registry, moves, askedAt>>

Work(j) ==  \* neither cancelled nor failing: the delay
  /\ pc[j] = "poll" /\ step[j] <= Steps[j]
  /\ step[j] # FailAt[j] /\ ~flag[j]
  /\ Goto(j, "work")
  /\ UNCHANGED <<bus, step, flag, registry, moves, askedAt>>

Report(j) ==
  /\ pc[j] = "work"
  /\ Publish(j, Ev(j, "progress", step[j]))
  /\ Goto(j, "next")
  /\ UNCHANGED <<step, flag, registry, moves, askedAt>>

Next1(j) ==
  /\ pc[j] = "next" /\ Idle(j)
  /\ step' = [step EXCEPT ![j] = @ + 1]
  /\ Goto(j, "poll")
  /\ UNCHANGED <<bus, flag, registry, moves, askedAt>>

Complete(j) ==
  /\ pc[j] = "poll" /\ step[j] = Steps[j] + 1
  /\ Publish(j, Ev(j, "completed", step[j]))
  /\ Goto(j, "ending")
  /\ UNCHANGED <<step, flag, registry, moves, askedAt>>

DropGuardOnSuccess(j) ==  \* mutant: a cancelled or failed job keeps its flag
  /\ pc[j] = "ending" /\ Idle(j)
  /\ registry' = IF step[j] > Steps[j]
                   THEN [registry EXCEPT ![ScopeOf[j]] = NoJob] ELSE registry
  /\ Goto(j, "over")
  /\ UNCHANGED <<bus, step, flag, moves, askedAt>>

DropGuard(j) ==  \* the guard removes whatever its scope holds
  /\ pc[j] = "ending" /\ Idle(j)
  /\ registry' = [registry EXCEPT ![ScopeOf[j]] = NoJob]
  /\ Goto(j, "over")
  /\ UNCHANGED <<bus, step, flag, moves, askedAt>>

-----------------------------------------------------------------------------
Cancel(s) ==  \* cancel_job finds a flag and answers TRUE
  /\ registry[s] # NoJob
  /\ flag' = [flag EXCEPT ![registry[s]] = TRUE]
  /\ LET j == registry[s]
     IN  askedAt' = [askedAt EXCEPT ![j] =
           IF flag[j] THEN @ ELSE IF pc[j] \in {"work", "next", "ending"}
                                  THEN step[j] ELSE step[j] - 1]
  /\ UNCHANGED <<bus, pc, step, registry, moves>>

BusStep(j) == Proceed(j) /\ UNCHANGED jobs

EchoFrom(j) ==
  /\ stack[j] # <<>> /\ Top(j).event # Echo /\ seq <= MaxEcho
  /\ Reenter(j, Echo)
  /\ UNCHANGED jobs

Move(Change) ==  \* somebody subscribes or unsubscribes
  /\ moves < MaxMoves /\ moves' = moves + 1
  /\ Change
  /\ UNCHANGED <<pc, step, flag, registry, askedAt>>

Run(j) == \/ Announce(j) \/ Spawn(j) \/ ObserveCancel(j) \/ Fail(j) \/ Work(j)
          \/ Report(j) \/ Next1(j) \/ Complete(j) \/ DropGuard(j)

JobsNext ==
  \/ \E j \in Job : Register(j) \/ Run(j) \/ BusStep(j) \/ EchoFrom(j)
  \/ \E s \in Scope : Cancel(s)
  \/ \E s \in Sink : Move(Subscribe(s))
  \/ Move(Unsubscribe)

JobsSpec == JobsInit /\ [][JobsNext]_vars

(* The runtime polls every job, a caller in spawn_job runs, the callback a *)
(* publisher is in returns ("must be non-blocking"), and a publisher that  *)
(* waits for the seq mutex gets it when it is free again and again.        *)
JobsFairness == \A j \in Job : WF_vars(Run(j)) /\ SF_vars(BusStep(j))
FairJobsSpec == JobsSpec /\ JobsFairness

-----------------------------------------------------------------------------
Stage(e) == CASE e.what = "started"  -> 0
              [] e.what = "progress" -> e.step
              [] OTHER               -> Steps[e.job] + 1

(* A subscriber hears of a job in order, nothing twice, and nothing after *)
(* its outcome - so never two outcomes - however often subscribers change. *)
StreamInOrder ==
  \A s \in Sink : \A i, k \in DOMAIN got[s] :
    LET e == got[s][i].event  f == got[s][k].event
    IN  i < k /\ e.job = f.job /\ e.job # NoJob => Stage(e) < Stage(f)

(* A job that was asked to stop reports no step whose poll came after the  *)
(* request.                                                                *)
CancelIsPrompt ==
  \A s \in Sink, j \in Job : \A i \in DOMAIN got[s] :
    LET e == got[s][i].event
    IN  e.job = j /\ e.what = "progress" /\ flag[j] => e.step <= askedAt[j]

(* The registry holds no flag of a job that is over, however its task      *)
(* ended: it cannot grow over a long session.                              *)
NoStaleFlag ==
  \A s \in Scope : registry[s] # NoJob => Alive(registry[s])

(* A subscriber that was there all along has heard the outcome of every    *)
(* job that is over: the bus is the only way the caller learns of it.      *)
OutcomeIsHeard ==
  \A j \in Job : pc[j] = "over" /\ sink # NoSink /\ moves = 0 =>
    \E i \in DOMAIN got[sink] :
      got[sink][i].event.job = j /\ got[sink][i].event.what \in Outcomes

(* Every job that is spawned ends.  In particular no publisher waits for   *)
(* ever, not even for a sink that publishes from its callback: events are  *)
(* emitted with no lock held.                                              *)
JobEnds == \A j \in Job : pc[j] = "spawn" ~> pc[j] = "over"

(* Of the bus and the registry together: no event reaches a subscriber     *)
(* twice, none passes a subscriber by, no job ends without a word to it,   *)
(* and no flag outlives its job.                                           *)
JobsInv ==
  JobsTypeOK /\ DeliveredOnce /\ SubscriberMissesNothing /\ OutcomeIsHeard /\ NoStaleFlag
=============================================================================
