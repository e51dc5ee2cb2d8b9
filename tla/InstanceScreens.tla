---------------------------- MODULE InstanceScreens ----------------------------
(***************************************************************************)
(* The instances of the app and the screens over them: the install wizard, *)
(* the detail screen and the dashboards that launch (InstallViewModel.kt,  *)
(* InstanceDetailViewModel.kt, DashboardViewModel.kt over                  *)
(* InstanceRepository.kt).  All of it runs on the main thread and a tap is *)
(* one step, but the wizard's buttons are those of its last composition:   *)
(* a tap may reach them after the state they were drawn from has changed.  *)
(* A version is the words of its text; names are blank or not.             *)
(***************************************************************************)
EXTENDS Naturals, Sequences, SequencesExt, FiniteSets, Subsequences

CONSTANTS
  Family,        \* the modded families; vanilla is none of them
  GameVersions,       \* versions that can be picked or typed
  Builds,        \* builds of a family that the catalogue lists for a version
  Dashboard,     \* view models that launch: home's, the list's, a detail's
  Home,          \* the one whose screen offers to stop
  MaxScreenTaps  \* bound: taps that change something

Vanilla == "vanilla"
Blank == <<>>
NoBuild == "none"
AnyFamily == Family \cup {Vanilla}

(* A version has words; vanilla is no modded family; home is a dashboard.  *)
InstanceAssumption ==
  /\ Vanilla \notin Family
  /\ \A v \in GameVersions : v # Blank /\ IsSequence(v)
  /\ Home \in Dashboard

VARIABLES
  instances,    \* InstanceRepository._instances
  step,         \* InstallViewModel._step
  request,      \* InstallViewModel._request
  drawn,        \* the wizard's last composition: step, canProceed, builds offered
  detail,       \* InstanceDetailViewModel._instance, in a sequence of one or none
  launch,       \* DashboardViewModel._launchState
  runJob,       \* what the coroutine of a dashboard is at
  barrier,      \* gate: dashboards whose run awaits the one gate of the executor
  screenTaps

wizardVars == <<step, request, drawn>>
dashVars == <<launch, runJob, barrier>>
instanceVars == <<instances, wizardVars, detail, dashVars, screenTaps>>

-----------------------------------------------------------------------------
(* The request *)

EmptyRequest ==
  [loader |-> Vanilla, version |-> Blank, build |-> NoBuild, of |-> Blank, named |-> FALSE,
   custom |-> FALSE, dir |-> FALSE]

RequiresLoaderVersion(r) == r.loader # Vanilla
LoaderVersions(r) == IF r.loader = Vanilla THEN {} ELSE Builds[r.loader]

IsValidNamed(r) == r.named       \* mutant: the review trusts the steps before it
IsValid(r) ==                    \* validationError() == null
  /\ r.version # Blank
  /\ RequiresLoaderVersion(r) => r.build # NoBuild
  /\ r.named
  /\ r.custom => r.dir

(* next, previous and canProceed of InstallStep. *)
NextStep(s, r) ==
  CASE s = "loader"         -> "game_version"
    [] s = "game_version"   -> IF RequiresLoaderVersion(r) THEN "loader_version" ELSE "configure"
    [] s = "loader_version" -> "configure"
    [] OTHER                -> "review"
PreviousStep(s, r) ==
  CASE s = "review"         -> "configure"
    [] s = "configure"      -> IF RequiresLoaderVersion(r) THEN "loader_version" ELSE "game_version"
    [] s = "loader_version" -> "game_version"
    [] OTHER                -> "loader"
CanProceed(s, r) ==
  CASE s = "loader"         -> TRUE
    [] s = "game_version"   -> r.version # Blank
    [] s = "loader_version" -> r.build # NoBuild
    [] s = "configure"      -> r.named
    [] OTHER                -> IsValid(r)

-----------------------------------------------------------------------------
(* The repository *)

At(id) == {i \in DOMAIN instances : instances[i].id = id}
Ids(list) == {list[i].id : i \in DOMAIN list}
Stored(id) == instances[CHOOSE i \in At(id) : TRUE]
Revised(list, x) == [i \in DOMAIN list |-> IF list[i].id = x.id THEN x ELSE list[i]]
Without(list, id) == Subsequence(list, {i \in DOMAIN list : list[i].id # id})
Added(list, x) == Append(Without(list, x.id), x)

DefaultId(r) == <<r.loader>> \o r.version \o (IF r.build = NoBuild THEN <<>> ELSE <<r.build>>)

PlainId(r) == DefaultId(r)       \* mutant: the id may be another instance's
UniqueId(r) ==
  LET Candidate(n) == IF n = 0 THEN DefaultId(r) ELSE Append(DefaultId(r), n)
  IN  Candidate(CHOOSE n \in 0..Len(instances) :
        /\ Candidate(n) \notin Ids(instances)
        /\ \A m \in 0..n - 1 : Candidate(m) \in Ids(instances))

BuildInstance(r, id) ==
  [id |-> id, loader |-> r.loader, version |-> r.version, build |-> r.build, of |-> r.of,
   named |-> TRUE, custom |-> r.custom, dir |-> r.dir, played |-> FALSE]

-----------------------------------------------------------------------------
(* The wizard *)

Tap == screenTaps > 0 /\ screenTaps' = screenTaps - 1
OthersStay == UNCHANGED <<instances, detail, dashVars>>
Drawing(s, r) ==
  [step |-> s, ok |-> CanProceed(s, r), builds |-> LoaderVersions(r), of |-> r.version]

Request(r) == r # request /\ request' = r /\ UNCHANGED <<step, drawn>> /\ OthersStay

SetLoader(l) ==
  /\ Tap /\ drawn.step = "loader"
  /\ Request([request EXCEPT !.loader = l,
       !.build = IF l = Vanilla THEN NoBuild ELSE @, !.of = IF l = Vanilla THEN Blank ELSE @])

VersionOnly(v) ==           \* mutant: the build of the version before it stays
  /\ Tap /\ drawn.step = "game_version" /\ Request([request EXCEPT !.version = v])
SetGameVersion(v) ==
  /\ Tap /\ drawn.step = "game_version"
  /\ Request([request EXCEPT !.version = v, !.build = NoBuild, !.of = Blank])

SetLoaderVersion(b) ==
  /\ Tap /\ drawn.step = "loader_version" /\ b \in drawn.builds
  /\ Request([request EXCEPT !.build = b, !.of = drawn.of])

Configure ==     \* setName, setGameDirectoryType, setCustomGameDir
  /\ Tap /\ drawn.step = "configure"
  /\ \/ \E n \in BOOLEAN : Request([request EXCEPT !.named = n])
     \/ \E c \in BOOLEAN : Request([request EXCEPT !.custom = c])
     \/ request.custom /\ \E d \in BOOLEAN : Request([request EXCEPT !.dir = d])

Turn(s) == step' = s /\ UNCHANGED <<request, drawn>> /\ OthersStay
Back == Tap /\ drawn.step # "loader" /\ Turn(PreviousStep(step, request))
Proceed == Tap /\ drawn.step # "review" /\ drawn.ok /\ Turn(NextStep(step, request))

Recompose ==
  /\ drawn # Drawing(step, request) /\ drawn' = Drawing(step, request)
  /\ UNCHANGED <<step, request, screenTaps>> /\ OthersStay

(* create, and the detail screen that replaces the wizard: the next wizard *)
(* is a new view model.  A second tap before that creates again.           *)
Create ==
  /\ Tap /\ drawn.step = "review" /\ drawn.ok
  /\ instances' = Added(instances, BuildInstance(request, UniqueId(request)))
  /\ UNCHANGED <<wizardVars, detail, dashVars>>
LeaveWizard ==
  /\ Tap /\ step' = "loader" /\ request' = EmptyRequest
  /\ drawn' = Drawing("loader", EmptyRequest) /\ OthersStay

-----------------------------------------------------------------------------
(* The detail screen *)

Open(id) ==
  /\ Tap /\ detail' = IF At(id) = {} THEN <<>> ELSE <<Stored(id)>>
  /\ detail' # detail /\ UNCHANGED <<instances, wizardVars, dashVars>>

(* update writes the whole copy back, as it was loaded but for the edit.   *)
Update(x) ==
  /\ Tap /\ detail' = <<x>> /\ detail' # detail /\ instances' = Revised(instances, x)
  /\ UNCHANGED <<wizardVars, dashVars>>
Edit ==     \* setName and the other fields; setGameDirectoryType; setCustomGameDir
  /\ detail # <<>>
  /\ \/ \E n \in BOOLEAN : Update([detail[1] EXCEPT !.named = n])
     \/ \E c \in BOOLEAN : Update([detail[1] EXCEPT !.custom = c, !.dir = c /\ @])
     \/ detail[1].custom /\ \E d \in BOOLEAN : Update([detail[1] EXCEPT !.dir = d])

DeleteDetail ==
  /\ Tap /\ detail # <<>> /\ detail' = <<>>
  /\ instances' = Without(instances, detail[1].id)
  /\ UNCHANGED <<wizardVars, dashVars>>

-----------------------------------------------------------------------------
(* The dashboards.  Main.immediate: a coroutine that is cancelled, or      *)
(* whose gate opens, goes on within the call that does it.                 *)

Launch(d, id) ==
  /\ Tap /\ At(id) # {} /\ launch[d] = "idle"
  /\ instances' = Revised(instances, [Stored(id) EXCEPT !.played = TRUE])   \* recordPlayed
  /\ launch' = [launch EXCEPT ![d] = "launching"] /\ runJob' = [runJob EXCEPT ![d] = "prepare"]
  /\ UNCHANGED <<barrier, wizardVars, detail>>

Prepared(d) ==        \* prepare returns; run puts its gate where another's may be
  /\ runJob[d] = "prepare" /\ runJob' = [runJob EXCEPT ![d] = "run"]
  /\ launch' = [launch EXCEPT ![d] = "running"] /\ barrier' = {d}
  /\ UNCHANGED <<instances, wizardVars, detail, screenTaps>>

End(ds) ==
  /\ launch' = [d \in Dashboard |-> IF d \in ds THEN "idle" ELSE launch[d]]
  /\ runJob' = [d \in Dashboard |-> IF d \in ds THEN "none" ELSE runJob[d]]
  /\ barrier' = IF \E d \in ds : runJob[d] = "run" THEN {} ELSE barrier

(* executor.cancel() opens the gate, whoever waits at it; runJob.cancel(). *)
StopIdles ==             \* mutant: the job is not cancelled
  /\ Tap /\ launch[Home] = "running" /\ launch' = [launch EXCEPT ![Home] = "idle"]
  /\ UNCHANGED <<runJob, barrier, instances, wizardVars, detail>>
Stop ==
  /\ Tap /\ launch[Home] = "running" /\ End({Home} \cup barrier)
  /\ UNCHANGED <<instances, wizardVars, detail>>

Clear(d) ==           \* its screen, or for Home the activity, is gone for good
  /\ Tap /\ launch[d] # "idle" /\ End({d})
  /\ UNCHANGED <<instances, wizardVars, detail>>

-----------------------------------------------------------------------------
Seed(r) == [BuildInstance(r, DefaultId(r)) EXCEPT !.named = TRUE]

InstanceInit ==
  /\ \E v \in GameVersions : instances = <<Seed([EmptyRequest EXCEPT !.version = v])>>
  /\ step = "loader" /\ request = EmptyRequest /\ drawn = Drawing("loader", EmptyRequest)
  /\ detail = <<>>
  /\ launch = [d \in Dashboard |-> "idle"] /\ runJob = [d \in Dashboard |-> "none"]
  /\ barrier = {} /\ screenTaps = MaxScreenTaps

InstanceNext ==
  \/ \E l \in AnyFamily : SetLoader(l)
  \/ \E v \in GameVersions \cup {Blank} : SetGameVersion(v)
  \/ \E b \in drawn.builds : SetLoaderVersion(b)
  \/ Configure \/ Back \/ Proceed \/ Recompose \/ Create \/ LeaveWizard
  \/ \E id \in Ids(instances) : Open(id) \/ \E d \in Dashboard : Launch(d, id)
  \/ Edit \/ DeleteDetail
  \/ Stop \/ \E d \in Dashboard : Prepared(d) \/ Clear(d)

InstanceSpec == InstanceInit /\ [][InstanceNext]_instanceVars

-----------------------------------------------------------------------------
(* Properties *)

InstanceTypeOK ==
  /\ step \in {"loader", "game_version", "loader_version", "configure", "review"}
  /\ request.loader \in AnyFamily /\ Len(detail) <= 1 /\ barrier \subseteq Dashboard

(* Ids, which key the lists and name the isolated directories, are unique. *)
EachItsOwn == Cardinality(Ids(instances)) = Len(instances)

(* However taps meet a screen that is not drawn anew yet, an instance has  *)
(* a version, a build for exactly that version if its family needs one,    *)
(* and the review is never offered without.                                *)
WizardIsSound ==
  /\ request.build # NoBuild => request.of = request.version
  /\ \A i \in DOMAIN instances : LET x == instances[i] IN
       /\ x.version # Blank
       /\ x.loader # Vanilla => x.build # NoBuild
       /\ x.build # NoBuild => x.of = x.version

(* The detail screen edits what is stored, but for the time of play.       *)
DetailIsStored ==
  detail # <<>> =>
    /\ At(detail[1].id) # {}
    /\ [Stored(detail[1].id) EXCEPT !.played = detail[1].played] = detail[1]

(* A dashboard that shows nothing runs nothing, and the reverse. *)
IdleRunsNothing == \A d \in Dashboard : launch[d] = "idle" <=> runJob[d] = "none"

InstancesSound ==
  InstanceTypeOK /\ EachItsOwn /\ WizardIsSound /\ DetailIsStored /\ IdleRunsNothing

(* An instance changes by being played, or at the hands of its own detail  *)
(* screen; a new one takes the place of none.                              *)
InstancesKept ==
  [][ \A x \in Range(instances) :
        \/ {x, [x EXCEPT !.played = TRUE]} \cap Range(instances') # {}
        \/ detail # <<>> /\ detail[1].id = x.id ]_instanceVars
===============================================================================
