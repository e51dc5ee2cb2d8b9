------------------------------ MODULE RuntimeSupply ------------------------------
(***************************************************************************)
(* RuntimeManager (runtime/manager.rs) and what it drives: one JRE home    *)
(* per Java version and ABI, made of a universal and a binary archive, and *)
(* a marker file that says which archives were unpacked.  A new release of *)
(* the launcher brings a new manifest.  The manager's methods take &self   *)
(* and keep no lock; one caller at a time uses them.  Any disk operation   *)
(* may fail, and the process may be killed between any two, also inside    *)
(* remove_dir_all, which unlinks the files of a directory in no order and  *)
(* returns at its first error, with the rest left as it is.                *)
(***************************************************************************)
EXTENDS Naturals, FiniteSets

CONSTANTS
  Home,       \* the pairs (JavaVersion, Abi) of the manifest
  Content,    \* the files of each archive: a function on {"universal", "bin"}
  Required,   \* bin/java, release, libjvm.so
  NoHome,
  MaxBuild,   \* bound: manifests, one per launcher release
  MaxCalls,   \* bound: calls of the manager
  MaxKills    \* bound: kills

ASSUME SupplyAssumption ==
  /\ DOMAIN Content = {"universal", "bin"} /\ NoHome \notin Home
  /\ Required \subseteq Content["universal"] \cup Content["bin"] /\ "java" \in Required
  /\ MaxBuild \in Nat \ {0} /\ MaxCalls \in Nat /\ MaxKills \in Nat

VARIABLES
  manifest,   \* the build whose archives the manager expects
  files,      \* the build each file of a home comes from, 0 when absent
  marker,     \* what the marker of a home records: a build, 0 absent, torn
  runs,       \* is bin/java executable
  pc,         \* where the call under way is
  at,         \* the home it works on, and the homes left to release
  answer,     \* the home the last ensure or install returned
  torn,       \* history: homes whose removal failed or was cut by a kill
  budget

supplyVars == <<manifest, files, marker, runs, pc, at, answer, torn, budget>>

-----------------------------------------------------------------------------
JreFile == UNION {Content[a] : a \in DOMAIN Content}
Torn == MaxBuild + 1          \* a marker that does not parse

SupplyInit ==
  /\ manifest = 1
  /\ files = [h \in Home |-> [f \in JreFile |-> 0]]
  /\ marker = [h \in Home |-> 0] /\ runs = [h \in Home |-> FALSE]
  /\ pc = "idle" /\ at = [home |-> NoHome, archive |-> "universal", sound |-> TRUE,
                          rest |-> {}]
  /\ answer = NoHome /\ torn = {}
  /\ budget = [calls |-> MaxCalls, kills |-> MaxKills]

Present(h) == {f \in JreFile : files[h][f] # 0}
Empty(h) == Present(h) = {} /\ marker[h] = 0

(* archives_for and expected_archives: the pair of the current manifest;   *)
(* a marker lists the pair it was written for.                             *)
IsInstalledByMarker(h) == marker[h] \in 1 .. MaxBuild   \* mutant: any marker will do
IsInstalled(h) == marker[h] = manifest

Installed == {h \in Home : IsInstalled(h)}

-----------------------------------------------------------------------------
SupplyReady == pc = "idle" /\ budget.calls > 0 /\ budget' = [budget EXCEPT !.calls = @ - 1]
Begin(h, rest, where) ==
  /\ pc' = where
  /\ at' = [home |-> h, archive |-> "universal", sound |-> TRUE, rest |-> rest]
Disk == UNCHANGED <<manifest, files, marker, runs, torn>>

(* ensure: the marker decides; install: from scratch. *)
Ensure(h) ==
  /\ SupplyReady
  /\ IF IsInstalled(h) THEN answer' = h /\ UNCHANGED <<pc, at>>
                       ELSE answer' = NoHome /\ Begin(h, {}, "wipe")
  /\ Disk

InstallRuntime(h) == SupplyReady /\ Begin(h, {}, "wipe") /\ answer' = NoHome /\ Disk

(* release of one home, release_unused of all that are installed but keep. *)
ReleaseRuntime(h) == SupplyReady /\ Begin(h, {}, "free") /\ answer' = NoHome /\ Disk

ReleaseUnused(keep) ==
  /\ SupplyReady
  /\ LET rest == Installed \ keep IN
     \E h \in rest : Begin(h, rest \ {h}, "free")
  /\ answer' = NoHome /\ Disk

-----------------------------------------------------------------------------
(* remove_dir_all: one entry at a time. *)
Unlink ==
  LET h == at.home IN
  /\ pc \in {"wipe", "free"}
  /\ \/ /\ marker[h] # 0 /\ marker' = [marker EXCEPT ![h] = 0] /\ UNCHANGED files
     \/ \E f \in Present(h) : files' = [files EXCEPT ![h][f] = 0] /\ UNCHANGED marker
  /\ UNCHANGED <<manifest, runs, pc, at, answer, torn, budget>>

Unlinked ==
  LET h == at.home IN
  /\ pc \in {"wipe", "free"} /\ Empty(h)
  /\ CASE pc = "wipe"                     -> pc' = "fetch" /\ UNCHANGED at
       [] pc = "free" /\ at.rest = {}     -> pc' = "idle" /\ UNCHANGED at
       [] pc = "free" /\ at.rest # {}     ->
            \E g \in at.rest : Begin(g, at.rest \ {g}, "free")
  /\ torn' = torn \ {h}
  /\ UNCHANGED <<manifest, files, marker, runs, answer, budget>>

RemovalFails ==  \* and with it the call, also when other homes wait for release
  /\ pc \in {"wipe", "free"} /\ pc' = "idle"
  /\ torn' = torn \cup {at.home}
  /\ UNCHANGED <<manifest, files, marker, runs, at, answer, budget>>

GiveUp == pc' = "idle" /\ UNCHANGED <<at, answer>> /\ Disk

(* read_artifact from the assets or the network may fail or bring anything; *)
(* JreArchive::verify compares size and SHA-1 with the manifest.           *)
VerifiedBySize(sound) == sound \in BOOLEAN   \* mutant: the digest is not compared
Verified(sound) == sound

Fetch ==
  /\ pc = "fetch"
  /\ \/ GiveUp
     \/ \E sound \in BOOLEAN :
          /\ Verified(sound)
          /\ at' = [at EXCEPT !.sound = sound] /\ pc' = "unpack"
          /\ UNCHANGED answer /\ Disk
  /\ UNCHANGED budget

(* extract_tar_xz: one entry after the other, over what is there. *)
Left == {f \in Content[at.archive] : files[at.home][f] # manifest}

Unpack ==
  /\ pc = "unpack"
  /\ \/ \E f \in Left, x \in BOOLEAN :
          /\ files' = [files EXCEPT ![at.home][f] = manifest]
          /\ runs' = IF f = "java" THEN [runs EXCEPT ![at.home] = x] ELSE runs
          /\ UNCHANGED <<pc, at, marker, manifest, answer, torn>>
     \/ /\ Left = {} \/ ~at.sound
        /\ IF at.archive = "universal"
             THEN at' = [at EXCEPT !.archive = "bin"] /\ pc' = "fetch"
             ELSE pc' = "chmod" /\ UNCHANGED at
        /\ UNCHANGED answer /\ Disk
     \/ GiveUp                                      \* the disk is full
  /\ UNCHANGED budget

(* ensure_java_executable *)
Chmod ==
  /\ pc = "chmod" /\ pc' = "check"
  /\ runs' = [runs EXCEPT ![at.home] = @ \/ "java" \in Present(at.home)]
  /\ UNCHANGED <<manifest, files, marker, at, answer, torn, budget>>

(* verify_required_files, before anything says that the home is there *)
CheckRequired ==
  /\ pc = "check"
  /\ IF Required \subseteq Present(at.home)
       THEN pc' = "mark" /\ UNCHANGED <<at, answer>> /\ Disk
       ELSE GiveUp
  /\ UNCHANGED budget

(* write_marker: std::fs::write truncates, then fills. *)
Mark ==
  /\ pc = "mark" /\ pc' = "fill"
  /\ marker' = [marker EXCEPT ![at.home] = Torn]
  /\ UNCHANGED <<manifest, files, runs, at, answer, torn, budget>>

Fill ==
  /\ pc = "fill" /\ pc' = "idle"
  /\ marker' = [marker EXCEPT ![at.home] = manifest]
  /\ answer' = at.home
  /\ UNCHANGED <<manifest, files, runs, at, torn, budget>>

WriteFails == pc \in {"chmod", "mark", "fill"} /\ GiveUp /\ UNCHANGED budget

-----------------------------------------------------------------------------
KillManager ==
  /\ pc # "idle" /\ budget.kills > 0 /\ budget' = [budget EXCEPT !.kills = @ - 1]
  /\ torn' = IF pc \in {"wipe", "free"} THEN torn \cup {at.home} ELSE torn
  /\ pc' = "idle" /\ answer' = NoHome
  /\ UNCHANGED <<manifest, files, marker, runs, at>>

(* The launcher is updated: another process, another manifest. *)
Update ==
  /\ pc = "idle" /\ manifest < MaxBuild
  /\ manifest' = manifest + 1 /\ answer' = NoHome
  /\ UNCHANGED <<files, marker, runs, pc, at, torn, budget>>

SupplyFinished == pc = "idle" /\ budget.calls = 0 /\ UNCHANGED supplyVars

SupplyStep ==
  \/ Unlink \/ Unlinked \/ RemovalFails
  \/ Fetch \/ Unpack \/ Chmod \/ CheckRequired \/ Mark \/ Fill \/ WriteFails
SupplyNext ==
  \/ SupplyStep \/ KillManager \/ Update \/ SupplyFinished
  \/ \E h \in Home : Ensure(h) \/ InstallRuntime(h) \/ ReleaseRuntime(h)
  \/ \E keep \in SUBSET Home : ReleaseUnused(keep)

SupplySpec == SupplyInit /\ [][SupplyNext]_supplyVars

-----------------------------------------------------------------------------
(* Properties *)

Whole(h) == runs[h] /\ \A f \in JreFile : files[h][f] = manifest

(* A home the marker vouches for, at any moment, and so the home that      *)
(* ensure or install hands out, holds every file of the archives of the    *)
(* current manifest and an executable bin/java: what an update, a failed   *)
(* download or a kill inside an install left behind is never taken for a   *)
(* home.  A home whose removal failed or was killed half-way is set apart  *)
(* until a later removal is complete: the marker may be what it spared.    *)
InstalledIsWhole ==
  /\ \A h \in Home :
       IsInstalled(h) /\ h \notin torn /\ ~(pc \in {"wipe", "free"} /\ at.home = h) => Whole(h)
  /\ answer # NoHome /\ answer \notin torn => IsInstalled(answer) /\ Whole(answer)
=============================================================================
