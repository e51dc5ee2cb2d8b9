------------------------------ MODULE ServiceProofs ------------------------------
(***************************************************************************)
(* What holds of five services beside the downloads, for all their bounds. *)
(*                                                                         *)
(* RuntimeSupply: no home is taken for installed without being whole, for  *)
(* every set of homes, archives, updates, kills and failures.              *)
(*                                                                         *)
(* BufPool: the pools are sound for every number of workers, every size of *)
(* request and every list of buckets whose capacities double.              *)
(*                                                                         *)
(* Plugins: the report, the resolver and the inventory agree, for every    *)
(* set of descriptors of others.                                           *)
(*                                                                         *)
(* GameSession: for every number of lines, size of the pipes, capacity of  *)
(* the log and text of the lines, the lines heard are the beginning of     *)
(* each stream and all of it at the exit, the log buffer is their end, the *)
(* verdict on a stopped game is sound, and the crash log shows what its    *)
(* verdict rests on.                                                       *)
(*                                                                         *)
(* ModFolder: the check of a loadout is exact and a toggle loses nothing,  *)
(* for every set of archives, however their versions are numbered.         *)
(***************************************************************************)
EXTENDS RuntimeSupply, BufPool, Plugins, GameSession, ModFolder, SubsequenceLemmas, FiniteSetTheorems,
        TLAPS

-----------------------------------------------------------------------------
(* RuntimeSupply *)

Removing   == {"wipe", "free"}
Installing == {"fetch", "unpack", "chmod", "check", "mark", "fill"}

SupplyTypeOK ==
  /\ manifest \in 1 .. MaxBuild
  /\ files \in [Home -> [JreFile -> 0 .. MaxBuild]]
  /\ marker \in [Home -> 0 .. Torn]
  /\ runs \in [Home -> BOOLEAN]
  /\ pc \in {"idle"} \cup Removing \cup Installing
  /\ at \in [home : Home \cup {NoHome}, archive : {"universal", "bin"}, sound : {TRUE},
             rest : SUBSET Home]
  /\ answer \in Home \cup {NoHome}
  /\ torn \subseteq Home

(* A call under way has a home, and has answered nothing. *)
Underway == pc # "idle" => at.home \in Home /\ answer = NoHome

(* No marker is of a manifest to come. *)
NoMarkerAhead == \A h \in Home : marker[h] <= manifest \/ marker[h] = Torn

(* While a home is built its marker says nothing. *)
Unmarked ==
  /\ pc \in Installing \ {"fill"} => marker[at.home] = 0
  /\ pc = "fill" => marker[at.home] = Torn

(* The archives are unpacked in turn, and the home is marked after both. *)
Built(h, fs) == \A f \in fs : files[h][f] = manifest
InTurn ==
  /\ pc = "wipe" => at.archive = "universal"
  /\ pc \in {"fetch", "unpack"} /\ at.archive = "bin" => Built(at.home, Content["universal"])
  /\ pc \in {"chmod", "check", "mark", "fill"} => Built(at.home, JreFile)
  /\ pc \in {"check", "mark", "fill"} => runs[at.home]

SupplyInv == SupplyTypeOK /\ Underway /\ NoMarkerAhead /\ Unmarked /\ InTurn /\ InstalledIsWhole

-----------------------------------------------------------------------------
LEMMA AllFiles == /\ JreFile = Content["universal"] \cup Content["bin"]
                  /\ "java" \in JreFile
BY SupplyAssumption DEF JreFile

LEMMA Builds == /\ MaxBuild \in Nat \ {0} /\ Torn \in Nat /\ Torn = MaxBuild + 1
                /\ NoHome \notin Home
BY SupplyAssumption DEF Torn

LEMMA SupplyStarts == SupplyInit => SupplyInv
<1> SUFFICES ASSUME SupplyInit PROVE SupplyInv
  OBVIOUS
<1>1. SupplyTypeOK
  BY Builds DEF SupplyInit, SupplyTypeOK, Removing, Installing
<1>2. Underway /\ NoMarkerAhead /\ Unmarked /\ InTurn
  BY Builds DEF SupplyInit, Underway, NoMarkerAhead, Unmarked, InTurn, Installing
<1>3. InstalledIsWhole
  BY Builds DEF SupplyInit, InstalledIsWhole, IsInstalled
<1> QED BY <1>1, <1>2, <1>3 DEF SupplyInv

(* A call that begins with a removal. *)
LEMMA BeginKeeps ==
  ASSUME SupplyInv, pc = "idle", NEW h \in Home, NEW rest \in SUBSET Home,
         NEW where \in Removing, Begin(h, rest, where), answer' = NoHome, Disk
  PROVE  SupplyInv'
<1>1. SupplyTypeOK'
  BY DEF SupplyInv, SupplyTypeOK, Begin, Disk, Removing
<1>2. Underway' /\ NoMarkerAhead' /\ Unmarked' /\ InTurn'
  BY DEF SupplyInv, SupplyTypeOK, NoMarkerAhead, Underway, Unmarked, InTurn, Begin, Disk,
         Removing, Installing
<1>3. InstalledIsWhole'
  BY DEF SupplyInv, InstalledIsWhole, IsInstalled, Whole, Begin, Disk, Removing
<1> QED BY <1>1, <1>2, <1>3 DEF SupplyInv

LEMMA EnsureKeeps == ASSUME SupplyInv, NEW h \in Home, Ensure(h) PROVE SupplyInv'
<1>1. CASE IsInstalled(h)
  <2>1. SupplyTypeOK' /\ Underway' /\ NoMarkerAhead' /\ Unmarked' /\ InTurn'
    BY <1>1 DEF SupplyInv, SupplyTypeOK, Underway, NoMarkerAhead, Unmarked, InTurn, Built,
                Ensure, SupplyReady, Disk, Installing
  <2>2. InstalledIsWhole'
    BY <1>1 DEF SupplyInv, InstalledIsWhole, IsInstalled, Whole, Ensure, SupplyReady, Disk
  <2> QED BY <2>1, <2>2 DEF SupplyInv
<1>2. CASE ~IsInstalled(h)
  BY <1>2, BeginKeeps DEF Ensure, SupplyReady, Removing
<1> QED BY <1>1, <1>2

LEMMA CallsKeep ==
  ASSUME SupplyInv, NEW h \in Home, InstallRuntime(h) \/ ReleaseRuntime(h)
  PROVE  SupplyInv'
BY BeginKeeps DEF InstallRuntime, ReleaseRuntime, SupplyReady, Removing

LEMMA ReleaseUnusedKeeps ==
  ASSUME SupplyInv, NEW keep \in SUBSET Home, ReleaseUnused(keep)
  PROVE  SupplyInv'
<1>1. PICK h \in Installed \ keep : Begin(h, (Installed \ keep) \ {h}, "free")
  BY DEF ReleaseUnused
<1>2. h \in Home /\ (Installed \ keep) \ {h} \in SUBSET Home
  BY DEF Installed
<1> QED BY <1>1, <1>2, BeginKeeps DEF ReleaseUnused, SupplyReady, Removing

-----------------------------------------------------------------------------
(* The removal of a home touches no other. *)
LEMMA UnlinkKeeps == ASSUME SupplyInv, Unlink PROVE SupplyInv'
<1>0. pc \in Removing /\ at.home \in Home /\ answer = NoHome
  BY DEF Unlink, SupplyInv, Underway, Removing
<1>1. SupplyTypeOK'
  <2>1. marker' \in [Home -> 0 .. Torn]
    BY <1>0, Builds DEF SupplyInv, SupplyTypeOK, Unlink
  <2>2. files' \in [Home -> [JreFile -> 0 .. MaxBuild]]
    <3>1. CASE UNCHANGED files
      BY <3>1 DEF SupplyInv, SupplyTypeOK
    <3>2. CASE \E f \in Present(at.home) : files' = [files EXCEPT ![at.home][f] = 0]
      <4>1. PICK f \in JreFile : files' = [files EXCEPT ![at.home][f] = 0]
        BY <3>2 DEF Present
      <4>2. [files[at.home] EXCEPT ![f] = 0] \in [JreFile -> 0 .. MaxBuild]
        BY <1>0, Builds DEF SupplyInv, SupplyTypeOK
      <4> QED BY <1>0, <4>1, <4>2 DEF SupplyInv, SupplyTypeOK
    <3> QED BY <3>1, <3>2 DEF Unlink
  <2> QED BY <1>0, <2>1, <2>2 DEF SupplyInv, SupplyTypeOK, Unlink
<1>2. Underway' /\ NoMarkerAhead' /\ Unmarked' /\ InTurn'
  BY <1>0, Builds DEF SupplyInv, SupplyTypeOK, Underway, NoMarkerAhead, Unmarked, InTurn,
                      Unlink, Removing, Installing
<1>3. InstalledIsWhole'
  <2> SUFFICES ASSUME NEW h \in Home, marker'[h] = manifest, h \notin torn, h # at.home
               PROVE  runs[h] /\ \A f \in JreFile : files'[h][f] = manifest
    BY <1>0 DEF InstalledIsWhole, IsInstalled, Whole, Unlink, Removing
  <2>1. marker'[h] = marker[h] /\ files'[h] = files[h]
    BY <1>0 DEF Unlink, SupplyInv, SupplyTypeOK
  <2> QED BY <2>1 DEF SupplyInv, InstalledIsWhole, IsInstalled, Whole
<1> QED BY <1>1, <1>2, <1>3 DEF SupplyInv

LEMMA UnlinkedKeeps == ASSUME SupplyInv, Unlinked PROVE SupplyInv'
<1>0. pc \in Removing /\ at.home \in Home /\ answer = NoHome /\ marker[at.home] = 0
  BY DEF Unlinked, Empty, SupplyInv, Underway, Removing
<1>1. \/ pc = "wipe" /\ pc' = "fetch" /\ UNCHANGED at
      \/ pc = "free" /\ pc' = "idle" /\ UNCHANGED at
      \/ pc = "free" /\ \E g \in at.rest : Begin(g, at.rest \ {g}, "free")
  BY <1>0 DEF Unlinked, Removing
<1>2. SupplyTypeOK'
  <2>1. pc' \in {"fetch", "idle", "free"}
    BY <1>1 DEF Begin
  <2>2. at' \in [home : Home \cup {NoHome}, archive : {"universal", "bin"}, sound : {TRUE},
                 rest : SUBSET Home]
    <3>1. CASE UNCHANGED at
      BY <3>1 DEF SupplyInv, SupplyTypeOK
    <3>2. CASE \E g \in at.rest : Begin(g, at.rest \ {g}, "free")
      <4>1. PICK g \in at.rest : Begin(g, at.rest \ {g}, "free")
        BY <3>2
      <4>2. g \in Home /\ at.rest \ {g} \in SUBSET Home
        BY DEF SupplyInv, SupplyTypeOK
      <4> QED BY <4>1, <4>2 DEF Begin
    <3> QED BY <1>1, <3>1, <3>2
  <2> QED BY <1>0, <2>1, <2>2 DEF SupplyInv, SupplyTypeOK, Unlinked, Removing, Installing
<1>3. Underway' /\ NoMarkerAhead' /\ Unmarked' /\ InTurn'
  BY <1>0, <1>1 DEF SupplyInv, SupplyTypeOK, Underway, NoMarkerAhead, Unmarked, InTurn, Unlinked,
                    Begin, Installing
<1>4. InstalledIsWhole'
  <2> SUFFICES ASSUME NEW h \in Home, marker[h] = manifest, h \notin torn \ {at.home}
               PROVE  Whole(h)
    BY <1>0 DEF InstalledIsWhole, IsInstalled, Whole, Unlinked
  <2>1. h # at.home
    BY <1>0, Builds DEF SupplyInv, SupplyTypeOK
  <2> QED BY <2>1 DEF SupplyInv, InstalledIsWhole, IsInstalled
<1> QED BY <1>2, <1>3, <1>4 DEF SupplyInv

-----------------------------------------------------------------------------
(* The home under construction is not marked, so no other is affected. *)
LEMMA BuildingKeeps ==
  ASSUME SupplyInv, pc \in Installing, pc' \in Installing \cup {"idle"},
         UNCHANGED <<manifest, marker, torn, answer>>,
         \A h \in Home \ {at.home} : runs'[h] = runs[h] /\ files'[h] = files[h]
  PROVE  InstalledIsWhole' /\ NoMarkerAhead'
<1>0. at.home \in Home /\ answer = NoHome
  BY DEF SupplyInv, Underway, Installing
<1>1. marker[at.home] # manifest
  BY Builds DEF SupplyInv, SupplyTypeOK, Unmarked, Installing
<1>2. NoMarkerAhead'
  BY DEF SupplyInv, NoMarkerAhead
<1>3. InstalledIsWhole'
  <2> SUFFICES ASSUME NEW h \in Home, marker[h] = manifest, h \notin torn
               PROVE  runs'[h] /\ \A f \in JreFile : files'[h][f] = manifest
    BY <1>0 DEF InstalledIsWhole, IsInstalled, Whole
  <2>1. h # at.home
    BY <1>1
  <2>2. Whole(h)
    BY <2>1 DEF SupplyInv, InstalledIsWhole, IsInstalled, Removing, Installing
  <2> QED BY <2>1, <2>2 DEF Whole
<1> QED BY <1>2, <1>3

LEMMA GiveUpKeeps == ASSUME SupplyInv, pc \in Installing, GiveUp PROVE SupplyInv'
<1>1. InstalledIsWhole' /\ NoMarkerAhead'
  BY BuildingKeeps DEF GiveUp, Disk
<1>2. SupplyTypeOK' /\ Underway' /\ Unmarked' /\ InTurn'
  BY DEF SupplyInv, SupplyTypeOK, Underway, Unmarked, InTurn, GiveUp, Disk, Installing
<1> QED BY <1>1, <1>2 DEF SupplyInv

LEMMA FetchKeeps == ASSUME SupplyInv, Fetch PROVE SupplyInv'
<1>1. ASSUME GiveUp PROVE SupplyInv'
  BY <1>1, GiveUpKeeps DEF Fetch, Installing
<1>2. ASSUME NEW sound \in BOOLEAN, Verified(sound), at' = [at EXCEPT !.sound = sound],
             pc' = "unpack", UNCHANGED answer, Disk
      PROVE  SupplyInv'
  <2>0. at' = at /\ pc = "fetch"
    BY <1>2 DEF Verified, SupplyInv, SupplyTypeOK, Fetch
  <2>1. InstalledIsWhole' /\ NoMarkerAhead'
    BY <1>2, <2>0, BuildingKeeps DEF Disk, Installing
  <2>2. SupplyTypeOK' /\ Underway' /\ Unmarked' /\ InTurn'
    BY <1>2, <2>0 DEF SupplyInv, SupplyTypeOK, Underway, Unmarked, InTurn, Built, Disk, Installing
  <2> QED BY <2>1, <2>2 DEF SupplyInv
<1> QED BY <1>1, <1>2 DEF Fetch

LEMMA UnpackKeeps == ASSUME SupplyInv, Unpack PROVE SupplyInv'
<1>0. pc = "unpack" /\ at.home \in Home /\ at.archive \in DOMAIN Content /\ pc \in Installing
  BY SupplyAssumption DEF Unpack, SupplyInv, SupplyTypeOK, Underway, Installing
<1>1. ASSUME NEW f \in Left, NEW x \in BOOLEAN,
             files' = [files EXCEPT ![at.home][f] = manifest],
             runs' = IF f = "java" THEN [runs EXCEPT ![at.home] = x] ELSE runs,
             UNCHANGED <<pc, at, marker, manifest, answer, torn>>
      PROVE  SupplyInv'
  <2>0. f \in JreFile
    BY <1>0, <1>1 DEF Left, JreFile
  <2>1. files' \in [Home -> [JreFile -> 0 .. MaxBuild]] /\ runs' \in [Home -> BOOLEAN]
    BY <1>0, <1>1, <2>0 DEF SupplyInv, SupplyTypeOK
  <2>2. \A h \in Home \ {at.home} : runs'[h] = runs[h] /\ files'[h] = files[h]
    BY <1>0, <1>1 DEF SupplyInv, SupplyTypeOK
  <2>3. InstalledIsWhole' /\ NoMarkerAhead'
    BY <1>0, <1>1, <2>2, BuildingKeeps
  <2>4. \A g \in JreFile : files[at.home][g] = manifest => files'[at.home][g] = manifest
    BY <1>0, <1>1, <2>0 DEF SupplyInv, SupplyTypeOK
  <2>5. InTurn'
    BY <1>0, <1>1, <2>4, AllFiles DEF SupplyInv, InTurn, Built
  <2>6. SupplyTypeOK' /\ Underway' /\ Unmarked'
    BY <1>0, <1>1, <2>1 DEF SupplyInv, SupplyTypeOK, Underway, Unmarked
  <2> QED BY <2>3, <2>5, <2>6 DEF SupplyInv
<1>2. ASSUME Left = {} \/ ~at.sound, UNCHANGED answer, Disk,
             IF at.archive = "universal"
               THEN at' = [at EXCEPT !.archive = "bin"] /\ pc' = "fetch"
               ELSE pc' = "chmod" /\ UNCHANGED at
      PROVE  SupplyInv'
  <2>1. Built(at.home, Content[at.archive])
    BY <1>2 DEF SupplyInv, SupplyTypeOK, Left, Built
  <2>2. InstalledIsWhole' /\ NoMarkerAhead'
    BY <1>0, <1>2, BuildingKeeps DEF Disk, Installing
  <2>3. InTurn'
    BY <1>0, <1>2, <2>1, AllFiles DEF SupplyInv, SupplyTypeOK, InTurn, Built, Disk
  <2>4. SupplyTypeOK' /\ Underway' /\ Unmarked'
    BY <1>0, <1>2 DEF SupplyInv, SupplyTypeOK, Underway, Unmarked, Disk, Installing
  <2> QED BY <2>2, <2>3, <2>4 DEF SupplyInv
<1> QED BY <1>0, <1>1, <1>2, GiveUpKeeps DEF Unpack

LEMMA ChmodKeeps == ASSUME SupplyInv, Chmod PROVE SupplyInv'
<1>0. pc = "chmod" /\ at.home \in Home /\ pc \in Installing /\ manifest # 0
  BY DEF Chmod, SupplyInv, SupplyTypeOK, Underway, Installing
<1>1. "java" \in Present(at.home)
  BY <1>0, AllFiles DEF SupplyInv, InTurn, Built, Present
<1>2. InstalledIsWhole' /\ NoMarkerAhead'
  BY <1>0, BuildingKeeps DEF Chmod, SupplyInv, SupplyTypeOK, Installing
<1>3. SupplyTypeOK' /\ Underway' /\ Unmarked' /\ InTurn'
  BY <1>0, <1>1 DEF SupplyInv, SupplyTypeOK, Underway, Unmarked, InTurn, Built, Chmod, Installing
<1> QED BY <1>2, <1>3 DEF SupplyInv

LEMMA CheckRequiredKeeps == ASSUME SupplyInv, CheckRequired PROVE SupplyInv'
<1>0. pc = "check" /\ pc \in Installing
  BY DEF CheckRequired, Installing
<1>1. CASE GiveUp
  BY <1>0, <1>1, GiveUpKeeps
<1>2. CASE pc' = "mark" /\ UNCHANGED <<at, answer>> /\ Disk
  <2>1. InstalledIsWhole' /\ NoMarkerAhead'
    BY <1>0, <1>2, BuildingKeeps DEF Disk, Installing
  <2>2. SupplyTypeOK' /\ Underway' /\ Unmarked' /\ InTurn'
    BY <1>0, <1>2 DEF SupplyInv, SupplyTypeOK, Underway, Unmarked, InTurn, Built, Disk, Installing
  <2> QED BY <2>1, <2>2 DEF SupplyInv
<1> QED BY <1>1, <1>2 DEF CheckRequired

LEMMA MarkKeeps == ASSUME SupplyInv, Mark PROVE SupplyInv'
<1>0. at.home \in Home /\ pc = "mark" /\ pc' = "fill" /\ answer = NoHome
  BY DEF Mark, SupplyInv, Underway
<1>1. marker' \in [Home -> 0 .. Torn] /\ marker'[at.home] = Torn
      /\ \A h \in Home : h # at.home => marker'[h] = marker[h]
  BY <1>0, Builds DEF SupplyInv, SupplyTypeOK, Mark
<1>3. SupplyTypeOK' /\ Underway'
  BY <1>0, <1>1 DEF SupplyInv, SupplyTypeOK, Underway, Mark, Installing
<1>4. NoMarkerAhead' /\ Unmarked'
  BY <1>0, <1>1 DEF SupplyInv, NoMarkerAhead, Unmarked, Mark
<1>5. InTurn'
  BY <1>0 DEF SupplyInv, InTurn, Built, Mark
<1>2. InstalledIsWhole'
  <2> SUFFICES ASSUME NEW h \in Home, marker'[h] = manifest, h \notin torn
               PROVE  Whole(h)
    BY <1>0 DEF InstalledIsWhole, IsInstalled, Whole, Mark
  <2>1. h # at.home /\ marker[h] = manifest
    BY <1>0, <1>1, Builds DEF SupplyInv, SupplyTypeOK
  <2> QED BY <1>0, <2>1 DEF SupplyInv, InstalledIsWhole, IsInstalled
<1> QED BY <1>2, <1>3, <1>4, <1>5 DEF SupplyInv

LEMMA WriteFailsKeeps == ASSUME SupplyInv, WriteFails PROVE SupplyInv'
<1>1. pc \in Installing /\ GiveUp
  BY DEF WriteFails, Installing
<1> QED BY <1>1, GiveUpKeeps

LEMMA FillKeeps == ASSUME SupplyInv, Fill PROVE SupplyInv'
<1>0. at.home \in Home /\ pc = "fill" /\ pc' = "idle" /\ answer' = at.home
  BY DEF Fill, SupplyInv, Underway
<1>1. Whole(at.home)
  BY <1>0 DEF SupplyInv, InTurn, Built, Whole
<1>3. \A h \in Home : h # at.home => marker'[h] = marker[h]
  BY <1>0 DEF Fill, SupplyInv, SupplyTypeOK
<1>4. marker'[at.home] = manifest
  BY <1>0 DEF Fill, SupplyInv, SupplyTypeOK
<1>2. SupplyTypeOK' /\ Underway' /\ Unmarked' /\ InTurn'
  <2>1. marker' \in [Home -> 0 .. Torn]
    BY <1>0, Builds DEF Fill, SupplyInv, SupplyTypeOK
  <2> QED BY <1>0, <2>1 DEF SupplyInv, SupplyTypeOK, Underway, Unmarked, InTurn, Fill, Installing
<1>6. NoMarkerAhead'
  BY <1>0, <1>3, <1>4, Builds DEF Fill, SupplyInv, SupplyTypeOK, NoMarkerAhead
<1>5. InstalledIsWhole'
  BY <1>0, <1>1, <1>3, <1>4 DEF SupplyInv, InstalledIsWhole, IsInstalled, Whole, Fill
<1> QED BY <1>2, <1>5, <1>6 DEF SupplyInv

-----------------------------------------------------------------------------
(* A call that a kill or a failed removal ends sets its home apart if it   *)
(* was being removed; one cut while it is built has no marker.             *)
LEMMA CutKeeps ==
  ASSUME SupplyInv, pc # "idle", pc' = "idle", answer' = NoHome,
         torn' = IF pc \in Removing THEN torn \cup {at.home} ELSE torn,
         UNCHANGED <<manifest, files, marker, runs, at>>
  PROVE  SupplyInv'
<1>0. at.home \in Home /\ pc \in Removing \cup Installing
  BY DEF SupplyInv, SupplyTypeOK, Underway
<1>3. SupplyTypeOK'
  <2>1. torn' \subseteq Home
    BY <1>0 DEF SupplyInv, SupplyTypeOK
  <2> QED BY <1>0, <2>1 DEF SupplyInv, SupplyTypeOK
<1>1. Underway' /\ NoMarkerAhead' /\ Unmarked' /\ InTurn'
  BY <1>0 DEF SupplyInv, Underway, NoMarkerAhead, Unmarked, InTurn, Installing
<1>2. InstalledIsWhole'
  <2> SUFFICES ASSUME NEW h \in Home, marker[h] = manifest, h \notin torn'
               PROVE  Whole(h)
    BY <1>0 DEF InstalledIsWhole, IsInstalled, Whole
  <2>1. h \notin torn /\ ~(pc \in Removing /\ at.home = h)
    OBVIOUS
  <2> QED BY <2>1 DEF SupplyInv, InstalledIsWhole, IsInstalled, Removing
<1> QED BY <1>1, <1>2, <1>3 DEF SupplyInv

LEMMA KillKeeps == ASSUME SupplyInv, KillManager \/ RemovalFails PROVE SupplyInv'
<1>1. pc # "idle" /\ pc' = "idle" /\ UNCHANGED <<manifest, files, marker, runs, at>>
  BY DEF KillManager, RemovalFails
<1>2. answer' = NoHome /\ torn' = IF pc \in Removing THEN torn \cup {at.home} ELSE torn
  BY DEF KillManager, RemovalFails, Removing, SupplyInv, Underway
<1> QED BY <1>1, <1>2, CutKeeps

(* After an update every home is of a manifest that was. *)
LEMMA UpdateKeeps == ASSUME SupplyInv, Update PROVE SupplyInv'
<1>1. SupplyTypeOK'
  <2>1. manifest' \in 1 .. MaxBuild
    BY Builds DEF SupplyInv, SupplyTypeOK, Update
  <2> QED BY <2>1 DEF SupplyInv, SupplyTypeOK, Update
<1>4. Underway' /\ Unmarked' /\ InTurn'
  BY DEF SupplyInv, Underway, Unmarked, InTurn, Update, Installing
<1>5. NoMarkerAhead'
  BY Builds DEF SupplyInv, SupplyTypeOK, NoMarkerAhead, Update
<1>2. \A h \in Home : marker'[h] # manifest'
  BY Builds DEF SupplyInv, SupplyTypeOK, NoMarkerAhead, Update
<1>3. InstalledIsWhole'
  BY <1>2 DEF InstalledIsWhole, IsInstalled, Update
<1> QED BY <1>1, <1>3, <1>4, <1>5 DEF SupplyInv

LEMMA SupplyKept == SupplyInv /\ [SupplyNext]_supplyVars => SupplyInv'
<1> SUFFICES ASSUME SupplyInv, [SupplyNext]_supplyVars PROVE SupplyInv'
  OBVIOUS
<1>1. CASE SupplyStep
  BY <1>1, UnlinkKeeps, UnlinkedKeeps, FetchKeeps, UnpackKeeps, ChmodKeeps, CheckRequiredKeeps,
     MarkKeeps, FillKeeps, KillKeeps, WriteFailsKeeps DEF SupplyStep
<1>2. CASE KillManager \/ Update
  BY <1>2, KillKeeps, UpdateKeeps
<1>3. CASE SupplyFinished \/ UNCHANGED supplyVars
  <2>1. UNCHANGED supplyVars
    BY <1>3 DEF SupplyFinished
  <2>2. SupplyTypeOK' /\ Underway' /\ NoMarkerAhead' /\ Unmarked'
    BY <2>1 DEF supplyVars, SupplyInv, SupplyTypeOK, Underway, NoMarkerAhead, Unmarked
  <2>3. InTurn'
    BY <2>1 DEF supplyVars, SupplyInv, InTurn, Built
  <2>4. InstalledIsWhole'
    BY <2>1 DEF supplyVars, SupplyInv, InstalledIsWhole, IsInstalled, Whole
  <2> QED BY <2>2, <2>3, <2>4 DEF SupplyInv
<1>4. ASSUME NEW h \in Home, Ensure(h) \/ InstallRuntime(h) \/ ReleaseRuntime(h)
      PROVE  SupplyInv'
  BY <1>4, EnsureKeeps, CallsKeep
<1>5. ASSUME NEW keep \in SUBSET Home, ReleaseUnused(keep) PROVE SupplyInv'
  BY <1>5, ReleaseUnusedKeeps
<1> QED BY <1>1, <1>2, <1>3, <1>4, <1>5 DEF SupplyNext

(* However often homes are installed, released, updated and cut short by   *)
(* kills and failures, a home that the marker vouches for or that a call   *)
(* answered with is whole.                                                 *)
THEOREM InstalledIsWholeHolds == SupplySpec => []InstalledIsWhole
<1>1. SupplyInv => InstalledIsWhole
  BY DEF SupplyInv
<1> QED BY <1>1, SupplyStarts, SupplyKept, PTL DEF SupplySpec

-----------------------------------------------------------------------------
(* BufPool *)

(* What the pools are made of; no idle object is left as it was used.      *)
PoolTypeOK ==
  /\ bucket \in [Bucket -> Seq(Buffer)]
  /\ lease \in [Worker -> Seq(Buffer)]
  /\ idle \in Seq(BOOLEAN)
  /\ object \in [Worker -> Seq(BOOLEAN)]

IdleIsReset == \A k \in DOMAIN idle : ~idle[k]

PoolInv == PoolTypeOK /\ IdleIsReset /\ PoolIsSound

-----------------------------------------------------------------------------
(* The bucket of a capacity is at least as large, and less than twice.     *)
LEMMA BucketIsNear ==
  ASSUME NEW c \in Nat, NEW i \in BucketOf(c)
  PROVE  i \in Bucket /\ c <= Cap[i] /\ Cap[i] < 2 * c
<1>1. i \in Bucket /\ MinCap <= c /\ c <= Cap[i] /\ \A j \in Bucket : c <= Cap[j] => i <= j
  BY DEF BucketOf
<1>2. /\ Cap \in Seq(Nat) /\ Cap[1] >= 16 /\ Len(Cap) \in Nat
      /\ \A j \in 1 .. Len(Cap) - 1 : Cap[j + 1] = 2 * Cap[j]
  BY PoolAssumption
<1>3. \A j \in Bucket : Cap[j] \in Nat
  BY <1>2 DEF Bucket
<1>4. CASE i = 1
  BY <1>1, <1>2, <1>3, <1>4 DEF MinCap
<1>5. CASE i > 1
  <2>1. i - 1 \in Bucket /\ i - 1 \in 1 .. Len(Cap) - 1
    BY <1>1, <1>2, <1>5 DEF Bucket
  <2>2. ~ (c <= Cap[i - 1])
    BY <1>1, <2>1 DEF Bucket
  <2>3. Cap[i] = 2 * Cap[i - 1]
    <3>1. Cap[(i - 1) + 1] = 2 * Cap[i - 1]
      BY <1>2, <2>1
    <3> QED BY <3>1, <1>1 DEF Bucket
  <2> QED BY <1>1, <1>3, <2>1, <2>2, <2>3
<1> QED BY <1>1, <1>4, <1>5 DEF Bucket

LEMMA CapsAreNat == \A i \in Bucket : Cap[i] \in Nat
BY PoolAssumption DEF Bucket

(* The first of a non-empty sequence and the rest keep what holds of all.  *)
LEMMA HeadAndTail ==
  ASSUME NEW S, NEW s \in Seq(S), s # <<>>
  PROVE  /\ Head(s) \in S /\ Tail(s) \in Seq(S) /\ Head(s) = s[1] /\ 1 \in DOMAIN s
         /\ Len(Tail(s)) = Len(s) - 1
         /\ \A k \in DOMAIN Tail(s) : k + 1 \in DOMAIN s /\ Tail(s)[k] = s[k + 1]
OBVIOUS

LEMMA Appended ==
  ASSUME NEW S, NEW s \in Seq(S), NEW x \in S
  PROVE  /\ Append(s, x) \in Seq(S) /\ Len(Append(s, x)) = Len(s) + 1
         /\ \A k \in DOMAIN Append(s, x) :
              (k \in DOMAIN s /\ Append(s, x)[k] = s[k]) \/ Append(s, x)[k] = x
OBVIOUS

LEMMA Single ==
  ASSUME NEW S, NEW x \in S
  PROVE  <<x>> \in Seq(S) /\ \A k \in DOMAIN <<x>> : <<x>>[k] = x
OBVIOUS

-----------------------------------------------------------------------------
(* A lease that holds one clean buffer keeps the leases clean.             *)
Clean(b) == b.old = 0 \/ b.len = 0

LEMMA LeaseKept ==
  ASSUME PoolInv, NEW w \in Worker, NEW b \in Buffer, Clean(b), Leases(w, b),
         UNCHANGED <<idle, object>>
  PROVE  /\ lease' \in [Worker -> Seq(Buffer)] /\ LeaseIsClean'
<1>1. <<b>> \in Seq(Buffer) /\ \A k \in DOMAIN <<b>> : <<b>>[k] = b
  OBVIOUS
<1>2. lease' \in [Worker -> Seq(Buffer)]
  BY <1>1 DEF PoolInv, PoolTypeOK, Leases
<1>3. ASSUME NEW v \in Worker, NEW k \in DOMAIN lease'[v]
      PROVE  lease'[v][k].old = 0 \/ lease'[v][k].len = 0
  <2>1. CASE v = w
    BY <1>1, <1>3, <2>1 DEF PoolInv, PoolTypeOK, Leases, Clean
  <2>2. CASE v # w
    BY <1>3, <2>2 DEF PoolInv, PoolTypeOK, PoolIsSound, LeaseIsClean, Leases
  <2> QED BY <2>1, <2>2
<1> QED BY <1>2, <1>3 DEF PoolInv, PoolIsSound, LeaseIsClean

LEMMA LeaseGivenUp ==
  ASSUME PoolInv, NEW w \in Worker, lease' = [lease EXCEPT ![w] = <<>>],
         UNCHANGED <<idle, object>>
  PROVE  /\ lease' \in [Worker -> Seq(Buffer)] /\ LeaseIsClean'
<1>1. lease' \in [Worker -> Seq(Buffer)]
  BY DEF PoolInv, PoolTypeOK
<1>2. ASSUME NEW v \in Worker, NEW k \in DOMAIN lease'[v]
      PROVE  lease'[v][k].old = 0 \/ lease'[v][k].len = 0
  BY <1>2 DEF PoolInv, PoolTypeOK, PoolIsSound, LeaseIsClean
<1> QED BY <1>1, <1>2 DEF PoolInv, PoolIsSound, LeaseIsClean

LEMMA FreshIsClean == ASSUME NEW c \in Nat PROVE Fresh(c) \in Buffer /\ Clean(Fresh(c))
BY DEF Fresh, Buffer, Clean

-----------------------------------------------------------------------------
LEMMA AcquireKeeps ==
  ASSUME PoolInv, NEW w \in Worker, NEW n \in Request, Acquire(w, n)
  PROVE  PoolInv'
<1>0. n \in Nat
  BY PoolAssumption
<1>1. ASSUME NEW i \in BucketFor(n), bucket[i] = <<>>, Leases(w, Fresh(Cap[i])), UNCHANGED bucket
      PROVE  PoolInv'
  <2>1. i \in Bucket
    BY DEF BucketFor
  <2>2. Fresh(Cap[i]) \in Buffer /\ Clean(Fresh(Cap[i]))
    BY <2>1, CapsAreNat, FreshIsClean
  <2>3. lease' \in [Worker -> Seq(Buffer)] /\ LeaseIsClean'
    BY <2>2, <1>1, LeaseKept DEF Acquire
  <2> QED BY <1>1, <2>3 DEF PoolInv, PoolTypeOK, IdleIsReset, PoolIsSound, BucketsHold, Acquire
<1>2. ASSUME NEW i \in BucketFor(n), bucket[i] # <<>>, Leases(w, Cleared(Head(bucket[i]))),
             bucket' = [bucket EXCEPT ![i] = Tail(@)]
      PROVE  PoolInv'
  <2>1. i \in Bucket /\ bucket[i] \in Seq(Buffer)
    BY DEF BucketFor, PoolInv, PoolTypeOK
  <2>2. /\ Head(bucket[i]) \in Buffer /\ Tail(bucket[i]) \in Seq(Buffer)
        /\ Len(Tail(bucket[i])) = Len(bucket[i]) - 1
        /\ \A k \in DOMAIN Tail(bucket[i]) :
             k + 1 \in DOMAIN bucket[i] /\ Tail(bucket[i])[k] = bucket[i][k + 1]
    BY <1>2, <2>1, HeadAndTail
  <2>3. Cleared(Head(bucket[i])) \in Buffer /\ Clean(Cleared(Head(bucket[i])))
    BY <2>2 DEF Cleared, Buffer, Clean
  <2>4. lease' \in [Worker -> Seq(Buffer)] /\ LeaseIsClean'
    BY <2>3, <1>2, LeaseKept DEF Acquire
  <2>5. bucket' \in [Bucket -> Seq(Buffer)]
    BY <1>2, <2>1, <2>2 DEF PoolInv, PoolTypeOK
  <2>6. BucketsHold'
    <3> SUFFICES ASSUME NEW j \in Bucket
                 PROVE  /\ Len(bucket'[j]) <= MaxIdle
                        /\ \A k \in DOMAIN bucket'[j] :
                             bucket'[j][k].cap <= Cap[j] /\ Cap[j] < 2 * bucket'[j][k].cap
      BY DEF BucketsHold
    <3>1. CASE j # i
      BY <3>1, <1>2, <2>1 DEF PoolInv, PoolTypeOK, PoolIsSound, BucketsHold
    <3>2. CASE j = i
      <4>1. bucket'[j] = Tail(bucket[i])
        BY <3>2, <1>2, <2>1 DEF PoolInv, PoolTypeOK
      <4>2. Len(bucket[i]) <= MaxIdle /\ Len(bucket[i]) \in Nat /\ MaxIdle \in Nat
        BY <2>1, PoolAssumption DEF PoolInv, PoolIsSound, BucketsHold
      <4>3. Len(bucket'[j]) <= MaxIdle
        BY <4>1, <4>2, <2>2
      <4>4. ASSUME NEW k \in DOMAIN bucket'[j]
            PROVE  bucket'[j][k].cap <= Cap[j] /\ Cap[j] < 2 * bucket'[j][k].cap
        <5>1. k + 1 \in DOMAIN bucket[i] /\ bucket'[j][k] = bucket[i][k + 1]
          BY <4>1, <4>4, <2>2
        <5> QED BY <5>1, <3>2, <2>1 DEF PoolInv, PoolIsSound, BucketsHold
      <4> QED BY <4>3, <4>4
    <3> QED BY <3>1, <3>2
  <2> QED BY <1>2, <2>4, <2>5, <2>6 DEF PoolInv, PoolTypeOK, IdleIsReset, PoolIsSound, Acquire
<1>3. ASSUME Leases(w, Fresh(n)), UNCHANGED bucket
      PROVE  PoolInv'
  <2>1. lease' \in [Worker -> Seq(Buffer)] /\ LeaseIsClean'
    BY <1>0, <1>3, FreshIsClean, LeaseKept DEF Acquire
  <2> QED BY <1>3, <2>1 DEF PoolInv, PoolTypeOK, IdleIsReset, PoolIsSound, BucketsHold, Acquire
<1> QED BY <1>1, <1>2, <1>3 DEF Acquire

(* fit and as_mut: what becomes visible is zero or was written by the      *)
(* lease itself.                                                           *)
LEMMA WriteKeeps ==
  ASSUME PoolInv, NEW w \in Worker, NEW n \in Request, Fit(w, n) \/ Grow(w, n)
  PROVE  PoolInv'
<1>0. n \in Nat
  BY PoolAssumption
<1>1. lease[w] # <<>> /\ lease[w] \in Seq(Buffer)
  BY DEF PoolInv, PoolTypeOK, Fit, Grow
<1>2. lease[w][1] \in Buffer /\ Clean(lease[w][1])
  BY <1>1, HeadAndTail DEF PoolInv, PoolIsSound, LeaseIsClean, Clean
<1>3. PICK b \in Buffer : Clean(b) /\ Leases(w, b)
  <2>1. CASE Fit(w, n)
    <3> DEFINE b == lease[w][1]
               f == IF b.cap < n THEN [cap |-> n, len |-> n, old |-> 0]
                    ELSE [b EXCEPT !.len = n, !.old = IF b.len < @ THEN b.len ELSE @]
    <3>1. f \in Buffer /\ Clean(f)
      <4>1. CASE b.cap < n
        BY <1>0, <4>1 DEF Buffer, Clean
      <4>2. CASE ~(b.cap < n)
        <5>1. b \in Buffer /\ b.len \in Nat /\ b.old \in Nat /\ b.cap \in Nat
          BY <1>2 DEF Buffer
        <5>2. f = [cap |-> b.cap, len |-> n, old |-> IF b.len < b.old THEN b.len ELSE b.old]
          BY <1>2, <4>2 DEF Buffer
        <5>3. (IF b.len < b.old THEN b.len ELSE b.old) \in Nat
          BY <5>1
        <5>4. b.old = 0 \/ b.len = 0 => (IF b.len < b.old THEN b.len ELSE b.old) = 0
          BY <5>1
        <5> HIDE DEF b, f
        <5> QED BY <1>0, <1>2, <5>1, <5>2, <5>3, <5>4 DEF Buffer, Clean, b
      <4> QED BY <4>1, <4>2
    <3>2. Leases(w, f)
      BY <2>1 DEF Fit
    <3> QED BY <3>1, <3>2
  <2>2. CASE Grow(w, n)
    <3> DEFINE b == lease[w][1]
               c == IF n < 2 * b.cap THEN 2 * b.cap ELSE n
               g == [cap |-> c, len |-> n, old |-> IF b.len < b.old THEN b.len ELSE b.old]
    <3>1. g \in Buffer /\ Clean(g)
      BY <1>0, <1>2 DEF Buffer, Clean
    <3>2. Leases(w, g)
      BY <2>2 DEF Grow
    <3> QED BY <3>1, <3>2
  <2> QED BY <2>1, <2>2
<1>4. UNCHANGED <<bucket, idle, object>>
  BY DEF Fit, Grow
<1>5. lease' \in [Worker -> Seq(Buffer)] /\ LeaseIsClean'
  BY <1>3, <1>4, LeaseKept
<1> QED BY <1>4, <1>5 DEF PoolInv, PoolTypeOK, IdleIsReset, PoolIsSound, BucketsHold

LEMMA IntoInnerKeeps ==
  ASSUME PoolInv, NEW w \in Worker, IntoInner(w)
  PROVE  PoolInv'
<1>1. lease' \in [Worker -> Seq(Buffer)] /\ LeaseIsClean'
  BY LeaseGivenUp DEF IntoInner
<1> QED BY <1>1 DEF PoolInv, PoolTypeOK, IdleIsReset, PoolIsSound, BucketsHold, IntoInner

LEMMA PutBackKeeps ==
  ASSUME PoolInv, NEW w \in Worker, PutBack(w)
  PROVE  PoolInv'
<1> DEFINE b == lease[w][1]
           c == [b EXCEPT !.old = b.len]
<1>1. lease' \in [Worker -> Seq(Buffer)] /\ LeaseIsClean'
  BY LeaseGivenUp DEF PutBack
<1>2. b \in Buffer /\ c \in Buffer /\ c.cap = b.cap /\ b.cap \in Nat
  <2>1. lease[w] # <<>> /\ lease[w] \in Seq(Buffer)
    BY DEF PoolInv, PoolTypeOK, PutBack
  <2>2. b \in Buffer
    BY <2>1, HeadAndTail
  <2> QED BY <2>2 DEF Buffer
<1>3. ASSUME NEW i \in Bucket
      PROVE  /\ bucket'[i] \in Seq(Buffer) /\ Len(bucket'[i]) <= MaxIdle
             /\ \A k \in DOMAIN bucket'[i] :
                  bucket'[i][k].cap <= Cap[i] /\ Cap[i] < 2 * bucket'[i][k].cap
  <2>1. /\ bucket[i] \in Seq(Buffer) /\ Len(bucket[i]) <= MaxIdle
        /\ \A k \in DOMAIN bucket[i] :
             bucket[i][k].cap <= Cap[i] /\ Cap[i] < 2 * bucket[i][k].cap
    BY DEF PoolInv, PoolTypeOK, PoolIsSound, BucketsHold
  <2>2. CASE i \notin Kept(b)
    <3>1. bucket'[i] = bucket[i]
      BY <2>2 DEF PutBack
    <3> QED BY <2>1, <3>1
  <2>3. CASE i \in Kept(b)
    <3>1. bucket'[i] = Append(bucket[i], c)
      BY <2>3 DEF PutBack
    <3>2. i \in BucketOf(b.cap) /\ Len(bucket[i]) < MaxIdle
      BY <2>3 DEF Kept
    <3>3. c.cap <= Cap[i] /\ Cap[i] < 2 * c.cap
      BY <1>2, <3>2, BucketIsNear
    <3>4. /\ Append(bucket[i], c) \in Seq(Buffer)
          /\ Len(Append(bucket[i], c)) = Len(bucket[i]) + 1
          /\ \A k \in DOMAIN Append(bucket[i], c) :
               \/ k \in DOMAIN bucket[i] /\ Append(bucket[i], c)[k] = bucket[i][k]
               \/ Append(bucket[i], c)[k] = c
      BY <1>2, <2>1, Appended
    <3>5. Len(bucket'[i]) <= MaxIdle
      BY <3>1, <3>2, <3>4, <2>1, PoolAssumption
    <3> QED BY <2>1, <3>1, <3>3, <3>4, <3>5
  <2> QED BY <2>2, <2>3
<1>4. bucket' \in [Bucket -> Seq(Buffer)] /\ BucketsHold'
  <2>1. bucket' = [i \in Bucket |-> bucket'[i]]
    BY DEF PutBack
  <2>2. bucket' \in [Bucket -> Seq(Buffer)]
    BY <1>3, <2>1
  <2> QED BY <1>3, <2>2 DEF BucketsHold
<1> QED BY <1>1, <1>4 DEF PoolInv, PoolTypeOK, IdleIsReset, PoolIsSound, PutBack

-----------------------------------------------------------------------------
LEMMA ObjectKeeps ==
  ASSUME PoolInv, NEW w \in Worker, AcquireObject(w) \/ PutBackObject(w) \/ KeepObject(w)
  PROVE  PoolInv'
<1>1. UNCHANGED <<bucket, lease>>
  BY DEF AcquireObject, PutBackObject, KeepObject
<1>2. idle \in Seq(BOOLEAN) /\ object \in [Worker -> Seq(BOOLEAN)] /\ IdleIsReset
  BY DEF PoolInv, PoolTypeOK
<1>3. \A v \in Worker : \A k \in DOMAIN object[v] : ~object[v][k]
  BY DEF PoolInv, PoolIsSound, LeaseIsClean
<1>4. /\ idle' \in Seq(BOOLEAN) /\ IdleIsReset'
      /\ \/ object' = [object EXCEPT ![w] = <<FALSE>>]
         \/ object' = [object EXCEPT ![w] = <<>>]
  <2>1. CASE AcquireObject(w) /\ idle = <<>>
    BY <1>2, <2>1 DEF AcquireObject, IdleIsReset
  <2>2. CASE AcquireObject(w) /\ idle # <<>>
    <3>1. /\ idle' = Tail(idle) /\ object' = [object EXCEPT ![w] = <<Head(idle)>>]
      BY <2>2 DEF AcquireObject
    <3>2. /\ Head(idle) \in BOOLEAN /\ Head(idle) = idle[1] /\ 1 \in DOMAIN idle
          /\ Tail(idle) \in Seq(BOOLEAN)
          /\ \A k \in DOMAIN Tail(idle) : k + 1 \in DOMAIN idle /\ Tail(idle)[k] = idle[k + 1]
      BY <1>2, <2>2, HeadAndTail
    <3>3. Head(idle) = FALSE
      BY <1>2, <3>2 DEF IdleIsReset
    <3>4. IdleIsReset'
      BY <1>2, <3>1, <3>2 DEF IdleIsReset
    <3> QED BY <3>1, <3>2, <3>3, <3>4
  <2>3. CASE PutBackObject(w)
    <3>1. CASE Len(idle) < MaxIdle
      <4>1. PICK fresh \in BOOLEAN : fresh = FALSE
        OBVIOUS
      <4>2. idle' = Append(idle, fresh) /\ object' = [object EXCEPT ![w] = <<>>]
        BY <2>3, <3>1, <4>1 DEF PutBackObject
      <4>3. /\ Append(idle, fresh) \in Seq(BOOLEAN)
            /\ \A k \in DOMAIN Append(idle, fresh) :
                 (k \in DOMAIN idle /\ Append(idle, fresh)[k] = idle[k]) \/ Append(idle, fresh)[k] = fresh
        <5>1. idle \in Seq(BOOLEAN)
          BY <1>2
        <5> QED BY <4>1, <5>1, Appended
      <4> QED BY <1>2, <4>1, <4>2, <4>3 DEF IdleIsReset
    <3>2. CASE ~(Len(idle) < MaxIdle)
      BY <1>2, <2>3, <3>2 DEF PutBackObject, IdleIsReset
    <3> QED BY <3>1, <3>2
  <2>4. CASE KeepObject(w)
    BY <1>2, <2>4 DEF KeepObject, IdleIsReset
  <2> QED BY <2>1, <2>2, <2>3, <2>4
<1>5. /\ object' \in [Worker -> Seq(BOOLEAN)]
      /\ \A v \in Worker : \A k \in DOMAIN object'[v] : ~object'[v][k]
  <2>1. <<FALSE>> \in Seq(BOOLEAN) /\ <<>> \in Seq(BOOLEAN) /\ \A k \in DOMAIN <<FALSE>> : ~<<FALSE>>[k]
    <3>1. FALSE \in BOOLEAN
      OBVIOUS
    <3>2. <<FALSE>> \in Seq(BOOLEAN) /\ \A k \in DOMAIN <<FALSE>> : <<FALSE>>[k] = FALSE
      BY <3>1, Single, Zenon
    <3>3. <<>> \in Seq(BOOLEAN)
      OBVIOUS
    <3> QED BY <3>2, <3>3, Zenon
  <2>2. \A k \in DOMAIN <<>> : FALSE
    OBVIOUS
  <2> QED BY <1>2, <1>3, <1>4, <2>1, <2>2
<1> QED
  BY <1>1, <1>4, <1>5 DEF PoolInv, PoolTypeOK, PoolIsSound, BucketsHold, LeaseIsClean

-----------------------------------------------------------------------------
(* The strengthened invariant holds in every reachable state.              *)
THEOREM PoolInvariant == PoolSpec => []PoolInv
<1>1. PoolInit => PoolInv
  <2> SUFFICES ASSUME PoolInit PROVE PoolInv
    OBVIOUS
  <2>1. <<>> \in Seq(Buffer) /\ <<>> \in Seq(BOOLEAN) /\ Len(<<>>) = 0 /\ DOMAIN <<>> = {}
    OBVIOUS
  <2> QED BY <2>1, PoolAssumption
        DEF PoolInit, PoolInv, PoolTypeOK, IdleIsReset, PoolIsSound, BucketsHold, LeaseIsClean
<1>2. PoolInv /\ [PoolNext]_poolVars => PoolInv'
  <2> SUFFICES ASSUME PoolInv, [PoolNext]_poolVars PROVE PoolInv'
    OBVIOUS
  <2>1. CASE UNCHANGED poolVars
    BY <2>1 DEF poolVars, PoolInv, PoolTypeOK, IdleIsReset, PoolIsSound, BucketsHold, LeaseIsClean
  <2>2. ASSUME NEW w \in Worker, PoolStep(w) PROVE PoolInv'
    BY <2>2, AcquireKeeps, WriteKeeps, IntoInnerKeeps, PutBackKeeps, ObjectKeeps DEF PoolStep
  <2> QED BY <2>1, <2>2 DEF PoolNext
<1> QED BY <1>1, <1>2, PTL DEF PoolSpec

(* An idle buffer lies in the bucket of its capacity, no bucket exceeds    *)
(* its limit, and no lease shows what an earlier one left behind.          *)
THEOREM PoolIsSoundHolds == PoolSpec => []PoolIsSound
<1>1. PoolInv => PoolIsSound
  BY DEF PoolInv
<1> QED BY <1>1, PoolInvariant, PTL

-----------------------------------------------------------------------------
(* Plugins *)

(* The registry keeps a descriptor under its own id. *)
RegistryOK == \A id \in DOMAIN registry : registry[id] \in Descriptor /\ registry[id].id = id

SizeIn(there, path) == IF path \in MutablePath THEN there[path] ELSE "absent"

PresentOK == present \in [MutablePath -> {"absent", "right", "wrong", "altered"}]

(* A library that a plugin found safe needs is there, or went away since.  *)
SafeOrGone ==
  report.safe => \A lib \in Needed(report.of, report.abi) :
                   \/ Exists(report.of, lib, report.abi)
                   \/ PathOf(report.of, lib, report.abi) \in gone

SafeIsBare == report.safe => ~HasUnsafeName(report.of)

PluginInv == RegistryOK /\ PresentOK /\ SafeOrGone /\ SafeIsBare

LEMMA ApkLibsAreSequences ==
  ASSUME NEW id \in DOMAIN GlLibName
  PROVE  id \in DOMAIN ApkLibs /\ \E S : ApkLibs[id] \in Seq(S)
  <1>1. DOMAIN GlLibName = {"opengles2", "opengles2_ng", "opengles2_vgpu",
                            "opengles3_desktopgl_zink_kopper", "opengles3_angle"}
    BY DEF GlLibName
  <1>2. DOMAIN ApkLibs = DOMAIN GlLibName
    BY <1>1 DEF ApkLibs
  <1>3. CASE id = "opengles2"
    <2>1. ApkLibs[id] \in Seq({"gl4es_114", "glapi", "glxshim"})
      BY <1>3 DEF ApkLibs
    <2> QED BY <1>2, <2>1
  <1>4. CASE id = "opengles2_ng"
    <2>1. ApkLibs[id] \in Seq({"ng_gl4es", "glapi"})
      BY <1>4 DEF ApkLibs
    <2> QED BY <1>2, <2>1
  <1>5. CASE id = "opengles2_vgpu"
    <2>1. ApkLibs[id] \in Seq({"vgpu", "virgl_test_server", "EGL_mesa"})
      BY <1>5 DEF ApkLibs
    <2> QED BY <1>2, <2>1
  <1>6. CASE id = "opengles3_desktopgl_zink_kopper"
    <2>1. ApkLibs[id] \in Seq({"OSMesa_8", "zink_dri", "vulkan_freedreno", "EGL_mesa"})
      BY <1>6 DEF ApkLibs
    <2> QED BY <1>2, <2>1
  <1>7. CASE id = "opengles3_angle"
    <2>1. ApkLibs[id] \in Seq({"GLESv2_angle", "EGL_angle", "spirv-cross-c-shared"})
      BY <1>7 DEF ApkLibs
    <2> QED BY <1>2, <2>1
  <1> QED BY <1>1, <1>3, <1>4, <1>5, <1>6, <1>7

LEMMA PresetFields ==
  ASSUME NEW p \in Preset
  PROVE  LET names == ApkLibs[p.id] IN
         /\ p.id \in DOMAIN GlLibName /\ p.abis = {"arm64"} /\ p.guarded = FALSE
         /\ (\E S : names \in Seq(S)) /\ DOMAIN p.libs = DOMAIN names
         /\ p.libs = [i \in DOMAIN names |->
                        InNativeLibDir(names[i], names[i] # GlLibName[p.id], TRUE)]
  <1>1. PICK id \in DOMAIN GlLibName : p = PresetOf(RendererPlugin(id))
    BY DEF Preset, Builtin
  <1>2. /\ RendererPlugin(id).id = id /\ RendererPlugin(id).guarded = FALSE
    BY DEF RendererPlugin
  <1>3. /\ p.id = id /\ p.abis = {"arm64"} /\ p.guarded = FALSE
        /\ p.libs = [i \in DOMAIN ApkLibs[id] |->
                       InNativeLibDir(ApkLibs[id][i], ApkLibs[id][i] # GlLibName[id], TRUE)]
    BY <1>1, <1>2 DEF PresetOf, RendererPlugin
  <1> QED BY <1>3, ApkLibsAreSequences

LEMMA LibsAreSequence ==
  ASSUME NEW p \in Descriptor PROVE \E S : p.libs \in Seq(S)
  <1>1. CASE p \in Builtin
    <2>1. PICK id : p = RendererPlugin(id)
      BY <1>1 DEF Builtin
    <2> DEFINE lib == InNativeLibDir(GlLibName[id], FALSE, FALSE)
    <2>2. p.libs = <<lib>>
      BY <2>1 DEF RendererPlugin
    <2> HIDE DEF lib
    <2>3. <<lib>> \in Seq({lib})
      OBVIOUS
    <2> QED BY <2>2, <2>3
  <1>2. CASE p \in Foreign
    BY <1>2, ForeignAssumption
  <1>3. CASE p \in Preset
    <2> DEFINE names == ApkLibs[p.id]
               lib(i) == InNativeLibDir(names[i], names[i] # GlLibName[p.id], TRUE)
               S == {lib(i) : i \in DOMAIN names}
    <2>1. (\E T : names \in Seq(T)) /\ p.libs = [i \in DOMAIN names |-> lib(i)]
      BY <1>3, PresetFields
    <2> HIDE DEF names, lib
    <2>2. DOMAIN names = 1 .. Len(names) /\ Len(names) \in Nat
      BY <2>1, Indices
    <2>3. \E n \in Nat : p.libs \in [1 .. n -> S]
      BY <2>1, <2>2
    <2> HIDE DEF S
    <2>4. p.libs \in Seq(S)
      BY <2>3
    <2> QED BY <2>4
  <1> QED BY <1>1, <1>2, <1>3 DEF Descriptor

(* native_libs_for gives some of the libraries of the descriptor.          *)
LEMMA LibsOf ==
  ASSUME NEW p \in Descriptor, NEW abi
  PROVE  /\ \A lib \in LibsFor(p, abi) : \E i \in DOMAIN p.libs : lib = p.libs[i]
         /\ \E S : NativeLibsFor(p, abi) \in Seq(S)
  <1> DEFINE I == {i \in DOMAIN p.libs : p.libs[i].abi \in {"all", abi}}
             r == NativeLibsFor(p, abi)
  <1>1. PICK S : p.libs \in Seq(S)
    BY LibsAreSequence
  <1>2. DOMAIN p.libs = 1 .. Len(p.libs)
    BY <1>1, Indices
  <1>3. I \in SUBSET (1 .. Len(p.libs)) /\ r = Subsequence(p.libs, I)
    BY <1>2 DEF NativeLibsFor
  <1> HIDE DEF I
  <1>4. r \in Seq(S) /\ \E e : Picks(e, r, p.libs, I)
    BY <1>1, <1>3, SubsequencePicks
  <1>5. PICK e : Picks(e, r, p.libs, I)
    BY <1>4
  <1>6. ASSUME NEW lib \in LibsFor(p, abi) PROVE \E i \in DOMAIN p.libs : lib = p.libs[i]
    <2>1. PICK k \in DOMAIN r : lib = r[k]
      BY DEF LibsFor
    <2> HIDE DEF r
    <2>2. k \in 1 .. Len(r)
      BY <1>4, <2>1, Indices
    <2>3. r[k] = p.libs[e[k]] /\ e[k] \in I
      BY <1>5, <2>2 DEF Picks
    <2> QED BY <1>2, <1>3, <2>1, <2>3
  <1> QED BY <1>4, <1>6

(* The resolver gives the directory of each library that is there.         *)
LEMMA DirsOfAll ==
  ASSUME NEW p \in Descriptor, NEW abi, NEW lib \in LibsFor(p, abi), Exists(p, lib, abi)
  PROVE  \E i \in DOMAIN DirsOf(p, abi) : DirsOf(p, abi)[i] = DirOf(p, lib, abi)
  <1> DEFINE libs == NativeLibsFor(p, abi)
             dir(i) == DirOf(p, libs[i], abi)
             there  == {i \in DOMAIN libs : Exists(p, libs[i], abi)}
             I      == {i \in there : \A j \in there : dir(j) = dir(i) => i <= j}
             pushed == Subsequence(libs, I)
  <1>1. DirsOf(p, abi) = [i \in DOMAIN pushed |-> DirOf(p, pushed[i], abi)]
    BY DEF DirsOf
  <1>2. PICK S : libs \in Seq(S)
    BY LibsOf
  <1>3. PICK m \in DOMAIN libs : lib = libs[m]
    BY DEF LibsFor
  <1>4. PICK k \in I : dir(k) = dir(m)
    <2> DEFINE T == {i \in there : dir(i) = dir(m)}
    <2>1. m \in T
      BY <1>3
    <2>2. there \subseteq Nat
      BY <1>2, Indices
    <2> HIDE DEF libs, dir
    <2>3. PICK x \in T : \A y \in T : x <= y
      BY <2>1, <2>2, Least
    <2> HIDE DEF there
    <2>4. x \in I
      BY <2>3
    <2> QED BY <2>3, <2>4
  <1>5. dir(k) = DirOf(p, libs[k], abi) /\ dir(m) = DirOf(p, lib, abi)
    BY <1>3
  <1> HIDE DEF libs, dir
  <1>6. I \in SUBSET (1 .. Len(libs))
    BY <1>2, Indices
  <1> HIDE DEF I
  <1>7. pushed \in Seq(S) /\ \E e : Picks(e, pushed, libs, I)
    BY <1>2, <1>6, SubsequencePicks
  <1> HIDE DEF pushed
  <1>8. PICK e : Picks(e, pushed, libs, I)
    BY <1>7
  <1>9. PICK i \in 1 .. Len(pushed) : e[i] = k
    BY <1>4, <1>8 DEF Picks
  <1>10. i \in DOMAIN pushed /\ pushed[i] = libs[k]
    BY <1>7, <1>8, <1>9, Indices DEF Picks
  <1> QED BY <1>1, <1>4, <1>5, <1>10

-----------------------------------------------------------------------------
LEMMA PluginStarts == PluginInit => PluginInv
  <1> SUFFICES ASSUME PluginInit PROVE PluginInv
    OBVIOUS
  <1>1. PICK preset \in BOOLEAN :
          registry = [id \in DOMAIN GlLibName |->
                        IF preset THEN PresetOf(RendererPlugin(id)) ELSE RendererPlugin(id)]
    <2>1. CASE registry = [id \in DOMAIN GlLibName |-> RendererPlugin(id)]
      BY <2>1
    <2>2. CASE registry = [id \in DOMAIN GlLibName |-> PresetOf(RendererPlugin(id))]
      BY <2>2
    <2> QED BY <2>1, <2>2 DEF PluginInit
  <1>2. RegistryOK
    <2> SUFFICES ASSUME NEW id \in DOMAIN registry
                 PROVE  registry[id] \in Descriptor /\ registry[id].id = id
      BY DEF RegistryOK
    <2>1. id \in DOMAIN GlLibName
      BY <1>1
    <2>2. RendererPlugin(id) \in Builtin /\ PresetOf(RendererPlugin(id)) \in Preset
      BY <2>1 DEF Builtin, Preset
    <2>3. RendererPlugin(id).id = id /\ PresetOf(RendererPlugin(id)).id = id
      BY DEF RendererPlugin, PresetOf
    <2>4. registry[id] = IF preset THEN PresetOf(RendererPlugin(id)) ELSE RendererPlugin(id)
      BY <1>1, <2>1
    <2> QED BY <2>2, <2>3, <2>4 DEF Descriptor
  <1>3. PresentOK
    BY DEF PluginInit, PresentOK
  <1>4. SafeOrGone
    BY DEF PluginInit, SafeOrGone, NoReport
  <1>5. SafeIsBare
    BY DEF PluginInit, SafeIsBare, NoReport
  <1> QED BY <1>2, <1>3, <1>4, <1>5 DEF PluginInv

LEMMA BuiltinIds == ASSUME NEW p \in Preset \cup Foreign PROVE p \in Descriptor
  BY DEF Descriptor

(* validate finds nothing it calls an error: so no library that the plugin *)
(* needs is missing.                                                       *)
LEMMA SafeHasAll ==
  ASSUME NEW p, NEW abi, Errors(Findings(p, abi)) = {}, NEW lib \in Needed(p, abi)
  PROVE  Exists(p, lib, abi)
  <1> SUFFICES ASSUME ~Exists(p, lib, abi) PROVE FALSE
    OBVIOUS
  <1>1. lib \in LibsFor(p, abi) /\ ~lib.optional
    BY DEF Needed
  <1>2. SizeOf(PathOf(p, lib, abi)) = "absent"
    BY DEF Exists
  <1>3. LibFindings(p, lib, abi) = {Finding("error", "missing")}
    BY <1>1, <1>2 DEF LibFindings
  <1>4. Finding("error", "missing") \in Findings(p, abi)
    BY <1>1, <1>3 DEF Findings
  <1>5. Finding("error", "missing").severity = "error"
    BY DEF Finding
  <1> QED BY <1>4, <1>5 DEF Errors

LEMMA SafeHasBareNames ==
  ASSUME NEW p, NEW abi, Errors(Findings(p, abi)) = {}
  PROVE  ~HasUnsafeName(p)
  <1> SUFFICES ASSUME HasUnsafeName(p) PROVE FALSE
    OBVIOUS
  <1>1. Finding("error", "unsafe_name") \in Findings(p, abi)
    BY DEF Findings
  <1>2. Finding("error", "unsafe_name").severity = "error"
    BY DEF Finding
  <1> QED BY <1>1, <1>2 DEF Errors

LEMMA PluginKept == PluginInv /\ [PluginNext]_pluginVars => PluginInv'
  <1> SUFFICES ASSUME PluginInv, [PluginNext]_pluginVars PROVE PluginInv'
    OBVIOUS
  <1> USE DEF PluginInv
  <1>1. ASSUME NEW p \in Preset \cup Foreign, Register(p) PROVE PluginInv'
    <2>1. RegistryOK'
      <3> SUFFICES ASSUME NEW id \in DOMAIN registry'
                   PROVE  registry'[id] \in Descriptor /\ registry'[id].id = id
        BY DEF RegistryOK
      <3>1. id \in DOMAIN registry \cup {p.id}
            /\ registry'[id] = IF id = p.id THEN p ELSE registry[id]
        BY <1>1 DEF Register
      <3> QED BY <3>1, BuiltinIds DEF RegistryOK
    <2>2. PresentOK' /\ SafeOrGone' /\ SafeIsBare'
      BY <1>1 DEF Register, PresentOK, SafeOrGone, Exists, SizeOf, SafeIsBare
    <2> QED BY <2>1, <2>2
  <1>2. ASSUME NEW p \in Foreign, Trust(p) PROVE PluginInv'
    <2>1. UNCHANGED <<registry, present, report, gone>>
      BY <1>2 DEF Trust
    <2> QED BY <2>1 DEF RegistryOK, PresentOK, SafeOrGone, Exists, SizeOf, SafeIsBare
  <1>3. ASSUME NEW id \in Asked, NEW abi \in Abi, Validate(id, abi) PROVE PluginInv'
    <2>1. UNCHANGED <<registry, present>>
      BY <1>3 DEF Validate
    <2>2. SafeOrGone'
      <3>1. SUFFICES ASSUME report'.safe,
                            NEW lib \in Needed(report'.of, report'.abi)
                     PROVE  Exists(report.of, lib, report.abi)'
        BY DEF SafeOrGone
      <3>2. /\ report'.of = registry[id] /\ report'.abi = abi
            /\ Errors(Findings(registry[id], abi)) = {}
        BY <1>3, <3>1 DEF Validate
      <3>3. Exists(registry[id], lib, abi)
        BY <3>1, <3>2, SafeHasAll
      <3> QED BY <2>1, <3>2, <3>3 DEF Exists, SizeOf
    <2>3. SafeIsBare'
      BY <1>3, SafeHasBareNames DEF Validate, SafeIsBare
    <2> QED BY <2>1, <2>2, <2>3 DEF RegistryOK, PresentOK
  <1>4. ASSUME NEW id \in Asked, NEW abi \in Abi, ResolveDirs(id, abi) PROVE PluginInv'
    <2>1. UNCHANGED <<registry, present, report, gone>>
      BY <1>4 DEF ResolveDirs
    <2> QED BY <2>1 DEF RegistryOK, PresentOK, SafeOrGone, Exists, SizeOf, SafeIsBare
  <1>5. ASSUME NEW path \in MutablePath, Withdraw(path) PROVE PluginInv'
    <2>1. /\ UNCHANGED <<registry, report>> /\ present' = [present EXCEPT ![path] = "absent"]
          /\ gone' = gone \cup {q \in {path} : report.safe}
      BY <1>5 DEF Withdraw
    <2>2. RegistryOK' /\ PresentOK' /\ SafeIsBare'
      BY <2>1 DEF RegistryOK, PresentOK, SafeIsBare
    <2>3. SafeOrGone'
      <3> SUFFICES ASSUME report.safe, NEW lib \in Needed(report.of, report.abi)
                   PROVE  \/ Exists(report.of, lib, report.abi)'
                          \/ PathOf(report.of, lib, report.abi) \in gone'
        BY <2>1 DEF SafeOrGone
      <3> DEFINE q == PathOf(report.of, lib, report.abi)
      <3>1. SizeIn(present, q) # "absent" \/ q \in gone
        BY DEF SafeOrGone, Exists, SizeOf, SizeIn
      <3>2. Exists(report.of, lib, report.abi)' <=> SizeIn(present', q) # "absent"
        BY <2>1 DEF Exists, SizeOf, SizeIn
      <3> HIDE DEF q
      <3>3. q # path => SizeIn(present', q) = SizeIn(present, q)
        BY <2>1 DEF SizeIn, PresentOK
      <3>4. q = path => q \in gone'
        BY <2>1 DEF SizeIn, PresentOK
      <3>5. SizeIn(present', q) # "absent" \/ q \in gone'
        BY <2>1, <3>1, <3>3, <3>4
      <3> QED BY <3>2, <3>5 DEF q
    <2> QED BY <2>2, <2>3
  <1>6. ASSUME NEW path \in MutablePath, NEW s \in Sizes[path], Provide(path, s) PROVE PluginInv'
    <2>1. /\ UNCHANGED <<registry, report>> /\ present' = [present EXCEPT ![path] = s]
          /\ gone' = gone \ {path}
      BY <1>6 DEF Provide
    <2>0. s \in {"right", "wrong", "altered"}
      BY <1>6 DEF Sizes
    <2>2. RegistryOK' /\ PresentOK' /\ SafeIsBare'
      BY <2>0, <2>1 DEF RegistryOK, PresentOK, SafeIsBare
    <2>3. SafeOrGone'
      <3> SUFFICES ASSUME report.safe, NEW lib \in Needed(report.of, report.abi)
                   PROVE  \/ Exists(report.of, lib, report.abi)'
                          \/ PathOf(report.of, lib, report.abi) \in gone'
        BY <2>1 DEF SafeOrGone
      <3> DEFINE q == PathOf(report.of, lib, report.abi)
      <3>1. SizeIn(present, q) # "absent" \/ q \in gone
        BY DEF SafeOrGone, Exists, SizeOf, SizeIn
      <3>2. Exists(report.of, lib, report.abi)' <=> SizeIn(present', q) # "absent"
        BY <2>1 DEF Exists, SizeOf, SizeIn
      <3> HIDE DEF q
      <3>3. q # path => SizeIn(present', q) = SizeIn(present, q)
        BY <2>1 DEF SizeIn, PresentOK
      <3>4. q = path => SizeIn(present', q) = s
        BY <2>1 DEF SizeIn, PresentOK
      <3>5. SizeIn(present', q) # "absent" \/ q \in gone'
        BY <2>0, <2>1, <3>1, <3>3, <3>4
      <3> QED BY <3>2, <3>5 DEF q
    <2> QED BY <2>2, <2>3
  <1>7. CASE UNCHANGED pluginVars
    BY <1>7 DEF pluginVars, RegistryOK, PresentOK, SafeOrGone, Exists, SizeOf, SafeIsBare
  <1> QED BY <1>1, <1>2, <1>3, <1>4, <1>5, <1>6, <1>7 DEF PluginNext

(* A preset whose every library the inventory verifies is safe.            *)
LEMMA VerifiedIsSafe ==
  ASSUME PresentOK, NEW p \in Preset,
         \A i \in DOMAIN VerifyNativeLibDir[p.id] : VerifyNativeLibDir[p.id][i] = "Match"
  PROVE  Errors(Findings(p, "arm64")) = {}
  <1> DEFINE names == ApkLibs[p.id]
             There(i) == [dir |-> <<"lib">>, name |-> names[i]]
  <1>1. /\ p.id \in DOMAIN GlLibName /\ p.abis = {"arm64"} /\ p.guarded = FALSE
        /\ DOMAIN p.libs = DOMAIN names
        /\ p.libs = [i \in DOMAIN names |->
                       InNativeLibDir(names[i], names[i] # GlLibName[p.id], TRUE)]
    BY PresetFields
  <1>2. p.id \in DOMAIN ApkLibs
    BY <1>1, ApkLibsAreSequences
  <1>3. ASSUME NEW i \in DOMAIN names PROVE SizeOf(There(i)) = "right"
    <2>1. VerifyOnDisk(There(i)) = "Match"
      BY <1>2, <1>3 DEF VerifyNativeLibDir
    <2> DEFINE path == There(i)
    <2>2. SizeOf(path) \in {"absent", "right", "wrong", "altered"}
      BY DEF SizeOf, PresentOK
    <2> HIDE DEF path
    <2>3. VerifyOnDisk(path) = "Match" => SizeOf(path) = "right"
      BY <2>2 DEF VerifyOnDisk
    <2> QED BY <2>1, <2>3 DEF path
  <1>4. ASSUME NEW lib \in LibsFor(p, "arm64") PROVE LibFindings(p, lib, "arm64") = {}
    <2>1. PICK i \in DOMAIN names :
            lib = InNativeLibDir(names[i], names[i] # GlLibName[p.id], TRUE)
      <3>1. p \in Descriptor
        BY DEF Descriptor
      <3>2. PICK i \in DOMAIN p.libs : lib = p.libs[i]
        BY <1>4, <3>1, LibsOf
      <3> QED BY <1>1, <3>2
    <2>2. PathOf(p, lib, "arm64") = There(i)
      BY <2>1 DEF PathOf, DirOf, InNativeLibDir
    <2> HIDE DEF There
    <2>3. SizeOf(PathOf(p, lib, "arm64")) = "right"
      BY <1>3, <2>2
    <2> QED BY <2>3 DEF LibFindings
  <1>5. SupportsAbi(p, "arm64") /\ ~p.guarded
    BY <1>1 DEF SupportsAbi
  <1>6. ~HasUnsafeName(p)
    <2>1. ASSUME NEW i \in DOMAIN p.libs PROVE p.libs[i].name \notin Pathlike
      <3>1. i \in DOMAIN names /\ p.libs[i].name = names[i]
        BY <1>1, <2>1 DEF InNativeLibDir
      <3> QED BY <1>2, <3>1, BareNames
    <2> QED BY <2>1 DEF HasUnsafeName
  <1>7. Findings(p, "arm64") = {}
    BY <1>4, <1>5, <1>6 DEF Findings
  <1> QED BY <1>7 DEF Errors

(* Directories for a plugin that a report calls safe to load fail to       *)
(* resolve only when a library it needs went away since, those that        *)
(* resolve hold every library it needs, and a preset that the inventory    *)
(* verifies is safe: for every set of foreign descriptors, whatever is     *)
(* registered, trusted, provided and removed, and in any order.            *)
THEOREM SafeResolvesHolds == PluginSpec => SafeResolves
  <1> DEFINE Step ==
        \A id \in Asked \cap DOMAIN registry, abi \in Abi :
          LET p == registry[id] IN
          /\ Judged(id, abi) /\ ResolveDirs(id, abi) =>
               IF resolved' = <<"missing_file">>
                 THEN \E lib \in Needed(p, abi) : PathOf(p, lib, abi) \in gone
                 ELSE \A lib \in Needed(p, abi) :
                        /\ Exists(p, lib, abi) /\ lib.name \notin Pathlike
                        /\ \E i \in DOMAIN resolved'[2] : resolved'[2][i] = DirOf(p, lib, abi)
          /\ abi = "arm64" /\ p \in Preset /\ Validate(id, abi) =>
               LET verified == {VerifyNativeLibDir[id][i] : i \in DOMAIN VerifyNativeLibDir[id]}
               IN  verified \subseteq {"Match"} => report'.safe
  <1>1. PluginInit => PluginInv
    BY PluginStarts
  <1>2. PluginInv /\ [PluginNext]_pluginVars => PluginInv'
    BY PluginKept
  <1>3. PluginInv => Step
    <2> SUFFICES ASSUME PluginInv, NEW id \in Asked \cap DOMAIN registry, NEW abi \in Abi
                 PROVE  LET p == registry[id] IN
          /\ Judged(id, abi) /\ ResolveDirs(id, abi) =>
               IF resolved' = <<"missing_file">>
                 THEN \E lib \in Needed(p, abi) : PathOf(p, lib, abi) \in gone
                 ELSE \A lib \in Needed(p, abi) :
                        /\ Exists(p, lib, abi) /\ lib.name \notin Pathlike
                        /\ \E i \in DOMAIN resolved'[2] : resolved'[2][i] = DirOf(p, lib, abi)
          /\ abi = "arm64" /\ p \in Preset /\ Validate(id, abi) =>
               LET verified == {VerifyNativeLibDir[id][i] : i \in DOMAIN VerifyNativeLibDir[id]}
               IN  verified \subseteq {"Match"} => report'.safe
      OBVIOUS
    <2> DEFINE p == registry[id]
    <2>0. p \in Descriptor /\ p.id = id
      BY DEF PluginInv, RegistryOK
    <2>1. ASSUME ResolveDirs(id, abi), Judged(id, abi), resolved' = <<"missing_file">>
          PROVE  \E lib \in Needed(p, abi) : PathOf(p, lib, abi) \in gone
      <3>1. MissingOf(p, abi) # {}
        <4> SUFFICES ASSUME MissingOf(p, abi) = {} PROVE FALSE
          OBVIOUS
        <4>1. resolved' = <<"dirs", DirsOf(p, abi)>>
          BY <2>1 DEF ResolveDirs
        <4> DEFINE d == DirsOf(p, abi)
        <4> HIDE DEF d
        <4>2. <<"dirs", d>> # <<"missing_file">>
          OBVIOUS
        <4> QED BY <2>1, <4>1, <4>2 DEF d
      <3>2. PICK lib \in Needed(p, abi) : ~Exists(p, lib, abi)
        BY <3>1 DEF MissingOf, Needed
      <3> QED BY <2>1, <3>2 DEF Judged, PluginInv, SafeOrGone
    <2>2. ASSUME ResolveDirs(id, abi), Judged(id, abi), resolved' # <<"missing_file">>,
                 NEW lib \in Needed(p, abi)
          PROVE  /\ Exists(p, lib, abi) /\ lib.name \notin Pathlike
                 /\ \E i \in DOMAIN resolved'[2] : resolved'[2][i] = DirOf(p, lib, abi)
      <3>1. MissingOf(p, abi) = {} /\ resolved'[2] = DirsOf(p, abi)
        BY <2>2 DEF ResolveDirs
      <3>2. lib \in LibsFor(p, abi) /\ Exists(p, lib, abi)
        BY <3>1 DEF MissingOf, Needed
      <3>3. lib.name \notin Pathlike
        <4>1. ~HasUnsafeName(p)
          BY <2>2 DEF Judged, PluginInv, SafeIsBare
        <4> HIDE DEF p
        <4>2. PICK i \in DOMAIN p.libs : lib = p.libs[i]
          BY <2>0, <3>2, LibsOf
        <4> QED BY <4>1, <4>2 DEF HasUnsafeName
      <3> HIDE DEF p
      <3> QED BY <2>0, <3>1, <3>2, <3>3, DirsOfAll
    <2>3. ASSUME Validate(id, abi), p \in Preset,
                 {VerifyNativeLibDir[id][i] : i \in DOMAIN VerifyNativeLibDir[id]}
                   \subseteq {"Match"},
                 abi = "arm64"
          PROVE  report'.safe
      <3>1. \A i \in DOMAIN VerifyNativeLibDir[p.id] : VerifyNativeLibDir[p.id][i] = "Match"
        BY <2>0, <2>3
      <3>2. Errors(Findings(p, "arm64")) = {}
        BY <2>3, <3>1, VerifiedIsSafe DEF PluginInv
      <3> QED BY <2>3, <3>2 DEF Validate
    <2> QED BY <2>1, <2>2, <2>3
  <1>4. PluginInv /\ [PluginNext]_pluginVars => [Step]_pluginVars
    BY <1>3
  <1> QED BY <1>1, <1>2, <1>4, PTL DEF PluginSpec, SafeResolves

-----------------------------------------------------------------------------
(* GameSession *)

Dropping == \E states \in SUBSET {"idle", "watch", "drain", "reap", "done"} : DropFrom(states)

(* What a step of the session does to the process, or leaves it alone.     *)
ProcessStep == Game \/ Pumps \/ Owner \/ Dropping

(* A line in the channel has the stream and the number of a line written:  *)
(* TypeOK says what may be pumped, Marked that a signal is owned up to.    *)
LogShape == log \in [kept : Seq(Line), dropped : Nat]
Marked   == signal # "none" \/ owner \in {"stop", "kill"} => asked \/ owner = "dropped"
GameInv  == TypeOK /\ LogShape /\ LogIsTail /\ Marked

-----------------------------------------------------------------------------
(* A session takes steps of the process and steps that leave it alone.     *)
LEMMA SessionIsProcess ==
  ASSUME [SessionNext]_allVars PROVE ProcessStep \/ UNCHANGED vars
  <1>1. CASE GameStep
    <2>1. CASE Game \/ Pumps
      BY <2>1 DEF ProcessStep
    <2>2. CASE Owner
      BY <2>2 DEF ProcessStep
    <2>3. CASE Supervise
      BY <2>3 DEF Supervise, ProcessStep, Owner, Dropping
    <2> QED BY <1>1, <2>1, <2>2, <2>3 DEF GameStep
  <1>2. CASE Report
    BY <1>2 DEF Report, ReportCrash, EmitCrashEvent
  <1>3. CASE UNCHANGED allVars
    BY <1>3 DEF allVars
  <1> QED BY <1>1, <1>2, <1>3 DEF SessionNext

(* k is what h holds behind its first d elements.                          *)
EndOf(h, d, k) == d + Len(k) = Len(h) /\ \A i \in 1 .. Len(k) : k[i] = h[d + i]

(* An element appended to both leaves the one the end of the other; so it  *)
(* does if the end gives up its first element.                             *)
LEMMA AppendToEnd ==
  ASSUME NEW S, NEW h \in Seq(S), NEW k \in Seq(S), NEW d \in Nat, NEW e \in S, EndOf(h, d, k)
  PROVE  EndOf(Append(h, e), d, Append(k, e))
  <1>1. /\ Len(Append(h, e)) = Len(h) + 1 /\ Len(Append(k, e)) = Len(k) + 1
        /\ Len(h) \in Nat /\ Len(k) \in Nat
    OBVIOUS
  <1>2. ASSUME NEW i \in 1 .. Len(k) + 1 PROVE Append(k, e)[i] = Append(h, e)[d + i]
    <2>1. CASE i = Len(k) + 1
      <3>1. d + i = Len(h) + 1
        BY <2>1 DEF EndOf
      <3>2. Append(h, e)[Len(h) + 1] = e /\ Append(k, e)[Len(k) + 1] = e
        OBVIOUS
      <3> QED BY <2>1, <3>1, <3>2
    <2>2. CASE i \in 1 .. Len(k)
      <3>1. d + i \in 1 .. Len(h)
        BY <2>2 DEF EndOf
      <3>2. Append(k, e)[i] = k[i] /\ Append(h, e)[d + i] = h[d + i]
        BY <2>2, <3>1
      <3> QED BY <2>2, <3>2 DEF EndOf
    <2>3. i = Len(k) + 1 \/ i \in 1 .. Len(k)
      BY <1>1
    <2> QED BY <2>1, <2>2, <2>3
  <1>3. d + (Len(k) + 1) = Len(h) + 1
    BY <1>1 DEF EndOf
  <1> QED BY <1>1, <1>2, <1>3 DEF EndOf

LEMMA TailOfEnd ==
  ASSUME NEW S, NEW h \in Seq(S), NEW k \in Seq(S), NEW d \in Nat, EndOf(h, d, k), k # <<>>
  PROVE  EndOf(h, d + 1, Tail(k))
  <1>1. Tail(k) \in Seq(S) /\ Len(Tail(k)) = Len(k) - 1 /\ Len(k) \in Nat
    OBVIOUS
  <1>2. ASSUME NEW i \in 1 .. Len(k) - 1 PROVE Tail(k)[i] = h[(d + 1) + i]
    <2>1. Tail(k)[i] = k[i + 1]
      OBVIOUS
    <2>2. k[i + 1] = h[d + (i + 1)]
      BY <1>1 DEF EndOf
    <2>3. d + (i + 1) = (d + 1) + i
      OBVIOUS
    <2> QED BY <2>1, <2>2, <2>3
  <1>3. (d + 1) + (Len(k) - 1) = d + Len(k)
    BY <1>1
  <1> QED BY <1>1, <1>2, <1>3 DEF EndOf

LEMMA TailIsEnd ==
  ASSUME LogShape PROVE LogIsTail <=> EndOf(heard, log.dropped, log.kept)
  <1>1. log.kept \in Seq(Line) /\ DOMAIN log.kept = 1 .. Len(log.kept)
    BY DEF LogShape
  <1> QED BY <1>1 DEF LogIsTail, EndOf

(* LogBuffer::push keeps the type and the bound of the buffer, evicts the  *)
(* oldest line and counts it.                                              *)
LEMMA PushKeepsTail ==
  ASSUME GameInv, NEW l \in Line, heard' = Append(heard, l), log' = BufferPush(log, l)
  PROVE  LogShape' /\ LogIsTail' /\ heard' \in Seq(Line)
         /\ log'.kept \in Seq(Line) /\ Len(log'.kept) <= Capacity /\ log'.dropped \in Nat
  <1>1. /\ Capacity \in Nat \ {0} /\ log.kept \in Seq(Line) /\ log.dropped \in Nat
        /\ Len(log.kept) <= Capacity /\ heard \in Seq(Line)
        /\ EndOf(heard, log.dropped, log.kept)
    BY ProcessAssumption, TailIsEnd DEF GameInv, TypeOK, LogShape
  <1>2. heard' \in Seq(Line)
    BY <1>1
  <1>3. CASE Len(log.kept) = Capacity
    <2>1. log' = [kept |-> Append(Tail(log.kept), l), dropped |-> log.dropped + 1]
      BY <1>3 DEF BufferPush
    <2>2. Tail(log.kept) \in Seq(Line) /\ Len(Tail(log.kept)) = Len(log.kept) - 1
      BY <1>1, <1>3
    <2>3. /\ log'.kept = Append(Tail(log.kept), l) /\ log'.dropped = log.dropped + 1
          /\ log'.kept \in Seq(Line) /\ Len(log'.kept) = Capacity /\ log'.dropped \in Nat
      BY <1>1, <1>3, <2>1, <2>2
    <2>4. LogShape'
      BY <2>1, <2>3 DEF LogShape
    <2>5. EndOf(heard, log.dropped + 1, Tail(log.kept))
      BY <1>1, <1>3, TailOfEnd
    <2>6. EndOf(heard', log'.dropped, log'.kept)
      BY <1>1, <2>2, <2>3, <2>5, AppendToEnd
    <2>7. DOMAIN log'.kept = 1 .. Len(log'.kept)
      BY <2>3
    <2>8. LogIsTail'
      BY <2>6, <2>7 DEF LogIsTail, EndOf
    <2> QED BY <1>1, <1>2, <2>3, <2>4, <2>8
  <1>4. CASE Len(log.kept) # Capacity
    <2>1. log' = [kept |-> Append(log.kept, l), dropped |-> log.dropped]
      BY <1>4 DEF BufferPush, GameInv, LogShape
    <2>2. /\ log'.kept = Append(log.kept, l) /\ log'.dropped = log.dropped
          /\ log'.kept \in Seq(Line) /\ Len(log'.kept) = Len(log.kept) + 1
      BY <1>1, <2>1
    <2>3. LogShape'
      BY <1>1, <2>1, <2>2 DEF LogShape
    <2>4. EndOf(heard', log'.dropped, log'.kept)
      BY <1>1, <2>2, AppendToEnd
    <2>5. DOMAIN log'.kept = 1 .. Len(log'.kept)
      BY <2>2
    <2>6. LogIsTail'
      BY <2>4, <2>5 DEF LogIsTail, EndOf
    <2> QED BY <1>1, <1>2, <1>4, <2>2, <2>3, <2>6
  <1> QED BY <1>3, <1>4

(* Record: the line at the head of the channel is heard and retained.      *)
LEMMA RecordKeepsInv ==
  ASSUME GameInv, Record, UNCHANGED owner PROVE GameInv'
  <1>1. Head(channel) \in Line /\ Tail(channel) \in Seq(Line)
    BY DEF GameInv, TypeOK, Record
  <1>2. /\ LogShape' /\ LogIsTail' /\ heard' \in Seq(Line)
        /\ log'.kept \in Seq(Line) /\ Len(log'.kept) <= Capacity /\ log'.dropped \in Nat
    BY <1>1, PushKeepsTail DEF Record
  <1> QED BY <1>1, <1>2 DEF GameInv, TypeOK, Marked, Record, child

-----------------------------------------------------------------------------
LEMMA GameKeepsInv == ASSUME GameInv, Game PROVE GameInv'
  <1> USE DEF GameInv, LogShape, LogIsTail, Marked, view, pipes, child
  <1>1. ASSUME NEW s \in Stream, Write(s) PROVE GameInv'
    <2>1. written[s] + 1 \in 0 .. MaxLines
      BY <1>1, ProcessAssumption DEF TypeOK, Write
    <2> QED BY <1>1, <2>1 DEF TypeOK, Write
  <1>2. CASE CloseOutput \/ HeirExits
    BY <1>2 DEF TypeOK, CloseOutput, HeirExits
  <1>3. ASSUME NEW how \in Ends, End(how) PROVE GameInv'
    BY <1>3 DEF TypeOK, End
  <1>4. "killed" \in Ends
    BY DEF Ends
  <1> QED BY <1>1, <1>2, <1>3, <1>4 DEF Game, Exit, Die

LEMMA PumpsKeepInv == ASSUME GameInv, Pumps PROVE GameInv'
  <1> USE DEF GameInv, LogShape, LogIsTail, Marked, view, pipes, child
  <1>1. ASSUME NEW s \in Stream, Pump(s) PROVE GameInv'
    <2>1. pumped[s] + 1 \in 1 .. MaxLines
      BY <1>1, ProcessAssumption DEF TypeOK, Pump
    <2>2. [stream |-> s, n |-> pumped[s] + 1] \in Line
      BY <2>1 DEF Line
    <2>3. channel' \in Seq(Line)
      BY <1>1, <2>2 DEF TypeOK, Pump
    <2> QED BY <1>1, <2>1, <2>3 DEF TypeOK, Pump
  <1>2. ASSUME NEW s \in Stream, PumpEnds(s) PROVE GameInv'
    BY <1>2 DEF TypeOK, PumpEnds
  <1> QED BY <1>1, <1>2 DEF Pumps

LEMMA OwnerKeepsInv == ASSUME GameInv, Owner PROVE GameInv'
  <1> USE DEF GameInv, LogShape, LogIsTail, Marked, view, pipes, child
  <1>1. CASE NextLine \/ WatchLine
    BY <1>1, RecordKeepsInv DEF NextLine, WatchLine
  <1>2. CASE Watch \/ WatchDropped \/ WatchClosed
    BY <1>2 DEF TypeOK, Watch, WatchDropped, WatchClosed
  <1>3. CASE Reap \/ WatchExit \/ DrainEnds
    BY <1>3 DEF TypeOK, Reap, WatchExit, DrainEnds, Finish
  <1>4. CASE Stop \/ Kill
    BY <1>4 DEF TypeOK, Stop, Kill
  <1>5. CASE StopWorks \/ KillWorks
    BY <1>5 DEF TypeOK, StopWorks, KillWorks
  <1>6. CASE GraceOver
    BY <1>6 DEF TypeOK, GraceOver
  <1>7. CASE Drop
    BY <1>7 DEF TypeOK, Drop, DropFrom
  <1> HIDE DEF GameInv
  <1> QED BY <1>1, <1>2, <1>3, <1>4, <1>5, <1>6, <1>7 DEF Owner, Wait

LEMMA StepKeepsInv == ASSUME GameInv, ProcessStep \/ UNCHANGED vars PROVE GameInv'
  <1> USE DEF GameInv, LogShape, LogIsTail, Marked, view, pipes, child
  <1>1. CASE Dropping
    BY <1>1 DEF TypeOK, Dropping, DropFrom
  <1>2. CASE UNCHANGED vars
    BY <1>2 DEF TypeOK, vars
  <1> HIDE DEF GameInv
  <1> QED BY <1>1, <1>2, GameKeepsInv, PumpsKeepInv, OwnerKeepsInv DEF ProcessStep

(* Every reachable state of a game and its supervision has its type, and   *)
(* the log buffer of process.rs holds the end of what the caller heard     *)
(* with an exact count of the lines dropped.                               *)
THEOREM GameInvariant == SessionSpec => []GameInv
  <1>1. SessionInit => GameInv
    <2> SUFFICES ASSUME Init PROVE GameInv
      BY DEF SessionInit
    <2>1. log.kept = <<>> /\ log.dropped = 0 /\ log \in [kept : Seq(Line), dropped : Nat]
      BY DEF Init
    <2>2. LogIsTail
      BY <2>1 DEF Init, LogIsTail
    <2>3. TypeOK
      <3>1. [s \in Stream |-> 0] \in [Stream -> 0 .. MaxLines]
        BY ProcessAssumption
      <3>2. Len(log.kept) = 0 /\ log.kept \in Seq(Line) /\ channel \in Seq(Line) /\ heard \in Seq(Line)
        BY <2>1 DEF Init
      <3>3. Len(log.kept) <= Capacity
        BY <3>2, ProcessAssumption
      <3>4. /\ written \in [Stream -> 0 .. MaxLines] /\ last \in [Stream -> 0 .. MaxLines]
            /\ pumped \in [Stream -> 0 .. MaxLines]
        BY <3>1 DEF Init
      <3>5. reaped \in BOOLEAN /\ asked \in BOOLEAN
        BY DEF Init
      <3> QED BY <2>1, <3>2, <3>3, <3>4, <3>5 DEF Init, TypeOK
    <2> QED BY <2>1, <2>2, <2>3 DEF Init, GameInv, LogShape, Marked
  <1>2. GameInv /\ [SessionNext]_allVars => GameInv'
    BY SessionIsProcess, StepKeepsInv
  <1> QED BY <1>1, <1>2, PTL DEF SessionSpec

-----------------------------------------------------------------------------
(* Every line a pump sent, heard or still in the channel.                  *)
Sent == heard \o channel
Numbered(s, ls) == \A i \in DOMAIN Of(s, ls) : Of(s, ls)[i].n = i

(* What was sent of each stream is its beginning, as long as it was pumped *)
(* from; a pump ends where its pipe does; the exit is reported when the    *)
(* pipes closed or nothing was left in them.                               *)
Counted(s)  == Len(Of(s, Sent)) = pumped[s] /\ Numbered(s, Sent)
Drained(s)  == s \notin open => writers = {} /\ pumped[s] = written[s]
LastWritten == \A s \in Stream : last[s] <= written[s]
Exited      == owner \in {"drain", "done"} => game # "alive"
FlowInv ==
  /\ LastWritten /\ Exited
  /\ owner # "dropped" => \A s \in Stream : Counted(s) /\ Drained(s)
  /\ owner = "reap" => PipesClosed
  /\ HeardInOrder /\ NothingLostAtExit

(* A line that arrives is counted in its own stream only.                  *)
LEMMA OfAppend ==
  ASSUME NEW s, NEW ls \in Seq(Line), NEW l \in Line
  PROVE  /\ Of(s, ls) \in Seq(Line)
         /\ Of(s, Append(ls, l)) = IF l.stream = s THEN Append(Of(s, ls), l) ELSE Of(s, ls)
  <1> DEFINE I  == {i \in DOMAIN ls : ls[i].stream = s}
             bs == Append(ls, l)
             J  == {i \in DOMAIN bs : bs[i].stream = s}
  <1>1. /\ bs \in Seq(Line) /\ Len(bs) = Len(ls) + 1 /\ bs[Len(ls) + 1] = l
        /\ \A i \in 1 .. Len(ls) : bs[i] = ls[i]
    OBVIOUS
  <1> HIDE DEF bs
  <1>2. DOMAIN bs = 1 .. Len(bs) /\ DOMAIN ls = 1 .. Len(ls) /\ Len(ls) \in Nat
    BY <1>1, Indices
  <1>3. \A i \in 1 .. Len(ls) : i \in I <=> i \in J
    BY <1>1, <1>2
  <1>4. Len(ls) + 1 \in J <=> l.stream = s
    BY <1>1, <1>2
  <1>5. I \in SUBSET (1 .. Len(ls))
    BY <1>2
  <1> HIDE DEF I, J
  <1>6. Subsequence(ls, I) \in Seq(Line)
    BY <1>5, SubsequencePicks
  <1>7. Subsequence(bs, J) =
          IF l.stream = s THEN Append(Subsequence(ls, I), l) ELSE Subsequence(ls, I)
    BY <1>3, <1>4, SubsequenceOfAppend DEF bs
  <1> QED BY <1>6, <1>7 DEF Of, I, J, bs

LEMMA OfGrows ==
  ASSUME NEW s, NEW ls \in Seq(Line), NEW ms \in Seq(Line)
  PROVE  /\ Len(Of(s, ls)) <= Len(Of(s, ls \o ms))
         /\ \A k \in 1 .. Len(Of(s, ls)) : Of(s, ls \o ms)[k] = Of(s, ls)[k]
         /\ Of(s, ls) \in Seq(Line) /\ Of(s, ls \o ms) \in Seq(Line)
  <1> DEFINE I  == {i \in DOMAIN ls : ls[i].stream = s}
             bs == ls \o ms
             J  == {i \in DOMAIN bs : bs[i].stream = s}
  <1>1. /\ bs \in Seq(Line) /\ Len(bs) = Len(ls) + Len(ms)
        /\ \A i \in 1 .. Len(ls) : bs[i] = ls[i]
    OBVIOUS
  <1> HIDE DEF bs
  <1>2. /\ DOMAIN bs = 1 .. Len(bs) /\ DOMAIN ls = 1 .. Len(ls)
        /\ Len(ls) \in Nat /\ Len(ms) \in Nat
    BY <1>1, Indices
  <1>3. \A i \in 1 .. Len(ls) : i \in I <=> i \in J
    BY <1>1, <1>2
  <1>4. I \in SUBSET (1 .. Len(ls)) /\ J \in SUBSET (1 .. Len(bs))
    BY <1>2
  <1> HIDE DEF I, J
  <1>5. Subsequence(ls, I) \in Seq(Line) /\ Subsequence(bs, J) \in Seq(Line)
    BY <1>1, <1>4, SubsequencePicks
  <1>6. /\ Len(Subsequence(ls, I)) <= Len(Subsequence(bs, J))
        /\ \A k \in 1 .. Len(Subsequence(ls, I)) : Subsequence(bs, J)[k] = Subsequence(ls, I)[k]
    BY <1>3, <1>4, SubsequenceGrows DEF bs
  <1> QED BY <1>5, <1>6 DEF Of, I, J, bs

LEMMA BeginningInOrder ==
  ASSUME NEW s, NEW ls \in Seq(Line), NEW ms \in Seq(Line), Numbered(s, ls \o ms)
  PROVE  Numbered(s, ls)
  <1> DEFINE r == Of(s, ls)  q == Of(s, ls \o ms)
  <1>1. /\ Len(r) <= Len(q) /\ \A k \in 1 .. Len(r) : q[k] = r[k]
        /\ r \in Seq(Line) /\ q \in Seq(Line)
    BY OfGrows
  <1> HIDE DEF r, q
  <1>2. DOMAIN r = 1 .. Len(r) /\ DOMAIN q = 1 .. Len(q) /\ Len(r) \in Nat /\ Len(q) \in Nat
    BY <1>1, Indices
  <1>3. \A i \in DOMAIN q : q[i].n = i
    BY DEF Numbered, q
  <1>4. \A i \in DOMAIN r : i \in DOMAIN q
    BY <1>1, <1>2
  <1>5. \A i \in DOMAIN r : r[i].n = i
    BY <1>1, <1>2, <1>3, <1>4
  <1> QED BY <1>5 DEF Numbered, r

(* The line at the head of the channel moves behind those heard.           *)
LEMMA HeadMoves ==
  ASSUME NEW S, NEW h \in Seq(S), NEW q \in Seq(S), q # <<>>
  PROVE  Append(h, Head(q)) \o Tail(q) = h \o q
  <1> DEFINE a == Append(h, Head(q))  t == Tail(q)
  <1>1. /\ a \in Seq(S) /\ t \in Seq(S) /\ Len(a) = Len(h) + 1 /\ Len(t) = Len(q) - 1
        /\ Len(h) \in Nat /\ Len(q) \in Nat /\ Len(q) # 0
        /\ \A i \in 1 .. Len(h) : a[i] = h[i]
        /\ a[Len(h) + 1] = q[1] /\ \A i \in 1 .. Len(t) : t[i] = q[i + 1]
    OBVIOUS
  <1> HIDE DEF a, t
  <1> DEFINE x == a \o t  y == h \o q
  <1>2. /\ x \in Seq(S) /\ y \in Seq(S) /\ Len(x) = Len(h) + Len(q) /\ Len(y) = Len(h) + Len(q)
    <2>1. x \in Seq(S) /\ Len(x) = Len(a) + Len(t)
      BY <1>1, ConcatProperties
    <2>2. y \in Seq(S) /\ Len(y) = Len(h) + Len(q)
      OBVIOUS
    <2> HIDE DEF x, y
    <2> QED BY <1>1, <2>1, <2>2
  <1>3. ASSUME NEW i \in 1 .. Len(h) + Len(q) PROVE x[i] = y[i]
    <2>1. CASE i <= Len(h)
      BY <1>1, <2>1
    <2>2. CASE i = Len(h) + 1
      BY <1>1, <2>2
    <2>3. CASE i > Len(h) + 1
      <3> DEFINE j == i - Len(a)
      <3>1. j \in 1 .. Len(t) /\ i = Len(a) + j /\ i = Len(h) + (j + 1) /\ j + 1 \in 1 .. Len(q)
        BY <1>1, <2>3
      <3> HIDE DEF j
      <3>2. x[i] = t[j]
        BY <1>1, <2>3, <3>1, ConcatProperties
      <3>3. y[i] = q[j + 1]
        BY <3>1
      <3> QED BY <1>1, <3>1, <3>2, <3>3
    <2> QED BY <1>1, <2>1, <2>2, <2>3
  <1> HIDE DEF x, y
  <1>4. x = y
    BY <1>2, <1>3, SeqEqual
  <1> QED BY <1>4 DEF x, y, a, t

-----------------------------------------------------------------------------
(* The owner goes from one wait to another and leaves the lines alone.     *)
LEMMA OwnerMoves ==
  ASSUME FlowInv, UNCHANGED <<game, writers, pipes, heard>>, owner # "dropped",
         owner' # "done", owner' = "reap" => PipesClosed, owner' = "drain" => game # "alive"
  PROVE  FlowInv'
  <1> USE DEF pipes
  <1>1. LastWritten' /\ Exited' /\ HeardInOrder' /\ NothingLostAtExit'
    BY DEF FlowInv, LastWritten, Exited, HeardInOrder, NothingLostAtExit
  <1>2. \A s \in Stream : Counted(s)' /\ Drained(s)'
    BY DEF FlowInv, Counted, Drained, Sent, Numbered
  <1>3. owner' = "reap" => PipesClosed'
    BY DEF PipesClosed
  <1> QED BY <1>1, <1>2, <1>3 DEF FlowInv

(* The exit is reported with an empty channel and nothing left in a pipe.  *)
LEMMA OwnerFinishes ==
  ASSUME GameInv, FlowInv, Finish, UNCHANGED <<game, writers>>, owner # "dropped",
         game # "alive", channel = <<>>, Timely => \A s \in open : pumped[s] = written[s]
  PROVE  FlowInv'
  <1> USE DEF pipes, view
  <1>1. LastWritten' /\ Exited' /\ HeardInOrder'
    BY DEF FlowInv, LastWritten, Exited, HeardInOrder, Finish
  <1>2. \A s \in Stream : Counted(s)' /\ Drained(s)'
    BY DEF FlowInv, Counted, Drained, Sent, Numbered, Finish
  <1>3. heard \in Seq(Line)
    BY DEF GameInv, TypeOK
  <1>4. Sent = heard
    BY <1>3 DEF Sent
  <1>5. ASSUME Timely, NEW s \in Stream PROVE Len(Of(s, heard)) >= last[s]
    <2>1. pumped[s] = written[s]
      BY <1>5 DEF FlowInv, Drained
    <2>2. Len(Of(s, heard)) = written[s]
      BY <1>4, <2>1 DEF FlowInv, Counted
    <2>3. last[s] <= written[s] /\ last[s] \in Nat /\ written[s] \in Nat
      BY ProcessAssumption DEF FlowInv, LastWritten, GameInv, TypeOK
    <2> QED BY <2>2, <2>3
  <1>6. NothingLostAtExit'
    BY <1>5 DEF NothingLostAtExit, Finish
  <1> QED BY <1>1, <1>2, <1>6 DEF FlowInv, Finish

(* A line is heard, which was counted when it was sent.                    *)
LEMMA RecordKeepsFlow ==
  ASSUME GameInv, FlowInv, Record, UNCHANGED owner, owner \in {"idle", "watch", "drain"}
  PROVE  FlowInv'
  <1> USE DEF child
  <1>1. /\ channel \in Seq(Line) /\ heard \in Seq(Line) /\ channel # <<>>
        /\ heard' = Append(heard, Head(channel)) /\ channel' = Tail(channel)
        /\ heard' \in Seq(Line) /\ channel' \in Seq(Line)
    BY DEF GameInv, TypeOK, Record
  <1>2. heard' \o channel' = heard \o channel
    BY <1>1, HeadMoves
  <1>3. \A s \in Stream : Counted(s) /\ Drained(s)
    BY DEF FlowInv
  <1>4. \A s \in Stream : Numbered(s, heard' \o channel')
    BY <1>2, <1>3 DEF Counted, Sent
  <1>5. \A s \in Stream : Counted(s)' /\ Drained(s)'
    BY <1>2, <1>3 DEF Counted, Drained, Sent, Numbered, Record
  <1>6. \A s \in Stream : Numbered(s, heard')
    BY <1>1, <1>4, BeginningInOrder
  <1>7. HeardInOrder'
    BY <1>6 DEF HeardInOrder, Numbered
  <1>8. LastWritten' /\ Exited' /\ NothingLostAtExit'
    BY DEF FlowInv, LastWritten, Exited, NothingLostAtExit, Record
  <1> QED BY <1>5, <1>7, <1>8 DEF FlowInv

LEMMA PumpKeepsFlow ==
  ASSUME GameInv, FlowInv, NEW s \in Stream, Pump(s) PROVE FlowInv'
  <1> USE DEF child, view
  <1> DEFINE l == [stream |-> s, n |-> pumped[s] + 1]
  <1>1. /\ l \in Line /\ channel \in Seq(Line) /\ heard \in Seq(Line)
        /\ pumped \in [Stream -> 0 .. MaxLines] /\ MaxLines \in Nat
    <2>1. pumped[s] + 1 \in 1 .. MaxLines
      BY ProcessAssumption DEF GameInv, TypeOK, Pump
    <2> QED BY <2>1, ProcessAssumption DEF GameInv, TypeOK, Line
  <1>2. Sent' = Append(Sent, l) /\ Sent \in Seq(Line) /\ l.stream = s /\ l.n = pumped[s] + 1
    BY <1>1 DEF Sent, Pump
  <1>3. pumped' = [pumped EXCEPT ![s] = @ + 1] /\ owner # "dropped" /\ s \in open
    BY DEF Pump
  <1>4. \A t \in Stream : Counted(t) /\ Drained(t)
    BY <1>3 DEF FlowInv
  <1> HIDE DEF l
  <1>5. ASSUME NEW t \in Stream PROVE Counted(t)'
    <2>1. /\ Of(t, Sent) \in Seq(Line)
          /\ Of(t, Sent') = IF s = t THEN Append(Of(t, Sent), l) ELSE Of(t, Sent)
      BY <1>1, <1>2, OfAppend
    <2>2. Len(Of(t, Sent)) = pumped[t] /\ \A i \in DOMAIN Of(t, Sent) : Of(t, Sent)[i].n = i
      BY <1>4 DEF Counted, Numbered
    <2> DEFINE r == Of(t, Sent)  q == Of(t, Sent')
    <2> HIDE DEF r, q
    <2>3. CASE s # t
      <3>1. q = r /\ pumped'[t] = pumped[t]
        BY <1>1, <1>3, <2>1, <2>3 DEF q, r
      <3> QED BY <2>2, <3>1 DEF Counted, Numbered, q, r
    <2>4. CASE s = t
      <3>1. q = Append(r, l) /\ r \in Seq(Line)
        BY <2>1, <2>4 DEF q, r
      <3>2. /\ q \in Seq(Line) /\ Len(q) = Len(r) + 1 /\ q[Len(r) + 1] = l
            /\ \A i \in 1 .. Len(r) : q[i] = r[i]
        BY <1>1, <3>1
      <3>3. DOMAIN q = 1 .. Len(r) + 1 /\ DOMAIN r = 1 .. Len(r) /\ Len(r) \in Nat
        BY <3>1, <3>2, Indices
      <3>4. Len(q) = pumped'[t]
        BY <1>1, <1>3, <2>2, <2>4, <3>2 DEF r
      <3>5. \A i \in DOMAIN r : r[i].n = i
        BY <2>2 DEF r
      <3>6. l.n = Len(r) + 1
        BY <1>2, <2>2, <2>4 DEF r
      <3>7. ASSUME NEW i \in DOMAIN q PROVE q[i].n = i
        <4>1. CASE i \in DOMAIN r
          BY <3>2, <3>3, <3>5, <4>1
        <4>2. CASE i = Len(r) + 1
          BY <3>2, <3>6, <4>2
        <4> QED BY <3>3, <4>1, <4>2
      <3> QED BY <3>4, <3>7 DEF Counted, Numbered, q
    <2> QED BY <2>3, <2>4
  <1>6. \A t \in Stream : Drained(t)'
    BY <1>1, <1>3, <1>4 DEF Drained, Pump
  <1>7. LastWritten' /\ Exited' /\ HeardInOrder' /\ NothingLostAtExit'
    BY DEF FlowInv, LastWritten, Exited, HeardInOrder, NothingLostAtExit, Pump
  <1>8. owner # "reap"
    BY <1>3 DEF FlowInv, PipesClosed
  <1> QED BY <1>5, <1>6, <1>7, <1>8 DEF FlowInv, Pump

LEMMA PumpEndsKeepsFlow ==
  ASSUME FlowInv, NEW s \in Stream, PumpEnds(s) PROVE FlowInv'
  <1> USE DEF child, view
  <1>1. LastWritten' /\ Exited' /\ HeardInOrder' /\ NothingLostAtExit'
    BY DEF FlowInv, LastWritten, Exited, HeardInOrder, NothingLostAtExit, PumpEnds
  <1>2. ASSUME owner # "dropped", NEW t \in Stream PROVE Counted(t)' /\ Drained(t)'
    BY <1>2 DEF FlowInv, Counted, Drained, Sent, Numbered, PumpEnds
  <1>3. PipesClosed => PipesClosed'
    BY DEF PipesClosed, PumpEnds
  <1> QED BY <1>1, <1>2, <1>3 DEF FlowInv, PumpEnds

LEMMA GameKeepsFlow == ASSUME GameInv, FlowInv, Game PROVE FlowInv'
  <1> USE DEF child, pipes, view
  <1>1. ASSUME NEW s \in Stream, Write(s) PROVE FlowInv'
    <2>1. written' = [written EXCEPT ![s] = @ + 1] /\ writers # {}
      BY <1>1 DEF Write
    <2>2. \A t \in Stream : last[t] \in Nat /\ written[t] \in Nat /\ last[t] <= written[t]
      BY ProcessAssumption DEF GameInv, TypeOK, FlowInv, LastWritten
    <2>3. LastWritten'
      <3>1. \A t \in Stream : written'[t] = IF t = s THEN written[t] + 1 ELSE written[t]
        BY <2>1 DEF GameInv, TypeOK
      <3>2. last' = last
        BY <1>1 DEF Write
      <3> QED BY <2>2, <3>1, <3>2 DEF LastWritten
    <2>4. Exited' /\ HeardInOrder' /\ NothingLostAtExit' /\ (PipesClosed => PipesClosed')
      BY <1>1 DEF FlowInv, Exited, HeardInOrder, NothingLostAtExit, PipesClosed, Write
    <2>5. ASSUME owner # "dropped", NEW t \in Stream PROVE Counted(t)' /\ Drained(t)'
      BY <1>1, <2>1, <2>5 DEF FlowInv, Counted, Drained, Sent, Numbered, Write
    <2> QED BY <1>1, <2>3, <2>4, <2>5 DEF FlowInv, Write
  <1>2. ASSUME UNCHANGED <<game, pipes, view, owner>>, writers' = {} PROVE FlowInv'
    <2>1. /\ LastWritten' /\ Exited' /\ HeardInOrder' /\ NothingLostAtExit'
          /\ (PipesClosed => PipesClosed')
      BY <1>2 DEF FlowInv, LastWritten, Exited, HeardInOrder, NothingLostAtExit, PipesClosed
    <2>2. ASSUME owner # "dropped", NEW t \in Stream PROVE Counted(t)' /\ Drained(t)'
      BY <1>2, <2>2 DEF FlowInv, Counted, Drained, Sent, Numbered
    <2> QED BY <1>2, <2>1, <2>2 DEF FlowInv
  <1>3. ASSUME NEW how \in Ends, End(how) PROVE FlowInv'
    <2>1. /\ game = "alive" /\ game' # "alive" /\ last' = written /\ owner' = owner
          /\ UNCHANGED <<written, pumped, open, channel, view>>
      BY <1>3 DEF End, Ends
    <2>2. LastWritten'
      <3>1. \A t \in Stream : written[t] \in Nat
        BY ProcessAssumption DEF GameInv, TypeOK
      <3> QED BY <2>1, <3>1 DEF LastWritten
    <2>3. /\ Exited' /\ HeardInOrder' /\ NothingLostAtExit' /\ (PipesClosed => PipesClosed')
      BY <2>1 DEF FlowInv, Exited, HeardInOrder, NothingLostAtExit, PipesClosed
    <2>4. writers = {} => writers' = {}
      BY <1>3 DEF End
    <2>5. ASSUME owner # "dropped", NEW t \in Stream PROVE Counted(t)' /\ Drained(t)'
      BY <2>1, <2>4, <2>5 DEF FlowInv, Counted, Drained, Sent, Numbered
    <2> QED BY <2>1, <2>2, <2>3, <2>5 DEF FlowInv
  <1>4. CASE CloseOutput \/ HeirExits
    BY <1>2, <1>4 DEF CloseOutput, HeirExits
  <1>5. "killed" \in Ends
    BY DEF Ends
  <1> QED BY <1>1, <1>3, <1>4, <1>5 DEF Game, Exit, Die

LEMMA DropKeepsFlow == ASSUME FlowInv, NEW states, DropFrom(states) PROVE FlowInv'
  <1>1. LastWritten' /\ Exited' /\ HeardInOrder' /\ NothingLostAtExit'
    BY DEF FlowInv, LastWritten, Exited, HeardInOrder, NothingLostAtExit, DropFrom, view
  <1> QED BY <1>1 DEF FlowInv, DropFrom

LEMMA OwnerKeepsFlow == ASSUME GameInv, FlowInv, Owner PROVE FlowInv'
  <1> USE DEF child, view
  <1>1. CASE NextLine \/ WatchLine
    BY <1>1, RecordKeepsFlow DEF NextLine, WatchLine
  <1>2. CASE Watch \/ WatchDropped \/ WatchClosed
    BY <1>2, OwnerMoves DEF Watch, WatchDropped, WatchClosed
  <1>3. CASE Reap
    <2>1. channel = <<>> /\ open = {} /\ owner = "reap" /\ game # "alive"
      BY <1>3 DEF Reap, FlowInv, PipesClosed
    <2> QED BY <1>3, <2>1, OwnerFinishes DEF Reap
  <1>4. CASE DrainEnds
    <2>1. owner = "drain" /\ game # "alive" /\ channel = <<>>
      BY <1>4 DEF DrainEnds, FlowInv, Exited
    <2> QED BY <1>4, <2>1, OwnerFinishes DEF DrainEnds
  <1>5. CASE WatchExit
    BY <1>5, OwnerMoves DEF WatchExit
  <1>6. CASE Stop \/ Kill \/ StopWorks \/ KillWorks \/ GraceOver
    BY <1>6, OwnerMoves DEF Stop, Kill, StopWorks, KillWorks, GraceOver
  <1>7. CASE Drop
    BY <1>7, DropKeepsFlow DEF Drop
  <1> QED BY <1>1, <1>2, <1>3, <1>4, <1>5, <1>6, <1>7 DEF Owner, Wait

LEMMA StepKeepsFlow ==
  ASSUME GameInv, FlowInv, ProcessStep \/ UNCHANGED vars PROVE FlowInv'
  <1>1. CASE Pumps
    BY <1>1, PumpKeepsFlow, PumpEndsKeepsFlow DEF Pumps
  <1>2. CASE Dropping
    BY <1>2, DropKeepsFlow DEF Dropping
  <1>3. CASE UNCHANGED vars
    <2>1. UNCHANGED <<game, writers, pipes, heard, owner>>
      BY <1>3 DEF vars, child, view
    <2> QED BY <2>1 DEF FlowInv, LastWritten, Exited, Counted, Drained, Sent, Numbered, PipesClosed,
               HeardInOrder, NothingLostAtExit, pipes
  <1> QED BY <1>1, <1>2, <1>3, GameKeepsFlow, OwnerKeepsFlow DEF ProcessStep

LEMMA FlowStarts == Init => FlowInv
  <1> SUFFICES ASSUME Init PROVE FlowInv
    OBVIOUS
  <1>1. /\ heard = <<>> /\ channel = <<>> /\ open = Stream /\ owner = "idle"
        /\ last = written /\ pumped = [s \in Stream |-> 0] /\ written = [s \in Stream |-> 0]
    BY DEF Init
  <1>2. ASSUME NEW s PROVE Of(s, <<>>) = <<>>
    BY SubsequenceOfEmpty DEF Of
  <1>3. Sent = <<>>
    BY <1>1 DEF Sent
  <1>4. \A s \in Stream : Counted(s) /\ Drained(s)
    <2>1. \A s \in Stream : pumped[s] = 0
      BY <1>1
    <2>2. \A s : Len(Of(s, Sent)) = 0 /\ DOMAIN Of(s, Sent) = {}
      BY <1>2, <1>3
    <2> QED BY <1>1, <2>1, <2>2 DEF Counted, Numbered, Drained
  <1>5. HeardInOrder
    <2>1. \A s : DOMAIN Of(s, heard) = {}
      BY <1>1, <1>2
    <2> QED BY <2>1 DEF HeardInOrder
  <1>6. LastWritten
    BY <1>1 DEF LastWritten
  <1> QED BY <1>1, <1>4, <1>5, <1>6 DEF FlowInv, Exited, NothingLostAtExit

(* What was sent of a stream is its beginning and the channel the rest of  *)
(* what was not heard yet, so that the caller hears each stream from its   *)
(* first line on, in order, whatever it mixes next_line, wait_with, stop   *)
(* and kill.                                                               *)
THEOREM FlowInvariant == SessionSpec => []FlowInv
  <1>1. SessionInit => FlowInv
    BY FlowStarts DEF SessionInit
  <1>2. GameInv /\ FlowInv /\ [SessionNext]_allVars => FlowInv'
    BY SessionIsProcess, StepKeepsFlow
  <1> QED BY <1>1, <1>2, GameInvariant, PTL DEF SessionSpec

(* The lines of the caller and of the log buffer are those of the game.    *)
THEOREM LogIsFaithfulHolds == SessionSpec => []LogIsFaithful
  <1>1. GameInv /\ FlowInv => LogIsFaithful
    BY DEF GameInv, FlowInv, LogIsFaithful
  <1> QED BY <1>1, GameInvariant, FlowInvariant, PTL

(* Every line written before the game ended was heard when its exit is     *)
(* reported: the channel is empty then, and so are the pipes.              *)
THEOREM NothingLostAtExitHolds == SessionSpec => []NothingLostAtExit
  <1>1. FlowInv => NothingLostAtExit
    BY DEF FlowInv
  <1> QED BY <1>1, FlowInvariant, PTL

-----------------------------------------------------------------------------
(* The verdict on a game that was asked to end, whatever it printed.       *)
LEMMA AskedIsNoCrash ==
  ASSUME NEW end, NEW ts
  PROVE  Diagnose(end, ts, TRUE).category \in {"CleanExit", "UserTerminated"}
  BY DEF Diagnose, Category

(* A game its owner signalled is never reported as crashed: stop and kill  *)
(* of process.rs set stop_requested before the signal is sent, and the     *)
(* signal of a drop leaves nobody to report to.                            *)
THEOREM StoppedIsNoCrashHolds == SessionSpec => []StoppedIsNoCrash
  <1>1. GameInv => StoppedIsNoCrash
    <2> SUFFICES ASSUME GameInv, owner = "done", signal # "none"
                 PROVE  Verdict.category \in {"CleanExit", "UserTerminated"}
      BY DEF StoppedIsNoCrash
    <2>1. asked = TRUE
      BY DEF GameInv, TypeOK, Marked
    <2> QED BY <2>1, AskedIsNoCrash DEF Verdict
  <1> QED BY <1>1, GameInvariant, PTL

-----------------------------------------------------------------------------
(* The rules of the diagnosis: twelve, and each named once.                *)
LEMMA RulesAre ==
  /\ Len(Rules) = 12
  /\ \A i, j \in 1 .. 12 : Rules[i] = Rules[j] => i = j
  /\ \A i \in 1 .. 12 : Rules[i] \notin {"Unknown", "CleanExit", "UserTerminated", "KilledBySystem"}
  BY DEF Rules

(* The least number of a set of them.                                      *)
LEMMA MinIs ==
  ASSUME NEW I \in SUBSET Nat, I # {} PROVE Min(I) \in I /\ \A y \in I : Min(I) <= y
  <1>1. PICK x \in I : \A y \in I : x <= y
    BY Least
  <1> QED BY <1>1 DEF Min

(* The rules some line matches.                                            *)
Shown(ts) == {RuleOf(ts[i]) : i \in DOMAIN ts} \ {0}
NamedRule(c) == SelectInSeq(Rules, LAMBDA r : r = c)

LEMMA RuleOfIs == ASSUME NEW t PROVE RuleOf(t) \in 0 .. 12
  <1> DEFINE I == {i \in 1 .. Len(Rules) : Rules[i] \in t.categories}
  <1>1. RuleOf(t) = IF I # {} THEN Min(I) ELSE 0
    BY DEF RuleOf, SelectInSeq
  <1>2. I \in SUBSET Nat /\ I \subseteq 1 .. 12
    BY RulesAre
  <1> HIDE DEF I
  <1>3. CASE I = {}
    BY <1>1, <1>3
  <1>4. CASE I # {}
    <2>1. Min(I) \in I
      BY <1>2, <1>4, MinIs
    <2>2. RuleOf(t) \in 1 .. 12
      BY <1>1, <1>2, <1>4, <2>1
    <2> QED BY <2>2
  <1> QED BY <1>3, <1>4

LEMMA BestIs ==
  ASSUME NEW ts
  PROVE  /\ Shown(ts) = {} => Best(ts) = 0
         /\ Shown(ts) # {} => /\ Best(ts) \in Shown(ts) /\ Best(ts) \in 1 .. 12
                              /\ \A r \in Shown(ts) : Best(ts) <= r
  <1> DEFINE I == {j \in 1 .. Len(Rules) : \E i \in DOMAIN ts :
                     RuleOf(ts[i]) # 0 /\ Rules[RuleOf(ts[i])] = Rules[j]}
  <1>1. Best(ts) = IF I # {} THEN Min(I) ELSE 0
    BY DEF Best, SelectInSeq
  <1>2. \A i \in DOMAIN ts : RuleOf(ts[i]) \in 0 .. 12
    BY RuleOfIs
  <1>3. I = Shown(ts)
    <2>1. ASSUME NEW j \in I PROVE j \in Shown(ts)
      BY <1>2, <2>1, RulesAre DEF Shown
    <2>2. ASSUME NEW j \in Shown(ts) PROVE j \in I
      BY <1>2, <2>2, RulesAre DEF Shown
    <2> QED BY <2>1, <2>2
  <1>4. I \in SUBSET Nat /\ I \subseteq 1 .. 12
    BY RulesAre
  <1> HIDE DEF I
  <1> QED BY <1>1, <1>3, <1>4, MinIs

LEMMA NamedRuleIs ==
  ASSUME NEW c
  PROVE  /\ \A j \in 1 .. 12 : c = Rules[j] => NamedRule(c) = j
         /\ c \in {"Unknown", "CleanExit", "UserTerminated", "KilledBySystem"} => NamedRule(c) = 0
  <1> DEFINE I == {j \in 1 .. Len(Rules) : Rules[j] = c}
  <1>1. NamedRule(c) = IF I # {} THEN Min(I) ELSE 0
    BY DEF NamedRule, SelectInSeq
  <1>2. I \in SUBSET Nat
    BY RulesAre
  <1>3. ASSUME NEW j \in 1 .. 12, c = Rules[j] PROVE I = {j}
    BY <1>3, RulesAre
  <1>4. c \in {"Unknown", "CleanExit", "UserTerminated", "KilledBySystem"} => I = {}
    BY RulesAre
  <1> HIDE DEF I
  <1>5. ASSUME NEW j \in 1 .. 12, c = Rules[j] PROVE NamedRule(c) = j
    <2>1. I # {} /\ \A x \in I : x = j
      BY <1>3, <1>5
    <2> QED BY <1>1, <1>2, <2>1, MinIs
  <1> QED BY <1>1, <1>4, <1>5

(* The evidence is lines of the log.                                       *)
LEMMA EvidenceIsLines ==
  ASSUME NEW T, NEW ts \in Seq(T) PROVE ToSet(Evidence(ts)) \subseteq ToSet(ts)
  <1> DEFINE fresh == {i \in DOMAIN ts : RuleOf(ts[i]) # 0 /\ \A j \in 1 .. i - 1 : ts[j] # ts[i]}
             all   == Subsequence(ts, fresh)
             n     == IF Len(all) < MaxEvidence THEN Len(all) ELSE MaxEvidence
  <1>1. DOMAIN ts = 1 .. Len(ts) /\ fresh \in SUBSET (1 .. Len(ts)) /\ fresh \subseteq DOMAIN ts
    BY Indices
  <1>2. Evidence(ts) = SubSeq(all, 1, n)
    BY DEF Evidence
  <1> HIDE DEF fresh
  <1>3. all \in Seq(T) /\ \E e : Picks(e, all, ts, fresh)
    BY <1>1, SubsequencePicks
  <1>4. PICK e : Picks(e, all, ts, fresh)
    BY <1>3
  <1> HIDE DEF all
  <1>5. Len(all) \in Nat /\ n \in 0 .. Len(all)
    BY <1>3, EvidenceAssumption
  <1> HIDE DEF n
  <1>6. ASSUME NEW k \in 1 .. Len(all) PROVE all[k] \in ToSet(ts)
    <2>1. e[k] \in DOMAIN ts /\ all[k] = ts[e[k]]
      BY <1>1, <1>4 DEF Picks
    <2> QED BY <2>1 DEF ToSet
  <1>7. DOMAIN SubSeq(all, 1, n) = 1 .. n /\ \A k \in 1 .. n : SubSeq(all, 1, n)[k] = all[k]
    BY <1>3, <1>5
  <1>8. \A k \in 1 .. n : k \in 1 .. Len(all)
    BY <1>5
  <1> QED BY <1>2, <1>6, <1>7, <1>8 DEF ToSet

(* The category of a game that did not end cleanly names the first of the  *)
(* rules its lines match, or no rule, or what the signal says.             *)
LEMMA CategoryIsShown ==
  ASSUME NEW ts, NEW end \in Ends \ {"clean"}, NEW a \in BOOLEAN
  PROVE  LET c == Category(end, ts, a) IN
         /\ NamedRule(c) # 0 /\ ~(c = "NativeCrash" /\ end = "crashed") =>
              NamedRule(c) \in Shown(ts) /\ \A r \in Shown(ts) : r >= NamedRule(c)
         /\ c = "Unknown" => Shown(ts) = {}
  <1> DEFINE c == Category(end, ts, a)
  <1>1. \/ c \in {"UserTerminated", "KilledBySystem"}
        \/ end = "crashed" /\ (c = "NativeCrash" \/ c = Named(ts, "NativeCrash"))
        \/ end = "failed" /\ c = Named(ts, "Unknown")
    BY DEF Category, Ends
  <1> HIDE DEF c
  <1>2. ASSUME NEW none, c = Named(ts, none), c # none
        PROVE  /\ NamedRule(c) \in Shown(ts) /\ \A r \in Shown(ts) : r >= NamedRule(c)
               /\ c # "Unknown"
    <2>1. Best(ts) # 0 /\ c = Rules[Best(ts)]
      BY <1>2 DEF Named
    <2>2. /\ Best(ts) \in Shown(ts) /\ Best(ts) \in 1 .. 12
          /\ \A r \in Shown(ts) : Best(ts) <= r
      BY <2>1, BestIs
    <2>3. NamedRule(c) = Best(ts)
      BY <2>1, <2>2, NamedRuleIs
    <2>4. \A r \in Shown(ts) : r \in 0 .. 12
      BY RuleOfIs DEF Shown
    <2> QED BY <2>1, <2>2, <2>3, <2>4, RulesAre
  <1>3. CASE c \in {"UserTerminated", "KilledBySystem"}
    BY <1>3, NamedRuleIs DEF c
  <1>4. CASE c = "NativeCrash" /\ end = "crashed"
    BY <1>4 DEF c
  <1>5. CASE end = "crashed" /\ c = Named(ts, "NativeCrash") /\ c # "NativeCrash"
    BY <1>2, <1>5 DEF c
  <1>6. CASE end = "failed" /\ c = Named(ts, "Unknown") /\ c # "Unknown"
    BY <1>2, <1>6 DEF c
  <1>7. CASE c = "Unknown" /\ c = Named(ts, "Unknown")
    <2>1. Shown(ts) = {}
      <3>1. Best(ts) # 0 => Best(ts) \in 1 .. 12 /\ c = Rules[Best(ts)]
        BY <1>7, BestIs DEF Named
      <3>2. Best(ts) = 0
        BY <1>7, <3>1, RulesAre
      <3>3. 0 \notin Shown(ts)
        BY DEF Shown
      <3> QED BY <3>2, <3>3, BestIs
    <2> QED BY <1>7, <2>1, NamedRuleIs DEF c
  <1> QED BY <1>1, <1>3, <1>4, <1>5, <1>6, <1>7

-----------------------------------------------------------------------------
(* A crash log is made of the lines the buffer retained at the exit of a   *)
(* game that did not end cleanly, and the event of the crash log.          *)
TextSeq == Seq({Says[l] : l \in Line})
Explains(c, end) ==
  \E ts \in TextSeq, a \in BOOLEAN :
     c = [category |-> Category(end, ts, a), evidence |-> Evidence(ts), lines |-> ts]
ReportInv ==
  /\ engine = "waiting" => event = "none"
  /\ engine = "written" => crashlog # <<>>
  /\ \/ crashlog = <<>>
     \/ \E c : /\ crashlog = <<c>> /\ Explains(c, game) /\ game \in Ends \ {"clean"}
               /\ event \in {"none", c.category}

LEMMA ReportKept ==
  ASSUME GameInv, FlowInv, ReportInv, [SessionNext]_allVars PROVE ReportInv'
  <1>1. CASE GameStep
    <2>1. UNCHANGED <<engine, crashlog, event>>
      BY <1>1 DEF GameStep, HearLine
    <2>2. game # "alive" => game' = game
      BY <1>1, SessionIsProcess DEF SessionNext, ProcessStep, Game, Pumps, Owner, Dropping, Wait,
         Write, CloseOutput, Exit, Die, End, HeirExits, Pump, PumpEnds, NextLine, Watch,
         WatchDropped, WatchLine, WatchClosed, Reap, WatchExit, DrainEnds, Stop, StopWorks,
         GraceOver, Kill, KillWorks, Drop, DropFrom, Record, Finish, vars, child
    <2> QED BY <2>1, <2>2 DEF ReportInv, Ends
  <1>2. CASE UNCHANGED allVars
    BY <1>2 DEF allVars, session, vars, child, ReportInv
  <1>3. CASE ReportCrash
    <2>1. UNCHANGED <<game, event>> /\ event = "none"
      BY <1>3 DEF ReportCrash, ReportInv, vars, child
    <2>2. CASE engine' = "returned" /\ UNCHANGED crashlog
      BY <2>1, <2>2 DEF ReportInv
    <2>3. CASE Crashed(Verdict) /\ crashlog' = <<CrashLog(Verdict)>> /\ engine' = "written"
      <3> DEFINE ts == Texts(log.kept)  c == CrashLog(Verdict)
      <3>1. game \in Ends
        BY <1>3 DEF ReportCrash, FlowInv, Exited, GameInv, TypeOK
      <3>2. game # "clean"
        BY <2>3 DEF Crashed, Verdict, Diagnose, Category
      <3>3. ts \in TextSeq
        <4>1. log.kept \in Seq(Line)
          BY DEF GameInv, TypeOK
        <4>2. /\ DOMAIN log.kept = 1 .. Len(log.kept) /\ Len(log.kept) \in Nat
              /\ \A i \in DOMAIN log.kept : log.kept[i] \in Line
          BY <4>1, Indices
        <4> QED BY <4>2 DEF Texts, TextSeq
      <3>4. c = [category |-> Category(game, ts, asked), evidence |-> Evidence(ts), lines |-> ts]
        BY <3>2 DEF CrashLog, Verdict, Diagnose
      <3>5. asked \in BOOLEAN
        BY DEF GameInv, TypeOK
      <3> HIDE DEF ts, c
      <3>6. Explains(c, game)
        BY <3>3, <3>4, <3>5 DEF Explains
      <3>7. crashlog' = <<c>>
        BY <2>3 DEF c
      <3> QED BY <2>1, <2>3, <3>1, <3>2, <3>6, <3>7 DEF ReportInv
    <2> QED BY <1>3, <2>2, <2>3 DEF ReportCrash
  <1>4. CASE EmitCrashEvent
    <2>1. UNCHANGED <<game, crashlog>> /\ crashlog # <<>> /\ engine' = "returned"
      BY <1>4 DEF EmitCrashEvent, ReportInv, vars, child
    <2>2. PICK c : crashlog = <<c>> /\ Explains(c, game) /\ game \in Ends \ {"clean"}
      BY <2>1 DEF ReportInv
    <2>3. event' = c.category
      BY <1>4, <2>2 DEF EmitCrashEvent
    <2> QED BY <2>1, <2>2, <2>3 DEF ReportInv
  <1> QED BY <1>1, <1>2, <1>3, <1>4 DEF SessionNext, Report

(* A crash log shows what its verdict rests on, and the event says what    *)
(* the log says: the lines of both are those the buffer retained, which    *)
(* nothing changes once the exit was reported.                             *)
THEOREM ReportExplainsItselfHolds == SessionSpec => []ReportExplainsItself
  <1>1. SessionInit => ReportInv
    BY DEF SessionInit, ReportInv
  <1>2. SessionSpec => []ReportInv
    BY <1>1, ReportKept, GameInvariant, FlowInvariant, PTL DEF SessionSpec
  <1>3. ReportInv => ReportExplainsItself
    <2> SUFFICES ASSUME ReportInv, NEW c \in ToSet(crashlog)
                 PROVE  /\ ToSet(c.evidence) \subseteq ToSet(c.lines)
                        /\ NamedRule(c.category) # 0 /\ ~(c.category = "NativeCrash" /\ game = "crashed") =>
                             /\ NamedRule(c.category) \in Shown(c.lines)
                             /\ \A r \in Shown(c.lines) : r >= NamedRule(c.category)
                        /\ c.category = "Unknown" => Shown(c.lines) = {}
                        /\ event \in {"none", c.category}
      BY DEF ReportExplainsItself, NamedRule, Shown, SelectInSeq
    <2>1. /\ Explains(c, game) /\ game \in Ends \ {"clean"} /\ event \in {"none", c.category}
      BY DEF ReportInv, ToSet
    <2>2. PICK ts \in TextSeq, a \in BOOLEAN :
            c = [category |-> Category(game, ts, a), evidence |-> Evidence(ts), lines |-> ts]
      BY <2>1 DEF Explains
    <2>3. c.category = Category(game, ts, a) /\ c.evidence = Evidence(ts) /\ c.lines = ts
      BY <2>2
    <2>4. ToSet(Evidence(ts)) \subseteq ToSet(ts)
      BY EvidenceIsLines DEF TextSeq
    <2> QED BY <2>1, <2>3, <2>4, CategoryIsShown
  <1> QED BY <1>2, <1>3, PTL

-----------------------------------------------------------------------------
(* ModFolder.  Versions of one, two and three numbers, compared.           *)
LEMMA Pads ==
  ASSUME NEW w \in Seq(Nat), w # <<>>
  PROVE  /\ Pad(w) \in [1 .. 3 -> Nat]
         /\ Pad(w)[1] = w[1]
         /\ Pad(w)[2] = IF Len(w) >= 2 THEN w[2] ELSE 0
         /\ Pad(w)[3] = IF Len(w) >= 3 THEN w[3] ELSE 0
  <1> DEFINE z == <<0, 0, 0>>
             u == w \o z
             p == SubSeq(u, 1, 3)
  <1>1. Len(w) \in Nat /\ Len(w) >= 1 /\ \A i \in 1 .. Len(w) : w[i] \in Nat
    BY EmptySeq
  <1>2. z \in Seq(Nat) /\ Len(z) = 3 /\ \A i \in 1 .. 3 : z[i] = 0
    OBVIOUS
  <1> HIDE DEF z
  <1>3. /\ u \in Seq(Nat) /\ Len(u) = Len(w) + 3
        /\ \A i \in 1 .. Len(w) + 3 : u[i] = IF i <= Len(w) THEN w[i] ELSE z[i - Len(w)]
    <2>1. /\ u \in Seq(Nat) /\ Len(u) = Len(w) + Len(z)
          /\ \A i \in 1 .. Len(w) + Len(z) : u[i] = IF i <= Len(w) THEN w[i] ELSE z[i - Len(w)]
      BY <1>2, ConcatProperties
    <2> HIDE DEF u
    <2> QED BY <1>2, <2>1
  <1> HIDE DEF u
  <1>4. p \in Seq(Nat) /\ Len(p) = 3 /\ \A i \in 1 .. 3 : p[i] = u[i]
    BY <1>1, <1>3
  <1> HIDE DEF p
  <1>5. p \in [1 .. 3 -> Nat]
    BY <1>4, LenProperties
  <1>6. p[1] = w[1]
    BY <1>1, <1>3, <1>4
  <1>7. p[2] = IF Len(w) >= 2 THEN w[2] ELSE 0
    <2>1. p[2] = IF 2 <= Len(w) THEN w[2] ELSE z[2 - Len(w)]
      BY <1>1, <1>3, <1>4
    <2> QED BY <1>1, <1>2, <2>1
  <1>8. p[3] = IF Len(w) >= 3 THEN w[3] ELSE 0
    <2>1. p[3] = IF 3 <= Len(w) THEN w[3] ELSE z[3 - Len(w)]
      BY <1>1, <1>3, <1>4
    <2> QED BY <1>1, <1>2, <2>1
  <1> QED BY <1>5, <1>6, <1>7, <1>8 DEF Pad, p, u, z

LEMMA Below1 ==
  ASSUME NEW v, NEW w, DOMAIN w = 1 .. 1
  PROVE  Below(v, w) <=> v[1] < w[1]
  BY DEF Below

LEMMA Below2 ==
  ASSUME NEW v, NEW w, DOMAIN w = 1 .. 2
  PROVE  Below(v, w) <=> v[1] < w[1] \/ (v[1] = w[1] /\ v[2] < w[2])
  <1>1. 1 .. 2 = {1, 2} /\ 1 .. 1 - 1 = {} /\ 1 .. 2 - 1 = {1}
    OBVIOUS
  <1> QED BY <1>1 DEF Below

LEMMA Below3 ==
  ASSUME NEW v, NEW w, DOMAIN w = 1 .. 3
  PROVE  Below(v, w) <=> \/ v[1] < w[1]
                         \/ v[1] = w[1] /\ v[2] < w[2]
                         \/ v[1] = w[1] /\ v[2] = w[2] /\ v[3] < w[3]
  <1>1. 1 .. 3 = {1, 2, 3} /\ 1 .. 1 - 1 = {} /\ 1 .. 2 - 1 = {1} /\ 1 .. 3 - 1 = {1, 2}
    OBVIOUS
  <1> QED BY <1>1 DEF Below

LEMMA PrefixOf ==
  ASSUME NEW x \in [1 .. 3 -> Nat], NEW w, IsBound(w)
  PROVE  /\ DOMAIN Prefix(x, w) = 1 .. Len(w)
         /\ \A i \in 1 .. Len(w) : Prefix(x, w)[i] = x[i]
         /\ Prefix(x, w) = w <=> \A i \in 1 .. Len(w) : x[i] = w[i]
  <1> DEFINE p == SubSeq(x, 1, Len(w))
  <1>1. w \in Seq(Nat) /\ Len(w) \in 1 .. 3
    BY DEF IsBound
  <1>4. \A i \in 1 .. Len(w) : x[i] \in Nat
    <2>1. \A l \in 1 .. 3 : \A i \in 1 .. l : i \in 1 .. 3
      OBVIOUS
    <2> QED BY <1>1, <2>1
  <1>2. p \in Seq(Nat) /\ Len(p) = Len(w) /\ \A i \in 1 .. Len(w) : p[i] = x[i]
    <2>1. 1 \in Int /\ Len(w) \in Int /\ 1 <= Len(w) /\ Len(w) - 1 + 1 = Len(w)
      <3>1. \A l \in 1 .. 3 : 1 \in Int /\ l \in Int /\ 1 <= l /\ l - 1 + 1 = l
        OBVIOUS
      <3>2. Len(w) \in 1 .. 3
        BY <1>1
      <3> QED BY <3>1, <3>2, Zenon
    <2>2. /\ p \in Seq(Nat) /\ Len(p) = Len(w)
          /\ \A i \in 1 .. Len(w) - 1 + 1 : p[i] = x[1 + i - 1]
      BY <1>4, <2>1, SubSeqProperties
    <2> HIDE DEF p
    <2>3. \A i \in 1 .. Len(w) : 1 + i - 1 = i
      OBVIOUS
    <2> QED BY <2>1, <2>2, <2>3
  <1> HIDE DEF p
  <1>3. p = w <=> \A i \in 1 .. Len(w) : p[i] = w[i]
    BY <1>1, <1>2, SeqEqual
  <1> QED BY <1>2, <1>3 DEF Prefix, p

(* A comparison with w, by the first version that begins with w and the    *)
(* next of as many numbers.                                                *)
After(w) == Pad([w EXCEPT ![Len(w)] = @ + 1])

LEMMA EndsOf ==
  ASSUME NEW w, IsBound(w)
  PROVE  /\ Pad(w) \in [1 .. 3 -> Nat] /\ After(w) \in [1 .. 3 -> Nat]
         /\ Len(w) = 1 => /\ Pad(w)[1] = w[1] /\ After(w)[1] = w[1] + 1
                          /\ Pad(w)[2] = 0 /\ After(w)[2] = 0
                          /\ Pad(w)[3] = 0 /\ After(w)[3] = 0
         /\ Len(w) = 2 => /\ Pad(w)[1] = w[1] /\ After(w)[1] = w[1]
                          /\ Pad(w)[2] = w[2] /\ After(w)[2] = w[2] + 1
                          /\ Pad(w)[3] = 0 /\ After(w)[3] = 0
         /\ Len(w) = 3 => /\ Pad(w)[1] = w[1] /\ After(w)[1] = w[1]
                          /\ Pad(w)[2] = w[2] /\ After(w)[2] = w[2]
                          /\ Pad(w)[3] = w[3] /\ After(w)[3] = w[3] + 1
  <1> DEFINE n == [w EXCEPT ![Len(w)] = @ + 1]
  <1>1. w \in Seq(Nat) /\ Len(w) \in 1 .. 3 /\ w # <<>> /\ \A i \in 1 .. Len(w) : w[i] \in Nat
    BY DEF IsBound
  <1>2. /\ n \in Seq(Nat) /\ Len(n) = Len(w)
        /\ \A i \in 1 .. Len(w) : n[i] = IF i = Len(w) THEN w[i] + 1 ELSE w[i]
    BY <1>1
  <1> HIDE DEF n
  <1>3. n # <<>>
    BY <1>1, <1>2
  <1>4. /\ Pad(n) \in [1 .. 3 -> Nat]
        /\ Pad(n)[1] = n[1]
        /\ Pad(n)[2] = IF Len(w) >= 2 THEN n[2] ELSE 0
        /\ Pad(n)[3] = IF Len(w) >= 3 THEN n[3] ELSE 0
    BY <1>2, <1>3, Pads
  <1>5. /\ Pad(w) \in [1 .. 3 -> Nat]
        /\ Pad(w)[1] = w[1]
        /\ Pad(w)[2] = IF Len(w) >= 2 THEN w[2] ELSE 0
        /\ Pad(w)[3] = IF Len(w) >= 3 THEN w[3] ELSE 0
    BY <1>1, Pads
  <1>6. After(w) = Pad(n)
    BY DEF After, n
  <1>7. CASE Len(w) = 1
    BY <1>2, <1>4, <1>5, <1>6, <1>7
  <1>8. CASE Len(w) = 2
    BY <1>2, <1>4, <1>5, <1>6, <1>8
  <1>9. CASE Len(w) = 3
    BY <1>2, <1>4, <1>5, <1>6, <1>9
  <1> QED BY <1>1, <1>4, <1>5, <1>6, <1>7, <1>8, <1>9

LEMMA Ordered ==
  ASSUME NEW x \in [1 .. 3 -> Nat], NEW y \in [1 .. 3 -> Nat]
  PROVE  /\ y = x <=> y[1] = x[1] /\ y[2] = x[2] /\ y[3] = x[3]
         /\ Below(y, x) <=> \/ y[1] < x[1]
                            \/ y[1] = x[1] /\ y[2] < x[2]
                            \/ y[1] = x[1] /\ y[2] = x[2] /\ y[3] < x[3]
         /\ Below(x, y) <=> \/ x[1] < y[1]
                            \/ x[1] = y[1] /\ x[2] < y[2]
                            \/ x[1] = y[1] /\ x[2] = y[2] /\ x[3] < y[3]
  <1>1. y = x <=> y[1] = x[1] /\ y[2] = x[2] /\ y[3] = x[3]
    <2>1. y = [i \in 1 .. 3 |-> y[i]] /\ x = [i \in 1 .. 3 |-> x[i]]
      OBVIOUS
    <2>2. 1 .. 3 = {1, 2, 3}
      OBVIOUS
    <2> QED BY <2>1, <2>2
  <1>2. DOMAIN x = 1 .. 3 /\ DOMAIN y = 1 .. 3
    OBVIOUS
  <1> QED BY <1>1, <1>2, Below3

LEMMA Comparisons ==
  ASSUME NEW x \in [1 .. 3 -> Nat], NEW w, IsBound(w)
  PROVE  /\ Compare("=", w, x)  <=> (Pad(w) = x \/ Below(Pad(w), x)) /\ Below(x, After(w))
         /\ Compare("<", w, x)  <=> Below(x, Pad(w))
         /\ Compare(">", w, x)  <=> After(w) = x \/ Below(After(w), x)
         /\ Compare("<=", w, x) <=> Below(x, After(w))
         /\ Compare(">=", w, x) <=> Pad(w) = x \/ Below(Pad(w), x)
  <1> DEFINE lo == Pad(w)
             hi == After(w)
             p  == Prefix(x, w)
  <1>1. w \in Seq(Nat) /\ Len(w) \in 1 .. 3 /\ DOMAIN w = 1 .. Len(w)
        /\ \A i \in 1 .. Len(w) : w[i] \in Nat
    BY DEF IsBound
  <1>2. /\ DOMAIN p = 1 .. Len(w) /\ \A i \in 1 .. Len(w) : p[i] = x[i]
        /\ p = w <=> \A i \in 1 .. Len(w) : x[i] = w[i]
    BY PrefixOf
  <1>3. x[1] \in Nat /\ x[2] \in Nat /\ x[3] \in Nat
    OBVIOUS
  <1>4. lo \in [1 .. 3 -> Nat] /\ hi \in [1 .. 3 -> Nat]
    BY EndsOf
  <1>5. \A y \in [1 .. 3 -> Nat] :
           /\ y = x <=> y[1] = x[1] /\ y[2] = x[2] /\ y[3] = x[3]
           /\ Below(y, x) <=> \/ y[1] < x[1]
                              \/ y[1] = x[1] /\ y[2] < x[2]
                              \/ y[1] = x[1] /\ y[2] = x[2] /\ y[3] < x[3]
           /\ Below(x, y) <=> \/ x[1] < y[1]
                              \/ x[1] = y[1] /\ x[2] < y[2]
                              \/ x[1] = y[1] /\ x[2] = y[2] /\ x[3] < y[3]
    BY Ordered
  <1>6. /\ Compare("=", w, x)  <=> p = w
        /\ Compare("<", w, x)  <=> Below(p, w)
        /\ Compare(">", w, x)  <=> Below(w, p)
        /\ Compare("<=", w, x) <=> p = w \/ Below(p, w)
        /\ Compare(">=", w, x) <=> p = w \/ Below(w, p)
    BY DEF Compare, AtLeast
  <1> DEFINE Ord == /\ p = w <=> (lo = x \/ Below(lo, x)) /\ Below(x, hi)
                    /\ Below(p, w) <=> Below(x, lo)
                    /\ Below(w, p) <=> hi = x \/ Below(hi, x)
                    /\ p = w \/ Below(p, w) <=> Below(x, hi)
                    /\ p = w \/ Below(w, p) <=> lo = x \/ Below(lo, x)
  <1>7. ASSUME Len(w) = 1 PROVE Ord
    <2>1. /\ lo[1] = w[1] /\ lo[2] = 0 /\ lo[3] = 0
          /\ hi[1] = w[1] + 1 /\ hi[2] = 0 /\ hi[3] = 0
      BY <1>7, EndsOf
    <2>2. w[1] \in Nat /\ p[1] = x[1] /\ (p = w <=> x[1] = w[1])
      BY <1>1, <1>2, <1>7
    <2>3. (Below(p, w) <=> x[1] < w[1]) /\ (Below(w, p) <=> w[1] < x[1])
      BY <1>1, <1>2, <1>7, <2>2, Below1
    <2> HIDE DEF lo, hi, p
    <2> QED BY <1>3, <1>4, <1>5, <2>1, <2>2, <2>3
  <1>8. ASSUME Len(w) = 2 PROVE Ord
    <2>1. /\ lo[1] = w[1] /\ lo[2] = w[2] /\ lo[3] = 0
          /\ hi[1] = w[1] /\ hi[2] = w[2] + 1 /\ hi[3] = 0
      BY <1>8, EndsOf
    <2>2. w[1] \in Nat /\ w[2] \in Nat /\ p[1] = x[1] /\ p[2] = x[2]
      BY <1>1, <1>2, <1>8
    <2>3. p = w <=> x[1] = w[1] /\ x[2] = w[2]
      <3>1. 1 .. 2 = {1, 2}
        OBVIOUS
      <3> QED BY <1>2, <1>8, <3>1
    <2>4. /\ Below(p, w) <=> x[1] < w[1] \/ (x[1] = w[1] /\ x[2] < w[2])
          /\ Below(w, p) <=> w[1] < x[1] \/ (w[1] = x[1] /\ w[2] < x[2])
      BY <1>1, <1>2, <1>8, <2>2, Below2
    <2> HIDE DEF lo, hi, p
    <2> QED BY <1>3, <1>4, <1>5, <2>1, <2>2, <2>3, <2>4
  <1>9. ASSUME Len(w) = 3 PROVE Ord
    <2>1. /\ lo[1] = w[1] /\ lo[2] = w[2] /\ lo[3] = w[3]
          /\ hi[1] = w[1] /\ hi[2] = w[2] /\ hi[3] = w[3] + 1
      BY <1>9, EndsOf
    <2>2. /\ w[1] \in Nat /\ w[2] \in Nat /\ w[3] \in Nat
          /\ p[1] = x[1] /\ p[2] = x[2] /\ p[3] = x[3]
      BY <1>1, <1>2, <1>9
    <2>3. p = w <=> x[1] = w[1] /\ x[2] = w[2] /\ x[3] = w[3]
      <3>1. 1 .. 3 = {1, 2, 3}
        OBVIOUS
      <3> QED BY <1>2, <1>9, <3>1
    <2>4. /\ Below(p, w) <=> \/ x[1] < w[1]
                             \/ x[1] = w[1] /\ x[2] < w[2]
                             \/ x[1] = w[1] /\ x[2] = w[2] /\ x[3] < w[3]
          /\ Below(w, p) <=> \/ w[1] < x[1]
                             \/ w[1] = x[1] /\ w[2] < x[2]
                             \/ w[1] = x[1] /\ w[2] = x[2] /\ w[3] < x[3]
      BY <1>1, <1>2, <1>9, <2>2, Below3
    <2> HIDE DEF lo, hi, p
    <2> QED BY <1>3, <1>4, <1>5, <2>1, <2>2, <2>3, <2>4
  <1>10. Ord
    <2> HIDE DEF Ord
    <2> QED BY <1>1, <1>7, <1>8, <1>9
  <1> QED BY <1>6, <1>10

(* A tilde or a caret: from w on, with the numbers of w that are kept.      *)
LEMMA KeptByTilde ==
  ASSUME NEW w, IsBound(w)
  PROVE  /\ IsBound(KeptNumbers("~", w))
         /\ \A i \in 1 .. Len(KeptNumbers("~", w)) : KeptNumbers("~", w)[i] = w[i]
         /\ Len(KeptNumbers("~", w)) = IF Len(w) = 3 THEN 2 ELSE Len(w)
  <1>1. w \in Seq(Nat) /\ Len(w) \in 1 .. 3 /\ \A i \in 1 .. Len(w) : w[i] \in Nat
    BY DEF IsBound
  <1>2. \A a, b \in Nat : /\ <<a, b>> \in Seq(Nat) /\ Len(<<a, b>>) = 2
                          /\ \A i \in 1 .. 2 : <<a, b>>[i] = IF i = 1 THEN a ELSE b
    OBVIOUS
  <1>3. CASE Len(w) = 3
    <2>1. KeptNumbers("~", w) = <<w[1], w[2]>> /\ w[1] \in Nat /\ w[2] \in Nat
      BY <1>1, <1>3 DEF KeptNumbers
    <2>2. \A i \in 1 .. 2 : i = 1 \/ i = 2
      OBVIOUS
    <2> QED BY <1>2, <1>3, <2>1, <2>2 DEF IsBound
  <1>4. CASE Len(w) # 3
    BY <1>1, <1>4 DEF KeptNumbers, IsBound
  <1> QED BY <1>3, <1>4

LEMMA KeptByCaret ==
  ASSUME NEW w, IsBound(w)
  PROVE  /\ IsBound(KeptNumbers("^", w))
         /\ \A i \in 1 .. Len(KeptNumbers("^", w)) : KeptNumbers("^", w)[i] = w[i]
         /\ Len(KeptNumbers("^", w)) = IF w[1] # 0 THEN 1
                                ELSE IF Len(w) > 1 /\ w[2] # 0 THEN 2 ELSE Len(w)
  <1>1. w \in Seq(Nat) /\ Len(w) \in 1 .. 3 /\ \A i \in 1 .. Len(w) : w[i] \in Nat
    BY DEF IsBound
  <1>2. /\ 1 \in 1 .. 3 /\ 2 \in 1 .. 3
        /\ (\A i \in 1 .. 2 : i = 1 \/ i = 2) /\ (\A i \in 1 .. 1 : i = 1)
    OBVIOUS
  <1>3. CASE w[1] # 0
    <2>1. KeptNumbers("^", w) = <<w[1]>> /\ w[1] \in Nat
      BY <1>1, <1>3 DEF KeptNumbers
    <2>2. <<w[1]>> \in Seq(Nat) /\ Len(<<w[1]>>) = 1 /\ <<w[1]>>[1] = w[1]
      BY <2>1
    <2> QED BY <1>2, <1>3, <2>1, <2>2, Zenon DEF IsBound
  <1>4. CASE w[1] = 0 /\ Len(w) > 1 /\ w[2] # 0
    <2>1. KeptNumbers("^", w) = <<w[1], w[2]>> /\ w[1] \in Nat /\ w[2] \in Nat
      BY <1>1, <1>4 DEF KeptNumbers
    <2>2. /\ <<w[1], w[2]>> \in Seq(Nat) /\ Len(<<w[1], w[2]>>) = 2
          /\ <<w[1], w[2]>>[1] = w[1] /\ <<w[1], w[2]>>[2] = w[2]
      BY <2>1
    <2> QED BY <1>2, <1>4, <2>1, <2>2, Zenon DEF IsBound
  <1>5. CASE w[1] = 0 /\ ~(Len(w) > 1 /\ w[2] # 0)
    BY <1>1, <1>5 DEF KeptNumbers, IsBound
  <1> QED BY <1>3, <1>4, <1>5

LEMMA TildeAndCaret ==
  ASSUME NEW x \in [1 .. 3 -> Nat], NEW w, IsBound(w), NEW op \in {"~", "^"}
  PROVE  Compare(op, w, x) <=> /\ Pad(w) = x \/ Below(Pad(w), x)
                               /\ Below(x, After(KeptNumbers(op, w)))
  <1> DEFINE k  == KeptNumbers(op, w)
             lo == Pad(w)
             hi == After(k)
             OnOrAfter == lo = x \/ Below(lo, x)
             Frozen == IF op = "~" THEN \A i \in 1 .. Len(w) : i <= 2 => x[i] = w[i]
                      ELSE \A i \in 1 .. Len(w) :
                             (\A j \in 1 .. i - 1 : w[j] = 0) => x[i] = w[i]
  <1>1. w \in Seq(Nat) /\ Len(w) \in 1 .. 3 /\ \A i \in 1 .. Len(w) : w[i] \in Nat
    BY DEF IsBound
  <1>2. /\ IsBound(k) /\ \A i \in 1 .. Len(k) : k[i] = w[i]
        /\ op = "~" => Len(k) = IF Len(w) = 3 THEN 2 ELSE Len(w)
        /\ op = "^" => Len(k) = IF w[1] # 0 THEN 1
                               ELSE IF Len(w) > 1 /\ w[2] # 0 THEN 2 ELSE Len(w)
    BY KeptByTilde, KeptByCaret
  <1>3. Compare(op, w, x) <=> OnOrAfter /\ Frozen
    <2>1. AtLeast(w, x) <=> OnOrAfter
      BY Comparisons DEF Compare
    <2>2. DOMAIN w = 1 .. Len(w)
      BY <1>1
    <2> HIDE DEF OnOrAfter
    <2> QED BY <2>1, <2>2 DEF Compare
  <1>4. x[1] \in Nat /\ x[2] \in Nat /\ x[3] \in Nat
    OBVIOUS
  <1>5. lo \in [1 .. 3 -> Nat] /\ hi \in [1 .. 3 -> Nat]
    BY <1>2, EndsOf
  <1>6. OnOrAfter <=> \/ lo[1] < x[1]
                      \/ lo[1] = x[1] /\ lo[2] < x[2]
                      \/ lo[1] = x[1] /\ lo[2] = x[2] /\ lo[3] <= x[3]
    <2>1. lo[1] \in Nat /\ lo[2] \in Nat /\ lo[3] \in Nat
      BY <1>5
    <2>2. /\ lo = x <=> lo[1] = x[1] /\ lo[2] = x[2] /\ lo[3] = x[3]
          /\ Below(lo, x) <=> \/ lo[1] < x[1]
                              \/ lo[1] = x[1] /\ lo[2] < x[2]
                              \/ lo[1] = x[1] /\ lo[2] = x[2] /\ lo[3] < x[3]
      BY <1>5, Ordered
    <2> HIDE DEF lo
    <2> QED BY <1>4, <2>1, <2>2
  <1>7. Below(x, hi) <=> \/ x[1] < hi[1]
                         \/ x[1] = hi[1] /\ x[2] < hi[2]
                         \/ x[1] = hi[1] /\ x[2] = hi[2] /\ x[3] < hi[3]
    BY <1>5, Ordered
  <1>8. /\ 1 .. 1 = {1} /\ 1 .. 2 = {1, 2} /\ 1 .. 3 = {1, 2, 3}
        /\ 1 .. 1 - 1 = {} /\ 1 .. 2 - 1 = {1} /\ 1 .. 3 - 1 = {1, 2}
    OBVIOUS
  <1>9. /\ Len(w) = 1 => lo[1] = w[1] /\ lo[2] = 0 /\ lo[3] = 0
        /\ Len(w) = 2 => lo[1] = w[1] /\ lo[2] = w[2] /\ lo[3] = 0
        /\ Len(w) = 3 => lo[1] = w[1] /\ lo[2] = w[2] /\ lo[3] = w[3]
    BY EndsOf
  <1>10. /\ Len(k) = 1 => hi[1] = w[1] + 1 /\ hi[2] = 0 /\ hi[3] = 0
         /\ Len(k) = 2 => hi[1] = w[1] /\ hi[2] = w[2] + 1 /\ hi[3] = 0
         /\ Len(k) = 3 => hi[1] = w[1] /\ hi[2] = w[2] /\ hi[3] = w[3] + 1
    <2> HIDE DEF k
    <2>1. /\ Len(k) = 1 => k[1] = w[1]
          /\ Len(k) = 2 => k[1] = w[1] /\ k[2] = w[2]
          /\ Len(k) = 3 => k[1] = w[1] /\ k[2] = w[2] /\ k[3] = w[3]
      BY <1>2
    <2>2. /\ Len(k) = 1 => hi[1] = k[1] + 1 /\ hi[2] = 0 /\ hi[3] = 0
          /\ Len(k) = 2 => hi[1] = k[1] /\ hi[2] = k[2] + 1 /\ hi[3] = 0
          /\ Len(k) = 3 => hi[1] = k[1] /\ hi[2] = k[2] /\ hi[3] = k[3] + 1
      BY <1>2, EndsOf
    <2> HIDE DEF hi
    <2> QED BY <2>1, <2>2
  <1>11. ASSUME Len(w) = 1 PROVE OnOrAfter /\ Frozen <=> OnOrAfter /\ Below(x, hi)
    <2>1. w[1] \in Nat /\ Len(k) = 1
      BY <1>1, <1>2, <1>11
    <2>2. Frozen <=> x[1] = w[1]
      BY <1>8, <1>11
    <2> HIDE DEF OnOrAfter, Frozen, lo, hi, k
    <2> QED BY <1>4, <1>6, <1>7, <1>9, <1>10, <1>11, <2>1, <2>2
  <1>12. ASSUME Len(w) = 2 PROVE OnOrAfter /\ Frozen <=> OnOrAfter /\ Below(x, hi)
    <2>1. w[1] \in Nat /\ w[2] \in Nat
      BY <1>1, <1>12
    <2>2. Frozen <=> x[1] = w[1] /\ (op = "~" \/ w[1] = 0 => x[2] = w[2])
      BY <1>8, <1>12
    <2>3. Len(k) = IF op = "^" /\ w[1] # 0 THEN 1 ELSE 2
      BY <1>2, <1>12
    <2> HIDE DEF OnOrAfter, Frozen, lo, hi, k
    <2> QED BY <1>4, <1>6, <1>7, <1>9, <1>10, <1>12, <2>1, <2>2, <2>3
  <1>13. ASSUME Len(w) = 3 PROVE OnOrAfter /\ Frozen <=> OnOrAfter /\ Below(x, hi)
    <2>1. w[1] \in Nat /\ w[2] \in Nat /\ w[3] \in Nat
      BY <1>1, <1>13
    <2>2. Frozen <=> /\ x[1] = w[1]
                     /\ op = "~" \/ w[1] = 0 => x[2] = w[2]
                     /\ op = "^" /\ w[1] = 0 /\ w[2] = 0 => x[3] = w[3]
      <3>1. CASE op = "~"
        <4>1. Frozen <=> \A i \in {1, 2, 3} : i <= 2 => x[i] = w[i]
          BY <1>8, <1>13, <3>1
        <4> QED BY <3>1, <4>1
      <3>2. CASE op = "^"
        <4>1. Frozen <=> \A i \in {1, 2, 3} : (\A j \in 1 .. i - 1 : w[j] = 0) => x[i] = w[i]
          BY <1>8, <1>13, <3>2
        <4> HIDE DEF Frozen
        <4> QED BY <1>8, <3>2, <4>1
      <3> QED BY <3>1, <3>2
    <2>3. Len(k) = IF op = "~" THEN 2 ELSE IF w[1] # 0 THEN 1 ELSE IF w[2] # 0 THEN 2 ELSE 3
      BY <1>2, <1>13
    <2> HIDE DEF OnOrAfter, Frozen, lo, hi, k
    <2> QED BY <1>4, <1>6, <1>7, <1>9, <1>10, <1>13, <2>1, <2>2, <2>3
  <1> HIDE DEF OnOrAfter, Frozen, hi
  <1>14. OnOrAfter /\ Frozen <=> OnOrAfter /\ Below(x, hi)
    BY <1>1, <1>11, <1>12, <1>13
  <1> QED BY <1>3, <1>14 DEF OnOrAfter, hi

(* A range is matched exactly by the versions between its ends.            *)
LEMMA MatchesIsWithin ==
  ASSUME NEW v \in Seq(Nat), v # Unversioned, NEW r, IsRange(r), r # NoRange
  PROVE  Matches(r, v) <=> Within(v, r)
  <1> DEFINE x == Pad(v)
  <1>1. x \in [1 .. 3 -> Nat] /\ Coerce(v) = x
    BY Pads DEF Unversioned, Coerce
  <1>2. x # Unversioned
    <2>1. DOMAIN x = 1 .. 3 /\ 1 \in 1 .. 3
      BY <1>1
    <2>2. DOMAIN Unversioned = {}
      BY DEF Unversioned
    <2> HIDE DEF x
    <2> QED BY <2>1, <2>2
  <1>3. Matches(r, v) <=> \A c \in Convert(r) : Compare(c[1], c[2], x)
    BY <1>1, <1>2 DEF Matches
  <1> HIDE DEF x
  <1> DEFINE from(y) == y = x \/ Below(y, x)
             least(w, closed) == from(IF closed THEN Pad(w) ELSE After(w))
             most(w, closed)  == Below(x, IF closed THEN After(w) ELSE Pad(w))
  <1>4. \A w : IsBound(w) =>
           /\ Compare("=", w, x)  <=> least(w, TRUE) /\ most(w, TRUE)
           /\ Compare("<", w, x)  <=> most(w, FALSE)
           /\ Compare(">", w, x)  <=> least(w, FALSE)
           /\ Compare("<=", w, x) <=> most(w, TRUE)
           /\ Compare(">=", w, x) <=> least(w, TRUE)
           /\ Compare("~", w, x)  <=> least(w, TRUE) /\ most(KeptNumbers("~", w), TRUE)
           /\ Compare("^", w, x)  <=> least(w, TRUE) /\ most(KeptNumbers("^", w), TRUE)
    BY <1>1, Comparisons, TildeAndCaret
  <1>5. Within(v, r) <=>
          /\ r.form \in {"bare", "pinned"} => least(r.v, TRUE) /\ most(r.v, TRUE)
          /\ r.form = "op" =>
               /\ r.op \in {"=", ">=", ">", "~", "^"} => least(r.v, r.op # ">")
               /\ r.op \in {"=", "<=", "<"} => most(r.v, r.op # "<")
               /\ r.op \in {"~", "^"} => most(KeptNumbers(r.op, r.v), TRUE)
          /\ r.form = "interval" =>
               /\ r.lo # Unversioned => least(r.lo, r.closedLo)
               /\ r.hi # Unversioned => most(r.hi, r.closedHi)
    BY DEF Within, After, x
  <1>9. \A o, w : (\A c \in {<<o, w>>} : Compare(c[1], c[2], x)) <=> Compare(o, w, x)
    OBVIOUS
  <1> HIDE DEF least, most
  <1>6. CASE r.form \in {"bare", "pinned"} /\ IsBound(r.v)
    <2>1. Convert(r) = {<<"=", r.v>>}
      BY <1>6 DEF Convert
    <2> QED BY <1>3, <1>4, <1>5, <1>6, <1>9, <2>1
  <1>7. CASE r.form = "op" /\ r.op \in Operators /\ IsBound(r.v)
    <2>1. Convert(r) = {<<r.op, r.v>>}
      BY <1>7 DEF Convert
    <2>2. Matches(r, v) <=> Compare(r.op, r.v, x)
      BY <1>3, <1>9, <2>1
    <2>3. CASE r.op = "="
      BY <1>4, <1>5, <1>7, <2>2, <2>3
    <2>4. CASE r.op = "<"
      BY <1>4, <1>5, <1>7, <2>2, <2>4
    <2>5. CASE r.op = ">"
      BY <1>4, <1>5, <1>7, <2>2, <2>5
    <2>6. CASE r.op = "<="
      BY <1>4, <1>5, <1>7, <2>2, <2>6
    <2>7. CASE r.op = ">="
      BY <1>4, <1>5, <1>7, <2>2, <2>7
    <2>8. CASE r.op = "~"
      BY <1>4, <1>5, <1>7, <2>2, <2>8
    <2>9. CASE r.op = "^"
      BY <1>4, <1>5, <1>7, <2>2, <2>9
    <2> QED BY <1>7, <2>3, <2>4, <2>5, <2>6, <2>7, <2>8, <2>9 DEF Operators
  <1>8. CASE /\ r.form = "interval" /\ {r.closedLo, r.closedHi} \subseteq BOOLEAN
             /\ \A w \in {r.lo, r.hi} : w = Unversioned \/ IsBound(w)
    <2> DEFINE L == IF r.lo = Unversioned THEN {}
                    ELSE {<<IF r.closedLo THEN ">=" ELSE ">", r.lo>>}
               H == IF r.hi = Unversioned THEN {}
                    ELSE {<<IF r.closedHi THEN "<=" ELSE "<", r.hi>>}
    <2>1. Convert(r) = L \cup H
      BY <1>8 DEF Convert
    <2>2. (\A c \in L : Compare(c[1], c[2], x)) <=> (r.lo # Unversioned => least(r.lo, r.closedLo))
      <3>1. CASE r.lo = Unversioned
        BY <3>1
      <3>2. CASE r.lo # Unversioned /\ r.closedLo
        <4>1. IsBound(r.lo) /\ L = {<<">=", r.lo>>} /\ r.closedLo = TRUE
          BY <1>8, <3>2
        <4> QED BY <1>4, <1>9, <3>2, <4>1
      <3>3. CASE r.lo # Unversioned /\ ~r.closedLo
        <4>1. IsBound(r.lo) /\ L = {<<">", r.lo>>} /\ r.closedLo = FALSE
          BY <1>8, <3>3
        <4>2. (\A c \in L : Compare(c[1], c[2], x)) <=> Compare(">", r.lo, x)
          BY <1>9, <4>1
        <4>3. Compare(">", r.lo, x) <=> least(r.lo, FALSE)
          BY <1>4, <4>1
        <4>4. least(r.lo, r.closedLo) <=> least(r.lo, FALSE)
          BY <4>1
        <4> QED BY <3>3, <4>2, <4>3, <4>4
      <3> QED BY <3>1, <3>2, <3>3
    <2>3. (\A c \in H : Compare(c[1], c[2], x)) <=> (r.hi # Unversioned => most(r.hi, r.closedHi))
      <3>1. CASE r.hi = Unversioned
        BY <3>1
      <3>2. CASE r.hi # Unversioned /\ r.closedHi
        <4>1. IsBound(r.hi) /\ H = {<<"<=", r.hi>>} /\ r.closedHi = TRUE
          BY <1>8, <3>2
        <4> QED BY <1>4, <1>9, <3>2, <4>1
      <3>3. CASE r.hi # Unversioned /\ ~r.closedHi
        <4>1. IsBound(r.hi) /\ H = {<<"<", r.hi>>} /\ r.closedHi = FALSE
          BY <1>8, <3>3
        <4>2. (\A c \in H : Compare(c[1], c[2], x)) <=> Compare("<", r.hi, x)
          BY <1>9, <4>1
        <4>3. Compare("<", r.hi, x) <=> most(r.hi, FALSE)
          BY <1>4, <4>1
        <4>4. most(r.hi, r.closedHi) <=> most(r.hi, FALSE)
          BY <4>1
        <4> QED BY <3>3, <4>2, <4>3, <4>4
      <3> QED BY <3>1, <3>2, <3>3
    <2> HIDE DEF L, H
    <2>4. Matches(r, v) <=> /\ \A c \in L : Compare(c[1], c[2], x)
                            /\ \A c \in H : Compare(c[1], c[2], x)
      BY <1>3, <2>1
    <2>5. r.form # "op" /\ r.form \notin {"bare", "pinned"}
      BY <1>8
    <2> QED BY <1>5, <1>8, <2>2, <2>3, <2>4, <2>5
  <1>10. CASE r.form = "any"
    <2>1. Convert(r) = {}
      BY <1>10 DEF Convert
    <2> QED BY <1>3, <1>5, <1>10, <2>1
  <1>11. \/ r.form = "any"
         \/ r.form \in {"bare", "pinned"} /\ IsBound(r.v)
         \/ r.form = "op" /\ r.op \in Operators /\ IsBound(r.v)
         \/ /\ r.form = "interval" /\ {r.closedLo, r.closedHi} \subseteq BOOLEAN
            /\ \A w \in {r.lo, r.hi} : w = Unversioned \/ IsBound(w)
    BY DEF IsRange, RangeOver
  <1> QED BY <1>6, <1>7, <1>8, <1>10, <1>11

LEMMA FitsIsWithin ==
  ASSUME NEW v \in Seq(Nat), NEW r, IsRange(r)
  PROVE  Fits(v, r) <=> r = NoRange \/ Within(v, r)
  <1>1. v = Unversioned => ~Within(v, r)
    BY DEF Within
  <1>2. v # Unversioned /\ r # NoRange => (Matches(r, v) <=> Within(v, r))
    BY MatchesIsWithin
  <1> QED BY <1>1, <1>2 DEF Fits

(* What a manifest states, the readers parse to a range or to none.        *)
LEMMA ParseIsRange ==
  ASSUME NEW r, IsStated(r)
  PROVE  IsRange(Parse(r))
  <1>1. IsRange(NoRange)
    BY DEF IsRange, RangeOver
  <1>2. CASE r.form \in {"none", "list"} \/ \E w \in Bounds(r) : Len(w) > 3
    BY <1>1, <1>2 DEF Parse
  <1>3. CASE r.form \notin {"none", "list"} /\ \A w \in Bounds(r) : ~(Len(w) > 3)
    <2>1. Parse(r) = r /\ r # NoRange
      BY <1>3 DEF Parse, NoRange
    <2>2. \A w \in Bounds(r) : IsNumbers(w) => IsBound(w)
      <3>1. \A w \in Seq(Nat) : w # <<>> => Len(w) \in Nat /\ Len(w) >= 1
        BY EmptySeq
      <3>2. \A l \in Nat : l >= 1 /\ ~(l > 3) => l \in 1 .. 3
        OBVIOUS
      <3> QED BY <1>3, <3>1, <3>2 DEF IsNumbers, IsBound
    <2>3. \/ r.form = "any"
          \/ r.form \in {"bare", "pinned"} /\ IsNumbers(r.v)
          \/ r.form = "op" /\ r.op \in Operators /\ IsNumbers(r.v)
          \/ /\ r.form = "interval" /\ {r.closedLo, r.closedHi} \subseteq BOOLEAN
             /\ \A w \in {r.lo, r.hi} : w = Unversioned \/ IsNumbers(w)
      BY <1>3, <2>1 DEF IsStated, RangeOver
    <2>4. IsRange(r)
      <3>1. CASE r.form = "any"
        BY <3>1 DEF IsRange, RangeOver
      <3>2. CASE r.form \in {"bare", "pinned"} /\ IsNumbers(r.v)
        <4>1. r.v \in Bounds(r)
          BY <3>2 DEF Bounds
        <4> QED BY <2>2, <3>2, <4>1 DEF IsRange, RangeOver
      <3>3. CASE r.form = "op" /\ r.op \in Operators /\ IsNumbers(r.v)
        <4>1. r.v \in Bounds(r)
          BY <3>3 DEF Bounds
        <4> QED BY <2>2, <3>3, <4>1 DEF IsRange, RangeOver
      <3>4. CASE /\ r.form = "interval" /\ {r.closedLo, r.closedHi} \subseteq BOOLEAN
                 /\ \A w \in {r.lo, r.hi} : w = Unversioned \/ IsNumbers(w)
        <4>1. Bounds(r) = {r.lo, r.hi}
          BY <3>4 DEF Bounds
        <4>2. \A w \in {r.lo, r.hi} : w = Unversioned \/ IsBound(w)
          BY <2>2, <3>4, <4>1
        <4> QED BY <3>4, <4>2 DEF IsRange, RangeOver
      <3> QED BY <2>3, <3>1, <3>2, <3>3, <3>4
    <2> QED BY <2>1, <2>4
  <1> QED BY <1>2, <1>3

(* What is read of an archive that is whole or torn.                       *)
GoodMod(m) ==
  /\ m.version \in Seq(Nat) /\ IsRange(m.minecraft)
  /\ \A d \in m.dependencies \cup m.conflicts : IsRange(d.range)

Held == Archive \cup {[a EXCEPT !.torn = TRUE] : a \in Archive}

WellStated(m) ==
  /\ m.version \in Seq(Nat) /\ IsStated(m.mcversion)
  /\ m.depends \in Seq(ToSet(m.depends)) /\ m.breaks \in Seq(ToSet(m.breaks))
  /\ \A d \in ToSet(m.depends) \cup ToSet(m.breaks) :
       DOMAIN d = {"id", "range", "required"} /\ IsStated(d.range)

LEMMA MetadataIsGood ==
  ASSUME NEW entry, NEW m, WellStated(m)
  PROVE  GoodMod(Metadata(entry, m))
  <1> DEFINE g == Metadata(entry, m)
  <1>1. IsRange(NoRange)
    BY DEF IsRange, RangeOver
  <1>2. \A d \in ToSet(m.depends) \cup ToSet(m.breaks) : IsRange(Read(d).range)
    <2> TAKE d \in ToSet(m.depends) \cup ToSet(m.breaks)
    <2>1. "range" \in DOMAIN d /\ IsStated(d.range)
      BY DEF WellStated
    <2>2. Read(d).range = Parse(d.range)
      BY <2>1 DEF Read
    <2> QED BY <2>1, <2>2, ParseIsRange
  <1>3. IsRange(MinecraftOf(entry, m))
    <2> DEFINE J    == {i \in DOMAIN m.depends :
                          m.depends[i].id = "minecraft" /\ Parse(m.depends[i].range) # NoRange}
               said == Subsequence(m.depends, J)
    <2>1. IsRange(Parse(m.mcversion))
      BY ParseIsRange DEF WellStated
    <2>2. MinecraftOf(entry, m) =
            CASE entry \in {"mcmod.info", "litemod.json"} -> Parse(m.mcversion)
              [] said # <<>> -> Parse(said[1].range)
              [] OTHER -> NoRange
      BY DEF MinecraftOf
    <2>3. said # <<>> => IsRange(Parse(said[1].range))
      <3>1. m.depends \in Seq(ToSet(m.depends))
        BY DEF WellStated
      <3>2. J \subseteq 1 .. Len(m.depends)
        BY <3>1, LenProperties
      <3> HIDE DEF J
      <3>3. said \in Seq(ToSet(m.depends))
        BY <3>1, <3>2, SubsequencePicks
      <3> HIDE DEF said
      <3>4. ASSUME said # <<>> PROVE said[1] \in ToSet(m.depends)
        <4>1. Len(said) \in Nat \ {0}
          BY <3>3, <3>4, EmptySeq
        <4>2. 1 \in 1 .. Len(said)
          BY <4>1
        <4> QED BY <3>3, <4>2, ElementOfSeq
      <3>5. \A d \in ToSet(m.depends) : IsStated(d.range)
        BY DEF WellStated
      <3> QED BY <3>4, <3>5, ParseIsRange
    <2> HIDE DEF said
    <2> QED BY <1>1, <2>1, <2>2, <2>3
  <1>4. /\ g.version = m.version /\ g.minecraft = MinecraftOf(entry, m)
        /\ g.dependencies = EdgesKept(entry, m.depends)
        /\ g.conflicts \subseteq ReadAll(m.breaks)
    BY DEF Metadata
  <1>5. EdgesKept(entry, m.depends) \subseteq ReadAll(m.depends)
    BY DEF EdgesKept
  <1> HIDE DEF g
  <1>6. \A d \in g.dependencies \cup g.conflicts : IsRange(d.range)
    BY <1>2, <1>4, <1>5 DEF ReadAll
  <1>7. GoodMod(g)
    BY <1>3, <1>4, <1>6 DEF GoodMod, WellStated
  <1> QED BY <1>7 DEF g

LEMMA PrimaryIsGood ==
  ASSUME ModsWellFormed, NEW a \in Held
  PROVE  GoodMod(Primary(ParseFile(a)))
  <1> DEFINE entry == ProbeOf(a.entries)[1]
             whole  == [i \in DOMAIN a.mods |-> Metadata(entry, a.mods[i])]
             parsed == IF a.torn THEN <<>> ELSE whole
             I      == {i \in DOMAIN parsed : parsed[i].id # ""}
             named  == Subsequence(parsed, I)
             G      == {g \in {Metadata(entry, m) : m \in ToSet(a.mods)} : GoodMod(g)}
  <1>1. GoodMod(Placeholder)
    <2>1. <<>> \in Seq(Nat)
      OBVIOUS
    <2> QED BY <2>1 DEF GoodMod, Placeholder, IsRange, RangeOver, Unversioned
  <1>2. /\ IsSequence(a.mods)
        /\ \A m \in ToSet(a.mods) : WellStated(m)
    <2>1. \A b \in Archive : IsSequence(b.mods) /\ \A m \in ToSet(b.mods) : WellStated(m)
      BY DEF ModsWellFormed, WellStated
    <2>2. ASSUME NEW b \in Archive, a = [b EXCEPT !.torn = TRUE] PROVE a.mods = b.mods
      <3>1. "mods" \in DOMAIN b
        BY DEF ModsWellFormed
      <3> QED BY <2>2, <3>1
    <2> QED BY <2>1, <2>2 DEF Held
  <1>3. Len(a.mods) \in Nat /\ DOMAIN a.mods = 1 .. Len(a.mods)
    BY <1>2 DEF IsSequence
  <1>4. \A i \in DOMAIN a.mods : Metadata(entry, a.mods[i]) \in G
    <2> TAKE i \in DOMAIN a.mods
    <2>1. a.mods[i] \in ToSet(a.mods)
      BY DEF ToSet
    <2>2. GoodMod(Metadata(entry, a.mods[i]))
      BY <1>2, <2>1, MetadataIsGood
    <2> QED BY <2>1, <2>2
  <1> HIDE DEF G
  <1>5. parsed \in Seq(G)
    <2>1. <<>> \in Seq(G)
      OBVIOUS
    <2>2. whole \in [1 .. Len(a.mods) -> G]
      BY <1>3, <1>4
    <2>3. whole \in Seq(G)
      BY <1>3, <2>2
    <2> HIDE DEF whole
    <2> QED BY <2>1, <2>3
  <1>6. I \subseteq 1 .. Len(parsed)
    BY <1>5, LenProperties
  <1> HIDE DEF parsed, I
  <1>7. named \in Seq(G)
    BY <1>5, <1>6, SubsequencePicks
  <1>8. ParseFile(a) = IF named = <<>> THEN <<Placeholder>> ELSE named
    BY DEF ParseFile, named, I, parsed
  <1> HIDE DEF named
  <1>9. CASE named = <<>>
    BY <1>1, <1>8, <1>9 DEF Primary
  <1>10. CASE named # <<>>
    <2>1. Len(named) \in Nat \ {0}
      BY <1>7, <1>10, EmptySeq
    <2>2. 1 \in 1 .. Len(named)
      BY <2>1
    <2>3. named[1] \in G
      BY <1>7, <2>2, ElementOfSeq
    <2> QED BY <1>8, <1>10, <2>3 DEF Primary, G
  <1> QED BY <1>9, <1>10

-----------------------------------------------------------------------------
(* The report is empty when each of its parts is.                          *)
WorksAmong(m, L, gv) ==
  /\ m.minecraft = NoRange \/ gv = Unversioned \/ Within(gv, m.minecraft)
  /\ \A d \in Wanted(m) :
       \E o \in L : o.id = d.id /\ (d.range = NoRange \/ Within(o.version, d.range))
  /\ \A c \in m.conflicts :
       IF c.id = "minecraft"
         THEN gv # Unversioned => c.range # NoRange /\ ~Within(gv, c.range)
         ELSE \A o \in L : o.id = c.id => c.range # NoRange /\ ~Within(o.version, c.range)

LEMMA NoIssues ==
  ASSUME NEW ms, \A i \in DOMAIN ms : GoodMod(ms[i]), DOMAIN ms \subseteq Nat,
         NEW gv \in Seq(Nat)
  PROVE  ResolveIssues(ms, gv) = {} <=>
           /\ \A i, j \in DOMAIN ms : i # j => ms[i].id # ms[j].id
           /\ \A i \in DOMAIN ms : WorksAmong(ms[i], {ms[j] : j \in DOMAIN ms}, gv)
  <1> DEFINE L == {ms[j] : j \in DOMAIN ms}
             Part(i) ==
               MinecraftIssues(ms[i], gv)
                 \cup (UNION {DependencyIssues(ms, ms[i], d) :
                            d \in {e \in ms[i].dependencies : e.id # "minecraft"}})
                 \cup (UNION {ConflictIssues(ms, ms[i], c, gv) : c \in ms[i].conflicts})
  <1>1. \A ok, issue : IssueUnless(ok, issue) = {} <=> ok
    BY DEF IssueUnless
  <1>2. DuplicateIssues(ms) = {} <=> \A i, j \in DOMAIN ms : i # j => ms[i].id # ms[j].id
    <2> DEFINE ds == {i \in DOMAIN ms : Doubled(ms, i)}
    <2>1. DuplicateIssues(ms) = {} <=> ds = {}
      BY DEF DuplicateIssues
    <2> QED BY <2>1 DEF Doubled
  <1>3. ASSUME NEW i \in DOMAIN ms PROVE Part(i) = {} <=> WorksAmong(ms[i], L, gv)
    <2> DEFINE m == ms[i]
    <2>1. GoodMod(m)
      OBVIOUS
    <2> HIDE DEF m
    <2>2. MinecraftIssues(m, gv) = {} <=>
            m.minecraft = NoRange \/ gv = Unversioned \/ Within(gv, m.minecraft)
      <3>1. /\ IsRange(m.minecraft)
            /\ m.minecraft # NoRange /\ gv # Unversioned =>
                 (Matches(m.minecraft, gv) <=> Within(gv, m.minecraft))
        BY <2>1, MatchesIsWithin DEF GoodMod
      <3> QED BY <1>1, <3>1 DEF MinecraftIssues
    <2>3. ASSUME NEW d \in m.dependencies
          PROVE  DependencyIssues(ms, m, d) = {} <=>
                   (d.required =>
                      \E o \in L : o.id = d.id /\ (d.range = NoRange \/ Within(o.version, d.range)))
      <3> DEFINE known == Versions(ms, d.id)
      <3>1. IsRange(d.range)
        BY <2>1 DEF GoodMod
      <3>2. \A o \in L : o.version \in Seq(Nat)
        BY DEF GoodMod
      <3>3. known = {o.version : o \in {p \in L : p.id = d.id}}
        BY DEF Versions
      <3> HIDE DEF L, known
      <3>4. (\E v \in known : Fits(v, d.range)) <=>
              \E o \in L : o.id = d.id /\ (d.range = NoRange \/ Within(o.version, d.range))
        BY <3>1, <3>2, <3>3, FitsIsWithin
      <3>5. CASE known = {}
        <4>1. DependencyIssues(ms, m, d) = {} <=> ~d.required
          BY <1>1, <3>5 DEF DependencyIssues, known
        <4>2. ~\E v \in known : Fits(v, d.range)
          BY <3>5
        <4> QED BY <3>4, <4>1, <4>2
      <3>6. CASE known # {}
        <4>1. DependencyIssues(ms, m, d) = {} <=>
                ~d.required \/ \E v \in known : Fits(v, d.range)
          BY <1>1, <3>6 DEF DependencyIssues, known
        <4> QED BY <3>4, <4>1
      <3> QED BY <3>5, <3>6
    <2>4. ASSUME NEW c \in m.conflicts
          PROVE  ConflictIssues(ms, m, c, gv) = {} <=>
                   IF c.id = "minecraft"
                     THEN gv # Unversioned => c.range # NoRange /\ ~Within(gv, c.range)
                     ELSE \A o \in L : o.id = c.id =>
                            c.range # NoRange /\ ~Within(o.version, c.range)
      <3> DEFINE known == Versions(ms, c.id)
      <3>1. IsRange(c.range)
        BY <2>1 DEF GoodMod
      <3>2. \A o \in L : o.version \in Seq(Nat)
        BY DEF GoodMod
      <3>3. known = {o.version : o \in {p \in L : p.id = c.id}}
        BY DEF Versions
      <3> HIDE DEF L, known
      <3>4. (\A v \in known : ~Fits(v, c.range)) <=>
              \A o \in L : o.id = c.id => c.range # NoRange /\ ~Within(o.version, c.range)
        BY <3>1, <3>2, <3>3, FitsIsWithin
      <3>5. CASE c.id = "minecraft"
        <4>1. ConflictIssues(ms, m, c, gv) = {} <=>
                gv = Unversioned \/ ~(c.range = NoRange \/ Matches(c.range, gv))
          BY <1>1, <3>5 DEF ConflictIssues
        <4>2. gv # Unversioned /\ c.range # NoRange =>
                (Matches(c.range, gv) <=> Within(gv, c.range))
          BY <3>1, MatchesIsWithin
        <4> QED BY <3>5, <4>1, <4>2
      <3>6. CASE c.id # "minecraft"
        <4>1. ConflictIssues(ms, m, c, gv) = {} <=> \A v \in known : ~Fits(v, c.range)
          BY <1>1, <3>6 DEF ConflictIssues, known
        <4> QED BY <3>4, <3>6, <4>1
      <3> QED BY <3>5, <3>6
    <2>5. Part(i) = {} <=>
            /\ MinecraftIssues(m, gv) = {}
            /\ \A d \in m.dependencies : d.id # "minecraft" => DependencyIssues(ms, m, d) = {}
            /\ \A c \in m.conflicts : ConflictIssues(ms, m, c, gv) = {}
      BY DEF m
    <2> HIDE DEF L, Part
    <2>6. Part(i) = {} <=> WorksAmong(m, L, gv)
      BY <2>2, <2>3, <2>4, <2>5 DEF WorksAmong, Wanted
    <2> QED BY <2>6 DEF m
  <1>4. ResolveIssues(ms, gv) = {} <=>
          DuplicateIssues(ms) = {} /\ \A i \in DOMAIN ms : Part(i) = {}
    <2> DEFINE parts == {Part(i) : i \in DOMAIN ms}
    <2>1. ResolveIssues(ms, gv) = DuplicateIssues(ms) \cup (UNION parts)
      BY DEF ResolveIssues
    <2>2. UNION parts = {} <=> \A q \in parts : q = {}
      OBVIOUS
    <2>3. (\A q \in parts : q = {}) <=> \A i \in DOMAIN ms : Part(i) = {}
      <3> HIDE DEF Part
      <3> QED OBVIOUS
    <2> HIDE DEF parts, Part
    <2> QED BY <2>1, <2>2, <2>3
  <1> HIDE DEF L, Part
  <1>5. ResolveIssues(ms, gv) = {} <=>
          /\ \A i, j \in DOMAIN ms : i # j => ms[i].id # ms[j].id
          /\ \A i \in DOMAIN ms : WorksAmong(ms[i], L, gv)
    BY <1>2, <1>3, <1>4
  <1> QED BY <1>5 DEF L

-----------------------------------------------------------------------------
(* The folder holds archives, whole or torn, under finitely many names.    *)
FolderInv ==
  /\ gameVersion \in GameVersions
  /\ IsFiniteSet(DOMAIN folder) /\ \A n \in DOMAIN folder : folder[n] \in Held
  /\ copying.on => copying.archive \in Archive

LEMMA PutKeeps ==
  ASSUME NEW n, NEW a \in Held, FolderInv
  PROVE  /\ IsFiniteSet(DOMAIN Put(n, a)) /\ \A m \in DOMAIN Put(n, a) : Put(n, a)[m] \in Held
  <1>1. DOMAIN Put(n, a) = DOMAIN folder \cup {n}
    BY DEF Put
  <1>2. IsFiniteSet(DOMAIN folder \cup {n})
    BY FS_AddElement DEF FolderInv
  <1>3. \A m \in DOMAIN folder \cup {n} : Put(n, a)[m] = IF m = n THEN a ELSE folder[m]
    BY DEF Put
  <1> QED BY <1>1, <1>2, <1>3 DEF FolderInv

LEMMA RenamedKeeps ==
  ASSUME NEW n \in DOMAIN folder, NEW m, FolderInv
  PROVE  /\ IsFiniteSet(DOMAIN Renamed(n, m))
         /\ \A k \in DOMAIN Renamed(n, m) : Renamed(n, m)[k] \in Held
         /\ m \in DOMAIN Renamed(n, m) /\ Renamed(n, m)[m] = folder[n]
         /\ n # m => n \notin DOMAIN Renamed(n, m)
         /\ \A k \in DOMAIN folder \ {n, m} :
              k \in DOMAIN Renamed(n, m) /\ Renamed(n, m)[k] = folder[k]
  <1> DEFINE f == Renamed(n, m)
             D == (DOMAIN folder \ {n}) \cup {m}
  <1>1. DOMAIN f = D
    BY DEF Renamed
  <1>2. \A k \in D : f[k] = IF k = m THEN folder[n] ELSE folder[k]
    BY DEF Renamed
  <1>3. IsFiniteSet(D)
    <2>1. IsFiniteSet(DOMAIN folder \ {n})
      BY FS_RemoveElement DEF FolderInv
    <2> QED BY <2>1, FS_AddElement
  <1> HIDE DEF f
  <1>4. \A k \in DOMAIN f : f[k] \in Held
    BY <1>1, <1>2 DEF FolderInv
  <1>5. m \in DOMAIN f /\ f[m] = folder[n]
    BY <1>1, <1>2
  <1>6. \A k \in DOMAIN folder \ {n, m} : k \in DOMAIN f /\ f[k] = folder[k]
    BY <1>1, <1>2
  <1>8. n # m => n \notin DOMAIN f
    BY <1>1
  <1>7. IsFiniteSet(DOMAIN f)
    BY <1>1, <1>3
  <1> QED BY <1>4, <1>5, <1>6, <1>7, <1>8 DEF f

LEMMA ToggleKeeps ==
  ASSUME FolderInv, NEW n, NEW on, Toggle(n, on)
  PROVE  /\ IsFiniteSet(DOMAIN folder') /\ \A k \in DOMAIN folder' : folder'[k] \in Held
         /\ \A k \in DOMAIN folder :
              \/ \E m \in DOMAIN folder' : folder'[m] = folder[k]
              \/ \E o \in DOMAIN folder \ DOMAIN folder' : folder'[k] = folder[o]
  <1>1. CASE n \notin DOMAIN folder
    BY <1>1 DEF Toggle, FolderInv
  <1>2. CASE n \in DOMAIN folder
    <2> DEFINE m == Toggled(n, on)
    <2>1. folder' = Renamed(n, m)
      BY <1>2 DEF Toggle
    <2> HIDE DEF m
    <2>2. /\ IsFiniteSet(DOMAIN folder') /\ \A k \in DOMAIN folder' : folder'[k] \in Held
          /\ m \in DOMAIN folder' /\ folder'[m] = folder[n]
          /\ n # m => n \notin DOMAIN folder'
          /\ \A k \in DOMAIN folder \ {n, m} : k \in DOMAIN folder' /\ folder'[k] = folder[k]
      BY <1>2, <2>1, RenamedKeeps
    <2> QED BY <1>2, <2>2
  <1> QED BY <1>1, <1>2

LEMMA FolderStep == FolderInv /\ [FolderNext]_folderVars => FolderInv'
  <1> SUFFICES ASSUME FolderInv, [FolderNext]_folderVars PROVE FolderInv'
    OBVIOUS
  <1>1. CASE Scan
    BY <1>1 DEF Scan, Count, FolderInv
  <1>2. CASE Resolve
    BY <1>2 DEF Resolve, Count, FolderInv
  <1>3. CASE Copied
    <2>1. copying.archive \in Held
      BY <1>3 DEF Copied, FolderInv, Held
    <2>2. /\ folder' = Put(copying.name, copying.archive) /\ copying' = NoCopy
          /\ gameVersion' = gameVersion
      BY <1>3 DEF Copied
    <2>3. ~copying'.on
      BY <2>2 DEF NoCopy
    <2>4. /\ IsFiniteSet(DOMAIN folder')
          /\ \A m \in DOMAIN folder' : folder'[m] \in Held
      BY <2>1, <2>2, PutKeeps
    <2> QED BY <2>2, <2>3, <2>4 DEF FolderInv
  <1>4. CASE ToggleNext
    <2>1. PICK t \in toggling : Toggle(t.name, t.on)
      BY <1>4 DEF ToggleNext
    <2>2. copying' = copying /\ gameVersion' = gameVersion
      BY <1>4 DEF ToggleNext
    <2>3. IsFiniteSet(DOMAIN folder') /\ \A k \in DOMAIN folder' : folder'[k] \in Held
      BY <2>1, ToggleKeeps
    <2> QED BY <2>2, <2>3 DEF FolderInv
  <1>5. CASE KillCopy
    <2>1. ~copying'.on
      BY <1>5 DEF KillCopy, NoCopy
    <2> QED BY <1>5, <2>1 DEF KillCopy, FolderInv
  <1>6. CASE FolderFinished \/ UNCHANGED folderVars
    BY <1>6 DEF FolderFinished, folderVars, FolderInv
  <1>7. ASSUME NEW a \in Archive, Install(a) PROVE FolderInv'
    <2>1. [a EXCEPT !.torn = TRUE] \in Held
      BY DEF Held
    <2>2. /\ folder' = Put(NameOf(a), [a EXCEPT !.torn = TRUE])
          /\ copying'.archive = a /\ gameVersion' = gameVersion
      BY <1>7 DEF Install, Count
    <2>3. /\ IsFiniteSet(DOMAIN folder')
          /\ \A m \in DOMAIN folder' : folder'[m] \in Held
      BY <2>1, <2>2, PutKeeps
    <2> QED BY <2>2, <2>3 DEF FolderInv
  <1>8. ASSUME NEW n, Delete(n) PROVE FolderInv'
    <2>1. copying' = copying /\ gameVersion' = gameVersion
      BY <1>8 DEF Delete, Count
    <2>2. CASE folder' = folder
      BY <2>1, <2>2 DEF FolderInv
    <2>3. CASE folder' = Without(n)
      <3>1. DOMAIN folder' = DOMAIN folder \ {n} /\ \A m \in DOMAIN folder \ {n} : folder'[m] = folder[m]
        BY <2>3 DEF Without
      <3>2. IsFiniteSet(DOMAIN folder \ {n})
        BY FS_RemoveElement DEF FolderInv
      <3> QED BY <2>1, <3>1, <3>2 DEF FolderInv
    <2> QED BY <1>8, <2>2, <2>3 DEF Delete
  <1>9. ASSUME NEW n, NEW on, SetEnabled(n, on) PROVE FolderInv'
    <2>1. Toggle(n, on) /\ copying' = copying /\ gameVersion' = gameVersion
      BY <1>9 DEF SetEnabled, Count
    <2>2. IsFiniteSet(DOMAIN folder') /\ \A k \in DOMAIN folder' : folder'[k] \in Held
      BY <2>1, ToggleKeeps
    <2> QED BY <2>1, <2>2 DEF FolderInv
  <1>10. ASSUME NEW n, NEW on, SetGroupEnabled(n, on) PROVE FolderInv'
    BY <1>10 DEF SetGroupEnabled, Count, FolderInv
  <1> QED BY <1>1, <1>2, <1>3, <1>4, <1>5, <1>6, <1>7, <1>8, <1>9, <1>10 DEF FolderNext

(* The mods of a scan are the first of every enabled archive, each once.   *)
LEMMA OrderOfSet ==
  ASSUME NEW S, IsFiniteSet(S)
  PROVE  /\ DOMAIN InOrder(S) \subseteq Nat
         /\ \A i \in DOMAIN InOrder(S) : InOrder(S)[i] \in S
         /\ \A x \in S : \E i \in DOMAIN InOrder(S) : InOrder(S)[i] = x
         /\ \A i, j \in DOMAIN InOrder(S) : InOrder(S)[i] = InOrder(S)[j] => i = j
  <1> DEFINE n == Cardinality(S)
             s == SetToSeq(S)
  <1>1. n \in Nat /\ ExistsBijection(1 .. n, S)
    BY FS_CardinalityType
  <1>2. \E f \in [1 .. n -> S] : IsInjective(f)
    BY <1>1 DEF ExistsBijection, Bijection, Injection
  <1>3. s \in [1 .. n -> S] /\ IsInjective(s)
    BY <1>2 DEF SetToSeq
  <1> HIDE DEF s
  <1>4. IsFiniteSet(1 .. n) /\ Cardinality(1 .. n) = n
    BY <1>1, FS_Interval
  <1>5. s \in Injection(1 .. n, S)
    BY <1>3 DEF Injection
  <1>6. s \in Surjection(1 .. n, S)
    BY <1>4, <1>5, FS_Injection
  <1>7. DOMAIN s = 1 .. n /\ DOMAIN s \subseteq Nat
    BY <1>1, <1>3
  <1>8. \A i, j \in DOMAIN s : s[i] = s[j] => i = j
    BY <1>3 DEF IsInjective
  <1>9. \A x \in S : \E i \in DOMAIN s : s[i] = x
    BY <1>6, <1>7 DEF Surjection
  <1>10. \A i \in DOMAIN s : s[i] \in S
    BY <1>3, <1>7
  <1> QED BY <1>7, <1>8, <1>9, <1>10 DEF InOrder, s

First(n) == Primary(ParseFile(folder[n]))

LEMMA ScanIsLoadout ==
  ASSUME ModsWellFormed, FolderInv, kind = "mods"
  PROVE  /\ DOMAIN EnabledMods \subseteq Nat
         /\ \A i \in DOMAIN EnabledMods : GoodMod(EnabledMods[i])
         /\ {EnabledMods[i] : i \in DOMAIN EnabledMods} = Loaded
         /\ OneEach <=> \A i, j \in DOMAIN EnabledMods :
                          i # j => EnabledMods[i].id # EnabledMods[j].id
  <1> DEFINE ns == InOrder(Enabled)
             ms == EnabledMods
  <1>1. {n \in Scanned : IsEnabled(n)} = Enabled
    BY DEF Scanned, IsEnabled, Enabled, IsDirectory
  <1>2. IsFiniteSet(Enabled)
    BY FS_Subset DEF FolderInv, Enabled
  <1>3. ms = [i \in DOMAIN ns |-> First(ns[i])]
    BY <1>1 DEF EnabledMods, First
  <1>4. /\ DOMAIN ns \subseteq Nat /\ \A i \in DOMAIN ns : ns[i] \in Enabled
        /\ \A x \in Enabled : \E i \in DOMAIN ns : ns[i] = x
        /\ \A i, j \in DOMAIN ns : ns[i] = ns[j] => i = j
    BY <1>2, OrderOfSet
  <1> HIDE DEF ns, ms
  <1>5. \A n \in Enabled : GoodMod(First(n))
    BY PrimaryIsGood DEF FolderInv, Enabled, First
  <1>6. DOMAIN ms = DOMAIN ns /\ \A i \in DOMAIN ns : ms[i] = First(ns[i])
    BY <1>3
  <1>7. Loaded = {First(n) : n \in Enabled}
    BY DEF Loaded, Enabled, First
  <1>8. {ms[i] : i \in DOMAIN ms} = Loaded
    BY <1>4, <1>6, <1>7
  <1>9. OneEach <=> \A n, m \in Enabled : n # m => First(n).id # First(m).id
    BY DEF OneEach, First
  <1>10. OneEach <=> \A i, j \in DOMAIN ms : i # j => ms[i].id # ms[j].id
    BY <1>4, <1>6, <1>9
  <1> QED BY <1>4, <1>5, <1>6, <1>8, <1>10 DEF ms

(* After any sequence of installations, toggles, removals and kills: the   *)
(* check of the loadout (conflict.rs) reports no issue exactly when every  *)
(* enabled mod finds what it needs in range and meets nothing it breaks    *)
(* on, and a toggle (mods/mod.rs) loses no archive but one whose name the  *)
(* toggled one takes.  The ranges are those constraint.rs can read; one it *)
(* cannot read is no constraint.  Supposed: versions are lists of numbers, *)
(* and a range is stated in a notation of ModRules.                        *)
THEOREM FolderIsSoundHolds == ASSUME ModsWellFormed PROVE FolderSpec => FolderIsSound
  <1>1. FolderInit => FolderInv
    <2> SUFFICES ASSUME FolderInit PROVE FolderInv
      OBVIOUS
    <2>1. DOMAIN folder = {} /\ gameVersion \in GameVersions /\ ~copying.on
      BY DEF FolderInit, NoCopy
    <2>2. IsFiniteSet({})
      BY FS_EmptySet
    <2> QED BY <2>1, <2>2 DEF FolderInv
  <1>2. FolderInv /\ [FolderNext]_folderVars => FolderInv'
    BY FolderStep
  <1>3. ASSUME FolderInv, Resolve PROVE issues' = {} <=> OneEach /\ \A m \in Loaded : Works(m)
    <2> DEFINE ms == EnabledMods
    <2>1. kind = "mods" /\ issues' = ResolveIssues(ms, gameVersion)
      BY <1>3 DEF Resolve
    <2>2. gameVersion \in Seq(Nat)
      BY <1>3 DEF FolderInv, ModsWellFormed
    <2>3. /\ DOMAIN ms \subseteq Nat /\ \A i \in DOMAIN ms : GoodMod(ms[i])
          /\ {ms[i] : i \in DOMAIN ms} = Loaded
          /\ OneEach <=> \A i, j \in DOMAIN ms : i # j => ms[i].id # ms[j].id
      BY <1>3, <2>1, ScanIsLoadout
    <2> HIDE DEF ms
    <2>4. ResolveIssues(ms, gameVersion) = {} <=>
            /\ \A i, j \in DOMAIN ms : i # j => ms[i].id # ms[j].id
            /\ \A i \in DOMAIN ms : WorksAmong(ms[i], {ms[j] : j \in DOMAIN ms}, gameVersion)
      BY <2>2, <2>3, NoIssues
    <2>5. \A m : Works(m) <=> WorksAmong(m, Loaded, gameVersion)
      BY DEF Works, WorksAmong
    <2>6. (\A i \in DOMAIN ms : WorksAmong(ms[i], Loaded, gameVersion)) <=>
            \A m \in Loaded : Works(m)
      BY <2>3, <2>5
    <2> QED BY <2>1, <2>3, <2>4, <2>6
  <1>4. ASSUME FolderInv, ToggleNext \/ (\E n \in shown, on \in BOOLEAN : SetEnabled(n, on))
        PROVE  \A n \in DOMAIN folder :
                 \/ \E m \in DOMAIN folder' : folder'[m] = folder[n]
                 \/ \E k \in DOMAIN folder \ DOMAIN folder' : folder'[n] = folder[k]
    <2>1. PICK n, on : Toggle(n, on)
      BY <1>4 DEF ToggleNext, SetEnabled
    <2> QED BY <1>4, <2>1, ToggleKeeps
  <1>5. FolderInv => ReportIsExact /\ LostOnlyToNamesakes
    BY <1>3, <1>4 DEF ReportIsExact, LostOnlyToNamesakes
  <1> QED BY <1>1, <1>2, <1>5, PTL DEF FolderSpec, FolderIsSound
==================================================================================
