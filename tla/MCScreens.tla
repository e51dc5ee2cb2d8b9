------------------------------- MODULE MCScreens -------------------------------
(***************************************************************************)
(* Instance for TLC of the app around the core: a download without a       *)
(* checksum (ChunkedDownload) and three groups of screens.  The four share *)
(* nothing: one of them runs in a behaviour and the others stay where they *)
(* started, so the states explored are the sum of theirs and not their     *)
(* product.                                                                *)
(***************************************************************************)
EXTENDS ChunkedDownload

CONSTANTS
  Slot, Premium, Cracked, NoAccount, MaxTaps,
  Catalog, Title, Look, ElementKind, MaxElements, MaxEdits, MaxEditorKills,
  Family, GameVersions, Builds, Dashboard, Home, MaxScreenTaps

VARIABLES
  app,        \* which of the four this behaviour is about
  core, rows, active, kept, login, job, taps, settled,
  layout, listed, picked, dirty, saved, savedOnDisk, prefs, prefsOnDisk, shownPrefs,
  edits, editorKills,
  instances, step, request, drawn, detail, launch, runJob, barrier, screenTaps

AccountUI  == INSTANCE AccountScreen
EditorUI   == INSTANCE ControllerEditor
InstanceUI == INSTANCE InstanceScreens

ASSUME ScreensAssumption ==
  AccountUI!AccountAssumption /\ EditorUI!EditorAssumption /\ InstanceUI!InstanceAssumption

accountVars  == <<core, rows, active, kept, login, job, taps, settled>>
editorVars   == <<layout, listed, picked, dirty, saved, savedOnDisk, prefs, prefsOnDisk,
                  shownPrefs, edits, editorKills>>
instanceVars == <<instances, step, request, drawn, detail, launch, runJob, barrier, screenTaps>>
appVars == <<app, vars, accountVars, editorVars, instanceVars>>

AppInit ==
  /\ app \in {"download", "accounts", "editor", "instances"}
  /\ Init /\ AccountUI!ScreenInit /\ EditorUI!EditorInit /\ InstanceUI!InstanceInit

(* The user may leave a screen alone for good. *)
AppNext ==
  /\ UNCHANGED app
  /\ \/ /\ app = "download" /\ Next
        /\ UNCHANGED <<accountVars, editorVars, instanceVars>>
     \/ /\ app = "accounts" /\ AccountUI!ScreenNext
        /\ UNCHANGED <<vars, editorVars, instanceVars>>
     \/ /\ app = "editor" /\ EditorUI!EditorNext
        /\ UNCHANGED <<vars, accountVars, instanceVars>>
     \/ /\ app = "instances" /\ InstanceUI!InstanceNext
        /\ UNCHANGED <<vars, accountVars, editorVars>>
     \/ app # "download" /\ UNCHANGED <<vars, accountVars, editorVars, instanceVars>>

AppSpec == AppInit /\ [][AppNext]_appVars

(* The instance starts a group that does not run in one way only, and lets *)
(* the stored instance have the version whose id can collide.              *)
MCAppInit ==
  /\ AppInit
  /\ app # "accounts" => core = <<>> /\ kept = NoAccount
  /\ app # "editor" => saved.index = <<>>
  /\ instances[1].version = <<"1.20">>

MCAppSpec == MCAppInit /\ [][AppNext]_appVars

-----------------------------------------------------------------------------
(* Two layouts shipped with the app; two names, one of which is what a     *)
(* second layout of the other would be called.                             *)
Shipped(id, name, elements) ==
  [id |-> <<id>>, name |-> <<name>>, elements |-> elements, editable |-> FALSE]
MCCatalog == <<Shipped("default", "layout", <<[id |-> <<"jump">>, look |-> "plain"]>>),
               Shipped("wasd", "wasd", <<>>)>>
MCTitle   == {<<"layout">>, <<"layout", 1>>}

(* Likewise two versions, and a build of each family. *)
MCVersions == {<<"1.20">>, <<"1.20", 1>>}
MCBuilds   == [fabric |-> {"0.16"}, forge |-> {"47"}]

-----------------------------------------------------------------------------
(* The screens agree with what they show and keep: the invariants of their *)
(* modules, which say what that is.                                        *)
ScreensSound ==
  AccountUI!AccountScreenSound /\ EditorUI!EditorSound /\ InstanceUI!InstancesSound

(* No tap on a screen replaces or loses what it does not show: a saved     *)
(* layout, an element of one, an instance.                                 *)
ScreensKeep == EditorUI!NothingReplaced /\ InstanceUI!InstancesKept
===============================================================================
