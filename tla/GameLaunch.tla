------------------------------- MODULE GameLaunch -------------------------------
(***************************************************************************)
(* A version is resolved along inheritsFrom, its files are downloaded, and *)
(* LaunchEngine::prepare (launch/engine.rs) turns it into a command or     *)
(* says what is in the way.  Files may be lost between any two steps.      *)
(***************************************************************************)
EXTENDS LaunchPlan

CONSTANTS
  File,       \* the version.json the servers publish, by id
  Options,    \* launch options
  Published,  \* URLs made from a coordinate at which there is a file
  Runtime,    \* files of app_runtime and of the JREs
  Strict,     \* values of `preflight': LaunchEngine::new or dry_run
  MaxLost,    \* bound: files lost
  MaxTries    \* bound: downloads and launches

ASSUME LaunchAssumption ==
  /\ \A id \in DOMAIN File : File[id].id = id /\ IsSequence(File[id].libraries)
  /\ IsFiniteSet(Runtime)
  /\ MaxLost \in Nat /\ MaxTries \in Nat /\ Strict \subseteq BOOLEAN

VARIABLES
  options, strict,
  pc,        \* where the caller is
  wanted,    \* the version to fetch next, "" when the chain is complete
  chain,     \* the parsed versions, leaf first
  disk,      \* the files there are
  classpath, \* what build_classpath returned
  command,   \* the prepared command: a sequence of at most one
  why,       \* the error of the last call
  lost,      \* history: files lost since the last prepare began
  tries

vars == <<options, strict, pc, wanted, chain, disk, classpath, command, why, lost, tries>>
inputs == <<options, strict>>

Resolved == MergeChain(Reverse(chain))
Plan == BuildPlan(Resolved, PlatformOf(options))
Served(url) == url[1] = "given" \/ url[2] \in Published

Init ==
  /\ options \in Options /\ strict \in Strict
  /\ pc = "resolving" /\ wanted \in DOMAIN File /\ chain = <<>>
  /\ disk = Runtime /\ classpath = <<>> /\ command = <<>> /\ why = ""
  /\ lost = {} /\ tries = 0

-----------------------------------------------------------------------------
(* resolve_version: one version.json after the other *)

Fails(error) == pc' = "failed" /\ why' = error

Visited == {chain[i].id : i \in DOMAIN chain}

FetchVersion ==
  /\ pc = "resolving"
  /\ IF wanted \in Visited THEN Fails("cycle") /\ UNCHANGED <<wanted, chain>>
     ELSE IF wanted \notin DOMAIN File THEN Fails("not found") /\ UNCHANGED <<wanted, chain>>
     ELSE /\ chain' = Append(chain, ParseVersion(File[wanted]))
          /\ wanted' = File[wanted].inheritsFrom
          /\ pc' = IF wanted' = "" THEN "ready" ELSE "resolving"
          /\ UNCHANGED why
  /\ UNCHANGED <<inputs, disk, classpath, command, lost, tries>>

FetchFails ==      \* every mirror refused, or the text is not JSON
  /\ pc = "resolving" /\ Fails("network")
  /\ UNCHANGED <<inputs, wanted, chain, disk, classpath, command, lost, tries>>

(* launch_preview_json: the one version of the request, without parents.   *)
Preview ==
  /\ pc = "resolving" /\ chain = <<>> /\ wanted \in DOMAIN File
  /\ chain' = <<ParseVersion(File[wanted])>> /\ wanted' = "" /\ pc' = "ready"
  /\ UNCHANGED <<inputs, disk, classpath, command, why, lost, tries>>

(* The plan is downloaded but for the items the server has not and, the    *)
(* other time, one that fails: each item is a task of its own.             *)
Download ==
  /\ pc \in {"ready", "refused", "prepared"} /\ tries < MaxTries
  /\ \E failed \in SUBSET {i.dest : i \in ToSet(Plan)} :
       /\ Cardinality(failed) <= 1
       /\ disk' = disk \cup ({i.dest : i \in {j \in ToSet(Plan) : Served(j.url)}} \ failed)
  /\ pc' = "ready" /\ command' = <<>> /\ tries' = tries + 1
  /\ UNCHANGED <<inputs, wanted, chain, classpath, why, lost>>

Lose ==
  /\ pc \notin {"resolving", "failed"}
  /\ Cardinality(lost) < MaxLost
  /\ \E f \in disk : disk' = disk \ {f} /\ lost' = lost \cup {f}
  /\ UNCHANGED <<inputs, pc, wanted, chain, classpath, command, why, tries>>

-----------------------------------------------------------------------------
(* LaunchEngine::prepare *)

Prepare ==
  /\ pc \in {"ready", "refused", "prepared"} /\ tries < MaxTries
  /\ pc' = "options" /\ tries' = tries + 1
  /\ command' = <<>> /\ why' = "" /\ lost' = {} /\ classpath' = <<>>
  /\ UNCHANGED <<inputs, wanted, chain, disk>>

Refuse(error) ==
  /\ pc' = "refused" /\ why' = error
  /\ UNCHANGED <<inputs, wanted, chain, disk, classpath, command, lost, tries>>

Pass(next) ==
  /\ pc' = next
  /\ UNCHANGED <<inputs, wanted, chain, disk, classpath, command, why, lost, tries>>

CheckOptions ==
  /\ pc = "options"
  /\ IF OptionsValid(options) THEN Pass("java") ELSE Refuse("options")

(* preflight_java: a newer Java is a warning.                              *)
TooOld == \E required \in ToSet(Resolved.java) : options.java < required
PreflightJava ==
  /\ pc = "java"
  /\ IF strict /\ JavaExe(options) \notin disk THEN Refuse("java missing")
     ELSE IF strict /\ TooOld THEN Refuse("java too old")
     ELSE Pass("runtime")

PreflightNothing ==   \* mutant: the bundle is believed to be whole
  pc = "runtime" /\ Pass("classpath")

PreflightRuntime ==
  /\ pc = "runtime"
  /\ IF strict /\ options.runtime /\ ~RuntimeComplete(options, disk)
       THEN Refuse("runtime incomplete") ELSE Pass("classpath")

(* The jars of the bundle are listed once more, and by a dry run as well.  *)
BuildClasspath ==
  /\ pc = "classpath"
  /\ IF options.runtime /\ LwjglJars(options, disk) = {} THEN Refuse("runtime incomplete")
     ELSE /\ classpath' = Classpath(Resolved, options, disk)
          /\ pc' = IF strict THEN "verify" ELSE "build"
          /\ UNCHANGED <<inputs, wanted, chain, disk, command, why, lost, tries>>

VerifyPresent ==
  /\ pc = "verify"
  /\ IF ToSet(classpath) \subseteq disk THEN Pass("dirs") ELSE Refuse("classpath missing")

CreateDirs ==
  /\ pc = "dirs"
  /\ Pass("build") \/ Refuse("cannot create")

BuildCommand ==
  /\ pc = "build"
  /\ IF BuildError(Resolved, options, disk) # "" THEN Refuse(BuildError(Resolved, options, disk))
     ELSE /\ command' = <<Build(Resolved, options, disk)>> /\ pc' = "prepared"
          /\ UNCHANGED <<inputs, wanted, chain, disk, classpath, why, lost, tries>>

Stay == pc \in {"failed", "ready", "refused", "prepared"} /\ UNCHANGED vars

Next ==
  \/ FetchVersion \/ FetchFails \/ Preview \/ Download \/ Lose
  \/ Prepare \/ CheckOptions \/ PreflightJava \/ PreflightRuntime
  \/ BuildClasspath \/ VerifyPresent \/ CreateDirs \/ BuildCommand \/ Stay

Spec == Init /\ [][Next]_vars

-----------------------------------------------------------------------------
(* What some theorems suppose of the versions that are published.           *)
Libs == UNION {ToSet(File[id].libraries) : id \in DOMAIN File}

(* The versions declared of one artifact are ordered.  Those that can be   *)
(* written are not: 1-rc is below 1, 1 below 1-final, 1-final below 1-rc.  *)
VersionsOrdered(libs) ==
  /\ \A l \in libs : ~VersionLess(l.v, l.v)
  /\ \A l, m, n \in libs :
       /\ l.ga = m.ga /\ m.ga = n.ga
       /\ VersionLess(l.v, m.v) /\ VersionLess(m.v, n.v)
       => VersionLess(l.v, n.v)

(* Whether a library is used depends on the platform, not on the options.  *)
RulesArePlain(libs) == \A l \in libs : \A r \in ToSet(l.rules) : DOMAIN r.features = {}

(* A jar that one declaration gives no URL of is where its name says.      *)
HasJar(lib) == lib.artifact # "none" \/ (NativeClassifier(lib) = "" /\ lib.cls = "")
JarsServed(libs) ==
  /\ \A l \in libs : l.artifact \in {"none", "url", "path"}
  /\ \A l, m \in libs :
       /\ HasJar(l)
       /\ m.ga = l.ga /\ m.v = l.v /\ m.artifact = "none"
       => MavenPath(l, "") \in Published

(* The flags of the game that mean nothing without a value, and those that *)
(* join a server.                                                          *)
ValueFlags == {"--xuid", "--clientId", "--quickPlayPath"}
JoinFlags  == {"--server", "--quickPlayMultiplayer"}

Arg == [text : STRING, holes : SUBSET STRING, flag : BOOLEAN, of : STRING, by : STRING]

(* A value stands behind its flag, which has no placeholder, and a flag    *)
(* that needs one before its value.                                        *)
Paired(s) ==
  /\ s \in Seq(Arg)
  /\ \A i \in DOMAIN s : s[i].of # "" =>
       /\ i > 1 /\ s[i - 1].text = s[i].of /\ s[i - 1].flag /\ s[i - 1].holes = {}
       /\ s[i].text = "" /\ ~s[i].flag
  /\ \A i \in DOMAIN s : s[i].text \in ValueFlags =>
       /\ s[i].flag /\ s[i].holes = {}
       /\ i < Len(s) /\ s[i + 1].of = s[i].text

(* A modern manifest joins a server in one place, by quick play, an old    *)
(* one in one place by --server.                                           *)
Joins(s, f) == {i \in DOMAIN s : s[i].text = f}
ManifestsWellFormed ==
  \A id \in DOMAIN File :
    /\ IsSequence(File[id].arguments) /\ Len(File[id].arguments) <= 1
    /\ \A a \in ToSet(File[id].arguments) :
         /\ IsSequence(a.jvm) /\ \A e \in ToSet(a.jvm) : e.value \in Seq(Arg)
         /\ IsSequence(a.game)
         /\ \A e \in ToSet(a.game) : Paired(e.value) /\ Joins(e.value, "--server") = {}
         /\ \A k, l \in DOMAIN a.game :
              \A p \in Joins(a.game[k].value, "--quickPlayMultiplayer"),
                 q \in Joins(a.game[l].value, "--quickPlayMultiplayer") : k = l /\ p = q
    /\ Paired(File[id].minecraftArguments)
    /\ Joins(File[id].minecraftArguments, "--quickPlayMultiplayer") = {}
    /\ \A p, q \in Joins(File[id].minecraftArguments, "--server") : p = q

(* Options are of the enumerations in options.rs, and what the user adds   *)
(* is labelled so.                                                         *)
OptionsWellFormed ==
  \A o \in Options :
    /\ o.renderer \in {"gl4es", "ng_gl4es", "virgl", "zink", "angle"}
    /\ o.jvm \in Seq(Arg) /\ \A a \in ToSet(o.jvm) : a.by = "user"
    /\ o.game \in Seq(Arg) /\ \A a \in ToSet(o.game) : a.by = "user"

-----------------------------------------------------------------------------
(* Properties *)

(* The libraries of the merged version, each as the version nearest to the *)
(* leaf declares it, and no library twice, however long the chain.         *)
ChildOverrides ==
  pc = "ready" =>
    LET libs == Resolved.libraries IN
    /\ \A i, j \in DOMAIN libs : NameOf(libs[i]) = NameOf(libs[j]) => i = j
    /\ \A k \in DOMAIN chain : \A lib \in ToSet(chain[k].libraries) :
         \/ lib \in ToSet(libs)
         \/ \E n \in 1 .. k : \E l \in ToSet(chain[n].libraries) :
              l \in ToSet(libs) /\ NameOf(l) = NameOf(lib)

(* A command that was prepared with the checks on, and nothing lost since  *)
(* they began, finds what it names: the JRE, every entry of the classpath, *)
(* one jar of each artifact and none that another library has newer, the   *)
(* client behind all others, and what LWJGL and the AWT bridge load.       *)
PreparedIsWhole ==
  pc = "prepared" /\ strict /\ lost = {} =>
    /\ JavaExe(options) \in disk
    /\ ToSet(classpath) \subseteq disk /\ Last(classpath) = ClientJar(Resolved.id)
    /\ \A lib \in ToSet(Resolved.libraries) : OnClasspath(lib, options) =>
         \E e \in ToSet(classpath) :
           /\ e[1] = "libraries" /\ e[2] = lib.ga /\ ~VersionLess(e[3], lib.v)
           /\ \A f \in ToSet(classpath) : f[1] = "libraries" /\ f[2] = lib.ga => f = e
    /\ options.runtime =>
         /\ \A f \in RequiredNatives : NativeFile(options, f) \in disk
         /\ options.cacio => \A f \in {"shared", IF options.java = 8 THEN "androidnw" ELSE "tta"} :
              CacioFile(Backend(options), f) \in ToSet(classpath)

(* The plan and the classpath are made by different code from the same     *)
(* rules: when every file of the plan that the server has is on the disk,  *)
(* prepare misses no entry, unless the version has no client at all.       *)
InstalledIsAccepted ==
  pc = "refused" /\ why = "classpath missing" =>
    lost # {} \/ Resolved.client = "" \/ \E i \in ToSet(Plan) : Served(i.url) /\ i.dest \notin disk

(* The line the JVM gets: one classpath, the launcher's; its own value for *)
(* a property of its own, unless the user gives another; but for what the  *)
(* user adds, every flag of the game with the value the manifest gives it, *)
(* and a server to join at most once; and what the renderer needs in the   *)
(* environment as it needs it.                                             *)
CommandIsSound ==
  \A c \in ToSet(command) :
    /\ \A i \in DOMAIN c.jvm : c.jvm[i].text \in ClasspathFlags => i = Len(c.jvm) - 1
    /\ \A i, j \in DOMAIN c.jvm :
         i < j /\ c.jvm[i].by = "launcher" /\ c.jvm[i].text = c.jvm[j].text /\ IsProperty(c.jvm[i])
           => c.jvm[j].by = "user"
    /\ \A i \in DOMAIN c.game : c.game[i].by # "user" =>
         /\ c.game[i].of # "" => i > 1 /\ c.game[i - 1].text = c.game[i].of
         /\ c.game[i].text \in ValueFlags => i < Len(c.game) /\ c.game[i + 1].of = c.game[i].text
    /\ Cardinality({i \in DOMAIN c.game : c.game[i].by # "user" /\ c.game[i].text \in JoinFlags}) <= 1
    /\ \A k \in DOMAIN RendererEnv(options.renderer) :
         c.env[k] # RendererEnv(options.renderer)[k] => k \in DOMAIN options.overrides
===============================================================================
