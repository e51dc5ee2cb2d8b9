------------------------------- MODULE LaunchPlan -------------------------------
(***************************************************************************)
(* The command of a game (launch/classpath.rs, args.rs, options.rs,        *)
(* env.rs, render.rs, runtime_assets.rs, command.rs and the AWT bridge of  *)
(* awt.rs) as functions of the merged version, the options, and the files  *)
(* on the disk.  A file is a path; "rt" paths lie in app_runtime.          *)
(***************************************************************************)
EXTENDS GameVersion, Subsequences

-----------------------------------------------------------------------------
(* options.rs, runtime_assets.rs, render.rs: what the options stand for    *)

PlatformOf(o) == [os |-> "linux", arch |-> ArchOf(o.arch), version |-> <<>>]

FeaturesOf(o) ==
  [is_demo_user |-> o.demo,
   has_custom_resolution |-> o.resized \/ o.fullscreen,
   has_quick_plays_support |-> o.quick # "none",
   is_quick_play_singleplayer |-> o.quick = "single",
   is_quick_play_multiplayer |-> o.quick = "multi",
   is_quick_play_realms |-> o.quick = "realms"]

OptionsValid(o) == o.account /\ o.memory.max > 0 /\ o.memory.min <= o.memory.max /\ o.absolute

JavaExe(o) == <<"java", o.java>>

LwjglFile(o, f)  == <<"rt", "lwjgl", o.lwjgl, f>>
NativeFile(o, f) == <<"rt", "natives", o.lwjgl, o.arch, f>>
CacioFile(b, f)  == <<"rt", "cacio", b, f>>

(* lwjgl_native_manifest: the natives without which nothing draws.         *)
RequiredNatives == {"liblwjgl.so", "liblwjgl_opengl.so"}

LwjglJars(o, disk) ==
  {p \in disk : Len(p) = 4 /\ p[1] = "rt" /\ p[2] = "lwjgl" /\ p[3] = o.lwjgl}
NativesThere(o, disk) ==
  {p \in disk : Len(p) = 5 /\ SubSeq(p, 1, 4) = <<"rt", "natives", o.lwjgl, o.arch>>}

(* AwtBackend and its artifacts: the part each plays, and those required.  *)
Backend(o) == IF ~o.cacio THEN "headless" ELSE IF o.java = 8 THEN "cacio8" ELSE "cacio17"
Artifacts(b) ==
  CASE b = "cacio8"  -> [shared |-> "classpath", androidnw |-> "classpath", ResConfHack |-> "boot"]
    [] b = "cacio17" -> [shared |-> "classpath", tta |-> "classpath", agent |-> "agent"]
    [] OTHER         -> [f \in {} |-> ""]
CacioThere(b, disk, role) ==
  {f \in DOMAIN Artifacts(b) : Artifacts(b)[f] = role /\ CacioFile(b, f) \in disk}
CacioUsable(b, disk) ==
  \A f \in DOMAIN Artifacts(b) : Artifacts(b)[f] = "classpath" => CacioFile(b, f) \in disk

(* AppRuntime::verify, LwjglNativeBundle::discover, AwtBridge::discover.    *)
RuntimeComplete(o, disk) ==
  /\ LwjglJars(o, disk) # {}
  /\ \A f \in RequiredNatives : NativeFile(o, f) \in disk
  /\ CacioUsable(Backend(o), disk)

-----------------------------------------------------------------------------
(* classpath.rs.  A version is a list of segments, [num, val, pre].        *)

Substituted == {"lwjgl", "jinput"}     \* what SUBSTITUTED_PREFIXES catches

SegmentLess(x, y) == IF x.num = y.num THEN x.val < y.val ELSE y.num

(* compare_maven_versions: what follows where the two differ first.        *)
VersionLess(v, w) ==
  LET n  == Min({Len(v), Len(w)})
      ds == {i \in 1 .. n : v[i] # w[i]}
  IN  IF ds # {} THEN SegmentLess(v[Min(ds)], w[Min(ds)])
      ELSE IF Len(v) < Len(w) THEN ~w[n + 1].pre
      ELSE Len(w) < Len(v) /\ v[n + 1].pre

(* Natives go elsewhere, and a library of natives has no jar of its own.   *)
OnClasspath(lib, o) ==
  /\ IsAllowed(lib, PlatformOf(o), FeaturesOf(o))
  /\ lib.ga \notin Substituted
  /\ lib.artifact # "none" \/ (NativeClassifier(lib) = "" /\ lib.cls = "")

CollapseFirst(jars, lib) ==   \* mutant: the first of the duplicates stays
  IF \E i \in DOMAIN jars : jars[i].ga = lib.ga THEN jars ELSE Append(jars, lib)

(* Of the versions of one artifact the highest stays, where the first was. *)
Collapse(jars, lib) ==
  LET i == SelectInSeq(jars, LAMBDA j : j.ga = lib.ga)
  IN  IF i = 0 THEN Append(jars, lib)
      ELSE IF VersionLess(jars[i].v, lib.v) THEN [jars EXCEPT ![i] = lib] ELSE jars

(* ClasspathBuilder::build: the libraries, the bundle, the client.         *)
Classpath(resolved, o, disk) ==
  LET with == {i \in DOMAIN resolved.libraries : OnClasspath(resolved.libraries[i], o)}
      libs == FoldLeft(Collapse, <<>>, Subsequence(resolved.libraries, with))
      b    == IF o.runtime /\ o.cacio THEN Backend(o) ELSE "headless"
  IN  [i \in DOMAIN libs |-> MavenPath(libs[i], "")]
      \o (IF o.runtime THEN SetToSeq(LwjglJars(o, disk)) ELSE <<>>)
      \o SetToSeq({CacioFile(b, f) : f \in CacioThere(b, disk, "classpath")})
      \o <<ClientJar(resolved.id)>>

NativeDirs(o, disk) ==
  IF o.runtime /\ NativesThere(o, disk) # {} THEN <<<<"rt", "natives", o.lwjgl, o.arch>>>> ELSE <<>>

-----------------------------------------------------------------------------
(* args.rs.  An argument has a text, the placeholders in it, and whether   *)
(* it begins with a dash; `of' is the flag it is the value of, `by' who    *)
(* put it there.                                                           *)

Flag(t, by)         == [text |-> t, holes |-> {}, flag |-> TRUE, of |-> "", by |-> by]
Value(holes, f, by) == [text |-> "", holes |-> holes, flag |-> FALSE, of |-> f, by |-> by]
Property(key, holes, by) == [text |-> key, holes |-> holes, flag |-> TRUE, of |-> "", by |-> by]
PropertyKeys == {"-Djava.library.path", "-Djna.tmpdir", "-Duser.home", "-Dlauncher.brand",
                 "-Djava.awt.headless", "-Dawt.toolkit", "-Drc.awt.bridge", "-Dlog4j.config",
                 "-DignoreList"}
IsProperty(a) == a.text \in PropertyKeys

(* flatten_arguments: entries whose rules do not apply go.                 *)
Flatten(entries, o) ==
  FlattenSeq([i \in DOMAIN entries |->
                IF RulesAllow(entries[i].rules, PlatformOf(o), FeaturesOf(o))
                  THEN entries[i].value ELSE <<>>])

(* An entry without a usable value is an error, unless its rules keep it   *)
(* out.                                                                    *)
Malformed(entries, o) ==
  \E i \in DOMAIN entries :
    entries[i].value = <<>> /\ RulesAllow(entries[i].rules, PlatformOf(o), FeaturesOf(o))

PruneKeepsFlag(args, known) ==   \* mutant: the flag stays when its value goes
  SelectSeq(args, LAMBDA a : a.holes \subseteq known)

(* prune_unresolved: with a value goes the dashed argument before it.      *)
PruneStep(known, out, a) ==
  IF a.holes \subseteq known THEN Append(out, a)
  ELSE IF out # <<>> /\ Last(out).flag THEN Front(out) ELSE out

Prune(args, known) == FoldLeft(LAMBDA out, a : PruneStep(known, out, a), <<>>, args)

HasFlag(args, t) == \E i \in DOMAIN args : args[i].text = t

-----------------------------------------------------------------------------
(* env.rs, and the environments of the renderers and profiles in           *)
(* options.rs and render.rs                                                *)

LibraryPath(resolved, o, dirs) ==
  <<<<"natives", resolved.id>>>> \o dirs
  \o (IF o.nativeLib THEN <<<<"app", "lib">>>> ELSE <<>>)
  \o <<<<"java", o.java, "lib">>, <<"system", "lib">>>>

RendererEnv(r) ==
  CASE r \in {"gl4es", "ng_gl4es"} -> [LIBGL_ES |-> "2", LIBGL_NOERROR |-> "1"]
    [] r = "virgl" -> [GALLIUM_DRIVER |-> "virpipe", MESA_GL_VERSION_OVERRIDE |-> "4.3"]
    [] r = "zink"  -> [GALLIUM_DRIVER |-> "zink", MESA_GL_VERSION_OVERRIDE |-> "4.6"]
    [] r = "angle" -> [LIBGL_ES |-> "3", MESA_GL_VERSION_OVERRIDE |-> "4.6"]

TranslationEnv(o) ==
  CASE o.renderer = "angle" -> [ANGLE_DEFAULT_PLATFORM |-> "vulkan", ANGLE_NO_VALIDATION |-> "1"]
    [] o.renderer \in {"gl4es", "ng_gl4es"} /\ o.nativeLib -> [LIBGL_GLEXT |-> "lib"]
    [] OTHER -> [k \in {} |-> ""]

ProfileEnv(p) ==
  CASE p = "low_power" -> [LIBGL_NOERROR |-> "1", MESA_NO_ERROR |-> "1"]
    [] p \in {"high_performance", "maximum"} ->
         [LIBGL_NOERROR |-> "1", MESA_NO_ERROR |-> "1", LIBGL_NOINDIRECT |-> "1"]
    [] OTHER -> [k \in {} |-> ""]

Over(f, g) ==      \* f, and g over it
  [k \in DOMAIN f \cup DOMAIN g |-> IF k \in DOMAIN g THEN g[k] ELSE f[k]]

BuildEnv(o) ==
  LET own == Over([POJAV_RENDERER |-> o.renderer, JAVA_HOME |-> "java", LD_LIBRARY_PATH |-> "libs"],
                  RendererEnv(o.renderer))
  IN  Over(Over(Over(own, TranslationEnv(o)), ProfileEnv(o.perf)), o.overrides)

-----------------------------------------------------------------------------
(* command.rs *)

ClasspathFlags == {"-cp", "-classpath", "--class-path"}
ReplacedJvm    == {"-Djava.library.path", "-XX:HeapDumpPath"}

(* The placeholders the launcher can fill.                                 *)
Substitutions(o) ==
  {"auth_player_name", "auth_uuid", "auth_access_token", "auth_session", "user_type",
   "version_name", "game_directory", "natives_directory", "classpath", "library_directory",
   "launcher_name", "resolution_width", "resolution_height"}
  \cup (IF o.online THEN {"auth_xuid", "clientid"} ELSE {})
  \cup (CASE o.quick = "single" -> {"quickPlaySingleplayer", "quickPlayPath"}
          [] o.quick = "multi"  -> {"quickPlayMultiplayer", "quickPlayPath"}
          [] o.quick = "realms" -> {"quickPlayRealms", "quickPlayPath"}
          [] OTHER -> {})

(* AwtBridge::jvm_args *)
AwtArgs(o, disk) ==
  LET b == Backend(o)
      own(t) == Property(t, {}, "launcher")
  IN  <<own("-Djava.awt.headless")>>
      \o (IF b = "headless" THEN <<>>
          ELSE <<own("-Dawt.toolkit")>>
            \o (IF o.runtime /\ CacioThere(b, disk, "boot") # {} THEN <<own("-Xbootclasspath/p")>> ELSE <<>>)
            \o (IF o.runtime /\ CacioThere(b, disk, "agent") # {} THEN <<own("-javaagent")>> ELSE <<>>)
            \o (IF o.transport THEN <<own("-Drc.awt.bridge")>> ELSE <<>>))

(* logging_argument: the file is looked for under the id of the manifest.  *)
LoggingArgument(resolved, disk) ==
  IF resolved.logging # "" /\ LogConfig(<<resolved.logging>>) \in disk
    THEN <<Property("-Dlog4j.config", {}, "launcher")>> ELSE <<>>

BaseJvmArgs(resolved, o, disk) ==
  <<Flag("-Xmx", "launcher")>>
  \o [i \in 1 .. 4 |-> Property(<<"-Dlauncher.brand", "-Djava.library.path", "-Djna.tmpdir",
                                  "-Duser.home">>[i], {}, "launcher")]
  \o AwtArgs(o, disk) \o LoggingArgument(resolved, disk)

(* The manifest's arguments behind the launcher's: not its classpath, and  *)
(* no property that is there already.                                      *)
AddManifestAny(acc, a) ==   \* mutant: a property of the manifest comes on top
  IF acc.skip THEN [acc EXCEPT !.skip = FALSE]
  ELSE IF a.text \in ClasspathFlags THEN [acc EXCEPT !.skip = TRUE]
  ELSE [acc EXCEPT !.args = Append(@, a)]

AddManifest(acc, a) ==
  IF acc.skip THEN [acc EXCEPT !.skip = FALSE]
  ELSE IF a.text \in ClasspathFlags THEN [acc EXCEPT !.skip = TRUE]
  ELSE IF a.text \in ReplacedJvm \/ (IsProperty(a) /\ HasFlag(acc.args, a.text)) THEN acc
  ELSE [acc EXCEPT !.args = Append(@, a)]

AddUser(acc, a) ==
  IF acc.skip THEN [acc EXCEPT !.skip = FALSE]
  ELSE IF a.text \in ClasspathFlags THEN [acc EXCEPT !.skip = TRUE]
  ELSE [acc EXCEPT !.args = Append(@, a)]

JvmArgs(resolved, o, disk) ==
  LET manifest == FlattenSeq([i \in DOMAIN resolved.arguments |-> Flatten(resolved.arguments[i].jvm, o)])
      first == FoldLeft(AddManifest, [args |-> BaseJvmArgs(resolved, o, disk), skip |-> FALSE],
                        Prune(manifest, Substitutions(o)))
      all   == FoldLeft(AddUser, [args |-> first.args, skip |-> FALSE], o.jvm)
  IN  all.args \o <<Flag("-cp", "launcher"), Value({}, "-cp", "launcher")>>

(* game_args.  A version knows quick play when its manifest names it,      *)
(* whether or not the features let the entry through.                      *)
Modern(resolved) == resolved.arguments # <<>> /\ resolved.arguments[1].game # <<>>
Templates(resolved, o) ==
  IF Modern(resolved) THEN Flatten(resolved.arguments[1].game, o) ELSE resolved.legacy
QuickPlayCapable(resolved) ==
  \E e \in UNION {ToSet(a.game) : a \in ToSet(resolved.arguments)} :
    HasFlag(e.value, "--quickPlayMultiplayer")

With(args, f) == args \o <<Flag(f, "launcher"), Value({}, f, "launcher")>>

AddWindow(args, o) ==
  IF o.fullscreen
    THEN IF HasFlag(args, "--fullscreen") THEN args ELSE Append(args, Flag("--fullscreen", "launcher"))
    ELSE IF HasFlag(args, "--width") \/ HasFlag(args, "--height") THEN args
         ELSE With(With(args, "--width"), "--height")

AddDemo(args, o) ==
  IF o.demo /\ ~HasFlag(args, "--demo") THEN Append(args, Flag("--demo", "launcher")) ELSE args

AddServerTwice(args, o, capable) ==   \* mutant: quick play is not asked for first
  IF o.server = "none" THEN args
  ELSE IF capable THEN With(args, "--quickPlayMultiplayer") ELSE With(args, "--server")

AddServer(args, o, capable) ==
  IF o.server = "none" THEN args
  ELSE IF capable
    THEN IF HasFlag(args, "--quickPlayMultiplayer") THEN args ELSE With(args, "--quickPlayMultiplayer")
  ELSE IF HasFlag(args, "--server") THEN args
  ELSE IF o.server = "port" THEN With(With(args, "--server"), "--port") ELSE With(args, "--server")

GameArgs(resolved, o) ==
  AddServer(AddDemo(AddWindow(Prune(Templates(resolved, o), Substitutions(o)), o), o), o,
            QuickPlayCapable(resolved))
  \o o.game

(* What CommandBuilder::build refuses: in the order it looks.              *)
Unresolved(args) == \E i \in DOMAIN args : args[i].by = "user" /\ args[i].holes # {}
BuildError(resolved, o, disk) ==
  IF resolved.main_class = "" THEN "no main class"
  ELSE IF \E a \in ToSet(resolved.arguments) : Malformed(a.jvm, o) \/ Malformed(a.game, o)
    THEN "malformed argument"
  ELSE IF ~Modern(resolved) /\ resolved.legacy = <<>> THEN "no game arguments"
  ELSE IF Unresolved(JvmArgs(resolved, o, disk)) \/ Unresolved(GameArgs(resolved, o))
    THEN "unresolved placeholder"
  ELSE ""

Build(resolved, o, disk) ==
  [jvm |-> JvmArgs(resolved, o, disk), game |-> GameArgs(resolved, o),
   env |-> BuildEnv(o), libs |-> LibraryPath(resolved, o, NativeDirs(o, disk))]
===============================================================================
