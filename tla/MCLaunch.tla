-------------------------------- MODULE MCLaunch --------------------------------
(* Instance of GameLaunch for TLC: an old version with natives and a flat  *)
(* argument string, a modern one with rules, a mod loader on top of it, a  *)
(* version that inherits itself and one whose parent is not published.     *)
EXTENDS GameLaunch

Num(n) == [num |-> TRUE, val |-> n, pre |-> FALSE]
Pre    == [num |-> FALSE, val |-> 1, pre |-> TRUE]

Lib(ga, v, artifact, natives, rules) ==
  [ga |-> ga, v |-> v, cls |-> "", artifact |-> artifact, natives |-> natives,
   classified |-> natives # "", rules |-> rules]

Os(name, arch, version) == [name |-> name, arch |-> arch, version |-> version]
Rule(allow, os) == [allow |-> allow, os |-> os, features |-> NoFeatures]
When(f) == [allow |-> TRUE, os |-> <<>>, features |-> [x \in {f} |-> TRUE]]
AllButMac == <<Rule(TRUE, <<>>), Rule(FALSE, <<Os("mac", "", <<>>)>>)>>
OnlyOld ==
  LET ten == [head |-> TRUE, tail |-> TRUE,
              nodes |-> <<Node("1", "one"), Node("digit", "plus"), Node("any", "star")>>]
  IN  <<Rule(TRUE, <<Os("linux", "arm64", <<>>)>>), Rule(FALSE, <<Os("linux", "", <<ten>>)>>)>>

Version(id, parent) ==
  [id |-> id, inheritsFrom |-> parent, assetIndex |-> "", client |-> "", oldClient |-> "",
   libraries |-> <<>>, mainClass |-> "", minecraftArguments |-> <<>>, arguments |-> <<>>,
   javaVersion |-> <<>>, java_version |-> <<>>, logging |-> ""]

Text(f, hole) == <<Flag(f, "manifest"), Value({hole}, f, "manifest")>>
Entry(rules, value) == [rules |-> rules, value |-> value]

Old == [Version("1.12", "") EXCEPT
  !.oldClient = "1.12.jar", !.mainClass = "Main", !.javaVersion = <<8>>, !.logging = "client-1.12.xml",
  !.minecraftArguments = Text("--username", "auth_player_name") \o Text("--xuid", "auth_xuid")
                           \o Text("--accessToken", "auth_session"),
  !.libraries = <<Lib("guava", <<Num(2), Pre>>, "url", "", <<>>),
                  Lib("twitch", <<Num(1)>>, "none", "natives-linux", OnlyOld),
                  Lib("lwjgl", <<Num(2)>>, "none", "natives-linux", <<>>)>>]

New == [Version("1.20", "") EXCEPT
  !.client = "1.20.jar", !.assetIndex = "5", !.mainClass = "Main", !.javaVersion = <<17>>,
  !.arguments = <<[game |-> <<Entry(<<>>, Text("--clientId", "clientid") \o Text("--xuid", "auth_xuid")),
                              Entry(<<When("has_custom_resolution")>>,
                                    Text("--width", "resolution_width") \o Text("--height", "resolution_height")),
                              Entry(<<When("is_quick_play_multiplayer")>>,
                                    Text("--quickPlayMultiplayer", "quickPlayMultiplayer")),
                              Entry(<<When("is_demo_user")>>, <<Flag("--demo", "manifest")>>)>>,
                   jvm  |-> <<Entry(<<>>, <<Property("-Djava.library.path", {"natives_directory"}, "manifest")>>),
                              Entry(<<>>, <<Property("-Djna.tmpdir", {"natives_directory"}, "manifest")>>),
                              Entry(<<>>, Text("-cp", "classpath")),
                              Entry(<<Rule(TRUE, <<Os("windows", "", <<>>)>>)>>, <<>>)>>]>>,
  !.libraries = <<Lib("guava", <<Num(2)>>, "path", "", AllButMac),
                  Lib("jna", <<Num(5)>>, "none", "", <<>>),
                  Lib("text", <<Num(1)>>, "url", "natives-linux", OnlyOld)>>]

Loader == [Version("forge", "1.20") EXCEPT
  !.mainClass = "Loader",
  !.libraries = <<Lib("guava", <<Num(2), Num(1)>>, "url", "", <<>>),
                  Lib("jna", <<Num(5)>>, "url", "", AllButMac)>>]

Broken == [Version("odd", "") EXCEPT !.client = "odd.jar", !.mainClass = "Main",
  !.arguments = <<[game |-> <<Entry(<<>>, <<>>)>>, jvm |-> <<>>]>>]

MCFile == [id \in {"1.12", "1.20", "forge", "loop", "orphan", "odd"} |->
             CASE id = "1.12" -> Old [] id = "1.20" -> New [] id = "forge" -> Loader
               [] id = "odd" -> Broken
               [] id = "loop" -> Version("loop", "loop") [] id = "orphan" -> Version("orphan", "gone")]

MCPublished == {MavenPath(Lib("jna", <<Num(5)>>, "none", "", <<>>), "")}

Default ==
  [arch |-> "arm64", demo |-> FALSE, resized |-> FALSE, fullscreen |-> FALSE, quick |-> "none",
   account |-> TRUE, memory |-> [min |-> 0, max |-> 1], absolute |-> TRUE, java |-> 17,
   lwjgl |-> "3.3.3", cacio |-> TRUE, runtime |-> TRUE, transport |-> FALSE, nativeLib |-> TRUE,
   renderer |-> "gl4es", perf |-> "maximum", overrides |-> [k \in {} |-> ""], online |-> TRUE,
   server |-> "none", jvm |-> <<>>, game |-> <<>>]

MCOptions ==
  {Default,
   [Default EXCEPT !.java = 8, !.online = FALSE, !.server = "port", !.renderer = "zink", !.transport = TRUE],
   [Default EXCEPT !.quick = "multi", !.server = "host", !.fullscreen = TRUE, !.renderer = "angle",
                   !.jvm = <<Flag("-cp", "user"), Value({}, "-cp", "user"),
                             Property("-Duser.home", {}, "user")>>,
                   !.game = <<Flag("--server", "user")>>,
                   !.overrides = [k \in {"LIBGL_ES"} |-> "1"]],
   [Default EXCEPT !.runtime = FALSE, !.cacio = FALSE, !.online = FALSE, !.resized = TRUE, !.demo = TRUE,
                   !.server = "host", !.renderer = "virgl", !.perf = "low_power", !.nativeLib = FALSE],
   [Default EXCEPT !.memory = [min |-> 2, max |-> 1]],
   [Default EXCEPT !.game = <<Value({"clientid"}, "", "user")>>, !.quick = "single"]}

MCRuntime ==
  {<<"java", 8>>, <<"java", 17>>}
  \cup {<<"rt", "lwjgl", "3.3.3", f>> : f \in {"lwjgl.jar", "opengl.jar"}}
  \cup {<<"rt", "natives", "3.3.3", "arm64", f>> : f \in RequiredNatives}
  \cup {<<"rt", "cacio", "cacio8", f>> : f \in {"shared", "androidnw", "ResConfHack"}}
  \cup {<<"rt", "cacio", "cacio17", f>> : f \in {"shared", "tta", "agent"}}

ASSUME MCData ==
  /\ VersionsOrdered(Libs) /\ RulesArePlain(Libs) /\ JarsServed(Libs)
  /\ ManifestsWellFormed /\ OptionsWellFormed
===============================================================================
