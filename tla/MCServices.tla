------------------------------- MODULE MCServices -------------------------------
(***************************************************************************)
(* Instance for TLC of five components that share nothing: the supply of   *)
(* runtimes, a folder of mods, the pools, the renderer plugins and the     *)
(* network client.  One of them runs in a behaviour and the others stay    *)
(* where they started, so the states explored are the sum of theirs and    *)
(* not their product.  For the same reason a client that resolves its      *)
(* hosts is not used afterwards: what it resolved changes no get.          *)
(***************************************************************************)
EXTENDS RuntimeSupply, ModFolder, BufPool, Plugins, NetworkClient

VARIABLE part
allVars == <<part, supplyVars, folderVars, poolVars, pluginVars, clientVars>>

Init ==
  /\ part \in {"supply", "folder", "pool", "plugins", "client", "dns"}
  /\ SupplyInit /\ FolderInit /\ PoolInit /\ PluginInit /\ ClientInit
  /\ part # "folder" => kind = "mods" /\ gameVersion = Unversioned
  /\ part # "plugins" => \A id \in DOMAIN registry : registry[id] \in Builtin
  /\ part # "dns" => mode = "system"
  /\ uses = IF part = "client" THEN MaxUses ELSE 0

Next ==
  /\ UNCHANGED part
  /\ \/ /\ part = "supply"  /\ SupplyNext
        /\ UNCHANGED <<folderVars, poolVars, pluginVars, clientVars>>
     \/ /\ part = "folder"  /\ FolderNext
        /\ UNCHANGED <<supplyVars, poolVars, pluginVars, clientVars>>
     \/ /\ part = "pool"    /\ PoolNext
        /\ UNCHANGED <<supplyVars, folderVars, pluginVars, clientVars>>
     \/ /\ part = "plugins" /\ PluginNext
        /\ UNCHANGED <<supplyVars, folderVars, poolVars, clientVars>>
     \/ /\ part \in {"client", "dns"} /\ ClientNext
        /\ UNCHANGED <<supplyVars, folderVars, poolVars, pluginVars>>

Spec == Init /\ [][Next]_allVars

-----------------------------------------------------------------------------
(* Two homes of four files; a kill and an update in any of three calls.    *)
MCContent  == [universal |-> {"release", "rt"}, bin |-> {"java", "libjvm"}]
MCRequired == {"java", "release", "libjvm"}

(* A library in two versions whose names differ in case, mods that need    *)
(* one of them, one that breaks on it, and a file without a manifest; for  *)
(* each manifest of Forge, and with ranges in every notation.              *)
File(stem, cased, entries, mods) ==
  [stem |-> stem, cased |-> cased, dir |-> FALSE, torn |-> FALSE, entries |-> entries,
   mods |-> mods]
Mod(id, version, mcversion, depends, breaks) ==
  [id |-> id, version |-> version, mcversion |-> mcversion, depends |-> depends,
   breaks |-> breaks]

Lib1 == File("lib", TRUE, {"fabric.mod.json"}, <<Mod("lib", <<1, 5>>, NoRange, <<>>, <<>>)>>)
Lib2 == File("lib", FALSE, {"fabric.mod.json"},
             <<Mod("lib", <<2, 0, 1>>, NoRange,
                   <<Dependency("minecraft", Comparison("~", <<1, 20, 1>>), TRUE)>>, <<>>)>>)
App  == File("app", FALSE, {"mods.toml", "mcmod.info"},
             <<Mod("app", <<1>>, NoRange,
                   <<Dependency("minecraft", Interval(<<1, 16>>, <<1, 17>>, TRUE, FALSE), TRUE),
                     Dependency("forge", Comparison(">=", <<36>>), TRUE),
                     Dependency("lib", Interval(<<1>>, <<1, 5>>, TRUE, TRUE), TRUE)>>, <<>>)>>)
Old  == File("old", FALSE, {"mcmod.info"},
             <<Mod("old", <<1, 12, 2, 7>>, Bare(<<1, 16>>),
                   <<Dependency("minecraft", Bare(<<1, 12>>), TRUE),
                     Dependency("forge", Interval(<<14, 23, 5, 2768>>, <<>>, TRUE, FALSE), FALSE),
                     Dependency("lib", Comparison("^", <<1, 4>>), TRUE)>>, <<>>)>>)
Foe  == File("foe", FALSE, {"quilt.mod.json", "fabric.mod.json"},
             <<Mod("foe", <<1>>, NoRange,
                   <<Dependency("gui", AnyVersion, FALSE),
                     Dependency("minecraft", ListOf({Comparison(">=", <<1, 14>>)}), TRUE),
                     Dependency("minecraft", AnyVersion, TRUE)>>,
                   <<Dependency("lib", Interval(<<1, 5>>, <<>>, FALSE, FALSE), TRUE),
                     Dependency("minecraft", Pinned(<<1, 20, 1>>), TRUE)>>)>>)
Data == [File("data", TRUE, {}, <<>>) EXCEPT !.dir = TRUE]

MCArchive == {Lib1, Lib2, App, Old, Foe, Data}
MCVersions == {<<1, 16, 5>>, <<1, 20, 1>>, Unversioned}

ASSUME MCMods == ModsWellFormed

(* Two buckets; a request for each, and one above both. *)
MCCap == <<16, 32>>

(* Beside the built-in renderers and the presets: a plugin with libraries  *)
(* of its own in two versions of one hash, and one that takes the id of a  *)
(* preset and names a library outside its directory.                       *)
Library(name, abi, source, optional) ==
  [name |-> name, abi |-> abi, source |-> source, optional |-> optional, sized |-> FALSE]
Foreigner(id, guarded, trust, libs) ==
  [id |-> id, abis |-> {}, guarded |-> guarded, trust |-> trust, author |-> "ann",
   libs |-> libs]
MCForeign == {
  Foreigner("sdl", TRUE, "untrusted",
    <<Library("sdl", "arm64", "plugin_owned", FALSE), Library("lwjgl", "arm64", "jre_lib", TRUE)>>),
  Foreigner("sdl", TRUE, "user_approved",
    <<Library("sdl", "arm64", "plugin_owned", TRUE), Library("lwjgl", "arm64", "jre_lib", TRUE)>>),
  Foreigner("opengles2_ng", FALSE, "untrusted",
    <<Library("ng_gl4es", "x86", "native_lib_dir", FALSE),
      Library("../sdl", "all", "native_lib_dir", TRUE)>>) }

(* A mirror of Mojang's hosts, one of another host and one of both; two    *)
(* upstreams, whose answers hold an A, an AAAA, a CNAME, nothing, or fail. *)
MCMirrors == <<[id |-> "bmclapi", hosts |-> {}], [id |-> "forge", hosts |-> {"maven"}],
               [id |-> "all", hosts |-> {"maven", "mojang"}]>>
Answer(json, status, types) == [json |-> json, status |-> status, types |-> types]
MCBody == {Answer(TRUE, 0, {1, 5}), Answer(TRUE, 0, {28}), Answer(TRUE, 0, {5}),
           Answer(TRUE, 3, {1}), Answer(FALSE, 0, {1})}
MCStatic    == [mojang |-> {"fixed"}, maven |-> {}, other |-> {"fixed"}]
MCProtected == <<"mojang", "maven">>
MCServers   == <<"alidns", "google">>
===============================================================================
