--------------------------------- MODULE Plugins ---------------------------------
(***************************************************************************)
(* The renderer plugins (plugins/).  A registry keeps one descriptor per   *)
(* id; validate judges a descriptor against the files of the device and a  *)
(* list of trusted authors and descriptors; resolve_native_lib_dirs later  *)
(* says which directories the game must search.  Between the two, plugins  *)
(* are registered over one another and libraries come and go.              *)
(***************************************************************************)
EXTENDS Naturals, Sequences, FiniteSets, Subsequences

CONSTANTS
  Foreign,   \* descriptors of others
  Pathlike,  \* names that are no bare file name: empty, with a separator, "."
  Abi,       \* what the game may run on
  Asked,     \* bound: the ids validated, resolved and registered
  Mutable,   \* bound: the libraries that come and go; the others are absent
  MaxTrust   \* bound: entries of the trust store

NativeLib ==
  [name : STRING, abi : STRING, optional : BOOLEAN, sized : BOOLEAN,
   source : {"native_lib_dir", "plugin_owned", "lwjgl_natives", "jre_lib"}]

ASSUME ForeignAssumption == \A p \in Foreign : p.libs \in Seq(NativeLib)

InNativeLibDir(name, optional, sized) ==
  [name |-> name, abi |-> "all", source |-> "native_lib_dir", optional |-> optional,
   sized |-> sized]

(* renderer_plugin: the id of each built-in renderer, and the library that *)
(* LWJGL opens.                                                            *)
GlLibName ==
  [opengles2 |-> "gl4es_114", opengles2_ng |-> "ng_gl4es", opengles2_vgpu |-> "vgpu",
   opengles3_desktopgl_zink_kopper |-> "OSMesa_8", opengles3_angle |-> "GLESv2_angle"]

RendererPlugin(id) ==
  [id |-> id, abis |-> {}, guarded |-> FALSE, trust |-> "system", author |-> "none",
   libs |-> <<InNativeLibDir(GlLibName[id], FALSE, FALSE)>>]

(* FCL_APK_RENDERER_MANIFEST: what the APK ships for each of them, with    *)
(* its size and digest.                                                    *)
ApkLibs ==
  [opengles2 |-> <<"gl4es_114", "glapi", "glxshim">>,
   opengles2_ng |-> <<"ng_gl4es", "glapi">>,
   opengles2_vgpu |-> <<"vgpu", "virgl_test_server", "EGL_mesa">>,
   opengles3_desktopgl_zink_kopper |-> <<"OSMesa_8", "zink_dri", "vulkan_freedreno", "EGL_mesa">>,
   opengles3_angle |-> <<"GLESv2_angle", "EGL_angle", "spirv-cross-c-shared">>]

(* preset_registry: each built-in with what the APK ships; the library     *)
(* LWJGL opens is required, the others are not.                            *)
PresetOf(p) ==
  [p EXCEPT !.abis = {"arm64"},
            !.libs = [i \in DOMAIN ApkLibs[p.id] |->
                        InNativeLibDir(ApkLibs[p.id][i], ApkLibs[p.id][i] # GlLibName[p.id], TRUE)]]

ASSUME BareNames ==
  \A id \in DOMAIN ApkLibs : \A i \in DOMAIN ApkLibs[id] : ApkLibs[id][i] \notin Pathlike

Builtin == {RendererPlugin(id) : id \in DOMAIN GlLibName}
Preset  == {PresetOf(p) : p \in Builtin}
Descriptor == Builtin \cup Preset \cup Foreign

(* Where the loader looks for a library of plugin p.                       *)
DirOf(p, lib, abi) ==
  CASE lib.source = "native_lib_dir" -> <<"lib">>
    [] lib.source = "plugin_owned"   -> <<"lib", p.id>>
    [] lib.source = "lwjgl_natives"  -> <<"lib", "lwjgl", abi>>
    [] lib.source = "jre_lib"        -> <<"lib", "jre">>

PathOf(p, lib, abi) == [dir |-> DirOf(p, lib, abi), name |-> lib.name]

SupportsAbi(p, abi) == p.abis = {} \/ abi \in p.abis
NativeLibsFor(p, abi) ==
  Subsequence(p.libs, {i \in DOMAIN p.libs : p.libs[i].abi \in {"all", abi}})
LibsFor(p, abi) == {NativeLibsFor(p, abi)[i] : i \in DOMAIN NativeLibsFor(p, abi)}

PluginPath == UNION {{PathOf(t[1], lib, t[2]) : lib \in LibsFor(t[1], t[2])} :
                       t \in Descriptor \X Abi}
MutablePath == {path \in PluginPath : path.name \in Mutable}

(* integrity_hash: neither the trust of the descriptor, nor whether it is  *)
(* to be validated, nor what it says of a library beyond its place.        *)
IntegrityHash(p) ==
  [id |-> p.id, abis |-> p.abis, author |-> p.author,
   libs |-> [i \in DOMAIN p.libs |-> [name |-> p.libs[i].name, abi |-> p.libs[i].abi,
                                      source |-> p.libs[i].source]]]

VARIABLES
  registry,   \* the descriptor under each id
  present,    \* the size of each library on the device: "absent", "right", "altered"
              \* (in digest only), "wrong" (in size)
  store,      \* the trust store: authors and hashes
  report,     \* the last report: of which descriptor, for which ABI
  resolved,   \* what the last resolve returned
  gone        \* history: libraries removed since a report found a plugin safe

SizeOf(path) == IF path \in MutablePath THEN present[path] ELSE "absent"

pluginVars == <<registry, present, store, report, resolved, gone>>

-----------------------------------------------------------------------------
NoAnswer == <<"none">>
NoReport == [safe |-> FALSE, abi |-> "none", of |-> "none"]

PluginInit ==
  /\ registry \in {[id \in DOMAIN GlLibName |-> RendererPlugin(id)],
                   [id \in DOMAIN GlLibName |-> PresetOf(RendererPlugin(id))]}
  /\ present = [path \in MutablePath |-> "absent"]
  /\ store = [authors |-> {}, distrusted |-> {}, hashes |-> {}]
  /\ report = NoReport /\ resolved = NoAnswer /\ gone = {}

(* register: the last of an id wins.                                       *)
Register(p) ==
  /\ registry' = [id \in DOMAIN registry \cup {p.id} |-> IF id = p.id THEN p ELSE registry[id]]
  /\ UNCHANGED <<present, store, report, gone>> /\ resolved' = NoAnswer

(* trust_author, trust_hash, distrust_author.                              *)
Trust(p) ==
  /\ \/ store' = [store EXCEPT !.authors = @ \cup {p.author}]
     \/ store' = [store EXCEPT !.hashes = @ \cup {IntegrityHash(p)}]
     \/ store' = [store EXCEPT !.distrusted = @ \cup {p.author}]
  /\ Cardinality(store'.authors \cup store'.distrusted) + Cardinality(store'.hashes) <= MaxTrust
  /\ resolved' = NoAnswer /\ UNCHANGED <<registry, present, report, gone>>

Trusted(p) ==
  \/ p.trust \in {"system", "user_approved"}
  \/ p.author \in store.authors \ store.distrusted
  \/ IntegrityHash(p) \in store.hashes

-----------------------------------------------------------------------------
(* The findings of validate: an error forbids loading, a warning does not. *)
Finding(severity, code) == [severity |-> severity, code |-> code]

LibFindingsSized(p, lib, abi) ==   \* mutant: only a library with a known size is looked for
  LET there == SizeOf(PathOf(p, lib, abi)) IN
  CASE lib.sized /\ there = "absent" ->
         {Finding(IF lib.optional THEN "warning" ELSE "error", "missing")}
    [] there = "wrong" /\ lib.sized  -> {Finding("error", "size_mismatch")}
    [] OTHER                         -> {}

LibFindings(p, lib, abi) ==
  LET there == SizeOf(PathOf(p, lib, abi)) IN
  CASE there = "absent"              ->
         {Finding(IF lib.optional THEN "warning" ELSE "error", "missing")}
    [] there = "wrong" /\ lib.sized  -> {Finding("error", "size_mismatch")}
    [] OTHER                         -> {}

(* validate_name: asked of every library, whatever its ABI.                *)
HasUnsafeName(p) == \E i \in DOMAIN p.libs : p.libs[i].name \in Pathlike

Findings(p, abi) ==
  (UNION {LibFindings(p, lib, abi) : lib \in LibsFor(p, abi)})
    \cup {f \in {Finding("error", "unsafe_name")} : HasUnsafeName(p)}
    \cup {f \in {Finding("error", "unsupported_abi")} : ~SupportsAbi(p, abi)}
    \cup {f \in {Finding("error", "untrusted")} : p.guarded /\ ~Trusted(p)}

Errors(issues) == {f \in issues : f.severity = "error"}

Validate(id, abi) ==
  /\ id \in DOMAIN registry
  /\ report' = [safe |-> Errors(Findings(registry[id], abi)) = {}, abi |-> abi,
                 of |-> registry[id]]
  /\ gone' = {} /\ resolved' = NoAnswer /\ UNCHANGED <<registry, present, store>>

(* resolve_native_lib_dirs: in the order of the descriptor, each directory *)
(* once; neither the report nor the trust store, supports_abi or           *)
(* validate_name is asked.                                                 *)
Exists(p, lib, abi) == SizeOf(PathOf(p, lib, abi)) # "absent"

MissingOf(p, abi) == {lib \in LibsFor(p, abi) : ~lib.optional /\ ~Exists(p, lib, abi)}

DirsOf(p, abi) ==
  LET libs   == NativeLibsFor(p, abi)
      dir(i) == DirOf(p, libs[i], abi)
      there  == {i \in DOMAIN libs : Exists(p, libs[i], abi)}
      pushed == Subsequence(libs, {i \in there : \A j \in there : dir(j) = dir(i) => i <= j})
  IN  [i \in DOMAIN pushed |-> DirOf(p, pushed[i], abi)]

ResolveDirs(id, abi) ==
  /\ id \in DOMAIN registry
  /\ resolved' = IF MissingOf(registry[id], abi) # {} THEN <<"missing_file">>
                                                      ELSE <<"dirs", DirsOf(registry[id], abi)>>
  /\ UNCHANGED <<registry, present, store, report, gone>>

-----------------------------------------------------------------------------
(* verify_native_lib_dir, over all that the APK ships: verify_on_disk      *)
(* compares the size, then the digest.                                     *)
VerifyOnDisk(path) ==
  CASE SizeOf(path) = "absent"  -> "Missing"
    [] SizeOf(path) = "wrong"   -> "SizeMismatch"
    [] SizeOf(path) = "altered" -> "HashMismatch"
    [] SizeOf(path) = "right"   -> "Match"

VerifyNativeLibDir ==
  [id \in DOMAIN ApkLibs |->
     [i \in DOMAIN ApkLibs[id] |-> VerifyOnDisk([dir |-> <<"lib">>, name |-> ApkLibs[id][i]])]]

(* Libraries come with a plugin or an update, and go.  The APK's alone     *)
(* have a size and a digest to differ from.                                *)
Sizes ==
  [path \in MutablePath |->
     {"right"} \cup {s \in {"wrong", "altered"} :
                       path.dir = <<"lib">> /\ \E id \in DOMAIN ApkLibs, i \in 1 .. 4 :
                         i \in DOMAIN ApkLibs[id] /\ ApkLibs[id][i] = path.name}]

Provide(path, size) ==
  /\ present[path] # size
  /\ present' = [present EXCEPT ![path] = size]
  /\ gone' = gone \ {path}
  /\ resolved' = NoAnswer /\ UNCHANGED <<registry, store, report>>

Withdraw(path) ==
  /\ present[path] # "absent"
  /\ present' = [present EXCEPT ![path] = "absent"]
  /\ gone' = gone \cup {q \in {path} : report.safe}
  /\ resolved' = NoAnswer /\ UNCHANGED <<registry, store, report>>

PluginNext ==
  \/ \E p \in Preset \cup Foreign : p.id \in Asked /\ Register(p)
  \/ \E p \in Foreign : Trust(p)
  \/ \E id \in Asked, abi \in Abi : Validate(id, abi) \/ ResolveDirs(id, abi)
  \/ \E path \in MutablePath : Withdraw(path) \/ \E s \in Sizes[path] : Provide(path, s)

PluginSpec == PluginInit /\ [][PluginNext]_pluginVars

-----------------------------------------------------------------------------
(* Properties *)

Judged(id, abi) == report.safe /\ report.abi = abi /\ report.of = registry[id]
Needed(p, abi)  == {lib \in LibsFor(p, abi) : ~lib.optional}

(* Directories for a plugin that a report calls safe_to_load fail to       *)
(* resolve only when a library it needs went away since, and those that    *)
(* resolve hold every library it needs, each directly in one of them; and  *)
(* a preset whose every library matches the APK's inventory is safe on the *)
(* APK's ABI.  So validate, the resolver and the inventory agree on what   *)
(* is there, whatever is registered, provided or removed in between.  (On  *)
(* its content they need not: no one looks again at a replaced library.)   *)
SafeResolves ==
  [][\A id \in Asked \cap DOMAIN registry, abi \in Abi :
       LET p == registry[id] IN
       /\ Judged(id, abi) /\ ResolveDirs(id, abi) =>
            IF resolved' = <<"missing_file">>
              THEN \E lib \in Needed(p, abi) : PathOf(p, lib, abi) \in gone
              ELSE \A lib \in Needed(p, abi) :
                     /\ Exists(p, lib, abi) /\ lib.name \notin Pathlike
                     /\ \E i \in DOMAIN resolved'[2] : resolved'[2][i] = DirOf(p, lib, abi)
       /\ abi = "arm64" /\ p \in Preset /\ Validate(id, abi) =>
            LET verified == {VerifyNativeLibDir[id][i] : i \in DOMAIN VerifyNativeLibDir[id]}
            IN  verified \subseteq {"Match"} => report'.safe
    ]_pluginVars
===============================================================================
