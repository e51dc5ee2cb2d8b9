------------------------------- MODULE GameVersion -------------------------------
(***************************************************************************)
(* What a version.json means (game/platform.rs, library.rs, version.rs,    *)
(* resolve.rs): which rules apply to a platform, what a chain of inherited *)
(* versions merges to, and the files to download for the result.           *)
(*                                                                         *)
(* An optional text is "" when absent, any other optional value a sequence *)
(* of at most one element.  The coordinate of a library is split already:  *)
(* `ga' (group and artifact), `v' (its version) and `cls' (classifier).    *)
(***************************************************************************)
EXTENDS Naturals, Sequences, SequencesExt, FiniteSets, FiniteSetsExt

-----------------------------------------------------------------------------
(* platform.rs.  A pattern is the list of nodes parse_pattern makes of it, *)
(* and whether it was written with ^ and with $.                           *)

Node(tok, quant) == [tok |-> tok, quant |-> quant]
Digits == {"0", "1"}                                  \* bound: the digits of a version

OsOf(name) == IF name = "mac" THEN "osx" ELSE name    \* OsName::from_rule
ArchOf(name) ==                                       \* Arch::from_rule
  CASE name = "amd64" -> "x86_64" [] name = "arm64" -> "aarch64" [] OTHER -> name

MatchOne(tok, ch) == tok = "any" \/ tok = ch \/ (tok = "digit" /\ ch \in Digits)

(* matches_at: the text can be cut so that every node takes its part.      *)
MatchesAt(nodes, text) ==
  \E cut \in [0 .. Len(nodes) -> 0 .. Len(text)] :
    /\ cut[0] = 0 /\ cut[Len(nodes)] = Len(text)
    /\ \A i \in DOMAIN nodes :
         LET taken == cut[i] - cut[i - 1] IN
         /\ cut[i] >= cut[i - 1]
         /\ CASE nodes[i].quant = "one"  -> taken = 1
              [] nodes[i].quant = "plus" -> taken >= 1
              [] nodes[i].quant = "star" -> TRUE
         /\ \A k \in cut[i - 1] + 1 .. cut[i] : MatchOne(nodes[i].tok, text[k])

(* version_matches: without a $ at the end the ^ is not stripped either,   *)
(* and is read as a character.                                             *)
VersionMatches(p, version) ==
  MatchesAt((IF p.head /\ ~p.tail THEN <<Node("^", "one")>> ELSE <<>>) \o p.nodes, version)

OsMatches(os, platform) ==
  /\ os.name = "" \/ OsOf(os.name) = platform.os
  /\ os.arch = "" \/ ArchOf(os.arch) = platform.arch
  /\ \A p \in ToSet(os.version) : VersionMatches(p, platform.version)

-----------------------------------------------------------------------------
(* library.rs *)

(* A feature nobody set is off.                                            *)
Feature(features, f) == f \in DOMAIN features /\ features[f]
NoFeatures == [f \in {} |-> FALSE]

RuleMatches(rule, platform, features) ==
  /\ \A os \in ToSet(rule.os) : OsMatches(os, platform)
  /\ \A f \in DOMAIN rule.features : Feature(features, f) = rule.features[f]

(* Of the rules that match, the last one decides.                          *)
RulesAllow(rules, platform, features) ==
  LET ms == {i \in DOMAIN rules : RuleMatches(rules[i], platform, features)}
  IN  rules = <<>> \/ (ms # {} /\ rules[Max(ms)].allow)

IsAllowed(lib, platform, features) == RulesAllow(lib.rules, platform, features)

NameOf(lib) == <<lib.ga, lib.v, lib.cls>>
MavenPath(lib, cls) == <<"libraries", lib.ga, lib.v, cls>>
NativeClassifier(lib) == lib.natives        \* for linux; "" when it names none

ArtifactUrlGiven(lib) ==   \* mutant: no URL is made from the coordinate
  IF lib.artifact = "none" THEN <<>> ELSE <<"given", NameOf(lib)>>

(* An URL is what it was made from: the manifest, or the coordinate.       *)
ArtifactUrl(lib) ==
  IF lib.artifact \in {"url", "path"} THEN <<"given", NameOf(lib)>>
  ELSE IF lib.cls # "" THEN <<>> ELSE <<"made", MavenPath(lib, "")>>

ClassifierUrl(lib) ==
  IF lib.classified THEN <<"given", MavenPath(lib, lib.natives)>>
  ELSE <<"made", MavenPath(lib, lib.natives)>>

-----------------------------------------------------------------------------
(* version.rs *)

(* The keys serde reads.  The files Mojang publishes spell the required    *)
(* Java "javaVersion", which is none of them.                              *)
ParseVersion(file) ==
  [id |-> file.id, inherits |-> file.inheritsFrom, index |-> file.assetIndex,
   client |-> file.client, old_client |-> file.oldClient, libraries |-> file.libraries,
   main_class |-> file.mainClass, legacy |-> file.minecraftArguments,
   arguments |-> file.arguments, java |-> file.java_version, logging |-> file.logging]

(* The nearest version of the chain, root first, that defines a field.     *)
Nearest(chain, Field(_), absent) ==
  LET is == {i \in DOMAIN chain : Field(chain[i]) # absent}
  IN  IF is = {} THEN absent ELSE Field(chain[Max(is)])

ClientOf(v) == IF v.client # "" THEN v.client ELSE v.old_client

MergeAppends(libs, lib) == Append(libs, lib)   \* mutant: a redefinition is one more

(* One more library: it takes the place of one of its name.                *)
MergeLibrary(libs, lib) ==
  LET i == SelectInSeq(libs, LAMBDA l : NameOf(l) = NameOf(lib))
  IN  IF i = 0 THEN Append(libs, lib) ELSE [libs EXCEPT ![i] = lib]

MergeChain(chain) ==
  [id |-> Nearest(chain, LAMBDA v : v.id, ""),
   index |-> Nearest(chain, LAMBDA v : v.index, ""),
   client |-> Nearest(chain, ClientOf, ""),
   main_class |-> Nearest(chain, LAMBDA v : v.main_class, ""),
   legacy |-> Nearest(chain, LAMBDA v : v.legacy, <<>>),
   arguments |-> Nearest(chain, LAMBDA v : v.arguments, <<>>),
   java |-> Nearest(chain, LAMBDA v : v.java, <<>>),
   logging |-> Nearest(chain, LAMBDA v : v.logging, ""),
   libraries |-> FoldLeft(MergeLibrary, <<>>,
                          FlattenSeq([i \in DOMAIN chain |-> chain[i].libraries]))]

-----------------------------------------------------------------------------
(* resolve.rs *)

Item(url, dest, kind) == [url |-> url, dest |-> dest, kind |-> kind]

ClientJar(id)  == <<"versions", id>>
IndexFile(id)  == <<"indexes", id>>
LogConfig(id)  == <<"log_configs", id>>
ObjectFile(h)  == <<"objects", h>>

(* DownloadPlan::add, and dedup: one item for a destination, the first.    *)
AddItem(plan, item) ==
  IF \E i \in ToSet(plan) : i.dest = item.dest THEN plan ELSE Append(plan, item)

LibraryItems(lib, platform) ==
  IF ~IsAllowed(lib, platform, NoFeatures) THEN <<>>
  ELSE (IF ArtifactUrl(lib) = <<>> THEN <<>>
        ELSE <<Item(ArtifactUrl(lib), MavenPath(lib, ""), "library")>>)
    \o (IF NativeClassifier(lib) = "" THEN <<>>
        ELSE <<Item(ClassifierUrl(lib), MavenPath(lib, lib.natives), "library")>>)

(* The logging file is stored under its id with ".xml" put behind it, also *)
(* when the id, as Mojang's do, ends so already.                           *)
BuildPlan(resolved, platform) ==
  FoldLeft(AddItem, <<>>,
    (IF resolved.client = "" THEN <<>>
     ELSE <<Item(<<"given", <<resolved.client>>>>, ClientJar(resolved.id), "client")>>)
    \o (IF resolved.index = "" THEN <<>>
        ELSE <<Item(<<"given", <<resolved.index>>>>, IndexFile(resolved.index), "index")>>)
    \o FlattenSeq([i \in DOMAIN resolved.libraries |->
                     LibraryItems(resolved.libraries[i], platform)])
    \o (IF resolved.logging = "" THEN <<>>
        ELSE <<Item(<<"given", <<resolved.logging>>>>,
                    LogConfig(<<resolved.logging, "xml">>), "logging")>>))

(* plan_assets: objects are stored, and fetched, by their hash; a hash too *)
(* short to have a directory is passed over.                               *)
PlanAssets(objects) ==
  {Item(<<"object", h>>, ObjectFile(h), "object") : h \in objects \ {""}}
===============================================================================
