-------------------------------- MODULE ModRules --------------------------------
(***************************************************************************)
(* What the core knows of a mod: its loader and manifest (mods/loader.rs,  *)
(* metadata.rs), version ranges (constraint.rs), and the check of the      *)
(* enabled mods against each other and the game (conflict.rs).             *)
(*                                                                         *)
(* An archive is the set of manifest entries it holds and the mods they    *)
(* declare; a version is the sequence of its numbers, without a qualifier. *)
(***************************************************************************)
EXTENDS Naturals, Sequences, SequencesExt, FiniteSets, Subsequences

NoRange == [form |-> "none"]       \* no constraint, or one that does not parse
Unversioned == <<>>

-----------------------------------------------------------------------------
(* constraint.rs.  A range is bare ("1.16.5"), carries a comparison        *)
(* (">=1.14", "^1.2", "~1.16"), is the wildcard "*", a Maven interval      *)
(* ("[1.0,2.0)", "[1.16.5]"), or a list of comparisons or of intervals     *)
(* (">=1.14,<1.17", ">=1.14 <1.17", "[1.0],[1.2]").                        *)

Pad(v) == SubSeq(v \o <<0, 0, 0>>, 1, 3)
Coerce(v) == IF v = Unversioned THEN Unversioned ELSE Pad(v)

Below(v, w) ==     \* numbers compared from the left, of equal length
  \E i \in DOMAIN w : v[i] < w[i] /\ \A j \in 1 .. i - 1 : v[j] = w[j]

Prefix(v, w) == SubSeq(v, 1, Len(w))

(* A comparison of the semver crate: a bound of fewer numbers than three   *)
(* stands for every version that begins with them.                         *)
AtLeast(w, v) == Prefix(v, w) = w \/ Below(w, Prefix(v, w))

Compare(op, w, v) ==
  CASE op = "="  -> Prefix(v, w) = w
    [] op = "<"  -> Below(Prefix(v, w), w)
    [] op = ">"  -> Below(w, Prefix(v, w))
    [] op = "<=" -> Prefix(v, w) = w \/ Below(Prefix(v, w), w)
    [] op = ">=" -> AtLeast(w, v)
    [] op = "~"  -> AtLeast(w, v) /\ \A i \in DOMAIN w : i <= 2 => v[i] = w[i]
    [] op = "^"  -> AtLeast(w, v)     \* up to the first number that is not 0
                    /\ \A i \in DOMAIN w : (\A j \in 1 .. i - 1 : w[j] = 0) => v[i] = w[i]

Interval(lo, hi, closedLo, closedHi) ==
  [form |-> "interval", lo |-> lo, hi |-> hi, closedLo |-> closedLo, closedHi |-> closedHi]
Comparison(op, v) == [form |-> "op", op |-> op, v |-> v]
Bare(v) == [form |-> "bare", v |-> v]
Pinned(v) == [form |-> "pinned", v |-> v]      \* [1.16.5]
AnyVersion == [form |-> "any"]
ListOf(rs) == [form |-> "list", of |-> rs]

Bounds(r) ==
  CASE r.form = "any"      -> {}
    [] r.form = "interval" -> {r.lo, r.hi}
    [] OTHER               -> {r.v}

(* VersionConstraint::parse(..).ok(): a list becomes an interval whose     *)
(* ends are not versions, semver reads three numbers at most, and what it  *)
(* cannot read is no constraint at all.                                    *)
Parse(r) ==
  IF r.form \in {"none", "list"} \/ \E w \in Bounds(r) : Len(w) > 3 THEN NoRange ELSE r

ConvertHalfOpen(r) ==   \* mutant: an upper bound never belongs to the range
  CASE r.form = "op"                  -> {<<r.op, r.v>>}
    [] r.form \in {"bare", "pinned"}  -> {<<"=", r.v>>}
    [] r.form = "any"                 -> {}
    [] r.form = "interval" ->
         (IF r.lo = Unversioned THEN {} ELSE {<<IF r.closedLo THEN ">=" ELSE ">", r.lo>>})
           \cup (IF r.hi = Unversioned THEN {} ELSE {<<"<", r.hi>>})

(* convert_maven_range: what the range asks of a version. *)
Convert(r) ==
  CASE r.form = "op"                  -> {<<r.op, r.v>>}
    [] r.form \in {"bare", "pinned"}  -> {<<"=", r.v>>}
    [] r.form = "any"                 -> {}
    [] r.form = "interval" ->
         (IF r.lo = Unversioned THEN {} ELSE {<<IF r.closedLo THEN ">=" ELSE ">", r.lo>>})
           \cup (IF r.hi = Unversioned THEN {} ELSE {<<IF r.closedHi THEN "<=" ELSE "<", r.hi>>})

(* VersionConstraint::matches: a version that cannot be read matches none. *)
Matches(r, version) ==
  Coerce(version) # Unversioned /\ \A c \in Convert(r) : Compare(c[1], c[2], Coerce(version))

(* Does a version fit an optional range?  (resolve_issues)                 *)
Fits(version, r) == r = NoRange \/ (version # Unversioned /\ Matches(r, version))

-----------------------------------------------------------------------------
(* loader.rs, metadata.rs, and the choice of a manifest in mods/mod.rs     *)

(* Manifest entries in the order they are probed, and their loader. *)
Probed == << <<"mods.toml", "forge">>, <<"mcmod.info", "forge">>, <<"quilt.mod.json", "quilt">>,
             <<"fabric.mod.json", "fabric">>, <<"litemod.json", "liteloader">> >>

ProbeOf(entries) ==
  LET i == SelectInSeq(Probed, LAMBDA p : p[1] \in entries)
  IN  IF i = 0 THEN <<"none", "vanilla">> ELSE Probed[i]

DetectLoader(archive) == ProbeOf(archive.entries)[2]

Dependency(id, range, required) == [id |-> id, range |-> range, required |-> required]

Placeholder == [id |-> "", version |-> Unversioned, minecraft |-> NoRange,
                dependencies |-> {}, conflicts |-> {}]

Read(d) == [d EXCEPT !.range = Parse(@)]
ReadAll(ds) == {Read(d) : d \in ToSet(ds)}

(* mods.toml keeps an edge on "forge" as a recommendation, so that it is   *)
(* never missed; mcmod.info keeps every edge, litemod.json has none.       *)
EdgesKept(manifest, ds) ==
  CASE manifest = "litemod.json" -> {}
    [] manifest = "mcmod.info"   -> ReadAll(ds)
    [] manifest = "mods.toml"    -> {d \in ReadAll(ds) : d.id \notin {"minecraft", "forge"}}
    [] OTHER                     -> {d \in ReadAll(ds) : d.id # "minecraft"}

(* The mod's own constraint: the field mcversion where there is one, else  *)
(* the first edge on "minecraft" that can be read.                         *)
MinecraftOf(manifest, m) ==
  LET said == Subsequence(m.depends,
                {i \in DOMAIN m.depends :
                   m.depends[i].id = "minecraft" /\ Parse(m.depends[i].range) # NoRange})
  IN  CASE manifest \in {"mcmod.info", "litemod.json"} -> Parse(m.mcversion)
        [] said # <<>> -> Parse(said[1].range)
        [] OTHER       -> NoRange

Metadata(manifest, m) ==
  [id |-> m.id, version |-> m.version,
   minecraft |-> MinecraftOf(manifest, m),
   dependencies |-> EdgesKept(manifest, m.depends),
   conflicts |-> IF manifest \in {"fabric.mod.json", "quilt.mod.json"} THEN ReadAll(m.breaks)
                 ELSE {}]

(* parse_file, then scan: mods without an id go, and a file that declares  *)
(* none, or cannot be read, stays visible with a placeholder.              *)
ParseFile(archive) ==
  LET manifest == ProbeOf(archive.entries)[1]
      parsed   == IF archive.torn THEN <<>>
                  ELSE [i \in DOMAIN archive.mods |-> Metadata(manifest, archive.mods[i])]
      named    == Subsequence(parsed, {i \in DOMAIN parsed : parsed[i].id # ""})
  IN  IF named = <<>> THEN <<Placeholder>> ELSE named

Primary(metas) == metas[1]     \* LocalModFile::primary, ModView::meta

-----------------------------------------------------------------------------
(* conflict.rs: resolve_issues over the primary mods of the enabled files, *)
(* in the order of the scan.                                               *)

Issue(kind, m, target) == [kind |-> kind, source |-> m.id, target |-> target]

(* by_id: the versions of the enabled mods of that id. *)
Versions(ms, id) == {ms[i].version : i \in {j \in DOMAIN ms : ms[j].id = id}}

IssueUnless(ok, issue) == IF ok THEN {} ELSE {issue}

MinecraftIssues(m, game) ==
  IssueUnless(m.minecraft = NoRange \/ game = Unversioned \/ Matches(m.minecraft, game),
              Issue("incompatible_minecraft", m, "minecraft"))

DependencyIssuesLax(ms, m, d) ==   \* mutant: presence is enough
  IssueUnless(Versions(ms, d.id) # {} \/ ~d.required, Issue("missing_dependency", m, d.id))

DependencyIssues(ms, m, d) ==
  LET present == Versions(ms, d.id) IN
  IF present = {}
    THEN IssueUnless(~d.required, Issue("missing_dependency", m, d.id))
    ELSE IssueUnless(~d.required \/ \E v \in present : Fits(v, d.range),
                     Issue("incompatible_dependency", m, d.id))

ConflictIssues(ms, m, c, game) ==
  IF c.id = "minecraft"
    THEN IssueUnless(game = Unversioned \/ ~(c.range = NoRange \/ Matches(c.range, game)),
                     Issue("incompatible_minecraft", m, "minecraft"))
    ELSE IssueUnless(\A v \in Versions(ms, c.id) : ~Fits(v, c.range),
                     Issue("conflict", m, c.id))

(* The first mod of the scan that shares its id: one report, whatever else *)
(* is doubled.                                                             *)
Doubled(ms, i) == \E j \in DOMAIN ms \ {i} : ms[j].id = ms[i].id
DuplicateIssues(ms) ==
  LET ds == {i \in DOMAIN ms : Doubled(ms, i)} IN
  IF ds = {} THEN {}
  ELSE LET i == CHOOSE k \in ds : \A j \in ds : k <= j
       IN  {Issue("duplicate_mod", ms[i], ms[i].id)}

ResolveIssues(ms, game) ==
  LET of(i) == MinecraftIssues(ms[i], game)
                 \cup (UNION {DependencyIssues(ms, ms[i], d) :
                                d \in {e \in ms[i].dependencies : e.id # "minecraft"}})
                 \cup (UNION {ConflictIssues(ms, ms[i], c, game) : c \in ms[i].conflicts})
  IN  DuplicateIssues(ms) \cup (UNION {of(i) : i \in DOMAIN ms})
===============================================================================
