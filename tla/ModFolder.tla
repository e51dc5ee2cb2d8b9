-------------------------------- MODULE ModFolder --------------------------------
(***************************************************************************)
(* One instance's folder of mods (mods/mod.rs), of resource packs          *)
(* (resource_pack.rs) or of shader packs (shader.rs).  Whether an archive  *)
(* is enabled is its name: a file is disabled by the suffix ".disabled".   *)
(* The caller works with what its last scan returned.  Copies are not      *)
(* atomic, and the launcher may be killed inside one.                      *)
(***************************************************************************)
EXTENDS ModRules

CONSTANTS
  Archive,    \* archives a user installs, each with the name it comes under
  GameVersions, \* Minecraft versions of the instance, Unversioned when none
  Kinds,      \* subset of {"mods", "packs"}
  MaxSteps    \* bound: operations

ASSUME FolderAssumption ==
  /\ \A a \in Archive : a.entries \subseteq {p[1] : p \in Range(Probed)} /\ ~a.torn
  /\ Kinds \subseteq {"mods", "packs"} /\ MaxSteps \in Nat

VARIABLES
  kind,     \* what the folder holds
  folder,   \* the archive under each name
  shown,    \* the names of the caller's last scan
  copying,  \* the name a copy is under way to, and the archive
  toggling, \* LocalMod::set_enabled: the names left to toggle
  issues,   \* what the last resolve reported
  gameVersion, steps

folderVars == <<kind, folder, shown, copying, toggling, issues, gameVersion, steps>>

-----------------------------------------------------------------------------
(* A name: a stem, whether it is spelled with capitals, and the suffix.    *)
Name == [stem : {a.stem : a \in Archive}, cased : BOOLEAN, off : BOOLEAN]
NameOf(a) == [stem |-> a.stem, cased |-> a.cased, off |-> FALSE]
NoCopy == [on |-> FALSE]

(* is_enabled, and toggled_name: the suffix goes from the lower-cased name. *)
IsEnabled(n) == ~n.off

Toggled(n, on) ==
  IF on = ~n.off THEN n
  ELSE IF on THEN [n EXCEPT !.off = FALSE, !.cased = FALSE] ELSE [n EXCEPT !.off = TRUE]

(* scan: by the extension of the name as it is.  A directory has none to   *)
(* look at: packs may be directories, mods may not.                        *)
IsDirectory(n) == kind = "packs" /\ folder[n].dir
Scanned == {n \in DOMAIN folder : ~n.off \/ IsDirectory(n)}

(* The files of a scan are sorted by lower-cased name; those whose names   *)
(* differ in case only come in the order of the directory.                 *)
InOrder(s) == SetToSeq(s)
EnabledMods ==
  LET ns == InOrder({n \in Scanned : IsEnabled(n)})
  IN  [i \in DOMAIN ns |-> Primary(ParseFile(folder[ns[i]]))]

Put(n, a) == [m \in DOMAIN folder \cup {n} |-> IF m = n THEN a ELSE folder[m]]
Without(n) == [m \in DOMAIN folder \ {n} |-> folder[m]]
RenamedAfterDelete(n, m) ==   \* mutant: the target is cleared before the source is read
  [k \in DOMAIN folder \ {n, m} |-> folder[k]]

Renamed(n, m) ==     \* rename(2): what was under the new name is gone
  [k \in (DOMAIN folder \ {n}) \cup {m} |-> IF k = m THEN folder[n] ELSE folder[k]]

FolderInit ==
  /\ kind \in Kinds /\ gameVersion \in GameVersions
  /\ folder = [n \in {} |-> {}] /\ shown = {} /\ copying = NoCopy /\ toggling = {}
  /\ issues = {} /\ steps = 0

Ready == copying = NoCopy /\ toggling = {} /\ steps < MaxSteps
Count == steps' = steps + 1 /\ UNCHANGED <<kind, gameVersion>>

-----------------------------------------------------------------------------
Scan ==
  /\ Ready /\ Count
  /\ shown' = Scanned /\ UNCHANGED <<folder, copying, toggling, issues>>

Resolve ==
  /\ Ready /\ Count /\ kind = "mods"
  /\ issues' = ResolveIssues(EnabledMods, gameVersion)
  /\ shown' = Scanned /\ UNCHANGED <<folder, copying, toggling>>

(* install: std::fs::copy to the final name, over what is there. *)
Install(a) ==
  /\ Ready /\ Count
  /\ folder' = Put(NameOf(a), [a EXCEPT !.torn = TRUE])
  /\ copying' = [on |-> TRUE, name |-> NameOf(a), archive |-> a]
  /\ issues' = {} /\ UNCHANGED <<shown, toggling>>

Copied ==
  /\ copying.on
  /\ folder' = Put(copying.name, copying.archive) /\ copying' = NoCopy
  /\ UNCHANGED <<kind, shown, toggling, issues, gameVersion, steps>>

(* set_enabled of one file of the scan: a name that has gone meanwhile is  *)
(* an error.                                                               *)
Toggle(n, on) ==
  IF n \in DOMAIN folder THEN folder' = Renamed(n, Toggled(n, on)) ELSE UNCHANGED folder

SetEnabled(n, on) ==
  /\ Ready /\ Count
  /\ n \in shown /\ Toggle(n, on)
  /\ shown' = IF n \in DOMAIN folder THEN (shown \ {n}) \cup {Toggled(n, on)} ELSE shown
  /\ issues' = {} /\ UNCHANGED <<copying, toggling>>

(* LocalMod::set_enabled: the files of one id, one after the other; an     *)
(* error ends it half way.                                                 *)
GroupOf(n) == {m \in shown \cap DOMAIN folder :
                 Primary(ParseFile(folder[m])).id = Primary(ParseFile(folder[n])).id}

SetGroupEnabled(n, on) ==
  /\ Ready /\ Count /\ kind = "mods"
  /\ n \in shown \cap DOMAIN folder
  /\ toggling' = {[name |-> m, on |-> on] : m \in GroupOf(n)}
  /\ issues' = {} /\ UNCHANGED <<folder, shown, copying>>

ToggleNext ==
  /\ \E t \in toggling :
       /\ Toggle(t.name, t.on)
       /\ toggling' = IF t.name \in DOMAIN folder THEN toggling \ {t} ELSE {}
  /\ UNCHANGED <<kind, shown, copying, issues, gameVersion, steps>>

Delete(n) ==
  /\ Ready /\ Count
  /\ n \in shown
  /\ folder' = IF n \in DOMAIN folder THEN Without(n) ELSE folder
  /\ shown' = shown \ {n} /\ issues' = {} /\ UNCHANGED <<copying, toggling>>

KillCopy ==
  /\ copying.on \/ toggling # {}
  /\ copying' = NoCopy /\ toggling' = {} /\ shown' = {}
  /\ UNCHANGED <<kind, folder, issues, gameVersion, steps>>

FolderFinished == steps = MaxSteps /\ copying = NoCopy /\ toggling = {} /\ UNCHANGED folderVars

FolderNext ==
  \/ Scan \/ Resolve \/ Copied \/ ToggleNext \/ KillCopy \/ FolderFinished
  \/ \E a \in Archive : Install(a)
  \/ \E n \in shown : Delete(n)
  \/ \E n \in shown, on \in BOOLEAN : SetEnabled(n, on) \/ SetGroupEnabled(n, on)

FolderSpec == FolderInit /\ [][FolderNext]_folderVars

-----------------------------------------------------------------------------
(* What the theorem supposes of the archives and of the instance: versions *)
(* are lists of numbers, and a manifest states a range in one of the       *)
(* notations, whether or not it can be read.                               *)
Operators == {"=", "<", ">", "<=", ">=", "~", "^"}
RangeOver(r, IsLimit(_)) ==
  \/ r = NoRange \/ r.form = "any"
  \/ r.form \in {"bare", "pinned"} /\ IsLimit(r.v)
  \/ r.form = "op" /\ r.op \in Operators /\ IsLimit(r.v)
  \/ /\ r.form = "interval" /\ {r.closedLo, r.closedHi} \subseteq BOOLEAN
     /\ \A w \in {r.lo, r.hi} : w = Unversioned \/ IsLimit(w)

IsNumbers(w) == w \in Seq(Nat) /\ w # <<>>
IsBound(w)   == w \in Seq(Nat) /\ Len(w) \in 1 .. 3
IsStated(r)  == r.form = "list" \/ RangeOver(r, IsNumbers)
IsRange(r)   == RangeOver(r, IsBound)

ModsWellFormed ==
  /\ \A a \in Archive :
       /\ DOMAIN a = {"stem", "cased", "dir", "torn", "entries", "mods"} /\ IsSequence(a.mods)
       /\ \A m \in ToSet(a.mods) :
            /\ m.version \in Seq(Nat) /\ IsStated(m.mcversion)
            /\ m.depends \in Seq(ToSet(m.depends)) /\ m.breaks \in Seq(ToSet(m.breaks))
            /\ \A d \in ToSet(m.depends) \cup ToSet(m.breaks) :
                 DOMAIN d = {"id", "range", "required"} /\ IsStated(d.range)
  /\ GameVersions \subseteq Seq(Nat)

-----------------------------------------------------------------------------
(* Properties *)

(* The mods the game will load: the first of every enabled archive. *)
Loaded == {Primary(ParseFile(folder[n])) : n \in {m \in DOMAIN folder : ~m.off}}
Wanted(m) == {d \in m.dependencies : d.required /\ d.id # "minecraft"}

(* The numbers of w that every version in ~w or ^w has.                    *)
KeptNumbers(op, w) ==
  CASE op = "~" -> IF Len(w) = 3 THEN <<w[1], w[2]>> ELSE w
    [] op = "^" -> IF w[1] # 0 THEN <<w[1]>>
                   ELSE IF Len(w) > 1 /\ w[2] # 0 THEN <<w[1], w[2]>> ELSE w

(* A reading of a range that goes by its ends, not by comparisons: the     *)
(* versions that begin with w are those from w on and before the next of   *)
(* as many numbers.                                                        *)
Within(v, r) ==
  LET x        == Pad(v)
      first(w) == Pad(w)
      next(w)  == Pad([w EXCEPT ![Len(w)] = @ + 1])
      from(y)  == y = x \/ Below(y, x)
      least(w, closed) == from(IF closed THEN first(w) ELSE next(w))
      most(w, closed)  == Below(x, IF closed THEN next(w) ELSE first(w))
  IN  /\ v # Unversioned
      /\ r.form \in {"bare", "pinned"} => least(r.v, TRUE) /\ most(r.v, TRUE)
      /\ r.form = "op" =>
           /\ r.op \in {"=", ">=", ">", "~", "^"} => least(r.v, r.op # ">")
           /\ r.op \in {"=", "<=", "<"} => most(r.v, r.op # "<")
           /\ r.op \in {"~", "^"} => most(KeptNumbers(r.op, r.v), TRUE)
      /\ r.form = "interval" =>
           /\ r.lo # Unversioned => least(r.lo, r.closedLo)
           /\ r.hi # Unversioned => most(r.hi, r.closedHi)

Works(m) ==
  /\ m.minecraft = NoRange \/ gameVersion = Unversioned \/ Within(gameVersion, m.minecraft)
  /\ \A d \in Wanted(m) :
       \E o \in Loaded : o.id = d.id /\ (d.range = NoRange \/ Within(o.version, d.range))
  /\ \A c \in m.conflicts :
       IF c.id = "minecraft"
         THEN gameVersion # Unversioned => c.range # NoRange /\ ~Within(gameVersion, c.range)
         ELSE \A o \in Loaded : o.id = c.id => c.range # NoRange /\ ~Within(o.version, c.range)

Enabled == {n \in DOMAIN folder : ~n.off}
OneEach == \A n, m \in Enabled :
  n # m => Primary(ParseFile(folder[n])).id # Primary(ParseFile(folder[m])).id

(* A loadout is reported without an issue exactly when every enabled mod   *)
(* finds what it needs in range, meets nothing it breaks on, and no id is  *)
(* there twice: after any sequence of installations, toggles and removals. *)
(* The ranges are those the manifest readers could read (Parse).           *)
ReportIsExact == Resolve => (issues' = {} <=> OneEach /\ \A m \in Loaded : Works(m))

(* Toggling one archive or a group of them loses nothing but an archive    *)
(* whose very name, in lower case, the toggled one has now.                *)
LostOnlyToNamesakes ==
  ToggleNext \/ (\E n \in shown, on \in BOOLEAN : SetEnabled(n, on)) =>
    \A n \in DOMAIN folder :
      \/ \E m \in DOMAIN folder' : folder'[m] = folder[n]
      \/ \E k \in DOMAIN folder \ DOMAIN folder' : folder'[n] = folder[k]

(* Both, of every step. *)
FolderIsSound == [][ReportIsExact /\ LostOnlyToNamesakes]_folderVars
===============================================================================
