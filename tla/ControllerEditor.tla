---------------------------- MODULE ControllerEditor ----------------------------
(***************************************************************************)
(* The editor of control layouts and the settings it shares with the       *)
(* settings screen (ControlLayoutViewModel.kt, SettingsViewModel.kt over   *)
(* their SharedPreferences).  Everything runs on the main thread, so a tap *)
(* is one step; but each edit() is applied in memory at once and reaches   *)
(* the disk later, in order and file by file: a kill keeps some state the  *)
(* file had since it was last written.                                     *)
(*                                                                         *)
(* A name is the words its slug is made of, and the id of a layout of the  *)
(* user's is such words behind "custom".  How an element looks (position,  *)
(* size, keys) is a member of Look: every edit clamps it the same way.     *)
(***************************************************************************)
EXTENDS Naturals, Sequences, SequencesExt, FiniteSets, Subsequences

CONSTANTS
  Catalog,        \* the layouts shipped with the app, the default first
  Title,           \* names that can be typed
  Look,
  ElementKind,         \* of the ids of new elements: a button's, a joystick's
  MaxElements,    \* bound: elements of a layout
  MaxEdits,       \* bound: taps that change something
  MaxEditorKills  \* bound: kills

Fresh == CHOOSE l \in Look : TRUE
Nil == <<>>       \* no element picked; an entry that does not parse

VARIABLES
  layout,         \* _layout: id, name, elements and whether it is editable
  listed,         \* _savedLayouts: what the picker shows beside the catalog
  picked,         \* _selectedElementId
  dirty,          \* _dirty
  saved,          \* rc_control_layouts: the index and the body under each id
  savedOnDisk,
  prefs,          \* rc_settings: controllerLayoutId, and the rest
  prefsOnDisk,
  shownPrefs,     \* SettingsViewModel._settings
  edits,          \* taps left
  editorKills     \* kills so far

savedVars == <<saved, savedOnDisk>>
prefsVars == <<prefs, prefsOnDisk>>
editorVars == <<layout, listed, picked, dirty, savedVars, prefsVars, shownPrefs, edits,
                editorKills>>

-----------------------------------------------------------------------------
(* Layouts *)

Ids(seq) == {seq[i].id : i \in DOMAIN seq}
Without(seq, id) == Subsequence(seq, {i \in DOMAIN seq : seq[i].id # id})
WithElement(els, e) == Append(Without(els, e.id), e)
BuiltIn(id) == {Catalog[i] : i \in {j \in DOMAIN Catalog : Catalog[j].id = id}}

(* The first candidate that is not taken, counting from n; custom ids try  *)
(* the bare slug before.                                                   *)
Custom(slug) == <<"custom">> \o slug
FirstFree(stem, n, taken) ==
  LET k == CHOOSE m \in n..n + Cardinality(taken) :
             /\ Append(stem, m) \notin taken
             /\ \A j \in n..m - 1 : Append(stem, j) \in taken
  IN  Append(stem, k)

(* The app ships at least one layout, which cannot be edited and whose id  *)
(* no name of the user's gives; no id is there twice, of a layout or of an *)
(* element.                                                                *)
EditorAssumption ==
  /\ Catalog # <<>> /\ IsSequence(Catalog)
  /\ \A i, j \in DOMAIN Catalog : Catalog[i].id = Catalog[j].id => i = j
  /\ \A l \in Range(Catalog) :
       /\ l = [id |-> l.id, name |-> l.name, elements |-> l.elements, editable |-> FALSE]
       /\ IsSequence(l.id) /\ IsSequence(l.elements)
       /\ \A i, j \in DOMAIN l.elements : l.elements[i].id = l.elements[j].id => i = j
       /\ \A e \in Range(l.elements) :
            e = [id |-> e.id, look |-> e.look] /\ IsSequence(e.id) /\ e.look \in Look
  /\ \A n \in Title \cup {l.name : l \in Range(Catalog)} : IsSequence(n)
  /\ \A n \in Title : Custom(n) \notin Ids(Catalog)
  /\ Look # {} /\ MaxEdits \in Nat

CountedId(prefix, els) == <<prefix, Len(els) + 1>>     \* mutant: taken or not
UniqueElementId(prefix, els) == FirstFree(<<prefix>>, Len(els) + 1, Ids(els))

FirstOnly(slug) == Custom(slug)   \* mutant: the saved layouts are not looked at
UniqueId(slug) ==
  LET taken == Ids(Catalog) \cup Ids(saved.index)
  IN  IF Custom(slug) \notin taken THEN Custom(slug) ELSE FirstFree(Custom(slug), 1, taken)

-----------------------------------------------------------------------------
(* The store: list, load, save, delete *)

StoreWith(index, body) == [index |-> index, body |-> body]
Body(s, id) == IF id \in DOMAIN s.body THEN {s.body[id]} ELSE {}
Drop(f, id) == [i \in DOMAIN f \ {id} |-> f[i]]
Put(f, id, x) == [i \in DOMAIN f \cup {id} |-> IF i = id THEN x ELSE f[i]]

(* The edits of one call, each of which the disk may or may not have.      *)
Apply(states) ==
  /\ saved' = Last(states)
  /\ savedOnDisk' \in {savedOnDisk} \cup Range(states)

SaveUnfiltered(l) ==     \* mutant: the old entry stays in the index
  LET put == StoreWith(saved.index, Put(saved.body, l.id, l))
  IN  <<put, [put EXCEPT !.index = Append(@, [id |-> l.id, name |-> l.name])]>>
Save(l) ==
  LET put == StoreWith(saved.index, Put(saved.body, l.id, l))
  IN  <<put, [put EXCEPT !.index = Append(Without(@, l.id), [id |-> l.id, name |-> l.name])]>>

(* delete, and what load does to an entry that does not parse. *)
Delete(id) ==
  LET cut == StoreWith(saved.index, Drop(saved.body, id))
  IN  <<cut, [cut EXCEPT !.index = Without(@, id)]>>

(* builtInById(id) ?: repository.load(id) ?: defaultLayout() on store s.   *)
Reload(s, id) ==
  IF BuiltIn(id) # {} THEN CHOOSE l \in BuiltIn(id) : TRUE
  ELSE IF Body(s, id) \in {{}, {Nil}} THEN Catalog[1]
  ELSE s.body[id]

Broken(s, id) == BuiltIn(id) = {} /\ Body(s, id) = {Nil}

(* load forgets an entry that does not parse; an index entry without a     *)
(* body is left alone.                                                     *)
Load(s, id) ==
  IF Broken(s, id)
  THEN LET cut == StoreWith(s.index, Drop(s.body, id))
       IN  <<s, cut, [cut EXCEPT !.index = Without(@, id)]>>
  ELSE <<s>>

-----------------------------------------------------------------------------
(* The editor *)

Settings(id, rest) == [layout |-> id, rest |-> rest]
Persist(p) == prefs' = p /\ prefsOnDisk' \in {prefsOnDisk, p}

ApplyDefaults(id) == Persist(Settings(id, 0))      \* mutant: over factory settings
ApplyActiveLayoutId(id) == Persist([prefs EXCEPT !.layout = id])

Tap == edits > 0 /\ edits' = edits - 1
Show(l, isDirty) == layout' = l /\ dirty' = isDirty
Elements(els) == Show([layout EXCEPT !.elements = els], TRUE)

(* loadLayout on the state the call before it left. *)
LoadLayout(states, id) ==
  LET next == Reload(Last(states), id) IN
  /\ Apply(states \o Tail(Load(Last(states), id)))
  /\ Show(next, FALSE) /\ picked' = Nil
  /\ ApplyActiveLayoutId(next.id)

(* A row of the picker. *)
PickLayout(id) ==
  /\ Tap /\ id \in Ids(Catalog) \cup Ids(listed)
  /\ LoadLayout(<<saved>>, id) /\ UNCHANGED <<listed, shownPrefs, editorKills>>

ResetCurrent ==
  /\ Tap /\ dirty /\ LoadLayout(<<saved>>, layout.id)
  /\ UNCHANGED <<listed, shownPrefs, editorKills>>

SelectElement(id) ==
  /\ id \in Ids(layout.elements) /\ picked' = id
  /\ UNCHANGED <<layout, listed, dirty, savedVars, prefsVars, shownPrefs, edits, editorKills>>

AddElement(prefix) ==     \* addButton, addJoystick
  LET id == UniqueElementId(prefix, layout.elements) IN
  /\ Tap /\ Len(layout.elements) < MaxElements
  /\ Elements(WithElement(layout.elements, [id |-> id, look |-> Fresh])) /\ picked' = id
  /\ UNCHANGED <<listed, savedVars, prefsVars, shownPrefs, editorKills>>

(* moveElement, updateButton, updateJoystick; a drag begins by picking.    *)
EditElement(id, l) ==
  /\ Tap /\ id = picked /\ id \in Ids(layout.elements)
  /\ Elements([i \in DOMAIN layout.elements |->
       IF layout.elements[i].id = id THEN [layout.elements[i] EXCEPT !.look = l]
       ELSE layout.elements[i]])
  /\ UNCHANGED <<listed, picked, savedVars, prefsVars, shownPrefs, editorKills>>

RemoveElement ==          \* the button stands in the editor of the picked element
  /\ Tap /\ picked # Nil /\ Elements(Without(layout.elements, picked)) /\ picked' = Nil
  /\ UNCHANGED <<listed, savedVars, prefsVars, shownPrefs, editorKills>>

SetName(name) ==
  /\ Tap /\ Show([layout EXCEPT !.name = name], TRUE)
  /\ UNCHANGED <<listed, picked, savedVars, prefsVars, shownPrefs, editorKills>>

SaveCurrent(asCopy) ==
  LET id == IF layout.editable /\ ~asCopy THEN layout.id ELSE UniqueId(layout.name)
      l  == [layout EXCEPT !.id = id, !.editable = TRUE]
  IN  /\ Tap /\ Apply(Save(l)) /\ listed' = Last(Save(l)).index
      /\ Show(l, FALSE) /\ ApplyActiveLayoutId(id)
      /\ UNCHANGED <<picked, shownPrefs, editorKills>>

DeleteCurrent ==
  /\ Tap /\ layout.editable
  /\ LoadLayout(Delete(layout.id), Catalog[1].id) /\ listed' = Last(Delete(layout.id)).index
  /\ UNCHANGED <<shownPrefs, editorKills>>

(* A new view model: when the screen is opened again, and after a kill.    *)
Open(s, p, writes) ==
  /\ saved' = Last(Load(s, p.layout)) /\ listed' = saved'.index
  /\ savedOnDisk' \in writes \cup Range(Load(s, p.layout))
  /\ Show(Reload(s, p.layout), FALSE) /\ picked' = Nil

OpenEditor ==
  /\ Tap /\ Open(saved, prefs, {savedOnDisk})
  /\ UNCHANGED <<prefsVars, shownPrefs, editorKills>>

KillEditor ==
  /\ editorKills < MaxEditorKills /\ editorKills' = editorKills + 1
  /\ Open(savedOnDisk, prefsOnDisk, {})
  /\ prefs' = prefsOnDisk /\ shownPrefs' = prefsOnDisk
  /\ UNCHANGED <<prefsOnDisk, edits>>

-----------------------------------------------------------------------------
(* The settings screen keeps a copy of its own, writes all of it on every  *)
(* change, and never reads again while its tab lives.                      *)

Commit(p) ==
  /\ Tap /\ shownPrefs' = p /\ Persist(p)
  /\ UNCHANGED <<layout, listed, picked, dirty, savedVars, editorKills>>

ChangeSettings ==
  \/ \E id \in Ids(Catalog) : Commit([shownPrefs EXCEPT !.layout = id])
  \/ Commit([shownPrefs EXCEPT !.rest = 1])
  \/ Commit(Settings(Catalog[1].id, 0))           \* resetToDefaults

OpenSettings ==           \* the tab was left by the back button: a new view model
  /\ Tap /\ shownPrefs # prefs /\ shownPrefs' = prefs
  /\ UNCHANGED <<layout, listed, picked, dirty, savedVars, prefsVars, editorKills>>

-----------------------------------------------------------------------------
(* A first start, or one over a layout whose body does not parse. *)
EditorInit ==
  /\ saved \in {StoreWith(<<>>, <<>>)} \cup
       {StoreWith(<<[id |-> Custom(n), name |-> n]>>, [id \in {Custom(n)} |-> Nil])
         : n \in Title}
  /\ savedOnDisk = saved
  /\ prefs = Settings(Catalog[1].id, 0) /\ prefsOnDisk = prefs /\ shownPrefs = prefs
  /\ layout = Catalog[1] /\ listed = saved.index /\ picked = Nil /\ dirty = FALSE
  /\ edits = MaxEdits /\ editorKills = 0

EditorNext ==
  \/ \E id \in Ids(Catalog) \cup Ids(listed) : PickLayout(id)
  \/ ResetCurrent
  \/ \E id \in Ids(layout.elements) : SelectElement(id) \/ \E l \in Look : EditElement(id, l)
  \/ \E prefix \in ElementKind : AddElement(prefix)
  \/ RemoveElement
  \/ \E name \in Title : SetName(name)
  \/ \E asCopy \in BOOLEAN : SaveCurrent(asCopy)
  \/ DeleteCurrent
  \/ OpenEditor \/ KillEditor
  \/ ChangeSettings \/ OpenSettings

EditorSpec == EditorInit /\ [][EditorNext]_editorVars

-----------------------------------------------------------------------------
(* Properties *)

EditorTypeOK ==
  /\ dirty \in BOOLEAN /\ prefs.rest \in {0, 1} /\ edits \in 0..MaxEdits
  /\ \A id \in DOMAIN saved.body : saved.body[id] # Nil => saved.body[id].id = id

Distinct(seq) == Cardinality(Ids(seq)) = Len(seq)

(* The picker, whose rows are keyed by id, shows no id twice; no two       *)
(* elements share one; what is picked is there.                            *)
IdsAreUnique ==
  /\ Distinct(Catalog \o listed) /\ Distinct(layout.elements)
  /\ picked # Nil => picked \in Ids(layout.elements)

(* Without a mark of unsaved edits, a reset would show what is shown. *)
CleanIsStored == ~dirty => layout = Reload(saved, layout.id)

(* Index and bodies differ by no more than what kills cut in two, and a    *)
(* body that never parsed.                                                 *)
IndexMatches ==
  LET i == Ids(saved.index)  b == DOMAIN saved.body
  IN  Cardinality((i \ b) \cup (b \ i)) <= editorKills

(* What the settings screen shows beside the layout is what is stored. *)
SettingsAgree == prefs.rest = shownPrefs.rest

(* The editor is sound. *)
EditorSound == EditorTypeOK /\ IdsAreUnique /\ CleanIsStored /\ IndexMatches /\ SettingsAgree

(* A tap leaves every listed layout but the shown one as it is, a copy     *)
(* leaves that one too, and a new element leaves every other.              *)
Keeps(ids) ==
  \A id \in ids \cap Ids(saved.index) \cap DOMAIN saved.body :
    saved.body[id] # Nil => id \in DOMAIN saved'.body /\ saved'.body[id] = saved.body[id]

NothingReplaced ==
  [][ /\ editorKills' = editorKills => Keeps(DOMAIN saved.body \ {layout.id})
      /\ SaveCurrent(TRUE) => Keeps({layout.id})
      /\ (\E prefix \in ElementKind : AddElement(prefix)) =>
           /\ Range(layout.elements) \subseteq Range(layout'.elements)
           /\ Len(layout'.elements) > Len(layout.elements) ]_editorVars
===============================================================================
