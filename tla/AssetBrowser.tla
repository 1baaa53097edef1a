---------------------------- MODULE AssetBrowser ----------------------------
(***************************************************************************)
(* The technical inventory of the Advanced view: bindhome-inventory-browser*)
(* (a tree of floors and areas, the assets of the chosen place) with the   *)
(* bindhome-asset-detail-editor it shows for the selected asset.           *)
(*                                                                         *)
(* Lit keeps one editor element while some asset is selected and hands it  *)
(* the asset as a property, so the editor outlives changes of asset and    *)
(* goes when the selected asset leaves the list.  A draft is saved as the  *)
(* fields in which it differs from the snapshot taken when editing began.  *)
(* Other administrators edit and delete assets, Home Assistant adds and    *)
(* removes areas and floors, and new lists arrive at any time; one socket  *)
(* keeps answers and lists in order.  Name stands for the text fields.     *)
(***************************************************************************)
EXTENDS Integers, Sequences

CONSTANTS
  Assets, Names, Areas, Floors, Capabilities,
  FloorOf,          \* the floor each area names
  None,             \* an absent asset, area, key or editor
  Blank,            \* the empty choice of a form
  NoArea, Unknown,  \* NO_AREA_KEY and UNKNOWN_AREA_KEY
  MaxRevision,      \* bound: commits
  MaxWaiting        \* bound: messages on their way


VARIABLES
  stored, revision,           \* the registry: assets by id, and its revision
  toServer, toPanel,          \* the socket
  basis,                      \* the client's revision
  assets, places,             \* what the browser is given: a list, areas and floors
  requested,                  \* its selectedAssetId property
  key, selected, locked,      \* _selectedKey, _selectedAssetId, _editorLocked
  editor,                     \* the editor element, or None
  orphans                     \* answers awaited by editors that are gone

server == <<stored, revision>>
browser == <<assets, places, requested, key, selected, locked>>
vars == <<server, toServer, toPanel, basis, browser, editor, orphans>>

Field == {"name", "area", "caps"}
Asset == [id : Assets, name : Names, area : Areas \cup {None}, caps : SUBSET Capabilities]
Draft == [id : Assets, name : Names, area : Areas \cup {Blank}, caps : SUBSET Capabilities]
Editor == [asset : Asset, snapshot : Asset, draft : Draft, editing : BOOLEAN, saving : BOOLEAN,
           saved : BOOLEAN, error : BOOLEAN, edited : SUBSET Field]

BrowserAssumption ==
  /\ FloorOf \in [Areas -> Floors]
  /\ {None, Blank, NoArea, Unknown} \cap (Areas \cup Assets) = {}
  /\ None \notin {Blank, NoArea, Unknown} /\ Blank \notin {NoArea, Unknown} /\ NoArea # Unknown
  /\ None \notin Editor
  /\ MaxRevision \in Nat /\ MaxWaiting \in Nat

-----------------------------------------------------------------------------
(***************************************************************************)
(* Drafts.                                                                 *)
(***************************************************************************)

CreateDraft(asset) ==
  [asset EXCEPT !.area = IF @ = None THEN Blank ELSE @]

NormalizeOptional(value) == IF value = Blank THEN None ELSE value

\* The fields in which a draft differs from the asset it was made from.
UpdatePatch(asset, draft) ==
  LET next == [draft EXCEPT !.area = NormalizeOptional(@)] IN
  [f \in {f \in Field : next[f] # asset[f]} |-> next[f]]

HasChanges(asset, draft) == DOMAIN UpdatePatch(asset, draft) # {}

-----------------------------------------------------------------------------
(***************************************************************************)
(* The tree.                                                               *)
(***************************************************************************)

NoFloorAreas(at) == {x \in at.areas : FloorOf[x] \notin at.floors}

FloorAreas(f, at) == {x \in at.areas : FloorOf[x] = f}

NoAreaAssets(as) == {a \in DOMAIN as : as[a].area = None}
UnknownAreaAssets(as, at) ==
  {a \in DOMAIN as : as[a].area \notin at.areas \cup {None}}

\* The buttons of the tree.
Keys(as, at) ==
  (UNION {FloorAreas(f, at) : f \in at.floors}) \cup NoFloorAreas(at)
    \cup (IF NoAreaAssets(as) # {} THEN {NoArea} ELSE {})
    \cup (IF UnknownAreaAssets(as, at) # {} THEN {Unknown} ELSE {})

\* The assets a key stands for.
Target(k, as, at) ==
  CASE k = NoArea -> NoAreaAssets(as)
    [] k = Unknown -> UnknownAreaAssets(as, at)
    [] OTHER -> {a \in DOMAIN as : as[a].area = k}

LocationKey(asset) ==
  IF asset.area = None THEN NoArea
  ELSE IF asset.area \in places.areas THEN asset.area ELSE Unknown

-----------------------------------------------------------------------------
(***************************************************************************)
(* The editor as the browser renders it.                                   *)
(***************************************************************************)

\* edited is history: the fields the user has changed since editing began.
Fresh(asset) ==
  [asset |-> asset, snapshot |-> asset, draft |-> CreateDraft(asset),
   editing |-> FALSE, saving |-> FALSE, saved |-> FALSE, error |-> FALSE, edited |-> {}]

Shows(e, asset) ==
  IF e.editing THEN [e EXCEPT !.asset = asset]
  ELSE [e EXCEPT !.asset = asset, !.snapshot = asset, !.draft = CreateDraft(asset)]

\* The editor e once the browser has the list as and the selection sel.
Rendered(e, as, sel) ==
  IF sel \notin DOMAIN as THEN None
  ELSE IF e = None THEN Fresh(as[sel]) ELSE Shows(e, as[sel])

\* Answers to an editor that goes away find nobody.
Settle(e) ==
  /\ editor' = e
  /\ orphans' = orphans + IF e = None /\ editor # None /\ editor.saving THEN 1 ELSE 0

\* willUpdate after a change of the list or the places, and the rendering after it.
Update(e, as, at, k, sel, lock) ==
  LET known == k \in Keys(as, at) \/ k = None
      gone == k # None /\ sel # None /\ sel \notin DOMAIN as
  IN
  /\ assets' = as
  /\ places' = at
  /\ key' = IF known THEN k ELSE None
  /\ selected' = IF gone THEN None ELSE sel
  /\ locked' = (lock /\ ~gone)
  /\ Settle(Rendered(e, as, selected'))

Init ==
  /\ \E as \in [Assets -> {x \in Asset : x.caps = {} /\ x.area # None}] :
       /\ \A a \in Assets : as[a].id = a
       /\ \A a, b \in Assets : as[a].name = as[b].name
       /\ stored = as /\ assets = as
  /\ revision = 0 /\ basis = 0
  /\ toServer = <<>> /\ toPanel = <<>>
  /\ places = [areas |-> Areas, floors |-> Floors]
  /\ requested = None /\ key = None /\ selected = None /\ locked = FALSE
  /\ editor = None /\ orphans = 0

-----------------------------------------------------------------------------
(***************************************************************************)
(* The registry, other administrators, and Home Assistant.                 *)
(***************************************************************************)

OtherEdit ==
  /\ revision < MaxRevision
  /\ \E a \in DOMAIN stored, f \in {"name", "area"} :
       \E value \in IF f = "name" THEN Names ELSE places.areas \cup {None} :
         stored[a][f] # value /\ stored' = [stored EXCEPT ![a][f] = value]
  /\ revision' = revision + 1
  /\ UNCHANGED <<toServer, toPanel, basis, browser, editor, orphans>>

OtherDelete ==
  /\ revision < MaxRevision
  /\ \E a \in DOMAIN stored : stored' = [b \in DOMAIN stored \ {a} |-> stored[b]]
  /\ revision' = revision + 1
  /\ UNCHANGED <<toServer, toPanel, basis, browser, editor, orphans>>

\* The data layer reads the list, at a notice, a refresh or a follow-up.
ReadList ==
  /\ Len(toPanel) < MaxWaiting
  /\ revision # basis \/ assets # stored
  /\ toPanel' = Append(toPanel, [type |-> "list", assets |-> stored, revision |-> revision])
  /\ UNCHANGED <<server, toServer, basis, browser, editor, orphans>>

\* Committed on the current revision only; the registry may refuse, the save may fail.
ServeSave ==
  /\ toServer # <<>> /\ Len(toPanel) < MaxWaiting
  /\ toServer' = Tail(toServer)
  /\ LET m == Head(toServer) IN
       \/ /\ m.based = revision /\ m.id \in DOMAIN stored /\ revision < MaxRevision
          /\ stored' = [stored EXCEPT ![m.id] =
                          [f \in DOMAIN @ |-> IF f \in DOMAIN m.patch THEN m.patch[f] ELSE @[f]]]
          /\ revision' = revision + 1
          /\ toPanel' = Append(toPanel,
               [type |-> "saved", asset |-> stored'[m.id], revision |-> revision'])
       \/ /\ toPanel' = Append(toPanel, [type |-> "refused"])
          /\ UNCHANGED server
  /\ UNCHANGED <<basis, browser, editor, orphans>>

PlaceComesOrGoes ==
  /\ \E at \in [areas : SUBSET Areas, floors : SUBSET Floors] :
       at # places /\ Update(editor, assets, at, key, selected, locked)
  /\ UNCHANGED <<server, toServer, toPanel, basis, requested>>

-----------------------------------------------------------------------------
(***************************************************************************)
(* Choosing.                                                               *)
(***************************************************************************)

Choose(k, sel) ==
  /\ key' = k
  /\ selected' = sel
  /\ Settle(Rendered(editor, assets, sel))
  /\ UNCHANGED <<server, toServer, toPanel, basis, assets, places, locked>>

Select(k) ==
  /\ ~locked /\ k \in Keys(assets, places)
  /\ Choose(k, None) /\ UNCHANGED requested

\* A row of the list, shown when no asset is.
OpenAsset(a) ==
  /\ editor = None /\ key # None /\ a \in Target(key, assets, places)
  /\ Choose(key, a) /\ UNCHANGED requested

\* A neighbour in the topology card, which stays below an open form.
NavigateAsset(a) ==
  /\ editor # None /\ a \in DOMAIN assets /\ a # editor.asset.id
  /\ Choose(key, a) /\ UNCHANGED requested

\* The shell or the health tool asks for an asset.
Request(a) ==
  /\ requested # a
  /\ requested' = a
  /\ IF a \in DOMAIN assets THEN Choose(LocationKey(assets[a]), a)
     ELSE UNCHANGED <<server, toServer, toPanel, basis, assets, places, key, selected,
                      locked, editor, orphans>>

CloseAsset ==
  /\ editor # None /\ ~editor.editing /\ ~locked
  /\ Choose(key, None) /\ UNCHANGED requested

-----------------------------------------------------------------------------
(***************************************************************************)
(* Editing.                                                                *)
(***************************************************************************)

Edits(e, lock) ==
  /\ editor' = e
  /\ locked' = lock
  /\ UNCHANGED <<server, toPanel, basis, assets, places, requested, key, selected, orphans>>

Editing == editor # None /\ editor.editing

StartEdit ==
  /\ editor # None /\ ~editor.editing
  /\ Edits([Fresh(editor.asset) EXCEPT !.editing = TRUE, !.saving = editor.saving], TRUE)
  /\ UNCHANGED toServer

Cancel ==
  /\ editor # None /\ editor.editing /\ ~editor.saving
  /\ Edits([Fresh(editor.asset) EXCEPT !.saved = editor.saved], FALSE)
  /\ UNCHANGED toServer

UpdateField(field, value) ==
  /\ editor # None /\ editor.editing /\ ~editor.saving
  /\ value # editor.draft[field]
  /\ Edits([editor EXCEPT !.draft[field] = value, !.error = FALSE, !.saved = FALSE,
                          !.edited = @ \cup {field}], locked)
  /\ UNCHANGED toServer

Type == \E v \in Names : UpdateField("name", v)

\* Every area there is, and the draft's own although it may be gone.
AreaOptions ==
  {Blank, editor.draft.area} \cup NoFloorAreas(places)
    \cup (UNION {FloorAreas(f, places) : f \in places.floors})

ChooseArea == editor # None /\ \E v \in AreaOptions : UpdateField("area", v)

\* Adding what is there already only empties the input.
Toggled(caps, c) == IF c \in caps THEN caps \ {c} ELSE caps \cup {c}

ToggleCapability ==
  editor # None /\ \E c \in Capabilities : UpdateField("caps", Toggled(editor.draft.caps, c))

\* Mutant: what the user has not touched is compared with what is there now.
BaseShown(e) == e.asset

Base(e) == e.snapshot

\* The button is disabled while there is nothing to save.
Submittable == Editing /\ ~editor.saving /\ HasChanges(editor.snapshot, editor.draft)

Save ==
  /\ Submittable
  /\ Len(toServer) < MaxWaiting
  /\ toServer' = Append(toServer,
       [id |-> editor.snapshot.id, patch |-> UpdatePatch(Base(editor), editor.draft),
        based |-> basis, edited |-> editor.edited])
  /\ Edits([editor EXCEPT !.saving = TRUE, !.error = FALSE, !.saved = FALSE], locked)

-----------------------------------------------------------------------------
(***************************************************************************)
(* Answers and lists.                                                      *)
(***************************************************************************)

ReceiveRefused(m) ==
  /\ m.type = "refused"
  /\ IF orphans > 0 THEN orphans' = orphans - 1 /\ UNCHANGED editor
     ELSE editor' = [editor EXCEPT !.error = TRUE, !.saving = FALSE] /\ UNCHANGED orphans
  /\ UNCHANGED <<basis, assets, places, key, selected, locked>>

\* The browser puts the asset in its list and follows it to its place.
Saved(asset) == [Fresh(asset) EXCEPT !.saved = TRUE]

ReceiveSaved(m) ==
  /\ m.type = "saved"
  /\ basis' = m.revision
  /\ IF orphans > 0
     THEN orphans' = orphans - 1 /\ UNCHANGED <<editor, assets, places, key, selected, locked>>
     ELSE LET a == m.asset.id
              as == [b \in DOMAIN assets |-> IF b = a THEN m.asset ELSE assets[b]]
          IN Update(Saved(m.asset), as, places, LocationKey(m.asset), a, FALSE)

ReceiveList(m) ==
  /\ m.type = "list"
  /\ basis' = m.revision
  /\ Update(editor, m.assets, places, key, selected, locked)

Receive ==
  /\ toPanel # <<>>
  /\ toPanel' = Tail(toPanel)
  /\ LET m == Head(toPanel) IN ReceiveRefused(m) \/ ReceiveSaved(m) \/ ReceiveList(m)
  /\ UNCHANGED <<server, toServer, requested>>

Next ==
  \/ OtherEdit \/ OtherDelete \/ ReadList \/ ServeSave \/ PlaceComesOrGoes \/ Receive
  \/ \E k \in Areas \cup {NoArea, Unknown} : Select(k)
  \/ \E a \in Assets : OpenAsset(a) \/ NavigateAsset(a) \/ Request(a)
  \/ CloseAsset \/ StartEdit \/ Cancel \/ Type \/ ChooseArea \/ ToggleCapability \/ Save

Spec == Init /\ [][Next]_vars

-----------------------------------------------------------------------------
(***************************************************************************)
(* Properties.                                                             *)
(***************************************************************************)

\* The state has the shapes the code gives it; draft and snapshot are of one asset.
TypeOK ==
  /\ DOMAIN stored \subseteq Assets /\ \A a \in DOMAIN stored : stored[a] \in Asset
  /\ DOMAIN assets \subseteq Assets /\ \A a \in DOMAIN assets : assets[a] \in Asset
  /\ revision \in 0..MaxRevision /\ basis \in 0..revision
  /\ places \in [areas : SUBSET Areas, floors : SUBSET Floors]
  /\ requested \in Assets \cup {None} /\ selected \in Assets \cup {None}
  /\ key \in Areas \cup {NoArea, Unknown, None} /\ locked \in BOOLEAN
  /\ editor # None =>
       /\ editor \in Editor
       /\ editor.draft.id = editor.snapshot.id
       /\ editor.saving => editor.editing
  /\ orphans \in 0..(2 * MaxWaiting)

\* Every asset of the list is behind exactly one button of the tree, whatever Home
\* Assistant has removed (inventory-browser-state.js, buildInventoryHierarchy).
EveryAssetListed ==
  \A a \in DOMAIN assets : \E k \in Keys(assets, places) :
    /\ a \in Target(k, assets, places)
    /\ \A l \in Keys(assets, places) \ {k} : a \notin Target(l, assets, places)

\* Nothing that arrives changes a draft while it is being edited, and the form goes only
\* with the asset on show (asset-detail-editor.js, willUpdate; inventory-browser.js).
DraftKept ==
  [][Editing /\ toPanel' # toPanel =>
       IF editor' = None THEN editor.asset.id \notin DOMAIN assets'
       ELSE editor'.editing => editor'.draft = editor.draft]_vars

\* A save changes no field that its user has not changed, although others have edited
\* the asset since (inventory-browser-state.js, buildAssetUpdatePatch).
OthersFieldsSurvive ==
  [][toServer' # toServer /\ stored' # stored =>
       LET m == Head(toServer) IN
       \A f \in Field : stored'[m.id][f] # stored[m.id][f] => f \in m.edited]_vars

\* The tree is locked while a form is open.  The lock outlives a form only when the asset
\* goes while its place has already gone from the tree: nothing then unlocks it but
\* another form (inventory-browser.js, willUpdate).
LockGoesWithForm ==
  [][/\ Editing' => locked'
     /\ Editing /\ ~Editing' /\ locked' => key = None]_vars

=============================================================================
