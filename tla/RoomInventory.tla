--------------------------- MODULE RoomInventory ---------------------------
(***************************************************************************)
(* bindhome-inventory-workflow: the drafts of a room's assets, generated   *)
(* from presets by quantity, edited, and saved as one batch by an          *)
(* InventorySaveController.                                                *)
(*                                                                         *)
(* A draft is named by its preset and number, and is as generated or       *)
(* edited.  Drafts beyond the quantity are retained.  The lists of assets  *)
(* are left out; the floor is part of the choice of the room.              *)
(***************************************************************************)
EXTENDS Integers, Sequences, FiniteSets, SequencesExt

CONSTANTS
  Presets,        \* a sequence, presetOrder
  Rooms,
  None,
  MaxQuantity,    \* bound: drafts of a preset
  MaxBatches      \* bound: batches the server accepts

InventoryAssumption == None \notin Rooms /\ MaxQuantity \in Nat

VARIABLES
  batches,                        \* the server: how many it has accepted
  pending,                        \* saves under way, in the order they were sent
  step, area, confirmRoom,        \* the workflow
  quantities, retained,           \* _draftState
  saving, saveError, success,
  busy,                           \* the controller's saving
  failed                          \* history: the draft the server refused last

drafts == <<quantities, retained>>
workflow == <<step, area, confirmRoom, drafts, saving, saveError, success>>
vars == <<batches, pending, workflow, busy, failed>>

PresetSet == ToSet(Presets)
Numbers == 1..MaxQuantity
Keys == PresetSet \X Numbers

\* createDraftState
EmptyDrafts ==
  /\ quantities' = [p \in PresetSet |-> 0]
  /\ retained' = [p \in PresetSet |-> <<>>]

ActiveOf(p) == [i \in 1..quantities[p] |-> [key |-> <<p, i>>, edited |-> retained[p][i]]]

\* activeDrafts: by presetOrder, the first of each as its quantity says.
Active == FlattenSeq([n \in DOMAIN Presets |-> ActiveOf(Presets[n])])

Init ==
  /\ batches = 0 /\ pending = <<>>
  /\ step = "select" /\ area = None /\ confirmRoom = FALSE
  /\ quantities = [p \in PresetSet |-> 0] /\ retained = [p \in PresetSet |-> <<>>]
  /\ saving = FALSE /\ saveError = None /\ success = None
  /\ busy = FALSE /\ failed = None

-----------------------------------------------------------------------------
(***************************************************************************)
(* The user.                                                               *)
(***************************************************************************)

\* Choosing a floor the room is not on clears the room.
SelectRoom(r) ==
  /\ step = "select" /\ area' = r
  /\ UNCHANGED <<batches, pending, step, confirmRoom, drafts, saving, saveError, success,
                 busy, failed>>

Continue ==
  /\ step = "select" /\ area # None /\ step' = "quantity"
  /\ UNCHANGED <<batches, pending, area, confirmRoom, drafts, saving, saveError, success,
                 busy, failed>>

\* setPresetQuantity: new drafts are added, none is taken away.
Retained(s, quantity) ==
  [i \in 1..(IF quantity > Len(s) THEN quantity ELSE Len(s)) |-> i <= Len(s) /\ s[i]]

ClearedError == None

ChangeQuantity(p, delta) ==
  /\ step = "quantity" /\ ~saving
  /\ quantities[p] + delta \in 0..MaxQuantity
  /\ quantities' = [quantities EXCEPT ![p] = @ + delta]
  /\ retained' = [retained EXCEPT ![p] = Retained(@, quantities[p] + delta)]
  /\ saveError' = ClearedError
  /\ UNCHANGED <<batches, pending, step, area, confirmRoom, saving, success, busy, failed>>

Review ==
  /\ step = "quantity" /\ Active # <<>> /\ step' = "review"
  /\ UNCHANGED <<batches, pending, area, confirmRoom, drafts, saving, saveError, success,
                 busy, failed>>

BackToQuantities ==
  /\ step = "review" /\ ~saving /\ step' = "quantity"
  /\ UNCHANGED <<batches, pending, area, confirmRoom, drafts, saving, saveError, success,
                 busy, failed>>

\* An error that names a field goes away when that field of that draft is edited.
UpdateDraft(n) ==
  /\ step = "review" /\ ~saving /\ n \in DOMAIN Active
  /\ LET key == Active[n].key IN retained' = [retained EXCEPT ![key[1]][key[2]] = TRUE]
  /\ saveError' \in {None} \cup (IF saveError \in Nat \ {0} THEN {saveError} ELSE {})
  /\ saveError' = None => saveError \in {None, 0, n}
  /\ UNCHANGED <<batches, pending, step, area, confirmRoom, quantities, saving, success,
                 busy, failed>>

CanSave == Active # <<>> /\ ~saving

\* The controller refuses a second save of its own, and the workflow is free at once.
Save ==
  /\ step = "review" /\ CanSave
  /\ saveError' = None
  /\ IF busy
     THEN saving' = FALSE /\ UNCHANGED <<pending, busy>>
     ELSE /\ saving' = TRUE /\ busy' = TRUE
          /\ pending' = Append(pending, [stage |-> "create", drafts |-> Active, area |-> area,
                                         current |-> TRUE])
  /\ UNCHANGED <<batches, step, area, confirmRoom, drafts, success, failed>>

RequestRoomChange ==
  /\ step \in {"quantity", "review", "success"} /\ ~saving
  /\ IF Active # <<>> THEN confirmRoom' = TRUE /\ UNCHANGED step
     ELSE step' = "select" /\ UNCHANGED confirmRoom
  /\ UNCHANGED <<batches, pending, area, drafts, saving, saveError, success, busy, failed>>

Asked == confirmRoom /\ step \in {"quantity", "review"}

Stay ==
  /\ Asked /\ confirmRoom' = FALSE
  /\ UNCHANGED <<batches, pending, step, area, drafts, saving, saveError, success, busy, failed>>

\* Its button is not disabled during a save.
Discard ==
  /\ Asked /\ confirmRoom' = FALSE
  /\ EmptyDrafts /\ saveError' = None /\ area' = None /\ step' = "select"
  /\ UNCHANGED <<batches, pending, saving, success, busy, failed>>

AddMore ==
  /\ step = "success" /\ step' = "quantity"
  /\ UNCHANGED <<batches, pending, area, confirmRoom, drafts, saving, saveError, success,
                 busy, failed>>

\* Mutant: other presets or texts generate the drafts anew.
LocalizedAnyway == TRUE

NothingActive == Active = <<>>

\* willUpdate: new drafts unless some are counted, and a new controller.
Regenerate == IF NothingActive THEN EmptyDrafts ELSE UNCHANGED drafts

NewController ==
  /\ busy' = FALSE
  /\ pending' = [n \in DOMAIN pending |-> [pending[n] EXCEPT !.current = FALSE]]

\* Every refresh of the panel brings another list of presets; every change of Home
\* Assistant another hass; another language other texts.
ChangePresets ==
  /\ Regenerate
  /\ UNCHANGED <<batches, pending, step, area, confirmRoom, saving, saveError, success, busy,
                 failed>>

ChangeHass ==
  /\ NewController
  /\ UNCHANGED <<batches, workflow, failed>>

ChangeLanguage ==
  /\ Regenerate /\ NewController
  /\ UNCHANGED <<batches, step, area, confirmRoom, saving, saveError, success, failed>>

-----------------------------------------------------------------------------
(***************************************************************************)
(* The controller.                                                         *)
(***************************************************************************)

\* Mutant: the workflow stays busy after an error.
NotReleased == saving

Released == FALSE

Free(m) == busy' = (busy /\ ~m.current)

\* The whole batch or nothing.  The answer is followed by a read of the assets.
Accept ==
  /\ pending # <<>> /\ Head(pending).stage = "create" /\ batches < MaxBatches
  /\ batches' = batches + 1
  /\ pending' = Append(Tail(pending), [Head(pending) EXCEPT !.stage = "list"])
  /\ UNCHANGED <<workflow, busy, failed>>

\* Refused for a field of the n-th draft, or, 0, for another reason.
Refuse(n) ==
  /\ pending # <<>> /\ Head(pending).stage = "create"
  /\ n = 0 \/ n \in DOMAIN Head(pending).drafts
  /\ pending' = Tail(pending)
  /\ saving' = Released /\ saveError' = n /\ step' = "review"
  /\ failed' = IF n = 0 THEN failed ELSE Head(pending).drafts[n].key
  /\ Free(Head(pending))
  /\ UNCHANGED <<batches, area, confirmRoom, drafts, success>>

\* The assets are read, or not; the batch is created all the same.
Finish ==
  /\ pending # <<>> /\ Head(pending).stage = "list"
  /\ pending' = Tail(pending)
  /\ saving' = FALSE /\ success' = Len(Head(pending).drafts)
  /\ EmptyDrafts /\ step' = "success"
  /\ Free(Head(pending))
  /\ UNCHANGED <<batches, area, confirmRoom, saveError, failed>>

Next ==
  \/ \E r \in Rooms \cup {None} : SelectRoom(r)
  \/ Continue \/ Review \/ BackToQuantities \/ AddMore
  \/ \E p \in PresetSet, delta \in {-1, 1} : ChangeQuantity(p, delta)
  \/ \E n \in 1..Cardinality(Keys) : UpdateDraft(n)
  \/ Save \/ RequestRoomChange \/ Stay \/ Discard
  \/ ChangePresets \/ ChangeHass \/ ChangeLanguage
  \/ Accept \/ Finish \/ \E n \in 0..Cardinality(Keys) : Refuse(n)

Spec == Init /\ [][Next]_vars

Answered == Accept \/ Finish \/ \E n \in 0..Cardinality(Keys) : Refuse(n)

-----------------------------------------------------------------------------
(***************************************************************************)
(* Properties.                                                             *)
(***************************************************************************)

\* The state has the shapes the code gives it.
TypeOK ==
  /\ batches \in 0..MaxBatches
  /\ step \in {"select", "quantity", "review", "success"} /\ area \in Rooms \cup {None}
  /\ {confirmRoom, saving, busy} \subseteq BOOLEAN
  /\ quantities \in [PresetSet -> 0..MaxQuantity]
  /\ \A p \in PresetSet : quantities[p] <= Len(retained[p]) /\ ToSet(retained[p]) \subseteq BOOLEAN
  /\ saveError \in Nat \cup {None} /\ success \in Nat \cup {None}
  /\ failed \in Keys \cup {None}

\* One batch is under way at a time, although every change of Home Assistant gives the
\* workflow a controller that knows of no save (inventory-workflow.js _save, willUpdate).
OneBatch == Len(pending) <= 1

\* What a refused batch's error points at is the draft the server refused: the position
\* it names is of the same draft still, whatever was added, removed or edited since
\* (inventory-workflow.js _fieldError, _changeQuantity).
ErrorOnItsDraft ==
  saveError \in DOMAIN Active => Active[saveError].key = failed

Edited ==
  {key \in Keys : key[2] <= Len(retained[key[1]]) /\ retained[key[1]][key[2]]}

Given == ChangePresets \/ ChangeLanguage

EditsStay ==
  \A key \in Edited : key \in Edited' \/ Discard \/ Finish \/ (Active = <<>> /\ Given)

\* A draft's edits survive every change of quantities; they are lost when a batch is
\* accepted, when the user discards the drafts, and when no draft is counted and the
\* workflow is given other presets or texts (draft-state.js setPresetQuantity,
\* inventory-workflow.js willUpdate).
EditsKept == [][EditsStay]_vars

\* The same without the last case, as the documents say it: a refresh or another language
\* discards no draft.  It does not hold: README.md.
EditSurvives == \A key \in Edited : key \in Edited' \/ Discard \/ Finish

=============================================================================
