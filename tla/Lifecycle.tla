------------------------------- MODULE Lifecycle -------------------------------
(***************************************************************************)
(* The config entry: its set-up from the storage file, the recovery state  *)
(* and its repair issue when that fails, the restore of a backup past any  *)
(* manager, and reloads under commits that wait for their save.            *)
(*                                                                         *)
(* A registry is the set of the changes made to it.  A set-up awaits twice *)
(* before it has read the file, and again for the platforms and the panel; *)
(* Home Assistant reloads an entry under one lock.  Of the platforms and   *)
(* the panel there is only whether they are set up.                        *)
(***************************************************************************)
EXTENDS Integers, FiniteSets

CONSTANTS
  Changes,        \* bound: commits
  Admins,         \* restore a backup each; it is named after them
  Identity,       \* the change made at load: targets found in the entity registry
  None,
  MaxStarts       \* bound: starts of Home Assistant

ASSUME LifecycleAssumption ==
  /\ Identity \notin Changes \cup Admins
  /\ None \notin {"read", "save", "ready", "platforms", "saving", "saved", "reloading"} /\ MaxStarts \in Nat

VARIABLES
  file,           \* what is at the path of the storage file
  starts, up,     \* Home Assistant
  entry,          \* the state of the config entry
  step, existed, data,            \* of a set-up
  readWell,                       \* history: the last set-up has read a registry
  live,           \* the registry of the manager that is loaded
  saving,         \* what it is saving
  oldSaving,      \* what the manager before it is still saving
  recovery, issue,                \* in memory; persistent
  restore,        \* of each administrator
  overtaken       \* history: a reload of this process has met a save

process == <<starts, up>>
setup == <<entry, step, existed, data, readWell>>
manager == <<live, saving, oldSaving>>
repair == <<recovery, issue>>
vars == <<file, process, setup, manager, repair, restore, overtaken>>

Registry(changes) == [kind |-> "registry", changes |-> changes]

Unreadable(kind) == [kind |-> kind, changes |-> {}]

Missing == Unreadable("missing")

Init ==
  /\ file \in {Missing, Registry({}), Registry({Identity})}
  /\ starts = 0 /\ up = FALSE
  /\ entry = "unloaded" /\ step = None /\ existed = FALSE /\ data = {} /\ readWell = FALSE
  /\ live = {} /\ saving = None /\ oldSaving = None
  /\ recovery = FALSE /\ issue = FALSE
  /\ restore = [a \in Admins |-> None] /\ overtaken = FALSE

-----------------------------------------------------------------------------
(***************************************************************************)
(* Home Assistant and the disk.                                            *)
(***************************************************************************)

\* Set-up begins: the path is looked at.
Begin ==
  /\ entry' = "setup" /\ step' = "read" /\ existed' = (file.kind # "missing") /\ readWell' = FALSE
  /\ UNCHANGED data

Start ==
  /\ ~up /\ starts < MaxStarts
  /\ up' = TRUE /\ starts' = starts + 1
  /\ Begin
  /\ UNCHANGED <<file, manager, repair, restore, overtaken>>

\* The process ends anywhere; the issue stays.
Stop ==
  /\ up /\ up' = FALSE
  /\ entry' = "unloaded" /\ step' = None /\ saving' = None /\ oldSaving' = None
  /\ recovery' = FALSE /\ restore' = [a \in Admins |-> None] /\ overtaken' = FALSE
  /\ UNCHANGED <<file, starts, existed, data, readWell, live, issue>>

\* The file is damaged, or BindHome replaced by an older release.
Damage ==
  /\ ~up /\ file.kind = "registry"
  /\ \E kind \in {"corrupt", "newer"} : file' = Unreadable(kind)
  /\ UNCHANGED <<process, setup, manager, repair, restore, overtaken>>

-----------------------------------------------------------------------------
(***************************************************************************)
(* Set-up.                                                                 *)
(***************************************************************************)

Recorded == TRUE

Fail ==
  /\ entry' = "error" /\ step' = None
  /\ recovery' = Recorded /\ issue' = Recorded

\* Home Assistant moves a file that is not JSON aside, and returns nothing.
ReadCorrupt ==
  /\ file.kind = "corrupt" /\ file' = Missing
  /\ Fail
  /\ UNCHANGED data

\* Mutant: a file in a newer schema is read as far as it is understood.
AnySchema == file.kind \in {"registry", "newer"}

Readable == file.kind = "registry"

\* The registry is read, and the identity of its targets may be found in it.
ReadRegistry ==
  /\ Readable
  /\ data' \in {file.changes, file.changes \cup {Identity}}
  /\ step' = IF data' = file.changes THEN "ready" ELSE "save"
  /\ UNCHANGED <<file, entry, repair>>

ReadNewer ==
  /\ file.kind = "newer" /\ ~Readable
  /\ Fail
  /\ UNCHANGED <<file, data>>

\* Without a file BindHome starts with an empty registry.
ReadNothing ==
  /\ file.kind = "missing"
  /\ IF existed THEN Fail /\ UNCHANGED data
                ELSE step' = "ready" /\ data' = {} /\ UNCHANGED <<entry, repair>>
  /\ UNCHANGED file

Read ==
  /\ up /\ step = "read"
  /\ ReadCorrupt \/ ReadRegistry \/ ReadNewer \/ ReadNothing
  /\ UNCHANGED <<process, existed, readWell, manager, restore, overtaken>>

\* Mutant: a save that fails does not keep the set-up from going on.
CanonicalizeAnyhow ==
  /\ up /\ step = "save" /\ step' = "ready"
  /\ file' \in {file, Registry(data)}
  /\ UNCHANGED <<process, existed, data, readWell, manager, entry, repair, restore, overtaken>>

\* A save that fails aborts the set-up.
Canonicalize ==
  /\ up /\ step = "save"
  /\ \/ file' = Registry(data) /\ step' = "ready" /\ UNCHANGED <<entry, repair>>
     \/ Fail /\ UNCHANGED file
  /\ UNCHANGED <<process, existed, data, readWell, manager, restore, overtaken>>

\* Mutant: the repair of an earlier failure stays.
NotCleared == issue

Cleared == FALSE

\* The registry is there; what an earlier set-up has recorded is cleared before the rest.
ClearRecovery ==
  /\ up /\ step = "ready" /\ step' = "platforms"
  /\ live' = data /\ readWell' = TRUE
  /\ recovery' = FALSE /\ issue' = Cleared
  /\ UNCHANGED <<file, process, entry, existed, data, saving, oldSaving, restore, overtaken>>

\* The platforms and the panel are set up, or one of them is not, which nothing records.
Loaded ==
  /\ up /\ step = "platforms" /\ step' = None
  /\ entry' \in {"loaded", "error"}
  /\ UNCHANGED <<file, process, existed, data, readWell, manager, repair, restore, overtaken>>

\* Unload and set-up; what the old manager is saving goes on.
Reload ==
  /\ up /\ step = None /\ (oldSaving = None \/ saving = None)
  /\ oldSaving' = IF saving = None THEN oldSaving ELSE saving
  /\ saving' = None /\ overtaken' = (overtaken \/ saving # None)
  /\ Begin
  /\ UNCHANGED <<file, process, live, repair>>

ReloadByHand == Reload /\ UNCHANGED restore

-----------------------------------------------------------------------------
(***************************************************************************)
(* Commits and restores.                                                   *)
(***************************************************************************)

Commit ==
  /\ entry = "loaded" /\ saving = None
  /\ \E c \in Changes \ live : saving' = live \cup {c}
  /\ UNCHANGED <<file, process, setup, live, oldSaving, repair, restore, overtaken>>

\* The file is in place and the live registry adopts it; or the write has failed.
Saved ==
  /\ entry = "loaded" /\ saving # None /\ saving' = None
  /\ \/ file' = Registry(saving) /\ live' = saving
     \/ UNCHANGED <<file, live>>
  /\ UNCHANGED <<process, setup, oldSaving, repair, restore, overtaken>>

\* The same of a manager that is no longer loaded; its registry is seen by nobody.
OldSaved ==
  /\ oldSaving # None /\ oldSaving' = None
  /\ file' \in {file, Registry(oldSaving)}
  /\ UNCHANGED <<process, setup, live, saving, repair, restore, overtaken>>

InRecovery == up /\ entry # "loaded" /\ recovery

\* With the entry loaded a restore is a commit like any other.
RestoreRecovery(a) ==
  /\ restore[a] = None /\ InRecovery
  /\ restore' = [restore EXCEPT ![a] = "saving"]
  /\ UNCHANGED <<file, process, setup, manager, repair, overtaken>>

RestoreSaved(a) ==
  /\ restore[a] = "saving"
  /\ \/ /\ file' = Registry({a})
        /\ restore' = [restore EXCEPT ![a] = "saved"]
     \/ restore' = [restore EXCEPT ![a] = None] /\ UNCHANGED file
  /\ UNCHANGED <<process, setup, manager, repair, overtaken>>

RestoreReload(a) ==
  /\ restore[a] = "saved" /\ restore' = [restore EXCEPT ![a] = "reloading"]
  /\ Reload

\* The answer is sent when the reload has ended, well or not.
RestoreAnswered(a) ==
  /\ restore[a] = "reloading" /\ step = None
  /\ restore' = [restore EXCEPT ![a] = None]
  /\ UNCHANGED <<file, process, setup, manager, repair, overtaken>>

Next ==
  \/ Start \/ Stop \/ Damage
  \/ Read \/ Canonicalize \/ ClearRecovery \/ Loaded \/ ReloadByHand
  \/ Commit \/ Saved \/ OldSaved
  \/ \E a \in Admins : RestoreRecovery(a) \/ RestoreSaved(a)
                      \/ RestoreReload(a) \/ RestoreAnswered(a)

Spec == Init /\ [][Next]_vars

-----------------------------------------------------------------------------
(***************************************************************************)
(* Properties.                                                             *)
(***************************************************************************)

Registries == SUBSET (Changes \cup Admins \cup {Identity})

\* The state has the shapes the code gives it.
TypeOK ==
  /\ file \in [kind : {"missing", "corrupt", "newer", "registry"}, changes : Registries]
  /\ starts \in 0..MaxStarts /\ up \in BOOLEAN
  /\ entry \in {"unloaded", "setup", "loaded", "error"}
  /\ step \in {None, "read", "save", "ready", "platforms"} /\ {existed, readWell} \subseteq BOOLEAN
  /\ {live, data} \subseteq Registries
  /\ {saving, oldSaving} \subseteq Registries \cup {None}
  /\ recovery \in BOOLEAN /\ issue \in BOOLEAN
  /\ restore \in [Admins -> {None, "saving", "saved", "reloading"}] /\ overtaken \in BOOLEAN

\* When a set-up has ended, the repair issue and the recovery status tell whether it could read
\* a registry, whatever earlier set-ups and processes have left (async_setup_entry, recovery.py).
\* That an entry in error has an issue, and that the registry it read is the user's, is more than
\* holds: see RepairStays and UnsafeNeverEmpty.
RepairTells ==
  entry \in {"loaded", "error"} => /\ issue <=> ~readWell
                                   /\ recovery <=> ~readWell
                                   /\ entry = "loaded" => readWell

\* A restore past any manager whose reload ends in error leaves the issue, as a comment has it
\* (backup_websocket.py _async_restore_recovery_registry).  It does not hold: README.md.
RepairStays == (\E a \in Admins : restore[a] = "reloading") /\ entry = "error" => issue

\* The issue goes with a registry that has been read, never with an empty one that takes the
\* place of what could not be, as the documents say it (docs/product-contract.md).  It does
\* not hold: README.md.
UnsafeNeverEmpty == [][issue /\ ~issue' => file # Missing]_vars

\* A file in a schema that is not understood is replaced by a restore and by nothing else
\* (store.py async_load).
NewerKept ==
  [][file.kind = "newer" /\ file' # file => \E a \in Admins : RestoreSaved(a)]_vars

\* When the loaded manager saves nothing, the file is what it shows, so that the next start
\* finds every acknowledged change; unless a reload has overtaken a save, or a restore that
\* recovery began is still to load what it wrote (manager.py, store.py, backup_websocket.py).
LiveIsStored ==
  entry = "loaded" /\ saving = None /\ ~overtaken /\ (\A a \in Admins : restore[a] # "saved") =>
    file \in {Registry(live)} \cup (IF live = {} THEN {Missing} ELSE {})

=============================================================================
