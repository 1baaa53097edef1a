# BindHome, specified and verified in TLA+

BindHome is a Home Assistant integration. It keeps a registry of the assets of a
home (a light point, a boiler), of how they relate, and of which Home Assistant
entity implements which capability of which asset; it can publish an asset as a
logical light, and hide the hardware entity behind it. A sidebar panel edits the
registry over WebSocket.

This directory holds TLA+ modules for the parts of BindHome where correctness is
hard to test, TLC configurations that check them on small instances, and TLAPS
proofs that establish the main properties for every instance.

## Inventory of the system

Paths are relative to `src/custom_components/bindhome/` unless they start with
`frontend/`.

| Component | State | Operations | Interacts by | Hard behaviour | What makes it correct |
|---|---|---|---|---|---|
| Registry value (`registry.py`, `models.py`) | five dictionaries: assets, relations, bindings, representations, adoptions | add, update, delete, bind, represent, adopt, release | called on staged copies | long sequences of commands, batches | no dangling reference, unique names, adoption owned by live bindings, stable binding ids |
| Manager, lock, store (`manager.py`, `transaction.py`, `store.py`, `registry_state.py`) | live registry, revision, lock, file | transactions with an optional expected revision | awaits lock and executor, then a dispatcher signal | interleaved callers, failed writes, crashes between rename and publication | persist before publish, no unnoticed overwrite, atomicity, every call answered |
| Composition (`manager.py` cycle check, `deletion.py`, `representation.py`, `resolver.py`) | names of entities in Home Assistant's Entity Registry against stable identities | bind, represent, delete, rename | Entity Registry shared with Home Assistant | stored names go stale | dependency graph acyclic, deletion takes exactly its dependents |
| Hardware adoption (`adoption.py`) | records in the registry, `hidden_by` in the Entity Registry | consent, reverse, synchronise after commit; clear when the entry is removed | Entity Registry shared with users and Home Assistant | two stores, one of them best effort; crashes, absent entities | every hiding can be undone, users' decisions stand |
| Entry lifecycle, recovery (`__init__.py`, `recovery.py`, `store.py`, `backup*.py`, `migrations.py`) | file, recovery status and repair issue, state of the config entry | load, restore, reload, remove | writes the file outside a manager | corrupt or newer files, reload with a commit under way | fail closed, what is acknowledged is stored |
| Commands (`websocket.py`, `services.py`, `*_websocket.py`) | none | build a manager call from a request | read the live registry before the lock | state read before an await and written after it | partial updates are partial |
| Trackers and light runtime (`binding_events.py`, `integrity_repairs.py`, `light.py`) | indexes of targets, subscriptions, repair issues, lights | react to signals and Entity Registry events | dispatcher, event bus, tasks | events against a moving index, commits during an await | converge to the current registry |
| Import, replacement, CSV (`import_*.py`, `replacement.py`, `csv_*.py`) | review decisions held by a client | one transaction of many commands | manager | reviewed data that is stale at commit | whole or nothing, against what was reviewed |
| Queries, audits (`query.py`, `reference_audit.py`) | none | graph search, audit with awaits | read the registry | order of a search, a world that moves | equal to a definition without search |
| Panel data layer (`frontend/src/bindhome-panel.js`, `frontend/src/api/`) | read model, revision basis, subscription, preferences | refresh, mutate, reload on conflict | WebSocket, change events | coalesced refreshes, late answers, reloads | never goes back, never refuses itself, loads end |
| Shell (`frontend/src/bindhome-panel.js`, `frontend/src/state/`) | view, room, open asset, address | navigate, open, go back, log in | browser history, Home Assistant's route | an address that is handed back late | the screen is the one of the address, for whom it is |
| Editors, workflows and tools (`frontend/src/inventory/`, `bindings/`, `topology/`, `home/`, `add/`, `advanced/`) | drafts, reviews, confirmations, files | open, edit, save, review, confirm, import, restore | panel, WebSocket | an element is reused for another asset under a pending answer | what is written was drafted or reviewed for this asset, once |
| Texts, presets, styles, diagnostics, config flow | none of their own | | | | out of scope: rendering and constants |

`PROJECT.json` lists every component with its status and every hazard at its line.

## Modules

The comment at the head of each module says what it models and what it leaves out;
`PROJECT.json` "map" gives the lines of each definition.

```
Registry  <-  AtomicRegistry            RegistryProofs, AtomicRegistryProofs
   ^              ^  implemented by
   |------------ Manager                ManagerProofs
   |------------ Adoption <- Removal    AdoptionProofs (with Replacement, Connection)
                 Composition            CompositionProofs
                 Lifecycle              LifecycleProofs (with LightRuntime)
                 Panel                  PanelProofs
                 Preferences            PreferencesProofs (with Shell, AssetBrowser)
```

### Server

**Registry** has no state. It is the registry as a value, the guard (`CanX`) and the
effect (`X`) of every command of `BindHomeRegistry`, and `Edit`, the relation between a
registry and its successors under one command. The dictionaries of the code are sets of
records, so that uniqueness of ids and keys is a property and not a gift of the
representation. Of an asset's fields its code and capabilities are kept: no rule of the
registry reads the others. `Consistent` is what `from_dict` accepts without changing
anything; every commit of the code passes its registry through `from_dict`, which is an
identity on consistent registries, and this is why the model has no such step.

**AtomicRegistry** is what the manager promises: one durable registry and, for each
client, a call that is *called*, then *applied* by one whole command, then answered; or
answered with a failure and never applied. A crash loses answers, not effects.

**Manager** is the code's way to keep that promise. A step is what an asyncio task does
between two awaits. `Submit` and `SubmitPatch` are the request handlers up to the lock;
a partial update is completed there from the live registry, as `ws_asset_update` and the
service do. `Stage` is everything from the lock to the store's await: the revision
check, the copy, the command. `WriteFile` is the rename of the finished temporary file by
the executor, `WriteError` a failed write, `Publish` the rest of
`_async_commit_staged_registry`, which contains no await. `Crash` ends the process
anywhere, `Start` loads the file and enriches targets. A client keeps what it has read
over a crash, as the panel keeps its revision by connection (`bindhome-api.js`), while the
next manager counts from 0; `Outdated` only records, for the properties, that the reading
is not of the manager in charge (`UpToDate`). Queue order is asyncio's: `asyncio.Lock`
wakes its waiters in order of arrival.

**Composition** is about lights bound to lights. It keeps both the name that a binding
stored and the stable identity of its target. `IsCycle` and `Dependents` go by name, as
`_validate_binding_target` and `build_asset_delete_impact` do; `Follows` goes by
identity, as the resolver does. Commits are atomic here. `AddLight` and `RemoveLight` are
the steps of `async_reconcile`, which run some time after the commit.

**Adoption** puts the registry's adoption records beside Home Assistant's `hidden_by`.
The phases of a commit are those of Manager, with one mutation at a time. Users change
visibility and entities vanish and return at any step. `ours` is a history variable: what
BindHome hid and nobody touched since; it gives up an entity where the code's best effort
ends, at a release while the entity is gone and at a crash between the rename and the
synchronisation. **Removal** extends it with `async_remove_entry`: another manager reads
the file, clears all records and shows the hardware entity by entity, while a mutation of
the old manager may still wait for its save.

**Replacement** is guided replacement on the server: a plan of candidates, its review by a
client, and the commit under the manager's lock. **Lifecycle** is the config entry: set-up
from the file with its awaits, recovery status and repair issue, restores past any
manager, reloads under commits that wait for their save. `ClearRecovery` takes the issue
away as soon as a registry is there, and `Loaded` is the rest of the set-up, which may
fail without another issue. A failure of the panel leaves the platforms that are set up
already as they are; of them there is only whether the set-up succeeds. **LightRuntime**
is what follows the registry: the index of binding targets, the reconciliation of lights,
which awaits the removal of entities while commits go on, and the repair issues.
**Query**, **ReferenceAudit** and **CsvBatch** are computations on a snapshot: a step is a
turn of their loop, or what lies between two awaits. In CsvBatch a file is read row by
row; `batch` is what `_apply_csv` has staged and reported so far.

### Panel

**Panel** is the element `bindhome-panel` with the API client below it: loads, refreshes
with their generations, mutations based on a revision, change events, and a server whose
manager counts anew after a reload. The server answers "conflict" to an outdated revision
and to whatever the registry itself refuses as a conflict, and the panel shows both alike.
**Shell** is the same element as a shell: views, addresses, rights, the tree of rooms.
**Preferences** is one preference of a user and its move from the browser to Home
Assistant.

The editors are elements that Lit reuses for another asset while answers are under way.
The code counts operations in a token or generation and compares numbers when an answer
comes. The models do not count: a message is the component's "own", and whatever moves the
counter on in the code takes "own" from all that are under way. This keeps the state
finite for any number of operations, and makes the proofs possible. Connection deletes by
the id of a binding, which a retargeting keeps, and compares ids, not targets.

| Module | Element |
|---|---|
| AssetBrowser | `bindhome-inventory-browser` with `bindhome-asset-detail-editor` |
| Connection | `bindhome-primary-connection-editor` |
| AssetTopology | `bindhome-asset-topology` with `bindhome-relation-editor` |
| ElementDetail | `bindhome-element-detail` with its two forms |
| Deletion | `bindhome-asset-delete-control` |
| Representation | `bindhome-representation-control` |
| RoomInventory | `bindhome-inventory-workflow` |
| AddView | `bindhome-add-view` |
| CsvInventory, CsvText | `bindhome-csv-inventory-tool` and the texts it reads and writes |
| BackupRestore | `bindhome-backup-restore-tool` |
| ImportReview | `bindhome-assisted-import-workflow`, discovery and commit on the server |
| HealthTool | `bindhome-health-tool` |

### External code

Modelled from how the code uses it: Home Assistant's `Store` leaves the old file in place
when a write fails, and moves a corrupt file aside when it reads one; the Entity Registry
gives an entity that is created again its old id and its old `hidden_by`; a config entry is
reloaded under one lock; it is removed whether or not the integration's clearing
succeeds. A WebSocket keeps the order of messages in each direction, and the handlers of
reads contain no await, so reads are answered in order. Tasks are not cancelled. An area
that is deleted goes from its entities and devices by Home Assistant's own doing.

## Runs

Nine runs pass, three are expected to be violated. Registry and Manager have a run of
their own. The others check several components in one state space: a variable `part`
says which component a behaviour is of, and the rest stay in an initial state, so that
the space is the union of theirs, not the product. A component has up to two parts, one
*wide* (more assets, files, users) and one *deep* (more commits, reloads): what needs
both would not be finished in minutes. A run's properties are conjunctions, named for the
question; the comment above each in the MC module says which property of which module
it consists of.

| Run | Question | Parts and bounds | States |
|---|---|---|---|
| registry | can a sequence of commands and loads break the registry? | 2 assets, 1 code, 2 capabilities, 2 relations, 2 bindings, 2 names, 2 entities, 1 caller | 395 thousand up to symmetry |
| manager | can interleavings, write errors or crashes break the promise? | 2 clients, 1 asset whose capabilities vary and its code does not, 2 commits per process, any number of processes | 310 thousand |
| composition | do checks and searches on a snapshot mean what they should? | *composition*: 3 lights, 1 device, 2 capabilities, stable names; *paths*: 4 assets, 4 relations; *hits*: 3 assets, 2 types, depths; *audit*: 2 keys, 1 entity, 2 names, 1 change; *areas*, *codes*: files of 2 rows; *text*: 3 rows of 2 fields, 2 characters in all | 400 thousand up to symmetry |
| adoption | can a hiding get lost, a user be overruled, or used hardware be taken? | *adoption*: 1 asset, 2 bindings, 2 entities, all visibilities; *removal*: the same with 1 binding; *keys*: 2 keys and a client; *rivals*: 1 key, 2 clients, 2 commits | 1.45 million up to symmetry |
| panel | does the data go back, does a user refuse herself, does a load hang; is the screen the one of the address? | *faults*: 1 commit, 1 failure, reloads; *steady*: 2 commits, all kinds of mutation; *busy*: the same with 2 requests at a time; *left*: panels that are left and entered; *shell*: no floors; *tree*: 1 asset, 1 area, 1 floor | 903 thousand |
| browser | does a draft or a plan reach the wrong asset? | *browser*: 2 assets, 1 commit of others; *one asset*: 2 commits, 2 names; *connection*: 2 connections, 1 commit; *one connection*: 2 commits | 319 thousand |
| pages | does a form or a confirmation act on the next asset, or twice? | *topology*: 2 assets, 1 commit; *detail*: 2 values; *related*: 2 actions; *deletion*: 2 assets; *light*: 1 asset, 1 commit; *lights*: 2 assets | 476 thousand |
| tools | do drafts, reviews and files survive what happens meanwhile? | *preferences*: 2 users; *room*, *one room*: 1 batch, 2 drafts; *add*: 2 presets, 3 requests; *csv*: 2 files; *exports*: 2 scopes; *backups*: 2 users; *backup*: 2 commits, 1 reload; *import*: 1 proposal, 2 assets; *retry*: 2 commits; *imports*: 2 scopes; *health*: 2 loads | 488 thousand |
| runtime | do file, repairs, lights and index agree at rest, and come to rest? | *life*: 2 administrators, 1 change, 2 starts; *lights*: 2 lights, 1 plain target, 3 names; *devices*: 1 light, 1 device, 2 rooms; *client*: 1 replacement | 328 thousand |
| patch | are partial updates partial without a revision? | as manager, 2 commits | violated |
| cycle | is the graph acyclic after renames? | 2 lights, 1 spare name | violated |
| restore | can a hiding get lost when a backup is restored? | adoption with 1 entity, 1 backup | violated |

What the runs show, by property:

* registry: `NoDanglingReference`, `NoDuplicate`, `HidingIsOwned`, `SnapshotKept`,
  `BindingIdentityKept`, for every sequence of commands.
* manager: `DurableBeforeVisible`; `NoSilentOverwrite`, `RevisionNamesContent` and
  `GuardedPatchKeepsOtherFields`, of revisions read from the manager in charge;
  `Answered`, every call is answered or its process ends; and `ImplementsAtomicRegistry`,
  the refinement of AtomicRegistry.
* composition: `Acyclic`, `RefusesOnlyCycles`, `DeletesExactlyDependents` with stable
  names; `AnswersAreComplete`, the graph queries give distances and a first shortest path,
  and the audit owns up to what it could not read; `FilesApplyAtOnce`, the rows of an
  accepted file have one meaning in any order and every faulty row is reported;
  `TextsReadBack`, the panel reads a table from every file that means it.
* adoption: `HidingsRecorded` and `CommitsUndoOwn`, as long as the entry stays;
  `RemovalReverses` for its removal; `ReplacementReviewed` for guided replacement.
* panel: `DataNeverGoesBack`; `SteadyFeed`, while the first subscription lasts and no read
  fails the list does not go back either, and a conflict is withdrawn by nothing older
  than what refused the panel; `NoSelfConflict`, no revision of the panel is outdated by
  itself; `ScreensSettle`, every load ends, and the shell shows the screen of the address.
* browser: `DraftsAreOwn`, `PlansAreOwn`.
* pages: `StaysHome`, a late answer changes nothing of another asset's; `WritesReviewed`,
  what is written was shown, and once.
* tools: `ChoiceShown` (of the page, not of what is stored), `OthersNotApplied`,
  `KeptSomewhere` (some value is kept, not which) of preferences; `DraftsKept`, but for
  drafts of which none is counted when presets or texts are given anew; `ReviewedOnly`,
  what is committed at a revision is so over the registry it was reviewed on, a preview is
  of the file to be committed and a last backup is the user's unless answers have crossed;
  `OperationsEnd`.
* runtime: `RepairTells`, whether the last set-up could read a registry, `LiveIsStored`,
  `NewerKept` of the config entry; `LightsSettle`;
  `OperationsEnd`, also that a light whose representation stays is shown in the end
  although other commits never cease.

Why the bounds are enough for the cases to occur: two bindings give shared owners and a
key rebound to another target; two names over two entities and `Unregistered` give every
combination of stable and fallback targets; two commits let a client's revision be behind
by two, and repeat with other content after a restart; three lights give a cycle that is
no pair, and two capabilities give paths that leave the controlling key. In the panel one
asset besides the one on show is enough for a late answer to be another's, one commit of
others for a basis to be stale, a second for it to be stale twice. `MaxRevision`,
`MaxContent`, `MaxCreated`, `MaxBatches` and `MaxTime` bound commits, `MaxWaiting`,
`MaxQueue` and `MaxPending` messages under way, `MaxStarts`, `MaxReloads`,
`MaxSubscription`, `MaxBack`, `MaxSessions`, `MaxLoads` and `MaxChanges` what a user or
Home Assistant may repeat without end; each stands in the guards of the actions it bounds
and is commented where it is declared. `OneBinding` bounds what a mutation leaves in the
part *removal*. What the small instances leave open, the proofs close for the modules they
are about.

Symmetry is used in registry, composition and adoption, where no liveness is checked and
the permuted constants are model values that no definition compares with anything else.
Deadlock is not checked where the system may rest: when assets and entities are gone in
composition, and in the panel's runs when the bounds are reached and nothing is under way.

Every property of a passing run is paired with a mutant, an operator such as
`StageInPlace` that alters one definition the way a bug would and makes TLC find that
property violated. Mutants are used by no specification.

### Fairness

`FairSpec` of Manager is weak fairness of `Serve`, the steps of the lock's holder and of
its hand-over: the event loop runs ready tasks and the executor finishes writes. In the
panel's runs `Serves` (the server answers the request at the head of the queue) and
`Delivers` (the socket hands over the answer at the head) are fair: each handler on the
server ends with a result or an error, and the socket delivers it. In panel the same are
`Served` and `Receive`; `EnsureSubscription` and `FirstHass` are what Home Assistant and
Lit do when the element is placed, and `Placed` the hand-over of an address, all of them
within a turn of the event loop. In runtime `Runs` is the task that is ready and
`Tends(a)` the tasks of one light: a light's own, so that other lights' commits cannot
starve it. Nothing is assumed of users, other clients, crashes, renames or faults.

## What the violated properties show

1. *patch*: a partial update without `based_on_revision` writes back every field, the
   unnamed ones as they were before it waited. The tests of both commands call them
   partial. Callers that state a revision are safe (`GuardedPatchKeepsOtherFields`,
   checked and proved).
2. *cycle*: the cycle check reads stored names. Rename a logical light, and the edge to
   it is invisible; the next binding may close a loop. With stable names the check is
   right (`Acyclic`, checked and proved).
3. *restore*: an entity with a record before and after a commit is skipped by the
   synchronisation, even if the restored record no longer owns the hiding.

### Where the code and its documents differ

The following statements of the documents are definitions of the modules too, which no
configuration checks since they do not hold. TLC finds each violated within a minute when
it takes the place of the properties in the configuration named (the first one under
`CycleSpec`). The properties that are checked stop where these begin, as their comments
say.

| Property, configuration | The documents | The code |
|---|---|---|
| `DeletesExactlyDependents`, MCComposition | `CHANGELOG.md:200`: a deletion removes "dependent BindHome-to-BindHome Bindings" | `deletion.py:84` goes by stored names: a binding made before its light was renamed is neither shown nor removed |
| `StaleNeverStaged`, MCManager | `docs/product-contract.md:284`: "a stale panel mutation must fail before persistence" | a client's revision (`bindhome-api.js:1-19`) outlives the manager, the next one counts from 0 (`manager.py:189`): at the same number a command that rests on the former content is staged |
| `ConflictIsOthers`, MCPanel | `translations/en.json:240`: "BindHome changed in another session." | `websocket.py:117` answers a duplicate code with the error code of an outdated revision, and the panel shows it as such |
| `SeenDisconnected`, MCBrowser | `docs/product-contract.md:284` | the answer to a request for a replacement plan moves the client's revision on, not the connection on show; deleting that (`primary-connection-editor.js:312`) deletes what others have retargeted |
| `MigratesOnlyUnset`, MCTools | `CHANGELOG.md:61`: "explicit user changes cannot be overwritten by a late asynchronous restore" | `user-preferences.js:75`, `:102` save the browser's old value without asking whether its user has chosen since; the page shows the choice (`ChoiceShown`), the next session does not |
| `EditsSurvive`, MCTools | `docs/architecture.md:305`: "Language changes update presentation without resetting mounted workflow state." | `inventory-workflow.js:59`: when no draft is counted, a refresh or another language drops the edits of those at quantity zero |
| `FilePreviewed`, MCTools | `docs/csv-inventory.md:58`: "Commit only the validated file" | `csv-inventory-tool.js:119`, `:130`, `:134`: two files may be read at once, and the answer about the first unlocks the commit of the second |
| `RestoresReviewed`, MCTools | `docs/backup-restore.md:9`: the panel "submits the reviewed Registry revision and rejects stale restores" | `backup-restore-tool.js:168` sends a revision of the manager before a reload, or none, and overwrites what its user never saw |
| `StoredPerUser`, MCTools | `docs/backup-restore.md:7`: "stored per Home Assistant user" | `backup-restore-tool.js:127`: an export that is answered after the user has changed is shown to, and stored for, the new user |
| `RepairStays`, MCRuntime | `backup_websocket.py:69-71`: "If reload cannot complete, [...] the Repair stays visible" | `__init__.py:60` clears the issue before the platforms and the panel, which may fail, are set up |
| `UnsafeNeverEmpty`, MCRuntime | `docs/product-contract.md:304`: "Unsafe persisted state must never be silently replaced by an empty Registry" | Home Assistant's store moves a corrupt file aside; the set-up that read it reports it, the next one finds no file, loads an empty registry (`store.py:92`) and clears the issue |

### Other limits of the properties

Other behaviours that a reader of the documents would not expect are in the models as the
code has them, and the properties say where they stop; no run is about them.

* A reload of the entry does not wait for a commit that is being saved: the new manager
  has read the file before it. `LiveIsStored` excepts what a reload has overtaken.
* A restore past any manager checks the recovery status before its save and not after.
* Setting a representation again rechecks no cycle; `StableNext` takes no light away under
  a binding, so that this is in no run.
* A deletion takes what depends on the asset at the commit, which may be more than the
  impact on show; `ShownUnlessRead` excepts what the panel has read in between.
* When the panel is left during a load, that load's answer may still land when it is shown
  again, after a newer list. `SteadyFeed` is therefore about one subscription.
* An area whose floor has not been read is in no group of the tree; `OpensWhereListed`
  excepts such areas (`Groupless`).
* The browser's tree stays locked when the asset of an open form goes after its place has
  gone; `LockGoesWithForm` says exactly this.
* Replacement checks compatibility of the candidate before the lock, and the commit names
  it by its entity id; `ReplacesReviewed` is about what is replaced, not about what with.
* The index of targets, the lights and the repairs do not hear of an entry that is created
  anew; `LightsFollow` and `RemovalReported` except entries made since the last commit.
* A form for a new asset that is left through another mode while its request is under way
  leaves its answer to the form that is opened next, which then counts as committed
  (`add-view.js:151-152`, `:180-181`). No document says otherwise; `SessionKept` is about
  one form.
* The end of a save that was left behind makes a later operation of the connection editor
  look idle (`primary-connection-editor.js:300`). Its error and its plan are in
  `PlansAreOwn`, this is not.

## Hazards without a property

Left out of the list in `PROJECT.json`, which is of hazards that a property covers: a
command cancelled while it awaits the save (`manager.py:169`; nothing in the repository
says what cancels it); another integration that hides an entity with the value BindHome
uses (`adoption.py:67`; no code could tell the two apart); the add view reached by an
address without a new session (`frontend/src/bindhome-panel.js:506`); a list awaited after
a save while the view changes (`bindhome-panel.js:109`); another asset selected below an
open form (`inventory-browser.js:425`); changes computed against the asset as last read
while the draft is older (`human-asset-editor.js:61`); the order in which the lists of the
two add views grow (`inventory-workflow.js:248`).

## Proofs

All proofs are checked by TLAPS for every value of the constants, under the named
assumptions of the modules: batches consist of assets, the light's contract names
capabilities, sentinels such as `NoCode`, `None` or `Nobody` are none of the values they
are mixed with, bounds are natural numbers. TLC evaluates each assumption in a run: where
a module is instantiated with the values of a part, its assumption is a definition such as
`BrowserAssumption`, which the MC module states as an ASSUME for each of its instances
and the theorems take as a hypothesis. A module of proofs about several components
instantiates the further ones under a prefix.

* `RegistryProofs`: one lemma per command, that it keeps `Consistent`. No part of
  `Consistent` is inductive alone: updating an asset keeps bindings alive only because ids
  are unique, releasing owners keeps ownership only because entities are adopted once.
  `EditInherits` and `ConsentOpens` say where adoption records come from.
* `AtomicRegistryProofs`: `TypeOK /\ Consistent(registry)` is inductive; the invariants
  and both action properties follow.
* `ManagerProofs`: the inductive invariant adds who waits (`QueueInv`), that what is
  staged is an edit of the live registry until the rename (`LockInv`), what a revision
  read from the manager in charge can mean (`SeenInv`, `ExpectedInv`, `PatchInv`; of one
  read before a restart nothing is known), and persist-before-publish.
  `Implementation` maps every step to a step of AtomicRegistry or a stutter; the rename is
  the moment of effect.
* `CompositionProofs`, first part: `NamesAgree` and `LightsStay` make the two graphs
  equal; then a set of keys in which each depends on another one must contain the new
  edge, and the check has followed the rest of it. Second part, audits: what was found
  stays justified by the targets the audit began with, and these are the targets of now
  until something changes, which the report says; what was not found and had not changed
  is a gap. Third part, CSV files: `batch` after some rows is what the rows so far mean at
  once, because an id is taken once and codes are compared with those seen and those kept;
  a file is the case in which no row is left. Fourth part, graph queries. A search is the
  queue of its paths: they come in order of length and among equals in order of their
  relations, each asset's first path is the least of those there are, and what is not in
  the queue any more has been extended (`Tells`, `Search`); at the end, an asset with no
  path is one that no path reaches. Distances are lengths of shortest paths, and that no
  shorter one exists is induction over lengths, in the form that a set of natural numbers
  has a least element (`LeastOf`, `AllOf`). Fifth part, texts. The reader of a text and a
  concatenation are recursive functions; that there is one with the values its equation
  gives it is one more induction over lengths (`Recursion`). A field that is written with
  or without quotes is then read as it was, a line field by field and a file line by line
  (`FieldRead`, `LineRead`, `FileRead`). In what is written no quote comes next in a field
  that is not quoted (`AllCalm`), so that the reader is in quotes exactly while the quotes
  so far do not pair (`QuotesPair`), but between two characters that are read as one; a
  text that is cut off differs from the whole in nothing but what comes next (`CutRead`),
  and that is why the quotes of a file tell where it was cut off.
* `AdoptionProofs`, first part: visibility and records are tied both ways
  (`NothingLeftHidden`, `OwnsWhatItHid`), and a pending mutation rewrites no snapshot, so
  a crash before or after the rename leaves a record for every hiding. Without backups.
  Second part: `RInv` carries this over to removals. It says in each phase which of file,
  old manager and clearing manager agree, and that what is still to be shown is among the
  records cleared; a removal that meets no pending mutation and no fault then leaves
  nothing and shows only what BindHome hid (`RemovalReversesAdoption`). Third part,
  Replacement: a plan, and a request that carries one, names what is bound as long as its
  revision is the live one; requests that wait may be out of date, the one with the lock
  is not (`ReplacementsAsReviewed`). Candidates are compared by the names of now
  (`CandidatesFree`). The theorems are of the run's own specification, a step of which is
  one of removals or one of replacements (`PartSteps`). Fourth part, Connection: which
  messages may be under way depends on the state of the editor, and each own one is for
  the connection on show; a plan names what is bound unless a later commit has made its
  revision stale, in which case the server refuses it; what is bound has an id of its own
  (`Bound`).
* `LifecycleProofs`: `RepairTells` is inductive with what each step of a set-up has
  recorded so far (`Told`); the history variable `readWell` says whether the last one read
  a registry. `NewerKept` rests on `QuietInv`: over a newer file, and without a process,
  nothing is at work that would write. `LiveIsStored` rests on `StoredInv`: what a set-up
  is about to load, and what is loaded, is what the file says, unless a reload has
  overtaken a save or a restore is still to be loaded. For LightRuntime, none of lights,
  index and issues can be treated alone: lights follow renames because the index names
  every bound entry, the index stays true because two entries never have one name, and a
  light has an entry exactly when Home Assistant has added it. `ReconcileOK` says what the
  reconciliation that nothing waits for will leave. `LightsSettled` is about the run's own
  specification.
* `PreferencesProofs`, first part: no message under way is the panel's own once the user
  has chosen, and an own one is for the user on show; and a migration that was answered
  well is of a user whose preference the server has (`KeptThroughout`). Second part,
  Shell: screen and address are two copies of one state but for an address that is being
  handed over. Third part, AssetBrowser: every save under way is waited for by the editor,
  or by one that has been taken out (`Balance`); the editor is there exactly while its
  asset is listed (`EditorHolds`); and the fields in which a draft differs from its
  snapshot only shrink when a newer asset comes (`Shrinks`). Fourth part, the tools. A
  preview of the revision of now was computed on what is there now (CsvInventory), and
  what is seen of the manager of now at the revision of now is all that is there
  (BackupRestore); the server refuses any other revision. A preview on show is of the file
  on show, and each answer that could bring another one comes after a crossing, which the
  history variable `crossed` has noted; the same for a last backup and its user, where a
  status of the user under way is the one excuse. A load of the report under way is the
  only one (HealthTool). A request of the form that adds an asset is the only own one, and
  the form is saving or was accepted (AddView); a batch is under way exactly while the
  workflow says so, whatever controllers it has had (RoomInventory); one request of an
  import is under way at most (ImportReview).
* `PanelProofs`: along the socket contents grow (`OrderOK`): what a refresh has got is no
  newer than what is still to come, and for the newest refresh, the only one that lands, no
  older than what is shown. `NoOwnConflict` has an invariant of its own,
  `OwnOK`: each commit of the panel itself that its basis lacks is announced by an answer on
  its way, so that a panel that has no other mutation under way lacks none. `SteadyFeed` has
  another: the list of assets has a path of its own past the generations, and a conflict is
  withdrawn by a load that may have begun before the refusal. Refreshes take turns on the
  socket (`Turns`), and a part that a commit has outdated is followed by a notice of that
  commit (`Notices`), which begins a refresh that supersedes the one the part belongs to
  before anything newer arrives. Second
  part, the controls of the pages: what a confirmed request says is what was on show, or the
  server refuses it; and the messages of an asset that was left are no longer own ones.

### Only model-checked

Liveness, which TLAPS does not support: `Answered`, the loads in `ScreensSettle`,
`OperationsEnd` and what ends in `DraftsAreOwn`, `PlansAreOwn` and `StaysHome`.
`ErrorOnItsDraft`, that an error of a batch stays on its draft. Where a property of a run
is a conjunction over several components, as `DraftsKept` and `ReviewedOnly` are, its
parts are proved of the components, and the conjunction is what the run checks. Not
proved because false: the properties of the violated runs and of the table above.

## Not modelled

A restart of the manager while a form or a confirmation of the pages is open, which would
let revisions repeat there as they do in Manager and BackupRestore; a restart of Home
Assistant that finds entries of lights without a light. 

Diagnostics and system health (reports that change nothing), presets (constants), the
config flow (a form for a single instance), the registration of the panel, styles, texts
and the rendering of data that other parts own (`topology-explorer.js`,
`inventory-section.js`, the search and the order of lists). Schemas and error codes of
commands and the decorators that read one flag of the user. What a migration rewrites in a
payload of an old schema. The mirroring of brightness and colour by a light and the
forwarding of its services, in which BindHome keeps no state. Malformed rows of CSV files;
that two rows of a file exchange their codes is refused, because rows apply in order, and
is in CsvBatch as it is.
