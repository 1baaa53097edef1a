------------------------------ MODULE MCTools ------------------------------
(***************************************************************************)
(* The tools and workflows of the panel in one run: preferences, the       *)
(* inventory of a room, adding an asset, the CSV tool, backups, assisted   *)
(* import and Ajustes' report of health.  A behaviour is of one part, the  *)
(* others rest in an initial state.  Where a component has two parts, one  *)
(* is wider (more things) and the other deeper (more commits).             *)
(***************************************************************************)
EXTENDS Preferences

VARIABLES
  part,
  \* RoomInventory
  batches, pending, step, area, confirmRoom, quantities, retained, roomSaving, saveError,
  roomSuccess, roomBusy, failed,
  \* AddView
  created, additions, mode, preset, addArea, addSaving, addError, sync, added,
  \* CsvInventory
  valid, csvRevision, csvOthers, csvRequests, csvAnswers, csvReading, csvText, csvCrossed,
  validation, csvBusy, csvSuccess, exportScope, places, exported,
  \* BackupRestore
  loaded, backupRevision, kept, others, life, backupRequests, backupAnswers, hassUser, panel,
  reading, fileName, backup, confirmed, backupBusy, backupSuccess, recovery, lastBackup,
  crossed,
  \* ImportReview
  revision, assets, boundTo, available, changes, requests, answers, scope, review, loading,
  saving, error, success, shownAssets, committed,
  \* HealthTool
  todo, time, loads, connected, healthLoading, healthError, reports

roomVars ==
  <<batches, pending, step, area, confirmRoom, quantities, retained, roomSaving, saveError,
    roomSuccess, roomBusy, failed>>
addVars == <<created, additions, mode, preset, addArea, addSaving, addError, sync, added>>
csvVars ==
  <<valid, csvRevision, csvOthers, csvRequests, csvAnswers, csvReading, csvText, csvCrossed,
    validation, csvBusy, csvSuccess, exportScope, places, exported>>
backupVars ==
  <<loaded, backupRevision, kept, others, life, backupRequests, backupAnswers, hassUser, panel,
    reading, fileName, backup, confirmed, backupBusy, backupSuccess, recovery, lastBackup,
    crossed>>
importVars ==
  <<revision, assets, boundTo, available, changes, requests, answers, scope, review, loading,
    saving, error, success, shownAssets, committed>>
healthVars == <<todo, time, loads, connected, healthLoading, healthError, reports>>
PartVars ==
  <<part, vars, roomVars, addVars, csvVars, backupVars, importVars, healthVars>>

\* Two rooms and several drafts of one preset, or two presets in one room.
Room == INSTANCE RoomInventory WITH
  Presets <- <<"light">>, Rooms <- {"kitchen", "hall"}, MaxQuantity <- 2, MaxBatches <- 1,
  saving <- roomSaving, success <- roomSuccess, busy <- roomBusy
OneRoom == INSTANCE RoomInventory WITH
  Presets <- <<"light", "socket">>, Rooms <- {"kitchen"}, MaxQuantity <- 1, MaxBatches <- 1,
  saving <- roomSaving, success <- roomSuccess, busy <- roomBusy

Add == INSTANCE AddView WITH
  Presets <- {"light", "socket"}, Areas <- {"kitchen"}, MaxCreated <- 2, MaxPending <- 3,
  pending <- additions, area <- addArea, saving <- addSaving, error <- addError,
  committed <- added

\* Two files, or one and exports of every scope.
Csv == INSTANCE CsvInventory WITH
  Files <- {"one", "two"}, Scopes <- {"all"}, MaxRevision <- 1, MaxWaiting <- 1,
  revision <- csvRevision, others <- csvOthers, toServer <- csvRequests,
  toPanel <- csvAnswers, reading <- csvReading, busy <- csvBusy, success <- csvSuccess,
  scope <- exportScope, chosen <- places, crossed <- csvCrossed
Exports == INSTANCE CsvInventory WITH
  Files <- {"one"}, Scopes <- {"all", "floor"}, MaxRevision <- 1, MaxWaiting <- 1,
  revision <- csvRevision, others <- csvOthers, toServer <- csvRequests,
  toPanel <- csvAnswers, reading <- csvReading, busy <- csvBusy, success <- csvSuccess,
  scope <- exportScope, chosen <- places, crossed <- csvCrossed

\* Two users, or one and two commits.
Backups == INSTANCE BackupRestore WITH
  Files <- {"file"}, Users <- {"u", "w"}, MaxRevision <- 1, MaxReloads <- 0, MaxWaiting <- 1,
  revision <- backupRevision, toServer <- backupRequests, toPanel <- backupAnswers,
  user <- hassUser, shown <- panel, busy <- backupBusy, success <- backupSuccess
Backup == INSTANCE BackupRestore WITH
  Files <- {"file"}, Users <- {"u"}, MaxRevision <- 2, MaxReloads <- 1, MaxWaiting <- 1,
  revision <- backupRevision, toServer <- backupRequests, toPanel <- backupAnswers,
  user <- hassUser, shown <- panel, busy <- backupBusy, success <- backupSuccess

\* One proposal that may be merged with several assets, or whose commit is tried again, or
\* two in different areas.
Import == INSTANCE ImportReview WITH
  Proposals <- {"lamp"}, Assets <- {"a", "b"}, AreaOf <- [p \in {"lamp"} |-> "kitchen"],
  MaxRevision <- 1, MaxChanges <- 0, toServer <- requests, toPanel <- answers
Retry == INSTANCE ImportReview WITH
  Proposals <- {"lamp"}, Assets <- {"a"}, AreaOf <- [p \in {"lamp"} |-> "kitchen"],
  MaxRevision <- 2, MaxChanges <- 1, toServer <- requests, toPanel <- answers
Imports == INSTANCE ImportReview WITH
  Proposals <- {"lamp", "fan"}, Assets <- {},
  AreaOf <- [p \in {"lamp", "fan"} |-> IF p = "lamp" THEN "kitchen" ELSE "hall"],
  MaxRevision <- 0, MaxChanges <- 1, toServer <- requests, toPanel <- answers

Health == INSTANCE HealthTool WITH
  MaxTime <- 1, MaxLoads <- 2,
  loading <- healthLoading, error <- healthError, shown <- reports

ASSUME ToolsAssumption ==
  /\ Room!InventoryAssumption /\ Add!AddAssumption /\ Csv!CsvAssumption
  /\ Backups!BackupAssumption /\ Backup!BackupAssumption
  /\ Import!ImportAssumption /\ Retry!ImportAssumption /\ Imports!ImportAssumption

-----------------------------------------------------------------------------
Parts ==
  {"preferences", "room", "one room", "add", "csv", "exports", "backups", "backup", "import",
   "retry", "imports", "health"}

PartInit ==
  /\ part \in Parts
  /\ Init
  /\ part # "preferences" =>
       /\ kind = "pinned" /\ user \in Admins
       /\ \A u \in Users : server[u] = None /\ legacy[u] = None
  /\ IF part = "one room" THEN OneRoom!Init ELSE Room!Init
  /\ Add!Init
  /\ IF part = "exports" THEN Exports!Init ELSE Csv!Init
  /\ part \notin {"csv", "exports"} => valid = {}
  /\ IF part = "backup" THEN Backup!Init ELSE Backups!Init
  /\ hassUser = "u" /\ \A u \in DOMAIN kept : kept[u] = None
  /\ IF part = "imports" THEN Imports!Init ELSE IF part = "retry" THEN Retry!Init ELSE Import!Init
  /\ available = {"lamp"} /\ scope = "all"
  /\ assets = IF part = "import" THEN {"a", "b"} ELSE {}
  /\ Health!Init
  /\ part # "health" => \A r \in DOMAIN todo : ~todo[r]

PartNext ==
  \/ /\ part = "preferences" /\ Next
     /\ UNCHANGED <<part, roomVars, addVars, csvVars, backupVars, importVars, healthVars>>
  \/ /\ \/ part = "room" /\ Room!Next
        \/ part = "one room" /\ OneRoom!Next
     /\ UNCHANGED <<part, vars, addVars, csvVars, backupVars, importVars, healthVars>>
  \/ /\ part = "add" /\ Add!Next
     /\ UNCHANGED <<part, vars, roomVars, csvVars, backupVars, importVars, healthVars>>
  \/ /\ \/ part = "csv" /\ Csv!Next
        \/ part = "exports" /\ Exports!Next
     /\ UNCHANGED <<part, vars, roomVars, addVars, backupVars, importVars, healthVars>>
  \/ /\ \/ part = "backups" /\ Backups!Next
        \/ part = "backup" /\ Backup!Next
     /\ UNCHANGED <<part, vars, roomVars, addVars, csvVars, importVars, healthVars>>
  \/ /\ \/ part = "import" /\ Import!Next
        \/ part = "retry" /\ Retry!Next
        \/ part = "imports" /\ Imports!Next
     /\ UNCHANGED <<part, vars, roomVars, addVars, csvVars, backupVars, healthVars>>
  \/ /\ part = "health" /\ Health!Next
     /\ UNCHANGED <<part, vars, roomVars, addVars, csvVars, backupVars, importVars>>

Serves ==
  \/ /\ \/ part = "room" /\ Room!Answered
        \/ part = "one room" /\ OneRoom!Answered
     /\ UNCHANGED <<part, vars, addVars, csvVars, backupVars, importVars, healthVars>>
  \/ /\ part = "add" /\ Add!Answer(1)
     /\ UNCHANGED <<part, vars, roomVars, csvVars, backupVars, importVars, healthVars>>
  \/ /\ \/ part = "csv" /\ Csv!Serve
        \/ part = "exports" /\ Exports!Serve
     /\ UNCHANGED <<part, vars, roomVars, addVars, backupVars, importVars, healthVars>>
  \/ /\ \/ part = "backups" /\ Backups!Serve
        \/ part = "backup" /\ Backup!Serve
     /\ UNCHANGED <<part, vars, roomVars, addVars, csvVars, importVars, healthVars>>
  \/ /\ \/ part = "import" /\ Import!Serve
        \/ part = "retry" /\ Retry!Serve
        \/ part = "imports" /\ Imports!Serve
     /\ UNCHANGED <<part, vars, roomVars, addVars, csvVars, backupVars, healthVars>>
  \/ /\ part = "health" /\ Health!Answer
     /\ UNCHANGED <<part, vars, roomVars, addVars, csvVars, backupVars, importVars>>

Delivers ==
  \/ /\ \/ part = "csv" /\ Csv!Receive
        \/ part = "exports" /\ Exports!Receive
     /\ UNCHANGED <<part, vars, roomVars, addVars, backupVars, importVars, healthVars>>
  \/ /\ \/ part = "backups" /\ Backups!Receive
        \/ part = "backup" /\ Backup!Receive
     /\ UNCHANGED <<part, vars, roomVars, addVars, csvVars, importVars, healthVars>>
  \/ /\ \/ part = "import" /\ Import!Receive
        \/ part = "retry" /\ Retry!Receive
        \/ part = "imports" /\ Imports!Receive
     /\ UNCHANGED <<part, vars, roomVars, addVars, csvVars, backupVars, healthVars>>
  \/ /\ part = "health" /\ Health!Settle
     /\ UNCHANGED <<part, vars, roomVars, addVars, csvVars, backupVars, importVars>>

\* The server answers, the oldest request first where requests are told apart, and the socket
\* delivers.
PartSpec == PartInit /\ [][PartNext]_PartVars /\ WF_PartVars(Serves) /\ WF_PartVars(Delivers)

-----------------------------------------------------------------------------
RoomShape == IF part = "one room" THEN OneRoom!TypeOK ELSE Room!TypeOK
CsvShape == IF part = "exports" THEN Exports!TypeOK ELSE Csv!TypeOK
BackupShape == IF part = "backup" THEN Backup!TypeOK ELSE Backups!TypeOK
ImportShape ==
  CASE part = "imports" -> Imports!TypeOK
    [] part = "retry" -> Retry!TypeOK
    [] OTHER -> Import!TypeOK

\* The error of a refused batch stays on the draft it is about (inventory-workflow.js
\* _fieldError, _changeQuantity).
ErrorOnItsDraft ==
  IF part = "one room" THEN OneRoom!ErrorOnItsDraft ELSE Room!ErrorOnItsDraft

EditsStay == IF part = "one room" THEN OneRoom!EditsStay ELSE Room!EditsStay

\* No change of quantity loses an edit of a draft or takes it for another's, and one of language,
\* presets or session only when no draft is counted (draft-state.js, inventory-workflow.js
\* willUpdate, add-view.js _submit): one batch of a room is under way at a time although another
\* language gives the workflow another controller, its errors stay on their drafts, and a form
\* adds one asset.
DraftsKept ==
  /\ []RoomShape /\ []Add!TypeOK
  /\ []Room!OneBatch /\ []ErrorOnItsDraft /\ []Add!AddsOnce
  /\ [][EditsStay]_PartVars /\ Add!SessionKept

\* No refresh and no other language loses an edit of a draft, as the documents say it
\* (docs/architecture.md).  It does not hold: README.md.
EditsSurvive == [][part = "room" => Room!EditSurvives]_PartVars

\* The file that is imported is the one whose preview was on show, as the documents say it
\* (docs/csv-inventory.md).  It does not hold: README.md.
FilePreviewed == Csv!FilePreviewed

\* A restore into a loaded manager replaces the registry that was on show, as the documents say
\* it (docs/backup-restore.md).  It does not hold: README.md.
RestoresReviewed == Backup!RestoresReviewed

\* A last backup is stored for the user who made it, as the documents say it
\* (docs/backup-restore.md).  It does not hold: README.md.
StoredPerUser == part = "backups" => Backups!StoredPerUser

\* A reviewed batch of imports is committed once (async_commit_reviewed_imports).
BatchOnce ==
  [][part = "retry" /\ Retry!Commits /\ committed
       => UNCHANGED <<revision, assets, boundTo>>]_PartVars

\* An import never gives a target that is bound a second asset
\* (_reject_cross_asset_target_duplicate).
NoSecondAsset ==
  [][part = "import" /\ Import!Commits
       => boundTo'["lamp"] = boundTo["lamp"] \/ boundTo["lamp"] = {}]_PartVars

\* A reviewed proposal is missing at the commit only if Home Assistant has changed
\* (assisted-import-workflow.js _commit, ws_import_commit).
UnavailableOnlyAfterChange ==
  [][part = "imports" /\ Imports!Refused("unavailable")
       => Head(requests).changes # changes]_PartVars

\* What is imported, restored or committed at a revision is so over the registry it was reviewed
\* on (csv-inventory-tool.js _commit, backup-restore-tool.js _restore,
\* async_commit_reviewed_imports), each within the limits its property states; the preview of a
\* file is its own, and a last backup the user's, where no answers cross; success is said only
\* when a manager has loaded the backup, and no report of health gives way to an older one
\* (_loadStatus, ws_backup_restore, _refreshSupplementalHealth).
ReviewedOnly ==
  /\ []CsvShape /\ []BackupShape /\ []ImportShape /\ []Health!TypeOK
  /\ Csv!NothingUnseen /\ [](part = "csv" => Csv!PreviewOfFile)
  /\ Backup!NothingUnseen /\ Backup!SuccessMeansLoaded /\ []Backups!OthersNotShown
  /\ BatchOnce /\ NoSecondAsset /\ UnavailableOnlyAfterChange
  /\ Health!ReportsNeverGoBack

Saving ==
  roomSaving \/ addSaving \/ csvBusy \/ backupBusy \/ loading \/ saving \/ healthLoading

\* Every save, import, export, restore and load ends (the finally clauses of the tools).
OperationsEnd == Saving ~> ~Saving
=============================================================================
