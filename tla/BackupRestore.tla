---------------------------- MODULE BackupRestore ----------------------------
(***************************************************************************)
(* bindhome-backup-restore-tool: the registry is downloaded; a backup file *)
(* is read, reviewed, confirmed and restored, by the loaded manager at the *)
(* revision the panel has or, when the registry could not be loaded, past  *)
(* any manager and followed by a reload.                                   *)
(*                                                                         *)
(* The panel has loaded before the tool is there, so the registry fails to *)
(* load in a reload under an open panel.  A backup stands for the file it  *)
(* is read from.  The preference and the recovery status are asked for     *)
(* together and taken as one request.                                      *)
(***************************************************************************)
EXTENDS Integers, Sequences, Functions

CONSTANTS
  Files,
  Users,
  None,
  MaxRevision,    \* bound: commits
  MaxReloads,     \* bound: reloads that fail
  MaxWaiting      \* bound: messages on their way, each way

BackupAssumption ==
  None \notin Files \cup Users \cup {"export", "restore", "reload failed"} /\ Users # {}

VARIABLES
  loaded, revision, kept,         \* the server; whose backup is stored as a user's last
  others, life,                   \* history: commits of other clients; the manager
  toServer, toPanel,              \* the socket
  user, shown,                    \* hass.user; the registry the panel shows
  reading,                        \* files being read
  fileName, backup,               \* the file selected; the backup in memory
  confirmed,                      \* the box
  busy, success,
  recovery, lastBackup,           \* whose backup is shown as the last
  crossed                         \* history: the user changed during an export

server == <<loaded, revision, kept, others, life>>
socket == <<toServer, toPanel>>
file == <<reading, fileName, backup, confirmed>>
outcome == <<busy, success>>
status == <<recovery, lastBackup, crossed>>
vars == <<server, socket, user, shown, file, outcome, status>>

\* The registry as the panel reads it.
Snapshot == [revision |-> revision, others |-> others, life |-> life]

StatusOf(u, last) == [type |-> "status", user |-> u, last |-> last]

Init ==
  /\ loaded = TRUE /\ revision = 0 /\ others = 0 /\ life = 0
  /\ \E U \in SUBSET Users : kept = [u \in Users |-> IF u \in U THEN u ELSE None]
  /\ user \in Users /\ shown = Snapshot
  /\ toServer = <<StatusOf(user, FALSE)>> /\ toPanel = <<>>
  /\ reading = {} /\ fileName = None /\ backup = None
  /\ confirmed = FALSE
  /\ busy = FALSE /\ success = None
  /\ recovery = FALSE /\ lastBackup = None /\ crossed = FALSE

-----------------------------------------------------------------------------
(***************************************************************************)
(* The server.                                                             *)
(***************************************************************************)

Answer(m) == toPanel' = Append(toPanel, m)

\* A reload fails: the file cannot be read, or written in the new form.
ReloadFails ==
  /\ loaded /\ life < MaxReloads /\ loaded' = FALSE
  /\ UNCHANGED <<revision, kept, others, life, socket, user, shown, file, outcome, status>>

\* A new manager, that counts from 0.
NewManager == loaded' = TRUE /\ life' = life + 1 /\ revision' = 0

\* Another administrator commits, or restores a registry that could not be loaded.
OtherCommit ==
  /\ others < MaxRevision /\ others' = others + 1
  /\ IF loaded THEN revision < MaxRevision /\ revision' = revision + 1 /\ UNCHANGED <<loaded, life>>
               ELSE NewManager
  /\ UNCHANGED <<kept, socket, user, shown, file, outcome, status>>

\* Mutant: the revision of a restore is not checked.
AnyRevision(m) == loaded

Accepts(m) == m.revision \in {None, revision}

\* Under the lock of the manager; a save that fails, or a backup that is refused, is an error.
RestoreLive(m) ==
  /\ loaded /\ Accepts(m) /\ revision < MaxRevision
  /\ revision' = revision + 1 /\ UNCHANGED <<loaded, life>>
  /\ Answer([type |-> "restored", reloaded |-> TRUE, manager |-> life])

\* The file is written, and the config entry reloaded, which may fail.
RestoreRecovery(m) ==
  /\ ~loaded
  /\ \/ /\ NewManager
        /\ Answer([type |-> "restored", reloaded |-> TRUE, manager |-> life'])
     \/ /\ UNCHANGED <<loaded, life, revision>>
        /\ Answer([type |-> "restored", reloaded |-> FALSE, manager |-> None])

ServeRestore(m) ==
  /\ m.type = "restore"
  /\ \/ RestoreLive(m) \/ RestoreRecovery(m)
     \/ Answer([type |-> "error"]) /\ UNCHANGED <<loaded, life, revision>>
  /\ UNCHANGED <<kept, others>>

\* Only a loaded manager can be exported.
ServeExport(m) ==
  /\ m.type = "export"
  /\ \/ loaded /\ Answer(m)
     \/ Answer([type |-> "error"])
  /\ UNCHANGED server

\* Each of the two reads may fail, which the tool takes for nothing.
ServeStatus(m) ==
  /\ m.type = "status"
  /\ \E r \in {~loaded, FALSE}, k \in {kept[m.user], None} :
       Answer([type |-> "status", user |-> m.user, last |-> m.last,
               recovery |-> r, lastBackup |-> k])
  /\ UNCHANGED server

\* A preference that cannot be saved is no error.
ServeSave(m) ==
  /\ m.type = "save"
  /\ kept' \in {kept, [kept EXCEPT ![m.user] = m.by]}
  /\ Answer([type |-> "saved"])
  /\ UNCHANGED <<loaded, revision, others, life>>

Serve ==
  /\ toServer # <<>> /\ Len(toPanel) < MaxWaiting
  /\ toServer' = Tail(toServer)
  /\ LET m == Head(toServer) IN
       ServeRestore(m) \/ ServeExport(m) \/ ServeStatus(m) \/ ServeSave(m)
  /\ UNCHANGED <<user, shown, file, outcome, status>>

-----------------------------------------------------------------------------
(***************************************************************************)
(* The tool.                                                               *)
(***************************************************************************)

Send(m) == toServer' = Append(toServer, m)

Request(m) == Len(toServer) < MaxWaiting /\ Send(m)

\* The panel has read the registry again, after a change event or by itself.
Refreshed ==
  /\ loaded /\ shown # Snapshot /\ shown' = Snapshot
  /\ UNCHANGED <<server, socket, user, file, outcome, status>>

\* updated: another user, and the status again.
UserChanges(u) ==
  /\ u # user /\ user' = u
  /\ Request(StatusOf(u, FALSE))
  /\ UNCHANGED <<server, toPanel, shown, file, outcome, status>>

Export ==
  /\ ~busy /\ busy' = TRUE /\ success' = None
  /\ Request([type |-> "export", by |-> user])
  /\ UNCHANGED <<server, toPanel, user, shown, file, status>>

FileSelected(f) ==
  /\ ~busy /\ f \notin reading
  /\ success' = None /\ confirmed' = FALSE /\ fileName' = f
  /\ reading' = reading \cup {f}
  /\ UNCHANGED <<server, socket, user, shown, backup, busy, status>>

\* The text of a file is there, in any order; it may be no backup.
FileRead(f) ==
  /\ f \in reading /\ reading' = reading \ {f}
  /\ backup' \in {f, None}
  /\ UNCHANGED <<server, socket, user, shown, fileName, confirmed, outcome, status>>

Confirm ==
  /\ backup # None
  /\ confirmed' = ~confirmed
  /\ UNCHANGED <<server, socket, user, shown, reading, fileName, backup, outcome, status>>

\* A restore that is to recover states no revision.
Basis == IF recovery THEN None ELSE shown.revision

Restore ==
  /\ ~busy /\ confirmed /\ backup # None
  /\ busy' = TRUE /\ success' = None
  /\ Request([type |-> "restore", revision |-> Basis, others |-> shown.others,
              life |-> shown.life])
  /\ UNCHANGED <<server, toPanel, user, shown, file, status>>

Released == FALSE

\* The date is shown, and stored for the user there is by now.
ReceiveExport(m) ==
  /\ m.type = "export"
  /\ lastBackup' = m.by /\ crossed' = (crossed \/ m.by # user)
  /\ Send([type |-> "save", user |-> user, by |-> m.by])
  /\ UNCHANGED <<recovery, confirmed, outcome>>

ReceiveSaved(m) ==
  /\ m.type = "saved"
  /\ success' = "export" /\ busy' = Released
  /\ UNCHANGED <<toServer, status, confirmed>>

RestoreMessage(m) == IF m.reloaded THEN "restore" ELSE "reload failed"

\* Busy until the status has been read again.
ReceiveRestored(m) ==
  /\ m.type = "restored"
  /\ confirmed' = FALSE /\ success' = RestoreMessage(m)
  /\ Send(StatusOf(user, TRUE))
  /\ UNCHANGED <<status, busy>>

SameUser(m) == m.user = user

ReceiveStatus(m) ==
  /\ m.type = "status"
  /\ IF SameUser(m) THEN recovery' = m.recovery /\ lastBackup' = m.lastBackup
                    ELSE UNCHANGED <<recovery, lastBackup>>
  /\ busy' = IF m.last THEN Released ELSE busy
  /\ UNCHANGED <<toServer, confirmed, success, crossed>>

ReceiveError(m) ==
  /\ m.type = "error"
  /\ busy' = Released
  /\ UNCHANGED <<toServer, status, confirmed, success>>

Receive ==
  /\ toPanel # <<>> /\ toPanel' = Tail(toPanel)
  /\ LET m == Head(toPanel) IN
       \/ ReceiveExport(m) \/ ReceiveSaved(m) \/ ReceiveRestored(m)
       \/ ReceiveStatus(m) \/ ReceiveError(m)
  /\ UNCHANGED <<server, user, shown, reading, fileName, backup>>

Next ==
  \/ ReloadFails \/ OtherCommit \/ Serve \/ Refreshed
  \/ \E u \in Users : UserChanges(u)
  \/ \E f \in Files : FileSelected(f) \/ FileRead(f)
  \/ Confirm \/ Export \/ Restore
  \/ Receive

Spec == Init /\ [][Next]_vars

-----------------------------------------------------------------------------
(***************************************************************************)
(* Properties.                                                             *)
(***************************************************************************)

\* The state has the shapes the code gives it.
TypeOK ==
  /\ loaded \in BOOLEAN /\ revision \in 0..MaxRevision
  /\ kept \in [Users -> Users \cup {None}] /\ others \in 0..MaxRevision
  /\ user \in Users /\ shown.revision \in 0..MaxRevision /\ life \in 0..MaxReloads
  /\ reading \subseteq Files /\ {fileName, backup} \subseteq Files \cup {None}
  /\ confirmed \in BOOLEAN /\ busy \in BOOLEAN
  /\ success \in {None, "export", "restore", "reload failed"}
  /\ recovery \in BOOLEAN /\ lastBackup \in Users \cup {None} /\ crossed \in BOOLEAN

Restores == Serve /\ Head(toServer).type = "restore" /\ toPanel'[Len(toPanel')].type = "restored"

\* A restore that states a revision of the manager that is loaded replaces the registry the
\* panel showed when it was asked for, with nothing of other clients in between
\* (backup-restore-tool.js _restore).  Of a restore at a revision of a former manager, or at
\* none, it says nothing.
NothingUnseen ==
  [][LET m == Head(toServer)
     IN Restores /\ loaded /\ m.revision # None /\ m.life = life => m.others = others]_vars

\* The same of every restore into a loaded manager, as the documents say it.  It does not hold:
\* README.md.
RestoresReviewed == [][Restores /\ loaded => Head(toServer).others = others]_vars

\* Success without reserve is reported only when a manager has loaded what was restored
\* (backup-restore-tool.js _restore, ws_backup_restore).
SuccessMeansLoaded ==
  [][success' = "restore" /\ success # "restore" => Head(toPanel).manager \in 0..life]_vars

StatusUnderWay ==
  \E m \in Range(toServer) \cup Range(toPanel) : m.type = "status" /\ m.user = user

\* The backup shown as the last is the user's own, but until the answer to the status of the
\* user is there, and if the user never changed during an export (backup-restore-tool.js
\* updated, _loadStatus, _exportBackup).
OthersNotShown == ~crossed => lastBackup \in {user, None} \/ StatusUnderWay

\* The last backup is stored for the user who made it, as the documents say it.  It does not
\* hold: README.md.
StoredPerUser == \A u \in Users : kept[u] \in {u, None}

=============================================================================
