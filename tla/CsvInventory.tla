---------------------------- MODULE CsvInventory ----------------------------
(***************************************************************************)
(* bindhome-csv-inventory-tool: a file is read, validated by the server,   *)
(* reviewed and imported at the revision of its validation; the inventory  *)
(* is exported for a floor, an area or as a whole.                         *)
(*                                                                         *)
(* The file input is disabled while the tool is busy, and reading a file   *)
(* does not make it busy, nor does the tool wait for it.  A file stands for what is in it.  Whether a     *)
(* file is accepted depends on the registry and on the areas of Home       *)
(* Assistant, which change without a commit.                               *)
(***************************************************************************)
EXTENDS Integers, Sequences, FiniteSets

CONSTANTS
  Files,
  Scopes,         \* of an export: "all", and the kinds that need a choice
  None,
  MaxRevision,    \* bound: commits
  MaxWaiting      \* bound: messages on their way, each way

CsvAssumption == None \notin Files /\ "all" \in Scopes

VARIABLES
  valid, revision,                \* the server: files it accepts; the registry
  others,                         \* history: commits of other clients
  toServer, toPanel,              \* the socket
  reading,                        \* files being read
  csvText,
  crossed,                        \* history: its text came when answers were still to come
  validation, busy, success,
  scope, chosen,                  \* of the export; the kinds with a choice
  exported                        \* the last download

server == <<valid, revision, others>>
socket == <<toServer, toPanel>>
file == <<reading, csvText, crossed>>
export == <<scope, chosen, exported>>
vars == <<server, socket, file, validation, busy, success, export>>

Init ==
  /\ valid \in SUBSET Files /\ revision = 0 /\ others = 0
  /\ toServer = <<>> /\ toPanel = <<>>
  /\ reading = {} /\ csvText = None /\ crossed = FALSE
  /\ validation = None /\ busy = FALSE /\ success = None
  /\ scope = "all" /\ chosen = {} /\ exported = None

-----------------------------------------------------------------------------
(***************************************************************************)
(* The server.                                                             *)
(***************************************************************************)

OtherCommit ==
  /\ revision < MaxRevision
  /\ revision' = revision + 1 /\ others' = others + 1
  /\ UNCHANGED <<valid, socket, file, validation, busy, success, export>>

\* An area that a file names is removed, or comes back; or the assets in it are such that
\* the file is refused, or no longer so, which is left out of the commits.
FilesChange ==
  /\ \E f \in Files : valid' = IF f \in valid THEN valid \ {f} ELSE valid \cup {f}
  /\ UNCHANGED <<revision, others, socket, file, validation, busy, success, export>>

Answer(m) == toPanel' = Append(toPanel, m)

ServeValidate(m) ==
  /\ m.type = "validate"
  /\ \/ Answer([type |-> "validated", file |-> m.file, valid |-> m.file \in valid,
                revision |-> revision, others |-> others])
     \/ Answer([type |-> "error"])
  /\ UNCHANGED server

Accepts(m) == m.revision = revision

\* A file that is refused is an answer like any other; a conflict, or a failure to save, is
\* an error.
ServeImport(m) ==
  /\ m.type = "import"
  /\ \/ /\ Accepts(m) /\ m.file \in valid /\ revision < MaxRevision
        /\ revision' = revision + 1 /\ UNCHANGED valid
        /\ Answer([type |-> "imported", file |-> m.file, valid |-> TRUE,
                   revision |-> revision', others |-> others])
     \/ /\ Accepts(m) /\ m.file \notin valid
        /\ Answer([type |-> "imported", file |-> m.file, valid |-> FALSE,
                   revision |-> revision, others |-> others])
        /\ UNCHANGED <<valid, revision>>
     \/ /\ Answer([type |-> "error"])
        /\ UNCHANGED <<valid, revision>>
  /\ UNCHANGED others

ServeRead(m) ==
  /\ m.type \in {"list", "export"}
  /\ Answer(m) \/ Answer([type |-> "error"])
  /\ UNCHANGED server

Serve ==
  /\ toServer # <<>> /\ Len(toPanel) < MaxWaiting
  /\ toServer' = Tail(toServer)
  /\ LET m == Head(toServer) IN ServeValidate(m) \/ ServeImport(m) \/ ServeRead(m)
  /\ UNCHANGED <<file, validation, busy, success, export>>

-----------------------------------------------------------------------------
(***************************************************************************)
(* The tool.                                                               *)
(***************************************************************************)

Send(m) == toServer' = Append(toServer, m)

FileSelected(f) ==
  /\ ~busy /\ f \notin reading
  /\ reading' = reading \cup {f}
  /\ UNCHANGED <<server, socket, csvText, crossed, validation, busy, success, export>>

Idle == toServer = <<>> /\ toPanel = <<>>

\* Mutant: a file leaves the preview of the one before it on show.
PreviewKept == validation

NoPreview == None

\* file.text() resolves, the shorter file before the longer, whatever is under way; then
\* _validate.
FileRead(f) ==
  /\ f \in reading /\ reading' = reading \ {f} /\ Len(toServer) < MaxWaiting
  /\ csvText' = f /\ crossed' = ~Idle
  /\ busy' = TRUE /\ success' = None /\ validation' = NoPreview
  /\ Send([type |-> "validate", file |-> f])
  /\ UNCHANGED <<server, toPanel, export>>

Commit ==
  /\ ~busy /\ validation # None /\ validation.valid
  /\ busy' = TRUE /\ success' = None
  /\ Send([type |-> "import", file |-> csvText, revision |-> validation.revision,
           others |-> validation.others])
  /\ UNCHANGED <<server, toPanel, file, validation, export>>

ScopeReady == scope = "all" \/ scope \in chosen

Export ==
  /\ ~busy /\ ScopeReady
  /\ busy' = TRUE /\ success' = None
  /\ Send([type |-> "export"])
  /\ UNCHANGED <<server, toPanel, file, validation, export>>

ChooseScope(s) ==
  /\ s # scope /\ scope' = s
  /\ UNCHANGED <<server, socket, file, validation, busy, success, chosen, exported>>

\* Of the floor or the area; the empty choice is among them.
ChoosePlace ==
  /\ scope # "all"
  /\ chosen' = IF scope \in chosen THEN chosen \ {scope} ELSE chosen \cup {scope}
  /\ UNCHANGED <<server, socket, file, validation, busy, success, scope, exported>>

Released == FALSE

ReceiveValidated(m) ==
  /\ m.type = "validated"
  /\ validation' = [file |-> m.file, valid |-> m.valid, revision |-> m.revision, others |-> m.others]
  /\ busy' = Released
  /\ UNCHANGED <<toServer, success, exported>>

\* The assets are read before the result is shown.
ReceiveImported(m) ==
  /\ m.type = "imported"
  /\ Send([m EXCEPT !.type = "list"])
  /\ UNCHANGED <<validation, busy, success, exported>>

\* The result takes the place of the validation.
ReceiveList(m) ==
  /\ m.type = "list"
  /\ validation' = [file |-> m.file, valid |-> m.valid, revision |-> m.revision, others |-> m.others]
  /\ success' = "import" /\ busy' = Released
  /\ UNCHANGED <<toServer, exported>>

\* scopeInventoryCsv and csvFilename look at the scope when the answer is there.
ReceiveExport(m) ==
  /\ m.type = "export"
  /\ exported' = scope
  /\ success' = "export" /\ busy' = Released
  /\ UNCHANGED <<toServer, validation>>

ReceiveError(m) ==
  /\ m.type = "error"
  /\ busy' = Released
  /\ UNCHANGED <<toServer, validation, success, exported>>

Receive ==
  /\ toPanel # <<>> /\ toPanel' = Tail(toPanel)
  /\ LET m == Head(toPanel) IN
       \/ ReceiveValidated(m) \/ ReceiveImported(m) \/ ReceiveList(m)
       \/ ReceiveExport(m) \/ ReceiveError(m)
  /\ UNCHANGED <<server, file, scope, chosen>>

Next ==
  \/ OtherCommit \/ FilesChange \/ Serve
  \/ \E f \in Files : FileSelected(f) \/ FileRead(f)
  \/ Commit \/ Export
  \/ \E s \in Scopes : ChooseScope(s)
  \/ ChoosePlace
  \/ Receive

Spec == Init /\ [][Next]_vars

-----------------------------------------------------------------------------
(***************************************************************************)
(* Properties.                                                             *)
(***************************************************************************)

\* The state has the shapes the code gives it.
TypeOK ==
  /\ valid \subseteq Files /\ revision \in 0..MaxRevision /\ others \in 0..revision
  /\ reading \subseteq Files /\ csvText \in Files \cup {None} /\ crossed \in BOOLEAN
  /\ validation # None => validation.file \in Files /\ validation.revision \in 0..revision
  /\ busy \in BOOLEAN /\ success \in {None, "import", "export"}
  /\ scope \in Scopes /\ chosen \subseteq Scopes
  /\ exported \in Scopes \cup {None}

Imports == revision' # revision /\ others' = others

\* What is imported changes the registry of the revision it states: nobody else has committed
\* since the answer that the preview on show is of (csv-inventory-tool.js _commit).  Which file
\* that answer was about is left to PreviewOfFile.
NothingUnseen == [][Imports => Head(toServer).others = others]_vars

\* The preview on show is of the file that a commit sends, if nothing was under way when the
\* text of that file came (csv-inventory-tool.js _fileSelected, _validate).
PreviewOfFile == ~crossed /\ validation # None => validation.file = csvText

\* The same of every commit, as the documents say it: only the file that was validated is
\* committed.  It does not hold: README.md.
FilePreviewed == [][Commit => validation.file = csvText]_vars

=============================================================================
