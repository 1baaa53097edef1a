--------------------------- MODULE ElementDetail ---------------------------
(***************************************************************************)
(* bindhome-element-detail, an asset's page in Casa, with the forms it     *)
(* shows one at a time: bindhome-contextual-relation-editor for an action, *)
(* and bindhome-human-asset-editor in place of the page.                   *)
(*                                                                         *)
(* The page is reused for the next asset, and takes its forms out of the   *)
(* document then.  Both forms compare a token and their asset when an      *)
(* answer comes, but an element that is out of the document is given no    *)
(* other asset: the comparison always succeeds, and what the form then     *)
(* dispatches is heard by the listeners the page put on it.  So here a     *)
(* message says only whether its form is still mounted.                    *)
(***************************************************************************)
EXTENDS Integers, Sequences, FiniteSets

CONSTANTS
  Assets, Values,
  Actions,        \* contextualRelationActions: directions of a relation, here
  None,
  MaxRevision,    \* bound: commits
  MaxWaiting      \* bound: requests, and notices, on their way

DetailAssumption == None \notin Assets \cup Values \cup Actions

VARIABLES
  stored, relations, revision,    \* the registry
  toServer, toPanel,              \* the socket
  known,                          \* the panel's assets
  asset,                          \* the asset of the page, _identity
  action, editingAsset, sync,     \* the page
  target, draft,                  \* the mounted form: _target; _name and _code
  saving, committed, refused      \* the mounted form; refused is its _error

server == <<stored, relations, revision>>
socket == <<toServer, toPanel>>
page == <<action, editingAsset, sync>>
form == <<target, draft, saving, committed, refused>>
vars == <<server, socket, known, asset, page, form>>

Fields == {"name", "code"}
Data == [Fields -> Values]

RelationForm == action # None /\ ~editingAsset

\* A form's constructor and first update, or no form at all.
Mount(a) ==
  /\ target' = None /\ draft' = known[a] /\ saving' = FALSE
  /\ committed' = FALSE /\ refused' = FALSE

Init ==
  /\ \E v \in Values : stored = [a \in Assets |-> [f \in Fields |-> v]]
  /\ known = stored /\ relations = {} /\ revision = 0
  /\ toServer = <<>> /\ toPanel = <<>>
  /\ asset \in Assets
  /\ action = None /\ editingAsset = FALSE /\ sync = None
  /\ target = None /\ draft = known[asset] /\ saving = FALSE
  /\ committed = FALSE /\ refused = FALSE

-----------------------------------------------------------------------------
(***************************************************************************)
(* The server.                                                             *)
(***************************************************************************)

OtherCommit ==
  /\ revision < MaxRevision /\ revision' = revision + 1
  /\ \E a \in Assets, f \in Fields, v \in Values :
       stored[a][f] # v /\ stored' = [stored EXCEPT ![a][f] = v]
  /\ UNCHANGED <<relations, socket, known, asset, page, form>>

Answer(m) == toPanel' = Append(toPanel, m)

\* async_update_asset: what the request leaves out is kept.
Update(a, changes) ==
  stored' = [stored EXCEPT ![a] = [f \in Fields |-> IF f \in DOMAIN changes THEN changes[f] ELSE @[f]]]

ServeMutation(m) ==
  /\ m.type \in {"relate", "update"}
  /\ \/ /\ revision < MaxRevision /\ revision' = revision + 1
        /\ \/ /\ m.type = "relate" /\ m.relation \notin relations
              /\ relations' = relations \cup {m.relation} /\ UNCHANGED stored
           \/ /\ m.type = "update" /\ Update(m.asset, m.changes) /\ UNCHANGED relations
        /\ Answer([type |-> "done", of |-> m.type, mounted |-> m.mounted, asset |-> m.asset,
                   data |-> stored'[m.asset]])
     \* A conflict, a duplicate, or a save that failed.
     \/ /\ Answer([type |-> "refused", of |-> m.type, mounted |-> m.mounted, asset |-> m.asset])
        /\ UNCHANGED server

\* The relation's form reads the registry, the asset's the assets.
ServeRefresh(m) ==
  /\ m.type = "refresh"
  /\ \E ok \in BOOLEAN :
       Answer([type |-> "refreshed", of |-> m.of, mounted |-> m.mounted, asset |-> m.asset,
               ok |-> ok, assets |-> stored])
  /\ UNCHANGED server

Serve ==
  /\ toServer # <<>> /\ Len(toPanel) <= MaxWaiting
  /\ toServer' = Tail(toServer)
  /\ LET m == Head(toServer) IN ServeMutation(m) \/ ServeRefresh(m)
  /\ UNCHANGED <<known, asset, page, form>>

\* The panel follows a notice of a change.
Follow ==
  /\ Len(toPanel) < MaxWaiting /\ known # stored
  /\ Answer([type |-> "followed", mounted |-> FALSE, asset |-> asset, assets |-> stored])
  /\ UNCHANGED <<server, toServer, known, asset, page, form>>

-----------------------------------------------------------------------------
(***************************************************************************)
(* The user.                                                               *)
(***************************************************************************)

Ready == Len(toServer) < MaxWaiting

Unmounted(q) == [n \in DOMAIN q |-> [q[n] EXCEPT !.mounted = FALSE]]

Unmount(a) ==
  /\ Mount(a)
  /\ toServer' = Unmounted(toServer) /\ toPanel' = Unmounted(toPanel)

\* The page of another asset: what was open is closed.
ChangeAsset(a) ==
  /\ a # asset /\ asset' = a
  /\ action' = None /\ editingAsset' = FALSE /\ sync' = None
  /\ Unmount(a)
  /\ UNCHANGED <<server, known>>

OpenAction(x) ==
  /\ ~editingAsset /\ action = None
  /\ action' = x /\ Mount(asset)
  /\ UNCHANGED <<server, socket, known, asset, editingAsset, sync>>

\* Its button is not disabled during the save.
CancelAction ==
  /\ RelationForm
  /\ action' = None /\ Unmount(asset)
  /\ UNCHANGED <<server, known, asset, editingAsset, sync>>

Choose(o) ==
  /\ RelationForm /\ o # asset
  /\ target' = o
  /\ UNCHANGED <<server, socket, known, asset, page, draft, saving, committed, refused>>

NotSaved == ~saving /\ ~committed

Request(m) ==
  /\ saving' = TRUE /\ refused' = FALSE
  /\ toServer' = Append(toServer, m)

SaveRelation ==
  /\ RelationForm /\ NotSaved /\ target # None /\ Ready
  /\ Request([type |-> "relate", mounted |-> TRUE, asset |-> asset, changes |-> <<>>,
              relation |-> IF action = "incoming" THEN <<target, asset>> ELSE <<asset, target>>])
  /\ UNCHANGED <<server, toPanel, known, asset, page, target, draft, committed>>

\* A form for a relation is taken out, its action stays.
EditAsset ==
  /\ ~editingAsset /\ editingAsset' = TRUE
  /\ Unmount(asset)
  /\ UNCHANGED <<server, known, asset, action, sync>>

CancelAsset ==
  /\ editingAsset /\ ~saving /\ editingAsset' = FALSE
  /\ Unmount(asset)
  /\ UNCHANGED <<server, known, asset, action, sync>>

Input(f, v) ==
  /\ editingAsset /\ v # draft[f]
  /\ draft' = [draft EXCEPT ![f] = v]
  /\ UNCHANGED <<server, socket, known, asset, page, target, saving, committed, refused>>

\* Compared with the asset as it is now, not as it was when the form opened.
Changed == {f \in Fields : draft[f] # known[asset][f]}

SaveAsset ==
  /\ editingAsset /\ NotSaved /\ Changed # {} /\ Ready
  /\ Request([type |-> "update", mounted |-> TRUE, asset |-> asset,
              changes |-> [f \in Changed |-> draft[f]], relation |-> <<>>])
  /\ UNCHANGED <<server, toPanel, known, asset, page, target, draft, committed>>

SaveNothing ==
  /\ editingAsset /\ NotSaved /\ Changed = {}
  /\ editingAsset' = FALSE /\ Unmount(asset)
  /\ UNCHANGED <<server, known, asset, action, sync>>

-----------------------------------------------------------------------------
(***************************************************************************)
(* Answers.                                                                *)
(***************************************************************************)

\* The form waits for the refresh to close.  An asset that was saved is shown as saved:
\* the event of a form that is out of the document is heard by nobody.
ReceiveDone(m) ==
  /\ m.type = "done"
  /\ IF m.mounted
     THEN /\ committed' = TRUE
          /\ saving' = (m.of = "update")
     ELSE UNCHANGED <<committed, saving>>
  /\ known' = IF m.mounted /\ m.of = "update" THEN [known EXCEPT ![m.asset] = m.data] ELSE known
  /\ toServer' = Append(toServer, [type |-> "refresh", of |-> m.of, mounted |-> m.mounted,
                                   asset |-> m.asset])
  /\ toPanel' = Tail(toPanel)
  /\ UNCHANGED <<page, target, draft, refused>>

ReceiveRefused(m) ==
  /\ m.type = "refused"
  /\ IF m.mounted THEN refused' = TRUE /\ saving' = FALSE ELSE UNCHANGED <<refused, saving>>
  /\ toPanel' = Tail(toPanel)
  /\ UNCHANGED <<toServer, known, page, target, draft, committed>>

\* Another read has been asked for since.
Superseded ==
  \/ \E n \in 2..Len(toPanel) : toPanel[n].type \in {"refreshed", "followed"}
  \/ \E n \in DOMAIN toServer : toServer[n].type = "refresh"

Closes(m) == TRUE

CloseForm(m) ==
  /\ action' = IF m.of = "relate" /\ Closes(m) THEN None ELSE action
  /\ editingAsset' = (editingAsset /\ ~(m.of = "update" /\ Closes(m)))
  /\ IF RelationForm' # RelationForm \/ editingAsset' # editingAsset
     THEN /\ target' = None /\ draft' = known'[asset] /\ saving' = FALSE
          /\ committed' = FALSE /\ refused' = FALSE
          /\ toServer' = Unmounted(toServer) /\ toPanel' = Unmounted(Tail(toPanel))
     ELSE toPanel' = Tail(toPanel) /\ UNCHANGED <<toServer, form>>

\* The end of both _save: a warning, then "done".
ReceiveRefreshed(m) ==
  /\ m.type = "refreshed"
  /\ known' = IF m.ok /\ ~Superseded THEN m.assets ELSE known
  /\ sync' = IF m.ok THEN sync ELSE m.asset
  /\ CloseForm(m)

ReceiveFollowed(m) ==
  /\ m.type = "followed"
  /\ known' = IF Superseded THEN known ELSE m.assets
  /\ toPanel' = Tail(toPanel)
  /\ UNCHANGED <<toServer, page, form>>

Receive ==
  /\ toPanel # <<>>
  /\ LET m == Head(toPanel) IN
       ReceiveDone(m) \/ ReceiveRefused(m) \/ ReceiveRefreshed(m) \/ ReceiveFollowed(m)
  /\ UNCHANGED <<server, asset>>

Next ==
  \/ OtherCommit \/ Serve \/ Follow \/ Receive
  \/ \E a \in Assets : ChangeAsset(a) \/ Choose(a)
  \/ \E x \in Actions : OpenAction(x)
  \/ CancelAction \/ SaveRelation
  \/ EditAsset \/ CancelAsset \/ SaveAsset \/ SaveNothing
  \/ \E f \in Fields, v \in Values : Input(f, v)

Spec == Init /\ [][Next]_vars

-----------------------------------------------------------------------------
(***************************************************************************)
(* Properties.                                                             *)
(***************************************************************************)

\* The state has the shapes the code gives it.
TypeOK ==
  /\ stored \in [Assets -> Data] /\ known \in [Assets -> Data]
  /\ relations \subseteq Assets \X Assets /\ revision \in 0..MaxRevision
  /\ asset \in Assets /\ action \in Actions \cup {None} /\ sync \in Assets \cup {None}
  /\ target \in Assets \cup {None} /\ draft \in Data
  /\ {editingAsset, saving, committed, refused} \subseteq BOOLEAN

Writing(m) == m.mounted /\ m.type \in {"relate", "update", "done", "refused"}

\* A form writes once: while its write is under way, and after it was accepted, there is
\* no other of it, however often it is pressed (contextual-relation-editor.js and
\* human-asset-editor.js, _saving and _committed).
OneWrite ==
  /\ Cardinality({n \in DOMAIN toServer : Writing(toServer[n])})
       + Cardinality({n \in DOMAIN toPanel : Writing(toPanel[n])}) <= 1
  /\ committed => \A n \in DOMAIN toServer : ~Writing(toServer[n])

=============================================================================
