--------------------------- MODULE AssetTopology ---------------------------
(***************************************************************************)
(* bindhome-asset-topology and the bindhome-relation-editor inside it: the *)
(* relations of one asset, adding one and deleting one.                    *)
(*                                                                         *)
(* Both elements are reused when another asset is shown, and each counts   *)
(* its operations in a _token of its own.  Here a message says whose it    *)
(* is: "own" while the token it was sent with is current, "past" once it   *)
(* is not.  The editor is taken out of the document when its relation is   *)
(* committed; nothing renders it again, so its token and its asset stay    *)
(* what they were and its last message is own for ever.  A relation is     *)
(* named by what it relates.                                               *)
(***************************************************************************)
EXTENDS Integers, Sequences, FiniteSets

CONSTANTS
  Assets, Types,
  None,
  MaxRevision,    \* bound: commits
  MaxWaiting      \* bound: requests, and notices, on their way

TopologyAssumption == None \notin Assets \cup Types

VARIABLES
  relations, revision,            \* the registry
  toServer, toPanel,              \* the socket
  known,                          \* registry.relations, as last read
  asset,                          \* the asset shown, _identity of both elements
  editing, deleting, confirm, error, sync,    \* the topology
  direction, type, other, saving, refused     \* the editor; refused is its _error

server == <<relations, revision>>
socket == <<toServer, toPanel>>
topology == <<editing, deleting, confirm, error, sync>>
draft == <<direction, type, other>>
editor == <<draft, saving, refused>>
vars == <<server, socket, known, asset, topology, editor>>

Relation == {r \in [source : Assets, type : Types, target : Assets] : r.source # r.target}

\* relationPartitions: what the two columns show.
Shown == {r \in known : asset \in {r.source, r.target}}

EmptyDraft == direction' = "outgoing" /\ type' = None /\ other' = None

Init ==
  /\ relations \in SUBSET Relation /\ Cardinality(relations) = 1
  /\ known = relations /\ revision = 0
  /\ toServer = <<>> /\ toPanel = <<>>
  /\ asset \in Assets
  /\ editing = FALSE /\ deleting = None /\ confirm = None /\ error = FALSE /\ sync = FALSE
  /\ direction = "outgoing" /\ type = None /\ other = None
  /\ saving = FALSE /\ refused = FALSE

-----------------------------------------------------------------------------
(***************************************************************************)
(* The server.                                                             *)
(***************************************************************************)

OtherCommit ==
  /\ revision < MaxRevision /\ revision' = revision + 1
  /\ \E r \in Relation :
       relations' = IF r \in relations THEN relations \ {r} ELSE relations \cup {r}
  /\ UNCHANGED <<socket, known, asset, topology, editor>>

Answer(m) == toPanel' = Append(toPanel, m)

Committable(m) ==
  /\ revision < MaxRevision
  /\ m.relation \in Relation
  /\ (m.type = "create") = (m.relation \notin relations)

\* A conflict, a duplicate, a relation that is gone, or a save that failed, is refused.
ServeMutation(m) ==
  /\ m.type \in {"create", "delete"}
  /\ \/ /\ Committable(m)
        /\ relations' = IF m.type = "create" THEN relations \cup {m.relation}
                        ELSE relations \ {m.relation}
        /\ revision' = revision + 1
        /\ Answer([m EXCEPT !.type = IF m.type = "create" THEN "created" ELSE "deleted"])
     \/ /\ Answer([m EXCEPT !.type = IF m.type = "create" THEN "not_created" ELSE "not_deleted"])
        /\ UNCHANGED server

ServeRefresh(m) ==
  /\ m.type = "refresh"
  /\ \E ok \in BOOLEAN :
       Answer([type |-> "refreshed", by |-> m.by, whose |-> m.whose, asset |-> m.asset,
               ok |-> ok, relations |-> relations])
  /\ UNCHANGED server

Serve ==
  /\ toServer # <<>> /\ Len(toPanel) <= MaxWaiting
  /\ toServer' = Tail(toServer)
  /\ LET m == Head(toServer) IN ServeMutation(m) \/ ServeRefresh(m)
  /\ UNCHANGED <<known, asset, topology, editor>>

\* The panel follows a notice: the same read, with nobody waiting for it.
Follow ==
  /\ Len(toPanel) < MaxWaiting /\ known # relations
  /\ Answer([type |-> "refreshed", by |-> "panel", whose |-> "past", asset |-> asset,
             ok |-> TRUE, relations |-> relations])
  /\ UNCHANGED <<server, toServer, known, asset, topology, editor>>

-----------------------------------------------------------------------------
(***************************************************************************)
(* The user.                                                               *)
(***************************************************************************)

Ready == Len(toServer) < MaxWaiting

\* Mutant: an older operation is not told from the current one.
PastNothing(q, who) == q

\* The token of who is counted up: what it has sent is past.  An editor that is gone
\* has refreshes only, and they are out of reach.
Past(q, who) ==
  [n \in DOMAIN q |->
     IF q[n].by \in who /\ ~(q[n].by = "editor" /\ q[n].type \in {"refresh", "refreshed"})
     THEN [q[n] EXCEPT !.whose = "past"] ELSE q[n]]

Send(who, m) ==
  /\ toServer' = Append(Past(toServer, {who}), [by |-> who, whose |-> "own", asset |-> asset,
                        type |-> m.type, relation |-> m.relation])
  /\ toPanel' = Past(toPanel, {who})

\* Another asset at the same place; an open editor stays open, empty.
ChangeAsset(a) ==
  /\ a # asset /\ asset' = a
  /\ deleting' = None /\ confirm' = None /\ error' = FALSE /\ sync' = FALSE
  /\ EmptyDraft /\ saving' = FALSE /\ refused' = FALSE
  /\ toServer' = Past(toServer, {"editor", "topology"})
  /\ toPanel' = Past(toPanel, {"editor", "topology"})
  /\ UNCHANGED <<server, known, editing>>

OpenEditor ==
  /\ ~editing /\ editing' = TRUE
  /\ EmptyDraft /\ saving' = FALSE /\ refused' = FALSE
  /\ UNCHANGED <<server, socket, known, asset, deleting, confirm, error, sync>>

CancelEditor ==
  /\ editing /\ ~saving /\ editing' = FALSE
  /\ UNCHANGED <<server, socket, known, asset, deleting, confirm, error, sync, editor>>

Candidates == Assets \ {asset}

\* The fields are not disabled during a save.
Draft ==
  /\ editing
  /\ \/ direction' \in {"outgoing", "incoming"} \ {direction} /\ UNCHANGED <<type, other>>
     \/ type' \in (Types \cup {None}) \ {type} /\ UNCHANGED <<direction, other>>
     \/ other' \in Candidates \ {other} /\ UNCHANGED <<direction, type>>
  /\ UNCHANGED <<server, socket, known, asset, topology, saving, refused>>

Drafted ==
  IF direction = "outgoing" THEN [source |-> asset, type |-> type, target |-> other]
  ELSE [source |-> other, type |-> type, target |-> asset]

Save ==
  /\ editing /\ ~saving /\ other # None /\ type # None /\ Ready
  /\ saving' = TRUE /\ refused' = FALSE
  /\ Send("editor", [type |-> "create", relation |-> Drafted])
  /\ UNCHANGED <<server, known, asset, topology, draft>>

AskDelete ==
  /\ \/ deleting = None /\ confirm' \in Shown
     \/ confirm \in Shown /\ confirm' = None
  /\ UNCHANGED <<server, socket, known, asset, editing, deleting, error, sync, editor>>

\* The row of a relation that is gone is not rendered, nor its confirmation.
Delete ==
  /\ deleting = None /\ confirm \in Shown /\ Ready
  /\ deleting' = confirm /\ error' = FALSE
  /\ Send("topology", [type |-> "delete", relation |-> confirm])
  /\ UNCHANGED <<server, known, asset, editing, confirm, sync, editor>>

-----------------------------------------------------------------------------
(***************************************************************************)
(* Answers.                                                                *)
(***************************************************************************)

Released(flag, free) == free

RefreshAfter(m) ==
  toServer' = Append(toServer, [type |-> "refresh", by |-> m.by, whose |-> "own", asset |-> m.asset])

\* The draft is closed before the refresh: the editor that waits for it is gone.
ReceiveCreated(m) ==
  /\ m.type = "created"
  /\ IF m.whose = "own"
     THEN saving' = Released(saving, FALSE) /\ editing' = FALSE /\ RefreshAfter(m)
     ELSE UNCHANGED <<saving, editing, toServer>>
  /\ UNCHANGED <<known, deleting, confirm, error, sync, draft, refused>>

ReceiveNotCreated(m) ==
  /\ m.type = "not_created"
  /\ IF m.whose = "own"
     THEN refused' = TRUE /\ saving' = Released(saving, FALSE)
     ELSE UNCHANGED <<refused, saving>>
  /\ UNCHANGED <<toServer, known, topology, draft>>

ReceiveDeleted(m) ==
  /\ m.type = "deleted"
  /\ IF m.whose = "own"
     THEN deleting' = Released(deleting, None) /\ confirm' = None /\ RefreshAfter(m)
     ELSE UNCHANGED <<deleting, confirm, toServer>>
  /\ UNCHANGED <<known, editing, error, sync, editor>>

ReceiveNotDeleted(m) ==
  /\ m.type = "not_deleted"
  /\ IF m.whose = "own"
     THEN deleting' = Released(deleting, None) /\ error' = TRUE
     ELSE UNCHANGED <<deleting, error>>
  /\ UNCHANGED <<toServer, known, editing, confirm, sync, editor>>

\* Another read has been asked for since; its _dataGeneration is the newer one.
Superseded ==
  \/ \E n \in 2..Len(toPanel) : toPanel[n].type = "refreshed"
  \/ \E n \in DOMAIN toServer : toServer[n].type = "refresh"

ReceiveRefreshed(m) ==
  /\ m.type = "refreshed"
  /\ known' = IF m.ok /\ ~Superseded THEN m.relations ELSE known
  /\ sync' = (sync \/ (~m.ok /\ m.whose = "own"))
  /\ UNCHANGED <<toServer, editing, deleting, confirm, error, editor>>

Receive ==
  /\ toPanel # <<>>
  /\ toPanel' = Tail(toPanel)
  /\ LET m == Head(toPanel) IN
       ReceiveCreated(m) \/ ReceiveNotCreated(m) \/ ReceiveDeleted(m) \/ ReceiveNotDeleted(m)
         \/ ReceiveRefreshed(m)
  /\ UNCHANGED <<server, asset>>

Next ==
  \/ OtherCommit \/ Serve \/ Follow \/ Receive
  \/ \E a \in Assets : ChangeAsset(a)
  \/ OpenEditor \/ CancelEditor \/ Draft \/ Save
  \/ AskDelete \/ Delete

Spec == Init /\ [][Next]_vars

-----------------------------------------------------------------------------
(***************************************************************************)
(* Properties.                                                             *)
(***************************************************************************)

\* The state has the shapes the code gives it.
TypeOK ==
  /\ relations \subseteq Relation /\ known \subseteq Relation /\ revision \in 0..MaxRevision
  /\ asset \in Assets
  /\ {editing, saving, error, sync, refused} \subseteq BOOLEAN
  /\ {deleting, confirm} \subseteq Relation \cup {None}
  /\ direction \in {"outgoing", "incoming"} /\ type \in Types \cup {None}
  /\ other \in Assets \cup {None}

\* No relation drafted, confirmed or being deleted for one asset is left when another is
\* shown: a draft never relates an asset to itself, and what is confirmed or being deleted
\* is the shown asset's (relation-editor.js and asset-topology.js, willUpdate).
DraftOfAsset ==
  /\ other # asset
  /\ \A r \in {confirm, deleting} \ {None} : asset \in {r.source, r.target}

\* The answer to an operation of an asset the user has left changes nothing of what is
\* shown of another one; what a failed refresh says is left out (relation-editor.js _save,
\* asset-topology.js _delete).
LateAnswerStaysHome ==
  [][Len(toPanel') < Len(toPanel) /\ Head(toPanel).asset # asset
       => UNCHANGED <<editor, editing, deleting, confirm, error>>]_vars

=============================================================================
