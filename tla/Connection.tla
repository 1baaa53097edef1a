----------------------------- MODULE Connection -----------------------------
(***************************************************************************)
(* bindhome-primary-connection-editor: connecting a capability of an asset *)
(* to an entity, replacing the entity by a reviewed plan, disconnecting.   *)
(*                                                                         *)
(* The element is reused when the asset or the capability shown at its     *)
(* place changes: its identity changes and its state is reset.  The code   *)
(* counts operations in _operation and compares numbers when an answer     *)
(* comes; here a message carries "own", which a new operation takes away   *)
(* from all that are under way.  The id of a binding is the revision that  *)
(* made it: retargeting keeps it, and a binding made anew has another.     *)
(* The socket keeps answers in order; a refresh may fail.                  *)
(***************************************************************************)
EXTENDS Integers, Sequences

CONSTANTS
  Identities,     \* asset and capability, in the primary role; here of different assets
  Registered,     \* entities of the entity registry
  Running,        \* entities with a state
  None,
  MaxRevision,    \* bound: commits
  MaxWaiting      \* bound: messages on their way, each way

ConnectionAssumption ==
  /\ None \notin Registered \cup Running \cup Identities /\ Identities # {}
  /\ MaxRevision \in Nat

VARIABLES
  bound, ids, revision,   \* the registry: the targets and ids of the bindings
  toServer, toPanel,      \* the socket
  status, statusIds, basis,   \* what the panel has read: bindings, ids, revision
  identity,               \* _bindingIdentity
  editing, selected, mode, saving, error, success,
  confirmDisconnect, confirmReplacement,
  plan, loading,          \* _replacementPlan, _replacementLoading
  disconnected            \* _committedDisconnectId

server == <<bound, ids, revision>>
socket == <<toServer, toPanel>>
data == <<status, statusIds, basis>>
picker == <<editing, selected, mode, confirmReplacement, plan, loading>>
editor == <<identity, picker, saving, error, success, confirmDisconnect, disconnected>>
vars == <<server, socket, data, editor>>

\* normalizeEntityCandidates: registry entries and bare states, each entity once.
Catalogue == Registered \cup Running
Bindings == [Identities -> Catalogue \cup {None}]
Ids == [Identities -> Nat]
Plan == [identity : Identities, target : Catalogue \cup {None}, revision : Nat,
         candidates : SUBSET Catalogue]

Mutation == {"set", "replace", "delete"}
\* target is history: what the user who asks was shown as the connection's target.
Request == [type : Mutation \cup {"plan", "refresh"}, own : BOOLEAN, identity : Identities,
            entity : Catalogue \cup {None}, id : Nat, revision : Nat,
            target : Catalogue \cup {None}]
Response ==
  [type : {"plan"}, own : BOOLEAN, identity : Identities, plan : Plan]
    \cup [type : {"done"}, own : BOOLEAN, identity : Identities, of : Mutation,
          id : Nat, revision : Nat]
    \cup [type : {"refused"}, own : BOOLEAN, identity : Identities, of : Mutation \cup {"plan"}]
    \cup [type : {"refreshed"}, own : BOOLEAN, identity : Identities, ok : BOOLEAN,
          status : Bindings, ids : Ids, revision : Nat]
    \cup [type : {"followed"}, own : BOOLEAN, status : Bindings, ids : Ids,
          revision : Nat]

ReplacementMode == status[identity] # None
Candidates == IF plan # None THEN plan.candidates ELSE Catalogue

Init ==
  /\ bound \in Bindings /\ status = bound
  /\ ids = [i \in Identities |-> 0] /\ statusIds = ids
  /\ revision = 0 /\ basis = 0
  /\ toServer = <<>> /\ toPanel = <<>>
  /\ identity \in Identities
  /\ editing = FALSE /\ selected = None /\ mode = "search"
  /\ saving = FALSE /\ error = None /\ success = FALSE
  /\ confirmDisconnect = FALSE /\ confirmReplacement = FALSE
  /\ plan = None /\ loading = FALSE
  /\ disconnected = None

-----------------------------------------------------------------------------
(***************************************************************************)
(* The server.                                                             *)
(***************************************************************************)

\* BindHomeRegistry.set_binding keeps the id of what it retargets.
BindTo(i, e) ==
  /\ revision < MaxRevision /\ revision' = revision + 1
  /\ bound' = [bound EXCEPT ![i] = e]
  /\ ids' = IF bound[i] = None THEN [ids EXCEPT ![i] = revision'] ELSE ids

OtherCommit ==
  /\ \E i \in Identities, e \in Catalogue \cup {None} : bound[i] # e /\ BindTo(i, e)
  /\ UNCHANGED <<socket, data, editor>>

\* What may replace the target of i: never the target, nor what another asset uses.
CandidatesFor(i) == {e \in Catalogue : \A j \in Identities : bound[j] # e}

Answer(m) == toPanel' = Append(toPanel, m)

ServePlan(m) ==
  /\ m.type = "plan"
  /\ \/ Answer([type |-> "plan", own |-> m.own, identity |-> m.identity,
                plan |-> [identity |-> m.identity, target |-> bound[m.identity],
                          revision |-> revision, candidates |-> CandidatesFor(m.identity)]])
     \* The asset or its capability is gone, or nobody is loaded to answer.
     \/ Answer([type |-> "refused", own |-> m.own, identity |-> m.identity, of |-> "plan"])
  /\ UNCHANGED server

\* Candidates are found again before the commit, and the commit is at the stated revision.
\* A binding is deleted by its id, whatever its target is by then.
Committable(m) ==
  /\ m.revision = revision
  /\ m.type = "replace" => m.entity \in CandidatesFor(m.identity)
  /\ m.type = "delete" => bound[m.identity] # None /\ ids[m.identity] = m.id

ServeMutation(m) ==
  /\ m.type \in Mutation
  /\ \/ /\ Committable(m)
        /\ BindTo(m.identity, m.entity)
        /\ Answer([type |-> "done", own |-> m.own, identity |-> m.identity, of |-> m.type,
                   id |-> m.id, revision |-> revision'])
     \* A conflict, a refusal by the registry, or a save that failed.
     \/ /\ Answer([type |-> "refused", own |-> m.own, identity |-> m.identity, of |-> m.type])
        /\ UNCHANGED server

ServeRefresh(m) ==
  /\ m.type = "refresh"
  /\ \E ok \in BOOLEAN :
       Answer([type |-> "refreshed", own |-> m.own, ok |-> ok, identity |-> m.identity,
               status |-> bound, ids |-> ids, revision |-> revision])
  /\ UNCHANGED server

Serve ==
  /\ toServer # <<>> /\ Len(toPanel) < MaxWaiting
  /\ toServer' = Tail(toServer)
  /\ LET m == Head(toServer) IN ServePlan(m) \/ ServeMutation(m) \/ ServeRefresh(m)
  /\ UNCHANGED <<data, editor>>

\* The panel follows a notice: the same reads, with nobody waiting for them.
Follow ==
  /\ Len(toPanel) < MaxWaiting /\ <<status, statusIds>> # <<bound, ids>>
  /\ Answer([type |-> "followed", own |-> FALSE, status |-> bound, ids |-> ids,
             revision |-> revision])
  /\ UNCHANGED <<server, toServer, data, editor>>

-----------------------------------------------------------------------------
(***************************************************************************)
(* The user.                                                               *)
(***************************************************************************)

Ready == Len(toServer) < MaxWaiting

Disown(q) == [n \in DOMAIN q |-> [q[n] EXCEPT !.own = FALSE]]

Asks(i, type, entity, id, base, target) ==
  [type |-> type, own |-> TRUE, identity |-> i, entity |-> entity, id |-> id,
   revision |-> base, target |-> target]

Begin(type, entity, id, base, target) ==
  /\ toServer' = Append(Disown(toServer), Asks(identity, type, entity, id, base, target))
  /\ toPanel' = Disown(toPanel)

Reset ==
  /\ editing' = FALSE /\ selected' = None /\ mode' = "search" /\ saving' = FALSE
  /\ error' = None /\ success' = FALSE
  /\ confirmDisconnect' = FALSE /\ confirmReplacement' = FALSE
  /\ plan' = None /\ loading' = FALSE /\ disconnected' = None

\* Another asset, or another list of its devices, is rendered at this place.
ChangeIdentity(i) ==
  /\ i # identity
  /\ identity' = i
  /\ Reset
  /\ toServer' = Disown(toServer) /\ toPanel' = Disown(toPanel)
  /\ UNCHANGED <<server, data>>

\* The summary's button; editing what is connected asks the server for a plan.
BeginEdit ==
  /\ ~editing /\ ~saving /\ ~loading /\ Ready
  /\ editing' = TRUE /\ selected' = None /\ mode' = "search"
  /\ error' = None /\ success' = FALSE
  /\ confirmDisconnect' = FALSE /\ confirmReplacement' = FALSE
  /\ IF ReplacementMode
     THEN loading' = TRUE /\ Begin("plan", None, 0, basis, None)
     ELSE UNCHANGED <<loading, socket>>
  /\ UNCHANGED <<server, data, identity, saving, plan, disconnected>>

\* The operation is not renewed: a plan still under way lands after all.
CancelEdit ==
  /\ editing /\ ~saving
  /\ editing' = FALSE /\ selected' = None /\ mode' = "search" /\ error' = None
  /\ confirmDisconnect' = FALSE /\ confirmReplacement' = FALSE
  /\ plan' = None /\ loading' = FALSE
  /\ UNCHANGED <<server, socket, data, identity, saving, success, disconnected>>

Picking == editing /\ ~loading /\ ~saving

Select(e) ==
  /\ Picking /\ mode = "search" /\ e \in Candidates
  /\ selected' = e /\ mode' = "selected" /\ error' = None /\ confirmReplacement' = FALSE
  /\ UNCHANGED <<server, socket, data, identity, editing, saving, success, confirmDisconnect,
                 plan, loading, disconnected>>

ChangeSelection ==
  /\ Picking /\ mode = "selected"
  /\ mode' = "search" /\ confirmReplacement' = FALSE
  /\ UNCHANGED <<server, socket, data, identity, editing, selected, saving, error, success,
                 confirmDisconnect, plan, loading, disconnected>>

Changed == selected # None /\ selected # status[identity]

\* The first press of the button on a connected capability asks for confirmation.
Review ==
  /\ Picking /\ Changed /\ ReplacementMode /\ ~confirmReplacement
  /\ confirmReplacement' = TRUE
  /\ UNCHANGED <<server, socket, data, identity, editing, selected, mode, saving, error,
                 success, confirmDisconnect, plan, loading, disconnected>>

\* Mutant: a replacement is sent at the client's revision.
AtBasis == basis

AtReview == plan.revision

Released == FALSE

CommittedId(m) == m.id

Commit(type, entity, id, base, target) ==
  /\ saving' = TRUE /\ error' = None
  /\ Begin(type, entity, id, base, target)

SaveReplacement ==
  /\ Picking /\ Changed /\ ReplacementMode /\ confirmReplacement /\ plan # None /\ Ready
  /\ Commit("replace", selected, 0, AtReview, plan.target)
  /\ UNCHANGED <<server, data, identity, picker, success, confirmDisconnect,
                 disconnected>>

\* Connected by somebody else since editing began: there is no plan to commit.
SaveUnplanned ==
  /\ Picking /\ Changed /\ ReplacementMode /\ confirmReplacement /\ plan = None
  /\ error' = identity
  /\ toServer' = Disown(toServer) /\ toPanel' = Disown(toPanel)
  /\ UNCHANGED <<server, data, identity, picker, saving, success, confirmDisconnect,
                 disconnected>>

SaveNew ==
  /\ Picking /\ Changed /\ ~ReplacementMode /\ Ready
  /\ Commit("set", selected, 0, basis, None)
  /\ UNCHANGED <<server, data, identity, picker, success, confirmDisconnect,
                 disconnected>>

AskDisconnect(yes) ==
  /\ ~editing /\ ReplacementMode /\ ~saving /\ confirmDisconnect # yes
  /\ confirmDisconnect' = yes
  /\ UNCHANGED <<server, socket, data, identity, picker, saving, error, success,
                 disconnected>>

Disconnect ==
  /\ ~editing /\ ReplacementMode /\ ~saving /\ confirmDisconnect /\ Ready
  /\ disconnected # statusIds[identity]
  /\ Commit("delete", None, statusIds[identity], basis, status[identity])
  /\ UNCHANGED <<server, data, identity, picker, success, confirmDisconnect,
                 disconnected>>

-----------------------------------------------------------------------------
(***************************************************************************)
(* Answers.                                                                *)
(***************************************************************************)

Read(m) == basis' = m.revision

Show(m) == status' = m.status /\ statusIds' = m.ids

ReceivePlan(m) ==
  /\ m.type = "plan"
  /\ basis' = m.plan.revision
  /\ IF m.own THEN plan' = m.plan /\ loading' = FALSE ELSE UNCHANGED <<plan, loading>>
  /\ UNCHANGED <<status, statusIds, toServer, identity, editing, selected, mode, confirmReplacement,
                 saving, error, success, confirmDisconnect, disconnected>>

\* The editor closes and waits for the refresh; a disowned save is only not busy any more.
ReceiveDone(m) ==
  /\ m.type = "done"
  /\ Read(m)
  /\ IF ~m.own
     THEN saving' = Released /\ UNCHANGED <<picker, success, confirmDisconnect, disconnected,
                                         toServer>>
     ELSE /\ IF m.of = "delete"
             THEN /\ disconnected' = CommittedId(m) /\ confirmDisconnect' = FALSE
                  /\ UNCHANGED <<picker, success>>
             ELSE /\ success' = ReplacementMode
                  /\ editing' = FALSE /\ selected' = None
                  /\ confirmReplacement' = FALSE /\ plan' = None
                  /\ UNCHANGED <<mode, loading, confirmDisconnect, disconnected>>
          /\ toServer' = Append(toServer, Asks(m.identity, "refresh", None, 0, basis, None))
          /\ UNCHANGED saving
  /\ UNCHANGED <<status, statusIds, identity, error>>

Heard(m) == m.own

ReceiveRefused(m) ==
  /\ m.type = "refused"
  /\ IF Heard(m)
     THEN /\ error' = m.identity
          /\ confirmDisconnect' = (confirmDisconnect \/ m.of = "delete")
          /\ loading' = (loading /\ m.of # "plan")
     ELSE UNCHANGED <<error, confirmDisconnect, loading>>
  /\ saving' = IF m.of = "plan" THEN saving ELSE Released
  /\ UNCHANGED <<data, toServer, identity, editing, selected, mode, confirmReplacement, plan,
                 success, disconnected>>

\* The end of refreshBindingData: no look at the operation here.
ReceiveRefreshed(m) ==
  /\ m.type = "refreshed"
  /\ IF m.ok THEN Read(m) /\ Show(m) /\ UNCHANGED error
     ELSE error' = m.identity /\ UNCHANGED data
  /\ saving' = Released
  /\ UNCHANGED <<toServer, identity, picker, success, confirmDisconnect, disconnected>>

ReceiveFollowed(m) ==
  /\ m.type = "followed"
  /\ Read(m) /\ Show(m)
  /\ UNCHANGED <<toServer, identity, picker, saving, error, success, confirmDisconnect,
                 disconnected>>

Receive ==
  /\ toPanel # <<>>
  /\ toPanel' = Tail(toPanel)
  /\ LET m == Head(toPanel) IN
       ReceivePlan(m) \/ ReceiveDone(m) \/ ReceiveRefused(m) \/ ReceiveRefreshed(m)
         \/ ReceiveFollowed(m)
  /\ UNCHANGED server

Next ==
  \/ OtherCommit \/ Serve \/ Follow \/ Receive
  \/ \E i \in Identities : ChangeIdentity(i)
  \/ BeginEdit \/ CancelEdit \/ \E e \in Catalogue : Select(e)
  \/ ChangeSelection \/ Review \/ SaveReplacement \/ SaveUnplanned \/ SaveNew
  \/ \E yes \in BOOLEAN : AskDisconnect(yes)
  \/ Disconnect

Spec == Init /\ [][Next]_vars

-----------------------------------------------------------------------------
(***************************************************************************)
(* Properties.                                                             *)
(***************************************************************************)

\* The state has the shapes the code gives it.
TypeOK ==
  /\ bound \in Bindings /\ status \in Bindings /\ ids \in Ids /\ statusIds \in Ids
  /\ revision \in 0..MaxRevision /\ basis \in 0..revision
  /\ identity \in Identities
  /\ {editing, saving, success, confirmDisconnect, confirmReplacement, loading} \subseteq BOOLEAN
  /\ selected \in Catalogue \cup {None} /\ mode \in {"search", "selected"}
  /\ error \in Identities \cup {None}
  /\ plan \in Plan \cup {None}
  /\ disconnected \in Nat \cup {None}

\* What the picker holds is about the connection it is shown for: no plan or selection
\* made for one asset is left when another is shown, however late an answer is
\* (primary-connection-editor.js, willUpdate and _operation).
PickerOfIdentity ==
  /\ plan # None => plan.identity = identity
  /\ selected # None \/ loading => editing

\* A replacement is committed only over the target its plan was made for, although the
\* client's revision moves on during the review (primary-connection-editor.js, _save).
ReplacesWhatWasReviewed ==
  [][Len(toServer') < Len(toServer) /\ bound' # bound =>
       LET m == Head(toServer) IN m.type = "replace" => bound[m.identity] = m.target]_vars

\* A connection is deleted only with the target its user saw: a mutation that rests on stale
\* data fails before it is stored (docs/product-contract.md:284).  Not so: a plan brings a newer
\* revision without newer bindings, and a binding keeps its id when it is retargeted
\* (primary-connection-editor.js, _disconnect).
DisconnectsWhatIsShown ==
  [][Len(toServer') < Len(toServer) /\ bound' # bound =>
       LET m == Head(toServer) IN m.type = "delete" => bound[m.identity] = m.target]_vars

\* A refused save that its user has left behind shows no error to another connection;
\* what a failed refresh shows is left out (primary-connection-editor.js, _save).
RefusalStaysHome ==
  [][Len(toPanel') < Len(toPanel) /\ Head(toPanel).type = "refused" /\ error' # error
       => error' = identity]_vars

=============================================================================
