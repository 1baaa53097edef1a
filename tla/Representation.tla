--------------------------- MODULE Representation ---------------------------
(***************************************************************************)
(* bindhome-representation-control, on an asset's page in Casa: a logical  *)
(* light is made or removed after a confirmation that keeps the revision   *)
(* it was given for.                                                       *)
(*                                                                         *)
(* The element is reused for the next asset.  The code counts _generation  *)
(* up then; here a message is "own" until that happens.  In the same way a *)
(* read is "newest" until the panel begins another: what is not is dropped,*)
(* though whoever awaits it goes on.  Every asset has the capability; a    *)
(* binding is valid or not, which Home Assistant changes without a commit. *)
(* Messages of success and of errors are left out.                         *)
(***************************************************************************)
EXTENDS Integers, Sequences, FiniteSets

CONSTANTS
  Assets,
  None,
  MaxRevision,    \* bound: commits; one more may be saved for the control
  MaxWaiting      \* bound: messages on their way, each way

RepresentationAssumption == None \notin Assets

VARIABLES
  represented, valid, revision,   \* the registry; valid bindings
  toServer, toPanel,              \* the socket
  registry, statuses,             \* the panel's data: _registry, _bindingStatuses
  admin,                          \* of the user
  asset,                          \* _identity
  confirmation, busy, needsRefresh

server == <<represented, valid, revision>>
socket == <<toServer, toPanel>>
data == <<registry, statuses>>
control == <<confirmation, busy, needsRefresh>>
vars == <<server, socket, data, admin, asset, control>>

Read(kind) == [type |-> kind, own |-> kind # "notice", newest |-> TRUE]

Init ==
  /\ represented \in SUBSET Assets /\ valid \in SUBSET Assets /\ revision = 0
  /\ toServer = <<>> /\ toPanel = <<>>
  /\ registry = [represented |-> represented, revision |-> 0] /\ statuses = valid
  /\ admin = TRUE
  /\ asset \in Assets
  /\ confirmation = None /\ busy = FALSE /\ needsRefresh = FALSE

-----------------------------------------------------------------------------
(***************************************************************************)
(* The server.                                                             *)
(***************************************************************************)

Toggled(S, a) == IF a \in S THEN S \ {a} ELSE S \cup {a}

\* Somebody else sets or deletes a representation or a binding.
OtherCommit ==
  /\ revision < MaxRevision /\ revision' = revision + 1
  /\ \E a \in Assets :
       \/ represented' = Toggled(represented, a) /\ UNCHANGED valid
       \/ valid' = Toggled(valid, a) /\ UNCHANGED represented
  /\ UNCHANGED <<socket, data, admin, asset, control>>

\* The target of a binding disappears from Home Assistant.
TargetLost ==
  /\ \E a \in valid : valid' = valid \ {a}
  /\ UNCHANGED <<represented, revision, socket, data, admin, asset, control>>

Applies(m) == m.revision = revision

\* set_representation asks for the capability of the asset, not for a binding.  What
\* applies may still not be saved.
ServeWrite(m) ==
  /\ m.type = "write"
  /\ \E ok \in BOOLEAN :
       /\ ok => Applies(m) /\ revision <= MaxRevision
       /\ represented' = IF ~ok THEN represented
                         ELSE IF m.remove THEN represented \ {m.asset}
                         ELSE represented \cup {m.asset}
       /\ revision' = IF ok THEN revision + 1 ELSE revision
       /\ toPanel' = Append(toPanel, [type |-> "written", own |-> m.own, newest |-> FALSE,
                                      ok |-> ok, revision |-> revision'])
  /\ UNCHANGED valid

ServeRead(m) ==
  /\ m.type # "write"
  /\ \E ok \in BOOLEAN :
       toPanel' = Append(toPanel,
         [type |-> m.type, own |-> m.own, newest |-> m.newest, ok |-> ok, valid |-> valid,
          registry |-> [represented |-> represented, revision |-> revision]])
  /\ UNCHANGED server

Serve ==
  /\ toServer # <<>> /\ Len(toPanel) <= MaxWaiting
  /\ toServer' = Tail(toServer)
  /\ LET m == Head(toServer) IN ServeWrite(m) \/ ServeRead(m)
  /\ UNCHANGED <<data, admin, asset, control>>

-----------------------------------------------------------------------------
(***************************************************************************)
(* The panel.                                                              *)
(***************************************************************************)

CanSend == Len(toServer) < MaxWaiting

Superseded(q) == [n \in DOMAIN q |-> [q[n] EXCEPT !.newest = FALSE]]

Disowned(q) == [n \in DOMAIN q |-> [q[n] EXCEPT !.own = FALSE]]

BeginRead(kind, waiting) ==
  /\ toServer' = Append(Superseded(toServer), Read(kind))
  /\ toPanel' = Superseded(waiting)

\* The panel reads after a notice.
Notice ==
  /\ CanSend /\ BeginRead("notice", toPanel)
  /\ UNCHANGED <<server, data, admin, asset, control>>

Show(a) ==
  /\ a # asset /\ asset' = a
  /\ confirmation' = None /\ busy' = FALSE /\ needsRefresh' = FALSE
  /\ toServer' = Disowned(toServer) /\ toPanel' = Disowned(toPanel)
  /\ UNCHANGED <<server, data, admin>>

\* The user loses or regains the right to write.
ChangeRights ==
  /\ admin' = ~admin /\ confirmation' = None
  /\ UNCHANGED <<server, socket, data, asset, busy, needsRefresh>>

-----------------------------------------------------------------------------
(***************************************************************************)
(* The control.                                                            *)
(***************************************************************************)

Represented == asset \in registry.represented

Prepare ==
  /\ admin /\ ~busy /\ ~needsRefresh /\ confirmation = None
  /\ Represented \/ asset \in statuses
  /\ confirmation' = [asset |-> asset, revision |-> registry.revision, remove |-> Represented]
 
  /\ UNCHANGED <<server, socket, data, admin, asset, busy, needsRefresh>>

Cancel ==
  /\ confirmation # None /\ ~busy
  /\ confirmation' = None
  /\ UNCHANGED <<server, socket, data, admin, asset, busy, needsRefresh>>

Basis == confirmation.revision

Commit ==
  /\ admin /\ ~busy /\ confirmation # None /\ CanSend
  /\ busy' = TRUE
  /\ toServer' = Append(toServer,
       [type |-> "write", own |-> TRUE, newest |-> FALSE, asset |-> confirmation.asset,
        remove |-> confirmation.remove, revision |-> Basis])
  /\ UNCHANGED <<server, toPanel, data, admin, asset, confirmation, needsRefresh>>

Idle == ~busy

Refresh ==
  /\ Idle /\ CanSend
  /\ busy' = TRUE /\ confirmation' = None
  /\ BeginRead("refresh", toPanel)
  /\ UNCHANGED <<server, data, admin, asset, needsRefresh>>

Released == FALSE

\* Then the panel is read, before the control is free again.
ReceiveWritten(m) ==
  /\ m.type = "written"
  /\ IF m.own
     THEN /\ confirmation' = None /\ needsRefresh' = TRUE
          /\ IF m.ok
             THEN UNCHANGED busy
                  /\ BeginRead("follow", Tail(toPanel))
             ELSE /\ busy' = Released
                  /\ toPanel' = Tail(toPanel) /\ UNCHANGED toServer
     ELSE toPanel' = Tail(toPanel) /\ UNCHANGED <<control, toServer>>
  /\ UNCHANGED data

ReceiveRead(m) ==
  /\ m.type # "written"
  /\ IF m.ok /\ m.newest THEN registry' = m.registry /\ statuses' = m.valid ELSE UNCHANGED data
  /\ IF m.own
     THEN /\ busy' = Released
          /\ needsRefresh' = (needsRefresh /\ ~m.ok)
     ELSE UNCHANGED <<busy, needsRefresh>>
  /\ toPanel' = Tail(toPanel)
  /\ UNCHANGED <<toServer, confirmation>>

Receive ==
  /\ toPanel # <<>>
  /\ LET m == Head(toPanel) IN ReceiveWritten(m) \/ ReceiveRead(m)
  /\ UNCHANGED <<server, admin, asset>>

Next ==
  \/ OtherCommit \/ TargetLost \/ Serve
  \/ Notice \/ ChangeRights
  \/ \E a \in Assets : Show(a)
  \/ Prepare \/ Cancel \/ Commit \/ Refresh
  \/ Receive

Spec == Init /\ [][Next]_vars

-----------------------------------------------------------------------------
(***************************************************************************)
(* Properties.                                                             *)
(***************************************************************************)

\* The state has the shapes the code gives it.
TypeOK ==
  /\ represented \subseteq Assets /\ valid \subseteq Assets /\ revision \in Nat
  /\ registry.represented \subseteq Assets /\ registry.revision \in 0..revision
  /\ statuses \subseteq Assets
  /\ asset \in Assets
  /\ confirmation = None \/ confirmation.revision \in 0..revision
  /\ {admin, busy, needsRefresh} \subseteq BOOLEAN

\* At most one operation of the control is under way for the asset it shows
\* (representation-control.js _commit, _refresh).
OneOperation ==
  Cardinality({n \in DOMAIN toServer : toServer[n].own})
    + Cardinality({n \in DOMAIN toPanel : toPanel[n].own}) <= 1

\* A write that is applied does to the asset what its confirmation said: it makes what was
\* not there, or removes what was (representation-control.js _prepare, _commit).
WritesAsReviewed ==
  [][Serve /\ Head(toServer).type = "write" /\ revision' # revision
       => Head(toServer).remove = (Head(toServer).asset \in represented)]_vars

=============================================================================
