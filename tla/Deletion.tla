------------------------------ MODULE Deletion ------------------------------
(***************************************************************************)
(* bindhome-asset-delete-control: the user asks what goes with an asset,   *)
(* reads it, confirms, and the asset goes with whatever depends on it by   *)
(* then, at the revision the panel has read last.                          *)
(*                                                                         *)
(* The control is reused when a page leads to another asset's page, and    *)
(* unmounted when the page is closed.  An element that is out of the       *)
(* document is still heard by the page: the event of a finished deletion   *)
(* closes whichever page is open.  The answer that lists the dependents    *)
(* carries no revision.  Messages of errors are left out.                  *)
(***************************************************************************)
EXTENDS Integers, Sequences, FiniteSets

CONSTANTS
  Assets,
  None,
  MaxRevision,    \* bound: commits of others
  MaxWaiting      \* bound: messages on their way, each way

DeletionAssumption == None \notin Assets

VARIABLES
  assets, dependents, revision,   \* the registry
  toServer, toPanel,              \* the socket
  known, basis,                   \* the panel's assets, and the client's revision
  asset,                          \* of the open page; _identity
  impact, loading, deleting

server == <<assets, dependents, revision>>
socket == <<toServer, toPanel>>
data == <<known, basis>>
control == <<impact, loading, deleting>>
vars == <<server, socket, data, asset, control>>

\* A binding is named by its asset, a relation by its two ends.
Dependents == {d \in SUBSET Assets : Cardinality(d) \in {1, 2}}

\* build_asset_delete_impact
ImpactOf(a) == {d \in dependents : a \in d}

Init ==
  /\ assets = Assets /\ dependents \in SUBSET Dependents /\ revision = 0
  /\ toServer = <<>> /\ toPanel = <<>>
  /\ known = assets /\ basis = 0
  /\ asset \in Assets
  /\ impact = None /\ loading = FALSE /\ deleting = FALSE

-----------------------------------------------------------------------------
(***************************************************************************)
(* The server.                                                             *)
(***************************************************************************)

OtherCommit ==
  /\ revision < MaxRevision /\ revision' = revision + 1
  /\ \E d \in SUBSET assets \cap Dependents :
       dependents' = IF d \in dependents THEN dependents \ {d} ELSE dependents \cup {d}
  /\ UNCHANGED <<assets, socket, data, asset, control>>

ServeImpact(m) ==
  /\ m.type = "impact"
  /\ toPanel' = Append(toPanel,
       [type |-> "impact", mounted |-> m.mounted, asset |-> m.asset,
        ok |-> m.asset \in assets, dependents |-> ImpactOf(m.asset), revision |-> revision])
  /\ UNCHANGED server

\* Mutant: the revision of a deletion is not checked.
AnyRevision(m) == m.asset \in assets

Accepts(m) == m.asset \in assets /\ m.based = revision

ServeDelete(m) ==
  /\ m.type = "delete"
  /\ IF Accepts(m)
     THEN /\ revision' = revision + 1
          /\ assets' = assets \ {m.asset} /\ dependents' = dependents \ ImpactOf(m.asset)
     ELSE UNCHANGED server
  /\ toPanel' = Append(toPanel,
       [type |-> "deleted", mounted |-> m.mounted, asset |-> m.asset,
        ok |-> Accepts(m), revision |-> revision'])

\* A failed refresh changes nothing, and is waited for like another.
ServeRead(m) ==
  /\ m.type = "read"
  /\ \E ok \in BOOLEAN :
       toPanel' = Append(toPanel,
         [type |-> "read", mounted |-> m.mounted, asset |-> m.asset, ok |-> ok,
          assets |-> assets, revision |-> revision])
  /\ UNCHANGED server

Serve ==
  /\ toServer # <<>> /\ Len(toPanel) <= MaxWaiting
  /\ toServer' = Tail(toServer)
  /\ LET m == Head(toServer) IN ServeImpact(m) \/ ServeDelete(m) \/ ServeRead(m)
  /\ UNCHANGED <<data, asset, control>>

-----------------------------------------------------------------------------
(***************************************************************************)
(* The page.                                                               *)
(***************************************************************************)

CanSend == Len(toServer) < MaxWaiting
Send(m) == toServer' = Append(toServer, m)

Blank == impact' = None /\ loading' = FALSE /\ deleting' = FALSE

Unmounted(q) == [n \in DOMAIN q |-> [q[n] EXCEPT !.mounted = FALSE]]

Close ==
  /\ asset' = None /\ Blank
  /\ toServer' = Unmounted(toServer)

\* A relation leads from page to page; from a room the page is mounted anew.
Open(a) ==
  /\ a \in known \ {asset} /\ asset' = a
  /\ Blank
  /\ UNCHANGED <<server, socket, data>>

Back ==
  /\ asset # None /\ Close
  /\ toPanel' = Unmounted(toPanel)
  /\ UNCHANGED <<server, data>>

\* A notice, a refresh by another control.
Refresh ==
  /\ CanSend /\ Send([type |-> "read", mounted |-> FALSE, asset |-> None])
  /\ UNCHANGED <<server, toPanel, data, asset, control>>

-----------------------------------------------------------------------------
(***************************************************************************)
(* The control.                                                            *)
(***************************************************************************)

Prepare ==
  /\ asset # None /\ impact = None /\ ~loading /\ ~deleting /\ CanSend
  /\ loading' = TRUE
  /\ Send([type |-> "impact", mounted |-> TRUE, asset |-> asset])
  /\ UNCHANGED <<server, toPanel, data, asset, impact, deleting>>

Cancel ==
  /\ asset # None /\ impact # None /\ ~deleting
  /\ impact' = None
  /\ UNCHANGED <<server, socket, data, asset, loading, deleting>>

Delete ==
  /\ asset # None /\ impact # None /\ ~deleting /\ CanSend
  /\ deleting' = TRUE
  /\ Send([type |-> "delete", mounted |-> TRUE, asset |-> asset, based |-> basis,
           shown |-> impact])
  /\ UNCHANGED <<server, toPanel, data, asset, impact, loading>>

\* Shown by the element that asked, whichever asset it is for by now.
ReceiveImpact(m) ==
  /\ m.type = "impact"
  /\ IF m.mounted
     THEN /\ loading' = FALSE
          /\ IF m.ok
             THEN /\ impact' = [asset |-> m.asset, dependents |-> m.dependents,
                                revision |-> m.revision]
             ELSE UNCHANGED impact
     ELSE UNCHANGED <<impact, loading>>
  /\ UNCHANGED <<toServer, data, asset, deleting>>

Released == FALSE

\* The refreshes that follow a deletion; Promise.allSettled waits for each.
ReceiveDeleted(m) ==
  /\ m.type = "deleted"
  /\ IF m.ok
     THEN /\ basis' = m.revision
          /\ Send([type |-> "read", mounted |-> m.mounted, asset |-> m.asset])
          /\ UNCHANGED deleting
     ELSE /\ IF m.mounted THEN deleting' = Released ELSE UNCHANGED deleting
          /\ UNCHANGED <<basis, toServer>>
  /\ UNCHANGED <<known, asset, impact, loading>>

\* The event asset-deleted closes the page, and so does an asset that is no longer there.
ReceiveRead(m) ==
  /\ m.type = "read"
  /\ IF m.ok THEN known' = m.assets /\ basis' = m.revision ELSE UNCHANGED data
  /\ IF asset # None /\ (m.asset # None \/ asset \notin known')
     THEN Close ELSE UNCHANGED <<asset, control, toServer>>

Receive ==
  /\ toPanel # <<>>
  /\ LET m == Head(toPanel) IN ReceiveImpact(m) \/ ReceiveDeleted(m) \/ ReceiveRead(m)
  /\ toPanel' = IF asset # None /\ asset' = None THEN Unmounted(Tail(toPanel)) ELSE Tail(toPanel)
  /\ UNCHANGED server

Next ==
  \/ OtherCommit \/ Serve
  \/ \E a \in Assets : Open(a)
  \/ Back \/ Refresh \/ Prepare \/ Cancel \/ Delete
  \/ Receive

Spec == Init /\ [][Next]_vars

-----------------------------------------------------------------------------
(***************************************************************************)
(* Properties.                                                             *)
(***************************************************************************)

\* The state has the shapes the code gives it.
TypeOK ==
  /\ assets \subseteq Assets /\ dependents \subseteq Dependents /\ revision \in Nat
  /\ known \subseteq Assets /\ basis \in 0..revision
  /\ asset \in Assets \cup {None}
  /\ impact = None \/ (impact.asset \in Assets /\ impact.dependents \subseteq Dependents)
  /\ {loading, deleting} \subseteq BOOLEAN

\* The deletions that are committed for this panel in a step.
Deletes(a) ==
  a \in assets \ assets' /\ Head(toServer).type = "delete" /\ Head(toServer).asset = a

\* A deletion that is accepted takes with it what was shown for that asset, unless the panel
\* has read the registry in between (asset-delete-control.js _delete, bindhome-api.js mutate).
ShownUnlessRead ==
  [][\A a \in Assets : Deletes(a) =>
       LET m == Head(toServer) IN
         m.shown.asset = a =>
           \/ ImpactOf(a) = m.shown.dependents
           \/ m.based > m.shown.revision]_vars

=============================================================================
