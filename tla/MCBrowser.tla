------------------------------ MODULE MCBrowser ------------------------------
(***************************************************************************)
(* The asset browser and the connection editor in one run.  A behaviour is *)
(* of one part, the other component rests in an initial state.  Each has a *)
(* part with several assets and few commits, and one with a single asset   *)
(* and more commits.                                                       *)
(***************************************************************************)
EXTENDS AssetBrowser

CONSTANTS
  a1, i1,                        \* the single ones
  f1,                            \* every area is on one and the same floor
  Identities, Registered, Running

MCFloorOf == [x \in Areas |-> f1]

VARIABLES
  part,
  bound, ids, commits, requests, answers, status, statusIds, known, identity, editing, chosen, mode,
  saving, error, success, confirmDisconnect, confirmReplacement, plan, loading, disconnected

Wide == INSTANCE AssetBrowser WITH MaxRevision <- 1, Names <- {1}
Deep == INSTANCE AssetBrowser WITH Assets <- {a1}

Connection == INSTANCE Connection WITH
  revision <- commits, toServer <- requests, toPanel <- answers, basis <- known,
  selected <- chosen
WideConnection == INSTANCE Connection WITH
  revision <- commits, toServer <- requests, toPanel <- answers, basis <- known,
  selected <- chosen, MaxRevision <- 1
DeepConnection == INSTANCE Connection WITH
  revision <- commits, toServer <- requests, toPanel <- answers, basis <- known,
  selected <- chosen, Identities <- {i1}

ASSUME BrowserConstants == BrowserAssumption
ASSUME ConnectionConstants == Connection!ConnectionAssumption

connectionVars ==
  <<bound, ids, commits, requests, answers, status, statusIds, known, identity, editing, chosen,
    mode, saving, error, success, confirmDisconnect, confirmReplacement, plan, loading, disconnected>>
PartVars == <<part, vars, connectionVars>>

Parts == {"browser", "one asset", "connection", "one connection"}

PartInit ==
  /\ part \in Parts
  /\ IF part = "browser" THEN Wide!Init ELSE Deep!Init
  /\ IF part = "connection" THEN WideConnection!Init ELSE DeepConnection!Init
  /\ part \in {"browser", "one asset"} => bound[i1] = None
  /\ part \in {"connection", "one connection"} => \A a \in DOMAIN stored : stored[a].name = 1

PartNext ==
  \/ /\ \/ part = "browser" /\ Wide!Next
        \/ part = "one asset" /\ Deep!Next
     /\ UNCHANGED <<part, connectionVars>>
  \/ /\ \/ part = "connection" /\ WideConnection!Next
        \/ part = "one connection" /\ DeepConnection!Next
     /\ UNCHANGED <<part, vars>>

Serves ==
  \/ part = "browser" /\ Wide!ServeSave /\ UNCHANGED <<part, connectionVars>>
  \/ part = "one asset" /\ Deep!ServeSave /\ UNCHANGED <<part, connectionVars>>
  \/ part = "connection" /\ WideConnection!Serve /\ UNCHANGED <<part, vars>>
  \/ part = "one connection" /\ DeepConnection!Serve /\ UNCHANGED <<part, vars>>

Delivers ==
  \/ part = "browser" /\ Wide!Receive /\ UNCHANGED <<part, connectionVars>>
  \/ part = "one asset" /\ Deep!Receive /\ UNCHANGED <<part, connectionVars>>
  \/ part = "connection" /\ WideConnection!Receive /\ UNCHANGED <<part, vars>>
  \/ part = "one connection" /\ DeepConnection!Receive /\ UNCHANGED <<part, vars>>

\* The server answers and the socket delivers.
PartSpec == PartInit /\ [][PartNext]_PartVars /\ WF_PartVars(Serves) /\ WF_PartVars(Delivers)

-----------------------------------------------------------------------------
SavingDraft == editor # None /\ editor.saving

\* A draft of the browser is of the asset it was opened for and is not lost while it is shown;
\* its lock goes with it; every asset is listed; and a save changes no field that others have
\* set and the user has not (inventory-browser.js, asset-detail-editor.js), whatever other
\* clients commit in between; saves end (the finally clause of _save).
DraftsAreOwn ==
  /\ []TypeOK /\ []EveryAssetListed
  /\ LockGoesWithForm /\ DraftKept /\ OthersFieldsSurvive
  /\ (SavingDraft ~> ~SavingDraft)

ConnectionShape ==
  IF part = "connection" THEN WideConnection!TypeOK ELSE DeepConnection!TypeOK

\* A plan or a selection is of the connection on show, a replacement is committed over the
\* target its plan was made for, a refused save shows no error to another connection, and
\* saves and the loading of plans end (primary-connection-editor.js _save, _loadPlan).
PlansAreOwn ==
  /\ []ConnectionShape /\ []Connection!PickerOfIdentity
  /\ Connection!ReplacesWhatWasReviewed /\ Connection!RefusalStaysHome
  /\ (saving ~> ~saving) /\ (loading ~> ~loading)

\* A connection is deleted only with the target its user saw (docs/product-contract.md:284).
\* Not so (primary-connection-editor.js, _disconnect).
SeenDisconnected == Connection!DisconnectsWhatIsShown
=============================================================================
