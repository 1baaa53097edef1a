------------------------------ MODULE MCPages ------------------------------
(***************************************************************************)
(* The controls on the pages of an asset in one run: its relations, its    *)
(* page in Casa with the forms on it, its deletion, and its logical light. *)
(* A behaviour is of one part, the others rest in an initial state.        *)
(***************************************************************************)
EXTENDS AssetTopology

CONSTANTS Values, Actions, a1

VARIABLES
  part,
  \* ElementDetail
  stored, pairs, commits, requests, answers, data, page, action, editingAsset, pageSync,
  target, draftData, pressed, committed, rejected,
  \* Deletion
  assets, dependents, deleteRevision, deleteRequests, deleteAnswers, listed, basis, open,
  impact, loading, deletingAsset,
  \* Representation
  represented, valid, lightRevision, lightRequests, lightAnswers, registry, statuses, admin,
  light, confirmation, busy, needsRefresh

detailVars ==
  <<stored, pairs, commits, requests, answers, data, page, action, editingAsset, pageSync,
    target, draftData, pressed, committed, rejected>>
deletionVars ==
  <<assets, dependents, deleteRevision, deleteRequests, deleteAnswers, listed, basis, open,
    impact, loading, deletingAsset>>
lightVars ==
  <<represented, valid, lightRevision, lightRequests, lightAnswers, registry, statuses, admin,
    light, confirmation, busy, needsRefresh>>
PartVars == <<part, vars, detailVars, deletionVars, lightVars>>

\* The assets of the page are edited, or related, at a time.
Detail == INSTANCE ElementDetail WITH
  Actions <- {},
  relations <- pairs, revision <- commits, toServer <- requests, toPanel <- answers,
  known <- data, asset <- page, sync <- pageSync, draft <- draftData, saving <- pressed,
  refused <- rejected
Related == INSTANCE ElementDetail WITH
  Values <- {1},
  relations <- pairs, revision <- commits, toServer <- requests, toPanel <- answers,
  known <- data, asset <- page, sync <- pageSync, draft <- draftData, saving <- pressed,
  refused <- rejected

Deletion == INSTANCE Deletion WITH
  revision <- deleteRevision, toServer <- deleteRequests, toPanel <- deleteAnswers,
  known <- listed, asset <- open, deleting <- deletingAsset

\* The light of one asset, and those of all assets while nothing else is committed.
Light == INSTANCE Representation WITH
  Assets <- {a1},
  revision <- lightRevision, toServer <- lightRequests, toPanel <- lightAnswers,
  asset <- light
Lights == INSTANCE Representation WITH
  MaxRevision <- 0,
  revision <- lightRevision, toServer <- lightRequests, toPanel <- lightAnswers,
  asset <- light

ASSUME PagesAssumption ==
  /\ TopologyAssumption
  /\ Detail!DetailAssumption /\ Deletion!DeletionAssumption /\ Light!RepresentationAssumption

-----------------------------------------------------------------------------
Parts == {"topology", "detail", "related", "deletion", "light", "lights"}

\* Assets, and values, are alike: which of them is first does not matter.
PartInit ==
  /\ part \in Parts
  /\ Init /\ Deletion!Init
  /\ IF part = "related" THEN Related!Init ELSE Detail!Init
  /\ IF part = "lights" THEN Lights!Init ELSE Light!Init
  /\ a1 = asset /\ \A r \in relations : r.source = a1
  /\ a1 = page /\ stored[a1]["name"] = 1
  /\ a1 = open /\ dependents = {Assets}
  /\ a1 = light /\ a1 \in valid /\ (part # "light" => represented = {} /\ valid = {a1})

PartNext ==
  \/ part = "topology" /\ Next /\ UNCHANGED <<part, detailVars, deletionVars, lightVars>>
  \/ /\ \/ part = "detail" /\ Detail!Next
        \/ part = "related" /\ Related!Next
     /\ UNCHANGED <<part, vars, deletionVars, lightVars>>
  \/ part = "deletion" /\ Deletion!Next /\ UNCHANGED <<part, vars, detailVars, lightVars>>
  \/ /\ \/ part = "light" /\ Light!Next
        \/ part = "lights" /\ Lights!Next
     /\ UNCHANGED <<part, vars, detailVars, deletionVars>>

Serves ==
  \/ part = "topology" /\ Serve /\ UNCHANGED <<part, detailVars, deletionVars, lightVars>>
  \/ part = "detail" /\ Detail!Serve /\ UNCHANGED <<part, vars, deletionVars, lightVars>>
  \/ part = "related" /\ Related!Serve /\ UNCHANGED <<part, vars, deletionVars, lightVars>>
  \/ part = "deletion" /\ Deletion!Serve /\ UNCHANGED <<part, vars, detailVars, lightVars>>
  \/ part = "light" /\ Light!Serve /\ UNCHANGED <<part, vars, detailVars, deletionVars>>
  \/ part = "lights" /\ Lights!Serve /\ UNCHANGED <<part, vars, detailVars, deletionVars>>

Delivers ==
  \/ part = "topology" /\ Receive /\ UNCHANGED <<part, detailVars, deletionVars, lightVars>>
  \/ part = "detail" /\ Detail!Receive /\ UNCHANGED <<part, vars, deletionVars, lightVars>>
  \/ part = "related" /\ Related!Receive /\ UNCHANGED <<part, vars, deletionVars, lightVars>>
  \/ part = "deletion" /\ Deletion!Receive /\ UNCHANGED <<part, vars, detailVars, lightVars>>
  \/ part = "light" /\ Light!Receive /\ UNCHANGED <<part, vars, detailVars, deletionVars>>
  \/ part = "lights" /\ Lights!Receive /\ UNCHANGED <<part, vars, detailVars, deletionVars>>

\* The server answers and the socket delivers.
PartSpec == PartInit /\ [][PartNext]_PartVars /\ WF_PartVars(Serves) /\ WF_PartVars(Delivers)

-----------------------------------------------------------------------------
DetailShape == IF part = "related" THEN Related!TypeOK ELSE Detail!TypeOK

Saving == saving \/ pressed \/ committed \/ deletingAsset \/ busy

\* The draft of a relation is of the asset on show (relation-editor.js), a late answer
\* changes nothing of the next asset's, and at most one operation is under way for the
\* logical light shown (representation-control.js); every save of a control ends, and a form
\* whose save was accepted closes, although its refresh fails (the finally clauses).
StaysHome ==
  /\ []TypeOK /\ []DraftOfAsset /\ []DetailShape /\ []Deletion!TypeOK /\ []Lights!TypeOK
  /\ LateAnswerStaysHome /\ []Lights!OneOperation
  /\ Saving ~> ~Saving

\* A form of the page in Casa writes once, however often it is pressed
\* (contextual-relation-editor.js and human-asset-editor.js); a deletion that is accepted
\* takes with it what was shown, unless the panel has read the registry in between
\* (asset-delete-control.js _delete); a confirmed write of a logical light makes what was not
\* there or removes what was (representation-control.js _commit).
WritesReviewed ==
  /\ []Detail!OneWrite
  /\ Deletion!ShownUnlessRead /\ Light!WritesAsReviewed
=============================================================================
