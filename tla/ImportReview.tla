----------------------------- MODULE ImportReview -----------------------------
(***************************************************************************)
(* Assisted import: the entities of Home Assistant are discovered as       *)
(* proposals, in one area or in all; each is reviewed in                   *)
(* bindhome-assisted-import-workflow, and the whole batch is committed in  *)
(* one transaction at the revision of its discovery.                       *)
(*                                                                         *)
(* A proposal has one target, the entity it would bind.  The texts of a    *)
(* new asset stand for whether it may be created with them.                *)
(***************************************************************************)
EXTENDS Integers, Sequences, FiniteSets

CONSTANTS
  Proposals, Assets, None,
  AreaOf,         \* of the entity of each proposal
  MaxRevision,    \* bound: commits
  MaxChanges      \* bound: changes in Home Assistant, lost connections

Scopes == {"all"} \cup { AreaOf[p] : p \in Proposals }

Actions == {"create", "merge", "skip"}

Decision == [action : Actions \cup {None}, target : Assets \cup {None},
             bind : BOOLEAN, named : BOOLEAN]

Reviews == [revision : Nat, scope : Scopes, changes : Nat,
            decisions : UNION { [S -> Decision] : S \in SUBSET Proposals }]

ImportAssumption ==
  None \notin Assets \cup Reviews /\ "all" \notin { AreaOf[p] : p \in Proposals }

VARIABLES
  revision, assets, boundTo,      \* the registry: the assets a target is bound to
  available, changes,             \* Home Assistant; history: its changes
  toServer, toPanel,              \* the socket
  scope, review, loading, saving,
  error, success,                 \* of a commit
  shownAssets,                    \* what the panel has for the assets
  committed                       \* history: the review on the page is committed

registry == <<revision, assets, boundTo>>
ha == <<available, changes>>
socket == <<toServer, toPanel>>
page == <<scope, review, loading, saving, error, success, shownAssets>>
vars == <<registry, ha, socket, page, committed>>

Init ==
  /\ revision = 0 /\ assets \in SUBSET Assets
  /\ boundTo \in [Proposals -> {{}} \cup {{a} : a \in assets}]
  /\ available \in SUBSET Proposals /\ changes = 0
  /\ toServer = <<>> /\ toPanel = <<>>
  /\ scope \in Scopes            \* an area when the page is opened from one
  /\ review = None /\ loading = FALSE /\ saving = FALSE
  /\ error = FALSE /\ success = FALSE /\ shownAssets = "assets"
  /\ committed = FALSE

-----------------------------------------------------------------------------
(***************************************************************************)
(* The server.                                                             *)
(***************************************************************************)

\* Another client adds an asset, deletes one, or binds the entity of a proposal.
OtherCommit ==
  /\ revision < MaxRevision /\ revision' = revision + 1
  /\ \/ /\ \E a \in Assets \ assets : assets' = assets \cup {a}
        /\ UNCHANGED boundTo
     \/ \E a \in assets : /\ assets' = assets \ {a}
                          /\ boundTo' = [p \in Proposals |-> boundTo[p] \ {a}]
     \/ /\ \E a \in assets, p \in Proposals : boundTo' = [boundTo EXCEPT ![p] = {a}]
        /\ UNCHANGED assets
  /\ UNCHANGED <<ha, socket, page, committed>>

\* An entity is disabled or enabled, moved out of its area or back.
HomeAssistantChanges ==
  /\ changes < MaxChanges /\ changes' = changes + 1
  /\ \E p \in Proposals : available' = IF p \in available THEN available \ {p}
                                                          ELSE available \cup {p}
  /\ UNCHANGED <<registry, socket, page, committed>>

MatchesScope(p, s) == s = "all" \/ AreaOf[p] = s

Discovered(s) == { p \in available : MatchesScope(p, s) }

Answer(m) == toPanel' = Append(toPanel, m)

Refuse(why) == Answer([type |-> "error", why |-> why]) /\ UNCHANGED <<registry, committed>>

ServeDiscover(m) ==
  /\ m.type = "discover"
  /\ Answer([type |-> "proposals", scope |-> m.scope, found |-> Discovered(m.scope),
             revision |-> revision, changes |-> changes])
  /\ UNCHANGED <<registry, committed>>

Accepts(m) == m.revision = revision

\* A target belongs to one asset.
TargetFree(p, a) == boundTo[p] \subseteq {a}

\* The asset each decision ends at: a new one for each that creates.
Destination(d, new) ==
  [p \in { q \in DOMAIN d : d[q].action # "skip" } |->
     IF d[p].action = "create" THEN new[p] ELSE d[p].target]

Apply(d, new) ==
  LET to == Destination(d, new)
      binds == { p \in DOMAIN to : d[p].bind }
  IN /\ \A p \in DOMAIN to : d[p].action = "merge" => to[p] \in assets
     /\ \A p \in binds : TargetFree(p, to[p])
     /\ assets' = assets \cup { to[p] : p \in DOMAIN to }
     /\ boundTo' = [p \in Proposals |-> IF p \in binds THEN boundTo[p] \cup {to[p]}
                                                       ELSE boundTo[p]]

\* Only new assets that are told apart.
Fresh(d) ==
  LET made == { p \in DOMAIN d : d[p].action = "create" }
  IN { new \in [made -> Assets \ assets] : \A p, q \in made : new[p] = new[q] => p = q }

\* A batch in which all is skipped commits nothing and checks the revision all the same.
CommitBatch(m) ==
  /\ Accepts(m) /\ DOMAIN m.decisions \subseteq Discovered(m.scope)
  /\ IF \A p \in DOMAIN m.decisions : m.decisions[p].action = "skip"
     THEN UNCHANGED <<registry, committed>>
     ELSE /\ revision < MaxRevision /\ revision' = revision + 1
          /\ committed' = TRUE
          /\ \E new \in Fresh(m.decisions) : Apply(m.decisions, new)
  /\ Answer([type |-> "committed"])

\* The proposals are discovered again, in the scope of the batch, before anything else.
ServeCommit(m) ==
  /\ m.type = "commit"
  /\ \/ CommitBatch(m)
     \/ Refuse(IF DOMAIN m.decisions \subseteq Discovered(m.scope) THEN "failed"
                                                                  ELSE "unavailable")

Serve ==
  /\ toServer # <<>> /\ toServer' = Tail(toServer)
  /\ ServeDiscover(Head(toServer)) \/ ServeCommit(Head(toServer))
  /\ UNCHANGED <<ha, page>>

\* The socket closes: what was asked is refused at the panel, done or not.
ConnectionLost ==
  /\ loading \/ saving
  /\ changes < MaxChanges /\ changes' = changes + 1
  /\ toServer' = <<>> /\ toPanel' = <<[type |-> "error", why |-> "lost"]>>
  /\ UNCHANGED <<registry, available, page, committed>>

-----------------------------------------------------------------------------
(***************************************************************************)
(* The page.                                                               *)
(***************************************************************************)

Send(m) == toServer' = Append(toServer, m)

ScopeShown == review = None /\ ~success

ReviewShown == review # None /\ ~success

ChooseScope(s) ==
  /\ ScopeShown /\ s # scope /\ scope' = s
  /\ UNCHANGED <<registry, ha, socket, review, loading, saving, error, success, shownAssets,
                 committed>>

Discover ==
  /\ ScopeShown /\ ~loading
  /\ loading' = TRUE /\ error' = FALSE
  /\ Send([type |-> "discover", scope |-> scope])
  /\ UNCHANGED <<registry, ha, toPanel, scope, review, saving, success, shownAssets, committed>>

Undecided == [action |-> None, target |-> None, bind |-> TRUE, named |-> TRUE]

UpdateReview(p, d) ==
  /\ ReviewShown /\ p \in DOMAIN review.decisions
  /\ review.decisions[p] # d
  /\ review' = [review EXCEPT !.decisions[p] = d]
  /\ UNCHANGED <<registry, ha, socket, scope, loading, saving, success, shownAssets, committed>>

\* Another action forgets the asset to merge with.
SetAction(p, action) ==
  /\ UpdateReview(p, [review.decisions[p] EXCEPT
                        !.action = action,
                        !.target = IF action = "merge" THEN @ ELSE None])
  /\ error' = FALSE

SetMergeTarget(p) ==
  /\ review.decisions[p].action = "merge"
  /\ \E a \in Assets \cup {None} :
       UpdateReview(p, [review.decisions[p] EXCEPT !.target = a])
  /\ error' = FALSE

UpdateAsset(p) ==
  /\ review.decisions[p].action = "create"
  /\ UpdateReview(p, [review.decisions[p] EXCEPT !.named = ~@])
  /\ error' = FALSE

ToggleBinding(p) ==
  /\ review.decisions[p].action \in {"create", "merge"}
  /\ UpdateReview(p, [review.decisions[p] EXCEPT !.bind = ~@])
  /\ UNCHANGED error

ReviewReady(d) ==
  \/ d.action = "skip"
  \/ (d.action = "merge" /\ d.target # None)
  \/ (d.action = "create" /\ d.named)

BatchReady == DOMAIN review.decisions # {} /\ \A p \in DOMAIN review.decisions :
                                                 ReviewReady(review.decisions[p])

BatchScope == review.scope

Commit ==
  /\ ReviewShown /\ ~saving /\ BatchReady
  /\ saving' = TRUE /\ error' = FALSE
  /\ Send([type |-> "commit", scope |-> BatchScope, revision |-> review.revision,
           decisions |-> review.decisions, changes |-> review.changes])
  /\ UNCHANGED <<registry, ha, toPanel, scope, review, loading, success, shownAssets, committed>>

StartOver ==
  /\ success \/ (ReviewShown /\ ~saving)
  /\ review' = None /\ error' = FALSE /\ success' = FALSE /\ committed' = FALSE
  /\ UNCHANGED <<registry, ha, socket, scope, loading, saving, shownAssets>>

Released == FALSE

ReceiveProposals(m) ==
  /\ m.type = "proposals"
  /\ review' = [revision |-> m.revision, scope |-> m.scope, changes |-> m.changes,
                decisions |-> [p \in m.found |-> Undecided]]
  /\ loading' = Released
  /\ UNCHANGED <<saving, error, success, shownAssets>>

\* The answer of the commit is handed to the panel as its assets.
ReceiveCommitted(m) ==
  /\ m.type = "committed"
  /\ success' = TRUE /\ saving' = Released
  /\ shownAssets' = "response"
  /\ UNCHANGED <<review, loading, error>>

ReceiveError(m) ==
  /\ m.type = "error" /\ error' = TRUE
  /\ loading' = IF loading THEN Released ELSE FALSE
  /\ saving' = IF saving THEN Released ELSE FALSE
  /\ UNCHANGED <<review, success, shownAssets>>

Receive ==
  /\ toPanel # <<>> /\ toPanel' = Tail(toPanel)
  /\ LET m == Head(toPanel) IN ReceiveProposals(m) \/ ReceiveCommitted(m) \/ ReceiveError(m)
  /\ UNCHANGED <<registry, ha, toServer, scope, committed>>

\* The panel has read the registry again.
Refreshed ==
  /\ shownAssets # "assets" /\ shownAssets' = "assets"
  /\ UNCHANGED <<registry, ha, socket, scope, review, loading, saving, error, success, committed>>

Next ==
  \/ OtherCommit \/ HomeAssistantChanges \/ Serve \/ ConnectionLost
  \/ \E s \in Scopes : ChooseScope(s)
  \/ Discover \/ Commit \/ StartOver \/ Receive \/ Refreshed
  \/ /\ ReviewShown
     /\ \E p \in DOMAIN review.decisions :
          \/ \E action \in Actions : SetAction(p, action)
          \/ SetMergeTarget(p) \/ UpdateAsset(p) \/ ToggleBinding(p)

Spec == Init /\ [][Next]_vars

-----------------------------------------------------------------------------
(***************************************************************************)
(* Properties.                                                             *)
(***************************************************************************)

\* The state has the shapes the code gives it.
TypeOK ==
  /\ revision \in 0..MaxRevision /\ assets \subseteq Assets
  /\ boundTo \in [Proposals -> SUBSET assets]
  /\ available \subseteq Proposals /\ scope \in Scopes
  /\ review # None => review \in Reviews /\ review.revision <= revision
  /\ loading \in BOOLEAN /\ saving \in BOOLEAN
  /\ error \in BOOLEAN /\ success \in BOOLEAN

Commits == Serve /\ toPanel' # <<>> /\ toPanel'[Len(toPanel')].type = "committed"

Refused(why) ==
  Serve /\ toPanel' # <<>> /\ LET last == toPanel'[Len(toPanel')]
                             IN last.type = "error" /\ last.why = why

=============================================================================
