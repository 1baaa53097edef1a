------------------------------- MODULE Panel --------------------------------
(***************************************************************************)
(* The data layer of the sidebar panel: the element bindhome-panel, which  *)
(* keeps a read model of the registry, and the client of bindhome-api.js   *)
(* below it, which keeps the revision that mutations are based on.         *)
(*                                                                         *)
(* The number of commits so far names a content of the registry.  The      *)
(* manager counts its own commits: a reload of the config entry starts     *)
(* another manager at revision 0 over the same content.  Panel and server  *)
(* talk over one WebSocket, which keeps order in each direction; the       *)
(* handlers of reads contain no await, so reads are answered in order too. *)
(* A refresh is a Promise.all of several reads and lands with the last.    *)
(***************************************************************************)
EXTENDS Integers, Sequences, FiniteSets

CONSTANTS
  None,           \* nothing read yet
  Live,           \* a feed that reports the manager in charge
  MaxContent,     \* bound: commits
  MaxGeneration,  \* bound: refreshes after which no load is begun
  MaxSubscription,\* bound: subscriptions after which the panel is not left
  MaxFailures,    \* bound: reads and subscriptions that fail
  MaxWaiting,     \* bound: requests on their way
  Reloads,        \* whether the config entry is ever reloaded
  Follow          \* what controls refresh after a mutation, in one synchronous step

ASSUME PanelAssumption ==
  /\ None \notin Nat \cup [content : Nat, revision : Nat]
  /\ None \notin [sub : Nat, revision : Nat \cup {Live}]
  /\ Live \notin Nat /\ Reloads \in BOOLEAN /\ MaxFailures \in Nat
  /\ Follow \subseteq {<<"bindings">>, <<"topology">>, <<"assets">>,
                       <<"bindings", "topology", "assets">>, <<"list">>}

VARIABLES
  content, base,        \* commits so far; those before the current manager
  foreign,              \* contents that somebody else's commit produced
  feed,                 \* the subscription the server serves
  toServer, toPanel,    \* the socket
  failures,
  basis,                \* state.revision of the client
  ops,                  \* refreshes awaiting answers
  generation,           \* _dataGeneration
  registry, assets, statuses, places,  \* what the panel shows
  initialized, loading, error,
  conflict, refusedAt,  \* _registryConflict; the content that refused us last
  sub, subId,           \* _registrySubscriptionConnection and -Generation
  attached,             \* the element is in the document
  reviewed              \* the last preview shown

server == <<content, base, foreign, feed>>
shown == <<registry, assets, statuses, places>>
shell == <<initialized, loading, error>>
link == <<sub, subId, attached>>
vars == <<server, toServer, toPanel, failures, basis, ops, generation, shown, shell,
          conflict, refusedAt, link, reviewed>>

\* A revision as a client can hold it, with the content it was read from.
Stamp == [content : Nat, revision : Nat]
Current == [content |-> content, revision |-> content - base]

Kind == {"load", "event", "bindings", "topology", "assets"}

\* What each refresh awaits.  Floors, areas, presets and texts do not come from the
\* registry: they are one part, which other handlers answer at any time.
Parts(kind) ==
  CASE kind = "load" -> {"assets", "registry", "statuses", "places"}
    [] kind \in {"event", "bindings"} -> {"registry", "statuses"}
    [] kind = "topology" -> {"registry"}
    [] kind = "assets" -> {"assets"}

Requests(kind) ==
  CASE kind = "load" -> <<"assets", "registry", "statuses">>
    [] kind \in {"event", "bindings"} -> <<"registry", "statuses">>
    [] kind = "topology" -> <<"registry">>
    [] kind = "assets" -> <<"assets">>

Read(gen, part) == [type |-> "read", gen |-> gen, part |-> part]
Reads(gen, kind) == [i \in DOMAIN Requests(kind) |-> Read(gen, Requests(kind)[i])]

Init ==
  /\ content = 0 /\ base = 0 /\ foreign = {} /\ feed = None
  /\ toServer = <<>> /\ toPanel = <<>>
  /\ failures = 0
  /\ basis = None
  /\ ops = {}
  /\ generation = 0
  /\ registry = None /\ assets = None /\ statuses = None /\ places = FALSE
  /\ initialized = FALSE /\ loading = TRUE /\ error = FALSE
  /\ conflict = FALSE /\ refusedAt = 0
  /\ sub = "none" /\ subId = 0 /\ attached = TRUE
  /\ reviewed = None

-----------------------------------------------------------------------------
(***************************************************************************)
(* The server.                                                             *)
(***************************************************************************)

\* ws_registry_subscribe reports the revision of the manager it was called with.
Notice(revision) ==
  IF feed = None THEN <<>>
  ELSE <<[type |-> "event", sub |-> feed.sub,
          revision |-> IF feed.revision = Live THEN revision ELSE feed.revision]>>

OtherCommit ==
  /\ content < MaxContent
  /\ content' = content + 1
  /\ foreign' = foreign \cup {content'}
  /\ toPanel' = toPanel \o Notice(content' - base)
  /\ UNCHANGED <<base, feed, toServer, failures, basis, ops, generation, shown, shell,
                 conflict, refusedAt, link, reviewed>>

Reload ==
  /\ Reloads /\ base < content
  /\ base' = content
  /\ feed' = IF feed = None \/ feed.revision # Live THEN feed
             ELSE [feed EXCEPT !.revision = content - base]
  /\ UNCHANGED <<content, foreign, toServer, toPanel, failures, basis, ops, generation,
                 shown, shell, conflict, refusedAt, link, reviewed>>

MayFail(ok) ==
  IF ok THEN failures' = failures
  ELSE failures < MaxFailures /\ failures' = failures + 1

ServeRead(m) ==
  /\ m.type = "read"
  /\ \E ok \in BOOLEAN :
       /\ MayFail(ok)
       /\ toPanel' = Append(toPanel, [type |-> "part", gen |-> m.gen, part |-> m.part,
                                      stamp |-> Current, ok |-> ok])
  /\ UNCHANGED server

\* Committed only on the stated revision, if one is stated.
Accepts(m) == m.based = None \/ m.based.revision = content - base

ServeMutation(m) ==
  /\ m.type = "mutate"
  /\ \/ /\ Accepts(m) /\ content < MaxContent
        /\ content' = content + 1
        /\ toPanel' = toPanel \o Append(Notice(content' - base),
             [type |-> "reply", follow |-> m.follow,
              stamp |-> [content |-> content', revision |-> content' - base]])
     \* "conflict" is the code of an outdated revision and of every RegistryConflictError:
     \* a duplicate or a deletion with dependents is answered with it too.
     \/ /\ toPanel' = Append(toPanel, [type |-> "refusal", stamp |-> Current])
        /\ UNCHANGED content
     \* Not found, not valid, or not saved: the control shows it, the data stays.
     \/ Accepts(m) /\ UNCHANGED <<content, toPanel>>
  /\ UNCHANGED <<base, foreign, feed, failures>>

ServeSubscribe(m) ==
  /\ m.type = "subscribe"
  /\ \E ok \in BOOLEAN :
       /\ MayFail(ok)
       /\ feed' = IF ok THEN [sub |-> m.sub, revision |-> Live] ELSE feed
       /\ toPanel' = Append(toPanel, [type |-> "subscribed", sub |-> m.sub, ok |-> ok])
  /\ UNCHANGED <<content, base, foreign>>

Serve ==
  /\ toServer # <<>>
  /\ toServer' = Tail(toServer)
  /\ ServeRead(Head(toServer)) \/ ServeMutation(Head(toServer)) \/ ServeSubscribe(Head(toServer))
  /\ UNCHANGED <<basis, ops, generation, shown, shell, conflict, refusedAt, link, reviewed>>

-----------------------------------------------------------------------------
(***************************************************************************)
(* Starting refreshes.                                                     *)
(***************************************************************************)

Loading == \E o \in ops : o.kind = "load"
EventRunning == \E o \in ops : o.kind = "event"

\* Every refresh takes the next generation; only the newest one may land.
Start(kind) ==
  /\ generation' = generation + 1
  /\ ops' = ops \cup {[gen |-> generation', kind |-> kind, got |-> <<>>]}
  /\ toServer' = toServer \o Reads(generation', kind)

StartLoad(initial) ==
  /\ ~Loading /\ generation < MaxGeneration
  /\ Start("load")
  /\ loading' = (loading \/ initial)
  /\ error' = FALSE
  /\ UNCHANGED <<server, toPanel, failures, basis, shown, initialized, conflict,
                 refusedAt, link, reviewed>>

\* updated(): the first hass loads; the buttons refresh, or retry after an error.
FirstHass == attached /\ ~initialized /\ StartLoad(TRUE)
Retry == attached /\ ~loading /\ error /\ StartLoad(TRUE)
Refresh == attached /\ ~loading /\ StartLoad(FALSE)
ReloadAfterConflict == attached /\ conflict /\ ~loading /\ StartLoad(FALSE)

\* The subscription of the panel, dropped with its element.
Subscribe ==
  IF sub = "none"
  THEN /\ sub' = "pending"
       /\ subId' = subId + 1
       /\ toServer' = Append(toServer, [type |-> "subscribe", sub |-> subId'])
  ELSE UNCHANGED <<sub, subId, toServer>>

\* Every change of hass, and the return of the element, make sure of it.
EnsureSubscription ==
  /\ attached /\ initialized /\ sub = "none"
  /\ Subscribe
  /\ UNCHANGED <<server, toPanel, failures, basis, ops, generation, shown, shell,
                 conflict, refusedAt, attached, reviewed>>

Disconnect ==
  /\ attached /\ subId < MaxSubscription
  /\ attached' = FALSE
  /\ sub' = "none"
  /\ subId' = subId + 1
  /\ UNCHANGED <<server, toServer, toPanel, failures, basis, ops, generation, shown,
                 shell, conflict, refusedAt, reviewed>>

Connect ==
  /\ ~attached
  /\ attached' = TRUE
  /\ IF initialized THEN Subscribe ELSE UNCHANGED <<sub, subId, toServer>>
  /\ UNCHANGED <<server, toPanel, failures, basis, ops, generation, shown, shell,
                 conflict, refusedAt, reviewed>>

-----------------------------------------------------------------------------
(***************************************************************************)
(* What the user's controls send.                                          *)
(***************************************************************************)

Room == Len(toServer) + Len(toPanel) < MaxWaiting
Usable == attached /\ ~loading /\ ~error /\ registry # None

Writing == {i \in DOMAIN toServer : toServer[i].type = "mutate"}
             \cup {i \in DOMAIN toPanel : toPanel[i].type \in {"reply", "refusal"}}

\* alone is history: whether the mutation states the client's own basis while no other
\* one of this panel is under way.
Send(based, alone, follow) ==
  /\ Usable /\ Room
  /\ toServer' = Append(toServer,
       [type |-> "mutate", based |-> based, alone |-> alone, follow |-> follow])
  /\ UNCHANGED <<server, toPanel, failures, basis, ops, generation, shown, shell,
                 conflict, refusedAt, link, reviewed>>

Mutate == \E follow \in Follow : Send(basis, Writing = {}, follow)

\* Previews answer with a revision, which the client takes over and their commit states.
Preview ==
  /\ Usable /\ Room
  /\ toServer' = Append(toServer, Read(0, "preview"))
  /\ UNCHANGED <<server, toPanel, failures, basis, ops, generation, shown, shell,
                 conflict, refusedAt, link, reviewed>>

MutateReviewed ==
  reviewed # None /\ \E follow \in Follow : Send(reviewed, FALSE, follow)

-----------------------------------------------------------------------------
(***************************************************************************)
(* Answers.                                                                *)
(***************************************************************************)

AcceptRevision(m) == basis' = m.stamp

\* Mutant: a superseded refresh lands.
LandsAlways(o) == TRUE

Lands(o) == o.gen = generation

ShowRegistry(stamp) == registry' = stamp /\ assets' = stamp.content

LandLoad(o) ==
  /\ IF Lands(o)
     THEN /\ registry' = o.got.registry
          /\ assets' = o.got.assets.content
          /\ statuses' = o.got.statuses.content
          /\ places' = TRUE
          /\ conflict' = FALSE
          /\ Subscribe
     ELSE UNCHANGED <<shown, conflict, sub, subId, toServer>>
  /\ initialized' = TRUE
  /\ loading' = FALSE
  /\ UNCHANGED <<error, generation>>

LandStatuses(o) ==
  /\ IF Lands(o)
     THEN ShowRegistry(o.got.registry) /\ statuses' = o.got.statuses.content
     ELSE UNCHANGED <<registry, assets, statuses>>
  /\ UNCHANGED <<places, conflict, sub, subId, toServer, shell, generation>>

LandTopology(o) ==
  /\ IF Lands(o) THEN ShowRegistry(o.got.registry) ELSE UNCHANGED <<registry, assets>>
  /\ UNCHANGED <<statuses, places, conflict, sub, subId, toServer, shell, generation>>

LandAssets(o) ==
  /\ assets' = IF Lands(o) THEN o.got.assets.content ELSE assets
  /\ UNCHANGED <<registry, statuses, places, conflict, sub, subId, toServer, shell,
                 generation>>

Land(o) ==
  CASE o.kind = "load" -> LandLoad(o)
    [] o.kind \in {"event", "bindings"} -> LandStatuses(o)
    [] o.kind = "topology" -> LandTopology(o)
    [] o.kind = "assets" -> LandAssets(o)

\* One part has failed: Promise.all rejects and the parts still to come are ignored.
\* A failed first load is an error page; other failures leave the data as it was.
Reject(o) ==
  /\ IF o.kind = "load"
     THEN /\ error' = (error \/ loading \/ ~initialized)
          /\ initialized' = TRUE
          /\ loading' = FALSE
     ELSE UNCHANGED shell
  /\ UNCHANGED <<shown, conflict, sub, subId, toServer, generation>>

Arrive(o, part, stamp, ok) ==
  LET more == [p \in DOMAIN o.got \cup {part} |-> IF p = part THEN stamp ELSE o.got[p]]
      full == [o EXCEPT !.got = more]
      done == ok /\ DOMAIN more = Parts(o.kind)
  IN
  /\ ops' = (ops \ {o}) \cup (IF ok /\ ~done THEN {full} ELSE {})
  /\ IF ~ok THEN Reject(o)
     ELSE IF done THEN Land(full)
     ELSE UNCHANGED <<shown, conflict, sub, subId, toServer, shell, generation>>

PlacesArrive ==
  \E o \in ops, ok \in BOOLEAN :
    /\ o.kind = "load" /\ "places" \notin DOMAIN o.got
    /\ MayFail(ok)
    /\ Arrive(o, "places", Current, ok)
    /\ UNCHANGED <<server, toPanel, basis, refusedAt, attached, reviewed>>

ReceivePart(m) ==
  /\ m.type = "part"
  /\ IF m.ok /\ m.part \in {"registry", "preview"} THEN AcceptRevision(m) ELSE UNCHANGED basis
  /\ reviewed' = IF m.ok /\ m.part = "preview" THEN m.stamp ELSE reviewed
  /\ IF m.part = "list"
     \* assets-refreshed: the workflow's own list is shown whatever the generation.
     THEN /\ assets' = IF m.ok THEN m.stamp.content ELSE assets
          /\ UNCHANGED <<registry, statuses, places, ops, conflict, sub, subId, toServer,
                         shell, generation>>
     ELSE IF \E o \in ops : o.gen = m.gen
     THEN \E o \in ops : o.gen = m.gen /\ Arrive(o, m.part, m.stamp, m.ok)
     ELSE UNCHANGED <<ops, shown, conflict, sub, subId, toServer, shell, generation>>
  /\ UNCHANGED refusedAt

\* A notice of what is known already is ignored; one that meets a running refresh by
\* notice joins it.
ReceiveEvent(m) ==
  /\ m.type = "event"
  /\ IF \/ sub # "active" \/ m.sub # subId
        \/ registry # None /\ m.revision <= registry.revision
        \/ EventRunning
     THEN UNCHANGED <<ops, generation, toServer>>
     ELSE Start("event")
  /\ UNCHANGED <<basis, reviewed, shown, shell, conflict, refusedAt, sub, subId>>

StartAll(kinds) ==
  /\ generation' = generation + Len(kinds)
  /\ ops' = ops \cup {[gen |-> generation + i, kind |-> kinds[i], got |-> <<>>] :
                        i \in DOMAIN kinds}
  /\ toServer' = toServer \o
       (IF Len(kinds) = 1 THEN Reads(generation + 1, kinds[1])
        ELSE Reads(generation + 1, kinds[1]) \o Reads(generation + 2, kinds[2])
               \o Reads(generation + 3, kinds[3]))

\* Mutant: the revision of the answer is not taken over.
ReceiveReplyUnnumbered(m) ==
  /\ m.type = "reply"
  /\ IF m.follow = <<"list">>
     THEN toServer' = Append(toServer, Read(0, "list")) /\ UNCHANGED <<ops, generation>>
     ELSE StartAll(m.follow)
  /\ UNCHANGED <<basis, reviewed, shown, shell, conflict, refusedAt, sub, subId>>

ReceiveReply(m) ==
  /\ m.type = "reply"
  /\ AcceptRevision(m)
  /\ IF m.follow = <<"list">>
     THEN toServer' = Append(toServer, Read(0, "list")) /\ UNCHANGED <<ops, generation>>
     ELSE StartAll(m.follow)
  /\ UNCHANGED <<reviewed, shown, shell, conflict, refusedAt, sub, subId>>

\* The conflict listener lives as long as the subscription.
ReceiveRefusal(m) ==
  /\ m.type = "refusal"
  /\ conflict' = (conflict \/ sub # "none")
  /\ refusedAt' = m.stamp.content
  /\ UNCHANGED <<basis, reviewed, ops, generation, toServer, shown, shell, sub, subId>>

ReceiveSubscribed(m) ==
  /\ m.type = "subscribed"
  /\ sub' = IF m.sub # subId THEN sub ELSE IF m.ok THEN "active" ELSE "none"
  /\ UNCHANGED <<basis, reviewed, ops, generation, toServer, shown, shell, conflict,
                 refusedAt, subId>>

Receive ==
  /\ toPanel # <<>>
  /\ toPanel' = Tail(toPanel)
  /\ LET m == Head(toPanel) IN
       \/ ReceivePart(m) \/ ReceiveEvent(m) \/ ReceiveReply(m)
       \/ ReceiveRefusal(m) \/ ReceiveSubscribed(m)
  /\ UNCHANGED <<server, failures, attached>>

Deliver == Serve \/ Receive \/ PlacesArrive

Next ==
  \/ Deliver \/ OtherCommit \/ Reload
  \/ FirstHass \/ Retry \/ Refresh \/ ReloadAfterConflict
  \/ EnsureSubscription \/ Disconnect \/ Connect
  \/ Mutate \/ MutateReviewed \/ Preview

Spec == Init /\ [][Next]_vars

-----------------------------------------------------------------------------
(***************************************************************************)
(* Properties.                                                             *)
(***************************************************************************)

\* The state has the shapes the code gives it.
TypeOK ==
  /\ content \in Nat /\ base \in 0..content /\ foreign \subseteq 1..content
  /\ feed = None \/ feed \in [sub : 1..subId, revision : Nat \cup {Live}]
  /\ failures \in 0..MaxFailures
  /\ basis \in Stamp \cup {None} /\ reviewed \in Stamp \cup {None}
  /\ registry \in Stamp \cup {None}
  /\ {assets, statuses} \subseteq Nat \cup {None} /\ places \in BOOLEAN
  /\ \A o \in ops :
       o.kind \in Kind /\ o.gen \in 1..generation /\ DOMAIN o.got \subseteq Parts(o.kind)
  /\ \A o, p \in ops : (o.gen = p.gen \/ (o.kind = "load" /\ p.kind = "load")) => o = p
  /\ {initialized, loading, error, conflict, attached} \subseteq BOOLEAN
  /\ refusedAt \in 0..content
  /\ sub \in {"none", "pending", "active"} /\ subId \in Nat

Older(a, b) == b # None /\ (a = None \/ a < b)
ContentOf(stamp) == IF stamp = None THEN None ELSE stamp.content

\* Refreshes overlap, are superseded, joined, and land late: none puts back a registry
\* or statuses older than those on show (bindhome-panel.js, _dataGeneration).
DataNeverGoesBack ==
  [][/\ ~Older(ContentOf(registry'), ContentOf(registry))
     /\ ~Older(statuses', statuses)]_vars

\* While no read fails, the first subscription lasts and the feed reports the manager in
\* charge, neither does the list of assets go back, which has a path of its own, and a
\* conflict is withdrawn by nothing older than what has refused the panel
\* (bindhome-panel.js, assets-refreshed and _load).
SteadyFeed ==
  [][failures' = 0 /\ base' = 0 /\ subId' <= 1 =>
       /\ ~Older(assets', assets)
       /\ conflict /\ ~conflict' /\ sub = "active" => registry'.content >= refusedAt]_vars

Arriving(m) == toServer # <<>> /\ m = Head(toServer) /\ m.type = "mutate"

\* A panel never outdates itself: if the only mutation under way states a revision that
\* is not the manager's, somebody else has committed since its basis, or the manager is
\* another one (bindhome-api.js, mutate and acceptRevision).  Refusals by the registry, of
\* a mutation whose revision is current, are no part of this.
NoSelfConflict ==
  \A i \in DOMAIN toServer : LET m == toServer[i] IN
    Arriving(m) /\ m.alone /\ ~Accepts(m) =>
      \/ \E c \in foreign : m.based.content < c
      \/ m.based.content - m.based.revision # base

\* The notice of a conflict, as its text says it: another session has changed BindHome.
\* It does not hold: README.md.
ConflictIsOthers == conflict => foreign # {} \/ base > 0

\* Every load ends, with data, with an error, or superseded: the refresh button comes
\* back (bindhome-panel.js, _load).
LoadEnds == Loading ~> ~Loading

=============================================================================
