---------------------------- MODULE LightRuntime ----------------------------
(***************************************************************************)
(* What follows the registry at run time: the index of binding targets     *)
(* (binding_events.py), the logical lights and their reconciliation        *)
(* (light.py), and the repair issues (integrity_repairs.py).               *)
(*                                                                         *)
(* A commit signals all three.  Index and issues are brought up to date in *)
(* the same step; the lights by a task under a lock, which awaits the      *)
(* removal of entities, while entities are added by a task of their own.   *)
(* Home Assistant's Entity Registry tells of renames and removals in the   *)
(* same step; an entry that is created anew under an identity it had       *)
(* before is told as well, but nobody listens to that.                     *)
(*                                                                         *)
(* A target is an entry, by its stable identity, or an entity that only    *)
(* the state machine has, by its name.  States are left out: a light that  *)
(* follows the entity its binding resolves to hears every change of it.    *)
(***************************************************************************)
EXTENDS Naturals, FiniteSets

CONSTANTS
  Light,       \* assets that can be represented as lights
  Device,      \* entries of other integrations
  Plain,       \* entities without an entry
  Name,        \* entity ids of entries
  Room,        \* areas
  None,
  MaxWaiting   \* bound: reconciliations that wait for the lock

Entry == Light \cup Device
Target == Entry \cup Plain

LightRuntimeAssumption ==
  /\ None \notin Target \cup Name \cup Room /\ \A S \in SUBSET Light : S # None
  /\ MaxWaiting \in Nat
  /\ Light \cap Device = {} /\ Entry \cap Plain = {} /\ Name \cap Plain = {}

VARIABLES
  represented, bound, room,     \* the registry: lights, primary bindings, areas of assets
  entity,                       \* the Entity Registry: the name of each entry
  known, rooms,                 \* the plain entities and the areas Home Assistant has
  index,                        \* _targets: the names of the bound entries
  staleBindings, staleAreas,    \* the two issues
  lights,                       \* the dict of the platform
  adding,                       \* those of them Home Assistant is still to add
  asset, resolved, followed,    \* of each light: _asset, the binding and the entity it follows
  metadata,                     \* what BindHome last gave the entry of each light
  waiting, removing, snapshot,  \* reconciliations: queued; what the one with the lock does
  silent                        \* history: entries created since the index was built

registry == <<represented, bound, room>>
issues == <<staleBindings, staleAreas>>
runtime == <<lights, adding, asset, resolved, followed, metadata>>
reconciling == <<waiting, removing, snapshot>>
vars == <<registry, entity, known, rooms, index, issues, runtime, reconciling, silent>>

Idle == removing = None

Init ==
  /\ represented = {} /\ bound = [a \in Light |-> None]
  /\ room \in [Light -> Room]
  /\ entity \in [Entry -> Name \cup {None}]
  /\ \A a \in Light : entity[a] = None
  /\ \A d, e \in Device : entity[d] # None /\ (entity[d] = entity[e] => d = e)
  /\ known = Plain /\ rooms = Room
  /\ index = [e \in Entry |-> None]
  /\ staleBindings = FALSE /\ staleAreas = FALSE
  /\ lights = {} /\ adding = {}
  /\ asset = [a \in Light |-> None] /\ resolved = asset /\ followed = asset /\ metadata = asset
  /\ waiting = 0 /\ removing = None /\ snapshot = asset
  /\ silent = {}

Free(n) == \A e \in Entry : entity[e] # n

-----------------------------------------------------------------------------
(***************************************************************************)
(* What the listeners compute, from the state they are called in.          *)
(***************************************************************************)

Bound == {bound[a] : a \in Light} \ {None}

Broken(t) == IF t \in Plain THEN t \notin known ELSE entity[t] = None

\* BindingResolver.resolve: the entity of a target; a plain one keeps its name.
Resolves(t) == IF t \in Entry THEN entity[t] ELSE t

BindingsBroken == \E t \in Bound : Broken(t)
AreasMissing == \E a \in Light : room[a] \notin rooms

RefreshTargets == index' = [e \in Entry |-> IF e \in Bound THEN entity[e] ELSE None]'

RefreshRepairs ==
  /\ staleBindings' = BindingsBroken'
  /\ staleAreas' = AreasMissing'

\* refresh_binding_subscription of these lights.
Resubscribe(S) ==
  /\ resolved' = [a \in Light |-> IF a \in S THEN bound'[a] ELSE resolved[a]]
  /\ followed' = [a \in Light |-> IF a \in S THEN Resolves(bound[a])' ELSE followed[a]]

\* _handle_binding_target_change, of the lights Home Assistant has.
Listening(changed) == {a \in lights \ adding : resolved[a] \in changed}

\* The entries of the index whose name was the one an event is about.
Affected(old) == {e \in Entry : index[e] = old /\ old # None}

\* _handle_rename and _handle_remove: each affected entry is followed and announced.
FollowName(old) ==
  /\ index' = [e \in Entry |-> IF e \in Affected(old) THEN entity'[e] ELSE index[e]]
  /\ IF Affected(old) = {} THEN UNCHANGED issues ELSE RefreshRepairs
  /\ Resubscribe(Listening(Affected(old)))

-----------------------------------------------------------------------------
(***************************************************************************)
(* Commits.                                                                *)
(***************************************************************************)

\* Mutant: a reconciliation that runs is taken to see this commit as well.
CommittedOnce ==
  /\ waiting < MaxWaiting
  /\ waiting' = IF Idle THEN waiting + 1 ELSE waiting
  /\ UNCHANGED <<entity, known, rooms, runtime, removing, snapshot>>
  /\ RefreshTargets /\ RefreshRepairs
  /\ silent' = {}

\* SIGNAL_REGISTRY_CHANGED
Committed ==
  /\ waiting < MaxWaiting
  /\ waiting' = waiting + 1
  /\ UNCHANGED <<entity, known, rooms, runtime, removing, snapshot>>
  /\ RefreshTargets /\ RefreshRepairs
  /\ silent' = {}

SetRepresentation(a) ==
  /\ a \notin represented
  /\ represented' = represented \cup {a}
  /\ UNCHANGED <<bound, room>>
  /\ Committed

RemoveRepresentation(a) ==
  /\ a \in represented
  /\ represented' = represented \ {a}
  /\ UNCHANGED <<bound, room>>
  /\ Committed

UpdateAsset(a, r) ==
  /\ r \in rooms \ {room[a]}
  /\ room' = [room EXCEPT ![a] = r]
  /\ UNCHANGED <<represented, bound>>
  /\ Committed

\* No cycle of lights: module Composition has the check itself.
SetBinding(a, t) ==
  /\ t # bound[a] /\ ~Broken(t)
  /\ bound' = [bound EXCEPT ![a] = t]
  /\ \A S \in SUBSET Light : (\A l \in S : bound'[l] \in S) => S = {}
  /\ UNCHANGED <<represented, room>>
  /\ Committed

RemoveBinding(a) ==
  /\ bound[a] # None
  /\ bound' = [bound EXCEPT ![a] = None]
  /\ UNCHANGED <<represented, room>>
  /\ Committed

-----------------------------------------------------------------------------
(***************************************************************************)
(* Home Assistant.                                                         *)
(***************************************************************************)

outside == <<registry, known, rooms, lights, adding, asset, metadata, reconciling>>

Rename(e, n) ==
  /\ entity[e] # None /\ Free(n)
  /\ entity' = [entity EXCEPT ![e] = n]
  /\ UNCHANGED <<outside, silent>>
  /\ FollowName(entity[e])

RemoveEntry(d) ==
  /\ entity[d] # None
  /\ entity' = [entity EXCEPT ![d] = None]
  /\ UNCHANGED <<outside, silent>>
  /\ FollowName(entity[d])

\* The integration of the device registers it again: the entry has its identity back.
CreateEntry(d, n) ==
  /\ entity[d] = None /\ Free(n)
  /\ entity' = [entity EXCEPT ![d] = n]
  /\ silent' = silent \cup {d}
  /\ UNCHANGED <<outside, index, issues, resolved, followed>>

\* A plain entity comes or goes: only lights that follow it hear of it.
PlainChanges(p) ==
  /\ known' = IF p \in known THEN known \ {p} ELSE known \cup {p}
  /\ resolved' = [a \in Light |-> IF a \in lights \ adding /\ followed[a] = p THEN bound[a]
                                  ELSE resolved[a]]
  /\ UNCHANGED <<registry, entity, rooms, index, issues, lights, adding, asset, followed,
                 metadata, reconciling, silent>>

RoomChanges(r) ==
  /\ rooms' = IF r \in rooms THEN rooms \ {r} ELSE rooms \cup {r}
  /\ UNCHANGED <<registry, entity, known, index, runtime, reconciling, silent>>
  /\ RefreshRepairs

\* A command, an update, or a state of what the light follows: the binding is resolved
\* anew, the subscription stays.
Resolve(a) ==
  /\ a \in lights \ adding /\ resolved[a] # bound[a]
  /\ resolved' = [resolved EXCEPT ![a] = bound[a]]
  /\ UNCHANGED <<outside, entity, index, issues, followed, silent>>

-----------------------------------------------------------------------------
(***************************************************************************)
(* Reconciliation, by the task that has the lock.                          *)
(***************************************************************************)

Eligible(s) == {a \in Light : s[a] # None}

\* Survivors are refreshed, then new lights handed over, without an await.
Settle(s, current) ==
  LET stay == current \cap Eligible(s)
      new == Eligible(s) \ current
  IN
  /\ asset' = [a \in Light |-> IF a \in stay \cup new THEN s[a] ELSE asset[a]]
  /\ metadata' = [a \in Light |-> IF a \in stay /\ entity[a] # None THEN s[a] ELSE metadata[a]]
  /\ Resubscribe(stay)
  /\ lights' = stay \cup new
  /\ adding' = adding \cup new
  /\ removing' = None

NoSnapshot == [a \in Light |-> None]

Begin ==
  /\ Idle /\ waiting > 0
  /\ waiting' = waiting - 1
  /\ UNCHANGED <<registry, entity, known, rooms, index, issues, silent>>
  /\ LET eligible == [a \in Light |-> IF a \in represented THEN room[a] ELSE None] IN
       IF lights \subseteq represented
       THEN Settle(eligible, lights) /\ UNCHANGED snapshot
       ELSE /\ snapshot' = eligible
            /\ removing' = lights \ represented
            /\ UNCHANGED runtime

\* Mutant: a removal is tried for ever.
RemoveLightAgain(a) ==
  /\ ~Idle /\ a \in removing
  /\ UNCHANGED vars

\* async_remove has returned; the entry goes, and its event is heard at once.  An entity
\* that is removed before Home Assistant has added it is not added.
RemoveLight(a) ==
  /\ ~Idle /\ a \in removing
  /\ UNCHANGED <<registry, known, rooms, waiting, snapshot, silent>>
  /\ entity' = [entity EXCEPT ![a] = None]
  /\ metadata' = [metadata EXCEPT ![a] = None]
  /\ index' = [e \in Entry |-> IF e \in Affected(entity[a]) THEN entity'[e] ELSE index[e]]
  /\ IF Affected(entity[a]) = {} THEN UNCHANGED issues ELSE RefreshRepairs
  /\ LET hear == {l \in Listening(Affected(entity[a])) : l # a} IN
       /\ resolved' = [l \in Light |-> IF l = a THEN None
                                       ELSE IF l \in hear THEN bound[l] ELSE resolved[l]]
       /\ followed' = [l \in Light |-> IF l = a THEN None
                                       ELSE IF l \in hear THEN Resolves(bound[l])' ELSE followed[l]]
  /\ lights' = lights \ {a}
  /\ adding' = adding \ {a}
  /\ removing' = removing \ {a}
  /\ asset' = [asset EXCEPT ![a] = None]

\* Nothing is left to remove.
Finish ==
  /\ ~Idle /\ removing = {}
  /\ UNCHANGED <<registry, entity, known, rooms, index, issues, waiting, silent>>
  /\ Settle(snapshot, lights)
  /\ snapshot' = NoSnapshot

\* async_added_to_hass, with the entry Home Assistant has made or brought back.
Add(a, n) ==
  /\ a \in adding /\ Free(n)
  /\ UNCHANGED <<registry, known, rooms, index, issues, lights, asset, reconciling>>
  /\ entity' = [entity EXCEPT ![a] = n]
  /\ metadata' = [metadata EXCEPT ![a] = asset[a]]
  /\ Resubscribe({a})
  /\ adding' = adding \ {a}
  /\ silent' = silent \cup {a}

Reconcile ==
  Begin \/ Finish \/ \E a \in Light : RemoveLight(a) \/ \E n \in Name : Add(a, n)

Next ==
  \/ Reconcile
  \/ \E a \in Light : \/ SetRepresentation(a) \/ RemoveRepresentation(a) \/ RemoveBinding(a)
                      \/ Resolve(a)
                      \/ \E r \in Room : UpdateAsset(a, r)
                      \/ \E t \in Target : SetBinding(a, t)
  \/ \E e \in Entry, n \in Name : Rename(e, n)
  \/ \E d \in Device : RemoveEntry(d) \/ \E n \in Name : CreateEntry(d, n)
  \/ \E p \in Plain : PlainChanges(p)
  \/ \E r \in Room : RoomChanges(r)

Spec == Init /\ [][Next]_vars

-----------------------------------------------------------------------------
(***************************************************************************)
(* Properties.                                                             *)
(***************************************************************************)

\* The state has the shapes the code gives it.
TypeOK ==
  /\ represented \subseteq Light /\ bound \in [Light -> Target \cup {None}]
  /\ room \in [Light -> Room] /\ rooms \subseteq Room /\ known \subseteq Plain
  /\ entity \in [Entry -> Name \cup {None}] /\ index \in [Entry -> Name \cup {None}]
  /\ \A d, e \in Entry : entity[d] # None /\ entity[d] = entity[e] => d = e
  /\ {staleBindings, staleAreas} \subseteq BOOLEAN
  /\ adding \subseteq lights /\ lights \subseteq Light
  /\ asset \in [Light -> Room \cup {None}] /\ snapshot \in [Light -> Room \cup {None}]
  /\ metadata \in [Light -> Room \cup {None}]
  /\ resolved \in [Light -> Target \cup {None}]
  /\ followed \in [Light -> Name \cup Plain \cup {None}]
  /\ waiting \in 0..MaxWaiting
  /\ Idle \/ removing \subseteq lights
  /\ silent \subseteq Entry

Settled == Idle /\ waiting = 0 /\ adding = {}

\* However commits fall into the awaits of a reconciliation, when all have ended there is
\* a light, with its entry and the asset's metadata, exactly for every representation
\* (light.py, async_reconcile).
LightsAgree ==
  Settled =>
    /\ lights = represented
    /\ \A a \in Light : metadata[a] = IF a \in represented THEN room[a] ELSE None
    /\ \A a \in Light : (entity[a] # None) = (a \in represented)

\* And every light follows the entity that its binding now resolves to, through renames
\* and removals at any moment; entries that were created since the last commit excepted
\* (light.py, refresh_binding_subscription; binding_events.py).
LightsFollow ==
  Settled => \A a \in lights : bound[a] \in silent \/ followed[a] = Resolves(bound[a])

\* The index never has a name that another entry now has (binding_events.py).
IndexTrue == \A e \in Entry : index[e] # None => index[e] = entity[e]

\* A bound entry that is gone is reported, unless it had just been created
\* (integrity_repairs.py).
RemovalReported ==
  (\E t \in Bound \cap Entry : Broken(t) /\ t \notin silent) => staleBindings

\* The issue about areas stands exactly while an asset has one that is missing.
AreasReported == staleAreas = AreasMissing

=============================================================================
