--------------------------- MODULE AtomicRegistry ---------------------------
(***************************************************************************)
(* What the manager promises its callers.  One durable registry, changed   *)
(* only by whole commands.  A call that is answered with success has taken *)
(* effect once, durably, between the call and the answer; a call that is   *)
(* answered with a failure has not taken effect at all.  A crash loses     *)
(* answers, never effects.                                                 *)
(***************************************************************************)
EXTENDS Registry

CONSTANT Client

VARIABLES
  registry,  \* the durable registry
  phase      \* how far each client's call has come

vars == <<registry, phase>>

Move(c, from, to) == phase[c] = from /\ phase' = [phase EXCEPT ![c] = to]

Init == registry = EmptyRegistry /\ phase = [c \in Client |-> "idle"]

Call(c) == Move(c, "idle", "called") /\ UNCHANGED registry
Apply(c) == Move(c, "called", "applied") /\ Edit(registry, registry')
Succeed(c) == Move(c, "applied", "idle") /\ UNCHANGED registry
Fail(c) == Move(c, "called", "idle") /\ UNCHANGED registry

\* The process ends: whoever waits for an answer gets none.
Crash == phase' = [c \in Client |-> "idle"] /\ UNCHANGED registry

\* At load, fallback targets may gain the stable identity their name has by then.
Load ==
  /\ \E entry \in [EntityId -> RegistryId \cup {Unregistered}] :
       registry' = Enrich(registry, entry)
  /\ phase' = [c \in Client |-> "idle"]

Next ==
  \/ \E c \in Client : Call(c) \/ Apply(c) \/ Succeed(c) \/ Fail(c)
  \/ Crash
  \/ Load

Spec == Init /\ [][Next]_vars

-----------------------------------------------------------------------------
(***************************************************************************)
(* Properties of every registry that commands can reach.                   *)
(***************************************************************************)

\* The registry and the call phases have the shapes the code gives them.
TypeOK ==
  /\ registry \in RegistryType
  /\ phase \in [Client -> {"idle", "called", "applied"}]

\* No command leaves a binding, relation or representation that points at an asset
\* that is gone or at a capability it lost: the deletion and update guards together
\* keep every reference of the registry alive (registry.py, delete_asset, update_asset).
NoDanglingReference ==
  /\ RelationsConnectAssets(registry)
  /\ BindingsUseCapabilities(registry)
  /\ RepresentationsBacked(registry)

\* Names stay names: one asset per code, one binding per asset, capability and role,
\* one relation per triple, one adoption per hidden entity, whatever the order of
\* creations, batches, updates and replacements (registry.py, add_asset, set_binding).
NoDuplicate ==
  /\ UniqueAssets(registry)
  /\ UniqueRelations(registry)
  /\ UniqueBindings(registry)
  /\ UniqueAdoptions(registry)

\* Whoever owns the hiding of an entity is a live binding to that very entity, through
\* retargets, removals and deletions of others (registry.py, set_binding, remove_binding).
HidingIsOwned == AdoptionsOwned(registry)

\* While an entity stays adopted, the visibility to restore is the one recorded by the
\* first owner: joining and leaving owners never rewrite it (registry.py, set_adoption).
SnapshotKept ==
  [][\A x \in registry.adoptions, y \in registry'.adoptions :
       x.registry = y.registry => x.previous = y.previous /\ x.changed = y.changed]_vars

\* A key that stays bound keeps its binding id through replacement and enrichment, and
\* an id never moves to another key: automations that hold the id stay attached
\* (registry.py, set_binding).
BindingIdentityKept ==
  [][\A b \in registry.bindings, c \in registry'.bindings :
       SameKey(b, c) <=> b.id = c.id]_vars
=============================================================================
