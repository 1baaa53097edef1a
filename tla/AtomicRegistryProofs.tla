------------------------ MODULE AtomicRegistryProofs ------------------------
(***************************************************************************)
(* The properties of the durable registry, for any number of assets,       *)
(* relations, bindings, entities and clients.  The inductive invariant is  *)
(* TypeOK /\ Consistent(registry): no single property of AtomicRegistry is *)
(* preserved on its own, because a command that keeps one rests on others  *)
(* (updating an asset keeps its bindings alive only if its id is unique).  *)
(***************************************************************************)
EXTENDS AtomicRegistry, RegistryProofs

IInv == TypeOK /\ Consistent(registry)

\* The registry of an empty store is consistent.
LEMMA EmptyConsistent == EmptyRegistry \in RegistryType /\ Consistent(EmptyRegistry)
BY DEF EmptyRegistry, RegistryType, Consistent, UniqueAssets, UniqueRelations,
  RelationsConnectAssets, UniqueBindings, BindingsUseCapabilities,
  RepresentationsBacked, UniqueAdoptions, AdoptionsOwned

\* The invariant holds initially.
LEMMA IInvHoldsInitially == Init => IInv
BY EmptyConsistent DEF Init, IInv, TypeOK

\* Calls and answers leave the registry alone; commands and loads keep it consistent.
LEMMA IInvIsPreserved == IInv /\ [Next]_vars => IInv'
<1> SUFFICES ASSUME IInv, [Next]_vars
             PROVE  IInv'
  OBVIOUS
<1> USE DEF IInv, TypeOK
<1>1. ASSUME NEW c \in Client, Call(c)
      PROVE  IInv'
  BY <1>1 DEF Call, Move
<1>2. ASSUME NEW c \in Client, Apply(c)
      PROVE  IInv'
  <2>1. registry' \in RegistryType /\ Consistent(registry')
    BY <1>2, EditKeepsConsistency DEF Apply
  <2> QED
    BY <1>2, <2>1 DEF Apply, Move
<1>3. ASSUME NEW c \in Client, Succeed(c)
      PROVE  IInv'
  BY <1>3 DEF Succeed, Move
<1>4. ASSUME NEW c \in Client, Fail(c)
      PROVE  IInv'
  BY <1>4 DEF Fail, Move
<1>5. CASE Crash
  BY <1>5 DEF Crash
<1>6. CASE Load
  <2>1. registry' \in RegistryType /\ Consistent(registry')
    BY <1>6, EnrichKeepsConsistency DEF Load
  <2> QED
    BY <1>6, <2>1 DEF Load
<1>7. CASE UNCHANGED vars
  BY <1>7 DEF vars
<1> QED
  BY <1>1, <1>2, <1>3, <1>4, <1>5, <1>6, <1>7 DEF Next

\* Every reachable registry is one the storage loader accepts again unchanged.
THEOREM Consistency == Spec => []IInv
<1> QED
  BY IInvHoldsInitially, IInvIsPreserved, PTL DEF Spec

\* The registry and the phases keep their shapes.
THEOREM TypeCorrect == Spec => []TypeOK
<1>1. IInv => TypeOK
  BY DEF IInv
<1> QED
  BY <1>1, Consistency, PTL

\* No history of commands, crashes and loads leaves a reference to an asset that is gone
\* or to a capability it lost (registry.py, delete_asset, update_asset).
THEOREM ReferencesStayAlive == Spec => []NoDanglingReference
<1>1. IInv => NoDanglingReference
  BY DEF IInv, Consistent, NoDanglingReference
<1> QED
  BY <1>1, Consistency, PTL

\* Codes, binding keys, relation triples and adopted entities stay unique
\* (registry.py, add_asset, add_relation, set_binding, set_adoption).
THEOREM NamesStayUnique == Spec => []NoDuplicate
<1>1. IInv => NoDuplicate
  BY DEF IInv, Consistent, NoDuplicate
<1> QED
  BY <1>1, Consistency, PTL

\* The owner of a hiding is always a live binding to the hidden entity
\* (registry.py, set_binding, remove_binding, remove_adoption_for_binding).
THEOREM OwnersStayBound == Spec => []HidingIsOwned
<1>1. IInv => HidingIsOwned
  BY DEF IInv, Consistent, HidingIsOwned
<1> QED
  BY <1>1, Consistency, PTL

-----------------------------------------------------------------------------
(***************************************************************************)
(* What a single step may not do.                                          *)
(***************************************************************************)

\* While an entity stays adopted, the visibility to restore is the one its first owner
\* recorded (registry.py, set_adoption).
THEOREM SnapshotsStay == Spec => SnapshotKept
<1>1. IInv /\ [Next]_vars => [KeepsSnapshots(registry, registry')]_vars
  <2> SUFFICES ASSUME IInv, Next
               PROVE  KeepsSnapshots(registry, registry')
    BY DEF vars
  <2>1. CASE registry' = registry
    BY <2>1 DEF KeepsSnapshots, IInv, Consistent, UniqueAdoptions
  <2>2. CASE Edit(registry, registry')
    BY <2>2, EditKeepsSnapshots DEF IInv, TypeOK
  <2>3. CASE Load
    <3>1. registry'.adoptions = registry.adoptions
      BY <2>3 DEF Load, Enrich, IInv, TypeOK, RegistryType
    <3> QED
      BY <3>1 DEF KeepsSnapshots, IInv, Consistent, UniqueAdoptions
  <2> QED
    BY <2>1, <2>2, <2>3 DEF Next, Call, Apply, Succeed, Fail, Crash
<1> QED
  BY <1>1, Consistency, PTL DEF Spec, SnapshotKept, KeepsSnapshots

\* A binding of r and a binding of s have the same key exactly if they have the same id.
KeepsIdentities(r, s) ==
  \A b \in r.bindings, c \in s.bindings : SameKey(b, c) <=> b.id = c.id

\* Removing bindings moves no id.
LEMMA SubsetKeepsIdentities ==
  ASSUME NEW r, UniqueBindings(r), NEW s, s.bindings \subseteq r.bindings
  PROVE  KeepsIdentities(r, s)
BY DEF KeepsIdentities, UniqueBindings, SameKey

\* No command moves a binding id to another key, or a key to another id.
LEMMA EditKeepsIdentities ==
  ASSUME NEW r \in RegistryType, Consistent(r), NEW s, Edit(r, s)
  PROVE  KeepsIdentities(r, s)
<1>1. CASE s.bindings \subseteq r.bindings
  BY <1>1, SubsetKeepsIdentities DEF Consistent
<1>2. CASE EditAssets(r, s)
  <2>1. ASSUME NEW a \in r.assets, NEW e, s = DeleteWithDependencies(r, a, e)
        PROVE  s.bindings \subseteq r.bindings
    BY <2>1, ReleaseType, ReleaseKeepsRest DEF DeleteWithDependencies, RemoveBindings, RegistryType
  <2>2. s.bindings \subseteq r.bindings
    BY <1>2, <2>1 DEF EditAssets, AddAssets, UpdateAsset, DeleteAsset, RegistryType
  <2> QED
    BY <1>1, <2>2
<1>3. CASE EditRelations(r, s)
  BY <1>1, <1>3 DEF EditRelations, AddRelation, RemoveRelation, RegistryType
<1>4. CASE EditBindings(r, s)
  <2>1. ASSUME NEW b \in Binding, CanBind(r, b), s = Bind(r, b)
        PROVE  KeepsIdentities(r, s)
    <3>1. s.bindings = r.bindings \cup {b}
      BY <2>1 DEF Bind, RegistryType
    <3> QED
      BY <2>1, <3>1 DEF KeepsIdentities, Consistent, UniqueBindings, SameKey, CanBind
  <2>2. ASSUME NEW old \in r.bindings, NEW new \in Binding,
               CanRebind(r, old, new), s = Rebind(r, old, new)
        PROVE  KeepsIdentities(r, s)
    <3>1. s.bindings = (r.bindings \ {old}) \cup {new}
      BY <2>2, ReleaseType, ReleaseKeepsRest DEF Rebind, RegistryType
    <3> QED
      BY <2>2, <3>1 DEF KeepsIdentities, Consistent, UniqueBindings, SameKey, CanRebind
  <2>3. ASSUME NEW b \in r.bindings, s = RemoveBindings(r, {b})
        PROVE  KeepsIdentities(r, s)
    BY <1>1, <2>3, ReleaseType, ReleaseKeepsRest DEF RemoveBindings, RegistryType
  <2> QED
    BY <1>4, <2>1, <2>2, <2>3 DEF EditBindings
<1>5. CASE EditRepresentations(r, s)
  BY <1>1, <1>5 DEF EditRepresentations, Represent, Unrepresent, RegistryType
<1>6. CASE EditAdoptions(r, s)
  <2>1. CASE \E I : s = Release(r, I)
    BY <1>1, <2>1, ReleaseKeepsRest
  <2>2. CASE ~\E I : s = Release(r, I)
    BY <1>1, <1>6, <2>2 DEF EditAdoptions, Consent, Revert, JoinAdoption, OpenAdoption, RegistryType
  <2> QED
    BY <2>1, <2>2
<1> QED
  BY <1>2, <1>3, <1>4, <1>5, <1>6 DEF Edit

\* Enrichment changes what bindings point at, never who they are.
LEMMA EnrichKeepsIdentities ==
  ASSUME NEW r \in RegistryType, UniqueBindings(r),
         NEW entry \in [EntityId -> RegistryId \cup {Unregistered}]
  PROVE  KeepsIdentities(r, Enrich(r, entry))
<1> SUFFICES ASSUME NEW b \in r.bindings, NEW c \in Enrich(r, entry).bindings
             PROVE  SameKey(b, c) <=> b.id = c.id
  BY DEF KeepsIdentities
<1>1. \E d \in r.bindings :
        /\ c.id = d.id
        /\ c.asset = d.asset
        /\ c.capability = d.capability
        /\ c.role = d.role
  BY DEF Enrich, RegistryType, Binding
<1> QED
  BY <1>1 DEF UniqueBindings, SameKey

\* A bound key keeps its binding id through replacement, renaming and reload, and no id
\* moves to another key (registry.py, set_binding).
THEOREM IdentitiesStay == Spec => BindingIdentityKept
<1>1. IInv /\ [Next]_vars => [KeepsIdentities(registry, registry')]_vars
  <2> SUFFICES ASSUME IInv, Next
               PROVE  KeepsIdentities(registry, registry')
    BY DEF vars
  <2>1. CASE registry' = registry
    BY <2>1, SubsetKeepsIdentities DEF IInv, Consistent
  <2>2. CASE Edit(registry, registry')
    BY <2>2, EditKeepsIdentities DEF IInv, TypeOK
  <2>3. CASE Load
    BY <2>3, EnrichKeepsIdentities DEF Load, IInv, TypeOK, Consistent
  <2> QED
    BY <2>1, <2>2, <2>3 DEF Next, Call, Apply, Succeed, Fail, Crash
<1> QED
  BY <1>1, Consistency, PTL DEF Spec, BindingIdentityKept, KeepsIdentities
=============================================================================
