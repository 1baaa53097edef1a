--------------------------- MODULE RegistryProofs ---------------------------
(***************************************************************************)
(* Every accepted command takes a consistent registry to a consistent one. *)
(* One lemma per command and collection it can disturb; the modules that   *)
(* prove properties of a system of registries cite EditKeepsConsistency    *)
(* and EnrichKeepsConsistency only.                                        *)
(***************************************************************************)
EXTENDS Registry, TLAPS

-----------------------------------------------------------------------------
(***************************************************************************)
(* Types.                                                                  *)
(***************************************************************************)

\* Release keeps the shape of a registry.
LEMMA ReleaseType ==
  ASSUME NEW r \in RegistryType, NEW I
  PROVE  Release(r, I) \in RegistryType
<1>1. \A y \in r.adoptions : [y EXCEPT !.owners = @ \ I] \in Adoption
  BY DEF RegistryType, Adoption
<1> QED
  BY <1>1 DEF Release, RegistryType

\* So does enrichment.
LEMMA EnrichType ==
  ASSUME NEW r \in RegistryType,
         NEW entry \in [EntityId -> RegistryId \cup {Unregistered}]
  PROVE  Enrich(r, entry) \in RegistryType
<1>1. \A b \in r.bindings :
        (IF b.registry = Unregistered THEN [b EXCEPT !.registry = entry[b.entity]] ELSE b)
          \in Binding
  BY DEF RegistryType, Binding
<1> QED
  BY <1>1 DEF Enrich, RegistryType

\* So does every command.
LEMMA EditType ==
  ASSUME NEW r \in RegistryType, NEW s, Edit(r, s)
  PROVE  s \in RegistryType
<1>1. CASE EditAssets(r, s)
  <2>1. ASSUME NEW S \in AssetBatch, s = AddAssets(r, S)
        PROVE  s \in RegistryType
    BY <2>1, BatchAssumption DEF AddAssets, RegistryType
  <2>2. ASSUME NEW old \in r.assets, NEW new \in Asset, s = UpdateAsset(r, old, new)
        PROVE  s \in RegistryType
    BY <2>2 DEF UpdateAsset, RegistryType
  <2>3. ASSUME NEW a \in r.assets, s = DeleteAsset(r, a)
        PROVE  s \in RegistryType
    BY <2>3 DEF DeleteAsset, RegistryType
  <2>4. ASSUME NEW a \in r.assets, NEW e, s = DeleteWithDependencies(r, a, e)
        PROVE  s \in RegistryType
    BY <2>4, ReleaseType DEF DeleteWithDependencies, RemoveBindings, RegistryType
  <2> QED
    BY <1>1, <2>1, <2>2, <2>3, <2>4 DEF EditAssets
<1>2. CASE EditRelations(r, s)
  BY <1>2 DEF EditRelations, AddRelation, RemoveRelation, RegistryType
<1>3. CASE EditBindings(r, s)
  <2>1. ASSUME NEW b \in Binding, s = Bind(r, b)
        PROVE  s \in RegistryType
    BY <2>1 DEF Bind, RegistryType
  <2>2. ASSUME NEW old \in r.bindings, NEW new \in Binding, s = Rebind(r, old, new)
        PROVE  s \in RegistryType
    BY <2>2, ReleaseType DEF Rebind, RegistryType
  <2>3. ASSUME NEW b \in r.bindings, s = RemoveBindings(r, {b})
        PROVE  s \in RegistryType
    BY <2>3, ReleaseType DEF RemoveBindings, RegistryType
  <2> QED
    BY <1>3, <2>1, <2>2, <2>3 DEF EditBindings
<1>4. CASE EditRepresentations(r, s)
  BY <1>4 DEF EditRepresentations, Represent, Unrepresent, RegistryType, Asset
<1>5. CASE EditAdoptions(r, s)
  <2>1. ASSUME NEW b \in r.bindings, NEW x \in r.adoptions, s = JoinAdoption(r, x, b)
        PROVE  s \in RegistryType
    BY <2>1 DEF JoinAdoption, RegistryType, Adoption, Binding
  <2>2. ASSUME NEW b \in r.bindings, NEW hider \in Hider, CanOpenAdoption(r, b),
               s = OpenAdoption(r, b, hider)
        PROVE  s \in RegistryType
    <3>1. (hider = "none") \in BOOLEAN
      OBVIOUS
    <3>2. b.registry \in RegistryId /\ b.id \in BindingId
      BY <2>2 DEF CanOpenAdoption, RegistryType, Binding
    <3>3. NewAdoption(b, hider) \in Adoption
      BY <3>1, <3>2 DEF NewAdoption, Adoption
    <3> QED
      BY <2>2, <3>3 DEF OpenAdoption, RegistryType
  <2> QED
    BY <1>5, <2>1, <2>2, ReleaseType DEF EditAdoptions, Consent, Revert
<1> QED
  BY <1>1, <1>2, <1>3, <1>4, <1>5 DEF Edit

-----------------------------------------------------------------------------
(***************************************************************************)
(* Ownership of hidden entities: the bindings in I stop owning, every      *)
(* other binding keeps its id and its target.                              *)
(***************************************************************************)

\* Release touches adoption records only.
LEMMA ReleaseKeepsRest ==
  ASSUME NEW r \in RegistryType, NEW I
  PROVE  /\ Release(r, I).assets = r.assets
         /\ Release(r, I).relations = r.relations
         /\ Release(r, I).bindings = r.bindings
         /\ Release(r, I).representations = r.representations
BY DEF Release, RegistryType

\* After a release the remaining owners are bindings that were not released.
LEMMA ReleaseOwnership ==
  ASSUME NEW r \in RegistryType, UniqueAdoptions(r), AdoptionsOwned(r),
         NEW I, NEW s, s.adoptions = Release(r, I).adoptions,
         \A b \in r.bindings : b.id \notin I =>
           \E c \in s.bindings : c.id = b.id /\ c.registry = b.registry
  PROVE  UniqueAdoptions(s) /\ AdoptionsOwned(s)
<1>1. \A x \in s.adoptions : \E y \in r.adoptions :
        x = [y EXCEPT !.owners = @ \ I] /\ x.owners # {}
  BY DEF Release, RegistryType
<1>2. \A x \in s.adoptions : \E y \in r.adoptions :
        /\ x = [y EXCEPT !.owners = @ \ I]
        /\ x.registry = y.registry
        /\ x.owners = y.owners \ I
        /\ x.owners # {}
  BY <1>1 DEF RegistryType, Adoption
<1>3. UniqueAdoptions(s)
  <2> SUFFICES ASSUME NEW x1 \in s.adoptions, NEW x2 \in s.adoptions,
                      x1.registry = x2.registry
               PROVE  x1 = x2
    BY DEF UniqueAdoptions
  <2>1. PICK y1 \in r.adoptions : x1 = [y1 EXCEPT !.owners = @ \ I] /\ x1.registry = y1.registry
    BY <1>2
  <2>2. PICK y2 \in r.adoptions : x2 = [y2 EXCEPT !.owners = @ \ I] /\ x2.registry = y2.registry
    BY <1>2
  <2>3. y1 = y2
    BY <2>1, <2>2 DEF UniqueAdoptions
  <2> QED
    BY <2>1, <2>2, <2>3
<1>4. AdoptionsOwned(s)
  BY <1>2 DEF AdoptionsOwned
<1> QED
  BY <1>3, <1>4

-----------------------------------------------------------------------------
(***************************************************************************)
(* Commands on assets.                                                     *)
(***************************************************************************)

\* Adding a checked batch keeps a registry consistent.
LEMMA AddAssetsConsistent ==
  ASSUME NEW r \in RegistryType, Consistent(r), NEW S \in AssetBatch,
         CanAddAssets(r, S), NEW s, s = AddAssets(r, S)
  PROVE  Consistent(s)
<1>1. /\ s.assets = r.assets \cup S
      /\ s.relations = r.relations
      /\ s.bindings = r.bindings
      /\ s.representations = r.representations
      /\ s.adoptions = r.adoptions
  BY DEF AddAssets, RegistryType
<1>2. UniqueAssets(s)
  BY <1>1 DEF Consistent, UniqueAssets, CanAddAssets, Clash
<1>3. BindingsUseCapabilities(s)
  BY <1>1 DEF Consistent, BindingsUseCapabilities, Bindable
<1> QED
  BY <1>1, <1>2, <1>3 DEF Consistent, UniqueRelations, RelationsConnectAssets,
    UniqueBindings, RepresentationsBacked, UniqueAdoptions, AdoptionsOwned

\* So does updating an asset; ids are unique, so the references meet the new record.
LEMMA UpdateAssetConsistent ==
  ASSUME NEW r \in RegistryType, Consistent(r), NEW old \in r.assets, NEW new \in Asset,
         CanUpdateAsset(r, old, new), NEW s, s = UpdateAsset(r, old, new)
  PROVE  Consistent(s)
<1>1. /\ s.assets = (r.assets \ {old}) \cup {new}
      /\ s.relations = r.relations
      /\ s.bindings = r.bindings
      /\ s.representations = r.representations
      /\ s.adoptions = r.adoptions
  BY DEF UpdateAsset, RegistryType
<1>2. \A a \in r.assets : a.id = old.id => a = old
  BY DEF Consistent, UniqueAssets, Clash
<1>3. UniqueAssets(s)
  BY <1>1, <1>2 DEF Consistent, UniqueAssets, CanUpdateAsset, Clash
<1>4. RelationsConnectAssets(s)
  BY <1>1 DEF Consistent, RelationsConnectAssets, CanUpdateAsset
<1>5. BindingsUseCapabilities(s)
  BY <1>1, <1>2 DEF Consistent, BindingsUseCapabilities, Bindable, CanUpdateAsset
<1>6. RepresentationsBacked(s)
  BY <1>1, <1>2 DEF Consistent, RepresentationsBacked, CanUpdateAsset
<1> QED
  BY <1>1, <1>3, <1>4, <1>5, <1>6 DEF Consistent, UniqueRelations,
    UniqueBindings, UniqueAdoptions, AdoptionsOwned

\* So does deleting an asset that nothing refers to.
LEMMA DeleteAssetConsistent ==
  ASSUME NEW r \in RegistryType, Consistent(r), NEW a \in r.assets,
         CanDeleteAsset(r, a), NEW s, s = DeleteAsset(r, a)
  PROVE  Consistent(s)
<1>1. /\ s.assets = r.assets \ {a}
      /\ s.relations = r.relations
      /\ s.bindings = r.bindings
      /\ s.representations = r.representations
      /\ s.adoptions = r.adoptions
  BY DEF DeleteAsset, RegistryType
<1>2. RelationsConnectAssets(s)
  BY <1>1 DEF Consistent, RelationsConnectAssets, CanDeleteAsset, Touches
<1>3. BindingsUseCapabilities(s)
  BY <1>1 DEF Consistent, BindingsUseCapabilities, Bindable, CanDeleteAsset
<1>4. RepresentationsBacked(s)
  BY <1>1 DEF Consistent, RepresentationsBacked, CanDeleteAsset
<1> QED
  BY <1>1, <1>2, <1>3, <1>4 DEF Consistent, UniqueAssets, UniqueRelations,
    UniqueBindings, UniqueAdoptions, AdoptionsOwned

\* So does deleting an asset with all that refers to it.
LEMMA DeleteWithDependenciesConsistent ==
  ASSUME NEW r \in RegistryType, Consistent(r), NEW a \in r.assets, NEW e,
         NEW s, s = DeleteWithDependencies(r, a, e)
  PROVE  Consistent(s)
<1> DEFINE B == {b \in r.bindings : b.asset = a.id} \cup Dependents(r, a.id, e)
           I == {b.id : b \in B}
<1>1. /\ s.assets = r.assets \ {a}
      /\ s.relations = {l \in r.relations : ~Touches(l, a.id)}
      /\ s.bindings = r.bindings \ B
      /\ s.representations = r.representations \ {a.id}
      /\ s.adoptions = Release(r, I).adoptions
  BY ReleaseType, ReleaseKeepsRest DEF DeleteWithDependencies, RemoveBindings, RegistryType
<1>2. RelationsConnectAssets(s)
  BY <1>1 DEF Consistent, RelationsConnectAssets, Touches
<1>3. BindingsUseCapabilities(s)
  BY <1>1 DEF Consistent, BindingsUseCapabilities, Bindable
<1>4. RepresentationsBacked(s)
  BY <1>1 DEF Consistent, RepresentationsBacked
<1>5. \A b \in r.bindings : b.id \notin I => b \in s.bindings
  BY <1>1
<1>6. UniqueAdoptions(s) /\ AdoptionsOwned(s)
  <2> HIDE DEF I
  <2> QED
    BY <1>1, <1>5, ReleaseOwnership DEF Consistent
<1> QED
  BY <1>1, <1>2, <1>3, <1>4, <1>6 DEF Consistent, UniqueAssets, UniqueRelations,
    UniqueBindings

-----------------------------------------------------------------------------
(***************************************************************************)
(* Commands on relations, bindings and representations.                    *)
(***************************************************************************)

\* So do the commands on relations.
LEMMA EditRelationsConsistent ==
  ASSUME NEW r \in RegistryType, Consistent(r), NEW s, EditRelations(r, s)
  PROVE  Consistent(s)
<1>1. /\ s.assets = r.assets
      /\ s.bindings = r.bindings
      /\ s.representations = r.representations
      /\ s.adoptions = r.adoptions
  BY DEF EditRelations, AddRelation, RemoveRelation, RegistryType
<1>2. \/ \E l \in Relation : CanAddRelation(r, l) /\ s.relations = r.relations \cup {l}
      \/ \E l \in r.relations : s.relations = r.relations \ {l}
  BY DEF EditRelations, AddRelation, RemoveRelation, RegistryType
<1>3. UniqueRelations(s)
  BY <1>2 DEF Consistent, UniqueRelations, CanAddRelation, SameRelation
<1>4. RelationsConnectAssets(s)
  BY <1>1, <1>2 DEF Consistent, RelationsConnectAssets, CanAddRelation
<1> QED
  BY <1>1, <1>3, <1>4 DEF Consistent, UniqueAssets, UniqueBindings,
    BindingsUseCapabilities, Bindable, RepresentationsBacked, UniqueAdoptions,
    AdoptionsOwned

\* So does binding a free key.
LEMMA BindConsistent ==
  ASSUME NEW r \in RegistryType, Consistent(r), NEW b \in Binding, CanBind(r, b),
         NEW s, s = Bind(r, b)
  PROVE  Consistent(s)
<1>1. /\ s.assets = r.assets
      /\ s.relations = r.relations
      /\ s.bindings = r.bindings \cup {b}
      /\ s.representations = r.representations
      /\ s.adoptions = r.adoptions
  BY DEF Bind, RegistryType
<1>2. UniqueBindings(s)
  BY <1>1 DEF Consistent, UniqueBindings, CanBind, SameKey
<1>3. BindingsUseCapabilities(s)
  BY <1>1 DEF Consistent, BindingsUseCapabilities, CanBind, Bindable
<1>4. AdoptionsOwned(s)
  BY <1>1 DEF Consistent, AdoptionsOwned
<1> QED
  BY <1>1, <1>2, <1>3, <1>4 DEF Consistent, UniqueAssets, UniqueRelations,
    RelationsConnectAssets, RepresentationsBacked, UniqueAdoptions

\* So does replacing a target: its old ownership is released with it.
LEMMA RebindConsistent ==
  ASSUME NEW r \in RegistryType, Consistent(r), NEW old \in r.bindings, NEW new \in Binding,
         CanRebind(r, old, new), NEW s, s = Rebind(r, old, new)
  PROVE  Consistent(s)
<1>1. /\ s.assets = r.assets
      /\ s.relations = r.relations
      /\ s.bindings = (r.bindings \ {old}) \cup {new}
      /\ s.representations = r.representations
  BY ReleaseType, ReleaseKeepsRest DEF Rebind, RegistryType
<1>2. UniqueBindings(s)
  BY <1>1 DEF Consistent, UniqueBindings, CanRebind, SameKey
<1>3. BindingsUseCapabilities(s)
  BY <1>1 DEF Consistent, BindingsUseCapabilities, CanRebind, Bindable
<1>4. UniqueAdoptions(s) /\ AdoptionsOwned(s)
  <2>1. CASE SameTarget(old, new)
    <3>1. s.adoptions = r.adoptions
      BY <2>1 DEF Rebind, RegistryType
    <3> QED
      BY <1>1, <2>1, <3>1 DEF Consistent, UniqueAdoptions, AdoptionsOwned, SameTarget, CanRebind
  <2>2. CASE ~SameTarget(old, new)
    <3>1. s.adoptions = Release(r, {old.id}).adoptions
      BY <2>2, ReleaseType DEF Rebind, RegistryType
    <3>2. \A b \in r.bindings : b.id \notin {old.id} => b \in s.bindings
      BY <1>1
    <3> QED
      BY <3>1, <3>2, ReleaseOwnership DEF Consistent
  <2> QED
    BY <2>1, <2>2
<1> QED
  BY <1>1, <1>2, <1>3, <1>4 DEF Consistent, UniqueAssets, UniqueRelations,
    RelationsConnectAssets, RepresentationsBacked

\* So does removing a binding with its ownership.
LEMMA RemoveBindingConsistent ==
  ASSUME NEW r \in RegistryType, Consistent(r), NEW b \in r.bindings,
         NEW s, s = RemoveBindings(r, {b})
  PROVE  Consistent(s)
<1>1. /\ s.assets = r.assets
      /\ s.relations = r.relations
      /\ s.bindings = r.bindings \ {b}
      /\ s.representations = r.representations
      /\ s.adoptions = Release(r, {c.id : c \in {b}}).adoptions
  BY ReleaseType, ReleaseKeepsRest DEF RemoveBindings, RegistryType
<1>2. \A c \in r.bindings : c.id \notin {d.id : d \in {b}} => c \in s.bindings
  BY <1>1
<1>3. UniqueAdoptions(s) /\ AdoptionsOwned(s)
  BY <1>1, <1>2, ReleaseOwnership DEF Consistent
<1> QED
  BY <1>1, <1>3 DEF Consistent, UniqueAssets, UniqueRelations, RelationsConnectAssets,
    UniqueBindings, BindingsUseCapabilities, Bindable, RepresentationsBacked

\* So do the commands on representations.
LEMMA EditRepresentationsConsistent ==
  ASSUME NEW r \in RegistryType, Consistent(r), NEW s, EditRepresentations(r, s)
  PROVE  Consistent(s)
<1>1. /\ s.assets = r.assets
      /\ s.relations = r.relations
      /\ s.bindings = r.bindings
      /\ s.adoptions = r.adoptions
  BY DEF EditRepresentations, Represent, Unrepresent, RegistryType
<1>2. \A i \in s.representations :
        i \in r.representations \/ \E a \in r.assets : a.id = i /\ CanRepresent(r, a)
  BY DEF EditRepresentations, Represent, Unrepresent, RegistryType
<1>3. RepresentationsBacked(s)
  BY <1>1, <1>2 DEF Consistent, RepresentationsBacked, CanRepresent
<1> QED
  BY <1>1, <1>3 DEF Consistent, UniqueAssets, UniqueRelations, RelationsConnectAssets,
    UniqueBindings, BindingsUseCapabilities, Bindable, UniqueAdoptions, AdoptionsOwned

-----------------------------------------------------------------------------
(***************************************************************************)
(* Commands on adoptions.                                                  *)
(***************************************************************************)

\* So do consent and reversal.
LEMMA EditAdoptionsConsistent ==
  ASSUME NEW r \in RegistryType, Consistent(r), NEW s, EditAdoptions(r, s)
  PROVE  Consistent(s)
<1>1. /\ s.assets = r.assets
      /\ s.relations = r.relations
      /\ s.bindings = r.bindings
      /\ s.representations = r.representations
  <2>1. CASE \E I : s = Release(r, I)
    BY <2>1, ReleaseKeepsRest
  <2>2. CASE ~\E I : s = Release(r, I)
    BY <2>2 DEF EditAdoptions, Consent, Revert, JoinAdoption, OpenAdoption, RegistryType
  <2> QED
    BY <2>1, <2>2
<1>2. ASSUME NEW I, s = Release(r, I)
      PROVE  UniqueAdoptions(s) /\ AdoptionsOwned(s)
  BY <1>1, <1>2, ReleaseOwnership DEF Consistent
<1>3. ASSUME NEW b \in r.bindings, NEW x \in r.adoptions,
             x.registry = b.registry, s = JoinAdoption(r, x, b)
      PROVE  UniqueAdoptions(s) /\ AdoptionsOwned(s)
  <2> DEFINE y == [x EXCEPT !.owners = @ \cup {b.id}]
  <2>1. y.registry = x.registry /\ y.owners = x.owners \cup {b.id}
    BY DEF RegistryType, Adoption
  <2>2. s.adoptions = (r.adoptions \ {x}) \cup {y}
    BY <1>3 DEF JoinAdoption, RegistryType
  <2> HIDE DEF y
  <2> QED
    BY <1>1, <1>3, <2>1, <2>2 DEF Consistent, UniqueAdoptions, AdoptionsOwned
<1>4. ASSUME NEW b \in r.bindings, NEW hider \in Hider, CanOpenAdoption(r, b),
             s = OpenAdoption(r, b, hider)
      PROVE  UniqueAdoptions(s) /\ AdoptionsOwned(s)
  <2> DEFINE y == NewAdoption(b, hider)
  <2>1. y.registry = b.registry /\ y.owners = {b.id}
    BY DEF NewAdoption
  <2>2. s.adoptions = r.adoptions \cup {y}
    BY <1>4 DEF OpenAdoption, RegistryType
  <2> HIDE DEF y
  <2> QED
    BY <1>1, <1>4, <2>1, <2>2 DEF Consistent, UniqueAdoptions, AdoptionsOwned, CanOpenAdoption
<1>5. UniqueAdoptions(s) /\ AdoptionsOwned(s)
  BY <1>2, <1>3, <1>4 DEF EditAdoptions, Consent, Revert
<1> QED
  BY <1>1, <1>5 DEF Consistent, UniqueAssets, UniqueRelations, RelationsConnectAssets,
    UniqueBindings, BindingsUseCapabilities, Bindable, RepresentationsBacked

-----------------------------------------------------------------------------
(***************************************************************************)
(* The two results the other modules cite.                                 *)
(***************************************************************************)

\* Whatever command a consistent registry accepts (registry.py and the compound
\* transactions of deletion.py and adoption.py), the registry it yields is consistent.
THEOREM EditKeepsConsistency ==
  ASSUME NEW r \in RegistryType, Consistent(r), NEW s, Edit(r, s)
  PROVE  s \in RegistryType /\ Consistent(s)
<1> SUFFICES Consistent(s)
  BY EditType
<1>1. CASE EditAssets(r, s)
  BY <1>1, AddAssetsConsistent, UpdateAssetConsistent, DeleteAssetConsistent,
     DeleteWithDependenciesConsistent DEF EditAssets
<1>2. CASE EditRelations(r, s)
  BY <1>2, EditRelationsConsistent
<1>3. CASE EditBindings(r, s)
  BY <1>3, BindConsistent, RebindConsistent, RemoveBindingConsistent DEF EditBindings
<1>4. CASE EditRepresentations(r, s)
  BY <1>4, EditRepresentationsConsistent
<1>5. CASE EditAdoptions(r, s)
  BY <1>5, EditAdoptionsConsistent
<1> QED
  BY <1>1, <1>2, <1>3, <1>4, <1>5 DEF Edit

\* Loading a consistent registry and giving its fallback targets the identity their
\* names have by then (binding_identity.py) leaves it consistent: an owned entity has a
\* stable identity already, so no owner's target moves.
THEOREM EnrichKeepsConsistency ==
  ASSUME NEW r \in RegistryType, Consistent(r),
         NEW entry \in [EntityId -> RegistryId \cup {Unregistered}]
  PROVE  Enrich(r, entry) \in RegistryType /\ Consistent(Enrich(r, entry))
<1> DEFINE s == Enrich(r, entry)
           e(b) == IF b.registry = Unregistered THEN [b EXCEPT !.registry = entry[b.entity]] ELSE b
<1>1. /\ s.assets = r.assets
      /\ s.relations = r.relations
      /\ s.bindings = {e(b) : b \in r.bindings}
      /\ s.representations = r.representations
      /\ s.adoptions = r.adoptions
  BY DEF Enrich, RegistryType
<1>2. \A b \in r.bindings :
        /\ e(b).id = b.id
        /\ e(b).asset = b.asset
        /\ e(b).capability = b.capability
        /\ e(b).role = b.role
        /\ b.registry # Unregistered => e(b).registry = b.registry
  BY DEF RegistryType, Binding
<1> HIDE DEF s, e
<1>3. UniqueBindings(s)
  BY <1>1, <1>2 DEF Consistent, UniqueBindings, SameKey
<1>4. BindingsUseCapabilities(s)
  BY <1>1, <1>2 DEF Consistent, BindingsUseCapabilities, Bindable
<1>5. \A x \in r.adoptions : x.registry # Unregistered
  BY SentinelAssumption DEF RegistryType, Adoption
<1>6. AdoptionsOwned(s)
  BY <1>1, <1>2, <1>5 DEF Consistent, AdoptionsOwned
<1>7. Consistent(s)
  BY <1>1, <1>3, <1>4, <1>6 DEF Consistent, UniqueAssets, UniqueRelations,
    RelationsConnectAssets, RepresentationsBacked, UniqueAdoptions
<1> QED
  BY <1>7, EnrichType DEF s
-----------------------------------------------------------------------------
(***************************************************************************)
(* Where the adoption records of an edited registry come from.             *)
(***************************************************************************)

SameSnapshot(x, y) ==
  x.registry = y.registry /\ x.previous = y.previous /\ x.changed = y.changed

\* Every record of s has the snapshot of a record of r.
Inherits(r, s) == \A y \in s.adoptions : \E x \in r.adoptions : SameSnapshot(x, y)

\* Adoption records of r survive in s with their snapshot or not at all.
KeepsSnapshots(r, s) ==
  \A x \in r.adoptions, y \in s.adoptions :
    x.registry = y.registry => x.previous = y.previous /\ x.changed = y.changed

\* Releasing owners opens no record and rewrites no snapshot.
LEMMA ReleaseInherits ==
  ASSUME NEW r \in RegistryType, NEW I, NEW s, s.adoptions = Release(r, I).adoptions
  PROVE  Inherits(r, s)
BY DEF Release, RegistryType, Adoption, Inherits, SameSnapshot

\* Without consent no record is opened and no snapshot rewritten.
LEMMA EditInherits ==
  ASSUME NEW r \in RegistryType, NEW s,
         \/ EditAssets(r, s)
         \/ EditRelations(r, s)
         \/ EditBindings(r, s)
         \/ EditRepresentations(r, s)
         \/ Revert(r, s)
  PROVE  Inherits(r, s)
<1>1. CASE s.adoptions = r.adoptions
  BY <1>1 DEF Inherits, SameSnapshot
<1>2. CASE \E I : s.adoptions = Release(r, I).adoptions
  BY <1>2, ReleaseInherits
<1>3. CASE EditAssets(r, s)
  <2>1. ASSUME NEW a \in r.assets, NEW e, s = DeleteWithDependencies(r, a, e)
        PROVE  \E I : s.adoptions = Release(r, I).adoptions
    BY <2>1, ReleaseType DEF DeleteWithDependencies, RemoveBindings, RegistryType
  <2>2. CASE \E a \in r.assets, e \in EntityId \cup {Unregistered} :
               s = DeleteWithDependencies(r, a, e)
    BY <1>2, <2>1, <2>2
  <2>3. CASE ~\E a \in r.assets, e \in EntityId \cup {Unregistered} :
               s = DeleteWithDependencies(r, a, e)
    BY <1>1, <1>3, <2>3 DEF EditAssets, AddAssets, UpdateAsset, DeleteAsset, RegistryType
  <2> QED
    BY <2>2, <2>3
<1>4. CASE EditRelations(r, s)
  BY <1>1, <1>4 DEF EditRelations, AddRelation, RemoveRelation, RegistryType
<1>5. CASE EditBindings(r, s)
  <2>1. ASSUME NEW b \in Binding, s = Bind(r, b)
        PROVE  Inherits(r, s)
    BY <1>1, <2>1 DEF Bind, RegistryType
  <2>2. ASSUME NEW old \in r.bindings, NEW new \in Binding, s = Rebind(r, old, new)
        PROVE  Inherits(r, s)
    BY <1>1, <1>2, <2>2, ReleaseType DEF Rebind, RegistryType
  <2>3. ASSUME NEW b \in r.bindings, s = RemoveBindings(r, {b})
        PROVE  Inherits(r, s)
    BY <1>2, <2>3, ReleaseType DEF RemoveBindings, RegistryType
  <2> QED
    BY <1>5, <2>1, <2>2, <2>3 DEF EditBindings
<1>6. CASE EditRepresentations(r, s)
  BY <1>1, <1>6 DEF EditRepresentations, Represent, Unrepresent, RegistryType
<1>7. CASE Revert(r, s)
  BY <1>2, <1>7 DEF Revert
<1> QED
  BY <1>3, <1>4, <1>5, <1>6, <1>7

\* Consent opens at most the record of the entity it is about, if there was none.
LEMMA ConsentOpens ==
  ASSUME NEW r \in RegistryType, NEW s, NEW b \in r.bindings, NEW h \in Hider,
         Consent(r, s, b, h)
  PROVE  \/ Inherits(r, s)
         \/ CanOpenAdoption(r, b) /\ s.adoptions = r.adoptions \cup {NewAdoption(b, h)}
<1>1. ASSUME NEW x \in r.adoptions, s = JoinAdoption(r, x, b)
      PROVE  Inherits(r, s)
  <2> DEFINE y == [x EXCEPT !.owners = @ \cup {b.id}]
  <2>1. SameSnapshot(x, y)
    BY DEF RegistryType, Adoption, SameSnapshot
  <2>2. s.adoptions = (r.adoptions \ {x}) \cup {y}
    BY <1>1 DEF JoinAdoption, RegistryType
  <2>3. \A z : SameSnapshot(z, z)
    BY DEF SameSnapshot
  <2> HIDE DEF y
  <2> QED
    BY <2>1, <2>2, <2>3 DEF Inherits
<1>2. CASE CanOpenAdoption(r, b) /\ s = OpenAdoption(r, b, h)
  BY <1>2 DEF OpenAdoption, RegistryType
<1> QED
  BY <1>1, <1>2 DEF Consent

\* A command never rewrites the snapshot of an entity that stays adopted.
LEMMA EditKeepsSnapshots ==
  ASSUME NEW r \in RegistryType, Consistent(r), NEW s, Edit(r, s)
  PROVE  KeepsSnapshots(r, s)
<1>1. CASE Inherits(r, s)
  BY <1>1 DEF Inherits, SameSnapshot, KeepsSnapshots, Consistent, UniqueAdoptions
<1>2. ASSUME NEW b \in r.bindings, NEW h \in Hider, CanOpenAdoption(r, b),
             s.adoptions = r.adoptions \cup {NewAdoption(b, h)}
      PROVE  KeepsSnapshots(r, s)
  <2>1. NewAdoption(b, h).registry = b.registry
    BY DEF NewAdoption
  <2> HIDE DEF NewAdoption
  <2> QED
    BY <1>2, <2>1 DEF CanOpenAdoption, KeepsSnapshots, Consistent, UniqueAdoptions
<1> QED
  BY <1>1, <1>2, EditInherits, ConsentOpens DEF Edit, EditAdoptions
=============================================================================
