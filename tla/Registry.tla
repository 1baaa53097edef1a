------------------------------ MODULE Registry ------------------------------
(***************************************************************************)
(* The BindHome registry as a value and the commands that turn one         *)
(* registry into the next: class BindHomeRegistry and the compound         *)
(* transactions its callers stage on a copy of it.  A registry is a record *)
(* of five collections.  The dictionaries of the code are sets of records  *)
(* here, so that everything the code enforces by hand (one record per id,  *)
(* one binding per key, one asset per code) is a property and not a        *)
(* consequence of the representation.                                      *)
(*                                                                         *)
(* For each command, CanX is what the code checks before it changes        *)
(* anything (its raise statements negated) and X the registry it leaves.   *)
(* Edit relates a registry to those that one accepted command yields.      *)
(***************************************************************************)

CONSTANTS
  AssetId,             \* uuids of assets
  Code,                \* human inventory codes
  NoCode,              \* an asset without a code
  Capability,          \* capability identifiers
  RequiredCapability,  \* what the light representation's contract requires
  AssetBatch,          \* the batches of new assets that callers submit
  RelationId,          \* uuids of relations
  RelationType,        \* relation type identifiers
  BindingId,           \* uuids of bindings
  Role,                \* binding roles
  EntityId,            \* Home Assistant entity ids: names, reusable
  RegistryId,          \* Entity Registry entry ids: stable, never reused
  Unregistered         \* the target has no Entity Registry entry

Hider == {"none", "integration", "user"}

Asset == [id : AssetId, code : Code \cup {NoCode}, capabilities : SUBSET Capability]
Relation == [id : RelationId, source : AssetId, type : RelationType, target : AssetId]
Binding == [id : BindingId, asset : AssetId, capability : Capability, role : Role,
            entity : EntityId, registry : RegistryId \cup {Unregistered}]
Adoption == [registry : RegistryId, previous : Hider, changed : BOOLEAN,
             owners : SUBSET BindingId]

ASSUME BatchAssumption == AssetBatch \subseteq SUBSET Asset
ASSUME ContractAssumption == RequiredCapability \subseteq Capability
ASSUME SentinelAssumption == NoCode \notin Code /\ Unregistered \notin RegistryId

RegistryType == [assets : SUBSET Asset, relations : SUBSET Relation,
                 bindings : SUBSET Binding, representations : SUBSET AssetId,
                 adoptions : SUBSET Adoption]

EmptyRegistry == [assets |-> {}, relations |-> {}, bindings |-> {},
                  representations |-> {}, adoptions |-> {}]

-----------------------------------------------------------------------------
(***************************************************************************)
(* Assets.                                                                 *)
(***************************************************************************)

Clash(a, b) == a.id = b.id \/ (a.code # NoCode /\ a.code = b.code)

\* Mutant: the batch is compared with the registry only, not with itself.
CanAddAssetsUnchecked(r, S) == \A a \in S, b \in r.assets : ~Clash(a, b)

\* A batch is added one asset at a time, each checked against the ones before it.
CanAddAssets(r, S) ==
  /\ \A a \in S, b \in r.assets : ~Clash(a, b)
  /\ \A a, b \in S : a # b => ~Clash(a, b)

AddAssets(r, S) == [r EXCEPT !.assets = @ \cup S]

\* Mutant: capabilities are dropped without a look at the bindings that use them.
CanUpdateAssetUnchecked(r, old, new) ==
  /\ new.id = old.id
  /\ \A a \in r.assets : a.id # old.id /\ new.code # NoCode => a.code # new.code
  /\ old.id \in r.representations => RequiredCapability \subseteq new.capabilities

CanUpdateAsset(r, old, new) ==
  /\ new.id = old.id
  /\ \A a \in r.assets : a.id # old.id /\ new.code # NoCode => a.code # new.code
  /\ \A b \in r.bindings :
       b.asset = old.id => b.capability \notin old.capabilities \ new.capabilities
  /\ old.id \in r.representations /\ ~(old.capabilities \subseteq new.capabilities)
       => RequiredCapability \subseteq new.capabilities

UpdateAsset(r, old, new) == [r EXCEPT !.assets = (@ \ {old}) \cup {new}]

Touches(l, i) == l.source = i \/ l.target = i

CanDeleteAsset(r, a) ==
  /\ \A l \in r.relations : ~Touches(l, a.id)
  /\ \A b \in r.bindings : b.asset # a.id
  /\ a.id \notin r.representations

DeleteAsset(r, a) == [r EXCEPT !.assets = @ \ {a}]

-----------------------------------------------------------------------------
(***************************************************************************)
(* Relations.                                                              *)
(***************************************************************************)

SameRelation(k, l) == k.source = l.source /\ k.type = l.type /\ k.target = l.target

CanAddRelation(r, l) ==
  /\ l.source # l.target
  /\ \E a \in r.assets : a.id = l.source
  /\ \E a \in r.assets : a.id = l.target
  /\ \A k \in r.relations : k.id # l.id /\ ~SameRelation(k, l)

AddRelation(r, l) == [r EXCEPT !.relations = @ \cup {l}]
RemoveRelation(r, l) == [r EXCEPT !.relations = @ \ {l}]

-----------------------------------------------------------------------------
(***************************************************************************)
(* Bindings, and the visibility ownership that ends with them.             *)
(***************************************************************************)

\* The bindings in I stop owning the hidden entities; a record with no owner goes.
Release(r, I) ==
  [r EXCEPT !.adoptions =
     {x \in {[y EXCEPT !.owners = @ \ I] : y \in r.adoptions} : x.owners # {}}]

SameKey(b, c) == b.asset = c.asset /\ b.capability = c.capability /\ b.role = c.role

\* Stable identity decides; the name counts only when neither target has one.
SameTarget(b, c) ==
  /\ b.registry = c.registry
  /\ b.registry = Unregistered => b.entity = c.entity

Bindable(r, b) ==
  \E a \in r.assets : a.id = b.asset /\ b.capability \in a.capabilities

CanBind(r, b) == Bindable(r, b) /\ \A c \in r.bindings : c.id # b.id /\ ~SameKey(b, c)
Bind(r, b) == [r EXCEPT !.bindings = @ \cup {b}]

\* Mutant: replacing the target draws a new id.
CanRebindAnew(r, old, new) ==
  Bindable(r, new) /\ SameKey(old, new) /\ \A c \in r.bindings : c.id # new.id

\* set_binding on a key that is already bound: the record keeps its id.
CanRebind(r, old, new) == Bindable(r, new) /\ SameKey(old, new) /\ new.id = old.id

\* Mutant: the old target stays owned by the binding that left it.
RebindOnly(r, old, new) == [r EXCEPT !.bindings = (@ \ {old}) \cup {new}]

Rebind(r, old, new) ==
  LET s == IF SameTarget(old, new) THEN r ELSE Release(r, {old.id})
  IN  [s EXCEPT !.bindings = (@ \ {old}) \cup {new}]

RemoveBindings(r, B) ==
  [Release(r, {b.id : b \in B}) EXCEPT !.bindings = @ \ B]

\* A binding found by name only is tied to the entry that has the name at load.
Enrich(r, entry) ==
  [r EXCEPT !.bindings =
     {IF b.registry = Unregistered THEN [b EXCEPT !.registry = entry[b.entity]] ELSE b
        : b \in r.bindings}]

-----------------------------------------------------------------------------
(***************************************************************************)
(* Representations and hardware adoption.                                  *)
(***************************************************************************)

CanRepresent(r, a) == RequiredCapability \subseteq a.capabilities
Represent(r, a) == [r EXCEPT !.representations = @ \cup {a.id}]
Unrepresent(r, i) == [r EXCEPT !.representations = @ \ {i}]

\* Mutant: a later owner records the visibility it finds, hidden by the first one.
JoinAdoptionAnew(r, x, b) ==
  [r EXCEPT !.adoptions = (@ \ {x}) \cup
     {[x EXCEPT !.owners = @ \cup {b.id}, !.previous = "integration", !.changed = FALSE]}]

\* The first owner records what to restore; later owners join that record.
JoinAdoption(r, x, b) ==
  [r EXCEPT !.adoptions = (@ \ {x}) \cup {[x EXCEPT !.owners = @ \cup {b.id}]}]

NewAdoption(b, hider) ==
  [registry |-> b.registry, previous |-> hider, changed |-> hider = "none",
   owners |-> {b.id}]

CanOpenAdoption(r, b) ==
  b.registry # Unregistered /\ \A x \in r.adoptions : x.registry # b.registry

OpenAdoption(r, b, hider) == [r EXCEPT !.adoptions = @ \cup {NewAdoption(b, hider)}]

\* The bindings of other assets that point at e, the entity now standing for asset i
\* (Unregistered while its light has no entity).
Dependents(r, i, e) ==
  {b \in r.bindings : b.asset # i /\ i \in r.representations /\ b.entity = e}

DeleteWithDependencies(r, a, e) ==
  LET owned == {b \in r.bindings : b.asset = a.id}
      s     == RemoveBindings(r, owned \cup Dependents(r, a.id, e))
  IN  [s EXCEPT !.assets = @ \ {a},
                !.relations = {l \in @ : ~Touches(l, a.id)},
                !.representations = @ \ {a.id}]

-----------------------------------------------------------------------------
(***************************************************************************)
(* The commands.  Fresh uuids are any id not in use.                       *)
(***************************************************************************)

EditAssets(r, s) ==
  \/ \E S \in AssetBatch : CanAddAssets(r, S) /\ s = AddAssets(r, S)
  \/ \E old \in r.assets, new \in Asset :
       CanUpdateAsset(r, old, new) /\ s = UpdateAsset(r, old, new)
  \/ \E a \in r.assets : CanDeleteAsset(r, a) /\ s = DeleteAsset(r, a)
  \/ \E a \in r.assets, e \in EntityId \cup {Unregistered} :
       s = DeleteWithDependencies(r, a, e)

EditRelations(r, s) ==
  \/ \E l \in Relation : CanAddRelation(r, l) /\ s = AddRelation(r, l)
  \/ \E l \in r.relations : s = RemoveRelation(r, l)

EditBindings(r, s) ==
  \/ \E b \in Binding : CanBind(r, b) /\ s = Bind(r, b)
  \/ \E old \in r.bindings, new \in Binding :
       CanRebind(r, old, new) /\ s = Rebind(r, old, new)
  \/ \E b \in r.bindings : s = RemoveBindings(r, {b})

EditRepresentations(r, s) ==
  \/ \E a \in r.assets : CanRepresent(r, a) /\ s = Represent(r, a)
  \/ \E i \in r.representations : s = Unrepresent(r, i)

\* Consent to hide b's target, which now has visibility h.
Consent(r, s, b, h) ==
  \/ \E x \in r.adoptions : x.registry = b.registry /\ s = JoinAdoption(r, x, b)
  \/ CanOpenAdoption(r, b) /\ s = OpenAdoption(r, b, h)

Revert(r, s) ==
  \/ \E b \in r.bindings, x \in r.adoptions :
       b.id \in x.owners /\ s = Release(r, {b.id})
  \/ \E a \in r.assets : s = Release(r, {b.id : b \in {c \in r.bindings : c.asset = a.id}})
  \/ r.adoptions # {} /\ s = Release(r, BindingId)  \* with none left, nothing changes

EditAdoptions(r, s) ==
  \/ \E b \in r.bindings, h \in Hider : Consent(r, s, b, h)
  \/ Revert(r, s)

Edit(r, s) ==
  \/ EditAssets(r, s)
  \/ EditRelations(r, s)
  \/ EditBindings(r, s)
  \/ EditRepresentations(r, s)
  \/ EditAdoptions(r, s)

-----------------------------------------------------------------------------
(***************************************************************************)
(* What makes a registry one that from_dict accepts again unchanged.       *)
(***************************************************************************)

UniqueAssets(r) == \A a, b \in r.assets : a # b => ~Clash(a, b)

UniqueRelations(r) ==
  \A k, l \in r.relations : k # l => k.id # l.id /\ ~SameRelation(k, l)

RelationsConnectAssets(r) ==
  \A l \in r.relations :
    /\ l.source # l.target
    /\ \E a \in r.assets : a.id = l.source
    /\ \E a \in r.assets : a.id = l.target

UniqueBindings(r) == \A b, c \in r.bindings : b # c => b.id # c.id /\ ~SameKey(b, c)

BindingsUseCapabilities(r) == \A b \in r.bindings : Bindable(r, b)

RepresentationsBacked(r) ==
  \A i \in r.representations :
    \E a \in r.assets : a.id = i /\ RequiredCapability \subseteq a.capabilities

UniqueAdoptions(r) == \A x, y \in r.adoptions : x # y => x.registry # y.registry

AdoptionsOwned(r) ==
  \A x \in r.adoptions :
    /\ x.owners # {}
    /\ \A i \in x.owners : \E b \in r.bindings : b.id = i /\ b.registry = x.registry

Consistent(r) ==
  /\ UniqueAssets(r)
  /\ UniqueRelations(r)
  /\ RelationsConnectAssets(r)
  /\ UniqueBindings(r)
  /\ BindingsUseCapabilities(r)
  /\ RepresentationsBacked(r)
  /\ UniqueAdoptions(r)
  /\ AdoptionsOwned(r)
=============================================================================
