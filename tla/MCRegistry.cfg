SPECIFICATION Spec
SYMMETRY Symmetry
CONSTANTS
  a1 = a1
  a2 = a2
  b1 = b1
  b2 = b2
  r1 = r1
  r2 = r2
  AssetId = {a1, a2}
  Code = {"c1"}
  NoCode = NoCode
  Capability = {"on_off", "dimming"}
  RequiredCapability = {"on_off"}
  AssetBatch <- MCBatch
  RelationId = {r1, r2}
  RelationType = {"feeds"}
  BindingId = {b1, b2}
  Role = {"primary"}
  EntityId = {"e1", "e2"}
  RegistryId = {"g1", "g2"}
  Unregistered = Unregistered
  Client = {"k1"}
INVARIANTS NoDanglingReference NoDuplicate HidingIsOwned
PROPERTIES SnapshotKept BindingIdentityKept
