SPECIFICATION Spec
CONSTANTS
  AssetId = {"a1"}
  Code = {"c1"}
  NoCode = NoCode
  Capability = {"on_off"}
  RequiredCapability = {"on_off"}
  AssetBatch <- MCBatch
  RelationId = {}
  RelationType = {}
  BindingId = {}
  Role = {}
  EntityId = {}
  RegistryId = {}
  Unregistered = Unregistered
  Client = {k1, k2}
  Nobody = Nobody
  NoCall = NoCall
  NoPatch = NoPatch
  NoRevision = NoRevision
  NotRead = NotRead
  MaxRevision = 2
INVARIANT PatchKeepsOtherFields
