SPECIFICATION FairSpec
CONSTANTS
  AssetId = {"a1"}
  Code = {}
  NoCode = NoCode
  Capability = {"on_off"}
  RequiredCapability = {"on_off"}
  AssetBatch <- MCBatch
  RelationId = {}
  RelationType = {}
  BindingId = {}
  Role = {}
  EntityId = {}
  RegistryId = {}
  Unregistered = Unregistered
  Client = {k1, k2}
  Nobody = Nobody
  NoCall = NoCall
  NoPatch = NoPatch
  NoRevision = NoRevision
  NotRead = NotRead
  MaxRevision = 2
INVARIANTS DurableBeforeVisible NoSilentOverwrite RevisionNamesContent GuardedPatchKeepsOtherFields
PROPERTIES Answered ImplementsAtomicRegistry
