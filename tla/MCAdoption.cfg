SPECIFICATION PartSpec
SYMMETRY Symmetry
CONSTANTS
  b1 = b1
  b2 = b2
  g1 = g1
  g2 = g2
  n1 = n1
  n2 = n2
  k1 = k1
  Keys = {k1, k2}
  Hardware = {g1, g2}
  Names = {n1, n2}
  Clients = {c1, c2}
  MaxRevision = 2
  MaxQueue = 1
  None = None
  AssetId = {"a1"}
  Code = {}
  NoCode = NoCode
  Capability = {"on_off"}
  RequiredCapability = {"on_off"}
  AssetBatch <- MCBatch
  RelationId = {}
  RelationType = {}
  BindingId = {b1, b2}
  Role = {"primary", "feedback"}
  EntityId = {"e1"}
  RegistryId = {g1, g2}
  Unregistered = Unregistered
INVARIANT HidingsRecorded
PROPERTIES CommitsUndoOwn RemovalReverses ReplacementReviewed
