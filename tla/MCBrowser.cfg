SPECIFICATION PartSpec
CONSTANTS
  a1 = a1
  i1 = i1
  f1 = f1
  Assets = {a1, a2}
  Names = {1, 2}
  Areas = {x}
  Floors = {f1}
  Capabilities = {c}
  FloorOf <- MCFloorOf
  None = None
  Blank = Blank
  NoArea = NoArea
  Unknown = Unknown
  MaxRevision = 2
  MaxWaiting = 1
  Identities = {i1, i2}
  Registered = {e1, e2}
  Running = {e2}
PROPERTIES DraftsAreOwn PlansAreOwn
CHECK_DEADLOCK FALSE
