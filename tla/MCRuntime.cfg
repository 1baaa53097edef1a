SPECIFICATION PartSpec
CONSTANTS
  Changes = {"c"}
  Admins = {"a", "b"}
  Identity = "identity"
  None = None
  MaxStarts = 2
  Light = {"l1", "l2"}
  Device = {"d1"}
  Plain = {"p1"}
  Name = {"n1", "n2", "n3", "n4"}
  Room = {"r1", "r2"}
  MaxWaiting = 1
  Scope <- MCScope
INVARIANTS RepairTells LiveIsStored LightsSettle
PROPERTIES NewerKept OperationsEnd
CHECK_DEADLOCK FALSE
