SPECIFICATION PartSpec
SYMMETRY Symmetry
CONSTANTS
  f1 = f1
  Light = {l1, l2, l3}
  Device = {d1}
  Capability = {on_off, other}
  Controls = on_off
  Name = {l1, l2, l3, d1}
  NoName = NoName
  Unbound = Unbound
  Nodes = {1, 2, 3, 4}
  Types = {"t", "u"}
  Filters = {{}, {"t"}}
  Depths = {NoName, 0, 1}
  MaxRelations = 4
  Keys = {"a", "b"}
  AssetOf <- MCAssetOf
  Hardware = {"e"}
  Names = {"m", "n"}
  Automations = {"auto"}
  Scenes = {}
  Dashboards = {"dash"}
  MaxChanges = 1
  Ids = {f1, f2}
  Codes = {"x", "y"}
  Areas = {"hall", "gone"}
  Current = {"hall"}
  MaxRows = 2
  Width = 2
  MaxLines = 3
  MaxChars = 2
INVARIANTS Acyclic RefusesOnlyCycles DeletesExactlyDependents AnswersAreComplete FilesApplyAtOnce TextsReadBack
CHECK_DEADLOCK FALSE
