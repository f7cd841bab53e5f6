SPECIFICATION Spec
CONSTANTS
  Jobs = {j1}
  Handled = {j1}
  Exprs = {"hourly", "every"}
  EveryExprs = {"every"}
  Zones = {z1, z2}
  Requests = {1, 2}
  Kinds = {"update", "delete", "zone", "lang"}
  MaxErrors = 1
  MaxStops = 0
  MaxCancels = 1
  MaxRuns = 1
INVARIANT EnabledEntriesFire
PROPERTIES
  DeletedRowsFrozen
  DeletedReturnsOnlyByReload
CHECK_DEADLOCK FALSE
