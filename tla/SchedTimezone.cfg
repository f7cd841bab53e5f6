SPECIFICATION Spec
CONSTANTS
  Jobs = {j1}
  Handled = {j1}
  Exprs = {"hourly", "daily"}
  EveryExprs = {}
  Zones = {z1, z2}
  Requests = {1}
  Kinds = {"zone"}
  MaxErrors = 0
  MaxStops = 0
  MaxCancels = 0
  MaxRuns = 0
INVARIANT TimezoneApplied
CHECK_DEADLOCK FALSE
