SPECIFICATION Spec
CONSTANTS
  Jobs = {j1, j2}
  Handled = {j1}
  Exprs = {"hourly", "every"}
  EveryExprs = {"every"}
  Zones = {z1}
  Requests = {1, 2}
  Kinds = {"update", "delete"}
  MaxErrors = 1
  MaxStops = 1
  MaxCancels = 0
  MaxRuns = 1
INVARIANTS
  TypeOK
  Agreement
  OneTrigger
PROPERTY AnswersAreTrue
CHECK_DEADLOCK FALSE
