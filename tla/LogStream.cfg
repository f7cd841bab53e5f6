SPECIFICATION Spec
CONSTANTS
  NumRuns = 2
  Failing = {1}
  MaxRows = 1
  MaxPending = 1
  MaxLines = 2
  MaxFaults = 1
  MaxConnects = 2
INVARIANTS
  ShownInOrder
  NoWindow
  EndIsShown
PROPERTY
  ReloadOnlyAdds
CHECK_DEADLOCK FALSE
