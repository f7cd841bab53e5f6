SPECIFICATION Spec
CONSTANTS
  Jobs = {j1}
  MaxConcurrent = 2
  QueueSize = 1
  Keep = 1
  MaxInvocations = 2
  MaxErrors = 1
  MaxStops = 2
  MaxAgings = 1
INVARIANTS
  TypeOK
  PermitsConserved
  HistoryBounded
  RunningIsLive
PROPERTIES
  RefinesRunHistory
  OrphansAreFlushes
CHECK_DEADLOCK FALSE
