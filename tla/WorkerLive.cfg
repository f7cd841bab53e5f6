SPECIFICATION FairSpec
CONSTANTS
  Jobs = {j1}
  MaxConcurrent = 1
  QueueSize = 1
  Keep = 1
  MaxInvocations = 3
  MaxErrors = 1
  MaxStops = 1
  MaxAgings = 0
PROPERTIES
  EveryInvocationServed
  ShutdownEnds
CHECK_DEADLOCK FALSE
