SPECIFICATION Spec
CONSTANTS
  Procs = {old, new}
  Missing = Missing
  MaxEnds = 2
  MaxPuts = 2
INVARIANTS
  SchemaIsCurrent
  CacheAgrees
PROPERTIES
  SeedingOnlyAdds
  BootEnds
CHECK_DEADLOCK FALSE
