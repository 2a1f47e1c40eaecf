SPECIFICATION Spec
CONSTANTS
  NDelegations = 3
  Drafted = {}
  Overlapping <- OnePair
  Cancellable = {}
  SurfaceFails = {}
  MaxAttempts = 1
  MaxCommands = 2
  MaxCrashes = 1
CHECK_DEADLOCK FALSE
INVARIANTS
  RunningChildIsAdmitted
  ParallelLimit
PROPERTIES
  BarrierOpensQuiet
