SPECIFICATION NarrowSpec
CONSTANTS
  NDelegations = 2
  Drafted = {}
  Overlapping <- NoPairs
  Cancellable = {}
  SurfaceFails = {}
  MaxAttempts = 2
  MaxCommands = 2
  MaxCrashes = 1
CHECK_DEADLOCK FALSE
INVARIANTS
  TakeoverNeverGuesses
