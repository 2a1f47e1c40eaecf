SPECIFICATION Spec
CONSTANTS
  NDelegations = 2
  Drafted = {1, 2}
  Overlapping <- NoPairs
  Cancellable = {1}
  SurfaceFails = {2}
  MaxAttempts = 2
  MaxCommands = 2
  MaxCrashes = 1
ACTION_CONSTRAINT Sliced
CHECK_DEADLOCK FALSE
INVARIANTS
  TypeOK
  EffectsOnce
  PreEffectIsProven
  ReconciledIsAbsorbed
  NoCommandIsStuck
PROPERTIES
  StartExcludesCancel
