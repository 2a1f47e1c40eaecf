SPECIFICATION Spec
CONSTANTS
  a = a
  b = b
  c = c
  w = w
  r1 = r1
  r2 = r2
  Nodes <- MCNodes
  DependsOn <- MCDependsOn
  Sequence <- MCSequence
  Workspaces = {w}
  Lineage <- MCLineage
  NoWorkspace = NoWorkspace
  MaxAttempts <- MCMaxAttempts
  RetryMax <- MCRetryMax
  AutomaticOn = {c}
  Counters <- MCCounters
  GraphBudget <- MCGraphBudget
  Reservation <- MCReservation
  Leases = {r1}
  NoLease = NoLease
  NoAttempt = NoAttempt
  Runs = {r1}
  User = User
  Nobody = Nobody
  UseBound = 2
CHECK_DEADLOCK FALSE
PROPERTY BoundedStop
