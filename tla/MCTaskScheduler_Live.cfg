SPECIFICATION FairSpec
CONSTANTS
  a = a
  b = b
  c = c
  w = w
  r1 = r1
  r2 = r2
  Nodes <- MCOneNode
  DependsOn <- MCOneDependsOn
  Sequence <- MCOneSequence
  Workspaces = {w}
  Lineage <- MCOneLineage
  NoWorkspace = NoWorkspace
  MaxAttempts <- MCOneMaxAttempts
  RetryMax <- MCOneMaxAttempts
  AutomaticOn = {c}
  Counters <- MCCounters
  GraphBudget <- MCGraphBudget
  Reservation <- MCOneReservation
  Leases = {r1, r2}
  NoLease = NoLease
  NoAttempt = NoAttempt
  Runs = {r1, r2}
  User = User
  Nobody = Nobody
  UseBound = 2
CHECK_DEADLOCK FALSE
PROPERTY RunTerminates
