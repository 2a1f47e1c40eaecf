SPECIFICATION FairSpec
CONSTANTS
  o1 = o1
  o2 = o2
  t1 = t1
  t2 = t2
  Ops = {o1, o2}
  Takeovers = {t1, t2}
  Nobody = Nobody
CHECK_DEADLOCK FALSE
INVARIANTS
  TypeOK
  LiveOwnerKeepsHandoff
  CleanCloseIsDead
  SingleWorker
  SessionClosesFirst
PROPERTIES
  RegisterSpec
  LaunchSettles
