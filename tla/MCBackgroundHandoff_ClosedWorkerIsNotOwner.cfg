SPECIFICATION Spec
CONSTANTS
  o1 = o1
  o2 = o2
  t1 = t1
  t2 = t2
  Ops = {o1}
  Takeovers = {t1}
  Nobody = Nobody
CHECK_DEADLOCK FALSE
INVARIANT ClosedWorkerIsNotOwner
