SPECIFICATION FairSpec
CONSTANTS
  k1 = k1
  Calls = {c1, c2}
  None = None
  Actions = {a1, a2}
  Keys = {k1}
  KeyOf <- MCKeyOf
  Reconcilable = {a1}
  ControlOnly = {a2}
  Departed = Departed
  LeftBehind = {a1, k1}
INVARIANTS
  TypeOK
  DispatchAtMostOnce
  RefusalIsTrue
  ResultHasFacts
  DrivenIsIndexed
PROPERTIES
  LeaseIsRespected
  CommitIsAnswered
CHECK_DEADLOCK FALSE
