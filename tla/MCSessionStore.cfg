SPECIFICATION Spec
CONSTANTS
  w1 = w1
  w2 = w2
  w3 = w3
  w4 = w4
  Writers <- MCWriters
  Nobody = Nobody
  NoTail = NoTail
  TornTail = TornTail
  Garbage = Garbage
  MaxLines = 5
SYMMETRY MCSymmetry
CHECK_DEADLOCK FALSE
INVARIANTS
  LogDecodes
  AckedIsDurable
  MemoryIsLog
  ShownIsSyncedUnlessOpenFailed
