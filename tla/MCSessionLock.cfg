SPECIFICATION Spec
CONSTANTS
  p1 = p1
  p2 = p2
  p3 = p3
  p4 = p4
  p5 = p5
  h1 = h1
  h2 = h2
  Processes <- MCProcesses
  Host <- MCHost
  MaxAttempts = 2
  NoFile = NoFile
  Nobody = Nobody
SYMMETRY MCSymmetry
CHECK_DEADLOCK FALSE
INVARIANTS
  TypeOK
  ExclusiveUnlessDisplaced
  RecoveryIsOfTheDead
  MoverStops
