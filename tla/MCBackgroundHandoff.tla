------------------------- MODULE MCBackgroundHandoff -------------------------
EXTENDS BackgroundHandoff, TLC

CONSTANTS o1, o2, t1, t2

MCSymmetry == Permutations({o1, o2}) \cup Permutations({t1, t2})
=============================================================================
