---------------------------- MODULE MCSessionStore ----------------------------
EXTENDS SessionStore, TLC

CONSTANTS w1, w2, w3, w4

MCWriters == {w1, w2, w3, w4}
MCSymmetry == Permutations(MCWriters)
=============================================================================
