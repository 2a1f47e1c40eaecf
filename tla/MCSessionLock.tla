---------------------------- MODULE MCSessionLock ----------------------------
EXTENDS SessionLock, TLC

CONSTANTS p1, p2, p3, p4, p5, h1, h2

MCProcesses == {p1, p2, p3, p4, p5}
\* p5 runs on another host that shares the workspace.
MCHost == (p1 :> h1) @@ (p2 :> h1) @@ (p3 :> h1) @@ (p4 :> h1) @@ (p5 :> h2)
MCOneHostProcesses == {p1, p2, p3, p4}
MCOneHost == [p \in MCOneHostProcesses |-> h1]
MCSymmetry == Permutations({p1, p2, p3, p4})
=============================================================================
