-------------------------- MODULE SessionLockProofs --------------------------
(***************************************************************************)
(* What the session lock guarantees for any number of processes, hosts and *)
(* rounds.  The inductive invariant adds to the checked properties that an *)
(* owner finds its own file at the path, and that a process that is about  *)
(* to move a lock has seen the record of a dead process.                   *)
(***************************************************************************)
EXTENDS SessionLock, TLAPS

\* Past the first read a process has seen a record; past the assessment its
\* owner is known to be dead, and the dead stay dead.
SeenIsDead ==
  \A p \in Processes :
    /\ pc[p] \in {"assess", "reread", "rename"} => seen[p] \in Processes
    /\ pc[p] \in {"reread", "rename"}
         => ~alive[seen[p]] /\ Host[seen[p]] = Host[p]

\* A process that can still go round the loop has rounds left.
RoundsLeft ==
  \A p \in Processes : pc[p] # "threw" => attempt[p] < MaxAttempts

IInv == /\ TypeOK
        /\ OwnersKeepTheirFile
        /\ SeenIsDead
        /\ RoundsLeft
        /\ RecoveryIsOfTheDead
        /\ MoverStops

LEMMA InitInv == ASSUME Init PROVE IInv
  BY LockAssumption
  DEF Init, IInv, TypeOK, OwnersKeepTheirFile, SeenIsDead, RoundsLeft,
      RecoveryIsOfTheDead, MoverStops, Steps, Done, Owning

\* A step that only moves the control of p to l, where it owns nothing new.
LEMMA GotoStep ==
  ASSUME IInv, NEW p \in Processes, NEW l \in Steps, pc[p] # "threw", Goto(p, l),
         UNCHANGED <<path, body, alive, seen, recovery, attempt, displaced>>,
         l \in Owning => path = p,
         l = "assess" => seen[p] \in Processes,
         l \in {"reread", "rename"} =>
           seen[p] \in Processes /\ ~alive[seen[p]] /\ Host[seen[p]] = Host[p]
  PROVE  IInv'
  <1>1. TypeOK' BY DEF IInv, TypeOK, Goto
  <1>2. OwnersKeepTheirFile' BY DEF IInv, TypeOK, OwnersKeepTheirFile, Goto
  <1>3. SeenIsDead' BY DEF IInv, TypeOK, SeenIsDead, Goto
  <1>4. RoundsLeft' BY DEF IInv, TypeOK, RoundsLeft, Goto
  <1>5. RecoveryIsOfTheDead' BY DEF IInv, RecoveryIsOfTheDead
  <1>6. MoverStops' BY DEF IInv, TypeOK, MoverStops, Goto
  <1> QED BY <1>1, <1>2, <1>3, <1>4, <1>5, <1>6 DEF IInv

\* The files: p makes its own, or nobody lives that owns the one that goes.
LEMMA OpenStep ==
  ASSUME IInv, NEW p \in Processes, OpenExclusive(p) PROVE IInv'
  <1> USE DEF OpenExclusive, At, Goto
  <1>1. TypeOK' BY DEF IInv, TypeOK, Steps
  <1>2. OwnersKeepTheirFile'
    BY LockAssumption DEF IInv, TypeOK, OwnersKeepTheirFile
  <1>3. SeenIsDead' BY DEF IInv, TypeOK, SeenIsDead
  <1>4. RoundsLeft' BY DEF IInv, TypeOK, RoundsLeft
  <1>5. RecoveryIsOfTheDead' BY DEF IInv, RecoveryIsOfTheDead
  <1>6. MoverStops' BY DEF IInv, TypeOK, MoverStops
  <1> QED BY <1>1, <1>2, <1>3, <1>4, <1>5, <1>6 DEF IInv

LEMMA WriteStep ==
  ASSUME IInv, NEW p \in Processes, WriteRecord(p) \/ WriteFails(p) \/ SyncFails(p)
  PROVE  IInv'
  <1> USE DEF WriteRecord, WriteFails, SyncFails, Throw, At, Goto, Owning
  <1>1. TypeOK' BY DEF IInv, TypeOK, Steps, Done
  <1>2. OwnersKeepTheirFile' BY DEF IInv, TypeOK, OwnersKeepTheirFile
  <1>3. SeenIsDead' BY DEF IInv, TypeOK, SeenIsDead
  <1>4. RoundsLeft' BY DEF IInv, TypeOK, RoundsLeft
  <1>5. RecoveryIsOfTheDead' BY DEF IInv, RecoveryIsOfTheDead
  <1>6. MoverStops' BY DEF IInv, TypeOK, MoverStops
  <1> QED BY <1>1, <1>2, <1>3, <1>4, <1>5, <1>6 DEF IInv

LEMMA ReadStep ==
  ASSUME IInv, NEW p \in Processes, ReadExisting(p) PROVE IInv'
  <1> USE DEF ReadExisting, Readable, At, Goto
  <1>1. TypeOK' BY DEF IInv, TypeOK, Steps
  <1>2. OwnersKeepTheirFile' BY DEF IInv, TypeOK, OwnersKeepTheirFile, Owning
  <1>3. SeenIsDead' BY DEF IInv, TypeOK, SeenIsDead
  <1>4. RoundsLeft' BY DEF IInv, TypeOK, RoundsLeft
  <1>5. RecoveryIsOfTheDead' BY DEF IInv, RecoveryIsOfTheDead
  <1>6. MoverStops' BY DEF IInv, TypeOK, MoverStops
  <1> QED BY <1>1, <1>2, <1>3, <1>4, <1>5, <1>6 DEF IInv

LEMMA UnlinkStep ==
  ASSUME IInv, NEW p \in Processes, Unlink(p) PROVE IInv'
  <1> USE DEF Unlink, Goto
  <1>1. TypeOK' BY DEF IInv, TypeOK, Steps, Done
  <1>2. OwnersKeepTheirFile' BY DEF IInv, TypeOK, OwnersKeepTheirFile, Owning
  <1>3. SeenIsDead' BY DEF IInv, TypeOK, SeenIsDead
  <1>4. RoundsLeft' BY DEF IInv, TypeOK, RoundsLeft
  <1>5. RecoveryIsOfTheDead' BY DEF IInv, RecoveryIsOfTheDead
  <1>6. MoverStops' BY DEF IInv, TypeOK, MoverStops
  <1> QED BY <1>1, <1>2, <1>3, <1>4, <1>5, <1>6 DEF IInv

LEMMA DieStep ==
  ASSUME IInv, NEW p \in Processes, Die(p) PROVE IInv'
  <1> USE DEF Die
  <1>1. TypeOK' BY DEF IInv, TypeOK
  <1>2. OwnersKeepTheirFile' BY DEF IInv, TypeOK, OwnersKeepTheirFile
  <1>3. SeenIsDead' BY DEF IInv, TypeOK, SeenIsDead
  <1>4. RoundsLeft' BY DEF IInv, RoundsLeft
  <1>5. RecoveryIsOfTheDead' BY LockAssumption DEF IInv, TypeOK, RecoveryIsOfTheDead
  <1>6. MoverStops' BY DEF IInv, MoverStops
  <1> QED BY <1>1, <1>2, <1>3, <1>4, <1>5, <1>6 DEF IInv

\* The rename: the record that was seen belongs to a dead process, so moving a
\* live owner's file is a readback mismatch, and p stops.
LEMMA RenameStep ==
  ASSUME IInv, NEW p \in Processes, RenameStale(p) \/ RenameMissing(p) \/ RenameFails(p)
  PROVE  IInv'
  <1> USE DEF RenameStale, RenameMissing, RenameFails, At, Goto, Throw, NextRound, Displace
  <1>a. seen[p] \in Processes /\ ~alive[seen[p]] /\ Host[seen[p]] = Host[p]
    BY DEF IInv, SeenIsDead
  <1>b. attempt[p] \in Nat /\ attempt[p] < MaxAttempts /\ MaxAttempts \in Nat
    BY LockAssumption DEF IInv, TypeOK, RoundsLeft
  <1>1. TypeOK'
    <2>1. attempt' \in [Processes -> 0 .. MaxAttempts] BY <1>b DEF IInv, TypeOK
    <2>2. pc' \in [Processes -> Steps] BY DEF IInv, TypeOK, Steps, Done
    <2>3. displaced' \subseteq Processes \X Processes BY DEF IInv, TypeOK
    <2>4. recovery' \in [Processes -> Processes \cup {Nobody}]
      BY <1>a DEF IInv, TypeOK
    <2> QED BY <2>1, <2>2, <2>3, <2>4 DEF IInv, TypeOK
  <1>2. OwnersKeepTheirFile'
    <2> SUFFICES ASSUME displaced' = {}, NEW q \in Processes,
                        alive[q], pc'[q] \in Owning
                 PROVE  path' = q
      BY DEF OwnersKeepTheirFile
    <2>1. pc'[p] \in {"open", "threw"} BY DEF IInv, TypeOK
    <2>2. q # p /\ pc[q] \in Owning BY <2>1 DEF IInv, TypeOK, Owning
    <2>3. displaced = {} OBVIOUS
    <2>4. path = q BY <2>2, <2>3 DEF IInv, OwnersKeepTheirFile
    <2>5. CASE RenameStale(p) BY <2>2, <2>4, <2>5
    <2>6. CASE RenameMissing(p) BY <2>4, <2>6
    <2>7. CASE RenameFails(p) BY <2>2, <2>4, <2>7
    <2> QED BY <2>5, <2>6, <2>7
  <1>3. SeenIsDead' BY DEF IInv, TypeOK, SeenIsDead
  <1>4. RoundsLeft' BY <1>b DEF IInv, TypeOK, RoundsLeft
  <1>5. RecoveryIsOfTheDead' BY <1>a DEF IInv, TypeOK, RecoveryIsOfTheDead
  <1>6. MoverStops'
    <2>1. \A d \in displaced : pc'[d[1]] = "threw"
      BY DEF IInv, TypeOK, MoverStops
    <2>2. displaced' # displaced => pc'[p] = "threw"
      BY <1>a DEF IInv, TypeOK
    <2>3. displaced' \subseteq displaced \cup {<<p, path>>} OBVIOUS
    <2> QED BY <2>1, <2>2, <2>3 DEF MoverStops
  <1> QED BY <1>1, <1>2, <1>3, <1>4, <1>5, <1>6 DEF IInv

LEMMA StepInv ==
  ASSUME IInv, NEW p \in Processes,
         Acquire(p) \/ ProcessSteps(p) \/ HolderSteps(p) \/ Die(p)
  PROVE  IInv'
  <1> USE DEF Steps, Done, Owning, At
  <1>1. CASE Acquire(p) \/ OpenExists(p) \/ OpenFails(p) \/ ReadUnusable(p)
             \/ AssessRefused(p) \/ RereadChanged(p) \/ AssertOwnedFails(p)
             \/ UnlinkFails(p)
    BY <1>1, GotoStep
    DEF Acquire, OpenExists, OpenFails, ReadUnusable, AssessRefused,
        RereadChanged, AssertOwnedFails, UnlinkFails, Throw
  <1>2. CASE AssessStale(p)
    <2>1. seen[p] \in Processes BY <1>2 DEF AssessStale, IInv, SeenIsDead
    <2> QED BY <1>2, <2>1, GotoStep DEF AssessStale
  <1>3. CASE RereadSame(p)
    <2>1. seen[p] \in Processes /\ ~alive[seen[p]] /\ Host[seen[p]] = Host[p]
      BY <1>3 DEF RereadSame, IInv, SeenIsDead
    <2> QED BY <1>3, <2>1, GotoStep DEF RereadSame
  <1>4. CASE ReleaseOwned(p)
    BY <1>4, GotoStep DEF ReleaseOwned
  <1> QED
    BY <1>1, <1>2, <1>3, <1>4, OpenStep, WriteStep, ReadStep, RenameStep,
       UnlinkStep, DieStep
    DEF ProcessSteps, HolderSteps

\* IInv is inductive.
THEOREM LockInvariant == Spec => []IInv
  <1>1. Init => IInv BY InitInv
  <1>2. IInv /\ [Next]_vars => IInv'
    <2> SUFFICES ASSUME IInv, [Next]_vars PROVE IInv' OBVIOUS
    <2>1. CASE UNCHANGED vars
      BY <2>1 DEF vars, IInv, TypeOK, OwnersKeepTheirFile, SeenIsDead, RoundsLeft,
                  RecoveryIsOfTheDead, MoverStops
    <2> QED BY <2>1, StepInv DEF Next
  <1> QED BY <1>1, <1>2, PTL DEF Spec

\* Two live writers are impossible as long as no recoverer moved the file of a
\* live owner: exclusive creation, release and the clean-up after a failed
\* write keep the lock exclusive among any number of processes.
THEOREM LockExclusive == Spec => []ExclusiveUnlessDisplaced
  <1>1. IInv => ExclusiveUnlessDisplaced
    BY DEF IInv, OwnersKeepTheirFile, ExclusiveUnlessDisplaced
  <1> QED BY <1>1, LockInvariant, PTL

\* Every reported recovery names a dead process of the same host.
THEOREM LockRecovery == Spec => []RecoveryIsOfTheDead
  <1>1. IInv => RecoveryIsOfTheDead BY DEF IInv
  <1> QED BY <1>1, LockInvariant, PTL

\* A process that took a live owner's file away never writes in its place.
THEOREM LockMoverStops == Spec => []MoverStops
  <1>1. IInv => MoverStops BY DEF IInv
  <1> QED BY <1>1, LockInvariant, PTL

\* Type correctness of the lock: a path holds no file, an empty one or the record of
\* one of the processes, and no process leaves the steps of acquire and release.
THEOREM TypeCorrect == Spec => []TypeOK
  <1>1. IInv => TypeOK BY DEF IInv
  <1> QED BY <1>1, LockInvariant, PTL
=============================================================================
