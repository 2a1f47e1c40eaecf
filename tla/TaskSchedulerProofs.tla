------------------------- MODULE TaskSchedulerProofs -------------------------
(***************************************************************************)
(* For every Graph, every budget and any number of scheduler runs, the     *)
(* execution record keeps its invariant: the events of TaskExecution each  *)
(* preserve ExecInv, and every step of TaskScheduler is one of those       *)
(* events or leaves the record alone (IInv).  Together with what the runs  *)
(* remember of the record (OwnInv) this settles who owns an attempt.       *)
(***************************************************************************)
EXTENDS TaskScheduler, TLAPS

InFlight == {"leased", "running", "waiting_for_user"}

LEMMA ExecInitInv == ASSUME ExecInit PROVE ExecInv
  <1> USE DEF ExecInit
  <1>1. ExecTypeOK
    BY DEF ExecTypeOK, GraphStatuses, NodeStatuses, Origins, Blockers, ZeroBudget
  <1>2. BudgetConserved
    BY BudgetAssumption DEF BudgetConserved, ZeroBudget, Within
  <1>3. InFlightIsActive /\ ActiveIsInFlight
    BY DEF InFlightIsActive, ActiveIsInFlight
  <1>4. DependenciesFirst /\ PendingHasOrigin
    BY DEF DependenciesFirst, PendingHasOrigin
  <1> QED BY <1>1, <1>2, <1>3, <1>4 DEF ExecInv

\* The events that touch only the Graph status, the lease, the blocker, the
\* cancel flag or the worktrees.
LEMMA LightStep ==
  ASSUME ExecInv,
         UNCHANGED <<nodeStatus, attempts, nextOrigin, active, consumed, reserved>>,
         ExecTypeOK'
  PROVE  ExecInv'
  BY DEF ExecInv, BudgetConserved, InFlightIsActive, ActiveIsInFlight,
         DependenciesFirst, PendingHasOrigin, Within

LEMMA StutterStep ==
  ASSUME ExecInv, UNCHANGED execVars
  PROVE  ExecInv'
  <1>1. ExecTypeOK' BY DEF ExecInv, ExecTypeOK, execVars
  <1> QED BY <1>1, LightStep DEF execVars

LEMMA GraphEnqueuedStep == ASSUME ExecInv, GraphEnqueued PROVE ExecInv'
  <1>1. ExecTypeOK'
    BY DEF GraphEnqueued, ExecInv, ExecTypeOK, GraphStatuses, Blockers
  <1> QED BY <1>1, LightStep DEF GraphEnqueued

LEMMA LeaseAcquiredStep ==
  ASSUME ExecInv, NEW l \in Leases, LeaseAcquired(l) PROVE ExecInv'
  <1>1. ExecTypeOK' BY DEF LeaseAcquired, ExecInv, ExecTypeOK
  <1> QED BY <1>1, LightStep DEF LeaseAcquired

LEMMA LeaseRecoveredStep ==
  ASSUME ExecInv, NEW l, LeaseRecovered(l) PROVE ExecInv'
  <1>1. ExecTypeOK' BY DEF LeaseRecovered, ExecInv, ExecTypeOK
  <1> QED BY <1>1, LightStep DEF LeaseRecovered

LEMMA GraphStartedStep ==
  ASSUME ExecInv, NEW l, GraphStarted(l) PROVE ExecInv'
  <1>1. ExecTypeOK' BY DEF GraphStarted, ExecInv, ExecTypeOK, GraphStatuses
  <1> QED BY <1>1, LightStep DEF GraphStarted

LEMMA CancelRequestedStep == ASSUME ExecInv, CancelRequested PROVE ExecInv'
  <1>1. ExecTypeOK' BY DEF CancelRequested, ExecInv, ExecTypeOK
  <1> QED BY <1>1, LightStep DEF CancelRequested

LEMMA BudgetExhaustedStep == ASSUME ExecInv, BudgetExhausted PROVE ExecInv'
  <1>1. ExecTypeOK' BY DEF BudgetExhausted, ExecInv, ExecTypeOK, Blockers
  <1> QED BY <1>1, LightStep DEF BudgetExhausted

LEMMA GraphWaitingStep == ASSUME ExecInv, GraphWaiting PROVE ExecInv'
  <1>1. ExecTypeOK'
    BY DEF GraphWaiting, ExecInv, ExecTypeOK, GraphStatuses, Blockers
  <1> QED BY <1>1, LightStep DEF GraphWaiting

LEMMA GraphTerminalStep ==
  ASSUME ExecInv, NEW st \in GraphStatuses, NEW code \in Blockers,
         GraphTerminal(st, code)
  PROVE  ExecInv'
  <1>1. ExecTypeOK' BY DEF GraphTerminal, ExecInv, ExecTypeOK
  <1> QED BY <1>1, LightStep DEF GraphTerminal

LEMMA WorktreeLeaseAcquiredStep ==
  ASSUME ExecInv, NEW n \in Nodes, NEW k \in Nat, WorktreeLeaseAcquired(n, k)
  PROVE  ExecInv'
  <1>1. ExecTypeOK'
    BY GraphAssumption DEF WorktreeLeaseAcquired, ExecInv, ExecTypeOK
  <1> QED BY <1>1, LightStep DEF WorktreeLeaseAcquired

LEMMA WorktreeLeaseReleasedStep ==
  ASSUME ExecInv, NEW n \in Nodes, NEW k, WorktreeLeaseReleased(n, k)
  PROVE  ExecInv'
  <1>1. ExecTypeOK'
    BY GraphAssumption DEF WorktreeLeaseReleased, ExecInv, ExecTypeOK
  <1> QED BY <1>1, LightStep DEF WorktreeLeaseReleased

-----------------------------------------------------------------------------
\* Budgets are functions, so they are compared counter by counter.
LEMMA PlusZero ==
  ASSUME NEW r \in [Counters -> Nat] PROVE Plus(ZeroBudget, r) = r
  BY DEF Plus, ZeroBudget

LEMMA MinusSelf ==
  ASSUME NEW r \in [Counters -> Nat] PROVE Minus(r, r) = ZeroBudget
  BY DEF Minus, ZeroBudget

\* An attempt record is not the absence of one.
LEMMA AttemptIsSome == ASSUME NEW at \in Attempt PROVE at # NoAttempt
  BY NamesAssumption

\* Admission keeps the record consistent: it is guarded by the absence of an
\* active attempt, so the reservation that was zero becomes the new node's.
LEMMA AttemptRequestedStep ==
  ASSUME ExecInv, NEW n \in Nodes, NEW k, AttemptRequested(n, k)
  PROVE  ExecInv'
  <1> USE DEF AttemptRequested, Admissible, IsReady
  <1>1. k \in Nat /\ k = attempts[n] + 1
    BY DEF ExecInv, ExecTypeOK
  <1>2. reserved = ZeroBudget /\ reserved' = Reservation[n]
    BY PlusZero, BudgetAssumption DEF ExecInv, BudgetConserved
  <1>3. active' \in Attempt /\ active'.node = n /\ active'.number = k
        /\ active'.status = "requested"
    BY <1>1 DEF Attempt, AttemptStatuses
  <1>4. active' # NoAttempt BY <1>3, AttemptIsSome
  <1>5. ExecTypeOK'
    <2>1. reserved' \in [Counters -> Nat] BY <1>2, BudgetAssumption
    <2>2. nodeStatus' \in [Nodes -> NodeStatuses] /\ attempts' \in [Nodes -> Nat]
      BY <1>1 DEF ExecInv, ExecTypeOK, NodeStatuses
    <2> QED BY <1>3, <2>1, <2>2 DEF ExecInv, ExecTypeOK
  <1>6. BudgetConserved'
    BY <1>2, <1>3, <1>4 DEF BudgetConserved, Within
  <1>7. InFlightIsActive' /\ ActiveIsInFlight'
    BY <1>1, <1>3, <1>4
    DEF ExecInv, ExecTypeOK, InFlightIsActive, ActiveIsInFlight
  <1>8. DependenciesFirst' /\ PendingHasOrigin'
    BY GraphAssumption
    DEF ExecInv, ExecTypeOK, DependenciesFirst, PendingHasOrigin
  <1> QED BY <1>5, <1>6, <1>7, <1>8 DEF ExecInv

\* The identity of the active attempt names a real attempt.
LEMMA ActiveIdIsActive ==
  ASSUME ExecInv, NEW n \in Nodes, NEW k \in Nat, ActiveId = <<n, k>>
  PROVE  /\ active \in Attempt /\ active # NoAttempt
         /\ active.node = n /\ active.number = k
         /\ nodeStatus[n] \in InFlight /\ attempts[n] = k
         /\ reserved = Reservation[n]
  <1>1. active # NoAttempt BY NamesAssumption DEF ActiveId
  <1>2. active \in Attempt BY <1>1 DEF ExecInv, ExecTypeOK
  <1>3. active.node = n /\ active.number = k BY <1>1 DEF ActiveId
  <1>4. nodeStatus[n] \in InFlight
    BY <1>1, <1>3 DEF ExecInv, ActiveIsInFlight, InFlight
  <1>5. attempts[n] = k
    BY <1>3, <1>4 DEF ExecInv, InFlightIsActive, InFlight
  <1>6. reserved = Reservation[n] BY <1>1, <1>3 DEF ExecInv, BudgetConserved
  <1> QED BY <1>1, <1>2, <1>3, <1>4, <1>5, <1>6

\* Both events move the active attempt from one in-flight status to another.
LEMMA AttemptMovesStep ==
  ASSUME ExecInv, NEW n \in Nodes, NEW k \in Nat, ActiveId = <<n, k>>,
         NEW st \in {"running", "waiting_for_user"},
         active' = [active EXCEPT !.status = st],
         nodeStatus' = [nodeStatus EXCEPT ![n] = st],
         UNCHANGED <<status, attempts, nextOrigin, consumed, reserved, lease,
                     blocker, cancelRequested, worktree>>
  PROVE  ExecInv'
  <1>1. /\ active \in Attempt /\ active # NoAttempt
        /\ active.node = n /\ active.number = k
        /\ nodeStatus[n] \in InFlight /\ attempts[n] = k
    BY ActiveIdIsActive
  <1>2. active' \in Attempt /\ active'.node = n /\ active'.number = k
        /\ active'.status = st
    BY <1>1 DEF Attempt, AttemptStatuses
  <1>3. active' # NoAttempt BY <1>2, AttemptIsSome
  <1>4. ExecTypeOK' BY <1>2 DEF ExecInv, ExecTypeOK, NodeStatuses
  <1>5. BudgetConserved' BY <1>1, <1>2, <1>3 DEF ExecInv, BudgetConserved, Within
  <1>6. InFlightIsActive' /\ ActiveIsInFlight'
    BY <1>1, <1>2, <1>3
    DEF ExecInv, ExecTypeOK, InFlightIsActive, ActiveIsInFlight
  <1>7. DependenciesFirst' /\ PendingHasOrigin'
    BY <1>1, GraphAssumption
    DEF ExecInv, ExecTypeOK, DependenciesFirst, PendingHasOrigin, InFlight
  <1> QED BY <1>4, <1>5, <1>6, <1>7 DEF ExecInv

LEMMA AttemptStartedStep ==
  ASSUME ExecInv, NEW n \in Nodes, NEW k \in Nat, NEW l, AttemptStarted(n, k, l)
  PROVE  ExecInv'
  BY AttemptMovesStep DEF AttemptStarted

LEMMA AttemptWaitingStep ==
  ASSUME ExecInv, NEW n \in Nodes, NEW k \in Nat, AttemptWaiting(n, k)
  PROVE  ExecInv'
  BY AttemptMovesStep DEF AttemptWaiting

\* The terminal event: the use fits in the reservation it replaces, and no node
\* that depends on this one can already be in flight.
LEMMA AttemptTerminalStep ==
  ASSUME ExecInv, NEW n \in Nodes, NEW k \in Nat, NEW t,
         NEW used \in [Counters -> Nat], AttemptTerminal(n, k, t, used)
  PROVE  ExecInv'
  <1>1. /\ active # NoAttempt /\ active.node = n
        /\ nodeStatus[n] \in InFlight /\ reserved = Reservation[n]
    BY ActiveIdIsActive DEF AttemptTerminal
  <1>2. /\ active' = NoAttempt
        /\ consumed' = Plus(consumed, used)
        /\ Within(used, ZeroBudget, Reservation[n])
        /\ UNCHANGED <<status, attempts, lease, blocker, cancelRequested, worktree>>
    BY DEF AttemptTerminal
  <1>3. reserved' = ZeroBudget
    BY <1>1, MinusSelf, BudgetAssumption DEF AttemptTerminal
  <1>4. PICK st \in {"pending", "succeeded", "failed", "cancelled", "blocked"},
             o \in Origins :
          /\ nodeStatus' = [nodeStatus EXCEPT ![n] = st]
          /\ nextOrigin' = [nextOrigin EXCEPT ![n] = o]
          /\ st = "pending" => o # "none"
    BY DEF AttemptTerminal, terminalNodeStatus, Origins
  <1>5. ExecTypeOK'
    <2>1. consumed' \in [Counters -> Nat]
      BY <1>2 DEF ExecInv, ExecTypeOK, Plus
    <2>2. reserved' \in [Counters -> Nat] BY <1>3 DEF ZeroBudget
    <2> QED BY <1>2, <1>4, <2>1, <2>2 DEF ExecInv, ExecTypeOK, NodeStatuses
  <1>6. BudgetConserved'
    <2>1. ASSUME NEW c \in Counters
          PROVE  consumed'[c] + reserved'[c] =< GraphBudget[c]
      <3>1. consumed[c] + Reservation[n][c] =< GraphBudget[c]
        BY <1>1 DEF ExecInv, BudgetConserved, Within
      <3>2. used[c] =< Reservation[n][c]
        BY <1>2, BudgetAssumption DEF Within, ZeroBudget
      <3>3. consumed'[c] = consumed[c] + used[c] /\ reserved'[c] = 0
        BY <1>2, <1>3 DEF Plus, ZeroBudget
      <3>4. /\ consumed[c] \in Nat /\ used[c] \in Nat
            /\ Reservation[n][c] \in Nat /\ GraphBudget[c] \in Nat
        BY BudgetAssumption DEF ExecInv, ExecTypeOK
      <3> QED BY <3>1, <3>2, <3>3, <3>4
    <2> QED BY <2>1, <1>2, <1>3 DEF BudgetConserved, Within
  <1>7. InFlightIsActive' /\ ActiveIsInFlight'
    BY <1>1, <1>2, <1>4
    DEF ExecInv, ExecTypeOK, InFlightIsActive, ActiveIsInFlight
  <1>8. DependenciesFirst'
    BY <1>1, <1>4, GraphAssumption
    DEF ExecInv, ExecTypeOK, DependenciesFirst, InFlight
  <1>9. PendingHasOrigin'
    BY <1>4 DEF ExecInv, ExecTypeOK, PendingHasOrigin
  <1> QED BY <1>5, <1>6, <1>7, <1>8, <1>9 DEF ExecInv

\* Retrying and skipping move a node that is neither in flight nor succeeded.
LEMMA NodeMovesStep ==
  ASSUME ExecInv, NEW n \in Nodes,
         nodeStatus[n] \in {"pending", "failed", "cancelled"},
         NEW st \in {"pending", "skipped"}, NEW o \in Origins,
         nodeStatus' = [nodeStatus EXCEPT ![n] = st],
         nextOrigin' = [nextOrigin EXCEPT ![n] = o],
         st = "pending" => o # "none",
         UNCHANGED <<attempts, active, consumed, reserved>>,
         status' \in GraphStatuses, blocker' \in Blockers,
         UNCHANGED <<lease, cancelRequested, worktree>>
  PROVE  ExecInv'
  <1>1. ExecTypeOK' BY DEF ExecInv, ExecTypeOK, NodeStatuses
  <1>2. BudgetConserved' BY DEF ExecInv, BudgetConserved, Within
  <1>3. InFlightIsActive' /\ ActiveIsInFlight'
    BY AttemptIsSome
    DEF ExecInv, ExecTypeOK, InFlightIsActive, ActiveIsInFlight, Attempt
  <1>4. DependenciesFirst'
    BY GraphAssumption DEF ExecInv, ExecTypeOK, DependenciesFirst
  <1>5. PendingHasOrigin' BY DEF ExecInv, ExecTypeOK, PendingHasOrigin
  <1> QED BY <1>1, <1>2, <1>3, <1>4, <1>5 DEF ExecInv

LEMMA RetryRequestedStep ==
  ASSUME ExecInv, NEW n \in Nodes, RetryRequested(n) PROVE ExecInv'
  <1>1. status' \in GraphStatuses /\ blocker' \in Blockers
    BY DEF RetryRequested, GraphStatuses, Blockers
  <1> QED BY <1>1, NodeMovesStep DEF RetryRequested, Origins

LEMMA NodeSkippedStep ==
  ASSUME ExecInv, NEW n \in Nodes, NEW roots, NodeSkipped(n, roots) PROVE ExecInv'
  <1>1. nextOrigin' = [nextOrigin EXCEPT ![n] = nextOrigin[n]]
        /\ nextOrigin[n] \in Origins
    BY DEF NodeSkipped, ExecInv, ExecTypeOK
  <1>2. status' \in GraphStatuses /\ blocker' \in Blockers
    BY DEF NodeSkipped, ExecInv, ExecTypeOK
  <1> QED BY <1>1, <1>2, NodeMovesStep DEF NodeSkipped

-----------------------------------------------------------------------------
(* The processes.                                                          *)

NeedsNode == (Holding \cup MidMutation \cup {"prepare", "exhausting"}) \ {"starting"}
Processes == Runs \cup {User, Nobody}
RunInv == RunTypeOK /\ AdmittedHasNode
IInv == ExecInv /\ RunInv

LEMMA GotoStep ==
  ASSUME RunInv, NEW s \in Runs, NEW l \in PcStates, Goto(s, l),
         l \in NeedsNode => adm[s].node \in Nodes,
         owner' \in Processes
  PROVE  RunInv'
  <1>a. NoAdmission \in [node : Nodes \cup {NoAttempt}, number : Nat,
                          lease : Leases \cup {NoLease}]
    BY DEF NoAdmission
  <1>b. NoResult \in [terminal : Terminals \cup {"none", "waiting", "start_failed"},
                       used : [Counters -> Nat]]
    BY DEF NoResult, ZeroBudget
  <1>c. pc' \in [Runs -> PcStates] BY DEF RunInv, RunTypeOK, Goto
  <1>1. RunTypeOK'
    <2>a. CASE l \in FinalPc
      <3>1. adm' \in [Runs -> [node : Nodes \cup {NoAttempt}, number : Nat,
                                lease : Leases \cup {NoLease}]]
        BY <1>a, <2>a DEF RunInv, RunTypeOK, Goto
      <3>2. res' \in [Runs -> [terminal : Terminals \cup {"none", "waiting", "start_failed"},
                                used : [Counters -> Nat]]]
        BY <1>b, <2>a DEF RunInv, RunTypeOK, Goto
      <3>3. aborted' \in [Runs -> BOOLEAN] BY <2>a DEF RunInv, RunTypeOK, Goto
      <3> QED BY <3>1, <3>2, <3>3, <1>c DEF RunInv, RunTypeOK, Goto, Processes
    <2>b. CASE l \notin FinalPc
      BY <1>c, <2>b DEF RunInv, RunTypeOK, Goto, Processes
    <2> QED BY <2>a, <2>b
  <1>2. AdmittedHasNode'
    BY DEF RunInv, RunTypeOK, AdmittedHasNode, Goto, FinalPc, NeedsNode,
           Holding, MidMutation
  <1> QED BY <1>1, <1>2 DEF RunInv

\* A run that is past selection knows its node, its number and its result.
LEMMA AdmittedTypes ==
  ASSUME RunInv, NEW s \in Runs, pc[s] \in NeedsNode
  PROVE  /\ AdmNode(s) \in Nodes /\ adm[s].node \in Nodes /\ adm[s].number \in Nat
         /\ res[s].used \in [Counters -> Nat]
  BY DEF RunInv, RunTypeOK, AdmittedHasNode, NeedsNode, AdmNode

LEMMA RunStepInv ==
  ASSUME IInv, NEW s \in Runs, RunBegins(s) \/ RunSteps(s) \/ Abort(s) \/ Crash(s)
  PROVE  IInv'
  <1> USE DEF IInv
  <1>a. owner \in Processes /\ s \in Processes /\ Nobody \in Processes
    BY DEF RunInv, RunTypeOK, Processes
  <1>b. s \in Leases BY RunsAssumption
  <1>c. pc[s] \in NeedsNode => /\ AdmNode(s) \in Nodes /\ adm[s].node \in Nodes
                              /\ adm[s].number \in Nat
                              /\ res[s].used \in [Counters -> Nat]
    BY AdmittedTypes
  <1> USE DEF NeedsNode, Holding, MidMutation, PcStates, FinalPc
  <1>1. CASE RunBegins(s)
    BY <1>1, <1>a, GotoStep, StutterStep DEF RunBegins
  <1>2. CASE EnsureRunning(s)
    BY <1>2, <1>a, GotoStep, StutterStep DEF EnsureRunning
  <1>3. CASE EnsureLease(s)
    BY <1>3, <1>a, <1>b, GotoStep, LeaseAcquiredStep DEF EnsureLease
  <1>4. CASE EnsureStarted(s)
    BY <1>4, <1>a, GotoStep, GraphStartedStep DEF EnsureStarted
  <1>5. CASE EnsureRefused(s)
    BY <1>5, <1>a, GotoStep, StutterStep DEF EnsureRefused
  <1>6. CASE DelegationWait(s)
    BY <1>6, <1>a, GotoStep, GraphWaitingStep DEF DelegationWait
  <1>7. CASE DelegationNone(s)
    BY <1>7, <1>a, GotoStep, StutterStep DEF DelegationNone
  <1>8. CASE LoopAborted(s)
    BY <1>8, <1>a, GotoStep, StutterStep DEF LoopAborted
  <1>9. CASE LoopNothingReady(s)
    BY <1>9, <1>a, GotoStep, StutterStep DEF LoopNothingReady
  <1>10. ASSUME NEW n \in Nodes, LoopSelect(s, n) PROVE IInv'
    <2>1. ExecInv' BY <1>10, StutterStep DEF LoopSelect
    <2>2. attempts[n] + 1 \in Nat /\ lease \in Leases \cup {NoLease}
      BY DEF ExecInv, ExecTypeOK
    <2>3. RunTypeOK' BY <1>10, <2>2 DEF LoopSelect, RunInv, RunTypeOK
    <2>4. AdmittedHasNode'
      BY <1>10 DEF LoopSelect, RunInv, RunTypeOK, AdmittedHasNode
    <2> QED BY <2>1, <2>3, <2>4 DEF RunInv
  <1>11. ASSUME NEW n \in Nodes, LoopNoLease(s, n) PROVE IInv'
    BY <1>11, <1>a, GotoStep, StutterStep DEF LoopNoLease
  <1>12. CASE ExhaustBudget(s)
    BY <1>12, <1>a, <1>c, GotoStep, BudgetExhaustedStep DEF ExhaustBudget
  <1>13. CASE ExhaustGraph(s)
    BY <1>13, <1>a, GotoStep, GraphTerminalStep
    DEF ExhaustGraph, GraphStatuses, Blockers
  <1>14. CASE ExhaustRefused(s)
    BY <1>14, <1>a, GotoStep, StutterStep DEF ExhaustRefused
  <1>15. CASE PrepareFails(s)
    BY <1>15, <1>a, GotoStep, StutterStep DEF PrepareFails
  <1>16. CASE AdmitCancelled(s)
    BY <1>16, <1>a, GotoStep, StutterStep DEF AdmitCancelled
  <1>17. CASE AdmitRefused(s)
    BY <1>17, <1>a, GotoStep, StutterStep DEF AdmitRefused
  <1>18. CASE AdmitReadOnly(s)
    BY <1>18, <1>a, <1>c, GotoStep, AttemptRequestedStep DEF AdmitReadOnly
  <1>19. CASE AdmitWorktree(s)
    BY <1>19, <1>a, <1>c, GotoStep, WorktreeLeaseAcquiredStep DEF AdmitWorktree
  <1>20. CASE AdmitWorktreeRefused(s)
    BY <1>20, <1>a, GotoStep, StutterStep DEF AdmitWorktreeRefused
  <1>21. CASE AdmitRequest(s)
    BY <1>21, <1>a, <1>c, GotoStep, AttemptRequestedStep DEF AdmitRequest
  <1>22. CASE AdmitAppendRefused(s)
    BY <1>22, <1>a, GotoStep, StutterStep DEF AdmitAppendRefused
  <1>23. CASE StartFails(s)
    <2>1. ExecInv' BY <1>23, StutterStep DEF StartFails
    <2>2. [ZeroBudget EXCEPT !["attempts"] = 1] \in [Counters -> Nat]
      BY DEF ZeroBudget
    <2>3. RunTypeOK' BY <1>23, <2>2 DEF StartFails, RunInv, RunTypeOK
    <2>4. AdmittedHasNode'
      BY <1>23, <1>c DEF StartFails, RunInv, RunTypeOK, AdmittedHasNode
    <2> QED BY <2>1, <2>3, <2>4 DEF RunInv
  <1>24. CASE StartSucceeds(s)
    BY <1>24, <1>a, <1>c, GotoStep, AttemptStartedStep DEF StartSucceeds
  <1>25. CASE ExecutorEnds(s)
    <2>1. ExecInv' BY <1>25, StutterStep DEF ExecutorEnds
    <2>2. PICK t \in Terminals \cup {"waiting"}, u \in Usage(AdmNode(s)) :
            /\ res' = [res EXCEPT ![s] = [terminal |-> t, used |-> u]]
            /\ pc' = [pc EXCEPT ![s] = IF t = "waiting" THEN "waiting" ELSE "terminal"]
      BY <1>25 DEF ExecutorEnds
    <2>3. u \in [Counters -> Nat] BY <2>2, RunsAssumption DEF Usage
    <2>4. RunTypeOK' BY <1>25, <2>2, <2>3 DEF ExecutorEnds, RunInv, RunTypeOK
    <2>5. AdmittedHasNode'
      BY <1>25, <1>c, <2>2 DEF ExecutorEnds, RunInv, RunTypeOK, AdmittedHasNode
    <2> QED BY <2>1, <2>4, <2>5 DEF RunInv
  <1>26. CASE TerminalAppend(s)
    BY <1>26, <1>a, <1>c, GotoStep, AttemptTerminalStep DEF TerminalAppend
  <1>27. CASE TerminalRefused(s)
    BY <1>27, <1>a, GotoStep, StutterStep DEF TerminalRefused
  <1>28. CASE TerminalRelease(s)
    BY <1>28, <1>a, <1>c, GotoStep, WorktreeLeaseReleasedStep DEF TerminalRelease
  <1>29. ASSUME NEW n \in Nodes, SettleSkip(s, n) PROVE IInv'
    <2>1. ExecInv' BY <1>29, NodeSkippedStep DEF SettleSkip
    <2>2. RunInv' BY <1>29 DEF SettleSkip, RunInv, RunTypeOK, AdmittedHasNode, runVars
    <2> QED BY <2>1, <2>2
  <1>30. CASE SettleFailed(s)
    <2> DEFINE t == RecordedTerminal(s)
    <2>1. terminalStatus(t) \in GraphStatuses /\ terminalBlocker(t) \in Blockers
      BY DEF terminalStatus, terminalBlocker, GraphStatuses, Blockers
    <2>2. ExecInv' BY <1>30, <2>1, GraphTerminalStep DEF SettleFailed
    <2>3. AfterTerminal(s, terminalStatus(t)) \in {"returned", "loop"}
      BY DEF AfterTerminal
    <2>4. RunInv' BY <1>30, <1>a, <2>3, GotoStep DEF SettleFailed
    <2> QED BY <2>2, <2>4
  <1>31. CASE SettleFinished(s)
    <2>1. PICK st \in {"awaiting_integration", "completed"} :
            /\ GraphTerminal(st, "none") /\ owner' = Nobody
            /\ Goto(s, AfterTerminal(s, st))
      BY <1>31 DEF SettleFinished
    <2>2. ExecInv' BY <2>1, GraphTerminalStep DEF GraphStatuses, Blockers
    <2>3. AfterTerminal(s, st) \in {"returned", "loop"} BY DEF AfterTerminal
    <2>4. RunInv' BY <2>1, <1>a, <2>3, GotoStep
    <2> QED BY <2>2, <2>4
  <1>32. CASE SettleContinue(s)
    <2>1. AfterTerminal(s, status) \in {"returned", "loop"} BY DEF AfterTerminal
    <2> QED BY <1>32, <1>a, <2>1, GotoStep, StutterStep DEF SettleContinue
  <1>33. CASE WaitAttempt(s)
    BY <1>33, <1>a, <1>c, GotoStep, AttemptWaitingStep DEF WaitAttempt
  <1>34. CASE WaitTerminal(s)
    BY <1>34, <1>a, <1>c, GotoStep, AttemptTerminalStep DEF WaitTerminal
  <1>35. CASE WaitTerminalRefused(s)
    BY <1>35, <1>a, GotoStep, StutterStep DEF WaitTerminalRefused
  <1>36. CASE WaitRelease(s)
    BY <1>36, <1>a, <1>c, GotoStep, WorktreeLeaseReleasedStep DEF WaitRelease
  <1>37. CASE WaitLease(s)
    BY <1>37, <1>a, <1>c, GotoStep, LeaseRecoveredStep DEF WaitLease
  <1>38. CASE WaitGraph(s)
    BY <1>38, <1>a, GotoStep, GraphWaitingStep DEF WaitGraph
  <1>39. CASE LockBusy(s)
    BY <1>39, <1>a, GotoStep, StutterStep DEF LockBusy
  <1>40. CASE Abort(s)
    <2>1. ExecInv' BY <1>40, StutterStep DEF Abort
    <2>2. RunInv' BY <1>40 DEF Abort, RunInv, RunTypeOK, AdmittedHasNode
    <2> QED BY <2>1, <2>2
  <1>41. CASE Crash(s)
    BY <1>41, <1>a, GotoStep, StutterStep DEF Crash
  <1> QED
    BY <1>1, <1>2, <1>3, <1>4, <1>5, <1>6, <1>7, <1>8, <1>9, <1>10, <1>11,
       <1>12, <1>13, <1>14, <1>15, <1>16, <1>17, <1>18, <1>19, <1>20, <1>21,
       <1>22, <1>23, <1>24, <1>25, <1>26, <1>27, <1>28, <1>29, <1>30, <1>31,
       <1>32, <1>33, <1>34, <1>35, <1>36, <1>37, <1>38, <1>39, <1>40, <1>41
    DEF RunSteps

LEMMA UserStepInv ==
  ASSUME IInv, UserSteps \/ CancelCrash PROVE IInv'
  <1> USE DEF IInv
  <1> DEFINE Same == UNCHANGED <<pc, adm, res, aborted>>
  <1>0. ASSUME Same, owner' \in Processes, userPc' \in {"idle", "cancelTerminal"}
        PROVE  RunInv'
    BY <1>0 DEF RunInv, RunTypeOK, AdmittedHasNode, Processes
  <1>a. owner \in Processes /\ User \in Processes /\ Nobody \in Processes
        /\ userPc \in {"idle", "cancelTerminal"}
    BY DEF RunInv, RunTypeOK, Processes
  <1>1. CASE Enqueue
    BY <1>1, <1>0, <1>a, GraphEnqueuedStep DEF Enqueue, runVars
  <1>2. CASE Cancel
    BY <1>2, <1>0, <1>a, CancelRequestedStep DEF Cancel
  <1>3. CASE CancelTerminal
    BY <1>3, <1>0, <1>a, GraphTerminalStep DEF CancelTerminal, GraphStatuses, Blockers
  <1>4. CASE CancelCrash
    BY <1>4, <1>0, <1>a, StutterStep DEF CancelCrash
  <1>5. ASSUME NEW n \in Nodes, Retry(n) PROVE IInv'
    BY <1>5, <1>0, <1>a, RetryRequestedStep DEF Retry, runVars
  <1> QED BY <1>1, <1>2, <1>3, <1>4, <1>5 DEF UserSteps

LEMMA InitInv == ASSUME Init PROVE IInv
  <1>1. ExecInv BY ExecInitInv DEF Init
  <1>2. RunInv
    BY DEF Init, RunInv, RunTypeOK, AdmittedHasNode, NoAdmission, NoResult,
           ZeroBudget, PcStates, Holding, MidMutation
  <1> QED BY <1>1, <1>2 DEF IInv

\* IInv is inductive: types, the budget ledger, the node of the active attempt,
\* dependency order and next-attempt authority hold in every reachable state.
THEOREM InductiveInvariant == Spec => []IInv
  <1>1. Init => IInv BY InitInv
  <1>2. IInv /\ [Next]_vars => IInv'
    <2> SUFFICES ASSUME IInv, [Next]_vars PROVE IInv' OBVIOUS
    <2>1. CASE UNCHANGED vars
      <3>1. ExecInv' BY <2>1, StutterStep DEF IInv, vars
      <3>2. RunInv'
        BY <2>1 DEF IInv, RunInv, RunTypeOK, AdmittedHasNode, vars, runVars
      <3> QED BY <3>1, <3>2 DEF IInv
    <2>2. ASSUME NEW s \in Runs, RunBegins(s) \/ RunSteps(s) \/ Abort(s) \/ Crash(s)
          PROVE  IInv'
      BY <2>2, RunStepInv
    <2>3. CASE UserSteps \/ CancelCrash BY <2>3, UserStepInv
    <2> QED BY <2>1, <2>2, <2>3 DEF Next
  <1> QED BY <1>1, <1>2, PTL DEF Spec

\* Type correctness of the scheduler, the control plane and the record.
THEOREM TypeCorrect == Spec => []TypeOK
  <1>1. IInv => TypeOK BY DEF IInv, ExecInv, RunInv, TypeOK
  <1> QED BY <1>1, InductiveInvariant, PTL

\* No Graph ever holds or uses more than its approved budget: #admit reserves
\* before the attempt exists and attempt.terminal books at most what it held.
THEOREM BudgetSafety == Spec => []BudgetConserved
  <1>1. IInv => BudgetConserved BY DEF IInv, ExecInv
  <1> QED BY <1>1, InductiveInvariant, PTL

\* No attempt is admitted or succeeds before all dependencies have succeeded.
THEOREM DependencySafety == Spec => []DependenciesFirst
  <1>1. IInv => DependenciesFirst BY DEF IInv, ExecInv
  <1> QED BY <1>1, InductiveInvariant, PTL

LEMMA SettledStep ==
  ASSUME IInv, [Next]_vars, NEW n \in Nodes,
         nodeStatus[n] \in {"succeeded", "blocked"}
  PROVE  nodeStatus'[n] = nodeStatus[n]
  <1>1. CASE nodeStatus' = nodeStatus BY <1>1
  <1>2. ASSUME NEW m \in Nodes, NEW k, AttemptRequested(m, k)
        PROVE  nodeStatus'[n] = nodeStatus[n]
    BY <1>2 DEF AttemptRequested, Admissible, IsReady, IInv, ExecInv, ExecTypeOK
  <1>3. ASSUME NEW m \in Nodes, NEW k \in Nat, ActiveId = <<m, k>>,
               \E v : nodeStatus' = [nodeStatus EXCEPT ![m] = v]
        PROVE  nodeStatus'[n] = nodeStatus[n]
    <2>1. m # n
      BY <1>3, NamesAssumption
      DEF ActiveId, ActiveIsInFlight, IInv, ExecInv, ExecTypeOK, Attempt
    <2> QED BY <1>3, <2>1 DEF IInv, ExecInv, ExecTypeOK
  <1>4. ASSUME NEW m \in Nodes, NodeSkipped(m, Roots(m)) \/ RetryRequested(m)
        PROVE  nodeStatus'[n] = nodeStatus[n]
    BY <1>4 DEF NodeSkipped, RetryRequested, IInv, ExecInv, ExecTypeOK
  <1>5. CASE UNCHANGED execVars BY <1>5 DEF execVars
  <1>6. CASE UserSteps \/ CancelCrash
    <2>1. (\E m \in Nodes : RetryRequested(m)) \/ nodeStatus' = nodeStatus
      BY <1>6 DEF UserSteps, CancelCrash, Enqueue, Cancel, CancelTerminal, Retry,
                 GraphEnqueued, CancelRequested, GraphTerminal, execVars
    <2> QED BY <2>1, <1>4
  <1>7. ASSUME NEW s \in Runs, RunBegins(s) \/ RunSteps(s) \/ Abort(s) \/ Crash(s)
        PROVE  nodeStatus'[n] = nodeStatus[n]
    <2>c. pc[s] \in NeedsNode => AdmNode(s) \in Nodes /\ adm[s].number \in Nat
      BY AdmittedTypes DEF IInv
    <2> USE DEF NeedsNode, Holding, MidMutation
    <2>1. CASE AdmitReadOnly(s) \/ AdmitRequest(s)
      BY <2>1, <2>c, <1>2 DEF AdmitReadOnly, AdmitRequest
    <2>2. CASE StartSucceeds(s) \/ WaitAttempt(s)
      <3>1. AdmNode(s) \in Nodes /\ adm[s].number \in Nat
        BY <2>2, <2>c DEF StartSucceeds, WaitAttempt
      <3>2. /\ ActiveId = <<AdmNode(s), adm[s].number>>
            /\ \E v : nodeStatus' = [nodeStatus EXCEPT ![AdmNode(s)] = v]
        BY <2>2 DEF StartSucceeds, WaitAttempt, AttemptStarted, AttemptWaiting
      <3> QED BY <3>1, <3>2, <1>3
    <2>3. CASE TerminalAppend(s) \/ WaitTerminal(s)
      <3>1. AdmNode(s) \in Nodes /\ adm[s].number \in Nat
        BY <2>3, <2>c DEF TerminalAppend, WaitTerminal
      <3>2. /\ ActiveId = <<AdmNode(s), adm[s].number>>
            /\ \E v : nodeStatus' = [nodeStatus EXCEPT ![AdmNode(s)] = v]
        BY <2>3 DEF TerminalAppend, WaitTerminal, AttemptTerminal
      <3> QED BY <3>1, <3>2, <1>3
    <2>4. ASSUME NEW m \in Nodes, SettleSkip(s, m)
          PROVE  nodeStatus'[n] = nodeStatus[n]
      BY <2>4, <1>4 DEF SettleSkip
    <2>5. CASE EnsureLease(s) \/ EnsureStarted(s) \/ DelegationWait(s)
               \/ ExhaustBudget(s) \/ ExhaustGraph(s) \/ AdmitWorktree(s)
               \/ TerminalRelease(s) \/ SettleFailed(s) \/ SettleFinished(s)
               \/ WaitRelease(s) \/ WaitLease(s) \/ WaitGraph(s)
      BY <2>5, <1>1
      DEF EnsureLease, EnsureStarted, DelegationWait, ExhaustBudget, ExhaustGraph,
          AdmitWorktree, TerminalRelease, SettleFailed, SettleFinished,
          WaitRelease, WaitLease, WaitGraph, LeaseAcquired, GraphStarted,
          GraphWaiting, BudgetExhausted, GraphTerminal, WorktreeLeaseAcquired,
          WorktreeLeaseReleased, LeaseRecovered
    <2> QED
      BY <1>7, <1>5, <2>1, <2>2, <2>3, <2>4, <2>5
      DEF RunSteps, RunBegins, EnsureRunning, EnsureRefused, DelegationNone,
          LoopAborted, LoopNothingReady, LoopSelect, LoopNoLease, ExhaustRefused,
          PrepareFails, AdmitCancelled, AdmitRefused, AdmitWorktreeRefused,
          AdmitAppendRefused, StartFails, ExecutorEnds, TerminalRefused,
          SettleContinue, WaitTerminalRefused, LockBusy, Abort, Crash
  <1> QED BY <1>5, <1>6, <1>7 DEF Next, vars

\* A succeeded node is never run again and a node whose effect is unknown or
\* unreconciled is never queued again, by no retry and no other run: attempts
\* are admitted for pending nodes only and terminals hit the node in flight.
THEOREM SettledNodesSafety == Spec => SettledNodesStay
  <1>1. IInv /\ [Next]_vars =>
          [\A n \in Nodes : nodeStatus[n] \in {"succeeded", "blocked"}
                              => nodeStatus'[n] = nodeStatus[n]]_vars
    BY SettledStep
  <1> QED BY <1>1, InductiveInvariant, PTL DEF Spec, SettledNodesStay

-----------------------------------------------------------------------------
(* Who answers for the active attempt.  The invariants about ownership are *)
(* not inductive by themselves: a run selects a node and its lease from a  *)
(* snapshot, gives the session lock back while it prepares the workspace,  *)
(* and is admitted later.  OwnInv adds what a selection that can still be  *)
(* admitted says about the record (SelectionStands).                       *)

AfterAttempt == {"releasing", "settling", "waitReleasing", "waitLease", "waitGraph"}
Admitting == {"prepare", "requesting"}
Exhausting == {"exhausting", "blocking"}
LiveStatuses == {"queued", "running", "waiting_for_user"}
Stopped == {"completed", "awaiting_integration", "failed", "blocked", "cancelled"}

\* Whoever is between two appends of one mutation holds the session lock.
LockHeld ==
  /\ \A s \in Runs : pc[s] \in MidMutation => owner = s
  /\ userPc = "cancelTerminal" => owner = User /\ active = NoAttempt /\ cancelRequested

\* A run past selection read a lease.
HasLease == \A s \in Runs : pc[s] \in Holding \cup Admitting => adm[s].lease # NoLease

\* The node the ready queue would give next, were the Graph allowed to queue one.
Lowest(n) == IsReady(n) /\ \A m \in Nodes : IsReady(m) => Sequence[n] =< Sequence[m]

\* The attempt number of the selection is not used up.
Fresh(s) == pc[s] \in Admitting \cup Exhausting /\ attempts[adm[s].node] < adm[s].number
NoneFresh == \A s \in Runs : ~Fresh(s)

Stands(s) ==
  /\ status \in LiveStatuses
  /\ Lowest(adm[s].node)
  /\ adm[s].number = attempts[adm[s].node] + 1
  /\ pc[s] \in Admitting => lease = adm[s].lease

\* Since a fresh selection nothing was admitted: unless the Graph can never
\* queue a node again, the selected node is still the first and, for an
\* admission, the lease still the one that was read.
SelectionStands ==
  \A s \in Runs :
    Fresh(s) => active = NoAttempt /\ (cancelRequested \/ status = "blocked" \/ Stands(s))

\* The budget that was exhausted in the snapshot still is.
Fits(n) == Within(consumed, Reservation[n], GraphBudget)
ExhaustionStands ==
  \A s \in Runs :
    pc[s] \in Exhausting =>
      Fresh(s) /\ (cancelRequested \/ status = "blocked" \/ ~Fits(adm[s].node))

\* In the mutation that ends an attempt, every selection is stale.
QuietAfter == \A s \in Runs : pc[s] \in AfterAttempt => active = NoAttempt /\ NoneFresh

RequestingRun(s) ==
  /\ status \in {"queued", "running"}
  /\ active = NoAttempt
  /\ Lineage[adm[s].node] # NoWorkspace
  /\ worktree[Lineage[adm[s].node]] = AdmId(s)
RequestingOwns == \A s \in Runs : pc[s] = "requesting" => RequestingRun(s)

OwnInv ==
  /\ LockHeld /\ HasLease /\ SelectionStands /\ ExhaustionStands /\ QuietAfter
  /\ RequestingOwns /\ HeldAttemptIsActive /\ SingleActiveAttempt
  /\ StoppedGraphIsIdle /\ ActiveAttemptOwnsWorktree

\* A run's attempt is not the absence of one.
LEMMA AdmIdIsSome ==
  ASSUME IInv, NEW s \in Runs, pc[s] \in NeedsNode PROVE AdmId(s) # NoAttempt
  <1>1. adm[s].node \in Nodes /\ adm[s].number \in Nat BY AdmittedTypes DEF IInv
  <1> QED BY <1>1, NamesAssumption DEF AdmId

LEMMA HoldingIsActive ==
  ASSUME IInv, OwnInv, NEW s \in Runs, pc[s] \in Holding
  PROVE  active # NoAttempt /\ ActiveId = AdmId(s) /\ lease = adm[s].lease
  <1>1. AdmId(s) # NoAttempt BY AdmIdIsSome DEF NeedsNode, Holding
  <1> QED BY <1>1 DEF OwnInv, HeldAttemptIsActive, ActiveId

\* While an attempt is active no selection is fresh.
LEMMA ActiveIsStale == ASSUME OwnInv, active # NoAttempt PROVE NoneFresh
  BY DEF OwnInv, SelectionStands, NoneFresh

\* What a run's selection or admission keeps over a step that is not itself a
\* selection or an admission.
Keeps(t) ==
  /\ pc'[t] \in Holding => pc[t] \in Holding /\ adm'[t] = adm[t]
  /\ pc'[t] \in Admitting => pc[t] \in Admitting /\ adm'[t] = adm[t]
  /\ pc'[t] \in Exhausting => pc[t] \in Exhausting /\ adm'[t] = adm[t]
  /\ pc'[t] \in AfterAttempt => pc[t] \in AfterAttempt \/ (active' = NoAttempt /\ NoneFresh)
  /\ pc'[t] = "requesting" =>
       \/ pc[t] = "requesting" /\ UNCHANGED <<status, worktree>>
       \/ RequestingRun(t)'

\* Every step but a selection and an admission: the record moves in ways no
\* holder of an attempt and no fresh selection can notice.
LEMMA OwnStep ==
  ASSUME IInv, IInv', OwnInv, LockHeld',
         \A t \in Runs : Keeps(t),
         attempts' = attempts,
         \/ active' = active /\ (cancelRequested \/ UNCHANGED <<nodeStatus, consumed>>)
         \/ NoneFresh,
         \/ ActiveId' = ActiveId /\ (active' = NoAttempt <=> active = NoAttempt)
         \/ active' = NoAttempt /\ \A t \in Runs : pc'[t] \notin Holding,
         \/ lease' = lease
         \/ \A t \in Runs : /\ pc'[t] \notin Holding
                            /\ Fresh(t) /\ pc[t] \in Admitting => cancelRequested' \/ status' = "blocked",
         cancelRequested => cancelRequested',
         status = "blocked" => status' = "blocked",
         \/ status' \in LiveStatuses \/ status' = status \/ status' = "blocked"
         \/ cancelRequested' \/ NoneFresh,
         status' \in Stopped => active' = NoAttempt /\ lease' = NoLease,
         ActiveAttemptOwnsWorktree'
  PROVE  OwnInv'
  <1> USE DEF OwnInv
  <1>1. \A t \in Runs : Fresh(t)' => Fresh(t) /\ adm'[t] = adm[t]
    BY DEF Fresh, Keeps
  <1>2. HasLease' BY DEF HasLease, Keeps
  <1>3. ASSUME NEW t \in Runs, Fresh(t)'
        PROVE  /\ active' = NoAttempt
               /\ cancelRequested \/ UNCHANGED <<nodeStatus, consumed>>
               /\ cancelRequested \/ status = "blocked" \/ Stands(t)
               /\ adm'[t] = adm[t]
    BY <1>1, <1>3 DEF NoneFresh, SelectionStands
  <1>4. SelectionStands'
    <2> SUFFICES ASSUME NEW t \in Runs, Fresh(t)'
                 PROVE  active' = NoAttempt
                        /\ (cancelRequested' \/ status' = "blocked" \/ Stands(t)')
      BY DEF SelectionStands
    <2> SUFFICES ASSUME ~cancelRequested', status' # "blocked"
                 PROVE  Stands(t)'
      BY <1>3
    <2>1. Stands(t) /\ UNCHANGED <<nodeStatus, consumed>> /\ active' = NoAttempt
          /\ adm'[t] = adm[t] /\ Fresh(t)
      BY <1>1, <1>3
    <2>2. status' \in LiveStatuses BY <2>1 DEF Stands, NoneFresh
    <2>3. Lowest(adm[t].node)' BY <2>1 DEF Stands, Lowest, IsReady
    <2>4. pc'[t] \in Admitting => lease' = adm[t].lease
      BY <2>1 DEF Stands, Keeps
    <2> QED BY <2>1, <2>2, <2>3, <2>4 DEF Stands
  <1>5. ExhaustionStands'
    <2> SUFFICES ASSUME NEW t \in Runs, pc'[t] \in Exhausting
                 PROVE  Fresh(t)' /\ (cancelRequested' \/ status' = "blocked" \/ ~Fits(adm[t].node)')
                        /\ adm'[t] = adm[t]
      BY DEF ExhaustionStands
    <2>1. pc[t] \in Exhausting /\ adm'[t] = adm[t] BY DEF Keeps
    <2>2. Fresh(t) /\ (cancelRequested \/ status = "blocked" \/ ~Fits(adm[t].node))
      BY <2>1 DEF ExhaustionStands
    <2>3. Fresh(t)' BY <2>1, <2>2 DEF Fresh
    <2>4. cancelRequested' \/ consumed' = consumed BY <1>3, <2>3
    <2> QED BY <2>1, <2>2, <2>3, <2>4 DEF Fits, Within
  <1>6. QuietAfter'
    BY <1>1 DEF QuietAfter, Keeps, NoneFresh
  <1>7. RequestingOwns'
    <2> SUFFICES ASSUME NEW t \in Runs, pc'[t] = "requesting" PROVE RequestingRun(t)'
      BY DEF RequestingOwns
    <2>1. CASE pc[t] = "requesting" /\ UNCHANGED <<status, worktree>>
      <3>1. RequestingRun(t) /\ adm'[t] = adm[t]
        BY <2>1 DEF RequestingOwns, Keeps, Admitting
      <3>2. active' = NoAttempt BY <3>1 DEF RequestingRun
      <3> QED BY <2>1, <3>1, <3>2 DEF RequestingRun, AdmId
    <2> QED BY <2>1 DEF Keeps
  <1>8. HeldAttemptIsActive'
    <2> SUFFICES ASSUME NEW t \in Runs, pc'[t] \in Holding
                 PROVE  ActiveId' = AdmId(t)' /\ lease' = adm'[t].lease
      BY DEF HeldAttemptIsActive
    <2>1. pc[t] \in Holding /\ adm'[t] = adm[t] BY DEF Keeps
    <2>2. ActiveId = AdmId(t) /\ lease = adm[t].lease BY <2>1, HoldingIsActive
    <2> QED BY <2>1, <2>2 DEF AdmId
  <1>9. SingleActiveAttempt' BY DEF SingleActiveAttempt, Keeps
  <1>10. StoppedGraphIsIdle' BY DEF StoppedGraphIsIdle, Stopped
  <1> QED BY <1>2, <1>4, <1>5, <1>6, <1>7, <1>8, <1>9, <1>10

\* The control of one run moves; the others keep theirs.
Moves(s, l) ==
  /\ pc' = [pc EXCEPT ![s] = l]
  /\ \A t \in Runs : t # s \/ l \notin FinalPc => adm'[t] = adm[t]
  /\ UNCHANGED userPc

LEMMA GotoMoves == ASSUME IInv, NEW s \in Runs, NEW l, Goto(s, l) PROVE Moves(s, l)
  BY DEF Goto, Moves, IInv, RunInv, RunTypeOK

\* The lock protects a step: nobody else is in the middle of a mutation.
Protected(s) == owner \in {Nobody, s}

LEMMA ProtectedAlone ==
  ASSUME OwnInv, NEW s \in Runs, Protected(s)
  PROVE  /\ \A t \in Runs \ {s} : pc[t] \notin MidMutation
         /\ userPc # "cancelTerminal"
         /\ Free => pc[s] \notin MidMutation
  BY RunsAssumption DEF OwnInv, LockHeld, Protected, Free

\* Where a run may go without selecting or being admitted.
MayGo(s, l) ==
  /\ l \in Holding => pc[s] \in Holding
  /\ l \in Admitting => pc[s] \in Admitting
  /\ l \in Exhausting => pc[s] \in Exhausting
  /\ l \in AfterAttempt => pc[s] \in AfterAttempt \/ (active' = NoAttempt /\ NoneFresh)
  /\ l = "requesting" => RequestingRun(s)'

LEMMA MoveKeeps ==
  ASSUME IInv, OwnInv, NEW s \in Runs, NEW l, Moves(s, l), MayGo(s, l),
         UNCHANGED <<status, worktree>> \/ Protected(s)
  PROVE  \A t \in Runs : Keeps(t)
  <1> SUFFICES ASSUME NEW t \in Runs PROVE Keeps(t) OBVIOUS
  <1> USE DEF Admitting, Exhausting, Holding, AfterAttempt, FinalPc
  <1>1. CASE t = s
    <2>1. pc'[s] = l BY DEF Moves, IInv, RunInv, RunTypeOK
    <2>2. l \notin FinalPc => adm'[s] = adm[s] BY DEF Moves
    <2> QED BY <1>1, <2>1, <2>2 DEF MayGo, Keeps
  <1>2. CASE t # s
    <2>1. pc'[t] = pc[t] /\ adm'[t] = adm[t]
      BY <1>2 DEF Moves, IInv, RunInv, RunTypeOK
    <2>2. pc[t] = "requesting" => UNCHANGED <<status, worktree>>
      BY <1>2, ProtectedAlone DEF MidMutation
    <2> QED BY <2>1, <2>2 DEF Keeps
  <1> QED BY <1>1, <1>2

LEMMA MoveLocks ==
  ASSUME IInv, OwnInv, NEW s \in Runs, NEW l, Moves(s, l),
         l \in MidMutation => owner' = s,
         \/ owner' = owner /\ UNCHANGED <<active, cancelRequested>>
         \/ Protected(s)
  PROVE  LockHeld'
  <1>1. pc'[s] = l /\ \A t \in Runs \ {s} : pc'[t] = pc[t]
    BY DEF Moves, IInv, RunInv, RunTypeOK
  <1>2. CASE Protected(s)
    BY <1>1, <1>2, ProtectedAlone DEF LockHeld, Moves
  <1>3. CASE owner' = owner /\ UNCHANGED <<active, cancelRequested>>
    BY <1>1, <1>3 DEF LockHeld, Moves, OwnInv
  <1> QED BY <1>2, <1>3

\* Steps that leave the attempts alone.
LEMMA LightOwn ==
  ASSUME IInv, IInv', OwnInv, NEW s \in Runs, NEW l, Moves(s, l), MayGo(s, l),
         l \in MidMutation => owner' = s,
         UNCHANGED <<nodeStatus, attempts, active, consumed, worktree, cancelRequested>>,
         \/ owner' = owner /\ UNCHANGED <<status, lease>>
         \/ Protected(s),
         \/ lease' = lease
         \/ \A t \in Runs : /\ pc'[t] \notin Holding
                            /\ Fresh(t) /\ pc[t] \in Admitting => cancelRequested \/ status' = "blocked",
         status = "blocked" => status' = "blocked",
         status' \in LiveStatuses \/ status' = status \/ status' = "blocked" \/ NoneFresh,
         status' \in Stopped => active = NoAttempt /\ lease' = NoLease
  PROVE  OwnInv'
  <1>1. \A t \in Runs : Keeps(t) BY MoveKeeps
  <1>2. LockHeld' BY MoveLocks
  <1>3. ActiveId' = ActiveId BY DEF ActiveId
  <1>4. ActiveAttemptOwnsWorktree' BY DEF OwnInv, ActiveAttemptOwnsWorktree, ActiveId
  <1> QED BY <1>1, <1>2, <1>3, <1>4, OwnStep

\* Steps that leave the whole record alone.
LEMMA IdleOwn ==
  ASSUME IInv, IInv', OwnInv, NEW s \in Runs, NEW l, Moves(s, l), MayGo(s, l),
         l \in MidMutation => owner' = s,
         UNCHANGED execVars,
         owner' = owner \/ Protected(s)
  PROVE  OwnInv'
  <1>1. status' \in Stopped => active = NoAttempt /\ lease' = NoLease
    BY DEF OwnInv, StoppedGraphIsIdle, Stopped, execVars
  <1> QED BY <1>1, LightOwn DEF execVars

-----------------------------------------------------------------------------
\* A ready queue is that of a Graph without an active attempt.
LEMMA FirstIsLowest ==
  ASSUME NEW n \in Nodes, IsFirst(n, Ready)
  PROVE  /\ Lowest(n) /\ active = NoAttempt /\ ~cancelRequested
         /\ status \in {"queued", "running"}
  BY DEF IsFirst, Ready, CanQueue, Lowest

LEMMA SelectOwn ==
  ASSUME IInv, IInv', OwnInv, NEW s \in Runs, NEW n \in Nodes, LoopSelect(s, n)
  PROVE  OwnInv'
  <1> USE DEF OwnInv
  <1>1. /\ Lowest(n) /\ active = NoAttempt /\ ~cancelRequested
        /\ status \in {"queued", "running"}
    BY FirstIsLowest DEF LoopSelect
  <1>2. /\ adm'[s].node = n /\ adm'[s].number = attempts[n] + 1 /\ adm'[s].lease = lease
        /\ \A t \in Runs \ {s} : adm'[t] = adm[t] /\ pc'[t] = pc[t]
        /\ pc'[s] = IF CanReserve(n) THEN "prepare" ELSE "exhausting"
    BY DEF LoopSelect, IInv, RunInv, RunTypeOK
  <1>3. /\ UNCHANGED <<owner, userPc>> /\ UNCHANGED execVars
        /\ CanReserve(n) => lease # NoLease
        /\ pc[s] = "loop" /\ Free
    BY DEF LoopSelect
  <1>4. attempts[n] \in Nat BY DEF IInv, ExecInv, ExecTypeOK
  <1>5. CanReserve(n) <=> Fits(n)
    <2>1. reserved = ZeroBudget /\ consumed \in [Counters -> Nat]
      BY <1>1 DEF IInv, ExecInv, BudgetConserved, ExecTypeOK
    <2>2. \A c \in Counters : Plus(consumed, reserved)[c] = consumed[c]
      BY <2>1 DEF Plus, ZeroBudget
    <2> QED BY <2>1, <2>2, BudgetAssumption DEF CanReserve, Fits, Within
  <1>6. \A t \in Runs : pc[t] \notin MidMutation /\ userPc # "cancelTerminal"
    BY <1>3, ProtectedAlone DEF Protected, Free
  <1>7. Fresh(s)' /\ \A t \in Runs \ {s} : Fresh(t)' <=> Fresh(t)
    BY <1>2, <1>3, <1>4 DEF Fresh, Admitting, Exhausting, execVars
  <1>8. LockHeld' BY <1>2, <1>6, <1>3 DEF LockHeld, MidMutation
  <1>9. HasLease' BY <1>2, <1>3 DEF HasLease, Holding, Admitting
  <1>10. SelectionStands'
    <2>1. Stands(s)'
      BY <1>1, <1>2, <1>3 DEF Stands, Lowest, IsReady, LiveStatuses, execVars
    <2>2. \A t \in Runs \ {s} : Stands(t)' <=> Stands(t)
      BY <1>2, <1>3 DEF Stands, Lowest, IsReady, execVars
    <2> QED BY <2>1, <2>2, <1>1, <1>3, <1>7 DEF SelectionStands, execVars
  <1>11. ExhaustionStands'
    <2>1. pc'[s] \in Exhausting => ~Fits(n)' BY <1>2, <1>3, <1>5 DEF Fits, Within, Exhausting, execVars
    <2>2. \A t \in Runs \ {s} : Fits(adm[t].node)' <=> Fits(adm[t].node)
      BY <1>2, <1>3 DEF Fits, Within, execVars
    <2> QED BY <2>1, <2>2, <1>2, <1>3, <1>7 DEF ExhaustionStands, execVars
  <1>12. QuietAfter' /\ RequestingOwns'
    BY <1>2, <1>6 DEF QuietAfter, RequestingOwns, AfterAttempt, MidMutation
  <1>13. HeldAttemptIsActive' /\ SingleActiveAttempt'
    BY <1>2, <1>3 DEF HeldAttemptIsActive, SingleActiveAttempt, Holding, ActiveId, AdmId, execVars
  <1>14. StoppedGraphIsIdle' /\ ActiveAttemptOwnsWorktree'
    BY <1>3 DEF StoppedGraphIsIdle, ActiveAttemptOwnsWorktree, ActiveId, execVars
  <1> QED BY <1>8, <1>9, <1>10, <1>11, <1>12, <1>13, <1>14

\* The admission: of all the fresh selections only this one was for the first
\* node, so nobody else can be admitted with what was read before.
LEMMA RequestOwn ==
  ASSUME IInv, IInv', OwnInv, NEW s \in Runs, pc[s] \in Admitting,
         AttemptRequested(AdmNode(s), adm[s].number), Moves(s, "admitted"),
         status \in {"queued", "running"}, Protected(s),
         Lineage[AdmNode(s)] = NoWorkspace \/ pc[s] = "requesting"
  PROVE  OwnInv'
  <1> USE DEF OwnInv
  <1> DEFINE n == adm[s].node  k == adm[s].number
  <1>1. n \in Nodes /\ k \in Nat /\ AdmNode(s) = n
    BY AdmittedTypes DEF IInv, NeedsNode, Admitting, MidMutation, AdmNode
  <1>2. /\ Admissible(n, k) /\ attempts' = [attempts EXCEPT ![n] = k]
        /\ active' = [node |-> n, number |-> k, status |-> "requested"]
        /\ UNCHANGED <<status, consumed, lease, cancelRequested, worktree>>
    BY <1>1 DEF AttemptRequested
  <1>3. active = NoAttempt /\ ~cancelRequested /\ k = attempts[n] + 1 /\ attempts \in [Nodes -> Nat]
    BY <1>2 DEF Admissible, IInv, ExecInv, ExecTypeOK
  <1>4. Fresh(s) BY <1>3, <1>1 DEF Fresh
  <1>5. Lowest(n) /\ lease = adm[s].lease
    BY <1>3, <1>4 DEF SelectionStands, Stands
  <1>6. Fits(n)
    <2>1. reserved = ZeroBudget BY <1>3 DEF IInv, ExecInv, BudgetConserved
    <2>2. Plus(reserved, Reservation[n]) = Reservation[n]
      BY <1>1, <2>1, PlusZero, BudgetAssumption
    <2> QED BY <1>2, <2>2 DEF Admissible, Fits
  <1>7. /\ pc'[s] = "admitted" /\ adm'[s] = adm[s] /\ UNCHANGED userPc
        /\ \A t \in Runs \ {s} : pc'[t] = pc[t] /\ adm'[t] = adm[t]
    BY DEF Moves, FinalPc, IInv, RunInv, RunTypeOK
  <1>8. ASSUME NEW t \in Runs, Fresh(t)
        PROVE  /\ adm[t].node = n /\ adm[t].number = k /\ pc[t] \notin Exhausting
    <2>1. Stands(t) BY <1>8, <1>3 DEF SelectionStands
    <2>2. adm[t].node \in Nodes
      BY <1>8, AdmittedTypes
      DEF Fresh, IInv, NeedsNode, Admitting, Exhausting, MidMutation
    <2>3. Lowest(adm[t].node) BY <2>1 DEF Stands
    <2>4. Sequence[n] = Sequence[adm[t].node]
      BY <1>1, <1>5, <2>2, <2>3, GraphAssumption DEF Lowest
    <2>5. adm[t].node = n BY <1>1, <2>2, <2>4, GraphAssumption
    <2>6. adm[t].number = k BY <1>3, <2>1, <2>5 DEF Stands
    <2>7. pc[t] \notin Exhausting BY <1>3, <1>6, <2>5 DEF ExhaustionStands
    <2> QED BY <2>5, <2>6, <2>7
  <1>9. ASSUME NEW t \in Runs PROVE ~Fresh(t)'
    <2>1. CASE t = s BY <2>1, <1>7 DEF Fresh, Admitting, Exhausting
    <2>2. CASE t # s /\ Fresh(t)
      BY <1>1, <1>2, <1>3, <1>7, <1>8, <2>2 DEF Fresh
    <2>3. CASE t # s /\ ~Fresh(t)
      <3>1. (adm[t].node \in Nodes /\ adm[t].number \in Nat) \/ pc[t] \notin Admitting \cup Exhausting
        BY AdmittedTypes DEF IInv, NeedsNode, Admitting, Exhausting, MidMutation
      <3> QED BY <1>1, <1>2, <1>3, <1>7, <2>3, <3>1 DEF Fresh
    <2> QED BY <2>1, <2>2, <2>3
  <1>10. active' # NoAttempt /\ ActiveId' = <<n, k>>
    <2>1. active' \in Attempt BY <1>1, <1>2 DEF Attempt, AttemptStatuses
    <2>2. active' # NoAttempt BY <2>1, AttemptIsSome
    <2> QED BY <1>2, <2>2 DEF ActiveId
  <1>11. \A t \in Runs \ {s} : pc'[t] \notin Holding
    BY <1>3, <1>7, HoldingIsActive
  <1>12. \A t \in Runs \ {s} : pc[t] \notin MidMutation /\ userPc # "cancelTerminal"
    BY ProtectedAlone
  <1>13. userPc' # "cancelTerminal" BY <1>7, ProtectedAlone
  <1>14. LockHeld' BY <1>7, <1>12, <1>13 DEF LockHeld, MidMutation
  <1>15. HasLease' BY <1>7 DEF HasLease, Admitting, Holding
  <1>16. SelectionStands' BY <1>9 DEF SelectionStands
  <1>17. ExhaustionStands'
    BY <1>7, <1>8 DEF ExhaustionStands, Exhausting
  <1>18. QuietAfter' /\ RequestingOwns'
    BY <1>7, <1>12 DEF QuietAfter, RequestingOwns, AfterAttempt, MidMutation
  <1>19. HeldAttemptIsActive'
    BY <1>2, <1>5, <1>7, <1>10, <1>11 DEF HeldAttemptIsActive, AdmId
  <1>20. SingleActiveAttempt' BY <1>11 DEF SingleActiveAttempt
  <1>21. StoppedGraphIsIdle' BY <1>2 DEF StoppedGraphIsIdle
  <1>22. ActiveAttemptOwnsWorktree'
    <2>1. active'.node = n BY <1>2
    <2>2. Lineage[n] # NoWorkspace => worktree[Lineage[n]] = <<n, k>>
      BY <1>1 DEF RequestingOwns, RequestingRun, AdmId
    <2> QED BY <1>2, <1>10, <2>1, <2>2 DEF ActiveAttemptOwnsWorktree
  <1> QED BY <1>14, <1>15, <1>16, <1>17, <1>18, <1>19, <1>20, <1>21, <1>22

-----------------------------------------------------------------------------
\* The steps after which a run has nothing selected and holds nothing.
LEMMA IdleRunOwn ==
  ASSUME IInv, IInv', OwnInv, NEW s \in Runs,
         \/ RunBegins(s) \/ EnsureRunning(s) \/ EnsureRefused(s) \/ DelegationNone(s)
         \/ LoopAborted(s) \/ LoopNothingReady(s) \/ (\E n \in Nodes : LoopNoLease(s, n))
         \/ ExhaustRefused(s) \/ PrepareFails(s) \/ AdmitCancelled(s) \/ AdmitRefused(s)
         \/ AdmitWorktreeRefused(s) \/ AdmitAppendRefused(s) \/ TerminalRefused(s)
         \/ SettleContinue(s) \/ WaitTerminalRefused(s) \/ LockBusy(s) \/ Crash(s)
  PROVE  OwnInv'
  <1>1. PICK l \in {"ensure", "owned", "loop", "returned", "threw", "crashed"} :
          Goto(s, l) /\ UNCHANGED execVars /\ (owner' = owner \/ Protected(s))
    BY DEF RunBegins, EnsureRunning, EnsureRefused, DelegationNone, LoopAborted,
           LoopNothingReady, LoopNoLease, ExhaustRefused, PrepareFails, AdmitCancelled,
           AdmitRefused, AdmitWorktreeRefused, AdmitAppendRefused, TerminalRefused,
           SettleContinue, WaitTerminalRefused, LockBusy, Crash, AfterTerminal, Protected, Free
  <1>2. MayGo(s, l) /\ l \notin MidMutation
    BY DEF MayGo, Holding, Admitting, Exhausting, AfterAttempt, MidMutation
  <1> QED BY <1>1, <1>2, GotoMoves, IdleOwn

\* The steps of an executor that the record does not see.
LEMMA ExecutorOwn ==
  ASSUME IInv, IInv', OwnInv, NEW s \in Runs, StartFails(s) \/ ExecutorEnds(s) \/ Abort(s)
  PROVE  OwnInv'
  <1>1. PICK l \in {"terminal", "waiting", pc[s]} : Moves(s, l) /\ MayGo(s, l)
    <2>1. CASE Abort(s)
      <3>1. Moves(s, pc[s])
        BY <2>1 DEF Abort, Moves, IInv, RunInv, RunTypeOK
      <3>2. pc[s] = "requesting" => RequestingRun(s)'
        BY <2>1 DEF Abort, OwnInv, RequestingOwns, RequestingRun, AdmId, execVars
      <3> QED BY <3>1, <3>2 DEF MayGo
    <2>2. CASE StartFails(s)
      <3>1. Moves(s, "terminal") BY <2>2 DEF StartFails, Moves
      <3>2. MayGo(s, "terminal")
        BY <2>2 DEF StartFails, MayGo, Holding, Admitting, Exhausting, AfterAttempt
      <3> QED BY <3>1, <3>2
    <2>3. CASE ExecutorEnds(s)
      <3>1. PICK l \in {"terminal", "waiting"} : Moves(s, l)
        BY <2>3 DEF ExecutorEnds, Moves
      <3>2. MayGo(s, l)
        BY <2>3 DEF ExecutorEnds, MayGo, Holding, Admitting, Exhausting, AfterAttempt
      <3> QED BY <3>1, <3>2
    <2> QED BY <2>1, <2>2, <2>3
  <1>2. UNCHANGED execVars /\ owner' = owner
    BY DEF StartFails, ExecutorEnds, Abort
  <1>3. l \in MidMutation => owner' = s
    BY <1>2 DEF OwnInv, LockHeld, MidMutation
  <1> QED BY <1>1, <1>2, <1>3, IdleOwn

\* The steps that change the status of the Graph, its blocker or its lease.
LEMMA GraphRunOwn ==
  ASSUME IInv, IInv', OwnInv, NEW s \in Runs,
         \/ EnsureLease(s) \/ EnsureStarted(s) \/ DelegationWait(s) \/ ExhaustBudget(s)
         \/ ExhaustGraph(s) \/ SettleFailed(s) \/ SettleFinished(s) \/ WaitLease(s) \/ WaitGraph(s)
  PROVE  OwnInv'
  <1> USE DEF MayGo, Holding, Admitting, Exhausting, AfterAttempt, MidMutation, Protected, Free
  <1>a. status \in Stopped => active = NoAttempt /\ lease = NoLease
    BY DEF OwnInv, StoppedGraphIsIdle, Stopped
  <1>b. active = NoAttempt => \A t \in Runs : pc[t] \notin Holding
    BY HoldingIsActive
  <1>c. \A l : Goto(s, l) => /\ Moves(s, l)
                             /\ pc'[s] = l /\ \A t \in Runs \ {s} : pc'[t] = pc[t]
    BY GotoMoves DEF Moves, IInv, RunInv, RunTypeOK
  <1>d. pc[s] \in AfterAttempt => active = NoAttempt /\ NoneFresh
    BY DEF OwnInv, QuietAfter
  <1>1. CASE EnsureLease(s)
    <2>1. lease = NoLease /\ status = "queued" /\ Moves(s, "starting")
          /\ owner = Nobody /\ owner' = s
          /\ UNCHANGED <<status, nodeStatus, attempts, active, consumed, worktree, cancelRequested>>
      BY <1>1, <1>c DEF EnsureLease, LeaseAcquired
    <2>2. ASSUME NEW t \in Runs
          PROVE  /\ pc'[t] \notin Holding
                 /\ Fresh(t) /\ pc[t] \in Admitting => cancelRequested
      <3>1. pc[t] \notin Holding
        BY <2>1, HoldingIsActive DEF OwnInv, HasLease
      <3>2. Fresh(t) /\ pc[t] \in Admitting => cancelRequested
        BY <2>1 DEF OwnInv, HasLease, SelectionStands, Stands
      <3> QED BY <1>1, <1>c, <3>1, <3>2 DEF EnsureLease
    <2>3. MayGo(s, "starting") OBVIOUS
    <2> QED BY <2>1, <2>2, <2>3, LightOwn DEF LiveStatuses, Stopped
  <1>2. CASE EnsureStarted(s)
    <2>1. /\ Moves(s, "owned") /\ owner = s /\ status' = "running" /\ status = "queued"
          /\ UNCHANGED <<nodeStatus, attempts, active, consumed, worktree, cancelRequested, lease>>
      BY <1>2, <1>c DEF EnsureStarted, GraphStarted
    <2>2. MayGo(s, "owned") OBVIOUS
    <2> QED BY <2>1, <2>2, LightOwn DEF LiveStatuses, Stopped
  <1>3. CASE DelegationWait(s) \/ WaitGraph(s)
    <2>1. /\ Moves(s, "returned") /\ Protected(s) /\ status' = "waiting_for_user"
          /\ status \in {"queued", "running"}
          /\ UNCHANGED <<nodeStatus, attempts, active, consumed, worktree, cancelRequested, lease>>
      BY <1>3, <1>c DEF DelegationWait, WaitGraph, GraphWaiting
    <2>2. MayGo(s, "returned") OBVIOUS
    <2> QED BY <2>1, <2>2, LightOwn DEF LiveStatuses, Stopped
  <1>4. CASE ExhaustBudget(s)
    <2>1. /\ Moves(s, "blocking") /\ pc[s] = "exhausting" /\ owner = Nobody /\ owner' = s
          /\ UNCHANGED <<nodeStatus, attempts, active, consumed, worktree, cancelRequested,
                         lease, status>>
      BY <1>4, <1>c DEF ExhaustBudget, BudgetExhausted
    <2>2. MayGo(s, "blocking") BY <2>1
    <2> QED BY <1>a, <2>1, <2>2, LightOwn
  <1>5. CASE ExhaustGraph(s)
    <2>1. /\ Moves(s, "returned") /\ Protected(s) /\ pc[s] = "blocking"
          /\ status' = "blocked" /\ lease' = NoLease
          /\ UNCHANGED <<nodeStatus, attempts, active, consumed, worktree, cancelRequested>>
      BY <1>5, <1>c DEF ExhaustGraph, GraphTerminal
    <2>2. active = NoAttempt
      BY <2>1 DEF OwnInv, ExhaustionStands, SelectionStands
    <2>3. \A t \in Runs : pc'[t] \notin Holding
      BY <1>5, <1>b, <1>c, <2>2 DEF ExhaustGraph
    <2>4. MayGo(s, "returned") OBVIOUS
    <2> QED BY <2>1, <2>2, <2>3, <2>4, LightOwn
  <1>6. CASE SettleFailed(s) \/ SettleFinished(s)
    <2>1. PICK l \in {"returned", "loop"} :
          /\ Goto(s, l) /\ Protected(s) /\ pc[s] = "settling" /\ status \in ActiveGraph
          /\ lease' = NoLease
          /\ UNCHANGED <<nodeStatus, attempts, active, consumed, worktree, cancelRequested>>
      BY <1>6 DEF SettleFailed, SettleFinished, GraphTerminal, AfterTerminal
    <2>2. active = NoAttempt /\ NoneFresh BY <1>d, <2>1
    <2>3. \A t \in Runs : pc'[t] \notin Holding BY <1>b, <1>c, <2>1, <2>2
    <2>4. MayGo(s, l) /\ Moves(s, l) BY <1>c, <2>1
    <2>5. status # "blocked" BY <2>1 DEF ActiveGraph
    <2> QED BY <2>1, <2>2, <2>3, <2>4, <2>5, LightOwn DEF NoneFresh
  <1>7. CASE WaitLease(s)
    <2>1. /\ Goto(s, "waitGraph") /\ Protected(s) /\ pc[s] = "waitLease"
          /\ lease' = NoLease /\ owner' = owner /\ owner = s /\ status' = status
          /\ UNCHANGED <<nodeStatus, attempts, active, consumed, worktree, cancelRequested>>
      BY <1>7 DEF WaitLease, LeaseRecovered
    <2>2. active = NoAttempt /\ NoneFresh BY <1>d, <2>1
    <2>3. \A t \in Runs : pc'[t] \notin Holding BY <1>b, <1>c, <2>1, <2>2
    <2>4. MayGo(s, "waitGraph") /\ Moves(s, "waitGraph") BY <1>c, <2>1
    <2> QED BY <1>a, <2>1, <2>2, <2>3, <2>4, LightOwn DEF NoneFresh
  <1> QED BY <1>1, <1>2, <1>3, <1>4, <1>5, <1>6, <1>7

\* The worktree is leased before the admission and released after the terminal.
LEMMA WorktreeOwn ==
  ASSUME IInv, IInv', OwnInv, NEW s \in Runs,
         AdmitWorktree(s) \/ TerminalRelease(s) \/ WaitRelease(s)
  PROVE  OwnInv'
  <1> USE DEF MayGo, Holding, Admitting, Exhausting, AfterAttempt, MidMutation, Protected, Free
  <1>1. /\ UNCHANGED <<status, nodeStatus, attempts, active, consumed, lease, cancelRequested>>
        /\ Protected(s) /\ owner' = s
    BY DEF AdmitWorktree, TerminalRelease, WaitRelease, WorktreeLeaseAcquired,
           WorktreeLeaseReleased
  <1>2. active = NoAttempt
    BY DEF AdmitWorktree, StillFirst, TerminalRelease, WaitRelease, OwnInv, QuietAfter
  <1>3. PICK l \in {"requesting", "settling", "waitLease"} : Moves(s, l) /\ MayGo(s, l)
    <2>1. CASE AdmitWorktree(s)
      <3>1. Moves(s, "requesting") /\ pc[s] = "prepare" /\ IsFirst(AdmNode(s), Ready)
        BY <2>1, GotoMoves DEF AdmitWorktree, StillFirst
      <3>2. AdmNode(s) \in Nodes /\ adm[s].node = AdmNode(s) /\ adm'[s] = adm[s]
        BY <3>1, AdmittedTypes DEF IInv, NeedsNode, Moves, FinalPc, AdmNode
      <3>3. status \in {"queued", "running"} BY <3>1, <3>2, FirstIsLowest
      <3>4. /\ Lineage[AdmNode(s)] # NoWorkspace
            /\ worktree'[Lineage[AdmNode(s)]] = <<AdmNode(s), adm[s].number>>
        BY <2>1, <3>2, GraphAssumption
        DEF AdmitWorktree, WorktreeLeaseAcquired, IInv, ExecInv, ExecTypeOK
      <3>5. RequestingRun(s)'
        BY <1>1, <1>2, <3>2, <3>3, <3>4 DEF RequestingRun, AdmId
      <3> QED BY <3>1, <3>5
    <2>2. CASE TerminalRelease(s)
      BY <2>2, GotoMoves DEF TerminalRelease
    <2>3. CASE WaitRelease(s)
      BY <2>3, GotoMoves DEF WaitRelease
    <2> QED BY <2>1, <2>2, <2>3
  <1>4. \A t \in Runs : Keeps(t) BY <1>1, <1>3, MoveKeeps
  <1>5. LockHeld' BY <1>1, <1>3, MoveLocks
  <1>6. ActiveId' = ActiveId /\ ActiveAttemptOwnsWorktree'
    BY <1>1, <1>2 DEF ActiveId, ActiveAttemptOwnsWorktree
  <1>7. status' \in Stopped => active' = NoAttempt /\ lease' = NoLease
    BY <1>1 DEF OwnInv, StoppedGraphIsIdle, Stopped
  <1> QED BY <1>1, <1>4, <1>5, <1>6, <1>7, OwnStep

\* A held attempt starts, waits or ends.
LEMMA AttemptOwn ==
  ASSUME IInv, IInv', OwnInv, NEW s \in Runs,
         StartSucceeds(s) \/ WaitAttempt(s) \/ TerminalAppend(s) \/ WaitTerminal(s)
  PROVE  OwnInv'
  <1> USE DEF MayGo, Holding, Admitting, Exhausting, AfterAttempt, MidMutation, Protected, Free
  <1>1. pc[s] \in Holding /\ Protected(s)
    BY DEF StartSucceeds, WaitAttempt, TerminalAppend, WaitTerminal
  <1>2. active # NoAttempt /\ ActiveId = AdmId(s) /\ lease = adm[s].lease /\ NoneFresh
    BY <1>1, HoldingIsActive, ActiveIsStale
  <1>3. active \in Attempt /\ active.node = adm[s].node /\ active.number = adm[s].number
    BY <1>2 DEF IInv, ExecInv, ExecTypeOK, ActiveId, AdmId
  <1>4. status \notin Stopped BY <1>2 DEF OwnInv, StoppedGraphIsIdle, Stopped
  <1>5. UNCHANGED <<status, attempts, lease, cancelRequested, worktree>>
    BY DEF StartSucceeds, WaitAttempt, TerminalAppend, WaitTerminal, AttemptStarted,
           AttemptWaiting, AttemptTerminal
  <1>6. CASE StartSucceeds(s) \/ WaitAttempt(s)
    <2>1. PICK l \in {"executing", "waitTerminal"} :
            Moves(s, l) /\ (l = "waitTerminal" => owner' = s)
      BY <1>6, GotoMoves DEF StartSucceeds, WaitAttempt
    <2>2. MayGo(s, l) BY <1>1
    <2>3. PICK st \in AttemptStatuses : active' = [active EXCEPT !.status = st]
      BY <1>6 DEF StartSucceeds, WaitAttempt, AttemptStarted, AttemptWaiting, AttemptStatuses
    <2>4. active' \in Attempt /\ active'.node = active.node /\ active'.number = active.number
      BY <1>3, <2>3 DEF Attempt
    <2>5. active' # NoAttempt BY <2>4, AttemptIsSome
    <2>6. ActiveId' = ActiveId BY <1>2, <2>4, <2>5 DEF ActiveId
    <2>7. ActiveAttemptOwnsWorktree'
      BY <1>2, <1>5, <2>4, <2>5, <2>6 DEF OwnInv, ActiveAttemptOwnsWorktree
    <2>8. \A t \in Runs : Keeps(t) BY <1>1, <2>1, <2>2, MoveKeeps
    <2>9. LockHeld' BY <1>1, <2>1, MoveLocks
    <2> QED BY <1>2, <1>4, <1>5, <2>5, <2>6, <2>7, <2>8, <2>9, OwnStep
  <1>7. CASE TerminalAppend(s) \/ WaitTerminal(s)
    <2>1. active' = NoAttempt
      BY <1>7 DEF TerminalAppend, WaitTerminal, AttemptTerminal
    <2>2. PICK l \in AfterAttempt : Moves(s, l) /\ owner' = s
      BY <1>7, GotoMoves DEF TerminalAppend, WaitTerminal
    <2>3. MayGo(s, l) BY <1>2, <2>1
    <2>4. \A t \in Runs : Keeps(t) BY <1>1, <2>2, <2>3, MoveKeeps
    <2>5. LockHeld' BY <1>1, <2>2, MoveLocks
    <2>6. \A t \in Runs : pc'[t] \notin Holding
      BY <1>1, <2>2 DEF OwnInv, SingleActiveAttempt, Moves, IInv, RunInv, RunTypeOK
    <2>7. ActiveAttemptOwnsWorktree' BY <2>1 DEF ActiveAttemptOwnsWorktree
    <2> QED BY <1>2, <1>4, <1>5, <2>1, <2>4, <2>5, <2>6, <2>7, OwnStep
  <1> QED BY <1>6, <1>7

\* A dependent is skipped inside the mutation that ended an attempt.
LEMMA SkipOwn ==
  ASSUME IInv, IInv', OwnInv, NEW s \in Runs, NEW n \in Nodes, SettleSkip(s, n)
  PROVE  OwnInv'
  <1>1. /\ UNCHANGED runVars
        /\ UNCHANGED <<status, attempts, active, consumed, lease, cancelRequested, worktree>>
    BY DEF SettleSkip, NodeSkipped
  <1>2. NoneFresh
    BY DEF SettleSkip, OwnInv, QuietAfter, AfterAttempt
  <1>3. \A t \in Runs : Keeps(t)
    BY <1>1 DEF Keeps, runVars
  <1>4. LockHeld' BY <1>1 DEF OwnInv, LockHeld, runVars
  <1>5. ActiveId' = ActiveId /\ ActiveAttemptOwnsWorktree'
    BY <1>1 DEF OwnInv, ActiveId, ActiveAttemptOwnsWorktree
  <1>6. status' \in Stopped => active' = NoAttempt /\ lease' = NoLease
    BY <1>1 DEF OwnInv, StoppedGraphIsIdle, Stopped
  <1> QED BY <1>1, <1>2, <1>3, <1>4, <1>5, <1>6, OwnStep

LEMMA RunStepOwn ==
  ASSUME IInv, IInv', OwnInv, NEW s \in Runs,
         RunBegins(s) \/ RunSteps(s) \/ Abort(s) \/ Crash(s)
  PROVE  OwnInv'
  <1>1. ASSUME NEW n \in Nodes, LoopSelect(s, n) PROVE OwnInv' BY <1>1, SelectOwn
  <1>2. ASSUME NEW n \in Nodes, LoopNoLease(s, n) PROVE OwnInv' BY <1>2, IdleRunOwn
  <1>3. CASE AdmitReadOnly(s)
    <2>1. /\ pc[s] = "prepare" /\ IsFirst(AdmNode(s), Ready) /\ Protected(s)
          /\ Moves(s, "admitted")
      BY <1>3, GotoMoves DEF AdmitReadOnly, StillFirst, Protected, Free
    <2>2. status \in {"queued", "running"}
      BY <2>1, AdmittedTypes, FirstIsLowest DEF IInv, NeedsNode
    <2> QED BY <1>3, <2>1, <2>2, RequestOwn DEF AdmitReadOnly, Admitting
  <1>4. CASE AdmitRequest(s)
    <2>1. pc[s] = "requesting" /\ Protected(s) /\ Moves(s, "admitted")
      BY <1>4, GotoMoves DEF AdmitRequest, Protected
    <2>2. status \in {"queued", "running"}
      BY <2>1 DEF OwnInv, RequestingOwns, RequestingRun
    <2> QED BY <1>4, <2>1, <2>2, RequestOwn DEF AdmitRequest, Admitting
  <1>5. ASSUME NEW n \in Nodes, SettleSkip(s, n) PROVE OwnInv' BY <1>5, SkipOwn
  <1> QED
    BY <1>1, <1>2, <1>3, <1>4, <1>5, IdleRunOwn, ExecutorOwn, GraphRunOwn, WorktreeOwn,
       AttemptOwn DEF RunSteps

\* The control plane: enqueue, cancel and retry.
LEMMA UserOwn ==
  ASSUME IInv, IInv', OwnInv, UserSteps \/ CancelCrash
  PROVE  OwnInv'
  <1> USE DEF Free
  <1>a. UNCHANGED <<pc, adm, attempts, active, worktree>>
    BY DEF UserSteps, CancelCrash, Enqueue, Cancel, CancelTerminal, Retry, GraphEnqueued,
           CancelRequested, GraphTerminal, RetryRequested, runVars, execVars
  <1>b. ActiveId' = ActiveId /\ ActiveAttemptOwnsWorktree'
    BY <1>a DEF OwnInv, ActiveId, ActiveAttemptOwnsWorktree
  <1>c. \A t \in Runs : pc[t] \notin MidMutation
    BY RunsAssumption
    DEF OwnInv, LockHeld, UserSteps, CancelCrash, Enqueue, Cancel, CancelTerminal, Retry
  <1>d. \A t \in Runs : Keeps(t)
    BY <1>a, <1>c DEF Keeps, MidMutation
  <1>e. status \in Stopped => active = NoAttempt /\ lease = NoLease
    BY DEF OwnInv, StoppedGraphIsIdle, Stopped
  <1>1. CASE Enqueue
    <2>1. /\ status \in {"approved", "waiting_for_user"} /\ status' = "queued"
          /\ UNCHANGED <<nodeStatus, consumed, lease, cancelRequested, owner, userPc>>
      BY <1>1 DEF Enqueue, GraphEnqueued, runVars
    <2>2. LockHeld' BY <1>a, <2>1 DEF OwnInv, LockHeld
    <2> QED BY <1>a, <1>b, <1>d, <2>1, <2>2, OwnStep DEF LiveStatuses, Stopped
  <1>2. CASE Cancel
    <2>1. cancelRequested' = TRUE /\ UNCHANGED <<status, nodeStatus, consumed, lease>>
      BY <1>2 DEF Cancel, CancelRequested
    <2>2. LockHeld' BY <1>2, <1>a, <1>c, <2>1 DEF OwnInv, LockHeld, Cancel
    <2> QED BY <1>a, <1>b, <1>d, <1>e, <2>1, <2>2, OwnStep
  <1>3. CASE CancelTerminal
    <2>1. /\ status \in ActiveGraph /\ lease' = NoLease
          /\ UNCHANGED <<nodeStatus, consumed, cancelRequested>>
          /\ userPc' = "idle"
      BY <1>3 DEF CancelTerminal, GraphTerminal
    <2>2. active = NoAttempt /\ cancelRequested BY <1>3 DEF CancelTerminal, OwnInv, LockHeld
    <2>3. LockHeld' BY <1>a, <1>c, <2>1 DEF LockHeld
    <2>4. \A t \in Runs : pc'[t] \notin Holding BY <1>a, <2>2, HoldingIsActive
    <2>5. status # "blocked" BY <2>1 DEF ActiveGraph
    <2> QED BY <1>a, <1>b, <1>d, <2>1, <2>2, <2>3, <2>4, <2>5, OwnStep
  <1>4. CASE CancelCrash
    <2>1. UNCHANGED <<status, nodeStatus, consumed, lease, cancelRequested>> /\ userPc' = "idle"
      BY <1>4 DEF CancelCrash, execVars
    <2>2. LockHeld' BY <1>a, <1>c, <2>1 DEF LockHeld
    <2> QED BY <1>a, <1>b, <1>d, <1>e, <2>1, <2>2, OwnStep
  <1>5. ASSUME NEW n \in Nodes, Retry(n) PROVE OwnInv'
    <2>1. /\ status \in {"failed", "cancelled"} /\ status' = "waiting_for_user"
          /\ UNCHANGED <<consumed, lease, cancelRequested, owner, userPc>>
      BY <1>5 DEF Retry, RetryRequested, runVars
    <2>2. LockHeld' BY <1>a, <2>1 DEF OwnInv, LockHeld
    <2>3. cancelRequested \/ NoneFresh
      BY <2>1 DEF OwnInv, SelectionStands, Stands, LiveStatuses, NoneFresh
    <2> QED BY <1>a, <1>b, <1>d, <2>1, <2>2, <2>3, OwnStep DEF LiveStatuses, Stopped
  <1> QED BY <1>1, <1>2, <1>3, <1>4, <1>5 DEF UserSteps

-----------------------------------------------------------------------------
LEMMA InitOwn == ASSUME Init PROVE OwnInv
  <1>1. /\ \A s \in Runs : pc[s] = "idle"
        /\ userPc = "idle" /\ active = NoAttempt /\ lease = NoLease
    BY DEF Init, ExecInit
  <1>2. \A s \in Runs : /\ pc[s] \notin MidMutation \cup Holding \cup Admitting
                        /\ pc[s] \notin Exhausting \cup AfterAttempt
    BY <1>1 DEF MidMutation, Holding, Admitting, Exhausting, AfterAttempt
  <1>3. LockHeld /\ HasLease /\ RequestingOwns
    BY <1>1, <1>2 DEF LockHeld, HasLease, RequestingOwns
  <1>4. SelectionStands /\ ExhaustionStands /\ QuietAfter
    BY <1>2 DEF SelectionStands, ExhaustionStands, QuietAfter, Fresh
  <1>5. HeldAttemptIsActive /\ SingleActiveAttempt
    BY <1>2 DEF HeldAttemptIsActive, SingleActiveAttempt
  <1>6. StoppedGraphIsIdle /\ ActiveAttemptOwnsWorktree
    BY <1>1 DEF StoppedGraphIsIdle, ActiveAttemptOwnsWorktree
  <1> QED BY <1>3, <1>4, <1>5, <1>6 DEF OwnInv

LEMMA StutterOwn ==
  ASSUME IInv, IInv', OwnInv, UNCHANGED vars
  PROVE  OwnInv'
  <1> USE DEF vars, execVars, runVars
  <1>1. \A t \in Runs : Keeps(t) BY DEF Keeps
  <1>2. LockHeld' /\ ActiveAttemptOwnsWorktree' /\ ActiveId' = ActiveId
    BY DEF OwnInv, LockHeld, ActiveAttemptOwnsWorktree, ActiveId
  <1>3. status' \in Stopped => active' = NoAttempt /\ lease' = NoLease
    BY DEF OwnInv, StoppedGraphIsIdle, Stopped
  <1> QED BY <1>1, <1>2, <1>3, OwnStep

\* Who answers for an attempt is settled by the admission alone, for every
\* number of runs, crashes, aborts, cancels and retries.
THEOREM OwnershipInvariant == Spec => []OwnInv
  <1>1. Init => OwnInv BY InitOwn
  <1>2. IInv /\ IInv' /\ OwnInv /\ [Next]_vars => OwnInv'
    <2> SUFFICES ASSUME IInv, IInv', OwnInv, [Next]_vars PROVE OwnInv' OBVIOUS
    <2>1. CASE UNCHANGED vars BY <2>1, StutterOwn
    <2>2. ASSUME NEW s \in Runs, RunBegins(s) \/ RunSteps(s) \/ Abort(s) \/ Crash(s)
          PROVE  OwnInv'
      BY <2>2, RunStepOwn
    <2>3. CASE UserSteps \/ CancelCrash BY <2>3, UserOwn
    <2> QED BY <2>1, <2>2, <2>3 DEF Next
  <1> QED BY <1>1, <1>2, InductiveInvariant, PTL DEF Spec

\* At most one run answers for an unfinished attempt, although snapshot,
\* workspace preparation and admission (#admit) are separate lock holds.
THEOREM SingleAttemptSafety == Spec => []SingleActiveAttempt
  <1>1. OwnInv => SingleActiveAttempt BY DEF OwnInv
  <1> QED BY <1>1, OwnershipInvariant, PTL

\* From its admission to its terminal event an attempt stays the active one
\* under its lease: the ownership tests of #terminal and #waiting never refuse.
THEOREM HeldAttemptSafety == Spec => []HeldAttemptIsActive
  <1>1. OwnInv => HeldAttemptIsActive BY DEF OwnInv
  <1> QED BY <1>1, OwnershipInvariant, PTL

\* Whoever stops the Graph (cancel, #terminal, budget exhaustion) leaves
\* neither an active attempt nor a scheduler lease behind.
THEOREM StoppedGraphSafety == Spec => []StoppedGraphIsIdle
  <1>1. OwnInv => StoppedGraphIsIdle BY DEF OwnInv
  <1> QED BY <1>1, OwnershipInvariant, PTL

\* The worktree of a writing node is leased to its active attempt from the
\* admission to the terminal event, whatever other runs lease or release.
THEOREM WorktreeSafety == Spec => []ActiveAttemptOwnsWorktree
  <1>1. OwnInv => ActiveAttemptOwnsWorktree BY DEF OwnInv
  <1> QED BY <1>1, OwnershipInvariant, PTL

=============================================================================
