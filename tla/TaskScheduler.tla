---------------------------- MODULE TaskScheduler ----------------------------
(***************************************************************************)
(* The processes that write the execution record of TaskExecution:        *)
(*                                                                         *)
(*   - Runs: invocations of DeterministicTaskScheduler.run (foreground     *)
(*     `graph run`, or a background worker).  A run is used once, so its    *)
(*     name also stands for the lease nonce it draws.                      *)
(*   - the user's control plane: enqueue, cancel and retry                 *)
(*     (TaskExecutionControlPlane).                                        *)
(*                                                                         *)
(* Every mutation opens a session writer under the session lock, projects  *)
(* the log, appends one or more events and closes.  Each append is one     *)
(* step here: a process may crash between two appends of one mutation, and *)
(* its lock is then recovered.  `owner` is the holder of the session lock. *)
(* A mutation of a single append is one step with owner free before and    *)
(* after.  Reads under the lock that append nothing are merged into the    *)
(* step that uses what they read.                                          *)
(*                                                                         *)
(* The executor (agent loop, verification runner, worktree manager) is     *)
(* external: it may end an attempt in any terminal, and use anything up to *)
(* one unit over its reservation.                                          *)
(***************************************************************************)
EXTENDS TaskExecution

CONSTANTS
  Runs, User, Nobody,
  UseBound      \* the bound on what one attempt may report of a counter

ASSUME RunsAssumption ==
  /\ Leases = Runs
  /\ User \notin Runs
  /\ Nobody \notin Runs \cup {User}
  /\ UseBound \in Nat \ {0}

VARIABLES
  owner,     \* the process that holds the session lock
  pc,        \* where each run is
  adm,       \* AdmittedTaskAttemptV1: node, attempt number, lease nonce
  res,       \* the executor's result: terminal and budget
  aborted,   \* AbortSignal
  userPc     \* where the control plane is inside cancel

runVars == <<owner, pc, adm, res, aborted, userPc>>
vars == <<execVars, runVars>>

FinalPc == {"returned", "threw", "crashed"}
PcStates == FinalPc \cup
  {"idle", "ensure", "starting", "owned", "loop", "exhausting", "blocking",
   "prepare", "requesting", "admitted", "executing", "terminal", "releasing",
   "settling", "waiting", "waitTerminal", "waitReleasing", "waitLease",
   "waitGraph"}
\* The states in which a run is between two appends of one mutation.
MidMutation == {"starting", "blocking", "requesting", "releasing", "settling",
                "waitTerminal", "waitReleasing", "waitLease", "waitGraph"}
\* The states in which a run is answerable for an admitted attempt.
Holding == {"admitted", "executing", "terminal", "waiting", "waitTerminal"}

NoAdmission == [node |-> NoAttempt, number |-> 0, lease |-> NoLease]
NoResult == [terminal |-> "none", used |-> ZeroBudget]
AdmId(s) == <<adm[s].node, adm[s].number>>
AdmNode(s) == adm[s].node

Init ==
  /\ ExecInit
  /\ owner = Nobody
  /\ pc = [s \in Runs |-> "idle"]
  /\ adm = [s \in Runs |-> NoAdmission]
  /\ res = [s \in Runs |-> NoResult]
  /\ aborted = [s \in Runs |-> FALSE]
  /\ userPc = "idle"

-----------------------------------------------------------------------------
(* Steps of a run.  Goto(s, l) moves its control; the locals die with it.  *)

Free == owner = Nobody

Goto(s, l) ==
  /\ pc' = [pc EXCEPT ![s] = l]
  /\ IF l \in FinalPc
     THEN /\ adm' = [adm EXCEPT ![s] = NoAdmission]
          /\ res' = [res EXCEPT ![s] = NoResult]
          /\ aborted' = [aborted EXCEPT ![s] = FALSE]
     ELSE UNCHANGED <<adm, res, aborted>>
  /\ UNCHANGED userPc

\* `graph run` / the worker calls the scheduler for an enqueued Graph.
RunBegins(s) ==
  /\ pc[s] = "idle"
  /\ status # "approved"
  /\ Goto(s, "ensure")
  /\ UNCHANGED owner /\ UNCHANGED execVars

\* #ensureStarted of a Graph somebody already started: the lease is reused.
EnsureRunning(s) ==
  /\ pc[s] = "ensure" /\ Free
  /\ status = "running"
  /\ Goto(s, "owned")
  /\ UNCHANGED owner /\ UNCHANGED execVars

EnsureLease(s) ==
  /\ pc[s] = "ensure" /\ Free
  /\ status = "queued"
  /\ LeaseAcquired(s)
  /\ owner' = s
  /\ Goto(s, "starting")

EnsureStarted(s) ==
  /\ pc[s] = "starting" /\ owner = s
  /\ GraphStarted(s)
  /\ owner' = Nobody
  /\ Goto(s, "owned")

EnsureRefused(s) ==
  /\ pc[s] = "ensure" /\ Free
  /\ status # "running"
  /\ status = "queued" => lease # NoLease
  /\ Goto(s, "threw")
  /\ UNCHANGED owner /\ UNCHANGED execVars

\* The background worker, before it runs any node, waits for a foreground
\* approval of a delegation: it appends the wait and stops.
DelegationWait(s) ==
  /\ pc[s] = "owned" /\ Free
  /\ active = NoAttempt
  /\ GraphWaiting
  /\ Goto(s, "returned")
  /\ UNCHANGED owner

DelegationNone(s) ==
  /\ pc[s] = "owned"
  /\ Goto(s, "loop")
  /\ UNCHANGED owner /\ UNCHANGED execVars

\* The loop head, aborted: a cancelled Graph is a clean return, anything else
\* with no active attempt is an error.
LoopAborted(s) ==
  /\ pc[s] = "loop" /\ Free
  /\ aborted[s] /\ active = NoAttempt
  /\ Goto(s, IF status = "cancelled" THEN "returned" ELSE "threw")
  /\ UNCHANGED owner /\ UNCHANGED execVars

\* #admit found no ready node: the run returns whatever the status is.
LoopNothingReady(s) ==
  /\ pc[s] = "loop" /\ Free
  /\ ~(aborted[s] /\ active = NoAttempt)
  /\ Ready = {}
  /\ Goto(s, "returned")
  /\ UNCHANGED owner /\ UNCHANGED execVars

CanReserve(n) == Within(Reservation[n], Plus(consumed, reserved), GraphBudget)

\* #admit selects the first ready node from the snapshot; the lock is
\* released before the workspace is prepared.
LoopSelect(s, n) ==
  /\ pc[s] = "loop" /\ Free
  /\ ~aborted[s]
  /\ IsFirst(n, Ready)
  /\ CanReserve(n) => lease # NoLease
  /\ adm' = [adm EXCEPT ![s] = [node |-> n, number |-> attempts[n] + 1,
                                lease |-> lease]]
  /\ pc' = [pc EXCEPT ![s] = IF CanReserve(n) THEN "prepare" ELSE "exhausting"]
  /\ UNCHANGED <<owner, res, aborted, userPc>>
  /\ UNCHANGED execVars

\* The Graph was parked and enqueued again since this run claimed it.
LoopNoLease(s, n) ==
  /\ pc[s] = "loop" /\ Free
  /\ ~aborted[s]
  /\ IsFirst(n, Ready)
  /\ CanReserve(n) /\ lease = NoLease
  /\ Goto(s, "threw")
  /\ UNCHANGED owner /\ UNCHANGED execVars

\* The snapshot is not read again before the exhaustion is made durable.
ExhaustBudget(s) ==
  /\ pc[s] = "exhausting" /\ Free
  /\ BudgetExhausted
  /\ owner' = s
  /\ Goto(s, "blocking")

ExhaustGraph(s) ==
  /\ pc[s] = "blocking" /\ owner = s
  /\ GraphTerminal("blocked", "task_budget_exhausted")
  /\ owner' = Nobody
  /\ Goto(s, "returned")

ExhaustRefused(s) ==
  /\ pc[s] = "blocking" /\ owner = s
  /\ status \notin ActiveGraph
  /\ owner' = Nobody
  /\ Goto(s, "threw")
  /\ UNCHANGED execVars

\* executor.prepareWorkspace or executor.supports fails before admission.
PrepareFails(s) ==
  /\ pc[s] = "prepare"
  /\ Goto(s, "threw")
  /\ UNCHANGED owner /\ UNCHANGED execVars

\* The admission fence, under the lock: the queue must not have moved.
StillFirst(s) == IsFirst(AdmNode(s), Ready) /\ active = NoAttempt

AdmitCancelled(s) ==
  /\ pc[s] = "prepare" /\ Free
  /\ aborted[s] /\ active = NoAttempt /\ status = "cancelled"
  /\ Goto(s, "returned")
  /\ UNCHANGED owner /\ UNCHANGED execVars

AdmitRefused(s) ==
  /\ pc[s] = "prepare" /\ Free
  /\ ~(aborted[s] /\ active = NoAttempt /\ status = "cancelled")
  /\ ~StillFirst(s) \/ aborted[s]
  /\ Goto(s, "threw")
  /\ UNCHANGED owner /\ UNCHANGED execVars

\* An origin_read_only node has no worktree to lease.
AdmitReadOnly(s) ==
  /\ pc[s] = "prepare" /\ Free
  /\ StillFirst(s) /\ ~aborted[s]
  /\ Lineage[AdmNode(s)] = NoWorkspace
  /\ AttemptRequested(AdmNode(s), adm[s].number)
  /\ Goto(s, "admitted")
  /\ UNCHANGED owner

\* Mutant: the worktree lease is not appended.
AdmitWorktreeUnleased(s) ==
  /\ pc[s] = "prepare" /\ Free
  /\ StillFirst(s) /\ ~aborted[s]
  /\ Lineage[AdmNode(s)] # NoWorkspace
  /\ owner' = s
  /\ Goto(s, "requesting")
  /\ UNCHANGED execVars

AdmitWorktree(s) ==
  /\ pc[s] = "prepare" /\ Free
  /\ StillFirst(s) /\ ~aborted[s]
  /\ WorktreeLeaseAcquired(AdmNode(s), adm[s].number)
  /\ owner' = s
  /\ Goto(s, "requesting")

\* The worktree is still leased by an attempt that never was requested or
\* never released it.
AdmitWorktreeRefused(s) ==
  /\ pc[s] = "prepare" /\ Free
  /\ StillFirst(s) /\ ~aborted[s]
  /\ Lineage[AdmNode(s)] # NoWorkspace
  /\ worktree[Lineage[AdmNode(s)]] # NoAttempt
  /\ Goto(s, "threw")
  /\ UNCHANGED owner /\ UNCHANGED execVars

AdmitRequest(s) ==
  /\ pc[s] = "requesting" /\ owner = s
  /\ AttemptRequested(AdmNode(s), adm[s].number)
  /\ owner' = Nobody
  /\ Goto(s, "admitted")

\* Between the snapshot and this mutation another run may have used the
\* attempt number up; a worktree lease that was appended first stays behind.
AdmitAppendRefused(s) ==
  /\ \/ pc[s] = "prepare" /\ Free /\ StillFirst(s) /\ ~aborted[s]
        /\ Lineage[AdmNode(s)] = NoWorkspace
     \/ pc[s] = "requesting" /\ owner = s
  /\ ~Admissible(AdmNode(s), adm[s].number)
  /\ owner' = Nobody
  /\ Goto(s, "threw")
  /\ UNCHANGED execVars

\* executor.start throws: the attempt ends before any effect.
StartFails(s) ==
  /\ pc[s] = "admitted"
  /\ res' = [res EXCEPT ![s] =
               [terminal |-> "start_failed",
                used |-> [ZeroBudget EXCEPT !["attempts"] = 1]]]
  /\ pc' = [pc EXCEPT ![s] = "terminal"]
  /\ UNCHANGED <<owner, adm, aborted, userPc>> /\ UNCHANGED execVars

StartSucceeds(s) ==
  /\ pc[s] = "admitted" /\ Free
  /\ AttemptStarted(AdmNode(s), adm[s].number, adm[s].lease)
  /\ Goto(s, "executing")
  /\ UNCHANGED owner

\* What an attempt may report: one attempt, and any use of the other counters
\* up to one unit more than was reserved.
Usage(n) == {u \in [Counters -> 0 .. UseBound] :
               /\ u["attempts"] = 1
               /\ \A c \in Counters : u[c] =< Reservation[n][c] + 1}

ExecutorEnds(s) ==
  /\ pc[s] = "executing"
  /\ \E t \in Terminals \cup {"waiting"}, u \in Usage(AdmNode(s)) :
       /\ res' = [res EXCEPT ![s] = [terminal |-> t, used |-> u]]
       /\ pc' = [pc EXCEPT ![s] = IF t = "waiting" THEN "waiting" ELSE "terminal"]
  /\ UNCHANGED <<owner, adm, aborted, userPc>> /\ UNCHANGED execVars

\* A failed start is recorded as a failure before any effect.
RecordedTerminal(s) ==
  IF res[s].terminal = "start_failed" THEN "pre_effect_infrastructure_failure"
  ELSE res[s].terminal

TerminalAppend(s) ==
  /\ pc[s] = "terminal" /\ Free
  /\ AttemptTerminal(AdmNode(s), adm[s].number, RecordedTerminal(s), res[s].used)
  /\ owner' = s
  /\ Goto(s, IF Lineage[AdmNode(s)] = NoWorkspace THEN "settling" ELSE "releasing")

\* The use exceeds the reservation.  (The other refusal, that the attempt is
\* no longer this run's, never happens: HeldAttemptIsActive.)
TerminalRefused(s) ==
  /\ pc[s] = "terminal" /\ Free
  /\ ~Within(res[s].used, ZeroBudget, Reservation[AdmNode(s)])
  /\ Goto(s, "threw")
  /\ UNCHANGED owner /\ UNCHANGED execVars

TerminalRelease(s) ==
  /\ pc[s] = "releasing" /\ owner = s
  /\ WorktreeLeaseReleased(AdmNode(s), adm[s].number)
  /\ Goto(s, "settling")
  /\ UNCHANGED owner

\* The nodes that can never run because an ancestor ended badly.
Ancestors(n) ==
  LET Up(S) == S \cup UNION {DependsOn[m] : m \in S}
      up[i \in 0 .. Cardinality(Nodes)] ==
        IF i = 0 THEN DependsOn[n] ELSE Up(up[i - 1])
  IN up[Cardinality(Nodes)]
Roots(n) == {r \in Ancestors(n) :
               nodeStatus[r] \in {"blocked", "cancelled", "failed", "skipped"}}
Skippable == {n \in Nodes : nodeStatus[n] = "pending" /\ Roots(n) # {}}

Failed(s) == RecordedTerminal(s) # "succeeded" /\ Ready = {}
Finished(s) == RecordedTerminal(s) = "succeeded"
               /\ \A n \in Nodes : nodeStatus[n] = "succeeded"

\* After #terminal: a failed start goes back to the loop without looking at
\* the status, a real result returns on a stop status.
AfterTerminal(s, st) ==
  IF res[s].terminal # "start_failed" /\ st \in StopStatuses
  THEN "returned" ELSE "loop"

SettleSkip(s, n) ==
  /\ pc[s] = "settling" /\ owner = s
  /\ Failed(s)
  /\ IsFirst(n, Skippable)
  /\ NodeSkipped(n, Roots(n))
  /\ UNCHANGED runVars

terminalStatus(t) ==
  CASE t = "cancelled_clean" -> "cancelled"
    [] t \in {"blocked_reconciliation", "blocked_unknown_effect"} -> "blocked"
    [] OTHER -> "failed"
terminalBlocker(t) ==
  CASE t = "blocked_unknown_effect" -> "task_effect_unknown"
    [] t = "blocked_reconciliation" -> "task_effect_reconciliation_required"
    [] OTHER -> "none"

SettleFailed(s) ==
  /\ pc[s] = "settling" /\ owner = s
  /\ Failed(s) /\ Skippable = {}
  /\ GraphTerminal(terminalStatus(RecordedTerminal(s)),
                   terminalBlocker(RecordedTerminal(s)))
  /\ owner' = Nobody
  /\ Goto(s, AfterTerminal(s, terminalStatus(RecordedTerminal(s))))

SettleFinished(s) ==
  LET st == IF \E n \in Nodes : Lineage[n] # NoWorkspace
            THEN "awaiting_integration" ELSE "completed"
  IN /\ pc[s] = "settling" /\ owner = s
     /\ Finished(s)
     /\ GraphTerminal(st, "none")
     /\ owner' = Nobody
     /\ Goto(s, AfterTerminal(s, st))

\* Mutant: the writer is not closed when the Graph goes on.
SettleContinueUnclosed(s) ==
  /\ pc[s] = "settling" /\ owner = s
  /\ ~Failed(s) /\ ~Finished(s)
  /\ Goto(s, AfterTerminal(s, status))
  /\ UNCHANGED owner /\ UNCHANGED execVars

SettleContinue(s) ==
  /\ pc[s] = "settling" /\ owner = s
  /\ ~Failed(s) /\ ~Finished(s)
  /\ owner' = Nobody
  /\ Goto(s, AfterTerminal(s, status))
  /\ UNCHANGED execVars

\* #waiting: a known wait for the user ends the attempt before any effect,
\* gives the lease back and parks the Graph.
WaitAttempt(s) ==
  /\ pc[s] = "waiting" /\ Free
  /\ AttemptWaiting(AdmNode(s), adm[s].number)
  /\ owner' = s
  /\ Goto(s, "waitTerminal")

WaitTerminal(s) ==
  /\ pc[s] = "waitTerminal" /\ owner = s
  /\ AttemptTerminal(AdmNode(s), adm[s].number,
                     "pre_effect_infrastructure_failure", res[s].used)
  /\ Goto(s, IF Lineage[AdmNode(s)] = NoWorkspace THEN "waitLease"
             ELSE "waitReleasing")
  /\ UNCHANGED owner

WaitTerminalRefused(s) ==
  /\ pc[s] = "waitTerminal" /\ owner = s
  /\ ~Within(res[s].used, ZeroBudget, Reservation[AdmNode(s)])
  /\ owner' = Nobody
  /\ Goto(s, "threw")
  /\ UNCHANGED execVars

WaitRelease(s) ==
  /\ pc[s] = "waitReleasing" /\ owner = s
  /\ WorktreeLeaseReleased(AdmNode(s), adm[s].number)
  /\ Goto(s, "waitLease")
  /\ UNCHANGED owner

WaitLease(s) ==
  /\ pc[s] = "waitLease" /\ owner = s
  /\ LeaseRecovered(adm[s].lease)
  /\ Goto(s, "waitGraph")
  /\ UNCHANGED owner

WaitGraph(s) ==
  /\ pc[s] = "waitGraph" /\ owner = s
  /\ GraphWaiting
  /\ owner' = Nobody
  /\ Goto(s, "returned")

\* The session lock is held by somebody else: acquire refuses instead of
\* waiting (the background writer gives up after five seconds).
LockBusy(s) ==
  /\ pc[s] \in {"ensure", "owned", "loop", "exhausting", "prepare", "admitted",
                "terminal", "waiting"}
  /\ owner \notin {Nobody, s}
  /\ Goto(s, "threw")
  /\ UNCHANGED owner /\ UNCHANGED execVars

\* The owner of a foreground run aborts it after a durable cancel; a host
\* emergency stop and a failed heartbeat abort it without one.
Abort(s) ==
  /\ pc[s] \notin FinalPc \cup {"idle"}
  /\ ~aborted[s]
  /\ aborted' = [aborted EXCEPT ![s] = TRUE]
  /\ UNCHANGED <<owner, pc, adm, res, userPc>> /\ UNCHANGED execVars

\* The process dies; its session lock is found stale and recovered.
Crash(s) ==
  /\ pc[s] \notin FinalPc \cup {"idle"}
  /\ Goto(s, "crashed")
  /\ owner' = IF owner = s THEN Nobody ELSE owner
  /\ UNCHANGED execVars

-----------------------------------------------------------------------------
(* The control plane.                                                      *)

\* A Graph that is neither approved nor waiting is deduplicated or refused.
Enqueue ==
  /\ Free /\ userPc = "idle"
  /\ GraphEnqueued
  /\ UNCHANGED runVars

\* Mutant: the Graph is made terminal while an attempt is still active.
CancelAlwaysTerminal ==
  /\ Free /\ userPc = "idle"
  /\ CancelRequested
  /\ owner' = User /\ userPc' = "cancelTerminal"
  /\ UNCHANGED <<pc, adm, res, aborted>>

Cancel ==
  /\ Free /\ userPc = "idle"
  /\ CancelRequested
  /\ IF active = NoAttempt
     THEN owner' = User /\ userPc' = "cancelTerminal"
     ELSE UNCHANGED <<owner, userPc>>
  /\ UNCHANGED <<pc, adm, res, aborted>>

CancelTerminal ==
  /\ userPc = "cancelTerminal" /\ owner = User
  /\ GraphTerminal("cancelled", "none")
  /\ owner' = Nobody /\ userPc' = "idle"
  /\ UNCHANGED <<pc, adm, res, aborted>>

CancelCrash ==
  /\ userPc = "cancelTerminal"
  /\ owner' = Nobody /\ userPc' = "idle"
  /\ UNCHANGED <<pc, adm, res, aborted>> /\ UNCHANGED execVars

Retry(n) ==
  /\ Free /\ userPc = "idle"
  /\ RetryRequested(n)
  /\ UNCHANGED runVars

-----------------------------------------------------------------------------
RunSteps(s) ==
  \/ EnsureRunning(s) \/ EnsureLease(s) \/ EnsureStarted(s) \/ EnsureRefused(s)
  \/ DelegationWait(s) \/ DelegationNone(s)
  \/ LoopAborted(s) \/ LoopNothingReady(s) \/ (\E n \in Nodes : LoopSelect(s, n) \/ LoopNoLease(s, n))
  \/ ExhaustBudget(s) \/ ExhaustGraph(s) \/ ExhaustRefused(s)
  \/ PrepareFails(s) \/ AdmitCancelled(s) \/ AdmitRefused(s)
  \/ AdmitReadOnly(s) \/ AdmitWorktree(s) \/ AdmitWorktreeRefused(s)
  \/ AdmitRequest(s) \/ AdmitAppendRefused(s)
  \/ StartFails(s) \/ StartSucceeds(s)
  \/ ExecutorEnds(s) \/ TerminalAppend(s) \/ TerminalRefused(s) \/ TerminalRelease(s)
  \/ (\E n \in Nodes : SettleSkip(s, n))
  \/ SettleFailed(s) \/ SettleFinished(s) \/ SettleContinue(s)
  \/ WaitAttempt(s) \/ WaitTerminal(s)
  \/ WaitTerminalRefused(s) \/ WaitRelease(s) \/ WaitLease(s) \/ WaitGraph(s)
  \/ LockBusy(s)

UserSteps == Enqueue \/ Cancel \/ CancelTerminal \/ (\E n \in Nodes : Retry(n))

Next ==
  \/ \E s \in Runs : RunBegins(s) \/ RunSteps(s) \/ Abort(s) \/ Crash(s)
  \/ UserSteps
  \/ CancelCrash

Spec == Init /\ [][Next]_vars

\* The event loop runs every ready continuation, an attempt ends within its
\* duration budget, and the control plane finishes what it began.  Nobody has
\* to start, cancel, retry, abort or crash anything.
Fairness == (\A s \in Runs : WF_vars(RunSteps(s))) /\ WF_vars(CancelTerminal)
FairSpec == Spec /\ Fairness

-----------------------------------------------------------------------------
RunTypeOK ==
  /\ owner \in Runs \cup {User, Nobody}
  /\ pc \in [Runs -> PcStates]
  /\ adm \in [Runs -> [node : Nodes \cup {NoAttempt}, number : Nat,
                      lease : Leases \cup {NoLease}]]
  /\ res \in [Runs -> [terminal : Terminals \cup {"none", "waiting", "start_failed"},
                      used : [Counters -> Nat]]]
  /\ aborted \in [Runs -> BOOLEAN]
  /\ userPc \in {"idle", "cancelTerminal"}

\* A run past selection has a node, and one past admission a lease.
AdmittedHasNode ==
  \A s \in Runs :
    pc[s] \in Holding \cup MidMutation \cup {"prepare", "exhausting"}
      /\ pc[s] # "starting" => adm[s].node \in Nodes

\* Every variable has its type.
TypeOK == ExecTypeOK /\ RunTypeOK

\* At most one process is answerable for an unfinished attempt, whatever runs
\* are started next to each other: the "single-active attempt" of #admit, whose
\* snapshot, workspace preparation and admission are three separate lock holds.
SingleActiveAttempt ==
  \A s, t \in Runs : pc[s] \in Holding /\ pc[t] \in Holding => s = t

\* From admission to its terminal event an attempt stays the active one, under
\* the lease it was admitted with: the ownership tests at the head of #terminal
\* and #waiting and the lease test of attempt.started never refuse a live run.
HeldAttemptIsActive ==
  \A s \in Runs : pc[s] \in Holding => ActiveId = AdmId(s) /\ lease = adm[s].lease

\* A Graph that has stopped has neither an active attempt nor a scheduler
\* lease, although cancel, #terminal and budget exhaustion all stop it.
StoppedGraphIsIdle ==
  status \in {"completed", "awaiting_integration", "failed", "blocked", "cancelled"}
    => active = NoAttempt /\ lease = NoLease

\* While an attempt of a writing node is active, its worktree is leased to it.
ActiveAttemptOwnsWorktree ==
  active # NoAttempt /\ Lineage[active.node] # NoWorkspace
    => worktree[Lineage[active.node]] = ActiveId

\* A succeeded node is never run again, and a node whose effect is unknown or
\* needs reconciliation is never queued again, neither by automatic nor by
\* manual retry.
SettledNodesStay ==
  [][\A n \in Nodes : nodeStatus[n] \in {"succeeded", "blocked"}
                       => nodeStatus'[n] = nodeStatus[n]]_vars

\* Every invocation of run ends: the loop of admissions, failed starts and
\* automatic retries is bounded by the budgets.
RunTerminates == \A s \in Runs : pc[s] = "ensure" ~> pc[s] \in FinalPc

-----------------------------------------------------------------------------
(* Statements of the repository that the code does not keep.               *)

\* background-worker-runtime.ts: "scheduler returned without a bounded Graph
\* stop state" is an error: a run of a Graph nobody cancelled returns with the
\* Graph in a stop status.
BoundedStop ==
  [][\A s \in Runs :
       pc[s] # "returned" /\ pc'[s] = "returned" /\ ~cancelRequested /\ active = NoAttempt
         => status' \in StopStatuses]_vars


=============================================================================
