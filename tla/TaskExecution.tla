---------------------------- MODULE TaskExecution ----------------------------
(***************************************************************************)
(* The durable execution record of one approved task Graph: what          *)
(* TaskExecutionProjector, the Graph status part of TaskGraphProjector and *)
(* the lease part of WorktreeProjector fold out of the session log.        *)
(* There is one action per event type.  Its guard is the projector's       *)
(* validation: the session writer projects the log WITH the new event      *)
(* before it appends it, so an event whose guard fails is never durable.   *)
(*                                                                         *)
(* Event identifiers, digests and artifact references are left out; an     *)
(* attempt is named by its node and its number, which the projector        *)
(* forces to be unique.                                                    *)
(***************************************************************************)
EXTENDS Integers, FiniteSets

CONSTANTS
  Nodes,         \* graph.content.nodes
  DependsOn,     \* node.dependsOn
  Sequence,      \* node.sequence, the tie-break of the ready queue
  Workspaces,    \* managed worktree lineages
  Lineage,       \* the worktree a node writes in; NoWorkspace = origin_read_only
  NoWorkspace,
  MaxAttempts,   \* node.budget.maxAttempts
  RetryMax,      \* node.retry.maxAttempts
  AutomaticOn,   \* the nodes whose retry.automaticOn is not empty
  Counters,      \* TASK_BUDGET_COUNTERS
  GraphBudget,   \* graph.content.graphBudget
  Reservation,   \* reservationForTaskNode(node)
  Leases,        \* scheduler lease nonces
  NoLease,
  NoAttempt

ASSUME GraphAssumption ==
  /\ IsFiniteSet(Nodes)
  /\ DependsOn \in [Nodes -> SUBSET Nodes]
  /\ Sequence \in [Nodes -> Nat]
  /\ \A m, n \in Nodes : Sequence[m] = Sequence[n] => m = n
  /\ Lineage \in [Nodes -> Workspaces \cup {NoWorkspace}]
  /\ NoWorkspace \notin Workspaces
  /\ MaxAttempts \in [Nodes -> 1 .. 3]
  /\ RetryMax \in [Nodes -> 1 .. 3]
  /\ \A n \in Nodes : RetryMax[n] =< MaxAttempts[n]
  /\ AutomaticOn \subseteq Nodes

ASSUME BudgetAssumption ==
  /\ "attempts" \in Counters
  /\ GraphBudget \in [Counters -> Nat]
  /\ Reservation \in [Nodes -> [Counters -> Nat]]
  /\ \A n \in Nodes : Reservation[n]["attempts"] = 1

VARIABLES
  status,           \* Graph status
  nodeStatus,       \* MutableNode.status
  attempts,         \* MutableNode.attempts.length
  nextOrigin,       \* MutableNode.nextAttemptOrigin
  active,           \* the one attempt that is not terminal
  consumed,
  reserved,
  lease,            \* schedulerLeaseNonceSha256
  blocker,
  cancelRequested,
  worktree          \* workspace -> the attempt that leases it

execVars == <<status, nodeStatus, attempts, nextOrigin, active, consumed,
              reserved, lease, blocker, cancelRequested, worktree>>

GraphStatuses == {"approved", "queued", "running", "waiting_for_user",
                  "awaiting_integration", "completed", "blocked", "cancelled",
                  "failed"}
ActiveGraph   == {"queued", "running", "waiting_for_user", "awaiting_integration"}
StopStatuses  == {"blocked", "cancelled", "completed", "failed",
                  "waiting_for_user", "awaiting_integration"}
NodeStatuses  == {"pending", "leased", "running", "waiting_for_user",
                  "succeeded", "failed", "cancelled", "blocked", "skipped"}
Terminals     == {"succeeded", "known_failed",
                  "pre_effect_infrastructure_failure", "cancelled_clean",
                  "blocked_reconciliation", "blocked_unknown_effect"}
AttemptStatuses == {"requested", "running", "waiting_for_user"}
Origins       == {"initial", "automatic", "user", "none"}
Blockers      == {"none", "task_budget_exhausted", "task_waiting_for_user",
                  "task_effect_unknown", "task_effect_reconciliation_required"}

Attempt == [node : Nodes, number : Nat, status : AttemptStatuses]
ASSUME NamesAssumption ==
  /\ NoLease \notin Leases
  /\ NoAttempt \notin Attempt
  /\ NoAttempt \notin Nodes \X Nat

ZeroBudget == [c \in Counters |-> 0]

\* The identity of the active attempt, as #terminal and the worktree leases compare it.
ActiveId == IF active = NoAttempt THEN NoAttempt ELSE <<active.node, active.number>>

Plus(a, b)  == [c \in Counters |-> a[c] + b[c]]
Minus(a, b) == [c \in Counters |-> a[c] - b[c]]
Within(used, held, limit) == \A c \in Counters : used[c] + held[c] =< limit[c]

\* Mutant: a dependency only has to have ended.
IsReadyAfterAnyEnd(n) ==
  /\ nodeStatus[n] = "pending"
  /\ \A d \in DependsOn[n] : nodeStatus[d] \notin {"pending", "leased", "running",
                                                  "waiting_for_user"}

IsReady(n) ==
  /\ nodeStatus[n] = "pending"
  /\ \A d \in DependsOn[n] : nodeStatus[d] = "succeeded"

\* readyNodeIds: empty unless the Graph may queue another node.
CanQueue ==
  /\ active = NoAttempt
  /\ blocker = "none"
  /\ ~cancelRequested
  /\ status \in {"queued", "running"}
Ready == IF CanQueue THEN {n \in Nodes : IsReady(n)} ELSE {}
IsFirst(n, S) == n \in S /\ \A m \in S : Sequence[n] =< Sequence[m]

terminalNodeStatus(t) ==
  CASE t = "succeeded" -> "succeeded"
    [] t \in {"known_failed", "pre_effect_infrastructure_failure"} -> "failed"
    [] t = "cancelled_clean" -> "cancelled"
    [] OTHER -> "blocked"

AutomaticRetry(n, t, wasWaiting) ==
  /\ t = "pre_effect_infrastructure_failure"
  /\ \/ wasWaiting /\ attempts[n] < 3
     \/ attempts[n] < RetryMax[n] /\ n \in AutomaticOn

-----------------------------------------------------------------------------
\* One approved revision that has not been enqueued yet.
ExecInit ==
  /\ status = "approved"
  /\ nodeStatus = [n \in Nodes |-> "pending"]
  /\ attempts = [n \in Nodes |-> 0]
  /\ nextOrigin = [n \in Nodes |-> "initial"]
  /\ active = NoAttempt
  /\ consumed = ZeroBudget
  /\ reserved = ZeroBudget
  /\ lease = NoLease
  /\ blocker = "none"
  /\ cancelRequested = FALSE
  /\ worktree = [w \in Workspaces |-> NoAttempt]

GraphEnqueued ==
  /\ status \in {"approved", "waiting_for_user"}
  /\ status' = "queued"
  /\ blocker' = "none"
  /\ UNCHANGED <<nodeStatus, attempts, nextOrigin, active, consumed, reserved,
                 lease, cancelRequested, worktree>>

LeaseAcquired(l) ==
  /\ lease = NoLease
  /\ lease' = l
  /\ UNCHANGED <<status, nodeStatus, attempts, nextOrigin, active, consumed,
                 reserved, blocker, cancelRequested, worktree>>

LeaseRecovered(l) ==
  /\ lease = l
  /\ lease' = NoLease
  /\ UNCHANGED <<status, nodeStatus, attempts, nextOrigin, active, consumed,
                 reserved, blocker, cancelRequested, worktree>>

GraphStarted(l) ==
  /\ status = "queued"
  /\ lease = l
  /\ status' = "running"
  /\ UNCHANGED <<nodeStatus, attempts, nextOrigin, active, consumed, reserved,
                 lease, blocker, cancelRequested, worktree>>

CancelRequested ==
  /\ status \in ActiveGraph
  /\ cancelRequested' = TRUE
  /\ UNCHANGED <<status, nodeStatus, attempts, nextOrigin, active, consumed,
                 reserved, lease, blocker, worktree>>

\* The worktree must be one idle lineage of the node.
WorktreeLeaseAcquired(n, k) ==
  /\ Lineage[n] # NoWorkspace
  /\ worktree[Lineage[n]] = NoAttempt
  /\ worktree' = [worktree EXCEPT ![Lineage[n]] = <<n, k>>]
  /\ UNCHANGED <<status, nodeStatus, attempts, nextOrigin, active, consumed,
                 reserved, lease, blocker, cancelRequested>>

WorktreeLeaseReleased(n, k) ==
  /\ Lineage[n] # NoWorkspace
  /\ worktree[Lineage[n]] = <<n, k>>
  /\ worktree' = [worktree EXCEPT ![Lineage[n]] = NoAttempt]
  /\ UNCHANGED <<status, nodeStatus, attempts, nextOrigin, active, consumed,
                 reserved, lease, blocker, cancelRequested>>

\* Admission: one attempt at a time, dependencies first, inside the Graph budget.
Admissible(n, k) ==
  /\ active = NoAttempt
  /\ ~cancelRequested
  /\ IsReady(n)
  /\ k = attempts[n] + 1
  /\ Within(consumed, Plus(reserved, Reservation[n]), GraphBudget)

\* Mutant: the admitted attempt is not recorded as the active one.
AttemptRequestedUntracked(n, k) ==
  /\ Admissible(n, k)
  /\ attempts' = [attempts EXCEPT ![n] = k]
  /\ nodeStatus' = [nodeStatus EXCEPT ![n] = "leased"]
  /\ reserved' = Plus(reserved, Reservation[n])
  /\ UNCHANGED <<status, nextOrigin, active, consumed, lease, blocker,
                 cancelRequested, worktree>>

AttemptRequested(n, k) ==
  /\ Admissible(n, k)
  /\ attempts' = [attempts EXCEPT ![n] = k]
  /\ nodeStatus' = [nodeStatus EXCEPT ![n] = "leased"]
  /\ active' = [node |-> n, number |-> k, status |-> "requested"]
  /\ reserved' = Plus(reserved, Reservation[n])
  /\ UNCHANGED <<status, nextOrigin, consumed, lease, blocker,
                 cancelRequested, worktree>>

AttemptStarted(n, k, l) ==
  /\ ActiveId = <<n, k>> /\ active.status = "requested"
  /\ lease = l
  /\ active' = [active EXCEPT !.status = "running"]
  /\ nodeStatus' = [nodeStatus EXCEPT ![n] = "running"]
  /\ UNCHANGED <<status, attempts, nextOrigin, consumed, reserved, lease,
                 blocker, cancelRequested, worktree>>

AttemptWaiting(n, k) ==
  /\ ActiveId = <<n, k>>
  /\ active' = [active EXCEPT !.status = "waiting_for_user"]
  /\ nodeStatus' = [nodeStatus EXCEPT ![n] = "waiting_for_user"]
  /\ UNCHANGED <<status, attempts, nextOrigin, consumed, reserved, lease,
                 blocker, cancelRequested, worktree>>

\* Mutant: the use is also taken off the reservation that is returned.
AttemptTerminalTwice(n, k, t, used) ==
  /\ ActiveId = <<n, k>>
  /\ Within(used, ZeroBudget, Reservation[n])
  /\ reserved' = Minus(Minus(reserved, Reservation[n]), used)
  /\ consumed' = Plus(consumed, used)
  /\ nodeStatus' = [nodeStatus EXCEPT ![n] = terminalNodeStatus(t)]
  /\ nextOrigin' = [nextOrigin EXCEPT ![n] = "none"]
  /\ active' = NoAttempt
  /\ UNCHANGED <<status, attempts, lease, blocker, cancelRequested, worktree>>

\* Mutant: the reservation is not returned.
AttemptTerminalLeak(n, k, t, used) ==
  /\ ActiveId = <<n, k>>
  /\ Within(used, ZeroBudget, Reservation[n])
  /\ consumed' = Plus(consumed, used)
  /\ nodeStatus' = [nodeStatus EXCEPT ![n] = terminalNodeStatus(t)]
  /\ nextOrigin' = [nextOrigin EXCEPT ![n] = "none"]
  /\ active' = NoAttempt
  /\ UNCHANGED <<status, attempts, reserved, lease, blocker, cancelRequested,
                 worktree>>

\* The reservation is returned, the use is booked, and the node is either
\* queued again or gets the status its terminal maps to.
AttemptTerminal(n, k, t, used) ==
  LET wasWaiting == active.status = "waiting_for_user"
      again      == AutomaticRetry(n, t, wasWaiting)
  IN /\ ActiveId = <<n, k>>
     /\ Within(used, ZeroBudget, Reservation[n])
     /\ reserved' = Minus(reserved, Reservation[n])
     /\ consumed' = Plus(consumed, used)
     /\ nodeStatus' = [nodeStatus EXCEPT
                         ![n] = IF again THEN "pending" ELSE terminalNodeStatus(t)]
     /\ nextOrigin' = [nextOrigin EXCEPT
                         ![n] = IF again THEN IF wasWaiting THEN "user"
                                              ELSE "automatic"
                                ELSE "none"]
     /\ active' = NoAttempt
     /\ UNCHANGED <<status, attempts, lease, blocker, cancelRequested, worktree>>

\* Mutant: a node with an unknown effect can be retried too.
RetryRequestedBlocked(n) ==
  /\ status \in {"failed", "cancelled"}
  /\ active = NoAttempt
  /\ nodeStatus[n] \in {"failed", "cancelled", "blocked"}
  /\ attempts[n] < MaxAttempts[n]
  /\ status' = "waiting_for_user"
  /\ nodeStatus' = [nodeStatus EXCEPT ![n] = "pending"]
  /\ nextOrigin' = [nextOrigin EXCEPT ![n] = "user"]
  /\ blocker' = "none"
  /\ UNCHANGED <<attempts, active, consumed, reserved, lease, cancelRequested,
                 worktree>>

\* The Graph goes back to a resume boundary and the node alone is queued again.
RetryRequested(n) ==
  /\ status \in {"failed", "cancelled"}
  /\ active = NoAttempt
  /\ nodeStatus[n] \in {"failed", "cancelled"}
  /\ attempts[n] < MaxAttempts[n]
  /\ status' = "waiting_for_user"
  /\ nodeStatus' = [nodeStatus EXCEPT ![n] = "pending"]
  /\ nextOrigin' = [nextOrigin EXCEPT ![n] = "user"]
  /\ blocker' = "none"
  /\ UNCHANGED <<attempts, active, consumed, reserved, lease, cancelRequested,
                 worktree>>

NodeSkipped(n, roots) ==
  /\ nodeStatus[n] = "pending"
  /\ \A r \in roots : nodeStatus[r] \in {"failed", "blocked", "cancelled", "skipped"}
  /\ nodeStatus' = [nodeStatus EXCEPT ![n] = "skipped"]
  /\ UNCHANGED <<status, attempts, nextOrigin, active, consumed, reserved,
                 lease, blocker, cancelRequested, worktree>>

BudgetExhausted ==
  /\ blocker' = "task_budget_exhausted"
  /\ UNCHANGED <<status, nodeStatus, attempts, nextOrigin, active, consumed,
                 reserved, lease, cancelRequested, worktree>>

GraphWaiting ==
  /\ status \in {"queued", "running"}
  /\ status' = "waiting_for_user"
  /\ blocker' = "task_waiting_for_user"
  /\ UNCHANGED <<nodeStatus, attempts, nextOrigin, active, consumed, reserved,
                 lease, cancelRequested, worktree>>

GraphTerminal(st, code) ==
  /\ status \in ActiveGraph
  /\ st = "completed" => \A n \in Nodes : nodeStatus[n] = "succeeded"
  /\ status' = st
  /\ blocker' = IF code = "none" THEN blocker ELSE code
  /\ lease' = NoLease
  /\ UNCHANGED <<nodeStatus, attempts, nextOrigin, active, consumed, reserved,
                 cancelRequested, worktree>>

-----------------------------------------------------------------------------
ExecTypeOK ==
  /\ status \in GraphStatuses
  /\ nodeStatus \in [Nodes -> NodeStatuses]
  /\ attempts \in [Nodes -> Nat]
  /\ nextOrigin \in [Nodes -> Origins]
  /\ active \in Attempt \cup {NoAttempt}
  /\ consumed \in [Counters -> Nat]
  /\ reserved \in [Counters -> Nat]
  /\ lease \in Leases \cup {NoLease}
  /\ blocker \in Blockers
  /\ cancelRequested \in BOOLEAN
  /\ worktree \in [Workspaces -> (Nodes \X Nat) \cup {NoAttempt}]

\* The budget ledger is conserved over admissions, terminals, waits, retries
\* and crashes between them: what is held is exactly the reservation of the
\* active attempt, and use plus reservation never pass the approved Graph
\* budget, so `subtract` never throws.
BudgetConserved ==
  /\ reserved = IF active = NoAttempt THEN ZeroBudget ELSE Reservation[active.node]
  /\ Within(consumed, reserved, GraphBudget)

\* The nodes in flight are exactly the node of the active attempt, in the
\* attempt's own status.
InFlightIsActive ==
  \A n \in Nodes :
    nodeStatus[n] \in {"leased", "running", "waiting_for_user"}
      => /\ active # NoAttempt
         /\ active.node = n
         /\ active.number = attempts[n]
         /\ nodeStatus[n] = IF active.status = "requested" THEN "leased"
                            ELSE active.status

ActiveIsInFlight ==
  active # NoAttempt =>
    nodeStatus[active.node] \in {"leased", "running", "waiting_for_user"}

\* No node is admitted, runs or succeeds before all its dependencies have
\* succeeded, whatever is retried or skipped in between.
DependenciesFirst ==
  \A n \in Nodes :
    nodeStatus[n] \in {"leased", "running", "waiting_for_user", "succeeded"}
      => \A d \in DependsOn[n] : nodeStatus[d] = "succeeded"

\* A node that can still run carries the authority of its next attempt: the
\* "has no next-attempt authority" error of #admit cannot happen.
PendingHasOrigin ==
  \A n \in Nodes : nodeStatus[n] = "pending" => nextOrigin[n] # "none"

ExecInv ==
  ExecTypeOK /\ BudgetConserved /\ InFlightIsActive /\ ActiveIsInFlight
    /\ DependenciesFirst /\ PendingHasOrigin
=============================================================================
