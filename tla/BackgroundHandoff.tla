-------------------------- MODULE BackgroundHandoff --------------------------
(***************************************************************************)
(* How a queued Graph passes to a background worker, and back.             *)
(*                                                                         *)
(* An operation o of Ops has a parent (BackgroundWorkerLauncher.launch)    *)
(* and a child process (BackgroundWorkerRuntime.run).  A Takeover is one   *)
(* call of BackgroundWorkerTakeoverReconciler.reconcile.  They share the   *)
(* session log, of which this module keeps what BackgroundProjector makes  *)
(* of it, and the handoff record of the operation store: a chain of        *)
(* revisions, each linked exclusively after the one that was read.         *)
(*                                                                         *)
(* A session mutation of one append is one step with the session lock      *)
(* free; a takeover keeps the lock from its first read to its last write.  *)
(* A compare-and-swap of the handoff is two steps, reading the head and    *)
(* linking the next revision; nobody takes the lock for it.  What the      *)
(* scheduler does between start and stop is the subject of TaskScheduler,  *)
(* here it is one step.  child.kill() may be late or lost, so it is only   *)
(* the death that may strike a child at any time.                          *)
(***************************************************************************)
EXTENDS Naturals, Sequences

CONSTANTS Ops, Takeovers, Nobody

ASSUME HandoffAssumption == Nobody \notin Ops \cup Takeovers

VARIABLES
  graph,      \* status of the Graph
  status,     \* BackgroundWorkerProjectionV1.status of each operation
  started,    \* startedEventId # null
  current,    \* BackgroundProjectionV1.current
  lastClean,  \* the operation the last worker event closed as clean
  chain,      \* the published handoff revisions
  lock,       \* the takeover that holds the session lock
  ppc, prev,  \* the parent: where it is, the revision its swap read
  cpc, crev,  \* the child
  tpc, top, trev,  \* a takeover, and the operation it closes
  mail        \* the last IPC message between parent and child

session == <<graph, status, started, current, lastClean>>
parent == <<ppc, prev>>
child == <<cpc, crev>>
takeover == <<tpc, top, trev>>
vars == <<session, chain, lock, parent, child, takeover, mail>>

Launching == [owner |-> "parent", state |-> "launching"]
Owned == [owner |-> "worker", state |-> "worker_owned"]
Revision == [owner : {"parent", "worker"},
             state : {"launching", "worker_owned", "terminal",
                      "reconciliation_required"}]

\* A process that died stays at "dead", whatever it was doing.
ParentDone == {"accepted", "failed", "dead"}
ParentPcs == ParentDone \cup {"idle", "genesis", "request", "spawn", "handshake",
                              "verify", "failing", "failLink", "failMark"}
\* The states in which the child has linked its claim and not given it up.
Owning == {"own", "started", "ready", "awaitAck", "run", "finish", "retire",
           "retireLink", "error", "mark", "markCas", "markLink"}
ChildDone == {"none", "ended", "dead"}
ChildPcs == Owning \cup ChildDone \cup {"boot", "validate", "claim", "claimLink"}
TakeoverPcs == {"idle", "append", "cas", "link", "done"}

Init ==
  /\ graph = "queued"
  /\ status = [o \in Ops |-> "none"] /\ started = [o \in Ops |-> FALSE]
  /\ current = Nobody /\ lastClean = Nobody
  /\ chain = [o \in Ops |-> <<>>]
  /\ lock = Nobody
  /\ ppc = [o \in Ops |-> "idle"] /\ prev = [o \in Ops |-> 0]
  /\ cpc = [o \in Ops |-> "none"] /\ crev = [o \in Ops |-> 0]
  /\ tpc = [t \in Takeovers |-> "idle"] /\ top = [t \in Takeovers |-> Nobody]
  /\ trev = [t \in Takeovers |-> 0]
  /\ mail = [o \in Ops |-> "none"]

Free == lock = Nobody

-----------------------------------------------------------------------------
(* The handoff record.                                                     *)

HeadIs(o, r) == chain[o] # <<>> /\ chain[o][Len(chain[o])] = r

\* The revision that was read is still the head: link() succeeds.
Unchanged(o, revision) == Len(chain[o]) = revision
Publish(o, r) == chain' = [chain EXCEPT ![o] = Append(@, r)]

(* The worker events of the session, with the projector's guards.          *)

SpawnAccepted ==
  \A o \in Ops : current = o => status[o] \notin {"launching", "running"}

WorkerSpawn(o) ==
  /\ SpawnAccepted
  /\ status' = [status EXCEPT ![o] = "launching"]
  /\ current' = o /\ lastClean' = Nobody
  /\ UNCHANGED <<graph, started>>

WorkerStarted(o) ==
  /\ status[o] = "launching"
  /\ status' = [status EXCEPT ![o] = "running"]
  /\ started' = [started EXCEPT ![o] = TRUE]
  /\ current' = o /\ lastClean' = Nobody
  /\ UNCHANGED graph

WorkerTerminal(o) ==
  /\ status[o] = "running"
  /\ status' = [status EXCEPT ![o] = "terminal"]
  /\ current' = Nobody /\ lastClean' = Nobody
  /\ UNCHANGED <<graph, started>>

ReconciledUnknown(o) ==
  /\ status' = [status EXCEPT ![o] = "reconciliation_required"]
  /\ current' = o /\ lastClean' = Nobody
  /\ UNCHANGED <<graph, started>>

\* Mutant: a clean close has a status of its own, which no reader knows.
ReconciledCleanNewStatus(o) ==
  /\ status' = [status EXCEPT ![o] = "reconciled"]
  /\ current' = Nobody /\ lastClean' = o
  /\ UNCHANGED <<graph, started>>

ReconciledClean(o) ==
  /\ status' = [status EXCEPT ![o] = "terminal"]
  /\ current' = Nobody /\ lastClean' = o
  /\ UNCHANGED <<graph, started>>

-----------------------------------------------------------------------------
(* The parent.                                                             *)

PAt(o, l) == ppc[o] = l
PGoto(o, l) == ppc' = [ppc EXCEPT ![o] = l] /\ prev' = [prev EXCEPT ![o] = 0]
OnlyParent == UNCHANGED <<lock, child, takeover, mail>>

\* The first look at the session, before any record is written.
LaunchCheck(o) ==
  /\ PAt(o, "idle") /\ Free
  /\ current = Nobody /\ graph = "queued"
  /\ PGoto(o, "genesis")
  /\ UNCHANGED <<session, chain>> /\ OnlyParent

\* createLaunch and createHandoffV2.
LaunchGenesis(o) ==
  /\ PAt(o, "genesis")
  /\ Publish(o, Launching)
  /\ PGoto(o, "request")
  /\ UNCHANGED session /\ OnlyParent

SpawnRequested(o) ==
  /\ PAt(o, "request") /\ Free
  /\ graph = "queued"
  /\ WorkerSpawn(o)
  /\ PGoto(o, "spawn")
  /\ UNCHANGED chain /\ OnlyParent

SpawnRefused(o) ==
  /\ PAt(o, "request") /\ Free
  /\ graph # "queued" \/ ~SpawnAccepted
  /\ PGoto(o, "failed")
  /\ UNCHANGED <<session, chain>> /\ OnlyParent

Spawn(o) ==
  /\ PAt(o, "spawn")
  /\ cpc' = [cpc EXCEPT ![o] = "boot"]
  /\ PGoto(o, "handshake")
  /\ UNCHANGED <<session, chain, lock, crev, takeover, mail>>

\* Any call may throw: launch, or the recording of its failure, ends there and
\* leaves the records as they are.
LaunchThrows(o) ==
  /\ ppc[o] \in {"genesis", "request", "spawn", "failing", "failLink", "failMark"}
  /\ PGoto(o, "failed")
  /\ UNCHANGED <<session, chain>> /\ OnlyParent

ReadyReceived(o) ==
  /\ PAt(o, "handshake") /\ mail[o] = "ready"
  /\ PGoto(o, "verify")
  /\ UNCHANGED <<session, chain>> /\ OnlyParent

\* Timeout, exit of the child or a bad message, whatever is under way.
HandshakeFails(o) ==
  /\ PAt(o, "handshake")
  /\ PGoto(o, "failing")
  /\ UNCHANGED <<session, chain>> /\ OnlyParent

VerifyReady(o) ==
  /\ PAt(o, "verify")
  /\ HeadIs(o, Owned) /\ started[o]
  /\ mail' = [mail EXCEPT ![o] = "ack"]
  /\ PGoto(o, "accepted")
  /\ UNCHANGED <<session, chain, lock, child, takeover>>

\* The child is killed; the failure is not recorded.
VerifyFails(o) ==
  /\ PAt(o, "verify")
  /\ PGoto(o, "failed")
  /\ UNCHANGED <<session, chain>> /\ OnlyParent

\* #markLaunchFailure: first the handoff, then the session.
FailRead(o) ==
  /\ PAt(o, "failing")
  /\ IF HeadIs(o, Launching)
     THEN /\ prev' = [prev EXCEPT ![o] = Len(chain[o])]
          /\ ppc' = [ppc EXCEPT ![o] = "failLink"]
     ELSE PGoto(o, "failed")
  /\ UNCHANGED <<session, chain>> /\ OnlyParent

\* Mutant: the failure is published over whatever was published since.
FailLinkBlind(o) ==
  /\ PAt(o, "failLink")
  /\ Publish(o, [Launching EXCEPT !.state = "reconciliation_required"])
  /\ PGoto(o, "failMark")
  /\ UNCHANGED session /\ OnlyParent

FailLink(o) ==
  /\ PAt(o, "failLink") /\ Unchanged(o, prev[o])
  /\ Publish(o, [Launching EXCEPT !.state = "reconciliation_required"])
  /\ \E l \in {"failMark", "failed"} : PGoto(o, l)
  /\ UNCHANGED session /\ OnlyParent

FailLost(o) ==
  /\ PAt(o, "failLink") /\ ~Unchanged(o, prev[o])
  /\ PGoto(o, "failed")
  /\ UNCHANGED <<session, chain>> /\ OnlyParent

FailMark(o) ==
  /\ PAt(o, "failMark") /\ Free
  /\ IF current = o THEN ReconciledUnknown(o) ELSE UNCHANGED session
  /\ PGoto(o, "failed")
  /\ UNCHANGED chain /\ OnlyParent

ParentDies(o) ==
  /\ ppc[o] \notin {"idle", "dead"}
  /\ PGoto(o, "dead")
  /\ UNCHANGED <<session, chain>> /\ OnlyParent

-----------------------------------------------------------------------------
(* The child.                                                              *)

CAt(o, l) == cpc[o] = l
CGoto(o, l) == cpc' = [cpc EXCEPT ![o] = l] /\ crev' = [crev EXCEPT ![o] = 0]
OnlyChild == UNCHANGED <<lock, parent, takeover, mail>>

\* Reading the head for a swap to come, or failing on an unexpected one.
SwapRead(o, expected, next, otherwise) ==
  /\ IF HeadIs(o, expected)
     THEN /\ crev' = [crev EXCEPT ![o] = Len(chain[o])]
          /\ cpc' = [cpc EXCEPT ![o] = next]
     ELSE CGoto(o, otherwise)
  /\ UNCHANGED <<session, chain>> /\ OnlyChild

ChildRead(o) ==
  /\ CAt(o, "boot")
  /\ CGoto(o, IF HeadIs(o, Launching) THEN "validate" ELSE "ended")
  /\ UNCHANGED <<session, chain>> /\ OnlyChild

\* #validateSession.
ChildValidate(o) ==
  /\ CAt(o, "validate") /\ Free
  /\ CGoto(o, IF current = o /\ status[o] = "launching" /\ graph = "queued"
              THEN "claim" ELSE "ended")
  /\ UNCHANGED <<session, chain>> /\ OnlyChild

ClaimRead(o) == CAt(o, "claim") /\ SwapRead(o, Launching, "claimLink", "ended")

\* Mutant: the claim is published over whatever was published since.
ClaimLinkBlind(o) ==
  /\ CAt(o, "claimLink")
  /\ Publish(o, Owned)
  /\ CGoto(o, "own")
  /\ UNCHANGED session /\ OnlyChild

\* The readback of the linked revision may fail, before workerOwned is set.
ClaimLink(o) ==
  /\ CAt(o, "claimLink") /\ Unchanged(o, crev[o])
  /\ Publish(o, Owned)
  /\ \E l \in {"own", "ended"} : CGoto(o, l)
  /\ UNCHANGED session /\ OnlyChild

ClaimLost(o) ==
  /\ CAt(o, "claimLink") /\ ~Unchanged(o, crev[o])
  /\ CGoto(o, "ended")
  /\ UNCHANGED <<session, chain>> /\ OnlyChild

\* scheduler.startOwnership, which looks at the Graph only.
StartOwnership(o) ==
  /\ CAt(o, "own") /\ Free
  /\ IF graph \in {"queued", "running"}
     THEN graph' = "running" /\ CGoto(o, "started")
     ELSE UNCHANGED graph /\ CGoto(o, "error")
  /\ UNCHANGED <<status, started, current, lastClean, chain>> /\ OnlyChild

\* Mutant: task_worker.started is appended whatever became of the launch.
StartedAppendBlind(o) ==
  /\ CAt(o, "started") /\ Free
  /\ status' = [status EXCEPT ![o] = "running"]
  /\ started' = [started EXCEPT ![o] = TRUE]
  /\ current' = o /\ lastClean' = Nobody
  /\ CGoto(o, "ready")
  /\ UNCHANGED <<graph, chain>> /\ OnlyChild

StartedAppend(o) ==
  /\ CAt(o, "started") /\ Free
  /\ IF status[o] = "launching"
     THEN WorkerStarted(o) /\ CGoto(o, "ready")
     ELSE UNCHANGED session /\ CGoto(o, "error")
  /\ UNCHANGED chain /\ OnlyChild

\* The receipt goes out while the parent's end of the channel is open.
SendReady(o) ==
  /\ CAt(o, "ready") /\ ppc[o] # "dead"
  /\ mail' = [mail EXCEPT ![o] = "ready"]
  /\ CGoto(o, "awaitAck")
  /\ UNCHANGED <<session, chain, lock, parent, takeover>>

AckReceived(o) ==
  /\ CAt(o, "awaitAck") /\ mail[o] = "ack"
  /\ CGoto(o, "run")
  /\ UNCHANGED <<session, chain>> /\ OnlyChild

\* scheduler.run ends with the Graph stopped or waiting for the user.
SchedulerStops(o) ==
  /\ CAt(o, "run") /\ Free
  /\ graph' \in IF graph = "running" THEN {"stopped", "waiting"} ELSE {graph}
  /\ CGoto(o, "finish")
  /\ UNCHANGED <<status, started, current, lastClean, chain>> /\ OnlyChild

FinishAppend(o) ==
  /\ CAt(o, "finish") /\ Free
  /\ IF current = o /\ status[o] = "running"
     THEN WorkerTerminal(o) /\ CGoto(o, "retire")
     ELSE UNCHANGED session /\ CGoto(o, "error")
  /\ UNCHANGED chain /\ OnlyChild

RetireRead(o) == CAt(o, "retire") /\ SwapRead(o, Owned, "retireLink", "error")

\* The last step of a worker that ended well, or of one that gave up.
GiveUpLink(o) ==
  /\ cpc[o] \in {"retireLink", "markLink"}
  /\ IF Unchanged(o, crev[o])
     THEN /\ Publish(o, [Owned EXCEPT !.state =
                            IF cpc[o] = "retireLink" THEN "terminal"
                            ELSE "reconciliation_required"])
          /\ CGoto(o, "ended")
     ELSE /\ CGoto(o, IF cpc[o] = "retireLink" THEN "error" ELSE "ended")
          /\ UNCHANGED chain
  /\ UNCHANGED session /\ OnlyChild

\* Mutant: the worker waits for its acknowledgement without a timeout.
ChildFailsNoTimeout(o) ==
  /\ cpc[o] \notin ChildDone \cup {"awaitAck"}
  /\ CGoto(o, IF cpc[o] \in {"own", "started", "ready", "run",
                             "finish", "retire", "retireLink"}
              THEN "error" ELSE "ended")
  /\ UNCHANGED <<session, chain>> /\ OnlyChild

\* Any call may fail, the acknowledgement may not come, the scheduler may end
\* without a stop status.
ChildFails(o) ==
  /\ cpc[o] \notin ChildDone
  /\ CGoto(o, IF cpc[o] \in {"own", "started", "ready", "awaitAck", "run",
                             "finish", "retire", "retireLink"}
              THEN "error" ELSE "ended")
  /\ UNCHANGED <<session, chain>> /\ OnlyChild

\* #markUnknown: first the session, then the handoff.
MarkRead(o) ==
  /\ CAt(o, "error")
  /\ CGoto(o, IF HeadIs(o, Owned) THEN "mark" ELSE "ended")
  /\ UNCHANGED <<session, chain>> /\ OnlyChild

MarkSession(o) ==
  /\ CAt(o, "mark") /\ Free
  /\ IF current = o THEN ReconciledUnknown(o) ELSE UNCHANGED session
  /\ CGoto(o, "markCas")
  /\ UNCHANGED chain /\ OnlyChild

MarkSwap(o) == CAt(o, "markCas") /\ SwapRead(o, Owned, "markLink", "ended")

ChildDies(o) ==
  /\ cpc[o] \notin {"none", "dead"}
  /\ CGoto(o, "dead")
  /\ UNCHANGED <<session, chain>> /\ OnlyChild

-----------------------------------------------------------------------------
(* A takeover.                                                             *)

TGoto(t, l) == tpc' = [tpc EXCEPT ![t] = l]
TakeoverEnds(t) ==
  /\ TGoto(t, "done") /\ lock' = Nobody
  /\ top' = [top EXCEPT ![t] = Nobody] /\ trev' = [trev EXCEPT ![t] = 0]
OnlyTakeover == UNCHANGED <<parent, child, mail>>

\* The head a takeover of o expects, and the process it belongs to.
Expected(o) == IF started[o] THEN Owned ELSE Launching

\* Mutant: the probe is of the process that launched the worker.
OwnerDeadOfLauncher(o) == ppc[o] = "dead"

OwnerDead(o) == IF started[o] THEN cpc[o] = "dead" ELSE ppc[o] = "dead"

\* The session has a worker whose handoff owner the probe proves dead.
TakeoverOpen(t) ==
  /\ tpc[t] = "idle" /\ Free /\ graph = "queued"
  /\ \E o \in Ops :
       /\ current = o /\ status[o] \in {"launching", "running"}
       /\ HeadIs(o, Expected(o))
       /\ OwnerDead(o)
       /\ top' = [top EXCEPT ![t] = o]
       /\ TGoto(t, "append")
  /\ lock' = t
  /\ UNCHANGED <<session, chain, trev>> /\ OnlyTakeover

\* An earlier takeover appended its event and did not get to the handoff.
TakeoverResume(t) ==
  /\ tpc[t] = "idle" /\ Free /\ graph = "queued"
  /\ \E o \in Ops :
       /\ current = Nobody /\ lastClean = o
       /\ HeadIs(o, Expected(o))
       /\ OwnerDead(o)
       /\ top' = [top EXCEPT ![t] = o]
       /\ TGoto(t, "cas")
  /\ lock' = t
  /\ UNCHANGED <<session, chain, trev>> /\ OnlyTakeover

\* Mutant: the handoff is closed without the session event.
TakeoverAppendSkipped(t) ==
  /\ tpc[t] = "append"
  /\ TGoto(t, "cas")
  /\ UNCHANGED <<session, chain, lock, top, trev>> /\ OnlyTakeover

TakeoverAppend(t) ==
  /\ tpc[t] = "append"
  /\ ReconciledClean(top[t])
  /\ TGoto(t, "cas")
  /\ UNCHANGED <<chain, lock, top, trev>> /\ OnlyTakeover

TakeoverRead(t) ==
  /\ tpc[t] = "cas"
  /\ IF HeadIs(top[t], Expected(top[t]))
     THEN /\ trev' = [trev EXCEPT ![t] = Len(chain[top[t]])]
          /\ TGoto(t, "link") /\ UNCHANGED <<lock, top>>
     ELSE TakeoverEnds(t)
  /\ UNCHANGED <<session, chain>> /\ OnlyTakeover

TakeoverLink(t) ==
  /\ tpc[t] = "link"
  /\ IF Unchanged(top[t], trev[t])
     THEN Publish(top[t], [Expected(top[t]) EXCEPT !.state = "terminal"])
     ELSE UNCHANGED chain
  /\ TakeoverEnds(t)
  /\ UNCHANGED session /\ OnlyTakeover

\* A call throws, or it dies and the lock of the dead process is recovered.
TakeoverFails(t) ==
  /\ tpc[t] \in {"append", "cas", "link"}
  /\ TakeoverEnds(t)
  /\ UNCHANGED <<session, chain>> /\ OnlyTakeover

-----------------------------------------------------------------------------
(* The user, through TaskExecutionControlPlane.                            *)

GraphTo(from, to) ==
  /\ Free /\ graph \in from /\ graph' = to
  /\ UNCHANGED <<status, started, current, lastClean, chain, lock, parent, child,
                 takeover, mail>>
Enqueue == GraphTo({"waiting"}, "queued")
\* With no attempt under way; otherwise the scheduler stops the Graph.
Cancel == GraphTo({"queued", "running", "waiting"}, "stopped")

ParentSteps(o) ==
  \/ LaunchGenesis(o) \/ SpawnRequested(o) \/ SpawnRefused(o)
  \/ Spawn(o) \/ LaunchThrows(o) \/ ReadyReceived(o) \/ HandshakeFails(o)
  \/ VerifyReady(o) \/ VerifyFails(o)
  \/ FailRead(o) \/ FailLink(o) \/ FailLost(o) \/ FailMark(o)

ChildSteps(o) ==
  \/ ChildRead(o) \/ ChildValidate(o) \/ ClaimRead(o) \/ ClaimLink(o) \/ ClaimLost(o)
  \/ StartOwnership(o) \/ StartedAppend(o) \/ SendReady(o) \/ AckReceived(o)
  \/ SchedulerStops(o) \/ FinishAppend(o) \/ RetireRead(o)
  \/ GiveUpLink(o) \/ ChildFails(o)
  \/ MarkRead(o) \/ MarkSession(o) \/ MarkSwap(o)

TakeoverSteps(t) == TakeoverAppend(t) \/ TakeoverRead(t) \/ TakeoverLink(t)

Next ==
  \/ \E o \in Ops : LaunchCheck(o) \/ ParentSteps(o) \/ ParentDies(o)
                    \/ ChildSteps(o) \/ ChildDies(o)
  \/ \E t \in Takeovers : TakeoverOpen(t) \/ TakeoverResume(t)
                          \/ TakeoverSteps(t) \/ TakeoverFails(t)
  \/ Enqueue \/ Cancel

Spec == Init /\ [][Next]_vars

\* Every process goes on until it ends or dies: the handshake, the bootstrap
\* and the acknowledgement have timeouts and the scheduler a lifetime.
Fairness ==
  /\ \A o \in Ops : WF_vars(ParentSteps(o)) /\ WF_vars(ChildSteps(o))
  /\ \A t \in Takeovers : WF_vars(TakeoverSteps(t))
FairSpec == Spec /\ Fairness

-----------------------------------------------------------------------------
TypeOK ==
  /\ graph \in {"queued", "running", "waiting", "stopped"}
  /\ status \in [Ops -> {"none", "launching", "running", "terminal",
                         "reconciliation_required"}]
  /\ started \in [Ops -> BOOLEAN]
  /\ current \in Ops \cup {Nobody} /\ lastClean \in Ops \cup {Nobody}
  /\ chain \in [Ops -> Seq(Revision)]
  /\ lock \in Takeovers \cup {Nobody}
  /\ ppc \in [Ops -> ParentPcs] /\ prev \in [Ops -> Nat]
  /\ cpc \in [Ops -> ChildPcs] /\ crev \in [Ops -> Nat]
  /\ tpc \in [Takeovers -> TakeoverPcs] /\ top \in [Takeovers -> Ops \cup {Nobody}]
  /\ trev \in [Takeovers -> Nat]
  /\ mail \in [Ops -> {"none", "ready", "ack"}]

\* A live worker that claimed the handoff keeps it until it gives it up itself:
\* neither the parent that timed out nor a takeover replaces an active owner.
LiveOwnerKeepsHandoff ==
  \A o \in Ops : cpc[o] \in Owning => HeadIs(o, Owned)

\* At most one live worker is past its task_worker.started, although two
\* launches may pass the first look at the session, and it is the worker that
\* the session shows.
SingleWorker ==
  \A o \in Ops :
    cpc[o] \in {"ready", "awaitAck", "run", "finish"}
      => current = o /\ status[o] = "running"

\* The observation owner_dead_clean is true: the worker is dead.
CleanCloseIsDead ==
  \A o \in Ops : lastClean = o /\ started[o] => cpc[o] = "dead"

\* An operation is closed in the session before it is closed in its handoff
\* record: no crash leaves a closed handoff of a worker the session shows alive.
SessionClosesFirst ==
  \A o \in Ops :
    chain[o] # <<>> /\ chain[o][Len(chain[o])].state = "terminal"
      => status[o] \in {"terminal", "reconciliation_required"}

\* The handoff record is the register that HandoffRegister promises: the
\* read and the link of two swaps may interleave, one of them wins.
AuthorityOf(o) ==
  CASE chain[o] = <<>> -> "none"
    [] HeadIs(o, Launching) -> "parent"
    [] HeadIs(o, Owned) -> "worker"
    [] OTHER -> IF chain[o][Len(chain[o])].state = "terminal" THEN "closed"
                ELSE "unresolved"
Register == INSTANCE HandoffRegister WITH authority <- [o \in Ops |-> AuthorityOf(o)]
RegisterSpec == Register!Spec

\* A launch ends, and so does the worker it spawned, whoever dies and whatever
\* is lost.
LaunchSettles ==
  \A o \in Ops :
    ppc[o] = "request" ~>
      ppc[o] \in ParentDone /\ cpc[o] \in ChildDone

-----------------------------------------------------------------------------
(* Statements of the repository that the code does not keep.               *)

\* background-worker-takeover.ts: takeover "closes only a dead worker": a
\* worker that was closed does not own the handoff and drive the Graph.
ClosedWorkerIsNotOwner ==
  \A o \in Ops : lastClean = o => cpc[o] \notin Owning


=============================================================================
