# TLA+ development for BornAgent

This directory specifies and verifies the parts of BornAgent that decide whether
a session survives concurrency and failure: the lock and the log that every
component writes through, the scheduler that runs a Task Graph from that log, the
protocol that passes a Graph to a background worker, the commit protocol of the
application control plane, and the delegation of work to child processes.  It is
checked with TLC on small instances and, for the central safety properties, proved with TLAPS for
every instance.

Paths below are relative to `src/src/` of the repository unless they say otherwise.

## 1. The system

BornAgent is a local coding agent.  Everything durable about a session is one
append-only JSONL log; every decision is made by *projecting* the log (folding its
events into a state), checking a condition and appending one more event while the
session lock is held.  Several processes work on a session: the CLI or TUI, the
control plane on behalf of the user, a foreground scheduler, background workers,
takeover after a crash.

| Component | State it keeps | Operations | Hard behaviour | What makes it correct |
|---|---|---|---|---|
| session lock (`sessions/session-lock.ts`) | a lock file with owner, nonce, process identity | acquire, recover a stale lock, assertOwned, release | several file-system calls per operation, dead owners, several hosts | one live writer; only the dead are displaced |
| session store (`sessions/durable-session-store.ts`, `tail-recovery.ts`, `v2-session-writer.ts`) | the log, a writer's copy of it | open with tail repair, append, sync, close | torn lines, failed syncs, crash and power loss | what was acknowledged stays; the log always decodes; a writer's copy is the log |
| task scheduling (`scheduling/`) | projection of a Graph: node states, attempts, budget, lease, cancel flag | enqueue, run, cancel, retry | every step is an append under a lock that is given up in between; snapshots get stale | one active attempt, conserved budget, dependency order, runs end |
| task graph (`task-graph/`) | revisions of a Graph and their status | propose, approve, reject, supersede | stale revisions | only the approved revision runs |
| background workers (`background/`) | handoff revisions on disk, worker events in the log | launch, handshake, claim, start, finish, mark, takeover | two processes with a pipe between them, compare-and-swap without a lock, death of either | one authority, one worker, takeover only of the dead |
| worktrees (`worktrees/`) | leases, operation journal, promotions | create, lease, archive, promote | partial git operations | a writing attempt owns its worktree |
| application control plane (`control-plane/`) | prepared actions, operation journal with two indexes, file locks, registries | prepare, commit (accept, drive, dispatch, reconcile), query | response loss, lost leases, broken locks, retry of what was done | an operation has its effect once and says the truth about it |
| delegation (`delegation/`) | projection of delegations, attempts, slots, claims and barriers in the log; an operation journal per child; a group lease per repository | approve, enqueue, prepare, start, retry, cancel, resume, take over | four records written one after the other, children that outlive their coordinator, cancel against start | one attempt acts, under its own claims, and the parent waits for it |
| run coordination, goals, plans (`coordination/`, `goals/`, `plans/`) | goal and plan state, change ledger | transitions of both | reconciliation after a crash | ledger and state agree |
| agent loop (`agent/`) | turn, budgets, terminal state | model turn, tool calls, termination | cancel during a call | exactly one terminal event |
| changes, resume (`changes/`, `resume/`) | mutation journal, pending effects | plan, apply, roll back, reconcile | crash in the middle of a patch | an effect is known or reported unknown |
| completion, verification (`completion/`, `verification/`) | evidence bound to source states | verify, finish | evidence gone stale | completion rests on fresh evidence |
| hooks, mcp, plugins, execution, memory, artifacts | operation records, processes, files | run, supervise, install, store | processes that outlive their parent | recorded effects are reconciled |
| context, model, policy, permissions, tools, repository intelligence, surfaces, evaluation | little or none | pure decisions, adapters, I/O | - | functional correctness, outside this development |

The components meet in the log.  A `TaskMutationContext` names a session; a writer
factory opens a `V2SessionWriter` for it (taking the lock), the caller projects
`writer.events`, appends, and closes.  The scheduler does this once per transition
(`#mutate`), so between any two transitions another process can write.  A background
worker is a second process that runs the same scheduler; the parent hands it the
Graph through a record outside the log, whose revisions are published with `link()`.

`PROJECT.json` lists every component with its status, the map from each definition
to source lines, and the hazards: the places where this code can go wrong in ways a
unit test hardly reaches, each with the properties that watch it.

## 2. Modules

| Module | Models | State | Actions |
|---|---|---|---|
| `TaskExecution` | `TaskExecutionProjector` (and the Graph and worktree-lease events of their projectors) | node status, attempts, active attempt, origin of the next attempt, budget, lease, cancel flag, worktree leases | one operator per event, with the projector's guards |
| `TaskScheduler` | `DeterministicTaskScheduler.run`, `TaskExecutionControlPlane`, the delegation wait of the background worker | the above, the lock owner, and for each run its place, admission and result | one action per append; abort, crash, enqueue, cancel, retry |
| `SessionLock` | `SessionLock.acquire/assertOwned/release`, `assessSessionLockOwner`, the rename port | the file at the lock path, its contents, liveness, each process's place | one action per file-system call, each of which may fail |
| `SessionStore` | `DurableSessionStore`, `recoverSessionTail`, the append and open paths of `V2SessionWriter` | lines, unterminated tail, how much is synced, writers and their copies | one action per file-system call; crash and power loss |
| `HandoffRegister` | abstract: what the handoff record promises | one authority per operation | begin, claim, end |
| `BackgroundHandoff` | launcher, worker runtime, takeover, worker projection, handoff revisions | what the projection keeps, the revision chain, the place of every parent, child and takeover | one action per append, link, message, failure and death |
| `ControlOperations` | `DefaultAgentRunApplicationService.commit`, `ControlOperationJournal`, `ControlFileLock`, the session-domain owner it dispatches to | revisions of each operation, the indexes, the locks, what the domain has done, the place of every commit | one action per file-system step of accept, per journal revision of drive, per dispatch; lease expiry, crash, foreign head moves |
| `Delegation` | the delegation projector, the owner's start and resume, the child launcher, the child, pre-effect recovery, group takeover, lease and operation stores | the projection, the session writer and what it still appends, the lease, operations, child processes, commands and their launches | one action per append, journal swap, lease revision, message, timeout and death; the user's decisions and cancels |
| `MC...` | instances for TLC | | |
| `...Proofs` | theorems | | |

How the pieces fit: `SessionLock` establishes what exclusive means and when it is
lost; `SessionStore`, `TaskScheduler`, `BackgroundHandoff` and `Delegation` assume an
exclusive lock (`holder`, `owner`, `lock`, `writer`).  `SessionStore` establishes that an append either
happened or did not and that a writer's copy is the log; that is why an append in
`TaskScheduler` and `BackgroundHandoff` is one atomic step on the projected state.
`BackgroundHandoff` takes the whole of `TaskScheduler` between start and stop as one
step.  `ControlOperations` stands in front of them: its `Execute` is a mutation of the
session by one of the others, which happens or does not and may be found afterwards
(`Reconcile`) by its facts.  A delegation command is such an execution.

### Correspondence worth knowing

* An append that the projector would reject is an explicit "refused" action: the
  writer validates the extended log before it writes.
* `TaskScheduler.pc` has one value per lock hold *and* per append inside one hold, so
  a crash can come between two appends of one `#mutate`.  A crash releases the lock:
  the next `acquire` recovers it.
* Budgets are functions from counters to numbers.  The instance uses `attempts`, which
  is always reserved as 1, and one counter standing for the others.
* In `SessionLock` a process draws a fresh nonce, so its file is named after it.  A
  probe may report a dead process as unknown, never a live one as missing.
* In `SessionStore` an event is its writer and `session_seq`.  A power loss keeps at
  least the synced lines, may keep some others and may tear the next one; a rename
  that was not synced may be undone.  `AckedIsDurable` takes it that the fsync of a
  session file that was just created also makes its directory entry durable: the code
  does not sync the directory at that point.
* In `BackgroundHandoff` a swap of the handoff is a read of the head and a `link()` of
  the next revision, interleaved freely with others; the readback after the link may
  fail.  `child.kill()` is not trusted: a killed child may go on.
* In `ControlOperations` a commit reads the journal without a lock and keeps what it
  read; accept takes two locks, creates the operation and writes two indexes, each a
  step.  The heartbeat that renews a driver lease is an action of its own that may be
  late; the wall clock is the action `Expire`.
* In `Delegation` the coordinator's launches run in parallel and share the session's
  writer.  A hold is the list of events still to append (`writer.todo`): each append
  is a step, a crash may come between two, and an event the projector refuses throws
  (`refused`).  Only the start barrier keeps the writer after its append
  (`KeepsWriter`).  Input and output that fails in the middle of a hold has the same
  durable effect as a crash there and is not a step of its own.  An attempt, its actor
  and its operation are made together and share a number.  Four simplifications:
  `Spawn` is the spawn together with the swap of the operation to `spawned`; `Readmit`
  notes the slot in memory before its appends and the code after them, which nobody
  sees in between because retries take turns (when an append is refused the note stays,
  and all it changes is the number of the slot another retry asks for); `RecoverLater` does not check that the
  historical slot and claim name one group, so it does more than the code; a takeover
  entered again by the process that seized the group is left out.

## 3. Runs

| Run | Result | What it shows |
|---|---|---|
| `scheduler_safety` | passes | one active attempt, the held attempt stays active, conserved budget, dependency order, stopped Graphs idle, worktree ownership, settled nodes |
| `scheduler_live` | passes | every run of the scheduler ends |
| `bounded_stop` | violated | a run can return with the Graph still running |
| `session_lock` | passes | exclusive unless a live owner's file was renamed; recoveries are of the dead; the renamer stops |
| `lock_at_most_one_writer` | violated | a recoverer can rename a live owner's file, and then two processes write |
| `session_store` | passes | acknowledged events are durable, the log decodes, memory is the log, shown is synced unless an open failed |
| `handoff` | passes | the register is implemented, a live owner keeps the handoff, one worker, clean closes are of the dead, the session closes first; every launch and its worker end |
| `takeover_closes_live_worker` | violated | a takeover reports a live worker as not started |
| `control_commit` | passes | two commits with one key over two actions under crashes, broken locks, lost responses and lost leases: what is driven is indexed and dispatched at most once, refusals and results are true, a running lease is respected, every commit is answered |
| `delegation_group` | passes | three delegations, two of which collide, with a crash and a second coordinator: a child that acts holds its claims, no two collide, and a command opens the barrier of the group it starts, recovers or takes over only when that group is quiet |
| `delegation_recovery` | passes | one delegation with two attempts, a cancel, a failing surface, a crash and a second command, and a group of two whose retries meet: one attempt of a delegation acts, pre-effect is proven, reconciled is absorbed, start excludes cancel, no command and no launch is stuck |
| `takeover_releases_running_child` | violated | a takeover can release the claims of a child that acts |

A violated run states, as a property, a sentence of the repository (a comment, an
error message, a test title or a design document) that the code does not keep;
`findings` in `PROJECT.json` quotes it and names the line.  In every one of them the
counterexample needs a crash, a second process or an unusual sequence of user
commands.

Observed while modelling, without a run of their own (most of these lines are hazards in
`PROJECT.json` too):

* `scheduling/deterministic-task-scheduler.ts:212`: a crash between `lease.acquired` and
  `task_graph.started` leaves a queued Graph with a lease, which no later run can start.
* `background/background-worker-runtime.ts:743`: the delegation wait parks the Graph as
  waiting while its execution lease stays held (`DelegationWait`).
* `scheduling/task-execution-projector.ts:467`: dependents that were skipped when a node
  failed stay skipped after that node is retried and succeeds.
* `sessions/session-lock.ts:261`: a crash between the exclusive open and the write leaves
  an empty lock file, which every later acquire refuses and leaves to the user
  (`ReadUnusable`).
* `sessions/session-lock.ts:333`: the rename that recovers a stale lock can hit the file
  of a live owner that acquired after the assessment; `LockMoverStops` and
  `LockExclusive` say how far the damage goes.
* `scheduling/task-execution-projector.ts:341`: the cancel flag outlives the retry of a
  cancelled Graph; a node retried by the user ("manual retry requires one exact failed
  or cancelled Graph") is then never ready.
* `scheduling/task-execution-projector.ts:442`: a wait gives its attempt back to the
  queue without the node's ceiling being looked at; a node can get more attempts than
  `budget.maxAttempts`.
* `background/background-worker-launcher.ts:336`: a crash between the failed handoff and
  the session event leaves a launch that no takeover accepts.
* `sessions/durable-session-store.ts:150`: after an open that failed, the next writer may
  show lines that were never synced (hence the condition of
  `ShownIsSyncedUnlessOpenFailed`).

In the control plane:

* `control-plane/use-cases/session-domain-action-support.ts:233`: a driver that takes over
  a started operation without facts, after the session's head has moved, gets an
  exception where it needs `null`; the operation stays at `domain_append_started`.
* `control-plane/control-file-lock.ts:98`: an empty lock file (crash between open and
  write) is refused as corrupt by every later acquire of its key.
* `control-plane/control-file-lock.ts:146`: the rename of a stale lock may hit the lock of
  a live successor, so two commits can be inside accept at once and two operations can
  be made for one action.  What is driven is always one that an index names
  (`DrivenIsIndexed`, for any number of commits).  With four commits and several broken
  locks the index of the action and the index of the key may come to name different
  operations, and both are driven.

In delegation:

* `cli/node-runtime.ts:1228`: a `resume` from another process while the coordinator is
  between giving back the admission of a failed attempt and being admitted again finds
  nothing left to wait for.  It opens the parent's barrier as blocked and releases the
  lease without asking whether its owner lives; the coordinator then starts the second
  attempt, with the parent no longer "suspended behind a durable barrier"
  (`README.md:212`).  One attempt acts and it holds its claims (`EffectsOnce`,
  `RunningChildIsAdmitted`), which is why those and not the barrier are the invariants.
* The same recovery, of an older group, also opens the barrier of a newer group that has
  the delegation in common, while that newer group is admitted and a child of it is
  alive: the barrier is found by the delegation, the admissions by the group.  It takes
  three commands to get there, one more than the runs have; this is why
  `BarrierOpensQuiet` speaks of the group a command starts, recovers or takes over.
  A third command also shows why it excuses the retry of a group that was taken over
  (`Bypassed`): command 3 looks at group 1 for a takeover; command 1 admits and spawns
  a retry and dies; the delegation is cancelled and command 2 records that it ended
  before its effect; command 3 then seizes the group, finds nothing left to wait for,
  releases the retry's claims and opens barrier 1 while the retry's process is still up.
* `delegation/delegation-group-takeover.ts:207`: the claims a takeover releases are those
  the group holds when the writer is opened the second time, and nobody looks at their
  children again.  `takeover_releases_running_child` shows the child of a retry that was
  admitted in between.  This is the only way a child loses its claims: that is what
  `RunningChildIsAdmitted` says, which excuses the retry of a group that was taken over
  (`Bypassed`) and no one else.
* `delegation/runtime/child-launcher.ts:1137`: a cancel that becomes durable between the
  look at it and the recovery makes the projector refuse the pre-effect terminal.  The
  delegation stays `cancelling`, and so does one that was cancelled with no owner at
  work; either blocks later starts.
* `delegation/delegation-owner-execution-service.ts:1221`: a crash between the lease and
  the group's events, or a fence that fails for another reason than a cancel, leaves an
  active lease nobody finds.  A crash between a slot and its claim makes every takeover
  refuse (`delegation/delegation-group-takeover.ts:105`).
* `delegation/delegation-group-takeover.ts:39`: `blocked` is known to the barrier and not
  to the takeover.
* `delegation/delegation-owner-execution-service.ts:1466`: the final step looks for the
  attempt admitted first, so the claims of a *retried* attempt that was cancelled before
  its start stay.
* `delegation/runtime/child-launcher.ts:1067`: the start barrier and the cancellation poll
  may disagree: the poll kills a child whose start is durable; the outcome is `blocked`.

### Instances and bounds

* `MCTaskScheduler`: three nodes - a chain of two and an independent writing node that
  retries automatically - so that a node can fail while another is ready, a dependent
  can be skipped, and a retry can compete with a cancel; two runs, so that one can go
  stale; a Graph budget that allows four attempts, so that exhaustion is reached;
  `UseBound = 2` lets an attempt report more than it reserved.  Runs are symmetric.
  The temporal run has one node, because symmetry cannot be used there; it keeps the
  automatic retry and both runs.
* `MCSessionLock`: five processes, four of them interchangeable on one host: one dead
  owner, two recoverers that race, a newcomer, and one on another host.
  `MaxAttempts = 2` instead of the 8 of the code: a round leaves nothing behind but
  `recovery`, and the proofs hold for any bound.
* `MCSessionStore`: four writers, each opening once, and `MaxLines = 5`: an append, a
  torn tail, a repair, recovery facts and a second failure fit.
* `MCBackgroundHandoff`: two launches, so that both pass the first check, and two
  takeovers, so that the second finds what the first left.  Nothing is bounded beyond
  that: each process ends, the user may re-enqueue for ever.
* `MCControlOperations`: two commits with one key, two actions (one of which cannot be
  reconciled), next to two locks left behind: what is recorded about an operation depends on
  one competitor, and a race inside accept needs a dead holder whose lock both break.
  Driver epochs are bounded.
* `MCDelegation`: three delegations of which two collide, one attempt each, two commands
  and one crash (`delegation_group`): a group of two, a third that has to wait, and a
  second coordinator that starts it, resumes or takes over.  `delegation_recovery` has two
  delegations from their drafts, two attempts, two commands and a crash, and checks two
  slices of that instance (the action constraint `Sliced`).  In one, the second delegation
  is rejected: the first has its retry, a cancel, a surface that fails under the second
  command, and the start or resume of either command at any moment.  In the other, both
  are prepared and one command has both: either launch or both fail and retry, one waits
  for its turn behind the other, and the first may be cancelled while both retry.  The
  slices bound decisions, cancels, the begin of commands and, in the second, the result of
  a child that finishes (it succeeds); they never stop a step of a launch or a command.
  Two attempts is the code's own maximum, and so are two
  slots.  The violated run has two delegations with two attempts, of which the first
  command starts and the second resumes, without deaths of children (`NarrowSpec`): one
  child of the group has ended, the other is retried while the second command takes the
  group over.

Deadlock is not checked: every process may end, and nobody is obliged to start another.

### Fairness

`TaskScheduler.FairSpec` makes the steps of a run weakly fair: a continuation that is
ready is run by the event loop, the lock is retried (`LockBusy` gives up after a
bounded wait), and an attempt ends within its duration budget.  The second step of a
cancel is weakly fair for the same reason.  Starting, aborting, cancelling, retrying
and crashing are not fair.  `BackgroundHandoff.FairSpec` does the same for parents,
children and takeovers; the handshake (`#handshake`), the bootstrap (10 s) and the
acknowledgement (30 s) have timeouts, and the scheduler has a lifetime.  Death is never
fair.  `ControlOperations.FairSpec` makes the steps of a commit weakly fair and assumes
nothing of the clock, the heartbeat, other writers or crashes.  `Delegation` states no
fairness: that nobody waits for ever is the invariant `NoCommandIsStuck`.  By it every
command under way has a step of its own whatever the children do (each wait has a
timeout, each hold an end), and so has every single launch that has not ended, unless it
waits for its turn to retry (`retryMutations`) and the launch that has the turn has a
step.

## 4. Proofs

All theorems hold for every value of the constants that satisfies the `ASSUME`s of the
component's module (names are distinct, bounds are naturals, dependencies and budgets
are functions of the right type).

**`TaskSchedulerProofs`.**  `InductiveInvariant` is the conjunction of the type
invariant with what the projection keeps between its own fields: the attempt in flight
is the active one, reserved budget is that of the active attempt, used plus reserved is
within the limits, a node that has had an attempt has had its dependencies succeed, and
each run that holds a mutation half done knows a node.  It is needed because budget
conservation alone is not preserved by a terminal event: one has to know that what is
released was reserved.  From it: `TypeCorrect`, `BudgetSafety`, `DependencySafety`, and
the action property `SettledNodesSafety`.

`OwnershipInvariant` is the second layer, about runs that act on what they read earlier.
A run reads a snapshot, gives the lock up to prepare a workspace, and is admitted in a
third hold; two runs may be between those steps at once.  The invariant says what still
holds of such a run: its selection stands unless somebody else was admitted
(`SelectionStands`: if the attempt number it noted is still the next one, its node is
still ready, its lease still current and nobody is active); the same for a run about to
declare exhaustion (`ExhaustionStands`); after a terminal event nothing is active until
the run lets go (`QuietAfter`); while it appends the admission it owns the worktree it
asked for (`RequestingOwns`); a hold in the middle of its appends has the lock
(`LockHeld`).  `SingleActiveAttempt` alone is not inductive: admission checks a number,
and one has to know that the number is stale exactly when another was admitted.  From
it: `SingleAttemptSafety`, `HeldAttemptSafety`, `StoppedGraphSafety`, `WorktreeSafety`.

**`SessionLockProofs`.**  `LockInvariant` adds to the properties that an owner's file is
at the path unless somebody was displaced (`OwnersKeepTheirFile`), that a process past
the assessment has seen a dead process of its own host (`SeenIsDead` - death is stable,
which is why judging once is enough), and that a round is left while renaming
(`RoundsLeft`).  From it: `TypeCorrect`, `LockExclusive`, `LockRecovery`,
`LockMoverStops`.

**`SessionStoreProofs`.**  The invariant adds who holds the lock in which phase
(`Owner`), what each phase knows of the file (`Views`), that acknowledged sequence
numbers are positive, and what is flushed when nobody owes a recovery fact (`Flushed`).
The lemmas `AppendDecodes` and `PrefixDecodes` say that appending the next event and
cutting the log (a power loss) preserve decodability.  From it: `AckedSafety`,
`DecodeSafety`, `MemorySafety`, `ShownSafety`.

**`BackgroundHandoffProofs`.**  `IInv` adds to the properties that a launch nobody was
told of has no child, no status and no revision (`NewLaunch`); that a revision that was
read is still the head with the value that was read, or superseded (`Reads`), which is
what makes a read and a link in two steps a compare-and-swap; that a takeover holds the
lock and that the death it saw is final (`Locked`); that only the current operation is
launching or running (`Projection`); and that a retiring worker has closed its operation
in the session (`Retiring`).  `LiveOwnerKeepsHandoff` is not inductive alone: one has to
know that a parent links over the launching revision it read, and that a takeover that
expects the worker's revision saw the worker dead.  The lemmas `PublishHead` and
`Published` say what a link does to heads and to what others have read; `ParentMoves`,
`ChildMoves` and `TakeoverMoves` cover the steps that write nothing.  From it:
`TypeCorrect`, `LiveOwner`, `OneWorker`, `CleanClose`, `ClosesInOrder`, and, with the refinement mapping
`AuthorityOf`, `ImplementsRegister`.

**`ControlOperationsProofs`.**  `IInv` is the type invariant with: where in the protocol
a commit may be given the state of its operation (`Places`); that driver epochs grow and
a commit's epoch is one that was given out (`Epochs`); that the holder of the current
epoch is the only commit that may write (`Owned`); that the record a commit read earlier
is behind the journal (`Snapshot`, which is what makes a durable refusal from a stale
record true); that an operation before its start was not dispatched (`Undispatched`) and
what later states say of the domain (`Effects`).  At-most-once is not inductive alone: a
driver that lost its lease goes on, and only the epoch of its claim stops its next
write.  From it: `TypeCorrect`, `AtMostOneDispatch`, `RefusalsAreTrue`, `ResultsAreTrue`,
`LeasesAreRespected`.

A second layer, `Indexed`, follows a commit through accept: what it created, found or
conflicted with is what an index names from the moment the index is written, since an
index is created once and never replaced.  From it: `DrivenOperationsAreIndexed`.

**`DelegationLaunchProofs`, `DelegationProofs`.**  Four records say something about a child
(the session, its operation, its process, what the coordinator's launch remembers) and
are written one after the other, with a crash possible between any two.  `Inv` says how
far they may be apart:

* `SessionOK`: what the projector keeps by itself, e.g. that at most one attempt of a
  delegation is started, none while the delegation is queued, and that a durable cancel
  and the status agree;
* `Proven`, an operation that records a failure without effect, is the hinge.  It is
  final, its child is gone and no launch can touch it any more (`ProvenIsOver`); what the
  session calls an end without effect is proven (`NoEffectIsProven`); a child that was
  told to start is one whose start is in the session (`ActedIsStarted`);
* a launch in a step that may still spawn, tell or kill is in `Danger`; no two launches
  are about the same attempt (`OneDanger`), which is how two coordinators, or a
  coordinator and a resume, are kept apart;
* what a launch, a command and the holder of the writer know at each step
  (`LaunchOK`, `CommandOK`, `WriterOK`).  An event in `writer.todo` is a promise: `EventOK`
  says what makes it acceptable later and `Pending` what it will establish.  This part
  is needed because a hold appends several events and is overtaken by other launches'
  steps on the operations and children in between.

The lemmas of the first module say what a session never takes back (`Grow`) and that every
event the projector accepts leaves a sound projection that has grown (`Follows`); the
loops that build lists of events are treated once by induction over sets of naturals
(`SetInduction`).  The steps of a launch follow there; the steps of commands, children
and the writer, the theorem `InductiveInvariant` and its consequences are in the second.
From it: `RecordShapes`, `EffectsOnceSafety`, `PreEffectSafety`, `ReconciledSafety` and the
action property `StartCancelExclusion`.

**`DelegationAdmissionProofs`.**  The book of slots and claims is kept in the session, by
events of four writers: the admission of a group, the retry of a launch, the recovery of
an earlier command, the takeover of a group.  A release says nothing of the child it is
about; that the child is over is known only to whoever asked for the release, some steps
earlier.  `Admission` is a second layer over `Inv` that carries this knowledge:

* `Spent`: the child can do nothing any more, because its operation proves that it ended
  before its start or because its terminal frame was sent.  `LiveIsSafe`: a child that is
  up holds its slot and claim under one group, or is the retry of a group that was taken
  over (`Bypassed`), or is spent.  `ReconciledIsSpent` and `CleanIsCancelled` tie the
  operations and the attempts to the same notion;
* `BookOK`: at most two slots, no two claims that collide, and both only for delegations
  that their group's barrier waits for;
* `LaunchSafe` and `CommandSafe`: what a launch at each step knows of its child
  (`Learned`), that a command that was never admitted has nothing booked in its name
  (`Unbooked`), and that of a group about to be taken over only retries may still act
  (`Abandoned`), which is where the exception comes from;
* `WriterSafe`: what the events still in `writer.todo` promise.  A release there is of a
  spent child, or of a retry of a group that is taken over; an admission is of the
  writer's own group and of what its barrier waits for; and when the list is done, those
  whom the group or the retry will launch are admitted (`Coming`).

`RunningChildIsAdmitted` is not inductive alone: a claim disappears when the writer gets
to a release it promised long ago, while other launches, children and crashes move on,
so the promise has to be stable and the child of a promised release has to stay over.
The steps are treated by kind: a step that leaves the book alone (`SameBook`) and keeps
what is known of children (`AllKept`) preserves everything but what its own actor knows
(`LaunchPasses`, `CommandAdvances`, `QuietSafe`); an append changes one slot, claim,
barrier or nonce (`Entry`), and the lemmas named `...Grows` say what each part of the
invariant makes of that.  From `AdmissionInvariant`: `AdmissionSafety`, and, with a
function that gives each acting child its slot as the injection, `ParallelSafety`.
TLC checked `Admission` on four instances before it was proved.

A third layer, `Booking`, answers the opposite question: not whether a child that acts is
in the book, but whom the book still has when a barrier opens.  `Admission` cannot say
it, because there a group may hold a slot nobody will ever give back.

* `Booked`: whoever was admitted with a group has his slot still, or is spent, or is a
  retry of a group that was taken over.  So a group that holds nothing has no child that
  can act;
* `OneEach`: of one delegation a group holds at most one attempt, so that releasing the
  attempt admitted last releases all there is.  It holds because a retry gives back the
  first admission before it asks for the second (`LaunchClear`, `RetryClear`) and because
  what the writer grants is granted to nobody else (`GrantClear`);
* `OpenClear`: when the writer owes the opening of the barrier of its own group, or of the
  group it recovers or takes over, the events in front of it give back all that the group
  holds now.

`OpenClear` is the step from the loops to the state: the lists that the end of a run, the
recovery of an earlier command and the adoption of a taken group build are folds over the
group's delegations, and `GroupClear`, `LoopAll` and `AdoptGivesAll` say that such a fold
gives back every slot and claim in the book it was built from.  It stays true because
others are locked out of the book while the list is worked off, and the list only loses
its head.  From `BookingInvariant`: `BarrierSafety`, which is `BarrierOpensQuiet` for every
instance.  TLC checked `Booking` too on four instances first.  With three commands and a
takeover the property is false without the exception for retries, see section 3.

Only model-checked: the temporal properties `RunTerminates`, `LaunchSettles` and
`CommitIsAnswered` (liveness is out of the prover's reach), and `NoCommandIsStuck`, which is
about `ENABLED`.

## 5. Not modelled

Contents of messages, prompts, hashes, paths and JSON; the V1 handoff file, heartbeats
and cancel controls of background workers; prepare, queries and registries of the
control plane; budget counters, approvals and the Graph-bound cancel cascade of
delegation; git; network providers.  Components with
status `not_modelled` in `PROJECT.json` say why.

## 6. Plan

Done: scheduler, lock, store, handoff, because everything else writes through them; then
the commit protocol of the control plane and delegation, because they decide what
happens twice.  Next, in this order:

1. Delegation budgets, approvals and the cancel cascade of a Graph.
2. Graph revisions: propose, approve, reject, supersede (`task-graph/`), composed with
   `TaskScheduler` so that only an approved revision runs.
3. Cancel controls of background workers, with their idempotent consumption.
4. Patch application with the mutation journal, and the pending-effect ledger of resume.
5. Worktree operations and promotion; hook command operations; plugin lifecycle.
6. Agent loop, completion evidence, goal and plan transitions; the memory store.
