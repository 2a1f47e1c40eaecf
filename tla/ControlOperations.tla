-------------------------- MODULE ControlOperations --------------------------
(***************************************************************************)
(* The commit half of the application control plane: the calls of          *)
(* DefaultAgentRunApplicationService.commit that race for one prepared     *)
(* action, the ControlOperationJournal they share, and the domain owner    *)
(* that the winner dispatches to.                                          *)
(*                                                                         *)
(* A Call is one commit in a process of its own; an operation is named     *)
(* after the call that created it.  A journal revision is linked under a   *)
(* name that must not exist, so a mutation applies to the record it read   *)
(* or fails: it is one step here, which may also be refused (the file lock *)
(* is held by another) or applied and then reported as failed (readback or *)
(* lock release fails after the link).  `same` says that the record a call *)
(* read is still the last revision, the question its hash answers.         *)
(*                                                                         *)
(* accept is several steps: a crash between them leaves an operation       *)
(* without its indexes, and the lock that serialises it can be lost.       *)
(***************************************************************************)
EXTENDS Integers, FiniteSets

CONSTANTS
  Calls, None,
  Actions,        \* prepared actions
  Keys,           \* idempotency keys of commit requests
  KeyOf,          \* the key each call sends
  Reconcilable,   \* the actions whose definition has a reconcile
  ControlOnly,    \* the actions whose effectClass is control_only
  Departed,       \* a process that died inside accept, before all this,
  LeftBehind      \* and the locks it still held

ASSUME ControlAssumption ==
  /\ None \notin Calls /\ Departed \notin Calls /\ Departed # None
  /\ LeftBehind \subseteq Actions \cup Keys
  /\ None \notin Actions /\ Actions \cap Keys = {}
  /\ KeyOf \in [Calls -> Keys]
  /\ Reconcilable \subseteq Actions /\ ControlOnly \subseteq Actions

VARIABLES
  state, claim, fresh, top,  \* of each operation: its state; the claimEpoch of
                             \* its owner, 0 for none; the lease has not
                             \* expired; the highest epoch in its history
  prepared, idempotency,     \* the two indexes
  lock,                      \* the file locks of accept
  head,                      \* the session is still at the prepared head
  facts,                     \* the domain facts of the operation are durable
  dispatches,                \* history: how often execute was called
  pc, want, op, seen, same, my, err
  \* of each call: the action it commits, the operation it works on, the
  \* state and claim it read, whether that is the last revision, its own
  \* claimEpoch, and the error it will report

journal == <<state, claim, fresh, top>>
indexes == <<prepared, idempotency>>
world   == <<head, facts, dispatches>>
locals  == <<want, op, seen, same, my, err>>
vars    == <<journal, indexes, lock, world, pc, locals>>

PreDispatch == {"accepted", "authority_validated", "reserved"}
Refused     == {"blocked_stale", "failed_internal", "rejected_known_not_started"}
Terminal    == Refused \cup {"blocked_unknown_effect", "completed"}
States      == PreDispatch \cup Terminal \cup
               {"domain_append_started", "domain_records_linked", "result_built"}
Errors      == {"none", "stale", "rejected", "internal", "busy"}
Driving     == {"validate", "reserve", "start", "dispatch", "executing", "failed",
                "reconcile", "rebuild", "block", "link", "build", "finish"}
Over        == {"completed", "refused", "dead"}
Labels      == Driving \cup Over \cup
               {"idle", "find", "indexFirst", "check", "lockPrepared", "breakPrepared",
                "acceptPrepared", "lockKey", "breakKey", "acceptKey", "create",
                "indexPrepared", "indexKey", "unlockPrepared", "unlock",
                "acquire", "release", "catch"}

Init ==
  /\ state = [o \in Calls |-> "absent"]
  /\ claim = [o \in Calls |-> 0] /\ top = [o \in Calls |-> 0]
  /\ fresh = [o \in Calls |-> FALSE]
  /\ prepared = [a \in Actions |-> None] /\ idempotency = [k \in Keys |-> None]
  /\ lock = [l \in Actions \cup Keys |-> IF l \in LeftBehind THEN Departed ELSE None]
  /\ head = [a \in Actions |-> TRUE]
  /\ facts = [o \in Calls |-> FALSE]
  /\ dispatches = [o \in Calls |-> 0]
  /\ pc = [c \in Calls |-> "idle"]
  /\ want = [c \in Calls |-> None]
  /\ op = [c \in Calls |-> None]
  /\ seen = [c \in Calls |-> <<"absent", 0>>]
  /\ same = [c \in Calls |-> FALSE]
  /\ my = [c \in Calls |-> 0]
  /\ err = [c \in Calls |-> "none"]

Goto(c, l) == pc' = [pc EXCEPT ![c] = l]
Report(c, e) == err' = [err EXCEPT ![c] = e]
NoReport == UNCHANGED err
\* The call is over, and with it what it knew.
Leave(c, l) ==
  /\ Goto(c, l) /\ Report(c, "none")
  /\ seen' = [seen EXCEPT ![c] = <<"absent", 0>>]
  /\ my' = [my EXCEPT ![c] = 0]
\* An exception inside commit, caught at its end.
Throw(c, e) == Goto(c, "catch") /\ Report(c, e)

-----------------------------------------------------------------------------
(* The journal.                                                            *)

Winners(a) == {o \in Calls : state[o] # "absent" /\ want[o] = a}
KeyWinners(k) == {o \in Calls : state[o] # "absent" /\ KeyOf[o] = k}

\* journal.read: the last revision of o becomes the `operation` of c.
Read(c, o) ==
  /\ op' = [op EXCEPT ![c] = o]
  /\ seen' = [seen EXCEPT ![c] = <<state[o], claim[o]>>]
  /\ same' = [same EXCEPT ![c] = TRUE]

\* appendRevisionLocked: revision + 1, with state s and the claim of epoch e.
Append(o, s, e) ==
  /\ state' = [state EXCEPT ![o] = s]
  /\ claim' = [claim EXCEPT ![o] = e]
  /\ fresh' = [fresh EXCEPT ![o] = e # 0]
  /\ top' = [top EXCEPT ![o] = IF e > @ THEN e ELSE @]
  /\ same' = [c \in Calls |-> same[c] /\ op[c] # o]

NoWrite(c) == UNCHANGED journal /\ same' = [same EXCEPT ![c] = FALSE]

Forward(s) ==
  CASE s = "accepted" -> {"authority_validated"} \cup Refused
    [] s = "authority_validated" -> {"reserved", "domain_append_started"} \cup Refused
    [] s = "reserved" ->
         {"domain_append_started", "blocked_unknown_effect"} \cup Refused
    [] s = "domain_append_started" ->
         {"domain_records_linked", "blocked_unknown_effect", "failed_internal"}
    [] s = "domain_records_linked" ->
         {"result_built", "blocked_unknown_effect", "failed_internal"}
    [] s = "result_built" -> {"completed", "blocked_unknown_effect", "failed_internal"}
    [] OTHER -> {}

\* withClaimedOperation: the last revision carries the claim of this driver.
Owns(c) == my[c] # 0 /\ claim[op[c]] = my[c]

\* reconcileControlOperationDriver, for an operation that is not terminal.
LeaseHeld(o) == claim[o] # 0 /\ fresh[o]
\* Mutant: an unexpired lease is taken over like an expired one.
AcquireKind_IgnoresLease(o) ==
  IF /\ state[o] \in {"domain_append_started", "domain_records_linked"}
     /\ want[o] \notin Reconcilable
  THEN "block_unknown_effect" ELSE "acquire"

AcquireKind(o) ==
  IF LeaseHeld(o) THEN "busy"
  ELSE IF /\ state[o] \in {"domain_append_started", "domain_records_linked"}
          /\ want[o] \notin Reconcilable
       THEN "block_unknown_effect" ELSE "acquire"

-----------------------------------------------------------------------------
(* commit, up to accept.                                                   *)

\* The request is parsed, authenticated and bound to its prepared action.
Begin(c, a) ==
  /\ pc[c] = "idle" /\ Goto(c, "find")
  /\ want' = [want EXCEPT ![c] = a]
  /\ UNCHANGED <<journal, indexes, lock, world, op, seen, same, my, err>>

\* findByPreparedAction, findByIdempotency: the index i, or else a scan that
\* finds the operations ws; more than one winner is corruption.
FindStep(c, i, ws, hit, none, scanned, corrupt) ==
  \/ i # None /\ Read(c, i) /\ Goto(c, hit) /\ NoReport
  \/ /\ i = None /\ ws = {}
     /\ Goto(c, none) /\ UNCHANGED <<op, seen, same, err>>
  \/ /\ i = None /\ \E o \in ws : ws = {o} /\ Read(c, o)
     /\ Goto(c, scanned) /\ NoReport
  \/ /\ i = None /\ Cardinality(ws) > 1
     /\ Goto(c, corrupt) /\ Report(c, "internal") /\ UNCHANGED <<op, seen, same>>

\* Mutant: an operation that only the scan finds is driven as it is.
Find_Unindexed(c) ==
  /\ pc[c] = "find"
  /\ FindStep(c, prepared[want[c]], Winners(want[c]), "check", "check", "check", "catch")
  /\ UNCHANGED <<journal, indexes, lock, world, want, my>>

\* Outside any lock.
Find(c) ==
  /\ pc[c] = "find"
  /\ FindStep(c, prepared[want[c]], Winners(want[c]), "check", "check", "indexFirst", "catch")
  /\ UNCHANGED <<journal, indexes, lock, world, want, my>>

\* writeIndex: the first winner stays; another one is a conflict.
WriteIndex(c, i, x) == i[x] \in {None, op[c]} /\ i' = [i EXCEPT ![x] = op[c]]

IndexFirst(c) ==
  /\ pc[c] = "indexFirst"
  /\ \/ /\ WriteIndex(c, prepared, want[c]) /\ Goto(c, "check") /\ UNCHANGED <<op, err>>
     \/ /\ prepared[want[c]] \notin {None, op[c]} /\ Throw(c, "internal")
        /\ op' = [op EXCEPT ![c] = None] /\ UNCHANGED prepared
  /\ UNCHANGED <<journal, idempotency, lock, world, want, seen, same, my>>

\* Before dispatch the grant, the expiry, the payload and the target are
\* checked again; afterwards only the payload is read.
Check(c) ==
  /\ pc[c] = "check"
  /\ LET early == op[c] = None \/ seen[c][1] \in PreDispatch IN
     \/ /\ early => head[want[c]]
        /\ Goto(c, IF op[c] = None THEN "lockPrepared" ELSE "acquire") /\ NoReport
     \/ early /\ ~head[want[c]] /\ Throw(c, "stale")
     \/ \E e \in {"rejected", "internal"} : Throw(c, e)
  /\ UNCHANGED <<journal, indexes, lock, world, want, op, seen, same, my>>

-----------------------------------------------------------------------------
(* accept, under the lock of the prepared action and that of the key.      *)

Gone(x) == x = Departed \/ (x \in Calls /\ pc[x] = "dead")

\* Mutant: waits for the file to disappear, without staleness or deadline.
LockStep_WaitsForever(c, l, here, breaking, inside, outside) ==
  /\ pc[c] = here /\ lock[l] = None /\ lock' = [lock EXCEPT ![l] = c]
  /\ Goto(c, inside) /\ NoReport

\* ControlFileLock.acquire: create the file exclusively; when the process of
\* the record found is gone, rename the path away and try again (whatever
\* the path holds by then); give up after two seconds.
LockStep(c, l, here, breaking, inside, outside) ==
  \/ /\ pc[c] = here
     /\ \/ /\ lock[l] = None /\ lock' = [lock EXCEPT ![l] = c]
           /\ Goto(c, inside) /\ NoReport
        \/ /\ lock[l] # None /\ Gone(lock[l])
           /\ Goto(c, breaking) /\ UNCHANGED <<lock, err>>
        \/ /\ lock[l] # None
           /\ Goto(c, outside) /\ Report(c, "busy") /\ UNCHANGED lock
  \/ /\ pc[c] = breaking
     /\ lock' = [lock EXCEPT ![l] = None]
     /\ Goto(c, here) /\ NoReport

AcceptLock(c) ==
  /\ \/ LockStep(c, want[c], "lockPrepared", "breakPrepared", "acceptPrepared", "catch")
     \/ LockStep(c, KeyOf[c], "lockKey", "breakKey", "acceptKey", "unlockPrepared")
  /\ UNCHANGED <<journal, indexes, world, want, op, seen, same, my>>

\* A winner for the prepared action is the answer, whatever the key.
AcceptPrepared(c) ==
  /\ pc[c] = "acceptPrepared"
  /\ FindStep(c, prepared[want[c]], Winners(want[c]),
              "unlockPrepared", "lockKey", "indexPrepared", "unlockPrepared")
  /\ UNCHANGED <<journal, indexes, lock, world, want, my>>

AcceptKey(c) ==
  /\ pc[c] = "acceptKey"
  /\ FindStep(c, idempotency[KeyOf[c]], KeyWinners(KeyOf[c]),
              "indexKey", "create", "indexKey", "unlock")
  /\ UNCHANGED <<journal, indexes, lock, world, want, my>>

Create(c) ==
  /\ pc[c] = "create" /\ Goto(c, "indexPrepared")
  /\ state' = [state EXCEPT ![c] = "accepted"]
  /\ op' = [op EXCEPT ![c] = c]
  /\ seen' = [seen EXCEPT ![c] = <<"accepted", 0>>]
  /\ same' = [same EXCEPT ![c] = TRUE]
  /\ UNCHANGED <<claim, fresh, top, indexes, lock, world, want, my, err>>

IndexPrepared(c) ==
  /\ pc[c] = "indexPrepared"
  /\ LET created == op[c] = c IN
     \/ /\ WriteIndex(c, prepared, want[c]) /\ NoReport
        /\ Goto(c, IF created THEN "indexKey" ELSE "unlockPrepared")
     \/ /\ prepared[want[c]] \notin {None, op[c]} /\ UNCHANGED prepared
        /\ Goto(c, IF created THEN "unlock" ELSE "unlockPrepared") /\ Report(c, "internal")
  /\ UNCHANGED <<journal, idempotency, lock, world, want, op, seen, same, my>>

\* A winner for the key must be the same request: the same prepared action.
IndexKey(c) ==
  /\ pc[c] = "indexKey" /\ Goto(c, "unlock")
  /\ \/ /\ WriteIndex(c, idempotency, KeyOf[c])
        /\ Report(c, IF want[op[c]] = want[c] THEN "none" ELSE "rejected")
     \/ /\ idempotency[KeyOf[c]] \notin {None, op[c]}
        /\ Report(c, "internal") /\ UNCHANGED idempotency
  /\ UNCHANGED <<journal, prepared, lock, world, want, op, seen, same, my>>

\* The locks are given back; one that is not there any more fails the call.
\* A failed accept leaves commit without an operation.
Unlock(c) ==
  /\ pc[c] \in {"unlockPrepared", "unlock"}
  /\ lock' = [l \in DOMAIN lock |-> IF lock[l] = c THEN None ELSE lock[l]]
  /\ LET kept == lock[want[c]] = c /\ (pc[c] = "unlock" => lock[KeyOf[c]] = c) IN
     \/ kept /\ err[c] = "none" /\ Goto(c, "acquire") /\ UNCHANGED <<op, err>>
     \/ /\ ~kept \/ err[c] # "none"
        /\ Throw(c, IF kept THEN err[c] ELSE "internal")
        /\ op' = [op EXCEPT ![c] = None]
  /\ UNCHANGED <<journal, indexes, world, want, seen, same, my>>

-----------------------------------------------------------------------------
(* acquireDriver and drive.                                                *)

\* Mutant: the state is returned where the next step is meant.
DriveFrom_ReturnsState(s, a) ==
  CASE s = "accepted" -> "validate"
    [] s = "authority_validated" -> IF a \in ControlOnly THEN "start" ELSE "reserve"
    [] s = "reserved" -> "start"
    [] s = "domain_append_started" -> "reconcile"
    [] s = "domain_records_linked" -> "rebuild"
    [] OTHER -> s

\* Mutant: a prefix that was started but not linked is dispatched again.
DriveFrom_Redispatches(s, a) ==
  CASE s = "accepted" -> "validate"
    [] s = "authority_validated" -> IF a \in ControlOnly THEN "start" ELSE "reserve"
    [] s = "reserved" -> "start"
    [] s = "domain_append_started" -> "dispatch"
    [] s = "domain_records_linked" -> "rebuild"
    [] OTHER -> "finish"

\* Where drive begins at each state; a started prefix is reconcileOnly.
DriveFrom(s, a) ==
  CASE s = "accepted" -> "validate"
    [] s = "authority_validated" -> IF a \in ControlOnly THEN "start" ELSE "reserve"
    [] s = "reserved" -> "start"
    [] s = "domain_append_started" -> "reconcile"
    [] s = "domain_records_linked" -> "rebuild"
    [] OTHER -> "finish"

\* The last revision decides: terminal and busy end the call, a dispatched
\* prefix that cannot be reconciled becomes unknown, anything else is
\* claimed with the next epoch.  A terminal record that commit read earlier
\* is still the last one, so its shortcut gives the same answer.
AcquireDriver(c) ==
  /\ pc[c] = "acquire"
  /\ LET o == op[c] IN
     \/ /\ state[o] \in Terminal
        /\ Leave(c, IF state[o] = "completed" THEN "completed" ELSE "refused") /\ NoWrite(c)
     \/ /\ state[o] \notin Terminal /\ AcquireKind(o) = "busy"
        /\ Leave(c, "refused") /\ NoWrite(c)
     \/ /\ state[o] \notin Terminal /\ AcquireKind(o) = "block_unknown_effect"
        /\ Append(o, "blocked_unknown_effect", 0) /\ Leave(c, "refused")
     \/ /\ state[o] \notin Terminal /\ AcquireKind(o) = "acquire"
        /\ Append(o, state[o], top[o] + 1)
        /\ \/ /\ Goto(c, DriveFrom(state[o], want[c])) /\ NoReport
              /\ my' = [my EXCEPT ![c] = top[o] + 1]
              /\ seen' = [seen EXCEPT ![c] = <<state[o], top[o] + 1>>]
           \/ Throw(c, "internal") /\ UNCHANGED <<my, seen>>
     \/ /\ \E e \in {"busy", "internal"} : Throw(c, e)
        /\ UNCHANGED <<journal, same, my, seen>>
  /\ UNCHANGED <<indexes, lock, world, want, op>>

\* An exception inside drive: its finally releases the driver.
Abandon(c) == Goto(c, "release") /\ Report(c, "busy")

UpdateClaimed(c, s, next) ==
  /\ \/ /\ Owns(c) /\ s \in Forward(state[op[c]])
        /\ Append(op[c], s, IF s \in Terminal THEN 0 ELSE my[c])
        /\ \/ Goto(c, next) /\ NoReport
           \/ Abandon(c)
     \/ Abandon(c) /\ UNCHANGED <<journal, same>>
  /\ UNCHANGED <<indexes, lock, world, want, op, seen, my>>

Validate(c) ==
  /\ pc[c] = "validate"
  /\ UpdateClaimed(c, "authority_validated", DriveFrom("authority_validated", want[c]))
Reserve(c) == pc[c] = "reserve" /\ UpdateClaimed(c, "reserved", "start")
Start(c) == pc[c] = "start" /\ UpdateClaimed(c, "domain_append_started", "dispatch")

Dispatch(c) ==
  /\ pc[c] = "dispatch" /\ Goto(c, "executing")
  /\ dispatches' = [dispatches EXCEPT ![op[c]] = @ + 1]
  /\ UNCHANGED <<journal, indexes, lock, head, facts, locals>>

\* executeSessionDomainAction: facts of this operation are recovered, and
\* otherwise appended if the session is still at the prepared head; the
\* response can be lost either way.
Execute(c) ==
  /\ pc[c] = "executing"
  /\ \/ /\ facts[op[c]] \/ head[want[c]]
        /\ facts' = [facts EXCEPT ![op[c]] = TRUE]
        /\ Goto(c, "link") \/ Goto(c, "failed")
     \/ Goto(c, "failed") /\ UNCHANGED facts
  /\ UNCHANGED <<journal, indexes, lock, head, dispatches, locals>>

\* After a failed execute, reconcile may only find the exact facts.
ReconcileFailed(c) ==
  /\ pc[c] = "failed"
  /\ \/ want[c] \in Reconcilable /\ facts[op[c]] /\ Goto(c, "link")
     \/ Goto(c, "block")
  /\ UNCHANGED <<journal, indexes, lock, world, locals>>

\* Mutant: an empty reconciliation counts as success.
Reconcile_NullIsSuccess(c) ==
  /\ pc[c] \in {"reconcile", "rebuild"}
  /\ \/ Goto(c, IF pc[c] = "reconcile" THEN "link" ELSE "build") /\ NoReport
     \/ Abandon(c)
  /\ UNCHANGED <<journal, indexes, lock, world, want, op, seen, same, my>>

\* A driver that took over: facts, or none and null, or an exception, which
\* is what a session that has moved on gives.
Reconcile(c) ==
  /\ pc[c] \in {"reconcile", "rebuild"}
  /\ \/ /\ facts[op[c]] /\ NoReport
        /\ Goto(c, IF pc[c] = "reconcile" THEN "link" ELSE "build")
     \/ ~facts[op[c]] /\ head[want[c]] /\ Goto(c, "block") /\ NoReport
     \/ Abandon(c)
  /\ UNCHANGED <<journal, indexes, lock, world, want, op, seen, same, my>>

Block(c) ==
  /\ pc[c] = "block"
  /\ \/ /\ Owns(c) /\ "blocked_unknown_effect" \in Forward(state[op[c]])
        /\ Append(op[c], "blocked_unknown_effect", 0)
     \/ UNCHANGED <<journal, same>>
  /\ Abandon(c)
  /\ UNCHANGED <<indexes, lock, world, want, op, seen, my>>

Link(c) == pc[c] = "link" /\ UpdateClaimed(c, "domain_records_linked", "build")
\* The result artifact is stored under the operation's id, then recorded.
Build(c) == pc[c] = "build" /\ UpdateClaimed(c, "result_built", "finish")
Finish(c) == pc[c] = "finish" /\ UpdateClaimed(c, "completed", "release")

\* The heartbeat of a driver; its failures are ignored.
RenewDriver(c) ==
  /\ pc[c] \in Driving /\ Owns(c)
  /\ Append(op[c], state[op[c]], my[c])
  /\ UNCHANGED <<indexes, lock, world, pc, want, op, seen, my, err>>

\* releaseDriver in drive's finally, whose own failure is ignored: an effect
\* that cannot be reconciled becomes unknown, anything else is handed on.
ReleaseDriver(c) ==
  /\ pc[c] = "release"
  /\ LET o == op[c] IN
     \/ /\ Owns(c)
        /\ Append(o, IF /\ state[o] \in {"domain_append_started", "domain_records_linked"}
                        /\ want[o] \notin Reconcilable
                     THEN "blocked_unknown_effect" ELSE state[o], 0)
     \/ NoWrite(c)
  /\ Leave(c, IF err[c] = "none" THEN "completed" ELSE "refused")
  /\ UNCHANGED <<indexes, lock, world, want, op>>

Known == {"stale", "rejected", "internal"}
KnownNotStarted(e) ==
  CASE e = "stale" -> "blocked_stale"
    [] e = "rejected" -> "rejected_known_not_started"
    [] e = "internal" -> "failed_internal"

\* Mutant: writes over whatever revision is last, if it has no driver.
Terminalize_WithoutHash(c) ==
  /\ pc[c] = "catch" /\ Leave(c, "refused")
  /\ \/ /\ op[c] # None /\ seen[c][1] \in PreDispatch /\ seen[c][2] = 0
        /\ err[c] \in Known /\ claim[op[c]] = 0 /\ state[op[c]] \notin Terminal
        /\ Append(op[c], KnownNotStarted(err[c]), 0)
     \/ NoWrite(c)
  /\ UNCHANGED <<indexes, lock, world, want, op>>

\* The catch of commit: a failure known to precede dispatch is made durable,
\* unless the record read is not the last one any more.
TerminalizeKnownPreDispatchFailure(c) ==
  /\ pc[c] = "catch" /\ Leave(c, "refused")
  /\ \/ /\ op[c] # None /\ seen[c][1] \in PreDispatch /\ seen[c][2] = 0
        /\ err[c] \in Known /\ same[c]
        /\ Append(op[c], KnownNotStarted(err[c]), 0)
     \/ NoWrite(c)
  /\ UNCHANGED <<indexes, lock, world, want, op>>

-----------------------------------------------------------------------------
(* The surroundings.                                                       *)

\* The process of a call dies; its locks and its claim stay.
Crash(c) ==
  /\ pc[c] \notin Over \cup {"idle"} /\ Leave(c, "dead") /\ NoWrite(c)
  /\ UNCHANGED <<indexes, lock, world, want, op>>

\* Sixty seconds without a renewal.
Expire(o) ==
  /\ LeaseHeld(o) /\ fresh' = [fresh EXCEPT ![o] = FALSE]
  /\ UNCHANGED <<state, claim, top, indexes, lock, world, pc, locals>>

\* Another writer appends to the session, or the prepared action expires.
HeadMoves(a) ==
  /\ head[a] /\ head' = [head EXCEPT ![a] = FALSE]
  /\ UNCHANGED <<journal, indexes, lock, facts, dispatches, pc, locals>>

Step(c) ==
  \/ Find(c) \/ IndexFirst(c) \/ Check(c)
  \/ AcceptLock(c) \/ AcceptPrepared(c) \/ AcceptKey(c) \/ Create(c)
  \/ IndexPrepared(c) \/ IndexKey(c) \/ Unlock(c)
  \/ AcquireDriver(c)
  \/ Validate(c) \/ Reserve(c) \/ Start(c) \/ Dispatch(c) \/ Execute(c)
  \/ ReconcileFailed(c) \/ Reconcile(c) \/ Block(c)
  \/ Link(c) \/ Build(c) \/ Finish(c) \/ ReleaseDriver(c)
  \/ TerminalizeKnownPreDispatchFailure(c)

Next ==
  \/ \E c \in Calls :
       (\E a \in Actions : Begin(c, a)) \/ Step(c) \/ RenewDriver(c) \/ Crash(c)
  \/ \E o \in Calls : Expire(o)
  \/ \E a \in Actions : HeadMoves(a)

Spec == Init /\ [][Next]_vars
\* A running process takes its steps; nothing is assumed of the clock, of
\* heartbeats, of crashes or of other writers.
FairSpec == Spec /\ \A c \in Calls : WF_vars(Step(c))

-----------------------------------------------------------------------------
(* Properties.                                                             *)

OpIds == Calls \cup {None}

\* Every variable has its type.
TypeOK ==
  /\ state \in [Calls -> States \cup {"absent"}]
  /\ claim \in [Calls -> Nat] /\ top \in [Calls -> Nat]
  /\ fresh \in [Calls -> BOOLEAN]
  /\ prepared \in [Actions -> OpIds] /\ idempotency \in [Keys -> OpIds]
  /\ lock \in [Actions \cup Keys -> OpIds \cup {Departed}]
  /\ head \in [Actions -> BOOLEAN] /\ facts \in [Calls -> BOOLEAN]
  /\ dispatches \in [Calls -> Nat]
  /\ pc \in [Calls -> Labels]
  /\ want \in [Calls -> Actions \cup {None}]
  /\ op \in [Calls -> OpIds]
  /\ seen \in [Calls -> (States \cup {"absent"}) \X Nat]
  /\ same \in [Calls -> BOOLEAN]
  /\ my \in [Calls -> Nat] /\ err \in [Calls -> Errors]

\* Whatever number of commits race, crash, lose their lease or are retried,
\* the domain owner is asked to execute an operation at most once: a driver
\* that takes over a started prefix only ever reconciles.
DispatchAtMostOnce == \A o \in Calls : dispatches[o] <= 1

\* A durable "known not started" is true and stays true: the domain owner
\* has not been asked, and no driver is left that would ask it.
RefusalIsTrue ==
  \A o \in Calls : state[o] \in Refused => dispatches[o] = 0 /\ ~facts[o]

\* Linked, built and completed operations have their facts in the domain,
\* so every commit answered with a result is about an effect that happened.
ResultHasFacts ==
  /\ \A o \in Calls :
       state[o] \in {"domain_records_linked", "result_built", "completed"} => facts[o]
  /\ \A c \in Calls : pc[c] = "completed" => state[op[c]] = "completed"

\* What a commit drives is an operation of its own action, and one that an
\* index names: of the operations that crashes and broken locks may leave for
\* one action or key, only the first that accept has indexed counts.
DrivenIsIndexed ==
  \A c \in Calls : pc[c] \in Driving \cup {"acquire", "release"} =>
    /\ want[op[c]] = want[c]
    /\ op[c] \in {prepared[want[c]], idempotency[KeyOf[c]]}

\* While the lease of a driver runs, nobody else writes to its operation.
LeaseIsRespected ==
  [][\A o \in Calls :
       LeaseHeld(o) /\ <<state[o], claim[o]>>' # <<state[o], claim[o]>> =>
         \E c \in Calls : op[c] = o /\ my[c] = claim[o] /\ pc'[c] # pc[c]]_vars

\* Every commit is answered unless its process dies: no lock left by a dead
\* process, no lost race and no unknown effect makes it wait forever.
CommitIsAnswered ==
  \A c \in Calls : (pc[c] = "find") ~> (pc[c] \in Over)
=============================================================================
