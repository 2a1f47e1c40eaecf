----------------------------- MODULE Delegation -----------------------------
(***************************************************************************)
(* Delegated children.  A parent session delegates work to child           *)
(* processes.  Four durable records speak about one child:                 *)
(*                                                                         *)
(*   - the session's delegation projection (delegation-projector.ts), to   *)
(*     which every event is appended under the session's exclusive writer; *)
(*   - the operation journal of each child (delegation-operation-store.ts),*)
(*     advanced by compare-and-swap and without the session's lock;        *)
(*   - the repository's group lease (delegation-group-lease-store.ts);     *)
(*   - the child process itself.                                           *)
(*                                                                         *)
(* A command is a coordinator process running delegation.start or          *)
(* delegation.resume (delegation-owner-execution-service.ts).  It launches *)
(* its admitted delegations in parallel, one launch per delegation         *)
(* (runtime/child-launcher.ts), may crash between any two appends, and     *)
(* leaves the four records behind in whatever combination they had.  The   *)
(* pre-effect recovery and the group takeover of a later command read      *)
(* those combinations.                                                     *)
(*                                                                         *)
(* Every delegation here has one parent run and no Graph binding, and the  *)
(* owner is an authenticated application commit.  "active" stands for      *)
(* active and waiting_approval, which every guard treats alike.            *)
(***************************************************************************)
EXTENDS Integers, Sequences, FiniteSets

CONSTANTS
  NDelegations,   \* the delegations are 1..NDelegations, in content.sequence order
  Drafted,        \* the delegations that begin as drafts; the others are prepared and queued
  Overlapping,    \* pairs {d, e} whose workspace claims collide
  Cancellable,    \* bound: the delegations the user may cancel
  SurfaceFails,   \* bound: the commands under which the host's surface may fail
  MaxAttempts,    \* content.retry.maxAttempts, 1 or 2
  MaxCommands,    \* bound: coordinator commands of a behaviour
  MaxCrashes      \* bound: coordinator crashes of a behaviour

ASSUME DelegationAssumption ==
  /\ NDelegations \in Nat
  /\ Drafted \subseteq 1..NDelegations
  /\ Overlapping \subseteq SUBSET (1..NDelegations)
  /\ Cancellable \subseteq 1..NDelegations
  /\ SurfaceFails \subseteq 1..MaxCommands
  /\ MaxAttempts \in {1, 2}
  /\ MaxCommands \in Nat
  /\ MaxCrashes \in Nat

Delegations == 1..NDelegations
Commands == 1..MaxCommands

(* A child actor is a delegation and the number of the envelope prepared for *)
(* it; the actor, its attempt id and its operation are made together.        *)
Actors == Delegations \X (1..2)

VARIABLES
  session,   \* the delegation projection of the durable session
  writer,    \* the session's exclusive writer: who holds it, what it still appends
  lease,     \* the repository's group lease
  op,        \* the operation journal of each actor
  child,     \* the process of each actor
  cmd,       \* the coordinator commands
  thr,       \* the launches of each command
  gone,      \* the commands whose process is dead
  crashes

vars == <<session, writer, lease, op, child, cmd, thr, gone, crashes>>

Statuses ==
  {"draft", "approved", "rejected", "queued", "active", "cancelling", "reconciling",
   "receipt_ready", "accepted", "failed", "blocked", "cancelled"}
Terminals ==
  {"none", "succeeded", "known_failed", "cancelled_clean", "unresolved", "pre_effect"}
(* unresolved: the child's run has ended and left effects nobody has settled *)
Outcomes == {"succeeded", "known_failed", "cancelled_clean", "unresolved"}
OpStates ==
  {"none", "requested", "spawned", "handshaken", "running", "terminal_observed",
   "pre_effect_terminal", "reconciled", "blocked"}

(* told: the start frame was sent; finished: the terminal frame was sent;  *)
(* killed: ended after it had started; dead: ended before it could start.  *)
ChildStates == {"none", "up", "shaken", "told", "running", "finished", "killed", "dead"}

Known == {"accepted", "failed", "blocked", "cancelled"}     \* what the owner's barrier waits for
KnownTerminal == {"accepted", "failed", "cancelled"}        \* isKnownTerminal of the takeover
Busy == {"active", "cancelling", "reconciling"}

-----------------------------------------------------------------------------
(* The projector: which event the session accepts, and what it becomes.    *)
(* An event the projector refuses is not appended: the append throws.      *)

Last(q) == q[Len(q)]

(* exactAttempt: the first attempt with the actor's attempt id *)
Has(s, d, n) == \E i \in DOMAIN s.attempts[d] : s.attempts[d][i].actor = n
At(s, d, n) == CHOOSE i \in DOMAIN s.attempts[d] :
                 /\ s.attempts[d][i].actor = n
                 /\ \A j \in 1 .. i - 1 : s.attempts[d][j].actor # n
Attempt(s, d, n) == s.attempts[d][At(s, d, n)]

(* isAutomaticPreEffectRetryEligible *)
RetryEligible(s, d) ==
  /\ s.status[d] = "queued"
  /\ s.receipt[d] = "none"
  /\ MaxAttempts = 2
  /\ Len(s.attempts[d]) = 1
  /\ Last(s.attempts[d]).terminal = "pre_effect"
  /\ Last(s.attempts[d]).settled

ActorOf(e) == <<e.d, e.n>>
SlotsOf(s, a) == {x \in s.slots : x.actor = a}
ClaimsOf(s, a) == {x \in s.claims : x.actor = a}
Admitted(s, g) == (\E x \in s.slots : x.group = g) \/ (\E x \in s.claims : x.group = g)

Collides(a, b) == {a[1], b[1]} \in Overlapping

Admissible(s, e) ==
  CASE e.type = "decided" -> s.status[e.d] = "draft"
    [] e.type = "queued" -> s.status[e.d] = "approved"
    [] e.type = "prepared" ->
         \/ s.status[e.d] \in {"approved", "queued"} /\ s.envelopes[e.d] = 0
         \/ s.envelopes[e.d] = 1 /\ RetryEligible(s, e.d)
    [] e.type = "reserved" ->
         /\ s.status[e.d] = "queued" /\ s.envelopes[e.d] > 0
         /\ Len(s.attempts[e.d]) < MaxAttempts
         /\ \A i \in DOMAIN s.attempts[e.d] : s.attempts[e.d][i].terminal # "none"
    [] e.type = "launch_requested" ->
         /\ s.status[e.d] = "queued" /\ s.envelopes[e.d] = e.n
         /\ ~Attempt(s, e.d, e.n).bound /\ At(s, e.d, e.n) = e.n
    [] e.type = "started" ->
         /\ s.status[e.d] = "queued"
         /\ Attempt(s, e.d, e.n).bound /\ ~Attempt(s, e.d, e.n).started
    [] e.type = "cancel" -> s.status[e.d] \notin (Known \cup {"rejected"})
    [] e.type = "pre_effect_cancelled" ->
         /\ s.status[e.d] = "cancelling" /\ e.d \in s.cancels
         /\ \A i \in DOMAIN s.attempts[e.d] : ~s.attempts[e.d][i].started
    [] e.type = "terminal" ->
         /\ Attempt(s, e.d, e.n).terminal = "none" /\ Attempt(s, e.d, e.n).bound
         /\ IF e.kind = "pre_effect"
              THEN s.status[e.d] = "queued" /\ ~Attempt(s, e.d, e.n).started
              ELSE s.status[e.d] \in Busy /\ Attempt(s, e.d, e.n).started
    [] e.type = "ready" ->
         /\ Attempt(s, e.d, e.n).terminal # "none" /\ s.receipt[e.d] = "none"
         /\ Attempt(s, e.d, e.n).terminal = "unresolved" => e.kind = "blocked"
    [] e.type = "accepted" -> s.status[e.d] = "receipt_ready"
    [] e.type = "settled" ->
         Attempt(s, e.d, e.n).terminal # "none" /\ ~Attempt(s, e.d, e.n).settled
    [] e.type = "blocked" -> s.status[e.d] \notin (Known \cup {"rejected"})
    [] e.type = "slot_claimed" ->
         /\ Cardinality(s.slots) < 2
         /\ \A x \in s.slots : x.group = e.group => x.slot # e.slot /\ x.actor # ActorOf(e)
    [] e.type = "slot_released" -> \E x \in s.slots : x.actor = ActorOf(e) /\ x.group = e.group
    [] e.type = "claim_granted" -> \A x \in s.claims : ~Collides(x.actor, ActorOf(e))
    [] e.type = "claim_released" -> \E x \in s.claims : x.actor = ActorOf(e) /\ x.group = e.group
    [] e.type = "barrier_requested" -> s.barriers[e.group].status = "none"
    [] e.type = "barrier_suspended" -> s.barriers[e.group].status = "requested"
    [] e.type = "barrier_released" ->
         /\ s.barriers[e.group].status = "suspended"
         /\ e.kind = "completed" => \A d \in s.barriers[e.group].required : s.status[d] = "accepted"
    [] e.type = "lease_acquired" -> s.nonce[e.group] = 0
    [] e.type = "takeover" -> s.nonce[e.group] = e.from

(* mutant: the kind of the terminal becomes the status *)
AfterTerminal_Kind(s, d, kind) ==
  IF kind = "pre_effect" /\ Len(s.attempts[d]) < MaxAttempts THEN "queued" ELSE kind

(* what a child.terminal leaves as the revision's status *)
AfterTerminal(s, d, kind) ==
  CASE kind = "pre_effect" -> IF Len(s.attempts[d]) < MaxAttempts THEN "queued" ELSE "failed"
    [] kind = "cancelled_clean" -> "cancelled"
    [] kind = "known_failed" -> "failed"
    [] OTHER -> "reconciling"

(* ChildReceiptBuilder: what the receipt may say.  A run that succeeded    *)
(* without the claims its contract requires has failed.                    *)
ReceiptsFor(kind) ==
  CASE kind = "succeeded" -> {"accepted", "failed"}
    [] kind = "known_failed" -> {"failed"}
    [] kind = "cancelled_clean" -> {"cancelled"}
    [] OTHER -> {"blocked"}

NewAttempt(n) ==
  [actor |-> n, bound |-> FALSE, started |-> FALSE, terminal |-> "none", settled |-> FALSE]

Apply(s, e) ==
  CASE e.type = "decided" -> [s EXCEPT !.status[e.d] = e.kind]
    [] e.type = "queued" -> [s EXCEPT !.status[e.d] = "queued"]
    [] e.type = "prepared" -> [s EXCEPT !.envelopes[e.d] = @ + 1]
    [] e.type = "reserved" -> [s EXCEPT !.attempts[e.d] = Append(@, NewAttempt(e.n))]
    [] e.type = "launch_requested" -> [s EXCEPT !.attempts[e.d][At(s, e.d, e.n)].bound = TRUE]
    [] e.type = "started" ->
         [s EXCEPT !.attempts[e.d][At(s, e.d, e.n)].started = TRUE, !.status[e.d] = "active"]
    [] e.type = "cancel" ->
         [s EXCEPT !.cancels = @ \cup {e.d}, !.status[e.d] = "cancelling"]
    [] e.type = "pre_effect_cancelled" ->
         [s EXCEPT !.status[e.d] = "cancelled",
                   !.attempts[e.d] = IF e.n = 0 THEN @
                                     ELSE [@ EXCEPT ![At(s, e.d, e.n)].terminal = "cancelled_clean"]]
    [] e.type = "terminal" ->
         [s EXCEPT !.attempts[e.d][At(s, e.d, e.n)].terminal = e.kind,
                   !.status[e.d] = AfterTerminal(s, e.d, e.kind)]
    [] e.type = "ready" -> [s EXCEPT !.receipt[e.d] = e.kind, !.status[e.d] = "receipt_ready"]
    [] e.type = "accepted" -> [s EXCEPT !.status[e.d] = s.receipt[e.d]]
    [] e.type = "settled" -> [s EXCEPT !.attempts[e.d][At(s, e.d, e.n)].settled = TRUE]
    [] e.type = "blocked" -> [s EXCEPT !.status[e.d] = "blocked"]
    [] e.type = "slot_claimed" ->
         [s EXCEPT !.slots = @ \cup {[actor |-> ActorOf(e), group |-> e.group, slot |-> e.slot]},
                   !.claimed[e.d][e.n] = e.group]
    [] e.type = "slot_released" ->
         [s EXCEPT !.slots = {x \in @ : ~(x.actor = ActorOf(e) /\ x.group = e.group)}]
    [] e.type = "claim_granted" ->
         [s EXCEPT !.claims = @ \cup {[actor |-> ActorOf(e), group |-> e.group]}]
    [] e.type = "claim_released" ->
         [s EXCEPT !.claims = {x \in @ : ~(x.actor = ActorOf(e) /\ x.group = e.group)}]
    [] e.type = "barrier_requested" ->
         [s EXCEPT !.barriers[e.group] = [status |-> "requested", required |-> e.required]]
    [] e.type = "barrier_suspended" -> [s EXCEPT !.barriers[e.group].status = "suspended"]
    [] e.type = "barrier_released" -> [s EXCEPT !.barriers[e.group].status = e.kind]
    [] e.type = "lease_acquired" -> [s EXCEPT !.nonce[e.group] = e.group]
    [] e.type = "takeover" -> [s EXCEPT !.nonce[e.group] = e.to]

(* the projection after a list of events, for what a hold decides as it appends *)
Project(s, events) ==
  LET p[i \in 0 .. Len(events)] == IF i = 0 THEN s ELSE Apply(p[i - 1], events[i])
  IN  p[Len(events)]

Of(type, d) == [type |-> type, d |-> d]
OfAttempt(type, a) == [type |-> type, d |-> a[1], n |-> a[2]]
WithKind(type, a, kind) == [type |-> type, d |-> a[1], n |-> a[2], kind |-> kind]
Held(type, a, g) == [type |-> type, d |-> a[1], n |-> a[2], group |-> g]
Claiming(a, g, k) ==
  << [type |-> "slot_claimed", d |-> a[1], n |-> a[2], group |-> g, slot |-> k],
     Held("claim_granted", a, g) >>
Releasing(a, g) == << Held("claim_released", a, g), Held("slot_released", a, g) >>

(* The events that a loop over the delegations or the barriers appends. *)
Flatten(q) ==
  LET f[i \in 0 .. Len(q)] == IF i = 0 THEN <<>> ELSE f[i - 1] \o q[i] IN f[Len(q)]

-----------------------------------------------------------------------------
Idle == [pc |-> "idle", n |-> 0, first |-> 0, slot |-> 0, seen |-> FALSE, err |-> "none"]
Unused == [pc |-> "unused", sel |-> 0, n |-> 0, adm |-> {}, aborted |-> "no", grp |-> 0, from |-> 0]
Free == [by |-> 0, of |-> 0, todo |-> <<>>, then |-> "none", refused |-> "none"]

Init ==
  /\ session = [ status |-> [d \in Delegations |-> IF d \in Drafted THEN "draft" ELSE "queued"],
                 envelopes |-> [d \in Delegations |-> IF d \in Drafted THEN 0 ELSE 1],
                 attempts |-> [d \in Delegations |-> <<>>],
                 receipt |-> [d \in Delegations |-> "none"],
                 cancels |-> {}, slots |-> {}, claims |-> {},
                 claimed |-> [d \in Delegations |-> [n \in 1..2 |-> 0]],
                 barriers |-> [g \in Commands |-> [status |-> "none", required |-> {}]],
                 nonce |-> [g \in Commands |-> 0] ]
  /\ writer = Free
  /\ lease = [state |-> "none", group |-> 0, owner |-> 0, nonce |-> 0]
  /\ op = [a \in Actors |-> [state |-> "none", failure |-> "none"]]
  /\ child = [a \in Actors |-> [state |-> "none", result |-> "none"]]
  /\ cmd = [g \in Commands |-> Unused]
  /\ thr = [g \in Commands |-> [d \in Delegations |-> Idle]]
  /\ gone = {}
  /\ crashes = 0

WriterFree == writer.by = 0
Alive(g) == g \notin gone

(* The step of command g itself (launch 0) or of its launch of d.  What a  *)
(* command or a launch that is over remembers is forgotten.                *)
Over(g) ==
  /\ cmd' = [cmd EXCEPT ![g] = [Unused EXCEPT !.pc = "done"]]
  /\ thr' = [thr EXCEPT ![g] = [d \in Delegations |-> Idle]]

Goto(g, d, to) ==
  IF d = 0 THEN IF to = "done" THEN Over(g)
                ELSE cmd' = [cmd EXCEPT ![g].pc = to] /\ UNCHANGED thr
  ELSE /\ thr' = [thr EXCEPT ![g][d] =
                    IF to \in {"rejected", "fulfilled"}
                    THEN [@ EXCEPT !.pc = to, !.seen = FALSE, !.err = "none"]
                    ELSE [@ EXCEPT !.pc = to]]
       /\ UNCHANGED cmd

(* Take the session writer and append these events, one durable append at  *)
(* a time; then go on, or, when the projector refuses one, throw.          *)
Hold(g, d, events, then, refused) ==
  writer' = [by |-> g, of |-> d, todo |-> events, then |-> then, refused |-> refused]

(* A hold that may have nothing to append. *)
HoldOrGo(g, d, events, then, refused) ==
  IF events = <<>> THEN Goto(g, d, then) /\ UNCHANGED writer
                   ELSE Hold(g, d, events, then, refused) /\ Goto(g, d, "holding")

(* mutant: every append closes its writer *)
KeepsWriter_Never(then) == FALSE

(* Only the start barrier keeps the writer after its append. *)
KeepsWriter(then) == then = "sending"

AppendEvent ==
  /\ writer.by # 0 /\ writer.todo # <<>>
  /\ LET e == Head(writer.todo)
         g == writer.by
         d == writer.of
     IN IF Admissible(session, e)
          THEN /\ session' = Apply(session, e)
               /\ IF Len(writer.todo) > 1
                    THEN writer' = [writer EXCEPT !.todo = Tail(@)] /\ UNCHANGED <<cmd, thr>>
                    ELSE /\ writer' = IF KeepsWriter(writer.then)
                                        THEN [writer EXCEPT !.todo = <<>>] ELSE Free
                         /\ Goto(g, d, writer.then)
          ELSE /\ writer' = Free
               /\ Goto(g, d, writer.refused)
               /\ UNCHANGED session
  /\ UNCHANGED <<lease, op, child, gone, crashes>>

-----------------------------------------------------------------------------
(* The user's commands: one event under the writer, refused or not.        *)

UserEvent(e) ==
  /\ WriterFree /\ Admissible(session, e)
  /\ session' = Apply(session, e)
  /\ UNCHANGED <<writer, lease, op, child, cmd, thr, gone, crashes>>

Decide(d) == \E k \in {"approved", "rejected"} : UserEvent([type |-> "decided", d |-> d, kind |-> k])
Enqueue(d) == UserEvent(Of("queued", d))
PrepareEnvelope(d) == UserEvent(Of("prepared", d))
Cancel(d) == d \in Cancellable \ session.cancels /\ UserEvent(Of("cancel", d))

Begin(g) ==
  /\ cmd[g].pc = "unused" /\ \A h \in 1 .. g - 1 : cmd[h].pc # "unused"
  /\ \E d \in Delegations, pc \in {"read", "inspect"} :
       cmd' = [cmd EXCEPT ![g].pc = pc, ![g].sel = d]
  /\ UNCHANGED <<session, writer, lease, op, child, thr, gone, crashes>>

Live == {"up", "shaken", "told", "running"}
Ended(c) == [c EXCEPT !.state = IF @ \in {"told", "running"} THEN "killed" ELSE "dead"]
PreStart == {"spawn", "handshake", "start"}

(* A process-local signal reaches the command: the durable cancel of the   *)
(* selected delegation, or the failure of the host's surface.  Before the  *)
(* start barrier every launch kills its child on it.                       *)
Abort(g) ==
  /\ Alive(g) /\ cmd[g].pc \notin {"unused", "done"} /\ cmd[g].aborted = "no"
  /\ \E why \in {"cancel", "fatal"} :
       /\ IF why = "cancel" THEN cmd[g].sel \in session.cancels ELSE g \in SurfaceFails
       /\ cmd' = [cmd EXCEPT ![g].aborted = why]
  /\ child' = [a \in Actors |->
                 IF /\ thr[g][a[1]].n = a[2] /\ thr[g][a[1]].pc \in PreStart
                    /\ child[a].state \in Live
                 THEN Ended(child[a]) ELSE child[a]]
  /\ UNCHANGED <<session, writer, lease, op, thr, gone, crashes>>

(* The coordinator dies: its lock is recovered, its memory is lost. *)
Dies(g) ==
  /\ gone' = gone \cup {g}
  /\ Over(g)
  /\ writer' = IF writer.by = g THEN Free ELSE writer

Crash(g) ==
  /\ Alive(g) /\ cmd[g].pc \notin {"unused", "done"} /\ crashes < MaxCrashes
  /\ crashes' = crashes + 1 /\ Dies(g)
  /\ UNCHANGED <<session, lease, op, child>>

Exit(g) ==
  /\ Alive(g) /\ cmd[g].pc = "done"
  /\ Dies(g)
  /\ UNCHANGED <<session, lease, op, child, crashes>>

-----------------------------------------------------------------------------
(* executeDelegationOwnerStart                                             *)

(* BoundedDelegationScheduler.admit: in sequence order, at most two, no two *)
(* whose claims collide.                                                    *)
Admit(active, ready) ==
  LET f[d \in 0 .. NDelegations] ==
        IF d = 0 THEN {}
        ELSE IF /\ d \in ready
                /\ Cardinality(active \cup f[d - 1]) < 2
                /\ \A e \in active \cup f[d - 1] : {e, d} \notin Overlapping
             THEN f[d - 1] \cup {d}
             ELSE f[d - 1]
  IN  f[NDelegations]

Ready(s) == {d \in Delegations : s.status[d] = "queued" /\ s.envelopes[d] > 0}

Read(g) ==
  /\ cmd[g].pc = "read" /\ WriterFree
  /\ LET d == cmd[g].sel
         adm == Admit({}, Ready(session))
     IN IF /\ session.slots = {}
           /\ \A e \in Delegations : session.status[e] \notin Busy
           /\ d \in adm
        THEN \/ cmd' = [cmd EXCEPT ![g].pc = "fence", ![g].adm = adm] /\ UNCHANGED thr
             \/ Over(g)                                     \* a candidate no longer loads
        ELSE Over(g)
  /\ UNCHANGED <<session, writer, lease, op, child, gone, crashes>>

(* assertNoDurablePreAdmissionCancellation, for the selected delegation *)
FencePassed(g) == session.status[cmd[g].sel] = "queued" /\ cmd[g].aborted = "no"
FenceCancelled(g) ==
  session.status[cmd[g].sel] \in {"cancelling", "cancelled"} \/ cmd[g].aborted # "no"

Fence(g) ==
  /\ cmd[g].pc = "fence" /\ WriterFree
  /\ Goto(g, 0, IF FencePassed(g) THEN "acquire"
                ELSE IF FenceCancelled(g) THEN "cancelled" ELSE "done")
  /\ UNCHANGED <<session, writer, lease, op, child, gone, crashes>>

Acquire(g) ==
  /\ cmd[g].pc = "acquire"
  /\ IF lease.state = "active"
       THEN Goto(g, 0, "done") /\ UNCHANGED lease
       ELSE /\ lease' = [state |-> "active", group |-> g, owner |-> g, nonce |-> g]
            /\ Goto(g, 0, "admit")
  /\ UNCHANGED <<session, writer, op, child, gone, crashes>>

(* releaseDelegationGroupLease, by exact group and revision *)
Released(g) ==
  IF lease = [state |-> "active", group |-> g, owner |-> g, nonce |-> g]
  THEN [lease EXCEPT !.state = "released"] ELSE lease

SlotNumber(S, d) == Cardinality({e \in S : e <= d})

(* The fence again, now under the writer that appends the admission.  When *)
(* it fails for another reason than a cancellation the lease stays.        *)
AdmitGroup(g) ==
  /\ cmd[g].pc = "admit" /\ WriterFree
  /\ \/ /\ FencePassed(g)
        /\ Hold(g, 0,
                << [type |-> "lease_acquired", group |-> g],
                   [type |-> "barrier_requested", group |-> g, required |-> cmd[g].adm],
                   [type |-> "barrier_suspended", group |-> g] >>
                \o Flatten([d \in Delegations |->
                     IF d \in cmd[g].adm
                     THEN Claiming(<<d, session.envelopes[d]>>, g, SlotNumber(cmd[g].adm, d))
                     ELSE <<>>]),
                "run", "done")
        /\ cmd' = [cmd EXCEPT ![g].pc = "holding"]
        /\ thr' = [thr EXCEPT ![g] = [d \in Delegations |->
                     IF d \in cmd[g].adm
                     THEN [Idle EXCEPT !.pc = "launch", !.n = session.envelopes[d],
                                       !.first = session.envelopes[d],
                                       !.slot = SlotNumber(cmd[g].adm, d)]
                     ELSE Idle]]
        /\ UNCHANGED lease
     \/ /\ ~FencePassed(g)
        /\ lease' = IF FenceCancelled(g) THEN Released(g) ELSE lease
        /\ Goto(g, 0, IF FenceCancelled(g) THEN "cancelled" ELSE "done")
        /\ UNCHANGED writer
  /\ UNCHANGED <<session, op, child, gone, crashes>>

(* The owner reported a cancellation before any admission: its commit      *)
(* records it as a terminal without effect.                                *)
AppendPreEffectTerminal(g) ==
  /\ cmd[g].pc = "cancelled" /\ WriterFree
  /\ IF session.status[cmd[g].sel] = "cancelling"
       THEN /\ Hold(g, 0, <<OfAttempt("pre_effect_cancelled", <<cmd[g].sel, 0>>)>>, "done", "done")
            /\ Goto(g, 0, "holding")
       ELSE Goto(g, 0, "done") /\ UNCHANGED writer
  /\ UNCHANGED <<session, lease, op, child, gone, crashes>>

(* All launches settled.  Claims are given back for the children that      *)
(* ended with a receipt and for those cancelled before their start; the    *)
(* barrier opens when nothing of the group is left and all is known.       *)

(* mutant: whatever is known gives its claims back *)
CancelledPreStart_AnyKnown(g, d) == session.status[d] \in Known

CancelledPreStart(g, d) ==
  /\ session.status[d] = "cancelled"
  /\ Has(session, d, thr[g][d].first)         \* the attempt first admitted, not a retry
  /\ LET t == Attempt(session, d, thr[g][d].first)
     IN ~t.started /\ t.terminal = "cancelled_clean" /\ t.settled

BarrierKind(g) ==
  LET adm == cmd[g].adm IN
  CASE \A d \in adm : thr[g][d].pc = "fulfilled" /\ session.receipt[d] = "accepted" -> "completed"
    [] \A d \in adm : session.status[d] = "cancelled" -> "cancelled"
    [] OTHER -> "blocked"

Finish(g) ==
  /\ cmd[g].pc = "run" /\ WriterFree
  /\ \A d \in cmd[g].adm : thr[g][d].pc \in {"fulfilled", "rejected"}
  /\ LET over == {d \in cmd[g].adm : thr[g][d].pc = "fulfilled" \/ CancelledPreStart(g, d)}
         kept == {d \in over : \A e \in over : thr[g][e].slot = 0 => d < e}   \* it throws at a lost claim
     IN \E freed \in {Flatten([d \in Delegations |->
                         IF d \in kept THEN Releasing(<<d, thr[g][d].n>>, g) ELSE <<>>])} :
          LET open == /\ kept = over /\ ~Admitted(Project(session, freed), g)
                      /\ \A d \in cmd[g].adm : session.status[d] \in Known
          IN HoldOrGo(g, 0,
               freed \o IF open THEN <<[type |-> "barrier_released", group |-> g, kind |-> BarrierKind(g)]>>
                                ELSE <<>>,
               IF open THEN "release" ELSE "done", "done")
  /\ UNCHANGED <<session, lease, op, child, gone, crashes>>

ReleaseLease(g) ==
  /\ cmd[g].pc = "release"
  /\ lease' = Released(g)
  /\ Goto(g, 0, "done")
  /\ UNCHANGED <<session, writer, op, child, gone, crashes>>

-----------------------------------------------------------------------------
(* DelegationChildLauncher.launch, one launch per admitted delegation.     *)

Launching(g, d, pc) == cmd[g].pc = "run" /\ thr[g][d].pc = pc
ActorIn(g, d) == <<d, thr[g][d].n>>
CancelKnown(g, d) == cmd[g].aborted # "no" \/ thr[g][d].seen      \* cancelled()
Throw(g, d, why) == thr' = [thr EXCEPT ![g][d].pc = "fail", ![g][d].err = why]

(* The operation and its two launch facts.  An envelope launched a second  *)
(* time gets an operation of its own, which no attempt is bound to.        *)
LaunchRequest(g, d) ==
  LET a == ActorIn(g, d) IN
  /\ Launching(g, d, "launch") /\ WriterFree
  /\ IF cmd[g].aborted = "no" /\ session.status[d] = "queued"
       THEN /\ op' = IF op[a].state = "none" THEN [op EXCEPT ![a].state = "requested"] ELSE op
            /\ Hold(g, d, <<OfAttempt("reserved", a), OfAttempt("launch_requested", a)>>,
                    "spawn", "rejected")
            /\ Goto(g, d, "holding")
       ELSE Goto(g, d, "rejected") /\ UNCHANGED <<op, writer>>
  /\ UNCHANGED <<session, lease, child, gone, crashes>>

(* pollDurablePreStartCancellation, every 50 ms; one may still be under    *)
(* way when the launch has failed.                                         *)
PollCancel(g, d) ==
  LET a == ActorIn(g, d) IN
  /\ \E pc \in PreStart \cup {"fail", "blocked"} : Launching(g, d, pc)
  /\ d \in session.cancels /\ ~thr[g][d].seen
  /\ thr' = [thr EXCEPT ![g][d].seen = TRUE]
  /\ child' = IF child[a].state \in Live THEN [child EXCEPT ![a] = Ended(@)] ELSE child
  /\ UNCHANGED <<session, writer, lease, op, cmd, gone, crashes>>

Spawn(g, d) ==
  LET a == ActorIn(g, d) IN
  /\ Launching(g, d, "spawn")
  /\ \/ CancelKnown(g, d) /\ Throw(g, d, "cancelled") /\ UNCHANGED <<op, child>>
     \/ ~CancelKnown(g, d) /\ Throw(g, d, "infra") /\ UNCHANGED <<op, child>>
     \/ /\ ~CancelKnown(g, d)
        /\ child' = [child EXCEPT ![a].state = "up"]
        /\ op' = [op EXCEPT ![a].state = "spawned"]
        /\ thr' = [thr EXCEPT ![g][d].pc = "handshake"]
  /\ UNCHANGED <<session, writer, lease, cmd, gone, crashes>>

(* The child's handshake arrives, or it times out, mismatches or exits. *)
Handshake(g, d) ==
  LET a == ActorIn(g, d) IN
  /\ Launching(g, d, "handshake")
  /\ \/ /\ child[a].state = "up"
        /\ child' = [child EXCEPT ![a].state = "shaken"]
        /\ op' = [op EXCEPT ![a].state = "handshaken"]
        /\ thr' = [thr EXCEPT ![g][d].pc = "start"]
     \/ Throw(g, d, "infra") /\ UNCHANGED <<op, child>>
  /\ UNCHANGED <<session, writer, lease, cmd, gone, crashes>>

(* The last cancellation fence, under the writer that then appends         *)
(* child.started and is kept until the start frame is sent.                *)
Start(g, d) ==
  /\ Launching(g, d, "start") /\ WriterFree
  /\ IF session.status[d] = "queued"
       THEN /\ Hold(g, d, <<OfAttempt("started", ActorIn(g, d))>>, "sending", "fail")
            /\ Goto(g, d, "holding")
       ELSE /\ Throw(g, d, IF session.status[d] \in {"cancelling", "cancelled"}
                              THEN "cancelled" ELSE "stale")
            /\ UNCHANGED <<writer, cmd>>
  /\ UNCHANGED <<session, lease, op, child, gone, crashes>>

SendStart(g, d) ==
  LET a == ActorIn(g, d)
      told == [child EXCEPT ![a].state = IF @ = "shaken" THEN "told" ELSE @]
  IN
  /\ Launching(g, d, "sending")
  /\ writer' = Free
  /\ \/ op' = [op EXCEPT ![a].state = "running"] /\ child' = told
        /\ thr' = [thr EXCEPT ![g][d].pc = "wait"]
     \/ op' = [op EXCEPT ![a].state = "running"] /\ child' \in {child, told}
        /\ Throw(g, d, "infra")
     \/ UNCHANGED <<op, child>> /\ Throw(g, d, "infra")
  /\ UNCHANGED <<session, lease, cmd, gone, crashes>>

(* The launch threw.  The process tree is ended, with proof or without;    *)
(* only an unstarted attempt whose process is proven gone is without       *)
(* effect, everything else is blocked.                                     *)
PreEffect(g, d) ==
  /\ op[ActorIn(g, d)].state \in {"requested", "spawned", "handshaken"}
  /\ ~Attempt(session, d, thr[g][d].n).started

(* mutant: an end of the process that is not proven is taken for one that is *)
Fail_Unproven(g, d) ==
  LET a == ActorIn(g, d) IN
  /\ Launching(g, d, "fail") /\ WriterFree
  /\ \/ /\ PreEffect(g, d)
        /\ op' = [op EXCEPT ![a] = [state |-> "pre_effect_terminal", failure |-> "infra"]]
        /\ Goto(g, d, "recover")
     \/ /\ ~PreEffect(g, d)
        /\ op' = [op EXCEPT ![a] = [state |-> "blocked", failure |-> "unknown"]]
        /\ Goto(g, d, "blocked")
  /\ UNCHANGED <<session, writer, lease, child, gone, crashes>>

Fail(g, d) ==
  LET a == ActorIn(g, d) IN
  /\ Launching(g, d, "fail") /\ WriterFree
  /\ \E proven \in BOOLEAN :
       /\ child[a].state = "none" => proven
       /\ child' = IF proven /\ child[a].state \in Live THEN [child EXCEPT ![a] = Ended(@)] ELSE child
       /\ \/ /\ ~CancelKnown(g, d) /\ thr[g][d].err = "infra" /\ PreEffect(g, d) /\ proven
             /\ op' = [op EXCEPT ![a] = [state |-> "pre_effect_terminal", failure |-> "infra"]]
             /\ Goto(g, d, "recover")
          \/ /\ CancelKnown(g, d) /\ cmd[g].aborted # "fatal" /\ PreEffect(g, d) /\ proven
             /\ IF d \in session.cancels
                  THEN /\ op' = [op EXCEPT ![a] = [state |-> "pre_effect_terminal", failure |-> "cancelled"]]
                       /\ Goto(g, d, "recover")
                  ELSE Goto(g, d, "rejected") /\ UNCHANGED op
          \/ /\ ~(PreEffect(g, d) /\ proven
                   /\ IF CancelKnown(g, d) THEN cmd[g].aborted # "fatal" ELSE thr[g][d].err = "infra")
             /\ op' = IF op[a].state \in {"terminal_observed", "reconciled", "blocked"} THEN op
                      ELSE [op EXCEPT ![a] = [state |-> "blocked", failure |-> "unknown"]]
             /\ Goto(g, d, "blocked")
  /\ UNCHANGED <<session, writer, lease, gone, crashes>>

(* delegation.blocked is appended only for a launch that was cancelled. *)
RecordBlocked(g, d) ==
  /\ Launching(g, d, "blocked") /\ WriterFree
  /\ IF CancelKnown(g, d) /\ (cmd[g].aborted = "fatal" \/ d \in session.cancels)
       THEN Hold(g, d, <<Of("blocked", d)>>, "rejected", "rejected") /\ Goto(g, d, "holding")
       ELSE Goto(g, d, "rejected") /\ UNCHANGED writer
  /\ UNCHANGED <<session, lease, op, child, gone, crashes>>

-----------------------------------------------------------------------------
(* DelegationPreEffectRecovery.reconcile: the terminal and the settlement  *)
(* that the operation proves and the session lacks.                        *)

PreEffectTerminal(a) == IF op[a].failure = "cancelled" THEN "cancelled_clean" ELSE "pre_effect"

Recoverable(s, a) ==
  /\ op[a].state \in {"pre_effect_terminal", "reconciled"} /\ op[a].failure \in {"infra", "cancelled"}
  /\ Has(s, a[1], a[2]) /\ Attempt(s, a[1], a[2]).bound
  /\ LET t == Attempt(s, a[1], a[2]) IN
       /\ op[a].failure = "cancelled" => ~t.started
       /\ t.terminal \in {"none", PreEffectTerminal(a)}
       /\ op[a].failure = "cancelled" /\ t.terminal # "none" => s.status[a[1]] = "cancelled"

(* mutant: the budget of the attempt is not settled *)
Recovering_Unsettled(s, a) ==
  IF Attempt(s, a[1], a[2]).terminal # "none" THEN <<>>
  ELSE IF op[a].failure = "cancelled" THEN <<OfAttempt("pre_effect_cancelled", a)>>
  ELSE <<WithKind("terminal", a, "pre_effect")>>

Recovering(s, a) ==
  LET t == Attempt(s, a[1], a[2])
      terminal == IF op[a].failure = "cancelled" THEN OfAttempt("pre_effect_cancelled", a)
                                                 ELSE WithKind("terminal", a, "pre_effect")
  IN (IF t.terminal = "none" THEN <<terminal>> ELSE <<>>)
     \o (IF t.settled THEN <<>> ELSE <<OfAttempt("settled", a)>>)

Reconciled(a) ==
  IF op[a].state = "pre_effect_terminal" THEN [op EXCEPT ![a].state = "reconciled"] ELSE op

Recover(g, d) ==
  LET a == ActorIn(g, d) IN
  /\ Launching(g, d, "recover") /\ WriterFree
  /\ IF Recoverable(session, a)
       THEN HoldOrGo(g, d, Recovering(session, a), "reconcile", "rejected")
       ELSE Goto(g, d, "rejected") /\ UNCHANGED writer
  /\ UNCHANGED <<session, lease, op, child, gone, crashes>>

Reconcile(g, d) ==
  /\ Launching(g, d, "reconcile")
  /\ op' = Reconciled(ActorIn(g, d))
  /\ Goto(g, d, IF op[ActorIn(g, d)].failure = "cancelled" THEN "rejected" ELSE "release")
  /\ UNCHANGED <<session, writer, lease, child, gone, crashes>>

(* mutant: a retry also waits for one that waits for its turn *)
Release_Mutual(g, d) ==
  /\ Launching(g, d, "release") /\ WriterFree
  /\ \A e \in Delegations \ {d} : thr[g][e].pc \notin {"release", "prepare", "readmit"}
  /\ Hold(g, d, Releasing(ActorIn(g, d), g), "prepare", "rejected")
  /\ Goto(g, d, "holding")
  /\ UNCHANGED <<session, lease, op, child, gone, crashes>>

(* The automatic retry, one delegation of the group at a time: give the    *)
(* admission back, prepare a fresh envelope, be admitted again.  A launch  *)
(* that is not eligible ends in the preparation that is refused.           *)
Release(g, d) ==
  /\ Launching(g, d, "release") /\ WriterFree
  /\ \A e \in Delegations : thr[g][e].pc \notin {"prepare", "readmit"}
  /\ Hold(g, d, Releasing(ActorIn(g, d), g), "prepare", "rejected")
  /\ Goto(g, d, "holding")
  /\ UNCHANGED <<session, lease, op, child, gone, crashes>>

Prepare(g, d) ==
  /\ Launching(g, d, "prepare") /\ WriterFree
  /\ \/ /\ Admissible(session, Of("prepared", d))
        /\ Hold(g, d, <<Of("prepared", d)>>, "readmit", "rejected")
        /\ thr' = [thr EXCEPT ![g][d].pc = "holding", ![g][d].slot = 0]
     \/ thr' = [thr EXCEPT ![g][d].pc = "rejected", ![g][d].slot = 0] /\ UNCHANGED writer
  /\ UNCHANGED <<session, lease, op, child, cmd, gone, crashes>>

Readmit(g, d) ==
  LET active == {e \in Delegations : thr[g][e].slot # 0}
      k == CHOOSE i \in 1..3 : /\ \A e \in active : thr[g][e].slot # i
                             /\ \A j \in 1 .. i - 1 : \E e \in active : thr[g][e].slot = j
  IN
  /\ Launching(g, d, "readmit") /\ WriterFree
  /\ IF session.status[d] = "queued" /\ Admit(active, {d}) = {d}
       THEN /\ Hold(g, d, Claiming(<<d, session.envelopes[d]>>, g, k), "launch", "rejected")
            /\ thr' = [thr EXCEPT ![g][d] = [@ EXCEPT !.pc = "holding", !.n = session.envelopes[d],
                                                     !.slot = k, !.seen = FALSE, !.err = "none"]]
       ELSE thr' = [thr EXCEPT ![g][d].pc = "rejected"] /\ UNCHANGED writer
  /\ UNCHANGED <<session, lease, op, child, cmd, gone, crashes>>

-----------------------------------------------------------------------------
(* After the start barrier: the terminal frame, or the loss of the child.  *)

Wait(g, d) ==
  LET a == ActorIn(g, d) IN
  /\ Launching(g, d, "wait")
  /\ \/ child[a].state = "finished" /\ Goto(g, d, "import") /\ UNCHANGED <<op, child>>
     \/ /\ child' \in {child} \cup (IF child[a].state \in Live
                                      THEN {[child EXCEPT ![a] = Ended(@)]} ELSE {})
        /\ IF op[a].state \in {"terminal_observed", "reconciled", "blocked"}
             THEN Goto(g, d, "rejected") /\ UNCHANGED op
             ELSE /\ op' = [op EXCEPT ![a] = [state |-> "blocked", failure |-> "unknown"]]
                  /\ Goto(g, d, "lost")
  /\ UNCHANGED <<session, writer, lease, gone, crashes>>

Lost(g, d) ==
  /\ Launching(g, d, "lost") /\ WriterFree
  /\ Hold(g, d, <<Of("blocked", d)>>, "rejected", "rejected") /\ Goto(g, d, "holding")
  /\ UNCHANGED <<session, lease, op, child, gone, crashes>>

(* The child's shard is imported and its run's terminal recorded. *)
Import(g, d) ==
  LET a == ActorIn(g, d) IN
  /\ Launching(g, d, "import") /\ WriterFree
  /\ \/ /\ Hold(g, d, <<WithKind("terminal", a, child[a].result)>>, "receipt", "rejected")
        /\ Goto(g, d, "holding")
     \/ Goto(g, d, "rejected") /\ UNCHANGED writer
  /\ UNCHANGED <<session, lease, op, child, gone, crashes>>

Receipt(g, d) ==
  LET a == ActorIn(g, d) IN
  /\ Launching(g, d, "receipt") /\ WriterFree
  /\ \/ /\ op[a].state = "terminal_observed"
        /\ \E r \in ReceiptsFor(child[a].result) :
             Hold(g, d, <<WithKind("ready", a, r), Of("accepted", d), OfAttempt("settled", a)>>,
                  "settle", "rejected")
        /\ Goto(g, d, "holding")
     \/ Goto(g, d, "rejected") /\ UNCHANGED writer
  /\ UNCHANGED <<session, lease, op, child, gone, crashes>>

Settle(g, d) ==
  LET a == ActorIn(g, d) IN
  /\ Launching(g, d, "settle")
  /\ op' = IF op[a].state = "terminal_observed" THEN [op EXCEPT ![a].state = "reconciled"] ELSE op
  /\ Goto(g, d, "fulfilled")
  /\ UNCHANGED <<session, writer, lease, child, gone, crashes>>

-----------------------------------------------------------------------------
(* DelegationChildRuntime.run: no effect before the start frame and the    *)
(* operation that says running.                                            *)

(* mutant: the child waits for nobody *)
ChildStart_AtOnce(a) ==
  /\ child[a].state \in {"up", "shaken", "told"}
  /\ child' = [child EXCEPT ![a].state = "running"]
  /\ UNCHANGED <<session, writer, lease, op, cmd, thr, gone, crashes>>

ChildStart(a) ==
  /\ child[a].state = "told"
  /\ child' = [child EXCEPT ![a].state = IF op[a].state = "running" THEN "running" ELSE "dead"]
  /\ UNCHANGED <<session, writer, lease, op, cmd, thr, gone, crashes>>

(* The run ends.  Its operation must still say running; it may die before  *)
(* the terminal frame is sent.                                             *)
ChildEnd(a) ==
  /\ child[a].state = "running"
  /\ IF op[a].state # "running"
       THEN child' = [child EXCEPT ![a].state = "killed"] /\ UNCHANGED op
       ELSE /\ op' = [op EXCEPT ![a].state = "terminal_observed"]
            /\ \/ child' = [child EXCEPT ![a].state = "killed"]
               \/ \E result \in Outcomes :
                    /\ result = "cancelled_clean" =>
                         a[1] \in session.cancels \/ session.claimed[a[1]][a[2]] \in gone
                    /\ child' = [child EXCEPT ![a] = [state |-> "finished", result |-> result]]
  /\ UNCHANGED <<session, writer, lease, cmd, thr, gone, crashes>>

ChildDies(a) ==
  /\ child[a].state \in Live
  /\ child' = [child EXCEPT ![a] = Ended(@)]
  /\ UNCHANGED <<session, writer, lease, op, cmd, thr, gone, crashes>>

-----------------------------------------------------------------------------
(* executeDelegationOwnerResume                                            *)

(* the last attempt's actor, <<d, 0>> when there is no attempt *)
LastActor(s, d) == <<d, IF s.attempts[d] = <<>> THEN 0 ELSE Last(s.attempts[d]).actor>>
HasOperation(s, d) == s.attempts[d] # <<>> /\ Last(s.attempts[d]).bound

(* the operation's state, or the classification of the reconciler, says    *)
(* that this attempt ended before its start                                *)
EndedPreEffect(s, d) ==
  LET a == LastActor(s, d) IN
  /\ HasOperation(s, d)
  /\ \/ op[a].state = "pre_effect_terminal"
     \/ /\ s.receipt[d] = "none" /\ op[a].failure \in {"infra", "cancelled"}
        /\ \/ Last(s.attempts[d]).terminal = "pre_effect"
           \/ /\ op[a].failure = "cancelled" /\ Last(s.attempts[d]).terminal = "cancelled_clean"
              /\ Last(s.attempts[d]).settled /\ s.status[d] = "cancelled"

(* the group an actor's slot was last claimed for *)
GroupOf(s, a) == s.claimed[a[1]][a[2]]

OrphanedAdmission(s, d) ==
  LET a == LastActor(s, d) IN
  /\ SlotsOf(s, a) # {} \/ ClaimsOf(s, a) # {}
  /\ HasOperation(s, d) /\ op[a].state = "reconciled"
  /\ s.status[d] \in KnownTerminal

Inspect(g) ==
  LET d == cmd[g].sel IN
  /\ cmd[g].pc = "inspect" /\ WriterFree
  /\ IF EndedPreEffect(session, d)
       THEN /\ cmd' = [cmd EXCEPT ![g] = [@ EXCEPT !.pc = "recover", !.n = LastActor(session, d)[2],
                                                  !.grp = GroupOf(session, LastActor(session, d))]]
            /\ UNCHANGED <<writer, thr>>
     ELSE IF OrphanedAdmission(session, d) THEN Goto(g, 0, "takeover") /\ UNCHANGED writer
     ELSE IF session.status[d] = "queued"
       THEN Goto(g, 0, IF session.envelopes[d] = 0 THEN "prepare" ELSE "read") /\ UNCHANGED writer
     ELSE IF session.status[d] = "approved"
       THEN Hold(g, 0, <<Of("queued", d)>>, "done", "done") /\ Goto(g, 0, "holding")
       ELSE Goto(g, 0, "done") /\ UNCHANGED writer
  /\ UNCHANGED <<session, lease, op, child, gone, crashes>>

PrepareAgain(g) ==
  LET d == cmd[g].sel IN
  /\ cmd[g].pc = "prepare" /\ WriterFree
  /\ \/ /\ Admissible(session, Of("prepared", d))
        /\ Hold(g, 0, <<Of("prepared", d)>>, "read", "done") /\ Goto(g, 0, "holding")
     \/ Goto(g, 0, "done") /\ UNCHANGED writer
  /\ UNCHANGED <<session, lease, op, child, gone, crashes>>

(* The recovery of a later command also gives the attempt's admission back *)
(* and opens the barriers nothing is left to wait for.                     *)

(* mutant: what is still admitted is not looked at *)
NothingLeft_StatusOnly(s, b, group) ==
  \A e \in s.barriers[b].required :
    \/ s.status[e] \in Known
    \/ s.status[e] = "queued" /\ s.attempts[e] # <<>> /\ Last(s.attempts[e]).terminal = "pre_effect"

NothingLeft(s, b, group) ==
  /\ ~Admitted(s, group)
  /\ \A e \in s.barriers[b].required :
       \/ s.status[e] \in Known
       \/ /\ s.status[e] = "queued" /\ s.attempts[e] # <<>>
          /\ Last(s.attempts[e]).terminal = "pre_effect" /\ Last(s.attempts[e]).settled

Suspended(s, d) ==
  {b \in Commands : s.barriers[b].status = "suspended" /\ d \in s.barriers[b].required}

Opening(B, kind) ==
  Flatten([b \in Commands |->
    IF b \in B THEN <<[type |-> "barrier_released", group |-> b, kind |-> kind[b]]>> ELSE <<>>])

RecoverLater(g) ==
  LET d == cmd[g].sel
      a == <<d, cmd[g].n>>
      pre == Recovering(session, a)
      group == cmd[g].grp
      freed == (IF ClaimsOf(session, a) # {} THEN <<Held("claim_released", a, group)>> ELSE <<>>)
               \o (IF SlotsOf(session, a) # {} THEN <<Held("slot_released", a, group)>> ELSE <<>>)
      kind(s) == [b \in Commands |->
                    IF \A e \in s.barriers[b].required : s.status[e] = "cancelled"
                    THEN "cancelled" ELSE "blocked"]
  IN
  /\ cmd[g].pc = "recover" /\ WriterFree
  /\ IF Recoverable(session, a)
       THEN \E s \in {Project(session, pre \o freed)} :
              HoldOrGo(g, 0, pre \o freed
                             \o Opening({b \in Suspended(s, d) : NothingLeft(s, b, group)}, kind(s)),
                       "reclaim", "done")
       ELSE Goto(g, 0, "done") /\ UNCHANGED writer
  /\ UNCHANGED <<session, lease, op, child, gone, crashes>>

(* The operation is reconciled; a group with nothing admitted and no       *)
(* barrier left is closed.                                                 *)
Reclaim(g) ==
  /\ cmd[g].pc = "reclaim" /\ WriterFree
  /\ op' = Reconciled(<<cmd[g].sel, cmd[g].n>>)
  /\ cmd' = [cmd EXCEPT ![g].pc =
               IF ~Admitted(session, cmd[g].grp) /\ Suspended(session, cmd[g].sel) = {}
               THEN "unlease" ELSE "again"]
  /\ UNCHANGED <<session, writer, lease, child, thr, gone, crashes>>

(* The lease of the closed group is released whoever owns it. *)
Unlease(g) ==
  /\ cmd[g].pc = "unlease"
  /\ lease' = IF lease.state = "active" /\ lease.group = cmd[g].grp
                THEN [lease EXCEPT !.state = "released"] ELSE lease
  /\ Goto(g, 0, "again")
  /\ UNCHANGED <<session, writer, op, child, gone, crashes>>

Again(g) ==
  LET d == cmd[g].sel IN
  /\ cmd[g].pc = "again" /\ WriterFree
  /\ Goto(g, 0, IF ~RetryEligible(session, d) THEN "done"
                 ELSE IF session.envelopes[d] = 1 THEN "prepare" ELSE "read")
  /\ UNCHANGED <<session, writer, lease, op, child, gone, crashes>>

-----------------------------------------------------------------------------
(* DelegationGroupTakeoverReconciler: every child of the group has ended   *)
(* and is reconciled, and the coordinator is proven dead.                  *)


(* mutant: the status is enough *)
Absorbed_StatusOnly(s, a) == s.status[a[1]] \in Known

Absorbed(s, a) ==
  /\ op[a].state = "reconciled" /\ s.status[a[1]] \in KnownTerminal
  /\ Has(s, a[1], a[2]) /\ Attempt(s, a[1], a[2]).bound

Takeover(g) ==
  LET a == LastActor(session, cmd[g].sel)
      groups == {x.group : x \in SlotsOf(session, a) \cup ClaimsOf(session, a)}
      group == IF groups = {} THEN GroupOf(session, a) ELSE CHOOSE x \in groups : TRUE
      slots == {x.actor : x \in {y \in session.slots : y.group = group}}
      claims == {x.actor : x \in {y \in session.claims : y.group = group}}
  IN
  /\ cmd[g].pc = "takeover" /\ WriterFree
  /\ IF /\ Cardinality(groups) <= 1 /\ slots = claims
        /\ \A x \in slots : Absorbed(session, x)
       THEN /\ cmd' = [cmd EXCEPT ![g].pc = "seize", ![g].grp = group, ![g].from = session.nonce[group]]
            /\ UNCHANGED thr
       ELSE Over(g)
  /\ UNCHANGED <<session, writer, lease, op, child, gone, crashes>>

Seize(g) ==
  /\ cmd[g].pc = "seize"
  /\ IF lease.state = "active" /\ lease.group = cmd[g].grp /\ lease.owner \in gone
       THEN lease' = [lease EXCEPT !.owner = g, !.nonce = g] /\ Goto(g, 0, "adopt")
       ELSE Goto(g, 0, "done") /\ UNCHANGED lease
  /\ UNCHANGED <<session, writer, op, child, gone, crashes>>

Adopt(g) ==
  LET group == cmd[g].grp
      Mine(S, d) == {x \in S : x.actor[1] = d /\ x.group = group}
      given == Flatten([d \in Delegations |->
                 IF Mine(session.claims, d) # {}
                 THEN <<Held("claim_released", (CHOOSE x \in Mine(session.claims, d) : TRUE).actor, group)>>
                 ELSE <<>>])
      freed == Flatten([d \in Delegations |->
                 IF Mine(session.slots, d) # {}
                 THEN <<Held("slot_released", (CHOOSE x \in Mine(session.slots, d) : TRUE).actor, group)>>
                 ELSE <<>>])
      over == {b \in Commands : /\ session.barriers[b].status = "suspended"
                                 /\ \A e \in session.barriers[b].required :
                                      session.status[e] \in KnownTerminal}
      kind == [b \in Commands |->
                 IF \A e \in session.barriers[b].required : session.status[e] = "accepted"
                 THEN "completed" ELSE "blocked"]
  IN
  /\ cmd[g].pc = "adopt" /\ WriterFree
  /\ IF session.nonce[group] = cmd[g].from
       THEN /\ Hold(g, 0, <<[type |-> "takeover", group |-> group, from |-> cmd[g].from, to |-> g]>>
                          \o given \o freed \o Opening(over, kind),
                    "yield", "done")
            /\ Goto(g, 0, "holding")
       ELSE Goto(g, 0, "done") /\ UNCHANGED writer
  /\ UNCHANGED <<session, lease, op, child, gone, crashes>>

Yield(g) ==
  /\ cmd[g].pc = "yield"
  /\ lease' = IF lease.state = "active" /\ lease.group = cmd[g].grp /\ lease.nonce = g
                THEN [lease EXCEPT !.state = "released"] ELSE lease
  /\ Goto(g, 0, "done")
  /\ UNCHANGED <<session, writer, op, child, gone, crashes>>

-----------------------------------------------------------------------------
Command(g) ==
  \/ Read(g) \/ Fence(g) \/ Acquire(g) \/ AdmitGroup(g) \/ AppendPreEffectTerminal(g)
  \/ Finish(g) \/ ReleaseLease(g)
  \/ Inspect(g) \/ PrepareAgain(g) \/ RecoverLater(g) \/ Reclaim(g) \/ Unlease(g) \/ Again(g)
  \/ Takeover(g) \/ Seize(g) \/ Adopt(g) \/ Yield(g)

Launch(g, d) ==
  \/ LaunchRequest(g, d) \/ Spawn(g, d) \/ Handshake(g, d) \/ Start(g, d) \/ SendStart(g, d)
  \/ Fail(g, d) \/ RecordBlocked(g, d) \/ Recover(g, d) \/ Reconcile(g, d)
  \/ Release(g, d) \/ Prepare(g, d) \/ Readmit(g, d)
  \/ Wait(g, d) \/ Lost(g, d) \/ Import(g, d) \/ Receipt(g, d) \/ Settle(g, d)

Next ==
  \/ AppendEvent
  \/ \E d \in Delegations : Decide(d) \/ Enqueue(d) \/ PrepareEnvelope(d) \/ Cancel(d)
  \/ \E g \in Commands : Begin(g) \/ Command(g) \/ Abort(g) \/ Crash(g) \/ Exit(g)
  \/ \E g \in Commands, d \in Delegations : Launch(g, d) \/ PollCancel(g, d)
  \/ \E a \in Actors : ChildStart(a) \/ ChildEnd(a) \/ ChildDies(a)

Spec == Init /\ [][Next]_vars

-----------------------------------------------------------------------------
CommandSteps ==
  {"unused", "read", "fence", "acquire", "admit", "cancelled", "run", "release", "holding", "done",
   "inspect", "prepare", "recover", "reclaim", "unlease", "again", "takeover", "seize", "adopt", "yield"}
LaunchSteps ==
  {"idle", "launch", "holding", "spawn", "handshake", "start", "sending", "fail", "blocked", "recover",
   "reconcile", "release", "prepare", "readmit", "wait", "lost", "import", "receipt", "settle",
   "fulfilled", "rejected"}

(* The projection of the session and the records around it keep their      *)
(* shapes (DelegationProjectionV1, the operation and lease records).       *)
TypeOK ==
  /\ session.status \in [Delegations -> Statuses]
  /\ session.envelopes \in [Delegations -> 0..2]
  /\ \A d \in Delegations : \A i \in DOMAIN session.attempts[d] :
       /\ i <= MaxAttempts
       /\ session.attempts[d][i] \in [actor : 1..2, bound : BOOLEAN, started : BOOLEAN,
                                      terminal : Terminals, settled : BOOLEAN]
  /\ session.receipt \in [Delegations -> {"none"} \cup Known]
  /\ session.cancels \subseteq Delegations
  /\ session.slots \subseteq [actor : Actors, group : Commands, slot : 1..2]
  /\ session.claims \subseteq [actor : Actors, group : Commands]
  /\ session.nonce \in [Commands -> 0..MaxCommands]
  /\ \A b \in Commands :
       /\ session.barriers[b].status \in {"none", "requested", "suspended", "completed", "cancelled", "blocked"}
       /\ session.barriers[b].required \subseteq Delegations
  /\ writer.by \in 0..MaxCommands /\ writer.of \in 0..NDelegations
  /\ lease \in [state : {"none", "active", "released"}, group : 0..MaxCommands,
                owner : 0..MaxCommands, nonce : 0..MaxCommands]
  /\ op \in [Actors -> [state : OpStates, failure : {"none", "infra", "cancelled", "unknown"}]]
  /\ child \in [Actors -> [state : ChildStates, result : {"none"} \cup Outcomes]]
  /\ \A g \in Commands : cmd[g].pc \in CommandSteps /\ cmd[g].adm \subseteq Delegations
  /\ \A g \in Commands : \A d \in Delegations : thr[g][d].pc \in LaunchSteps
  /\ gone \subseteq Commands /\ crashes \in 0..MaxCrashes

Ran(a) == child[a].state \in {"running", "finished", "killed"}
Running(a) == child[a].state \in {"told", "running"}

(* At most one attempt of a delegation ever acts, whatever crashes,        *)
(* cancellations and retries there are: the retry is only for an attempt   *)
(* proven to have ended before its start barrier.                          *)
EffectsOnce ==
  \A d \in Delegations : \A n, m \in 1..2 : Ran(<<d, n>>) /\ Ran(<<d, m>>) => n = m

(* What the session calls a failure or a cancellation without effect       *)
(* (child.terminal pre_effect, owner.pre_effect.terminal) concerns a child *)
(* that never started and is gone.                                         *)
PreEffectIsProven ==
  \A d \in Delegations : \A i \in DOMAIN session.attempts[d] :
    LET t == session.attempts[d][i] IN
    t.terminal = "pre_effect" \/ (t.terminal = "cancelled_clean" /\ ~t.started)
      => child[<<d, t.actor>>].state \in {"none", "dead"}

(* The child's own slot and conflict claim are held, by the same group. *)
Holds(a) == \E x \in SlotsOf(session, a) : [actor |-> a, group |-> x.group] \in session.claims

(* A retried child of a group that another command has taken over. *)
Bypassed(a) ==
  /\ a[2] = 2
  /\ \E g \in Commands : a[1] \in session.barriers[g].required /\ session.nonce[g] \notin {0, g}

(* While a child may act, its own slot and conflict claim are held, also   *)
(* after its coordinator has died and a later command recovers or takes    *)
(* over what it left.  The exception is a retried child of a group that    *)
(* was taken over (TakeoverNeverGuesses).                                  *)
RunningChildIsAdmitted == \A a \in Actors : Running(a) => Holds(a) \/ Bypassed(a)

(* No two children whose workspace claims collide act at once, and never   *)
(* more than two, with the same exception.                                 *)
ParallelLimit ==
  LET acting == {a \in Actors : Running(a) /\ ~Bypassed(a)} IN
  /\ \A a, b \in acting : a # b => a[1] # b[1] /\ ~Collides(a, b)
  /\ Cardinality(acting) <= 2

(* What the takeover says of itself: it never guesses through an active    *)
(* child (delegation-group-takeover.ts), so no child that runs loses its   *)
(* claims to it.                                                           *)
TakeoverNeverGuesses == \A a \in Actors : Running(a) => Holds(a)

(* An operation is reconciled only when the session has absorbed it: its   *)
(* attempt has a terminal and its budget is settled.                       *)
ReconciledIsAbsorbed ==
  \A a \in Actors : op[a].state = "reconciled" =>
    /\ Has(session, a[1], a[2])
    /\ Attempt(session, a[1], a[2]).terminal # "none" /\ Attempt(session, a[1], a[2]).settled

(* A command opens the parent barrier of the group it starts, recovers or  *)
(* takes over only when none of that group is still admitted and no child  *)
(* of it can act, but for the retried child of a group that was taken over *)
(* (TakeoverNeverGuesses).  The recovery and the takeover of another group *)
(* that has the delegation in common do not look at this one's admissions. *)
BarrierOpensQuiet ==
  [][\A b \in Commands :
       /\ session.barriers[b].status = "suspended" /\ session'.barriers[b].status # "suspended"
       /\ b \in {writer.by, cmd[writer.by].grp}
       => /\ ~Admitted(session, b)
          /\ \A a \in Actors :
               GroupOf(session, a) = b /\ child[a].state \in Live => Bypassed(a)]_vars

(* A child is given its start frame only while no cancellation of its      *)
(* delegation is durable: the writer is held from the last fence through   *)
(* the send.                                                               *)
StartExcludesCancel ==
  [][\A a \in Actors : child[a].state # "told" /\ child'[a].state = "told"
       => a[1] \notin session.cancels]_vars

(* A launch has a step of its own, or it waits for its turn to retry and   *)
(* the launch of its group that has the turn has a step.                   *)
LaunchGoesOn(g, d) ==
  \/ ENABLED Launch(g, d)
  \/ /\ thr[g][d].pc = "release"
     /\ \E e \in cmd[g].adm : thr[g][e].pc \in {"prepare", "readmit"} /\ ENABLED Launch(g, e)

(* No launch and no command waits for ever, whatever the children do: who  *)
(* holds the session's writer can go on; while nobody does, every command  *)
(* under way has a step, every launch of its group that has not ended goes *)
(* on, however many of them retry at once (retryMutations), and when all   *)
(* have ended the group can be finished.  Every wait on a child has a      *)
(* deadline, so a child that never answers stops nobody.                   *)
NoCommandIsStuck ==
  IF WriterFree
  THEN \A g \in Commands :
         LET open == {d \in cmd[g].adm : thr[g][d].pc \notin {"fulfilled", "rejected"}} IN
         CASE cmd[g].pc \in {"unused", "done"} -> TRUE
           [] cmd[g].pc = "run" -> IF open = {} THEN ENABLED Finish(g)
                                   ELSE \A d \in open : LaunchGoesOn(g, d)
           [] OTHER -> ENABLED Command(g)
  ELSE ENABLED AppendEvent \/ ENABLED SendStart(writer.by, writer.of)

=============================================================================
